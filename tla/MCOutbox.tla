------------------------------ MODULE MCOutbox -------------------------------
(***************************************************************************)
(* Small instances of Outbox for TLC.                                      *)
(***************************************************************************)
EXTENDS Outbox

CONSTANTS e1, e2, p1, p2

=============================================================================
