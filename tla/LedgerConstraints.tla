-------------------------- MODULE LedgerConstraints --------------------------
(***************************************************************************)
(* The two named constraints PostgreSQL checks on each row inserted into   *)
(* ledger_entries (schema.sql), whichever service inserts it. An INSERT    *)
(* that does not meet them fails, and its transaction with it.             *)
(***************************************************************************)
EXTENDS Integers

\* CONSTRAINT positive_amounts
PositiveAmounts(entry) == entry.debit >= 0 /\ entry.credit >= 0

\* CONSTRAINT single_side
SingleSide(entry) ==
  \/ entry.debit > 0 /\ entry.credit = 0
  \/ entry.debit = 0 /\ entry.credit > 0

LedgerUnchecked(entries) == TRUE
LedgerCheck(entries) ==
  \A entry \in entries : PositiveAmounts(entry) /\ SingleSide(entry)

=============================================================================
