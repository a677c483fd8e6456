------------------------------ MODULE Whitelist ------------------------------
(***************************************************************************)
(* What the rest of the system may assume about the whitelist: wallets are *)
(* granted one at a time, and revoked all those of an investor at once.    *)
(***************************************************************************)
CONSTANTS Wallets

VARIABLES whitelisted

Init == whitelisted = {}

Grant(w) == whitelisted' = whitelisted \cup {w}

Revoke(S) == whitelisted' = whitelisted \ S

Next == (\E w \in Wallets : Grant(w)) \/ (\E S \in SUBSET Wallets : Revoke(S))

Spec == Init /\ [][Next]_whitelisted

=============================================================================
