------------------------------ MODULE MCAssets -------------------------------
(***************************************************************************)
(* A small instance of AssetLifecycle for TLC.                             *)
(***************************************************************************)
EXTENDS AssetLifecycle, TLC

CONSTANTS t1, t2, a1, a2, l1, l2, n1, n2, k1, k2, m1, m2, r1

\* The same asset is registered twice, once with a custodian nobody approved. At
\* the rate of 1 its first yield is 365 and the next, compounded, 366.
Registrations ==
  {[total_value |-> 365 * 365, custodian |-> c, idempotency_key |-> k1] :
     c \in {"approved", "unknown"}}

\* Two days with a yield, and one without.
Days == {[rate |-> 1, idempotency_key |-> k1], [rate |-> 1, idempotency_key |-> k2],
         [rate |-> 0, idempotency_key |-> k1]}

Supplies == {0, 365}

\* Two mints, each as large as the first yield or as much off the books, and one
\* redemption of the first.
Mints == {[id |-> id, req |-> [asset_id |-> a1, token_amount |-> n]] :
            id \in {m1, m2}, n \in {365, -365}}
AmountOfMint == [m \in Mints |-> m.req.token_amount]
RedemptionOf365 == [r \in {[id |-> r1, req |-> [asset_id |-> a1]]} |-> 365]

\* The custodian has booked no yield, or the first.
Reports == {365 * 365, 365 * 366}

Alike == Permutations({t1, t2}) \cup Permutations({l1, l2}) \cup Permutations({n1, n2})
           \cup Permutations({m1, m2})

=============================================================================
