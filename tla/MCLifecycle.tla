----------------------------- MODULE MCLifecycle -----------------------------
(***************************************************************************)
(* Small instances of TokenLifecycle for TLC.                              *)
(***************************************************************************)
EXTENDS TokenLifecycle, TLC

CONSTANTS a1, a2, i1, w1, issuer, k1, k2, k3, m1, m2, m3, r1, r2, c5, c6

MintReq(a, i, n, fiat, k) ==
  [asset_id |-> a, investor_id |-> i, wallet_address |-> w1,
   token_amount |-> n, fiat_received |-> fiat, idempotency_key |-> k]
RedeemReq(i, n, k) ==
  [asset_id |-> a1, investor_id |-> i, wallet_address |-> w1,
   token_amount |-> n, idempotency_key |-> k]

Supply3 == a1 :> 3

\* One request takes the whole supply and another a part of it; the asset a2 has
\* no legal wrapper. The last takes one token off what is booked.
Contended == {MintReq(a1, i1, 3, 3, k1), MintReq(a1, i1, 2, 2, k2),
              MintReq(a2, i1, 1, 1, k3), MintReq(a1, i1, -1, 1, k3)}

\* The second can only be minted after the first has been redeemed, and never
\* be confirmed, for it is given away; or before that, after the third, which is
\* accepted and makes room for it.
Resold == {MintReq(a1, i1, 2, 3, k1), MintReq(a1, i1, 2, 0, k2),
           MintReq(a1, i1, -1, 1, k3)}

OneMint == {MintReq(a1, i1, 2, 3, k1)}
\* Two rows to lock for a balance of 2.
TwoMints == {MintReq(a1, i1, 1, 1, k1), MintReq(a1, i1, 1, 1, k2)}
OneRedemption == {RedeemReq(i1, 2, k1)}
\* Two redemptions of a balance that is enough for one.
Twice == {RedeemReq(i1, 2, k1), RedeemReq(i1, 2, k2)}

Alike == Permutations({m1, m2, m3}) \cup Permutations({c5, c6})

=============================================================================
