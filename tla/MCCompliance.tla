---------------------------- MODULE MCCompliance -----------------------------
(***************************************************************************)
(* Small instances of Compliance for TLC.                                  *)
(***************************************************************************)
EXTENDS Compliance, TLC

CONSTANTS i1, i2, i3, w1, w2, k1, k2, k3, c1, c2

OnboardReq(i, w, k) == [investor_id |-> i, wallet_address |-> w, idempotency_key |-> k]

\* One investor with two wallets, whose first one may be onboarded again, and
\* two others, turned down, who ask for his wallets under his keys.
Applications == {OnboardReq(i1, w1, k1), OnboardReq(i1, w2, k2),
                 OnboardReq(i1, w1, k3), OnboardReq(i2, w1, k1),
                 OnboardReq(i3, w2, k2)}

\* Two investors with a wallet each, of which the first may be granted again.
Neighbours == {OnboardReq(i1, w1, k1), OnboardReq(i1, w1, k3), OnboardReq(i2, w2, k2)}

\* Two onboarders are alike.
Callers == Permutations({c1, c2})

=============================================================================
