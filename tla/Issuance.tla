------------------------------ MODULE Issuance -------------------------------
(***************************************************************************)
(* What minting and redemption together promise about an asset's supply,   *)
(* with no calls, locks or statements: tokens are issued against the       *)
(* legal supply in one step, once per idempotency key, and come back only  *)
(* when a redemption is retired, once. Nothing is ever un-issued.          *)
(***************************************************************************)
EXTENDS Integers, Sums

CONSTANTS
  TokenSupply,        \* the legal supply of each asset that has one
  MintAmount,         \* the tokens of each possible mint row
  RedemptionAmount    \* the tokens of each possible redemption row

VARIABLES issued, retired

IssuedOf(a) == {m \in issued : m.req.asset_id = a}
RetiredOf(a) == {r \in retired : r.req.asset_id = a}

Outstanding(a) ==
  SumOver(MintAmount, IssuedOf(a)) - SumOver(RedemptionAmount, RetiredOf(a))

Init == issued = {} /\ retired = {}

Issue(m) ==
  /\ m.req.asset_id \in DOMAIN TokenSupply
  /\ \A n \in issued : n.id # m.id /\ n.req.idempotency_key # m.req.idempotency_key
  /\ Outstanding(m.req.asset_id) + m.req.token_amount
       <= TokenSupply[m.req.asset_id]
  /\ issued' = issued \cup {m}
  /\ UNCHANGED retired

Retire(r) ==
  /\ r \notin retired
  /\ retired' = retired \cup {r}
  /\ UNCHANGED issued

Next == (\E m \in issued' : Issue(m)) \/ (\E r \in retired' : Retire(r))

Spec == Init /\ [][Next]_<<issued, retired>>

=============================================================================
