----------------------------- MODULE Circulation -----------------------------
(***************************************************************************)
(* What minting, redemption, the signer and the chain together promise     *)
(* about the four stations of a token: issued in the tables, minted on     *)
(* chain, burned on chain, retired from the tables, in this order. Nothing *)
(* is on chain that was not issued, nothing is retired that was not        *)
(* burned, and no station is ever left. The amounts of the tables are      *)
(* signed and those of the chain are not: rows of negative amounts stay in *)
(* the tables. TokenLifecycle implements it, and AssetLifecycle takes it   *)
(* for the token services.                                                 *)
(***************************************************************************)
EXTENDS Integers, FiniteSets, Sums

CONSTANTS
  MintAmount,         \* the tokens of each possible mint row
  RedemptionAmount    \* the tokens of each possible redemption row

ASSUME CirculationAssumption ==
  /\ \A m \in DOMAIN MintAmount : MintAmount[m] \in Int
  /\ \A r \in DOMAIN RedemptionAmount : RedemptionAmount[r] \in Int

VARIABLES issued, minted, burned, retired

circulation == <<issued, minted, burned, retired>>

OfAsset(rows, a) == {x \in rows : x.req.asset_id = a}
Tokens(rows, a) == SumOver(MintAmount, OfAsset(rows, a))
Redeemed(rows, a) == SumOver(RedemptionAmount, OfAsset(rows, a))

ChainSupply(a) == Tokens(minted, a) - Redeemed(burned, a)

CirculationTypeOK ==
  /\ issued \subseteq DOMAIN MintAmount /\ IsFiniteSet(issued)
  /\ minted \subseteq {m \in issued : MintAmount[m] >= 0}
  /\ burned \subseteq {r \in DOMAIN RedemptionAmount : RedemptionAmount[r] >= 0}
  /\ IsFiniteSet(burned)
  /\ retired \subseteq burned

CirculationInit == issued = {} /\ minted = {} /\ burned = {} /\ retired = {}

Issue(m) ==
  /\ \A n \in issued : n.id # m.id
  /\ issued' = issued \cup {m}
  /\ UNCHANGED <<minted, burned, retired>>

MintOnChain(m) ==
  /\ m \in issued \ minted
  /\ MintAmount[m] >= 0
  /\ minted' = minted \cup {m}
  /\ UNCHANGED <<issued, burned, retired>>

BurnOnChain(r) ==
  /\ r \notin burned
  /\ 0 <= RedemptionAmount[r]
  /\ RedemptionAmount[r] <= ChainSupply(r.req.asset_id)
  /\ burned' = burned \cup {r}
  /\ UNCHANGED <<issued, minted, retired>>

Retire(r) ==
  /\ r \in burned \ retired
  /\ retired' = retired \cup {r}
  /\ UNCHANGED <<issued, minted, burned>>

CirculationNext ==
  \/ \E m \in issued' : Issue(m)
  \/ \E m \in issued : MintOnChain(m)
  \/ \E r \in burned' : BurnOnChain(r) \/ Retire(r)

CirculationSpec == CirculationInit /\ [][CirculationNext]_circulation

=============================================================================
