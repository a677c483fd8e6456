-------------------------- MODULE SettlementProofs ---------------------------
(***************************************************************************)
(* From the tables to the chain and back. settle_redemption reads a status *)
(* without a lock and commits later, the chain mints and burns on its own  *)
(* time: for any number of callers, wallets and requests a redemption is   *)
(* settled only after its tokens were burned, the chain exceeds the legal  *)
(* supply by what negative mints took off the books at most (Understated), *)
(* and the four stations of a token are passed in the order Circulation    *)
(* states. The last needs that the burned tokens of any set of wallets are *)
(* covered by those minted to them (Covered): the token contract looks at  *)
(* one wallet only. Then the books: every row is of an event that has      *)
(* happened (BooksInv), so those of the next event are new and add the     *)
(* same to both sides. The last section counts the settlements of a        *)
(* redemption (SettlementInv).                                             *)
(***************************************************************************)
EXTENDS SupplyProofs, RedemptionProofs

\* What the chain executed is on record.
ChainIsOnRecord ==
  /\ \A id \in chain_minted : \E m \in token_mints : m.id = id
  /\ \A id \in chain_burned : \E r \in token_redemptions : r.id = id

\* The token contract takes unsigned amounts.
ChainIsUnsigned ==
  /\ \A m \in token_mints : m.id \in chain_minted => m.req.token_amount >= 0
  /\ \A r \in token_redemptions : r.id \in chain_burned => r.req.token_amount >= 0

\* The status of a burn is reported after it, the settlement follows the report.
FinalAfterBurn ==
  \A id \in RedemptionIds : \A k \in DOMAIN token_redemption_events[id] :
    token_redemption_events[id][k].status \in {"burned", "settled"} =>
      id \in chain_burned

\* A settlement that passed its check is about burned tokens, even if the status
\* it has read is no longer the latest.
SettlingBurned ==
  \A s \in SettleCallers :
    settle_call[s].pc = "commit" => settle_call[s].id \in chain_burned

BurnInv ==
  /\ IdsAreUnique
  /\ ChainIsOnRecord
  /\ ChainIsUnsigned
  /\ FinalAfterBurn
  /\ SettlingBurned
  /\ SettledOnlyAfterBurn

-----------------------------------------------------------------------------
(* Who writes what.                                                        *)

\* Only the chain changes what is on chain.
LEMMA ChainOnlyByChain ==
  ASSUME [Next]_vars
  PROVE  \/ \E m \in token_mints : ChainMint(m)
         \/ \E r \in token_redemptions : ChainBurn(r)
         \/ UNCHANGED chain_vars
BY DEF Next, vars, MintStepOf, RedeemStepOf, SettleStepOf, Confirm, TrackBurn,
   Compliance, chain_vars

\* The event that orders the wire comes from a settlement.
LEMMA WireOnlyBySettle ==
  ASSUME [Next]_vars, NEW e \in outbox_events',
         e.event_type = "token.redemption_settled"
  PROVE  \/ e \in outbox_events
         \/ \E s \in SettleCallers :
              /\ SettleStepOf(s) /\ SettleCommit(s)
              /\ e.aggregate_id = settle_call[s].id
<1>1. ASSUME NEW type, NEW id, NEW n, type # "token.redemption_settled",
             outbox_events' = outbox_events \cup {OutboxEvent(type, id, n)}
      PROVE  e \in outbox_events
  BY <1>1 DEF OutboxEvent
<1>2. ASSUME NEW c \in MintCallers, MintInsert(c) PROVE e \in outbox_events
  BY <1>1, <1>2 DEF MintInsert
<1>3. ASSUME NEW c \in RedeemCallers, RedeemInsert(c) PROVE e \in outbox_events
  BY <1>1, <1>3 DEF RedeemInsert
<1>4. ASSUME NEW m \in token_mints, Confirm(m) PROVE e \in outbox_events
  BY <1>1, <1>4 DEF Confirm, ConfirmMint
<1>5. ASSUME NEW s \in SettleCallers, SettleStepOf(s), SettleCommit(s), e \notin outbox_events
      PROVE  e.aggregate_id = settle_call[s].id
  BY <1>5 DEF SettleCommit, OutboxEvent
<1>6. \/ \E c \in MintCallers : MintInsert(c)
      \/ \E c \in RedeemCallers : RedeemInsert(c)
      \/ \E m \in token_mints : Confirm(m)
      \/ \E s \in SettleCallers : SettleStepOf(s) /\ SettleCommit(s)
      \/ UNCHANGED outbox_events
  BY DEF Next, vars, MintStepOf, MintStep, MintReplay, MintStart, MintCheckSender,
     MintCheckReceiver, MintLockSupply, MintSupplyNotFound, MintSumMinted,
     MintSumRedeemed, MintReject, MintSend, MintFail, RedeemStepOf, RedeemStep,
     RedeemReplay, RedeemStart, RedeemCheckSender, RedeemCheckReceiver,
     RedeemScanBalance, RedeemLockRow, RedeemSumBalance, RedeemReject,
     RedeemSend, RedeemFail, SettleStepOf, SettleStep, SettleBegin,
     SettleReadStatus, SettleFail, ChainMint, ChainBurn, TrackBurn,
     Compliance, GrantWallet, RevokeWallet, store_vars
<1> QED
  BY <1>2, <1>3, <1>4, <1>5, <1>6

\* A settlement reaches its commit through the status check only.
LEMMA CommitOnlyByCheck ==
  ASSUME TypeOK, [Next]_vars, NEW s \in SettleCallers, settle_call'[s].pc = "commit"
  PROVE  \/ settle_call'[s] = settle_call[s]
         \/ /\ settle_call'[s].id = settle_call[s].id
            /\ settle_call[s].id \in RedemptionIds
            /\ LatestIs(settle_call[s].id, "burned")
            /\ UNCHANGED chain_vars
<1>1. CASE UNCHANGED settle_call
  BY <1>1
<1>2. ASSUME NEW t \in SettleCallers, SettleStepOf(t), t # s
      PROVE  settle_call'[s] = settle_call[s]
  BY <1>2 DEF SettleStepOf, SettleStep, SettleBegin, SettleReadStatus, SettleCommit,
     SettleFail, SettleReturn, TypeOK, RedemptionTypeOK
<1>3. CASE SettleStepOf(s)
  <2>1. settle_call[s] \in SettleFrameType /\ settle_call \in [SettleCallers -> SettleFrameType]
    BY DEF TypeOK, RedemptionTypeOK
  <2>2. ASSUME SettleReturn(s) PROVE FALSE
    BY <2>1, <2>2 DEF SettleReturn, IdleSettle, SettleFrame
  <2>3. ASSUME NEW id, SettleBegin(s, id) PROVE FALSE
    BY <2>1, <2>3 DEF SettleBegin, SettleFrame
  <2>4. SettleReadStatus(s)
    BY <1>3, <2>2, <2>3 DEF SettleStepOf, SettleStep, SettleCommit, SettleFail
  <2>5. /\ LatestIs(settle_call[s].id, "burned")
        /\ settle_call' = [settle_call EXCEPT ![s].pc = "commit"]
        /\ settle_call[s].pc = "read_status"
    BY <2>2, <2>4 DEF SettleReadStatus, RequiredStatus
  <2>6. settle_call'[s].id = settle_call[s].id
    BY <2>1, <2>5 DEF SettleFrameType
  <2>7. settle_call[s].id \in RedemptionIds
    BY <2>5 DEF TypeOK, RedemptionTypeOK, SettleRunning
  <2> QED
    BY <1>3, <2>5, <2>6, <2>7 DEF SettleStepOf
<1>4. (\E t \in SettleCallers : SettleStepOf(t)) \/ UNCHANGED settle_call
  BY DEF Next, vars, MintStepOf, RedeemStepOf, RedeemStep, RedeemReplay, RedeemStart,
     RedeemCheckSender, RedeemCheckReceiver, RedeemScanBalance, RedeemLockRow,
     RedeemSumBalance, RedeemInsert, RedeemReject, RedeemSend, RedeemFail, Confirm,
     ChainMint, ChainBurn, TrackBurn, Compliance, redemption_vars
<1> QED
  BY <1>1, <1>2, <1>3, <1>4

-----------------------------------------------------------------------------
(* Settled after burned.                                                   *)

\* Nothing is on chain, on record or being settled at first.
LEMMA BurnInit == Init => BurnInv
BY DEF Init, StoreInit, RedemptionInit, IdleSettle, SettleFrame, BurnInv, IdsAreUnique,
   ChainIsOnRecord, ChainIsUnsigned, FinalAfterBurn, SettlingBurned,
   SettledOnlyAfterBurn

\* The invariant is inductive, given the types.
LEMMA BurnStep == TypeOK /\ BurnInv /\ [Next]_vars => BurnInv'
<1> SUFFICES ASSUME TypeOK, BurnInv, [Next]_vars PROVE BurnInv'
  OBVIOUS
<1> USE DEF BurnInv
<1>1. chain_burned \subseteq chain_burned'
  BY ChainOnlyByChain DEF ChainMint, ChainBurn, chain_vars
<1>2. IdsAreUnique'
  BY RowsGrow DEF IdsAreUnique
<1>3. ChainIsOnRecord'
  <2>1. token_mints \subseteq token_mints' /\ token_redemptions \subseteq token_redemptions'
    BY RowsGrow
  <2>2. ASSUME NEW id \in chain_minted' PROVE \E m \in token_mints' : m.id = id
    BY <2>1, <2>2, ChainOnlyByChain DEF ChainMint, ChainBurn, chain_vars, ChainIsOnRecord
  <2>3. ASSUME NEW id \in chain_burned' PROVE \E r \in token_redemptions' : r.id = id
    BY <2>1, <2>3, ChainOnlyByChain DEF ChainMint, ChainBurn, chain_vars, ChainIsOnRecord
  <2> QED
    BY <2>2, <2>3 DEF ChainIsOnRecord
<1>4. FinalAfterBurn'
  <2> SUFFICES ASSUME NEW id \in RedemptionIds,
                      NEW k \in DOMAIN token_redemption_events'[id],
                      token_redemption_events'[id][k].status \in {"burned", "settled"}
               PROVE  id \in chain_burned
    BY <1>1 DEF FinalAfterBurn
  <2>1. ASSUME NEW i \in RedemptionIds, NEW status, NEW at, AppendStatus(i, status, at),
               status \in {"burned", "settled"} => i \in chain_burned
        PROVE  id \in chain_burned
    <3> DEFINE e == [status |-> status, created_at |-> at]
               old == token_redemption_events[id]
    <3>1. token_redemption_events'[id] = IF id = i THEN Append(old, e) ELSE old
      BY <2>1 DEF AppendStatus, TypeOK, StoreTypeOK
    <3>2. old \in Seq(StatusEventType)
      BY DEF TypeOK, StoreTypeOK
    <3>3. CASE k \in DOMAIN old /\ token_redemption_events'[id][k] = old[k]
      BY <3>3 DEF FinalAfterBurn
    <3>4. CASE id = i /\ Append(old, e)[k] = e
      BY <2>1, <3>1, <3>4
    <3>5. id = i => (k \in DOMAIN old /\ Append(old, e)[k] = old[k]) \/ Append(old, e)[k] = e
      BY <3>1, <3>2
    <3> QED
      BY <3>1, <3>3, <3>4, <3>5
  <2>2. ASSUME NEW s \in SettleCallers, SettleCommit(s) PROVE id \in chain_burned
    <3>1. settle_call[s].id \in RedemptionIds /\ settle_call[s].id \in chain_burned
      BY <2>2 DEF SettleCommit, SettlingBurned, TypeOK, RedemptionTypeOK, SettleRunning
    <3> QED
      BY <2>1, <2>2, <3>1 DEF SettleCommit
  <2>3. ASSUME NEW r \in token_redemptions, NEW status \in RedemptionStatuses,
               TrackBurn(r, status)
        PROVE  id \in chain_burned
    <3>1. r.id \in RedemptionIds
      BY DEF TypeOK, StoreTypeOK, RedemptionRows
    <3>2. PICK at : AppendStatus(r.id, status, at)
      BY <2>3 DEF TrackBurn
    <3> QED
      BY <2>1, <2>3, <3>1, <3>2 DEF TrackBurn
  <2>4. CASE UNCHANGED token_redemption_events
    BY <2>4 DEF FinalAfterBurn
  <2> QED
    BY <2>2, <2>3, <2>4, StatusOnlyByTwo
<1>5. SettlingBurned'
  <2> SUFFICES ASSUME NEW s \in SettleCallers, settle_call'[s].pc = "commit"
               PROVE  settle_call'[s].id \in chain_burned'
    BY DEF SettlingBurned
  <2>1. CASE settle_call'[s] = settle_call[s]
    BY <1>1, <2>1 DEF SettlingBurned
  <2>2. CASE /\ settle_call'[s].id = settle_call[s].id
             /\ settle_call[s].id \in RedemptionIds
             /\ LatestIs(settle_call[s].id, "burned")
    BY <1>1, <2>2 DEF LatestIs, FinalAfterBurn
  <2> QED
    BY <2>1, <2>2, CommitOnlyByCheck
<1>6. SettledOnlyAfterBurn'
  <2> SUFFICES ASSUME NEW e \in outbox_events', e.event_type = "token.redemption_settled"
               PROVE  e.aggregate_id \in chain_burned'
    BY DEF SettledOnlyAfterBurn
  <2> QED
    BY <1>1, WireOnlyBySettle DEF SettledOnlyAfterBurn, SettlingBurned, SettleCommit
<1>7. ChainIsUnsigned'
  <2>1. ASSUME NEW m \in token_mints', m.id \in chain_minted' PROVE m.req.token_amount >= 0
    <3>1. CASE m.id \in chain_minted
      <4>1. PICK n \in token_mints : n.id = m.id
        BY <3>1 DEF ChainIsOnRecord
      <4>2. m = n
        BY <1>2, <2>1, <4>1, RowsGrow DEF IdsAreUnique
      <4> QED
        BY <3>1, <4>2 DEF ChainIsUnsigned
    <3>2. CASE m.id \notin chain_minted
      <4>1. PICK n \in token_mints : ChainMint(n) /\ m.id = n.id
        BY <2>1, <3>2, ChainOnlyByChain DEF ChainMint, ChainBurn, chain_vars
      <4>2. m = n
        BY <1>2, <2>1, <4>1, RowsGrow DEF IdsAreUnique
      <4>3. MintAmount[n] >= 0 /\ MintAmount[n] = n.req.token_amount
        BY <4>1, AmountsInt DEF ChainMint, TypeOK, StoreTypeOK
      <4> QED
        BY <4>2, <4>3
    <3> QED
      BY <3>1, <3>2
  <2>2. ASSUME NEW r \in token_redemptions', r.id \in chain_burned'
        PROVE  r.req.token_amount >= 0
    <3>1. CASE r.id \in chain_burned
      <4>1. PICK q \in token_redemptions : q.id = r.id
        BY <3>1 DEF ChainIsOnRecord
      <4>2. r = q
        BY <1>2, <2>2, <4>1, RowsGrow DEF IdsAreUnique
      <4> QED
        BY <3>1, <4>2 DEF ChainIsUnsigned
    <3>2. CASE r.id \notin chain_burned
      <4>1. PICK q \in token_redemptions : ChainBurn(q) /\ r.id = q.id
        BY <2>2, <3>2, ChainOnlyByChain DEF ChainMint, ChainBurn, chain_vars
      <4>2. r = q
        BY <1>2, <2>2, <4>1, RowsGrow DEF IdsAreUnique
      <4>3. 0 <= q.req.token_amount /\ q.req.token_amount \in Int
        BY <4>1, StoreAssumption
           DEF ChainBurn, TypeOK, StoreTypeOK, RedemptionRows, RedemptionRequestType
      <4> QED
        BY <4>2, <4>3
    <3> QED
      BY <3>1, <3>2
  <2> QED
    BY <2>1, <2>2 DEF ChainIsUnsigned
<1> QED
  BY <1>2, <1>3, <1>4, <1>5, <1>6, <1>7

\* The burn and what is known of it in every reachable state.
THEOREM BurnInvariant == Spec => []BurnInv
<1>1. Init /\ [][Next]_vars /\ []TypeOK => []BurnInv
  BY BurnInit, BurnStep, PTL
<1> QED
  BY <1>1, TypeCorrect, PTL DEF Spec

\* Fiat is wired only for tokens that left the chain, whatever happens between
\* the status check of settle_redemption and its commit.
THEOREM SettlesOnlyBurned == Spec => []SettledOnlyAfterBurn
<1>1. BurnInv => SettledOnlyAfterBurn
  BY DEF BurnInv
<1> QED
  BY <1>1, BurnInvariant, PTL

-----------------------------------------------------------------------------
(* The four stations.                                                      *)

Minted == {m \in token_mints : m.id \in chain_minted}
Burned == {r \in token_redemptions : r.id \in chain_burned}
Retired == {r \in token_redemptions : IsSettled(r.id)}

\* Tokens minted to, and burned from, some wallets of an asset.
MintedTo(W, a) == {m \in Minted : m.req.asset_id = a /\ m.req.wallet_address \in W}
BurnedFrom(W, a) == {r \in Burned : r.req.asset_id = a /\ r.req.wallet_address \in W}

Covered ==
  \A a \in Assets, W \in SUBSET Wallets :
    SumOver(RedemptionAmount, BurnedFrom(W, a)) <= SumOver(MintAmount, MintedTo(W, a))

\* The stations are parts of the tables, a redemption is burned before it is
\* retired, and requests name assets and wallets.
LEMMA StationsType ==
  ASSUME TypeOK, BurnInv
  PROVE  /\ Minted \subseteq token_mints /\ Burned \subseteq token_redemptions
         /\ Retired \subseteq Burned
         /\ IsFiniteSet(Minted) /\ IsFiniteSet(Burned)
         /\ \A m \in token_mints :
              /\ m \in MintRows /\ m.id \in MintIds /\ MintAmount[m] \in Int
              /\ m.req.asset_id \in Assets /\ m.req.wallet_address \in Wallets
         /\ \A r \in token_redemptions :
              /\ r \in RedemptionRows /\ r.id \in RedemptionIds
              /\ RedemptionAmount[r] = r.req.token_amount
              /\ RedemptionAmount[r] \in Int
              /\ r.req.asset_id \in Assets /\ r.req.wallet_address \in Wallets
         /\ \A m \in Minted : MintAmount[m] \in Nat
         /\ \A r \in Burned : RedemptionAmount[r] \in Nat
<1>1. Minted \subseteq token_mints /\ Burned \subseteq token_redemptions
  BY DEF Minted, Burned
<1>2. IsFiniteSet(Minted) /\ IsFiniteSet(Burned)
  BY <1>1, FS_Subset DEF TypeOK, StoreTypeOK
<1>3. \A m \in token_mints :
        /\ m \in MintRows /\ m.id \in MintIds /\ MintAmount[m] \in Int
        /\ m.req.asset_id \in Assets /\ m.req.wallet_address \in Wallets
  BY AmountsInt, StoreAssumption DEF TypeOK, StoreTypeOK, MintRows, MintRequestType
<1>4. \A r \in token_redemptions :
        /\ r \in RedemptionRows /\ r.id \in RedemptionIds
        /\ RedemptionAmount[r] = r.req.token_amount
        /\ RedemptionAmount[r] \in Int
        /\ r.req.asset_id \in Assets /\ r.req.wallet_address \in Wallets
  BY AmountsInt, StoreAssumption
     DEF TypeOK, StoreTypeOK, RedemptionRows, RedemptionRequestType
<1>5. Retired \subseteq Burned
  BY <1>4 DEF Retired, Burned, IsSettled, BurnInv, FinalAfterBurn
<1>6. ASSUME NEW m \in Minted PROVE MintAmount[m] \in Nat
  <2>1. MintAmount[m] = m.req.token_amount /\ MintAmount[m] \in Int
    BY <1>1, AmountsInt DEF TypeOK, StoreTypeOK
  <2>2. m.req.token_amount >= 0
    BY DEF Minted, BurnInv, ChainIsUnsigned
  <2> QED
    BY <2>1, <2>2
<1>7. ASSUME NEW r \in Burned PROVE RedemptionAmount[r] \in Nat
  <2>1. RedemptionAmount[r] = r.req.token_amount /\ RedemptionAmount[r] \in Int
    BY <1>1, <1>4
  <2>2. r.req.token_amount >= 0
    BY DEF Burned, BurnInv, ChainIsUnsigned
  <2> QED
    BY <2>1, <2>2
<1> QED
  BY <1>1, <1>2, <1>3, <1>4, <1>5, <1>6, <1>7

\* A set of rows summed in two parts, those of one wallet and the others.
LEMMA CoveredAlso ==
  ASSUME TypeOK, BurnInv, Covered, NEW r \in token_redemptions,
         NEW W \in SUBSET Wallets, r.req.wallet_address \in W,
         r.req.token_amount <= WalletBalance(r.req.wallet_address, r.req.asset_id)
  PROVE  LET a == r.req.asset_id IN
         RedemptionAmount[r] + SumOver(RedemptionAmount, BurnedFrom(W, a))
           <= SumOver(MintAmount, MintedTo(W, a))
<1> DEFINE a == r.req.asset_id
           w == r.req.wallet_address
           V == W \ {w}
<1>1. a \in Assets /\ w \in Wallets /\ RedemptionAmount[r] = r.req.token_amount
        /\ RedemptionAmount[r] \in Int /\ V \in SUBSET Wallets
  BY StationsType
<1>2. WalletBalance(w, a) = SumOver(MintAmount, MintedTo({w}, a))
                              - SumOver(RedemptionAmount, BurnedFrom({w}, a))
  <2>1. {m \in {m \in MintsOf(a) : m.req.wallet_address = w} : m.id \in chain_minted}
          = MintedTo({w}, a)
    BY DEF MintsOf, MintedTo, Minted
  <2>2. {q \in {q \in token_redemptions :
                  q.req.asset_id = a /\ q.req.wallet_address = w} : q.id \in chain_burned}
          = BurnedFrom({w}, a)
    BY DEF BurnedFrom, Burned
  <2> QED
    BY <2>1, <2>2 DEF WalletBalance, OnChain
<1>3. /\ MintedTo({w}, a) \subseteq MintedTo(W, a)
      /\ MintedTo(W, a) \ MintedTo({w}, a) = MintedTo(V, a)
      /\ IsFiniteSet(MintedTo(W, a))
      /\ \A m \in MintedTo(W, a) : MintAmount[m] \in Nat
  <2>1. MintedTo(W, a) \subseteq Minted
    BY DEF MintedTo
  <2>2. IsFiniteSet(MintedTo(W, a)) /\ \A m \in MintedTo(W, a) : MintAmount[m] \in Nat
    BY <2>1, StationsType, FS_Subset
  <2> QED
    BY <2>2 DEF MintedTo
<1>4. /\ BurnedFrom({w}, a) \subseteq BurnedFrom(W, a)
      /\ BurnedFrom(W, a) \ BurnedFrom({w}, a) = BurnedFrom(V, a)
      /\ IsFiniteSet(BurnedFrom(W, a))
      /\ \A q \in BurnedFrom(W, a) : RedemptionAmount[q] \in Nat
  <2>1. BurnedFrom(W, a) \subseteq Burned
    BY DEF BurnedFrom
  <2>2. IsFiniteSet(BurnedFrom(W, a))
          /\ \A q \in BurnedFrom(W, a) : RedemptionAmount[q] \in Nat
    BY <2>1, StationsType, FS_Subset
  <2> QED
    BY <2>2 DEF BurnedFrom
<1> DEFINE mw == SumOver(MintAmount, MintedTo({w}, a))
           mv == SumOver(MintAmount, MintedTo(V, a))
           bw == SumOver(RedemptionAmount, BurnedFrom({w}, a))
           bv == SumOver(RedemptionAmount, BurnedFrom(V, a))
<1>5. SumOver(MintAmount, MintedTo(W, a)) = mw + mv
  <2>1. SumOver(MintAmount, MintedTo(W, a)) =
          mw + SumOver(MintAmount, MintedTo(W, a) \ MintedTo({w}, a))
    <3> DEFINE S == MintedTo(W, a)
               R == MintedTo({w}, a)
    <3>1. IsFiniteSet(S) /\ R \in SUBSET S /\ \A m \in S : MintAmount[m] \in Nat
      BY <1>3
    <3> HIDE DEF S, R
    <3>2. SumOver(MintAmount, S) = SumOver(MintAmount, R) + SumOver(MintAmount, S \ R)
      BY <3>1, SumSplit
    <3> QED
      BY <3>2 DEF S, R
  <2> QED
    BY <1>3, <2>1
<1>6. SumOver(RedemptionAmount, BurnedFrom(W, a)) = bw + bv
  <2>1. SumOver(RedemptionAmount, BurnedFrom(W, a)) =
          bw + SumOver(RedemptionAmount, BurnedFrom(W, a) \ BurnedFrom({w}, a))
    <3> DEFINE S == BurnedFrom(W, a)
               R == BurnedFrom({w}, a)
    <3>1. IsFiniteSet(S) /\ R \in SUBSET S /\ \A q \in S : RedemptionAmount[q] \in Nat
      BY <1>4
    <3> HIDE DEF S, R
    <3>2. SumOver(RedemptionAmount, S)
            = SumOver(RedemptionAmount, R) + SumOver(RedemptionAmount, S \ R)
      BY <3>1, SumSplit
    <3> QED
      BY <3>2 DEF S, R
  <2> QED
    BY <1>4, <2>1
<1>7. mw \in Nat /\ mv \in Nat
  <2>1. /\ IsFiniteSet(MintedTo({w}, a)) /\ IsFiniteSet(MintedTo(V, a))
        /\ MintedTo(V, a) \subseteq MintedTo(W, a)
    BY <1>3, FS_Subset
  <2> QED
    BY <1>3, <2>1, SumNat
<1>8. bw \in Nat /\ bv \in Nat
  <2>1. /\ IsFiniteSet(BurnedFrom({w}, a)) /\ IsFiniteSet(BurnedFrom(V, a))
        /\ BurnedFrom(V, a) \subseteq BurnedFrom(W, a)
    BY <1>4, FS_Subset
  <2> QED
    BY <1>4, <2>1, SumNat
<1>9. bv <= mv
  BY <1>1 DEF Covered
<1>10. RedemptionAmount[r] <= mw - bw
  BY <1>1, <1>2
<1> HIDE DEF mw, mv, bw, bv
<1>11. RedemptionAmount[r] + (bw + bv) <= mw + mv
  BY <1>1, <1>7, <1>8, <1>9, <1>10
<1> QED
  BY <1>5, <1>6, <1>11

\* Every step moves one row to its next station, or none.
LEMMA StationsStep ==
  ASSUME TypeOK, BurnInv, [Next]_vars
  PROVE  \/ UNCHANGED <<token_mints, Minted, Burned, Retired>>
         \/ \E m \in MintRows :
              /\ \A n \in token_mints : n.id # m.id
              /\ token_mints' = token_mints \cup {m}
              /\ UNCHANGED <<Minted, Burned, Retired>>
         \/ \E m \in token_mints \ Minted :
              /\ MintAmount[m] >= 0
              /\ Minted' = Minted \cup {m}
              /\ UNCHANGED <<token_mints, Burned, Retired>>
         \/ \E r \in token_redemptions \ Burned :
              /\ 0 <= r.req.token_amount
              /\ r.req.token_amount <= WalletBalance(r.req.wallet_address, r.req.asset_id)
              /\ Burned' = Burned \cup {r}
              /\ UNCHANGED <<token_mints, Minted, Retired>>
         \/ \E r \in Burned \ Retired :
              /\ Retired' = Retired \cup {r}
              /\ UNCHANGED <<token_mints, Minted, Burned>>
<1>1. ASSUME NEW m \in MintRows, \A n \in token_mints : n.id # m.id,
             token_mints' = token_mints \cup {m},
             UNCHANGED <<token_redemptions, token_redemption_events, chain_vars>>
      PROVE  UNCHANGED <<Minted, Burned, Retired>>
  <2>1. m.id \notin chain_minted
    BY <1>1 DEF BurnInv, ChainIsOnRecord
  <2> QED
    BY <1>1, <2>1 DEF Minted, Burned, Retired, IsSettled, chain_vars
<1>2. ASSUME NEW r \in RedemptionRows, \A q \in token_redemptions : q.id # r.id,
             token_redemptions' = token_redemptions \cup {r},
             UNCHANGED <<token_mints, token_redemption_events, chain_vars>>
      PROVE  UNCHANGED <<token_mints, Minted, Burned, Retired>>
  <2>1. r.id \notin chain_burned
    BY <1>2 DEF BurnInv, ChainIsOnRecord
  <2>2. ~IsSettled(r.id)
    BY <2>1 DEF BurnInv, FinalAfterBurn, IsSettled, RedemptionRows
  <2>3. \A i : IsSettled(i)' <=> IsSettled(i)
    BY <1>2 DEF IsSettled
  <2>4. Minted' = Minted /\ Burned' = Burned
    BY <1>2, <2>1 DEF Minted, Burned, chain_vars
  <2>5. Retired' = {q \in token_redemptions' : IsSettled(q.id)}
    BY <2>3 DEF Retired
  <2>6. Retired' = Retired
    BY <1>2, <2>2, <2>5 DEF Retired
  <2> QED
    BY <1>2, <2>4, <2>6
<1>3. ASSUME NEW m \in token_mints, ChainMint(m)
      PROVE  /\ m \in token_mints \ Minted
             /\ MintAmount[m] >= 0
             /\ Minted' = Minted \cup {m}
             /\ UNCHANGED <<token_mints, Burned, Retired>>
  BY <1>3 DEF ChainMint, Minted, Burned, Retired, IsSettled, store_vars, BurnInv,
     IdsAreUnique
<1>4. ASSUME NEW r \in token_redemptions, ChainBurn(r)
      PROVE  /\ r \in token_redemptions \ Burned
             /\ 0 <= r.req.token_amount
             /\ r.req.token_amount <= WalletBalance(r.req.wallet_address, r.req.asset_id)
             /\ Burned' = Burned \cup {r}
             /\ UNCHANGED <<token_mints, Minted, Retired>>
  BY <1>4 DEF ChainBurn, Minted, Burned, Retired, IsSettled, store_vars, BurnInv,
     IdsAreUnique
<1>5. ASSUME NEW s \in SettleCallers, SettleStepOf(s), SettleCommit(s)
      PROVE  \/ UNCHANGED <<token_mints, Minted, Burned, Retired>>
             \/ \E r \in Burned \ Retired :
                  /\ Retired' = Retired \cup {r}
                  /\ UNCHANGED <<token_mints, Minted, Burned>>
  <2>1. PICK r \in token_redemptions : r.id = settle_call[s].id
    BY <1>5 DEF SettleCommit
  <2>2. r.id \in RedemptionIds /\ r.id \in chain_burned
    BY <1>5, <2>1 DEF SettleCommit, BurnInv, SettlingBurned, TypeOK, RedemptionTypeOK,
       SettleRunning
  <2>3. PICK at : AppendStatus(r.id, "settled", at)
    BY <1>5, <2>1 DEF SettleCommit
  <2>4. \A i \in RedemptionIds : IsSettled(i)' <=> IsSettled(i) \/ i = r.id
    BY <2>2, <2>3, AppendSettles DEF TypeOK
  <2>5. UNCHANGED <<token_mints, token_redemptions, chain_minted, chain_burned>>
    BY <1>5 DEF SettleCommit, SettleStepOf, chain_vars
  <2>6. UNCHANGED <<token_mints, Minted, Burned>>
    BY <2>5 DEF Minted, Burned
  <2>7. \A q \in token_redemptions : q.id \in RedemptionIds
    BY DEF TypeOK, StoreTypeOK, RedemptionRows
  <2>8. Retired' = {q \in token_redemptions : IsSettled(q.id) \/ q.id = r.id}
    BY <2>4, <2>5, <2>7 DEF Retired
  <2>9. Retired' = Retired \cup {r} /\ r \in Burned
    BY <2>1, <2>2, <2>8 DEF Retired, Burned, BurnInv, IdsAreUnique
  <2> QED
    BY <2>6, <2>9
<1>6. ASSUME NEW r \in token_redemptions, NEW status \in RedemptionStatuses,
             TrackBurn(r, status)
      PROVE  UNCHANGED <<token_mints, Minted, Burned, Retired>>
  <2>1. r.id \in RedemptionIds /\ \A q \in token_redemptions : q.id \in RedemptionIds
    BY DEF TypeOK, StoreTypeOK, RedemptionRows
  <2>2. PICK at : AppendStatus(r.id, status, at)
    BY <1>6 DEF TrackBurn
  <2>3. status # "settled"
    BY <1>6 DEF TrackBurn
  <2>4. \A i \in RedemptionIds : IsSettled(i)' <=> IsSettled(i)
    BY <2>1, <2>2, <2>3, AppendSettles DEF TypeOK
  <2>5. UNCHANGED <<token_mints, token_redemptions, chain_minted, chain_burned>>
    BY <1>6 DEF TrackBurn, chain_vars
  <2> QED
    BY <2>1, <2>4, <2>5 DEF Minted, Burned, Retired
<1>7. CASE UNCHANGED <<token_mints, token_redemptions, token_redemption_events, chain_vars>>
  BY <1>7 DEF Minted, Burned, Retired, IsSettled, chain_vars
<1>8. CASE UNCHANGED <<token_mints, token_redemptions>>
  BY <1>3, <1>4, <1>5, <1>6, <1>7, <1>8, ChainOnlyByChain, StatusOnlyByTwo
     DEF ChainMint, ChainBurn, store_vars
<1> QED
  BY <1>1, <1>2, <1>8, RowsGrow

-----------------------------------------------------------------------------
(* Burned tokens were minted.                                              *)

\* Nothing is on chain at first.
LEMMA CoveredInit == Init => Covered
<1> SUFFICES ASSUME Init, NEW a \in Assets, NEW W \in SUBSET Wallets
             PROVE  SumOver(RedemptionAmount, BurnedFrom(W, a))
                      <= SumOver(MintAmount, MintedTo(W, a))
  BY DEF Covered
<1>1. BurnedFrom(W, a) = {} /\ MintedTo(W, a) = {}
  BY DEF Init, StoreInit, BurnedFrom, MintedTo, Burned, Minted
<1> QED
  BY <1>1, SumEmpty

\* No step burns tokens that were not minted to the same wallets.
LEMMA CoveredStep == TypeOK /\ BurnInv /\ Covered /\ [Next]_vars => Covered'
<1> SUFFICES ASSUME TypeOK, BurnInv, Covered, [Next]_vars,
                    NEW a \in Assets, NEW W \in SUBSET Wallets
             PROVE  SumOver(RedemptionAmount, BurnedFrom(W, a)')
                      <= SumOver(MintAmount, MintedTo(W, a)')
  <2>1. RedemptionAmount' = RedemptionAmount /\ MintAmount' = MintAmount
    BY DEF RedemptionAmount, MintAmount, RedemptionRows, MintRows
  <2> QED
    BY <2>1 DEF Covered
<1> DEFINE B == BurnedFrom(W, a)
           M == MintedTo(W, a)
<1>1. /\ IsFiniteSet(B) /\ B \subseteq Burned
      /\ \A r \in B : RedemptionAmount[r] \in Nat
  <2>1. B \subseteq Burned
    BY DEF BurnedFrom
  <2> QED
    BY <2>1, StationsType, FS_Subset
<1>2. IsFiniteSet(M) /\ M \subseteq Minted /\ \A m \in M : MintAmount[m] \in Nat
  <2>1. M \subseteq Minted
    BY DEF MintedTo
  <2> QED
    BY <2>1, StationsType, FS_Subset
<1>3. SumOver(RedemptionAmount, B) <= SumOver(MintAmount, M)
  BY DEF Covered
<1>4. ASSUME UNCHANGED <<Minted, Burned>>
      PROVE  SumOver(RedemptionAmount, B') <= SumOver(MintAmount, M')
  <2>1. B' = B /\ M' = M
    BY <1>4 DEF BurnedFrom, MintedTo
  <2> QED
    BY <1>3, <2>1
<1>5. ASSUME NEW m \in token_mints \ Minted, MintAmount[m] >= 0,
             Minted' = Minted \cup {m}, UNCHANGED Burned
      PROVE  SumOver(RedemptionAmount, B') <= SumOver(MintAmount, M')
  <2>1. B' = B
    BY <1>5 DEF BurnedFrom
  <2>2. M' = M \/ (M' = M \cup {m} /\ m \notin M)
    BY <1>2, <1>5 DEF MintedTo
  <2>3. MintAmount[m] \in Nat /\ SumOver(MintAmount, M) \in Nat
          /\ SumOver(RedemptionAmount, B) \in Nat
    <3>1. MintAmount[m] \in Int
      BY StationsType
    <3> HIDE DEF M, B
    <3> QED
      BY <1>1, <1>2, <1>5, <3>1, SumNat
  <2> HIDE DEF M, B
  <2>4. m \notin M => SumOver(MintAmount, M \cup {m}) = SumOver(MintAmount, M) + MintAmount[m]
    BY <1>2, <2>3, SumInsert
  <2>5. CASE M' = M
    BY <1>3, <2>1, <2>5
  <2>6. CASE M' = M \cup {m} /\ m \notin M
    BY <1>3, <2>1, <2>3, <2>4, <2>6
  <2> QED
    BY <2>2, <2>5, <2>6
<1>6. ASSUME NEW r \in token_redemptions \ Burned, Burned' = Burned \cup {r},
             r.req.token_amount <= WalletBalance(r.req.wallet_address, r.req.asset_id),
             UNCHANGED Minted
      PROVE  SumOver(RedemptionAmount, B') <= SumOver(MintAmount, M')
  <2>1. M' = M
    BY <1>6 DEF MintedTo
  <2>2. CASE r.req.asset_id = a /\ r.req.wallet_address \in W
    <3>1. B' = B \cup {r} /\ r \notin B
      BY <1>1, <1>6, <2>2 DEF BurnedFrom
    <3>2. RedemptionAmount[r] + SumOver(RedemptionAmount, B) <= SumOver(MintAmount, M)
      BY <1>6, <2>2, CoveredAlso
    <3>3. RedemptionAmount[r] \in Int /\ SumOver(RedemptionAmount, B) \in Nat
      BY <1>1, StationsType, SumNat
    <3> HIDE DEF M, B
    <3>4. SumOver(RedemptionAmount, B \cup {r})
            = SumOver(RedemptionAmount, B) + RedemptionAmount[r]
      BY <1>1, <3>1, <3>3, SumInsert
    <3> QED
      BY <2>1, <3>1, <3>2, <3>3, <3>4
  <2>3. CASE ~(r.req.asset_id = a /\ r.req.wallet_address \in W)
    <3>1. B' = B
      BY <1>6, <2>3 DEF BurnedFrom
    <3> QED
      BY <1>3, <2>1, <3>1
  <2> QED
    BY <2>2, <2>3
<1> HIDE DEF B, M
<1> QED
  BY <1>4, <1>5, <1>6, StationsStep DEF B, M

\* For any set of wallets, the tokens burned from them were minted to them.
THEOREM BurnsAreCovered == Spec => []Covered
<1>1. Init /\ [][Next]_vars /\ []TypeOK /\ []BurnInv => []Covered
  BY CoveredInit, CoveredStep, PTL
<1> QED
  BY <1>1, TypeCorrect, BurnInvariant, PTL DEF Spec

\* What the books account for, with what negative mints hide put back: the mints
\* that are not negative less the settled redemptions.
LEMMA BooksRestated ==
  ASSUME TypeOK, NEW a
  PROVE  /\ Understated(a) \in Nat /\ Allocated(a) \in Int
         /\ Allocated(a) + Understated(a)
              = SumOver(MintAmount, {m \in MintsOf(a) : MintAmount[m] >= 0})
                  - SettledSupply(a)
<1> DEFINE S == MintsOf(a)
           N == {m \in S : MintAmount[m] < 0}
           P == {m \in S : MintAmount[m] >= 0}
<1>1. IsFiniteSet(S) /\ \A m \in S : MintAmount[m] \in Int
  <2>1. S \subseteq token_mints
    BY DEF MintsOf
  <2> QED
    BY <2>1, AmountsInt, FS_Subset DEF TypeOK, StoreTypeOK
<1>2. N \in SUBSET S /\ S \ N = P
  BY <1>1
<1>3. MintedSupply(a) = SumOver(MintAmount, S) /\ Understated(a) = -SumOver(MintAmount, N)
  BY DEF MintedSupply, Understated
<1>4. MintedSupply(a) \in Int /\ SettledSupply(a) \in Int
  BY BalancesInt DEF TypeOK
<1>5. SumOver(MintAmount, {}) = 0 /\ {} \in SUBSET N
  BY SumEmpty
<1>6. \A m \in N : MintAmount[m] < 0
  OBVIOUS
<1> HIDE DEF S, N, P
<1>7. IsFiniteSet(N) /\ \A m \in N : MintAmount[m] \in Int
  BY <1>1, <1>2, FS_Subset
<1>8. SumOver(MintAmount, S) = SumOver(MintAmount, N) + SumOver(MintAmount, P)
  BY <1>1, <1>2, SumSplit
<1>9. SumOver(MintAmount, N) \in Int /\ SumOver(MintAmount, P) \in Int
  <2>1. P \subseteq S
    BY <1>2
  <2>2. IsFiniteSet(P) /\ \A m \in P : MintAmount[m] \in Int
    BY <1>1, <2>1, FS_Subset
  <2> QED
    BY <1>7, <2>2, SumInt
<1>10. SumOver(MintAmount, N) <= 0
  BY <1>6, <1>7, SumNotPositive
<1> QED
  BY <1>3, <1>4, <1>8, <1>9, <1>10 DEF P, S, Allocated

\* What an asset shows on chain lies between nothing and what the tables account
\* for, but for what mints of negative amounts take off them: mints and burns of
\* all its wallets are covered, and every station but the last is a part of the
\* one before. It holds for amounts of any sign.
THEOREM ChainBehindBooks == Spec => []ChainWithinBooks
<1>1. TypeOK /\ BurnInv /\ Covered => ChainWithinBooks
  <2> SUFFICES ASSUME TypeOK, BurnInv, Covered, NEW a \in Assets
               PROVE  /\ 0 <= OnChainSupply(a)
                      /\ OnChainSupply(a) <= Allocated(a) + Understated(a)
    BY DEF ChainWithinBooks
  <2> DEFINE M == {m \in Minted : m.req.asset_id = a}
             B == {r \in Burned : r.req.asset_id = a}
             P == {m \in MintsOf(a) : MintAmount[m] >= 0}
  <2>1. OnChainSupply(a) = SumOver(MintAmount, M) - SumOver(RedemptionAmount, B)
    <3>1. {m \in MintsOf(a) : m.id \in chain_minted} = M
      BY DEF MintsOf, Minted
    <3>2. {r \in {r \in token_redemptions : r.req.asset_id = a} : r.id \in chain_burned} = B
      BY DEF Burned
    <3> QED
      BY <3>1, <3>2 DEF OnChainSupply, OnChain
  <2>2. /\ SumOver(MintAmount, M) <= SumOver(MintAmount, P)
        /\ SumOver(MintAmount, M) \in Int /\ SumOver(MintAmount, P) \in Int
    <3>1. M \in SUBSET P /\ P \subseteq token_mints
      BY StationsType DEF MintsOf, Minted
    <3>2. \A m \in P : MintAmount[m] \in Int /\ MintAmount[m] >= 0
      BY <3>1, StationsType
    <3> HIDE DEF M, P
    <3>3. IsFiniteSet(P) /\ IsFiniteSet(M)
      BY <3>1, FS_Subset DEF TypeOK, StoreTypeOK
    <3> QED
      BY <3>1, <3>2, <3>3, SumMonotone, SumInt
  <2>3. /\ SettledSupply(a) <= SumOver(RedemptionAmount, B)
        /\ SumOver(RedemptionAmount, B) \in Int
    <3>1. SettledOf(a) \in SUBSET B /\ B \subseteq Burned
      BY StationsType DEF SettledOf, Retired
    <3>2. IsFiniteSet(B) /\ \A r \in B : RedemptionAmount[r] \in Nat
      BY <3>1, StationsType, FS_Subset
    <3> HIDE DEF B
    <3> QED
      BY <3>1, <3>2, SumMonotone, SumInt DEF SettledSupply
  <2>4. SumOver(RedemptionAmount, B) <= SumOver(MintAmount, M)
    <3>1. MintedTo(Wallets, a) = M /\ BurnedFrom(Wallets, a) = B
      BY StationsType DEF MintedTo, BurnedFrom
    <3>2. Wallets \in SUBSET Wallets
      OBVIOUS
    <3> QED
      BY <3>1, <3>2 DEF Covered
  <2>5. /\ Allocated(a) + Understated(a) = SumOver(MintAmount, P) - SettledSupply(a)
        /\ SettledSupply(a) \in Int
    BY BooksRestated, BalancesInt DEF TypeOK
  <2> HIDE DEF M, B, P
  <2> QED
    BY <2>1, <2>2, <2>3, <2>4, <2>5
<1> QED
  BY <1>1, TypeCorrect, BurnInvariant, BurnsAreCovered, PTL

\* The chain never shows more tokens of an asset than its legal supply and what
\* mints of negative amounts hide from the check: what it shows was reserved
\* before, and is released only after it is burned.
THEOREM ChainNeverOversold == Spec => []OnChainWithinSupply
<1>1. TypeOK /\ BurnInv /\ ChainWithinBooks /\ AllocatedWithinSupply
        => OnChainWithinSupply
  <2> SUFFICES ASSUME TypeOK, BurnInv, ChainWithinBooks, AllocatedWithinSupply,
                      NEW a \in DOMAIN TokenSupply, MintsOf(a) # {}
               PROVE  OnChainSupply(a) <= TokenSupply[a] + Understated(a)
    BY DEF OnChainWithinSupply
  <2>1. a \in Assets /\ TokenSupply[a] \in Int
    BY StoreAssumption
  <2>2. Allocated(a) \in Int /\ Understated(a) \in Nat
    BY BooksRestated
  <2>3. OnChainSupply(a) \in Int
    <3>1. /\ {m \in MintsOf(a) : m.id \in chain_minted} \subseteq token_mints
          /\ {r \in {r \in token_redemptions : r.req.asset_id = a} : r.id \in chain_burned}
               \subseteq token_redemptions
      BY DEF MintsOf
    <3> DEFINE M == {m \in MintsOf(a) : m.id \in chain_minted}
               B == {r \in {r \in token_redemptions : r.req.asset_id = a} :
                       r.id \in chain_burned}
    <3>2. IsFiniteSet(M) /\ IsFiniteSet(B)
      BY <3>1, FS_Subset DEF TypeOK, StoreTypeOK
    <3>3. /\ \A m \in M : MintAmount[m] \in Int
          /\ \A r \in B : RedemptionAmount[r] \in Int
      BY <3>1, AmountsInt DEF TypeOK, StoreTypeOK
    <3>4. OnChainSupply(a) = SumOver(MintAmount, M) - SumOver(RedemptionAmount, B)
      BY DEF OnChainSupply, OnChain
    <3> HIDE DEF M, B
    <3> QED
      BY <3>2, <3>3, <3>4, SumInt
  <2> QED
    BY <2>1, <2>2, <2>3 DEF ChainWithinBooks, AllocatedWithinSupply
<1> QED
  BY <1>1, TypeCorrect, BurnInvariant, ChainBehindBooks, SupplyNeverOversold, PTL

-----------------------------------------------------------------------------
(* Refinement.                                                             *)

\* Minting, redemption, signer, chain and trackers implement Circulation, the
\* specification AssetLifecycle takes in their place.
THEOREM TokensCirculate == Spec => RefinesCirculation
<1>1. Init => C!CirculationInit
  BY DEF Init, StoreInit, C!CirculationInit
<1>2. TypeOK /\ BurnInv /\ Covered /\ [Next]_vars => [C!CirculationNext]_C!circulation
  <2> SUFFICES ASSUME TypeOK, BurnInv, Covered, [Next]_vars
               PROVE  C!CirculationNext \/ UNCHANGED C!circulation
    OBVIOUS
  <2>1. ASSUME UNCHANGED <<token_mints, Minted, Burned, Retired>>
        PROVE  UNCHANGED C!circulation
    BY <2>1 DEF C!circulation, Minted, Burned, Retired
  <2>2. ASSUME NEW m \in MintRows, \A n \in token_mints : n.id # m.id,
               token_mints' = token_mints \cup {m}, UNCHANGED <<Minted, Burned, Retired>>
        PROVE  C!CirculationNext
    <3>1. C!Issue(m) /\ m \in token_mints'
      BY <2>2 DEF C!Issue, Minted, Burned, Retired
    <3> QED
      BY <3>1 DEF C!CirculationNext
  <2>3. ASSUME NEW m \in token_mints \ Minted, MintAmount[m] >= 0, Minted' = Minted \cup {m},
               UNCHANGED <<token_mints, Burned, Retired>>
        PROVE  C!CirculationNext
    <3>1. C!MintOnChain(m)
      BY <2>3 DEF C!MintOnChain, Minted, Burned, Retired
    <3> QED
      BY <2>3, <3>1 DEF C!CirculationNext
  <2>4. ASSUME NEW r \in token_redemptions \ Burned, Burned' = Burned \cup {r},
               0 <= r.req.token_amount,
               r.req.token_amount <= WalletBalance(r.req.wallet_address, r.req.asset_id),
               UNCHANGED <<token_mints, Minted, Retired>>
        PROVE  C!CirculationNext
    <3> DEFINE a == r.req.asset_id
    <3>1. RedemptionAmount[r] + SumOver(RedemptionAmount, BurnedFrom(Wallets, a))
            <= SumOver(MintAmount, MintedTo(Wallets, a))
      BY <2>4, StationsType, CoveredAlso
    <3>2. C!ChainSupply(a) = SumOver(MintAmount, MintedTo(Wallets, a))
                               - SumOver(RedemptionAmount, BurnedFrom(Wallets, a))
      <4>1. C!OfAsset({m \in token_mints : m.id \in chain_minted}, a) = MintedTo(Wallets, a)
        BY StationsType DEF C!OfAsset, MintedTo, Minted
      <4>2. C!OfAsset({q \in token_redemptions : q.id \in chain_burned}, a)
              = BurnedFrom(Wallets, a)
        BY StationsType DEF C!OfAsset, BurnedFrom, Burned
      <4>3. ASSUME NEW f, NEW S PROVE C!SumOver(f, S) = SumOver(f, S)
        BY DEF C!SumOver, SumOver, C!MapThenSumSet, MapThenSumSet, C!MapThenFoldSet,
           MapThenFoldSet
      <4> QED
        BY <4>1, <4>2, <4>3 DEF C!ChainSupply, C!Tokens, C!Redeemed
    <3>3. /\ RedemptionAmount[r] \in Nat /\ RedemptionAmount[r] = r.req.token_amount
          /\ SumOver(MintAmount, MintedTo(Wallets, a)) \in Nat
          /\ SumOver(RedemptionAmount, BurnedFrom(Wallets, a)) \in Nat
      <4>1. MintedTo(Wallets, a) \subseteq Minted /\ BurnedFrom(Wallets, a) \subseteq Burned
        BY DEF MintedTo, BurnedFrom
      <4>2. /\ IsFiniteSet(MintedTo(Wallets, a)) /\ IsFiniteSet(BurnedFrom(Wallets, a))
            /\ \A m \in MintedTo(Wallets, a) : MintAmount[m] \in Nat
            /\ \A q \in BurnedFrom(Wallets, a) : RedemptionAmount[q] \in Nat
        BY <4>1, StationsType, FS_Subset
      <4> QED
        BY <2>4, <4>2, StationsType, SumNat
    <3>4. RedemptionAmount[r] <= C!ChainSupply(a)
      BY <3>1, <3>2, <3>3
    <3>5. C!BurnOnChain(r) /\ r \in Burned'
      BY <2>4, <3>3, <3>4 DEF C!BurnOnChain, Minted, Burned, Retired
    <3> QED
      BY <3>5 DEF C!CirculationNext, Burned
  <2>5. ASSUME NEW r \in Burned \ Retired, Retired' = Retired \cup {r},
               UNCHANGED <<token_mints, Minted, Burned>>
        PROVE  C!CirculationNext
    <3>1. C!Retire(r) /\ r \in Burned'
      BY <2>5 DEF C!Retire, Minted, Burned, Retired
    <3> QED
      BY <3>1 DEF C!CirculationNext, Burned
  <2> QED
    BY <2>1, <2>2, <2>3, <2>4, <2>5, StationsStep
<1> QED
  BY <1>1, <1>2, TypeCorrect, BurnInvariant, BurnsAreCovered, PTL
     DEF Spec, RefinesCirculation, C!CirculationSpec

\* The insert of mint_tokens issues atomically, within the supply and under a new
\* key, though its check took four statements.
LEMMA InsertIssues ==
  ASSUME TypeOK, TypeOK', SupplyInv, AllocatedWithinSupply', [Next]_vars,
         NEW c \in MintCallers, MintStepOf(c), MintInsert(c)
  PROVE  \E m \in token_mints' : I!Issue(m)
<1>0. PICK req, a : req = Req(c) /\ a = Req(c).asset_id
  OBVIOUS
<1>1. PICK id \in MintIds \ {m.id : m \in token_mints} :
        token_mints' = token_mints \cup {[id |-> id, req |-> req]}
  BY <1>0 DEF MintInsert
<1> DEFINE m == [id |-> id, req |-> req]
<1>2. m.id = id /\ m.req = req /\ m \in token_mints' /\ a = m.req.asset_id
  BY <1>0, <1>1
<1>3. a \in DOMAIN TokenSupply /\ req \in MintRequests
  BY <1>0 DEF MintInsert, SupplyInv, SupplyReadsAreCurrent, MintLocked, TypeOK, MintTypeOK,
     MintRunning, Req
<1>4. \A n \in token_mints :
        n.id # id /\ n.req.idempotency_key # req.idempotency_key
  BY <1>0, <1>1 DEF MintInsert, KeyTaken, MintsWithKey
<1>5. MintedSupply(a)' = MintedSupply(a) + req.token_amount
  BY <1>0, <1>3, MintedInsert
<1>6. UNCHANGED Retired
  BY DEF MintInsert, Retired, IsSettled
<1>7. SettledSupply(a)' = SettledSupply(a)
  <2>1. SettledOf(a)' = SettledOf(a)
    BY DEF MintInsert, SettledOf, IsSettled
  <2>2. RedemptionAmount' = RedemptionAmount
    BY DEF RedemptionAmount, RedemptionRows
  <2> QED
    BY <2>1, <2>2 DEF SettledSupply
<1>8. MintedSupply(a)' - SettledSupply(a)' <= TokenSupply[a]
  BY <1>2, <1>3 DEF AllocatedWithinSupply, Allocated, MintsOf
<1>9. /\ MintedSupply(a) \in Int /\ SettledSupply(a) \in Int
      /\ req.token_amount \in Int /\ TokenSupply[a] \in Int
  BY <1>3, BalancesInt, StoreAssumption DEF TypeOK, MintRequestType
<1>10. I!Outstanding(a) = MintedSupply(a) - SettledSupply(a)
  <2>1. I!IssuedOf(a) = MintsOf(a)
    BY DEF I!IssuedOf, MintsOf
  <2>2. I!RetiredOf(a) = SettledOf(a)
    BY DEF I!RetiredOf, SettledOf
  <2>3. ASSUME NEW f, NEW S PROVE I!SumOver(f, S) = SumOver(f, S)
    BY DEF I!SumOver, SumOver, I!MapThenSumSet, MapThenSumSet, I!MapThenFoldSet,
       MapThenFoldSet
  <2> QED
    BY <2>1, <2>2, <2>3 DEF I!Outstanding, MintedSupply, SettledSupply
<1>11. I!Outstanding(a) + req.token_amount <= TokenSupply[a]
  BY <1>5, <1>7, <1>8, <1>9, <1>10
<1>12. token_mints' = token_mints \cup {m}
  BY <1>1
<1> HIDE DEF m
<1>13. I!Issue(m)
  BY <1>2, <1>3, <1>4, <1>6, <1>11, <1>12 DEF I!Issue, Retired
<1> QED
  BY <1>2, <1>13

\* Seen through the tables, the services issue and retire atomically: the calls,
\* locks and statements of minting and redemption implement Issuance.
THEOREM TokensAreIssued == Spec => RefinesIssuance
<1>1. Init => I!Init
  BY DEF Init, StoreInit, I!Init
<1>2. /\ TypeOK /\ TypeOK' /\ BurnInv /\ SupplyInv /\ AllocatedWithinSupply'
      /\ [Next]_vars
      => [I!Next]_<<token_mints, {r \in token_redemptions : IsSettled(r.id)}>>
  <2> SUFFICES ASSUME TypeOK, TypeOK', BurnInv, SupplyInv, AllocatedWithinSupply',
                      [Next]_vars
               PROVE  I!Next \/ UNCHANGED <<token_mints, Retired>>
    BY DEF Retired
  <2>1. ASSUME NEW c \in MintCallers, MintStepOf(c), MintInsert(c) PROVE I!Next
    BY <2>1, InsertIssues DEF I!Next
  <2>2. ASSUME NEW r \in Burned \ Retired, Retired' = Retired \cup {r},
               UNCHANGED token_mints
        PROVE  I!Next
    <3>1. I!Retire(r) /\ r \in Retired'
      BY <2>2 DEF I!Retire, Retired
    <3> QED
      BY <3>1 DEF I!Next, Retired
  <2> QED
    BY <2>1, <2>2, MintedOnlyByInsert, StationsStep
<1> QED
  BY <1>1, <1>2, TypeCorrect, BurnInvariant, SupplyInvariant, SupplyNeverOversold, PTL
     DEF Spec, RefinesIssuance, I!Spec

-----------------------------------------------------------------------------
(* The books.                                                              *)

\* A row is of an event that has happened, so the rows of the next are new.
BooksInv ==
  /\ IsFiniteSet(ledger_entries)
  /\ \A e \in ledger_entries :
       /\ e.reference_id \in MintIds => e.nth <= token_mint_events[e.reference_id]
       /\ e.reference_id \in RedemptionIds => e.nth <= Settlements(e.reference_id)
  /\ LedgerBalanced

\* A debit and its credit keep two sums equal.
LEMMA PairBalances ==
  ASSUME NEW S \in SUBSET LedgerRows, IsFiniteSet(S),
         SumOver(Debits, S) = SumOver(Credits, S),
         NEW d \in LedgerRows \ S, NEW c \in LedgerRows \ S, d # c,
         d.debit = c.credit, d.credit = 0, c.debit = 0
  PROVE  SumOver(Debits, S \cup {d, c}) = SumOver(Credits, S \cup {d, c})
<1>1. \A e \in LedgerRows :
        /\ Debits[e] = e.debit /\ Debits[e] \in Nat
        /\ Credits[e] = e.credit /\ Credits[e] \in Nat
  BY DEF Debits, Credits, LedgerRows
<1>2. IsFiniteSet(S \cup {d}) /\ c \notin S \cup {d} /\ S \cup {d} \subseteq LedgerRows
  BY FS_AddElement
<1>3. ASSUME NEW f, \A e \in LedgerRows : f[e] \in Nat
      PROVE  /\ SumOver(f, (S \cup {d}) \cup {c}) = SumOver(f, S) + f[d] + f[c]
             /\ SumOver(f, S) \in Nat
  <2>1. SumOver(f, S \cup {d}) = SumOver(f, S) + f[d]
    BY <1>3, SumInsert
  <2>2. f[c] \in Int /\ \A e \in S \cup {d} : f[e] \in Int
    BY <1>2, <1>3
  <2>3. SumOver(f, (S \cup {d}) \cup {c}) = SumOver(f, S \cup {d}) + f[c]
    BY <1>2, <2>2, SumInsert
  <2>4. SumOver(f, S) \in Nat
    BY <1>3, SumNat
  <2> QED
    BY <2>1, <2>3, <2>4
<1>4. (S \cup {d}) \cup {c} = S \cup {d, c}
  OBVIOUS
<1>5. /\ SumOver(Debits, S \cup {d, c}) = SumOver(Debits, S) + d.debit
      /\ SumOver(Debits, S) \in Nat
  <2>1. /\ SumOver(Debits, (S \cup {d}) \cup {c}) = SumOver(Debits, S) + Debits[d] + Debits[c]
        /\ SumOver(Debits, S) \in Nat
    BY <1>1, <1>3
  <2>2. Debits[d] = d.debit /\ Debits[c] = 0 /\ d.debit \in Nat
    BY <1>1
  <2>3. SumOver(Debits, S) + Debits[d] + Debits[c] = SumOver(Debits, S) + d.debit
    BY <2>1, <2>2
  <2> QED
    BY <1>4, <2>1, <2>3
<1>6. /\ SumOver(Credits, S \cup {d, c}) = SumOver(Credits, S) + c.credit
      /\ SumOver(Credits, S) \in Nat
  <2>1. /\ SumOver(Credits, (S \cup {d}) \cup {c}) = SumOver(Credits, S) + Credits[d] + Credits[c]
        /\ SumOver(Credits, S) \in Nat
    BY <1>1, <1>3
  <2>2. Credits[d] = 0 /\ Credits[c] = c.credit /\ c.credit \in Nat
    BY <1>1
  <2>3. SumOver(Credits, S) + Credits[d] + Credits[c] = SumOver(Credits, S) + c.credit
    BY <2>1, <2>2
  <2> QED
    BY <1>4, <2>1, <2>3
<1> QED
  BY <1>5, <1>6

\* The four rows of an event, two in each currency, keep the books balanced.
LEMMA EventBalances ==
  ASSUME StoreTypeOK, BooksInv, NEW id,
         NEW td \in LedgerRows \ ledger_entries, NEW tc \in LedgerRows \ ledger_entries,
         NEW ud \in LedgerRows \ ledger_entries, NEW uc \in LedgerRows \ ledger_entries,
         ledger_entries' = ledger_entries \cup {td, tc, ud, uc},
         \A e \in {td, tc, ud, uc} : e.reference_id = id,
         td.currency = "TOKEN", tc.currency = "TOKEN", td # tc,
         ud.currency = "USD", uc.currency = "USD", ud # uc,
         td.debit = tc.credit, td.credit = 0, tc.debit = 0,
         ud.debit = uc.credit, ud.credit = 0, uc.debit = 0
  PROVE  LedgerBalanced' /\ IsFiniteSet(ledger_entries')
<1>1. IsFiniteSet(ledger_entries')
  <2>1. IsFiniteSet(ledger_entries \cup {td})
    BY FS_AddElement DEF BooksInv
  <2>2. IsFiniteSet((ledger_entries \cup {td}) \cup {tc})
    BY <2>1, FS_AddElement
  <2>3. IsFiniteSet(((ledger_entries \cup {td}) \cup {tc}) \cup {ud})
    BY <2>2, FS_AddElement
  <2>4. IsFiniteSet((((ledger_entries \cup {td}) \cup {tc}) \cup {ud}) \cup {uc})
    BY <2>3, FS_AddElement
  <2>5. ledger_entries' = (((ledger_entries \cup {td}) \cup {tc}) \cup {ud}) \cup {uc}
    OBVIOUS
  <2> QED
    BY <2>4, <2>5
<1>2. Debits' = Debits /\ Credits' = Credits
  BY DEF Debits, Credits, LedgerRows
<1> SUFFICES ASSUME NEW i \in MintIds \cup RedemptionIds, NEW cur \in {"TOKEN", "USD"}
             PROVE  SumOver(Debits, Booked(i, cur)') = SumOver(Credits, Booked(i, cur)')
  BY <1>1, <1>2 DEF LedgerBalanced
<1>3. PICK S : S = Booked(i, cur)
  OBVIOUS
<1>4. /\ S \subseteq ledger_entries /\ S \in SUBSET LedgerRows /\ IsFiniteSet(S)
      /\ SumOver(Debits, S) = SumOver(Credits, S)
  <2>1. S \subseteq ledger_entries
    BY <1>3 DEF Booked
  <2> QED
    BY <1>3, <2>1, FS_Subset DEF StoreTypeOK, BooksInv, LedgerBalanced
<1>5. CASE i # id
  <2>1. Booked(i, cur)' = S
    BY <1>3, <1>5 DEF Booked
  <2> QED
    BY <1>4, <2>1
<1>6. CASE i = id /\ cur = "TOKEN"
  <2>1. Booked(i, cur)' = S \cup {td, tc}
    BY <1>3, <1>6 DEF Booked
  <2>2. td \in LedgerRows \ S /\ tc \in LedgerRows \ S
    BY <1>4
  <2> QED
    BY <1>4, <2>1, <2>2, PairBalances
<1>7. CASE i = id /\ cur = "USD"
  <2>1. Booked(i, cur)' = S \cup {ud, uc}
    BY <1>3, <1>7 DEF Booked
  <2>2. ud \in LedgerRows \ S /\ uc \in LedgerRows \ S
    BY <1>4
  <2> QED
    BY <1>4, <2>1, <2>2, PairBalances
<1> QED
  BY <1>5, <1>6, <1>7

\* A status event is counted as a settlement, or not, of its redemption only.
LEMMA AppendCounts ==
  ASSUME StoreTypeOK, NEW id \in RedemptionIds, NEW status, NEW at,
         AppendStatus(id, status, at)
  PROVE  \A i \in RedemptionIds :
           Settlements(i)' = IF i = id /\ status = "settled" THEN Settlements(i) + 1
                                                             ELSE Settlements(i)
<1> SUFFICES ASSUME NEW i \in RedemptionIds
             PROVE  Settlements(i)' = IF i = id /\ status = "settled"
                                        THEN Settlements(i) + 1 ELSE Settlements(i)
  OBVIOUS
<1> DEFINE old == token_redemption_events[i]
           e == [status |-> status, created_at |-> at]
           K == {k \in DOMAIN old : old[k].status = "settled"}
           L == {k \in DOMAIN token_redemption_events'[i] :
                   token_redemption_events'[i][k].status = "settled"}
<1>1. token_redemption_events'[i] = IF i = id THEN Append(old, e) ELSE old
  BY DEF AppendStatus, StoreTypeOK
<1>2. old \in Seq(StatusEventType)
  BY DEF StoreTypeOK
<1>3. Settlements(i) = Cardinality(K) /\ Settlements(i)' = Cardinality(L)
  BY DEF Settlements
<1>4. /\ DOMAIN Append(old, e) = DOMAIN old \cup {Len(old) + 1}
      /\ Append(old, e)[Len(old) + 1] = e /\ Len(old) + 1 \notin DOMAIN old
      /\ \A k \in DOMAIN old : Append(old, e)[k] = old[k]
  BY <1>2
<1>5. IsFiniteSet(K)
  <2>1. DOMAIN old = 1 .. Len(old) /\ Len(old) \in Nat
    BY <1>2
  <2>2. IsFiniteSet(DOMAIN old) /\ K \subseteq DOMAIN old
    BY <2>1, FS_Interval
  <2> HIDE DEF K, old
  <2> QED
    BY <2>2, FS_Subset
<1>6. CASE i = id /\ status = "settled"
  <2>1. L = K \cup {Len(old) + 1} /\ Len(old) + 1 \notin K
    BY <1>1, <1>4, <1>6
  <2>2. Cardinality(L) = Cardinality(K) + 1
    <3> HIDE DEF K, L
    <3> QED
      BY <1>5, <2>1, FS_AddElement
  <2>3. Settlements(i)' = Settlements(i) + 1
    BY <1>3, <2>2
  <2> QED
    BY <1>6, <2>3
<1>7. CASE ~(i = id /\ status = "settled")
  <2>1. L = K
    BY <1>1, <1>4, <1>7
  <2>2. Settlements(i)' = Settlements(i)
    BY <1>3, <2>1
  <2> QED
    BY <1>7, <2>2
<1> QED
  BY <1>6, <1>7

\* Rows are written by confirmations and settlements.
LEMMA BookedByTwo ==
  ASSUME [Next]_vars
  PROVE  \/ \E m \in token_mints : Confirm(m)
         \/ \E s \in SettleCallers : SettleStepOf(s) /\ SettleCommit(s)
         \/ UNCHANGED <<ledger_entries, token_mint_events>>
BY DEF Next, vars, MintStepOf, MintStep, MintReplay, MintStart, MintCheckSender,
   MintCheckReceiver, MintLockSupply, MintSupplyNotFound, MintSumMinted,
   MintSumRedeemed, MintInsert, MintReject, MintSend, MintFail, RedeemStepOf, RedeemStep,
   RedeemReplay, RedeemStart, RedeemCheckSender, RedeemCheckReceiver,
   RedeemScanBalance, RedeemLockRow, RedeemSumBalance, RedeemInsert, RedeemReject,
   RedeemSend, RedeemFail, SettleStepOf, SettleStep, SettleBegin,
   SettleReadStatus, SettleFail, ChainMint, ChainBurn, TrackBurn,
   Compliance, GrantWallet, RevokeWallet, store_vars

\* The tables are empty at the start.
LEMMA BooksInit == Init => BooksInv
<1> SUFFICES ASSUME Init PROVE BooksInv
  OBVIOUS
<1>1. ledger_entries = {}
  BY DEF Init, StoreInit
<1>2. \A id, cur : Booked(id, cur) = {}
  BY <1>1 DEF Booked
<1> QED
  BY <1>1, <1>2, SumEmpty, FS_EmptySet DEF BooksInv, LedgerBalanced

\* A confirmation is booked with rows no earlier one has written.
LEMMA ConfirmBooks ==
  ASSUME TypeOK, TypeOK', BooksInv, NEW m \in token_mints, Confirm(m)
  PROVE  BooksInv'
<1> DEFINE n == token_mint_events[m.id] + 1
           E(account, owner, currency, debit, credit) ==
             Entry("token.mint", m.id, n, account, owner, currency, debit, credit)
           td == E("investor:tokens", m.req.investor_id, "TOKEN", m.req.token_amount, 0)
           tc == E("fund:treasury", m.req.asset_id, "TOKEN", 0, m.req.token_amount)
           ud == E("fund:fiat", m.req.asset_id, "USD", m.req.fiat_received, 0)
           uc == E("investor:fiat", m.req.investor_id, "USD", 0, m.req.fiat_received)
<1>1. /\ token_mint_events' = [token_mint_events EXCEPT ![m.id] = n]
      /\ ledger_entries' = ledger_entries \cup {td, tc, ud, uc}
      /\ UNCHANGED token_redemption_events
  BY DEF Confirm, ConfirmMint, MintEntries
<1>2. m.id \in MintIds /\ m.id \notin RedemptionIds
  BY StoreAssumption DEF TypeOK, StoreTypeOK, MintRows
<1>3. token_mint_events \in [MintIds -> Nat] /\ n \in Nat
  BY <1>2 DEF TypeOK, StoreTypeOK
<1>4. \A e \in {td, tc, ud, uc} :
        e.reference_id = m.id /\ e.nth = n /\ e \in LedgerRows \ ledger_entries
  <2>1. \A e \in {td, tc, ud, uc} : e.reference_id = m.id /\ e.nth = n
    BY DEF Entry
  <2>2. {td, tc, ud, uc} \subseteq LedgerRows
    BY <1>1 DEF TypeOK, StoreTypeOK
  <2>3. \A e \in ledger_entries : e.reference_id = m.id => e.nth <= token_mint_events[m.id]
    BY <1>2 DEF BooksInv
  <2>4. ~(n <= token_mint_events[m.id])
    BY <1>2, <1>3
  <2> HIDE DEF td, tc, ud, uc, n
  <2> QED
    BY <2>1, <2>2, <2>3, <2>4
<1>5. LedgerBalanced' /\ IsFiniteSet(ledger_entries')
  <2>1. /\ td.currency = "TOKEN" /\ tc.currency = "TOKEN" /\ td # tc
        /\ ud.currency = "USD" /\ uc.currency = "USD" /\ ud # uc
        /\ td.debit = tc.credit /\ td.credit = 0 /\ tc.debit = 0
        /\ ud.debit = uc.credit /\ ud.credit = 0 /\ uc.debit = 0
    BY DEF Entry
  <2> HIDE DEF td, tc, ud, uc, n
  <2> QED
    BY <1>1, <1>4, <2>1, EventBalances DEF TypeOK
<1>6. ASSUME NEW e \in ledger_entries'
      PROVE  /\ e.reference_id \in MintIds => e.nth <= token_mint_events'[e.reference_id]
             /\ e.reference_id \in RedemptionIds => e.nth <= Settlements(e.reference_id)'
  <2>1. \A i : Settlements(i)' = Settlements(i)
    BY <1>1 DEF Settlements
  <2>2. CASE e \in ledger_entries
    <3>1. ASSUME e.reference_id \in MintIds PROVE e.nth <= token_mint_events'[e.reference_id]
      <4>1. e.nth <= token_mint_events[e.reference_id] /\ e.nth \in Nat
        BY <2>2, <3>1 DEF BooksInv, TypeOK, StoreTypeOK, LedgerRows
      <4> QED
        BY <1>1, <1>2, <1>3, <3>1, <4>1
    <3> QED
      BY <2>1, <2>2, <3>1 DEF BooksInv
  <2>3. CASE e \in {td, tc, ud, uc}
    <3>1. e.reference_id = m.id /\ e.nth = n
      BY <1>4, <2>3
    <3> QED
      BY <1>1, <1>2, <1>3, <3>1
  <2> HIDE DEF td, tc, ud, uc
  <2> QED
    BY <1>1, <2>2, <2>3
<1> QED
  BY <1>5, <1>6 DEF BooksInv

\* A settlement is booked with rows no earlier one has written.
LEMMA SettleBooks ==
  ASSUME TypeOK, TypeOK', BooksInv, NEW s \in SettleCallers,
         SettleStepOf(s), SettleCommit(s)
  PROVE  BooksInv'
<1> DEFINE id == settle_call[s].id
           n == Settlements(id) + 1
<1>1. PICK r \in token_redemptions :
        r.id = id /\ ledger_entries' = ledger_entries \cup RedeemEntries(r, n)
  BY DEF SettleCommit
<1> DEFINE amount == r.req.token_amount
           E(account, owner, currency, debit, credit) ==
             Entry("token.redeem", r.id, n, account, owner, currency, debit, credit)
           td == E("fund:treasury", r.req.asset_id, "TOKEN", amount, 0)
           tc == E("investor:tokens", r.req.investor_id, "TOKEN", 0, amount)
           ud == E("investor:fiat", r.req.investor_id, "USD", amount, 0)
           uc == E("fund:fiat", r.req.asset_id, "USD", 0, amount)
<1>2. ledger_entries' = ledger_entries \cup {td, tc, ud, uc}
  BY <1>1 DEF RedeemEntries
<1>3. id \in RedemptionIds /\ id \notin MintIds /\ id = r.id
  BY <1>1, StoreAssumption DEF TypeOK, StoreTypeOK, RedemptionRows
<1>4. \A i \in RedemptionIds :
        /\ Settlements(i) \in Nat
        /\ Settlements(i)' = IF i = id THEN n ELSE Settlements(i)
  <2>1. AppendStatus(id, "settled", SettledAt(s))
    BY DEF SettleCommit
  <2>2. \A i \in RedemptionIds :
          Settlements(i)' = IF i = id /\ "settled" = "settled" THEN Settlements(i) + 1
                                                               ELSE Settlements(i)
    <3> HIDE DEF id
    <3> QED
      BY <1>3, <2>1, AppendCounts DEF TypeOK
  <2> QED
    BY <2>2, EventCountsNat DEF TypeOK
<1>5. \A e \in {td, tc, ud, uc} :
        e.reference_id = id /\ e.nth = n /\ e \in LedgerRows \ ledger_entries
  <2>1. \A e \in {td, tc, ud, uc} : e.reference_id = id /\ e.nth = n
    BY <1>3 DEF Entry
  <2>2. {td, tc, ud, uc} \subseteq LedgerRows
    BY <1>2 DEF TypeOK, StoreTypeOK
  <2>3. \A e \in ledger_entries : e.reference_id = id => e.nth <= Settlements(id)
    BY <1>3 DEF BooksInv
  <2>4. ~(n <= Settlements(id))
    BY <1>3, <1>4
  <2> HIDE DEF td, tc, ud, uc, n, id
  <2> QED
    BY <2>1, <2>2, <2>3, <2>4
<1>6. LedgerBalanced' /\ IsFiniteSet(ledger_entries')
  <2>1. /\ td.currency = "TOKEN" /\ tc.currency = "TOKEN" /\ td # tc
        /\ ud.currency = "USD" /\ uc.currency = "USD" /\ ud # uc
        /\ td.debit = tc.credit /\ td.credit = 0 /\ tc.debit = 0
        /\ ud.debit = uc.credit /\ ud.credit = 0 /\ uc.debit = 0
    BY DEF Entry
  <2> HIDE DEF td, tc, ud, uc, n, id
  <2> QED
    BY <1>2, <1>5, <2>1, EventBalances DEF TypeOK
<1>7. UNCHANGED token_mint_events
  BY DEF SettleCommit
<1>8. ASSUME NEW e \in ledger_entries'
      PROVE  /\ e.reference_id \in MintIds => e.nth <= token_mint_events'[e.reference_id]
             /\ e.reference_id \in RedemptionIds => e.nth <= Settlements(e.reference_id)'
  <2>1. CASE e \in ledger_entries
    <3>1. e.nth \in Nat
      BY <2>1 DEF TypeOK, StoreTypeOK, LedgerRows
    <3>2. ASSUME e.reference_id \in RedemptionIds
          PROVE  e.nth <= Settlements(e.reference_id)'
      <4>1. e.nth <= Settlements(e.reference_id)
        BY <2>1, <3>2 DEF BooksInv
      <4> QED
        BY <1>4, <3>1, <3>2, <4>1
    <3> QED
      BY <1>7, <2>1, <3>2 DEF BooksInv
  <2>2. CASE e \in {td, tc, ud, uc}
    <3>1. e.reference_id = id /\ e.nth = n
      BY <1>5, <2>2
    <3> QED
      BY <1>3, <1>4, <3>1
  <2> HIDE DEF td, tc, ud, uc
  <2> QED
    BY <1>2, <2>1, <2>2
<1> QED
  BY <1>6, <1>8 DEF BooksInv

\* Nothing else changes what is booked or settled.
LEMMA BooksStep == TypeOK /\ TypeOK' /\ BooksInv /\ [Next]_vars => BooksInv'
<1> SUFFICES ASSUME TypeOK, TypeOK', BooksInv, [Next]_vars PROVE BooksInv'
  OBVIOUS
<1>1. ASSUME UNCHANGED <<ledger_entries, token_mint_events>>,
             \A i \in RedemptionIds : Settlements(i)' = Settlements(i)
      PROVE  BooksInv'
  <2>1. \A i, cur : Booked(i, cur)' = Booked(i, cur)
    BY <1>1 DEF Booked
  <2>2. Debits' = Debits /\ Credits' = Credits
    BY DEF Debits, Credits, LedgerRows
  <2> QED
    BY <1>1, <2>1, <2>2 DEF BooksInv, LedgerBalanced
<1>2. ASSUME NEW r \in token_redemptions, NEW status \in RedemptionStatuses,
             TrackBurn(r, status)
      PROVE  BooksInv'
  <2>1. r.id \in RedemptionIds /\ status # "settled"
    BY <1>2 DEF TypeOK, StoreTypeOK, RedemptionRows, TrackBurn
  <2>2. PICK at : AppendStatus(r.id, status, at)
    BY <1>2 DEF TrackBurn
  <2>3. \A i \in RedemptionIds : Settlements(i)' = Settlements(i)
    BY <2>1, <2>2, AppendCounts DEF TypeOK
  <2> QED
    BY <1>1, <1>2, <2>3 DEF TrackBurn, mint_vars
<1>3. CASE UNCHANGED <<ledger_entries, token_mint_events, token_redemption_events>>
  <2>1. \A i \in RedemptionIds : Settlements(i)' = Settlements(i)
    BY <1>3 DEF Settlements
  <2> QED
    BY <1>1, <1>3, <2>1
<1> QED
  BY <1>2, <1>3, ConfirmBooks, SettleBooks, BookedByTwo, StatusOnlyByTwo

\* What a mint or a redemption debits it credits, in each currency, however
\* often it is confirmed or settled: the four ledger rows confirm_mint and
\* settle_redemption write with each event.
THEOREM BooksBalance == Spec => []LedgerBalanced
<1>1. BooksInv => LedgerBalanced
  BY DEF BooksInv
<1> QED
  BY <1>1, BooksInit, BooksStep, TypeCorrect, PTL DEF Spec

-----------------------------------------------------------------------------
(* How often a redemption is settled.                                      *)

BurnCount(id) == Cardinality(BurnEvents(id))
BurnReported(id) ==
  \E k \in DOMAIN token_redemption_events[id] :
    token_redemption_events[id][k].status = "burned"

\* The events of the tracker are in the order of their times, 'burned' the last.
EventTimes(id) ==
  LET events == token_redemption_events[id] IN
  /\ \A k \in BurnEvents(id) :
       /\ events[k].created_at <= 2 * BurnCount(id)
       /\ events[k].status = "burned" => events[k].created_at = 2 * BurnCount(id)
  /\ \A j, k \in BurnEvents(id) :
       events[j].created_at = events[k].created_at => j = k

\* A settlement that began after the last event of the tracker is the latest
\* status for good.
Sealed(id) ==
  \E k \in DOMAIN token_redemption_events[id] :
    /\ token_redemption_events[id][k].status = "settled"
    /\ token_redemption_events[id][k].created_at > 2 * BurnCount(id)

\* A call is about a redemption that has the events it has counted, and one past
\* the check is about a burned one.
CallsAreTimely ==
  \A s \in SettleCallers :
    LET id == settle_call[s].id IN
    /\ settle_call[s].pc \in SettleRunning => settle_call[s].began <= BurnCount(id)
    /\ settle_call[s].pc = "commit" => BurnReported(id)

\* The calls whose settlement the last report of the tracker outlives, and those
\* past the check whose settlement seals the redemption.
Straddling(id) ==
  {s \in SettleCallers : /\ settle_call[s].pc \in SettleRunning
                         /\ settle_call[s].id = id
                         /\ settle_call[s].began < BurnCount(id)}
Sealing(id) ==
  {s \in SettleCallers : /\ settle_call[s].pc = "commit"
                         /\ settle_call[s].id = id
                         /\ settle_call[s].began >= BurnCount(id)}

\* Until it is sealed only straddling calls have settled it, which no call
\* becomes any more; from then on no call passes the check.
CountedSettlements(id) ==
  LET T == Cardinality(SettleCallers) IN
  /\ ~BurnReported(id) => ~IsSettled(id)
  /\ BurnReported(id) /\ ~Sealed(id) =>
       Settlements(id) + Cardinality(Straddling(id)) <= T
  /\ BurnReported(id) /\ Sealed(id) =>
       Settlements(id) + Cardinality(Straddling(id)) + Cardinality(Sealing(id)) <= 2 * T

SettlementInv ==
  /\ CallsAreTimely
  /\ \A id \in RedemptionIds : EventTimes(id) /\ CountedSettlements(id)

\* A set of settling tasks has a size, and so has each part of it.
LEMMA TasksOfParts ==
  ASSUME NEW S \in SUBSET SettleCallers, NEW P \in SUBSET S
  PROVE  /\ Cardinality(S) \in Nat /\ Cardinality(P) \in Nat
         /\ Cardinality(P) <= Cardinality(S)
         /\ \A s \in S : s \notin P => Cardinality(P) + 1 <= Cardinality(S)
<1>1. IsFiniteSet(S) /\ IsFiniteSet(P)
  BY RedemptionAssumption, FS_Subset
<1>2. Cardinality(S) \in Nat /\ Cardinality(P) \in Nat
  BY <1>1, FS_CardinalityType
<1>3. Cardinality(P) <= Cardinality(S)
  BY <1>1, FS_Subset
<1>4. ASSUME NEW s \in S, s \notin P
      PROVE  Cardinality(P) + 1 <= Cardinality(S)
  <2>1. IsFiniteSet(P \cup {s}) /\ Cardinality(P \cup {s}) = Cardinality(P) + 1
    BY <1>1, <1>4, FS_AddElement
  <2>2. P \cup {s} \subseteq S
    BY <1>4
  <2>3. Cardinality(P \cup {s}) <= Cardinality(S)
    BY <1>1, <2>2, FS_Subset
  <2> QED
    BY <2>1, <2>3
<1> QED
  BY <1>1, <1>2, <1>3, <1>4

\* What an appended status event changes: the last position of one redemption.
LEMMA AppendedEvents ==
  ASSUME StoreTypeOK, NEW id \in RedemptionIds, NEW status, NEW at,
         AppendStatus(id, status, at)
  PROVE  LET old == token_redemption_events[id]
             new == token_redemption_events'[id]
             n == Len(old) + 1
         IN /\ DOMAIN new = DOMAIN old \cup {n} /\ n \notin DOMAIN old
            /\ \A k \in DOMAIN old : new[k] = old[k]
            /\ new[n].status = status /\ new[n].created_at = at
            /\ \A i \in RedemptionIds \ {id} :
                 token_redemption_events'[i] = token_redemption_events[i]
<1> DEFINE old == token_redemption_events[id]
           e == [status |-> status, created_at |-> at]
<1>1. old \in Seq(StatusEventType)
  BY DEF StoreTypeOK
<1>2. token_redemption_events'[id] = Append(old, e)
  BY DEF AppendStatus, StoreTypeOK
<1>3. \A i \in RedemptionIds \ {id} :
        token_redemption_events'[i] = token_redemption_events[i]
  BY DEF AppendStatus, StoreTypeOK
<1>4. /\ DOMAIN Append(old, e) = DOMAIN old \cup {Len(old) + 1}
      /\ Len(old) + 1 \notin DOMAIN old /\ Append(old, e)[Len(old) + 1] = e
      /\ \A k \in DOMAIN old : Append(old, e)[k] = old[k]
  BY <1>1
<1>5. e.status = status /\ e.created_at = at
  OBVIOUS
<1> QED
  BY <1>2, <1>3, <1>4, <1>5

\* The types of times and counts.
LEMMA TimesAreNat ==
  ASSUME StoreTypeOK, NEW id \in RedemptionIds
  PROVE  /\ BurnCount(id) \in Nat
         /\ \A k \in DOMAIN token_redemption_events[id] :
              token_redemption_events[id][k].created_at \in Nat
<1>1. token_redemption_events[id] \in Seq(StatusEventType)
  BY DEF StoreTypeOK
<1>2. \A k \in DOMAIN token_redemption_events[id] :
        token_redemption_events[id][k] \in StatusEventType
  BY <1>1
<1> QED
  BY <1>2, EventCountsNat DEF BurnCount, StatusEventType

\* Once the burn is reported the latest status is 'burned' or 'settled', and only
\* 'settled' once the redemption is sealed.
LEMMA FinalStatus ==
  ASSUME StoreTypeOK, NEW id \in RedemptionIds, EventTimes(id), BurnReported(id),
         NEW status, LatestIs(id, status)
  PROVE  status \in {"burned", "settled"} /\ (status = "burned" => ~Sealed(id))
<1> DEFINE events == token_redemption_events[id]
<1>1. PICK b \in DOMAIN events : events[b].status = "burned"
  BY DEF BurnReported
<1>2. PICK k \in DOMAIN events :
        /\ events[k].status = status
        /\ \A j \in DOMAIN events : events[j].created_at <= events[k].created_at
  BY <1>1 DEF LatestIs
<1>3. BurnCount(id) \in Nat /\ \A j \in DOMAIN events : events[j].created_at \in Nat
  BY TimesAreNat
<1>4. b \in BurnEvents(id) /\ events[b].created_at = 2 * BurnCount(id)
  BY <1>1 DEF BurnEvents, EventTimes
<1>5. CASE status = "settled"
  BY <1>5
<1>6. CASE status # "settled"
  <2>1. k \in BurnEvents(id)
    BY <1>2, <1>6 DEF BurnEvents
  <2>2. events[k].created_at <= 2 * BurnCount(id) /\ events[b].created_at <= events[k].created_at
    BY <1>2, <2>1 DEF EventTimes
  <2>3. events[k].created_at = events[b].created_at
    BY <1>3, <1>4, <2>2
  <2>4. k = b
    BY <1>4, <2>1, <2>3 DEF EventTimes
  <2>5. ~Sealed(id)
    BY <1>2, <1>3, <2>2 DEF Sealed
  <2> QED
    BY <1>1, <1>2, <2>4, <2>5
<1> QED
  BY <1>5, <1>6

\* A call of settle_redemption ends, begins, or passes its check; a status event
\* is written by one that ends, or by nobody's call.
LEMMA SettleCallMoves ==
  ASSUME TypeOK, [Next]_vars, NEW s \in SettleCallers
  PROVE  \/ settle_call'[s] = settle_call[s]
         \/ settle_call'[s] = IdleSettle
         \/ \E id \in RedemptionIds :
              /\ settle_call'[s] = SettleFrame("read_status", id, BurnCount(id))
              /\ UNCHANGED token_redemption_events
         \/ /\ settle_call[s].pc = "read_status" /\ settle_call'[s].pc = "commit"
            /\ settle_call'[s].id = settle_call[s].id
            /\ settle_call'[s].began = settle_call[s].began
            /\ LatestIs(settle_call[s].id, "burned")
            /\ UNCHANGED token_redemption_events
<1>0. settle_call[s] \in SettleFrameType /\ settle_call \in [SettleCallers -> SettleFrameType]
  BY DEF TypeOK, RedemptionTypeOK
<1>1. ASSUME NEW t \in SettleCallers, SettleStepOf(t), t # s
      PROVE  settle_call'[s] = settle_call[s]
  BY <1>1, <1>0 DEF SettleStepOf, SettleStep, SettleBegin, SettleReadStatus, SettleCommit,
     SettleFail, SettleReturn
<1>2. ASSUME SettleReturn(s) PROVE settle_call'[s] = IdleSettle
  BY <1>0, <1>2 DEF SettleReturn
<1>3. ASSUME NEW id, SettleBegin(s, id)
      PROVE  /\ id \in RedemptionIds /\ UNCHANGED token_redemption_events
             /\ settle_call'[s] = SettleFrame("read_status", id, BurnCount(id))
  BY <1>0, <1>3 DEF SettleBegin, BurnCount, TypeOK, StoreTypeOK, RedemptionRows, store_vars
<1>4. ASSUME SettleReadStatus(s), ~SettleReturn(s)
      PROVE  /\ settle_call[s].pc = "read_status" /\ settle_call'[s].pc = "commit"
             /\ settle_call'[s].id = settle_call[s].id
             /\ settle_call'[s].began = settle_call[s].began
             /\ LatestIs(settle_call[s].id, "burned")
             /\ UNCHANGED token_redemption_events
  <2>1. /\ settle_call[s].pc = "read_status" /\ LatestIs(settle_call[s].id, "burned")
        /\ settle_call' = [settle_call EXCEPT ![s].pc = "commit"]
        /\ UNCHANGED token_redemption_events
    BY <1>4 DEF SettleReadStatus, RequiredStatus, store_vars
  <2> QED
    BY <1>0, <2>1 DEF SettleFrameType
<1>5. CASE SettleStepOf(s)
  BY <1>2, <1>3, <1>4, <1>5 DEF SettleStepOf, SettleStep, SettleCommit, SettleFail
<1>6. (\E t \in SettleCallers : SettleStepOf(t)) \/ UNCHANGED settle_call
  BY DEF Next, vars, MintStepOf, RedeemStepOf, RedeemStep, RedeemReplay, RedeemStart,
     RedeemCheckSender, RedeemCheckReceiver, RedeemScanBalance, RedeemLockRow,
     RedeemSumBalance, RedeemInsert, RedeemReject, RedeemSend, RedeemFail, Confirm,
     ChainMint, ChainBurn, TrackBurn, Compliance, redemption_vars
<1> QED
  BY <1>1, <1>5, <1>6

\* A step that writes no status event settles nothing and makes no call straddle;
\* no call passes the check of a sealed redemption.
LEMMA SettlementsQuiet ==
  ASSUME TypeOK, SettlementInv, [Next]_vars, UNCHANGED token_redemption_events
  PROVE  SettlementInv'
<1>1. \A id : /\ BurnEvents(id)' = BurnEvents(id) /\ BurnCount(id)' = BurnCount(id)
              /\ BurnReported(id)' = BurnReported(id) /\ Sealed(id)' = Sealed(id)
              /\ IsSettled(id)' = IsSettled(id) /\ Settlements(id)' = Settlements(id)
  BY DEF BurnEvents, BurnCount, BurnReported, Sealed, IsSettled, Settlements
<1>2. \A s \in SettleCallers :
        settle_call[s].pc \in SettleRunning => settle_call[s].id \in RedemptionIds
  BY DEF TypeOK, RedemptionTypeOK
<1>3. CallsAreTimely'
  <2> SUFFICES ASSUME NEW s \in SettleCallers
               PROVE  /\ settle_call'[s].pc \in SettleRunning =>
                           settle_call'[s].began <= BurnCount(settle_call'[s].id)
                      /\ settle_call'[s].pc = "commit" => BurnReported(settle_call'[s].id)
    BY <1>1 DEF CallsAreTimely
  <2>1. CASE settle_call'[s] = settle_call[s]
    BY <2>1 DEF SettlementInv, CallsAreTimely
  <2>2. CASE settle_call'[s] = IdleSettle
    BY <2>2 DEF IdleSettle, SettleFrame, SettleRunning
  <2>3. ASSUME NEW id \in RedemptionIds,
               settle_call'[s] = SettleFrame("read_status", id, BurnCount(id))
        PROVE  /\ settle_call'[s].began <= BurnCount(settle_call'[s].id)
               /\ settle_call'[s].pc # "commit"
    <3>1. BurnCount(id) \in Nat
      BY TimesAreNat DEF TypeOK
    <3> QED
      BY <2>3, <3>1 DEF SettleFrame
  <2>4. CASE /\ settle_call[s].pc = "read_status" /\ settle_call'[s].pc = "commit"
             /\ settle_call'[s].id = settle_call[s].id
             /\ settle_call'[s].began = settle_call[s].began
             /\ LatestIs(settle_call[s].id, "burned")
    BY <2>4 DEF SettlementInv, CallsAreTimely, SettleRunning, LatestIs, BurnReported
  <2> QED
    BY <2>1, <2>2, <2>3, <2>4, SettleCallMoves
<1>4. ASSUME NEW id \in RedemptionIds PROVE EventTimes(id)'
  BY <1>1 DEF SettlementInv, EventTimes
<1>5. ASSUME NEW id \in RedemptionIds PROVE CountedSettlements(id)'
  <2>1. Straddling(id)' \subseteq Straddling(id)
    <3> SUFFICES ASSUME NEW s \in SettleCallers, settle_call'[s].pc \in SettleRunning,
                        settle_call'[s].id = id, settle_call'[s].began < BurnCount(id)
                 PROVE  /\ settle_call[s].pc \in SettleRunning
                        /\ settle_call[s].id = id /\ settle_call[s].began < BurnCount(id)
      BY <1>1 DEF Straddling
    <3>1. settle_call'[s] # IdleSettle
      BY DEF IdleSettle, SettleFrame, SettleRunning
    <3>2. settle_call'[s] # SettleFrame("read_status", id, BurnCount(id))
      BY TimesAreNat DEF SettleFrame, TypeOK
    <3>3. ASSUME NEW i, settle_call'[s] = SettleFrame("read_status", i, BurnCount(i))
          PROVE  i = id
      BY <3>3 DEF SettleFrame
    <3> QED
      BY <3>1, <3>2, <3>3, SettleCallMoves DEF SettleRunning
  <2>2. ASSUME BurnReported(id), Sealed(id)
        PROVE  Sealing(id)' \subseteq Sealing(id)
    <3>1. ~LatestIs(id, "burned")
      BY <2>2, FinalStatus DEF SettlementInv, TypeOK
    <3> SUFFICES ASSUME NEW s \in SettleCallers, settle_call'[s].pc = "commit",
                        settle_call'[s].id = id, settle_call'[s].began >= BurnCount(id)
                 PROVE  settle_call'[s] = settle_call[s]
      BY <1>1 DEF Sealing
    <3>2. settle_call'[s] # IdleSettle
      BY DEF IdleSettle, SettleFrame
    <3>3. \A i, n : settle_call'[s] # SettleFrame("read_status", i, n)
      BY DEF SettleFrame
    <3> QED
      BY <3>1, <3>2, <3>3, SettleCallMoves
  <2>3. /\ Cardinality(Straddling(id)) \in Nat /\ Cardinality(Straddling(id)') \in Nat
        /\ Cardinality(Straddling(id)') <= Cardinality(Straddling(id))
    <3>1. Straddling(id) \in SUBSET SettleCallers
      BY DEF Straddling
    <3> QED
      BY <2>1, <3>1, TasksOfParts
  <2>4. ASSUME BurnReported(id), Sealed(id)
        PROVE  /\ Cardinality(Sealing(id)) \in Nat /\ Cardinality(Sealing(id)') \in Nat
               /\ Cardinality(Sealing(id)') <= Cardinality(Sealing(id))
    <3>1. Sealing(id) \in SUBSET SettleCallers
      BY DEF Sealing
    <3> QED
      BY <2>2, <2>4, <3>1, TasksOfParts
  <2>5. Settlements(id) \in Nat /\ Cardinality(SettleCallers) \in Nat
    BY EventCountsNat, TasksOfParts DEF TypeOK
  <2>6. CountedSettlements(id)
    BY DEF SettlementInv
  <2> QED
    BY <1>1, <2>3, <2>4, <2>5, <2>6 DEF CountedSettlements
<1> QED
  BY <1>3, <1>4, <1>5 DEF SettlementInv

\* The burn tracker reports nothing after 'burned', so its last report may only
\* turn calls into straddling ones before anything is settled.
LEMMA SettlementsTracked ==
  ASSUME TypeOK, SettlementInv, NEW r \in token_redemptions,
         NEW status \in RedemptionStatuses, TrackBurn(r, status)
  PROVE  SettlementInv'
<1> DEFINE id == r.id
           old == token_redemption_events[id]
           new == token_redemption_events'[id]
           n == Len(old) + 1
           at == 2 * (BurnCount(id) + 1)
<1>1. id \in RedemptionIds /\ StoreTypeOK
  BY DEF TypeOK, StoreTypeOK, RedemptionRows
<1>2. status \in {"approved", "burning", "burned", "failed"} /\ AppendStatus(id, status, at)
  BY DEF TrackBurn, BurnCount
<1>3. /\ DOMAIN new = DOMAIN old \cup {n} /\ n \notin DOMAIN old
      /\ \A k \in DOMAIN old : new[k] = old[k]
      /\ new[n].status = status /\ new[n].created_at = at
      /\ \A i \in RedemptionIds \ {id} :
           token_redemption_events'[i] = token_redemption_events[i]
  <2> HIDE DEF at, id
  <2> QED
    BY <1>1, <1>2, AppendedEvents
<1>4. BurnCount(id) \in Nat /\ \A k \in DOMAIN old : old[k].created_at \in Nat
  BY <1>1, TimesAreNat
<1>5. BurnEvents(id)' = BurnEvents(id) \cup {n} /\ n \notin BurnEvents(id)
  BY <1>2, <1>3 DEF BurnEvents
<1>6. BurnCount(id)' = BurnCount(id) + 1
  <2>1. IsFiniteSet(BurnEvents(id))
    <3>1. old \in Seq(StatusEventType)
      BY <1>1 DEF StoreTypeOK
    <3>2. IsFiniteSet(DOMAIN old)
      BY <3>1, FS_Interval
    <3> QED
      BY <3>2, FS_Subset DEF BurnEvents
  <2> HIDE DEF n, id
  <2> QED
    BY <1>5, <2>1, FS_AddElement DEF BurnCount
<1>7. ~BurnReported(id)
  <2>1. LatestIs(id, "pending") \/ LatestIs(id, "approved") \/ LatestIs(id, "burning")
    BY DEF TrackBurn
  <2> QED
    BY <1>1, <2>1, FinalStatus DEF SettlementInv
<1>8. ~IsSettled(id) /\ ~IsSettled(id)' /\ Settlements(id)' = 0 /\ ~Sealed(id)'
  <2>1. ~IsSettled(id)
    BY <1>1, <1>7 DEF SettlementInv, CountedSettlements
  <2>2. \A k \in DOMAIN new : new[k].status # "settled"
    BY <1>2, <1>3, <2>1 DEF IsSettled
  <2>3. {k \in DOMAIN new : new[k].status = "settled"} = {}
    BY <2>2
  <2> QED
    BY <2>1, <2>2, <2>3, FS_EmptySet DEF IsSettled, Settlements, Sealed
<1>9. \A i \in RedemptionIds \ {id} :
        /\ BurnEvents(i)' = BurnEvents(i) /\ BurnCount(i)' = BurnCount(i)
        /\ BurnReported(i)' = BurnReported(i) /\ Sealed(i)' = Sealed(i)
        /\ IsSettled(i)' = IsSettled(i) /\ Settlements(i)' = Settlements(i)
  BY <1>3 DEF BurnEvents, BurnCount, BurnReported, Sealed, IsSettled, Settlements
<1>10. settle_call' = settle_call
  BY DEF TrackBurn, redemption_vars
<1>11. CallsAreTimely'
  <2> SUFFICES ASSUME NEW s \in SettleCallers, settle_call[s].pc \in SettleRunning,
                      NEW i \in RedemptionIds, i = settle_call[s].id
               PROVE  /\ settle_call[s].began <= BurnCount(i)'
                      /\ settle_call[s].pc = "commit" => BurnReported(i)'
    <3>1. \A s \in SettleCallers :
            settle_call[s].pc \in SettleRunning => settle_call[s].id \in RedemptionIds
      BY DEF TypeOK, RedemptionTypeOK
    <3> QED
      BY <1>10, <3>1 DEF CallsAreTimely, SettleRunning
  <2>1. settle_call[s].began \in Nat
    BY DEF TypeOK, RedemptionTypeOK, SettleFrameType
  <2>2. /\ settle_call[s].began <= BurnCount(i)
        /\ settle_call[s].pc = "commit" => BurnReported(i)
    BY DEF SettlementInv, CallsAreTimely
  <2>4. CASE i = id
    BY <1>4, <1>6, <1>7, <2>1, <2>2, <2>4
  <2>5. CASE i # id
    BY <1>9, <2>2, <2>5
  <2> QED
    BY <2>4, <2>5
<1>12. ASSUME NEW i \in RedemptionIds PROVE EventTimes(i)'
  <2>1. CASE i # id
    BY <1>3, <1>9, <2>1 DEF SettlementInv, EventTimes
  <2>2. CASE i = id
    <3>1. \A k \in BurnEvents(id) : new[k] = old[k] /\ old[k].created_at <= 2 * BurnCount(id)
                                    /\ old[k].status # "burned"
      BY <1>1, <1>3, <1>7 DEF SettlementInv, EventTimes, BurnEvents, BurnReported
    <3>2. \A k \in BurnEvents(id) : /\ new[k].created_at \in Nat
                                    /\ new[k].created_at < 2 * (BurnCount(id) + 1)
                                    /\ new[k].status # "burned"
      <4>1. \A k \in BurnEvents(id) : k \in DOMAIN old
        BY DEF BurnEvents
      <4> QED
        BY <1>4, <3>1, <4>1
    <3>3. \A j, k \in BurnEvents(id) : new[j].created_at = new[k].created_at => j = k
      BY <1>1, <3>1 DEF SettlementInv, EventTimes
    <3>4. new[n].created_at = 2 * (BurnCount(id) + 1)
      BY <1>3
    <3> HIDE DEF n, new, old
    <3>5. /\ \A k \in BurnEvents(id)' :
               /\ new[k].created_at <= 2 * (BurnCount(id) + 1)
               /\ new[k].status = "burned" => new[k].created_at = 2 * (BurnCount(id) + 1)
          /\ \A j, k \in BurnEvents(id)' : new[j].created_at = new[k].created_at => j = k
      BY <1>4, <1>5, <3>1, <3>2, <3>3, <3>4
    <3>6. EventTimes(id)'
      BY <1>6, <3>5 DEF EventTimes, new
    <3> QED
      BY <2>2, <3>6
  <2> QED
    BY <2>1, <2>2
<1>13. ASSUME NEW i \in RedemptionIds PROVE CountedSettlements(i)'
  <2>1. CASE i # id
    <3>1. Straddling(i)' = Straddling(i) /\ Sealing(i)' = Sealing(i)
      BY <1>9, <1>10, <2>1 DEF Straddling, Sealing
    <3>2. CountedSettlements(i)
      BY DEF SettlementInv
    <3> QED
      BY <1>9, <2>1, <3>1, <3>2 DEF CountedSettlements
  <2>2. CASE i = id
    <3>1. /\ Cardinality(Straddling(id)') \in Nat /\ Cardinality(SettleCallers) \in Nat
          /\ Cardinality(Straddling(id)') <= Cardinality(SettleCallers)
      <4>1. Straddling(id)' \in SUBSET SettleCallers
        BY DEF Straddling
      <4> QED
        BY <4>1, TasksOfParts
    <3>2. CountedSettlements(id)'
      BY <1>8, <3>1 DEF CountedSettlements
    <3> QED
      BY <2>2, <3>2
  <2> QED
    BY <2>1, <2>2
<1> QED
  BY <1>11, <1>12, <1>13 DEF SettlementInv

\* A settlement takes its call out of the straddling or of the sealing ones, and
\* seals the redemption in the second case.
LEMMA SettlementsCommitted ==
  ASSUME TypeOK, SettlementInv, [Next]_vars,
         NEW s \in SettleCallers, SettleStepOf(s), SettleCommit(s)
  PROVE  SettlementInv'
<1>0. PICK id \in RedemptionIds, began \in Nat :
        id = settle_call[s].id /\ began = settle_call[s].began
  BY DEF SettleCommit, TypeOK, RedemptionTypeOK, SettleFrameType, SettleRunning
<1> DEFINE old == token_redemption_events[id]
           new == token_redemption_events'[id]
           n == Len(old) + 1
<1>1. /\ settle_call[s].pc = "commit" /\ StoreTypeOK
      /\ AppendStatus(id, "settled", SettledAt(s)) /\ SettledAt(s) = 2 * began + 1
  BY <1>0 DEF SettleCommit, TypeOK, SettledAt
<1>2. settle_call'[s] = IdleSettle /\ \A t \in SettleCallers \ {s} : settle_call'[t] = settle_call[t]
  BY DEF SettleCommit, SettleReturn, TypeOK, RedemptionTypeOK
<1>3. /\ DOMAIN new = DOMAIN old \cup {n} /\ n \notin DOMAIN old
      /\ \A k \in DOMAIN old : new[k] = old[k]
      /\ new[n].status = "settled" /\ new[n].created_at = SettledAt(s)
      /\ \A i \in RedemptionIds \ {id} :
           token_redemption_events'[i] = token_redemption_events[i]
  BY <1>1, AppendedEvents
<1>4. BurnCount(id) \in Nat /\ began <= BurnCount(id) /\ BurnReported(id)
  BY <1>0, <1>1, TimesAreNat DEF SettlementInv, CallsAreTimely, SettleRunning
<1>5. \A i \in RedemptionIds :
        /\ BurnEvents(i)' = BurnEvents(i) /\ BurnCount(i)' = BurnCount(i)
        /\ BurnReported(i)' = BurnReported(i)
  <2> SUFFICES ASSUME NEW i \in RedemptionIds
               PROVE  BurnEvents(i)' = BurnEvents(i) /\ BurnReported(i)' = BurnReported(i)
    BY DEF BurnCount
  <2>1. CASE i # id
    BY <1>3, <2>1 DEF BurnEvents, BurnReported
  <2>2. BurnEvents(id)' = BurnEvents(id) /\ BurnReported(id)' = BurnReported(id)
    BY <1>3 DEF BurnEvents, BurnReported
  <2> QED
    BY <2>1, <2>2
<1>6. \A i \in RedemptionIds \ {id} :
        /\ Sealed(i)' = Sealed(i) /\ IsSettled(i)' = IsSettled(i)
        /\ Settlements(i)' = Settlements(i)
  BY <1>3, <1>5 DEF Sealed, IsSettled, Settlements
<1>7. Settlements(id) \in Nat /\ Settlements(id)' = Settlements(id) + 1
  BY <1>1, AppendCounts, EventCountsNat
<1>8. Sealed(id)' <=> Sealed(id) \/ began >= BurnCount(id)
  <2>1. SettledAt(s) > 2 * BurnCount(id) <=> began >= BurnCount(id)
    BY <1>1, <1>4
  <2> QED
    BY <1>3, <1>5, <2>1 DEF Sealed
<1>9. CallsAreTimely'
  <2>1. \A t \in SettleCallers : settle_call'[t].pc \in SettleRunning =>
          settle_call'[t] = settle_call[t] /\ settle_call[t].id \in RedemptionIds
    BY <1>2 DEF IdleSettle, SettleFrame, SettleRunning, TypeOK, RedemptionTypeOK
  <2> SUFFICES ASSUME NEW t \in SettleCallers, settle_call[t].pc \in SettleRunning,
                      NEW i \in RedemptionIds, i = settle_call[t].id
               PROVE  /\ settle_call[t].began <= BurnCount(i)'
                      /\ settle_call[t].pc = "commit" => BurnReported(i)'
    BY <2>1 DEF CallsAreTimely, SettleRunning
  <2> QED
    BY <1>5 DEF SettlementInv, CallsAreTimely
<1>10. ASSUME NEW i \in RedemptionIds PROVE EventTimes(i)'
  <2>1. \A k \in BurnEvents(i) : token_redemption_events'[i][k] = token_redemption_events[i][k]
    BY <1>3 DEF BurnEvents
  <2>2. EventTimes(i)
    BY DEF SettlementInv
  <2> QED
    BY <1>5, <2>1, <2>2 DEF EventTimes
<1>11. ASSUME NEW i \in RedemptionIds
       PROVE  /\ Straddling(i)' = Straddling(i) \ {s}
              /\ Sealing(i)' = Sealing(i) \ {s}
  <2>1. s \notin Straddling(i)' /\ s \notin Sealing(i)'
    BY <1>2 DEF Straddling, Sealing, IdleSettle, SettleFrame, SettleRunning
  <2> QED
    BY <1>2, <1>5, <2>1 DEF Straddling, Sealing
<1>12. ASSUME NEW i \in RedemptionIds PROVE CountedSettlements(i)'
  <2>1. CASE i # id
    <3>1. Straddling(i)' = Straddling(i) /\ Sealing(i)' = Sealing(i)
      BY <1>0, <1>11, <2>1 DEF Straddling, Sealing
    <3>2. CountedSettlements(i)
      BY DEF SettlementInv
    <3> QED
      BY <1>5, <1>6, <2>1, <3>1, <3>2 DEF CountedSettlements
  <2>2. CASE i = id
    <3> DEFINE Str == Straddling(id)
               Sea == Sealing(id)
               T == Cardinality(SettleCallers)
    <3>1. Straddling(id)' = Str \ {s} /\ Sealing(id)' = Sea \ {s}
      BY <1>1, <1>11
    <3>2. /\ Str \in SUBSET SettleCallers /\ Sea \in SUBSET SettleCallers
          /\ (Str \ {s}) \in SUBSET Str /\ (Sea \ {s}) \in SUBSET Sea
      BY DEF Straddling, Sealing
    <3>3. /\ T \in Nat /\ Cardinality(Str) \in Nat /\ Cardinality(Sea) \in Nat
          /\ Cardinality(Str \ {s}) \in Nat /\ Cardinality(Sea \ {s}) \in Nat
          /\ Cardinality(Str \ {s}) <= Cardinality(Str)
          /\ Cardinality(Sea \ {s}) <= Cardinality(Sea)
          /\ s \in Str => Cardinality(Str \ {s}) + 1 <= Cardinality(Str)
          /\ s \in Sea => Cardinality(Sea \ {s}) + 1 <= Cardinality(Sea)
          /\ Cardinality(Sea) <= T
      <4> HIDE DEF Str, Sea
      <4>1. /\ Cardinality(Str) \in Nat /\ Cardinality(Str \ {s}) \in Nat
            /\ Cardinality(Str \ {s}) <= Cardinality(Str)
            /\ s \in Str => Cardinality(Str \ {s}) + 1 <= Cardinality(Str)
        BY <3>2, TasksOfParts
      <4>2. /\ Cardinality(Sea) \in Nat /\ Cardinality(Sea \ {s}) \in Nat
            /\ Cardinality(Sea \ {s}) <= Cardinality(Sea)
            /\ s \in Sea => Cardinality(Sea \ {s}) + 1 <= Cardinality(Sea)
        BY <3>2, TasksOfParts
      <4>3. T \in Nat /\ Cardinality(Sea) <= T
        BY <3>2, TasksOfParts
      <4> QED
        BY <4>1, <4>2, <4>3
    <3>4. IF began < BurnCount(id) THEN s \in Str ELSE s \in Sea /\ began >= BurnCount(id)
      BY <1>0, <1>1, <1>4 DEF Straddling, Sealing, SettleRunning
    <3>5. CountedSettlements(id) /\ BurnReported(id)'
      BY <1>1, <1>4, <1>5 DEF SettlementInv
    <3> HIDE DEF Str, Sea, T
    <3>6. CASE Sealed(id)
      <4>1. Settlements(id) + Cardinality(Str) + Cardinality(Sea) <= 2 * T
        BY <1>4, <3>5, <3>6 DEF CountedSettlements, Str, Sea, T
      <4>2. Settlements(id) + 1 + Cardinality(Str \ {s}) + Cardinality(Sea \ {s}) <= 2 * T
        BY <1>7, <3>3, <3>4, <4>1
      <4>3. CountedSettlements(id)'
        BY <1>7, <1>8, <3>1, <3>5, <3>6, <4>2 DEF CountedSettlements, T
      <4> QED
        BY <2>2, <4>3
    <3>7. CASE ~Sealed(id)
      <4>1. Settlements(id) + Cardinality(Str) <= T
        BY <1>4, <3>5, <3>7 DEF CountedSettlements, Str, T
      <4>2. CASE began < BurnCount(id)
        <5>1. Settlements(id) + 1 + Cardinality(Str \ {s}) <= T
          BY <1>7, <3>3, <3>4, <4>1, <4>2
        <5>2. ~Sealed(id)'
          BY <1>1, <1>4, <1>8, <3>7, <4>2
        <5>3. CountedSettlements(id)'
          BY <1>7, <3>1, <3>5, <5>1, <5>2 DEF CountedSettlements, T
        <5> QED
          BY <2>2, <5>3
      <4>3. CASE ~(began < BurnCount(id))
        <5>1. Settlements(id) + 1 + Cardinality(Str \ {s}) + Cardinality(Sea \ {s}) <= 2 * T
          BY <1>7, <3>3, <3>4, <4>1, <4>3
        <5>2. Sealed(id)'
          BY <1>8, <3>4, <4>3
        <5>3. CountedSettlements(id)'
          BY <1>7, <3>1, <3>5, <5>1, <5>2 DEF CountedSettlements, T
        <5> QED
          BY <2>2, <5>3
      <4> QED
        BY <4>2, <4>3
    <3> QED
      BY <3>6, <3>7
  <2> QED
    BY <2>1, <2>2
<1> QED
  BY <1>9, <1>10, <1>12 DEF SettlementInv

\* Nothing is settled or burned at first.
LEMMA SettlementInit == Init => SettlementInv
<1> SUFFICES ASSUME Init PROVE SettlementInv
  OBVIOUS
<1>1. \A id \in RedemptionIds : token_redemption_events[id] = << >>
  BY DEF Init, StoreInit
<1>2. CallsAreTimely
  BY DEF Init, RedemptionInit, IdleSettle, SettleFrame, CallsAreTimely, SettleRunning
<1>3. ASSUME NEW id \in RedemptionIds PROVE EventTimes(id) /\ CountedSettlements(id)
  <2>1. DOMAIN token_redemption_events[id] = {}
    BY <1>1
  <2> QED
    BY <2>1 DEF EventTimes, CountedSettlements, BurnReported, IsSettled, BurnEvents
<1> QED
  BY <1>2, <1>3 DEF SettlementInv

\* A redemption is settled, and its wire ordered, at most twice by each task that
\* calls settle_redemption, however its status reads, calls and the burn tracker
\* interleave.
THEOREM SettlementsBounded == Spec => []SettlementsAreBounded
<1>1. TypeOK /\ SettlementInv /\ [Next]_vars => SettlementInv'
  BY SettlementsQuiet, SettlementsTracked, SettlementsCommitted, StatusOnlyByTwo
<1>2. TypeOK /\ SettlementInv => SettlementsAreBounded
  <2> SUFFICES ASSUME TypeOK, SettlementInv, NEW id \in RedemptionIds
               PROVE  Settlements(id) <= 2 * Cardinality(SettleCallers)
    BY DEF SettlementsAreBounded
  <2>1. Straddling(id) \in SUBSET SettleCallers /\ Sealing(id) \in SUBSET SettleCallers
    BY DEF Straddling, Sealing
  <2>2. /\ Cardinality(Straddling(id)) \in Nat /\ Cardinality(Sealing(id)) \in Nat
        /\ Cardinality(SettleCallers) \in Nat /\ Settlements(id) \in Nat
    BY <2>1, TasksOfParts, EventCountsNat DEF TypeOK
  <2>3. ~BurnReported(id) => Settlements(id) = 0
    <3>1. ~IsSettled(id) => {k \in DOMAIN token_redemption_events[id] :
                               token_redemption_events[id][k].status = "settled"} = {}
      BY DEF IsSettled
    <3> QED
      BY <3>1, FS_EmptySet DEF Settlements, SettlementInv, CountedSettlements
  <2> QED
    BY <2>2, <2>3 DEF SettlementInv, CountedSettlements
<1> QED
  BY <1>1, <1>2, SettlementInit, TypeCorrect, PTL DEF Spec

=============================================================================
