---------------------------- MODULE SupplyProofs -----------------------------
(***************************************************************************)
(* The supply check of mint_tokens is right for any number of callers,     *)
(* assets, requests and redemptions. AllocatedWithinSupply alone is not    *)
(* inductive: it needs what the row lock guarantees to the call that       *)
(* checks (SupplyReadsAreCurrent), which needs that the lock is held from  *)
(* the first sum to the commit (LocksAreHeldByTheirCalls), and that only   *)
(* positive amounts are settled, so that what has been released meanwhile  *)
(* only grows. Then the keys, and what a revocation is worth to calls that *)
(* read the whitelist without a lock (Cleared).                            *)
(***************************************************************************)
EXTENDS LifecycleTypes

SupplyInv ==
  /\ LocksAreHeldByTheirCalls
  /\ SupplyReadsAreCurrent
  /\ AllocatedWithinSupply

-----------------------------------------------------------------------------
(* What any step does to the two sums.                                     *)

\* Status events are only ever appended.
LEMMA AppendKeepsSettled ==
  ASSUME StoreTypeOK, NEW id \in RedemptionIds, NEW status, NEW at,
         AppendStatus(id, status, at)
  PROVE  \A i \in RedemptionIds : IsSettled(i) => IsSettled(i)'
<1> SUFFICES ASSUME NEW i \in RedemptionIds, IsSettled(i) PROVE IsSettled(i)'
  OBVIOUS
<1> DEFINE old == token_redemption_events[i]
           e == [status |-> status, created_at |-> at]
<1>1. old \in Seq(StatusEventType)
  BY DEF StoreTypeOK
<1>2. PICK k \in DOMAIN old : old[k].status = "settled"
  BY DEF IsSettled
<1>3. k \in DOMAIN Append(old, e) /\ Append(old, e)[k] = old[k]
  BY <1>1, <1>2
<1>4. token_redemption_events'[i] = old \/ token_redemption_events'[i] = Append(old, e)
  BY DEF AppendStatus, StoreTypeOK
<1>5. k \in DOMAIN token_redemption_events'[i]
        /\ token_redemption_events'[i][k].status = "settled"
  BY <1>2, <1>3, <1>4
<1> QED
  BY <1>5 DEF IsSettled

\* Redemptions are never deleted and never un-settled.
LEMMA SettledStays ==
  ASSUME TypeOK, [Next]_vars
  PROVE  /\ token_redemptions \subseteq token_redemptions'
         /\ \A i \in RedemptionIds : IsSettled(i) => IsSettled(i)'
<1> DEFINE Keeps == /\ token_redemptions \subseteq token_redemptions'
                    /\ \A i \in RedemptionIds : IsSettled(i) => IsSettled(i)'
<1>1. ASSUME UNCHANGED token_redemption_events
      PROVE  \A i \in RedemptionIds : IsSettled(i) => IsSettled(i)'
  BY <1>1 DEF IsSettled
<1>2. ASSUME NEW c \in MintCallers, MintStepOf(c) PROVE Keeps
  BY <1>1, <1>2 DEF MintStepOf, MintStep, MintReplay, MintStart, MintCheckSender,
       MintCheckReceiver, MintLockSupply, MintSupplyNotFound, MintSumMinted,
       MintSumRedeemed, MintInsert, MintReject, MintSend, MintFail, store_vars
<1>3. ASSUME NEW c \in RedeemCallers, RedeemStepOf(c) PROVE Keeps
  BY <1>1, <1>3 DEF RedeemStepOf, RedeemStep, RedeemReplay, RedeemStart,
       RedeemCheckSender, RedeemCheckReceiver, RedeemScanBalance, RedeemLockRow,
       RedeemSumBalance, RedeemInsert, RedeemReject, RedeemSend, RedeemFail, store_vars
<1>4. ASSUME NEW s \in SettleCallers, SettleStepOf(s) PROVE Keeps
  <2>1. CASE SettleCommit(s)
    <3>1. settle_call[s].id \in RedemptionIds
      BY <2>1 DEF SettleCommit, TypeOK, RedemptionTypeOK, SettleRunning
    <3> QED
      BY <2>1, <3>1, AppendKeepsSettled DEF SettleCommit, TypeOK
  <2>2. CASE UNCHANGED store_vars
    BY <1>1, <2>2 DEF store_vars
  <2> QED
    BY <1>4, <2>1, <2>2 DEF SettleStepOf, SettleStep, SettleBegin,
         SettleReadStatus, SettleFail
<1>5. ASSUME NEW r \in token_redemptions, NEW status \in RedemptionStatuses,
             TrackBurn(r, status)
      PROVE  Keeps
  <2>1. r.id \in RedemptionIds
    BY DEF TypeOK, StoreTypeOK, RedemptionRows
  <2> QED
    BY <1>5, <2>1, AppendKeepsSettled DEF TrackBurn, TypeOK
<1>6. ASSUME \/ \E m \in token_mints : Confirm(m) \/ ChainMint(m)
             \/ \E r \in token_redemptions : ChainBurn(r)
             \/ \E w \in Wallets : Compliance(w)
             \/ UNCHANGED vars
      PROVE  Keeps
  BY <1>1, <1>6 DEF Confirm, ConfirmMint, ChainMint, ChainBurn, Compliance,
       GrantWallet, RevokeWallet, vars, store_vars
<1> QED
  BY <1>2, <1>3, <1>4, <1>5, <1>6 DEF Next

\* So what redemptions have released never shrinks.
LEMMA SettledSupplyGrows ==
  ASSUME TypeOK, TypeOK', [Next]_vars, OnlyPositiveAmountsMove', NEW a
  PROVE  /\ SettledSupply(a) <= SettledSupply(a)'
         /\ SettledSupply(a) \in Int /\ SettledSupply(a)' \in Int
<1> DEFINE S == SettledOf(a)
<1>1. S \subseteq S'
  BY SettledStays DEF SettledOf, TypeOK, StoreTypeOK, RedemptionRows
<1>2. S' \subseteq RedemptionRows /\ IsFiniteSet(S')
  BY FS_Subset DEF SettledOf, TypeOK, StoreTypeOK
<1>3. \A r \in S' : RedemptionAmount[r] \in Int /\ RedemptionAmount[r] >= 0
  <2>1. \A r \in S' : r.req.token_amount > 0
    BY DEF SettledOf, OnlyPositiveAmountsMove
  <2> QED
    BY <1>2, <2>1, AmountsInt
<1>4. SettledSupply(a) = SumOver(RedemptionAmount, S)
      /\ SettledSupply(a)' = SumOver(RedemptionAmount, S')
  BY DEF SettledSupply, RedemptionAmount, RedemptionRows
<1> HIDE DEF S
<1>5. SumOver(RedemptionAmount, S) <= SumOver(RedemptionAmount, S')
  BY <1>1, <1>2, <1>3, SumMonotone
<1>6. SumOver(RedemptionAmount, S) \in Int /\ SumOver(RedemptionAmount, S') \in Int
  <2>1. IsFiniteSet(S) /\ \A r \in S : RedemptionAmount[r] \in Int
    BY <1>1, <1>2, <1>3, FS_Subset
  <2> QED
    BY <1>2, <1>3, <2>1, SumInt
<1> QED
  BY <1>4, <1>5, <1>6

\* A step that adds no mint leaves every sum of mints alone.
LEMMA MintedSame ==
  ASSUME UNCHANGED token_mints
  PROVE  \A a : MintedSupply(a)' = MintedSupply(a)
BY DEF MintedSupply, MintsOf, MintAmount, MintRows

\* The insert adds its amount to its asset and to no other.
LEMMA MintedInsert ==
  ASSUME TypeOK, NEW c \in MintCallers, MintInsert(c), Req(c) \in MintRequests
  PROVE  \A a : MintedSupply(a)' =
                  IF a = Req(c).asset_id THEN MintedSupply(a) + Req(c).token_amount
                                         ELSE MintedSupply(a)
<1>1. PICK id \in MintIds \ {m.id : m \in token_mints} :
        token_mints' = token_mints \cup {[id |-> id, req |-> Req(c)]}
  BY DEF MintInsert
<1> DEFINE row == [id |-> id, req |-> Req(c)]
<1>2. row \in MintRows /\ row.req = Req(c) /\ row \notin token_mints
  BY <1>1 DEF MintRows
<1>3. /\ MintAmount[row] = Req(c).token_amount /\ MintAmount[row] \in Int
      /\ \A m \in token_mints : MintAmount[m] \in Int
  BY <1>2, AmountsInt DEF TypeOK, StoreTypeOK
<1> HIDE DEF row
<1>4. token_mints' = token_mints \cup {row}
  BY <1>1 DEF row
<1> SUFFICES ASSUME NEW a
             PROVE  MintedSupply(a)' =
                      IF a = Req(c).asset_id THEN MintedSupply(a) + Req(c).token_amount
                                             ELSE MintedSupply(a)
  OBVIOUS
<1>5. MintedSupply(a)' = SumOver(MintAmount, {m \in token_mints' : m.req.asset_id = a})
  BY DEF MintedSupply, MintsOf, MintAmount, MintRows
<1>6. CASE a = Req(c).asset_id
  <2>1. {m \in token_mints' : m.req.asset_id = a} = MintsOf(a) \cup {row}
    BY <1>2, <1>4, <1>6 DEF MintsOf
  <2>2. MintsOf(a) \subseteq token_mints /\ row \notin MintsOf(a)
    BY <1>2 DEF MintsOf
  <2>3. IsFiniteSet(MintsOf(a)) /\ \A m \in MintsOf(a) : MintAmount[m] \in Int
    BY <1>3, <2>2, FS_Subset DEF TypeOK, StoreTypeOK
  <2>4. SumOver(MintAmount, MintsOf(a) \cup {row})
          = SumOver(MintAmount, MintsOf(a)) + MintAmount[row]
    BY <1>3, <2>2, <2>3, SumInsert
  <2> QED
    BY <1>3, <1>5, <1>6, <2>1, <2>4 DEF MintedSupply
<1>7. CASE a # Req(c).asset_id
  <2>1. {m \in token_mints' : m.req.asset_id = a} = MintsOf(a)
    BY <1>2, <1>4, <1>7 DEF MintsOf
  <2> QED
    BY <1>5, <1>7, <2>1 DEF MintedSupply
<1> QED
  BY <1>6, <1>7

-----------------------------------------------------------------------------
(* The lock.                                                               *)

\* Leaving the locked section: the lock of the call is free, no other changes.
LEMMA UnlockStep ==
  ASSUME MintTypeOK, LocksAreHeldByTheirCalls, NEW c \in MintCallers,
         NEW pc \in (MintRunning \cup MintDone) \ MintLocked, NEW req, NEW id,
         Return(c, pc, req, id), wrapper_lock' = MintUnlocked(c)
  PROVE  LocksAreHeldByTheirCalls'
<1> SUFFICES ASSUME NEW d \in MintCallers, NEW a \in DOMAIN TokenSupply
             PROVE  wrapper_lock'[a] = d <=>
                      mint_call'[d].pc \in MintLocked /\ mint_call'[d].req.asset_id = a
  BY DEF LocksAreHeldByTheirCalls, Req
<1>1. wrapper_lock'[a] = IF wrapper_lock[a] = c THEN NoCaller ELSE wrapper_lock[a]
  BY DEF MintUnlocked, MintTypeOK
<1>2. NoCaller # d
  BY MintAssumption
<1>3. CASE d = c
  <2>1. mint_call'[d].pc = pc
    BY <1>3 DEF Return, MintFrame, MintTypeOK
  <2> QED
    BY <1>1, <1>2, <1>3, <2>1
<1>4. CASE d # c
  <2>1. mint_call'[d] = mint_call[d]
    BY <1>4 DEF Return, MintTypeOK
  <2> QED
    BY <1>1, <1>2, <1>4, <2>1 DEF LocksAreHeldByTheirCalls, Req
<1> QED
  BY <1>3, <1>4

\* Moving on without touching the lock, in or out of the locked section.
LEMMA SameLockStep ==
  ASSUME MintTypeOK, LocksAreHeldByTheirCalls, NEW c \in MintCallers, NEW frame,
         mint_call' = [mint_call EXCEPT ![c] = frame],
         frame.pc \in MintLocked <=> mint_call[c].pc \in MintLocked,
         frame.pc \in MintLocked => frame.req = mint_call[c].req,
         wrapper_lock' = wrapper_lock
  PROVE  LocksAreHeldByTheirCalls'
<1> SUFFICES ASSUME NEW d \in MintCallers, NEW a \in DOMAIN TokenSupply
             PROVE  wrapper_lock'[a] = d <=>
                      mint_call'[d].pc \in MintLocked /\ mint_call'[d].req.asset_id = a
  BY DEF LocksAreHeldByTheirCalls, Req
<1>1. mint_call'[d] = IF d = c THEN frame ELSE mint_call[d]
  BY DEF MintTypeOK
<1> QED
  BY <1>1 DEF LocksAreHeldByTheirCalls, Req

\* Every step of a call keeps the lock and the section it protects together.
LEMMA LocksStep ==
  ASSUME TypeOK, LocksAreHeldByTheirCalls, NEW c \in MintCallers, MintStep(c)
  PROVE  LocksAreHeldByTheirCalls'
<1> USE DEF TypeOK
<1>1. ASSUME NEW pc \in (MintRunning \cup MintDone) \ MintLocked, NEW req, NEW id,
             Return(c, pc, req, id), mint_call[c].pc \notin MintLocked,
             wrapper_lock' = wrapper_lock
      PROVE  LocksAreHeldByTheirCalls'
  <2>1. MintFrame(pc, req, id).pc = pc
    BY DEF MintFrame
  <2> QED
    BY <1>1, <2>1, SameLockStep DEF Return
<1>2. ASSUME NEW req \in MintRequests, MintReplay(c, req) \/ MintStart(c, req)
      PROVE  LocksAreHeldByTheirCalls'
  <2>1. PICK id : Return(c, "ok", req, id) \/ Return(c, "check_sender", req, id)
    BY <1>2 DEF MintReplay, MintStart
  <2> QED
    BY <1>1, <1>2, <2>1
       DEF MintReplay, MintStart, MintDone, MintRunning, MintLocked
<1>3. CASE MintCheckSender(c)
  <2> DEFINE frame == [mint_call[c] EXCEPT !.pc = "check_receiver",
                         !.sender_ok = IsWhitelisted(ISSUER_WALLET)]
  <2>1. mint_call[c] \in MintFrameType /\ mint_call[c].pc = "check_sender"
    BY <1>3 DEF MintCheckSender, MintTypeOK
  <2>2. frame.pc = "check_receiver"
    BY <2>1 DEF MintFrameType
  <2>3. mint_call' = [mint_call EXCEPT ![c] = frame] /\ wrapper_lock' = wrapper_lock
    BY <1>3 DEF MintCheckSender
  <2> HIDE DEF frame
  <2> QED
    BY <2>1, <2>2, <2>3, SameLockStep DEF MintLocked
<1>4. CASE MintCheckReceiver(c)
  <2>1. PICK req, id : Return(c, "lock_supply", req, id) \/ Return(c, "idle", req, id)
    BY <1>4 DEF MintCheckReceiver
  <2> QED
    BY <1>1, <1>4, <2>1 DEF MintCheckReceiver, MintDone, MintRunning, MintLocked
<1>5. CASE MintLockSupply(c)
  <2> DEFINE b == Req(c).asset_id
  <2>1. /\ b \in DOMAIN TokenSupply /\ wrapper_lock[b] = NoCaller
        /\ wrapper_lock' = [wrapper_lock EXCEPT ![b] = c]
        /\ mint_call' = [mint_call EXCEPT ![c].pc = "sum_minted"]
        /\ mint_call[c].pc = "lock_supply"
    BY <1>5 DEF MintLockSupply, SupplyRowFree, GoTo
  <2> SUFFICES ASSUME NEW d \in MintCallers, NEW a \in DOMAIN TokenSupply
               PROVE  wrapper_lock'[a] = d <=>
                        mint_call'[d].pc \in MintLocked /\ mint_call'[d].req.asset_id = a
    BY DEF LocksAreHeldByTheirCalls, Req
  <2>2. CASE d = c
    <3>1. mint_call'[c].pc = "sum_minted" /\ mint_call'[c].req = mint_call[c].req
      BY <2>1 DEF MintTypeOK, MintFrameType
    <3>2. wrapper_lock'[a] = c <=> a = b
      BY <2>1 DEF MintTypeOK, LocksAreHeldByTheirCalls, MintLocked
    <3> QED
      BY <2>2, <3>1, <3>2 DEF MintLocked, Req
  <2>3. CASE d # c
    <3>1. mint_call'[d] = mint_call[d]
      BY <2>1, <2>3 DEF MintTypeOK
    <3>2. wrapper_lock'[a] = d <=> wrapper_lock[a] = d
      BY <2>1, <2>3, MintAssumption DEF MintTypeOK
    <3> QED
      BY <3>1, <3>2 DEF LocksAreHeldByTheirCalls, Req
  <2> QED
    BY <2>2, <2>3
<1>6. CASE MintSupplyNotFound(c)
  BY <1>1, <1>6 DEF MintSupplyNotFound, MintDone, MintLocked
<1>7. ASSUME NEW pc \in MintLocked, NEW frame, mint_call' = [mint_call EXCEPT ![c] = frame],
             frame.pc = pc, frame.req = mint_call[c].req,
             mint_call[c].pc \in MintLocked, wrapper_lock' = wrapper_lock
      PROVE  LocksAreHeldByTheirCalls'
  BY <1>7, SameLockStep
<1>8. CASE MintSumMinted(c)
  <2> DEFINE frame == [mint_call[c] EXCEPT !.pc = "sum_redeemed",
                         !.total_minted = MintedSupply(Req(c).asset_id)]
  <2>1. mint_call[c] \in MintFrameType /\ mint_call[c].pc = "sum_minted"
    BY <1>8 DEF MintSumMinted, MintTypeOK
  <2>2. frame.pc = "sum_redeemed" /\ frame.req = mint_call[c].req
    BY <2>1 DEF MintFrameType
  <2>3. mint_call' = [mint_call EXCEPT ![c] = frame] /\ wrapper_lock' = wrapper_lock
    BY <1>8 DEF MintSumMinted
  <2> HIDE DEF frame
  <2> QED
    BY <1>7, <2>1, <2>2, <2>3 DEF MintLocked
<1>9. CASE MintSumRedeemed(c)
  <2> DEFINE frame == [mint_call[c] EXCEPT !.pc = "insert",
                         !.total_redeemed = SettledSupply(Req(c).asset_id)]
  <2>1. mint_call[c] \in MintFrameType /\ mint_call[c].pc = "sum_redeemed"
    BY <1>9 DEF MintSumRedeemed, MintTypeOK
  <2>2. frame.pc = "insert" /\ frame.req = mint_call[c].req
    BY <2>1 DEF MintFrameType
  <2>3. mint_call' = [mint_call EXCEPT ![c] = frame] /\ wrapper_lock' = wrapper_lock
    BY <1>9 DEF MintSumRedeemed, TotalRedeemed
  <2> HIDE DEF frame
  <2> QED
    BY <1>7, <2>1, <2>2, <2>3 DEF MintLocked
<1>10. CASE MintInsert(c)
  <2>1. PICK id : Return(c, "send", Req(c), id)
    BY <1>10 DEF MintInsert
  <2> QED
    BY <1>10, <2>1, UnlockStep DEF MintInsert, MintRunning, MintLocked
<1>11. CASE MintReject(c) \/ MintFail(c)
  BY <1>11, UnlockStep DEF MintReject, MintFail, MintDone, MintLocked
<1>12. CASE MintSend(c)
  <2>1. PICK req, id : Return(c, "ok", req, id) \/ Return(c, "idle", req, id)
    BY <1>12 DEF MintSend
  <2> QED
    BY <1>1, <1>12, <2>1 DEF MintSend, MintDone, MintLocked
<1> QED
  BY <1>2, <1>3, <1>4, <1>5, <1>6, <1>8, <1>9, <1>10, <1>11, <1>12 DEF MintStep

-----------------------------------------------------------------------------
(* What a call has read, and the check it makes with it.                   *)

\* Reads of a call whose frame a step leaves alone stay current as long as no
\* mint is added to its asset.
ReadsOf(c) ==
  LET a == Req(c).asset_id IN
  /\ mint_call[c].pc \in MintLocked => a \in DOMAIN TokenSupply
  /\ mint_call[c].pc \in {"sum_redeemed", "insert"} =>
       mint_call[c].total_minted = MintedSupply(a)
  /\ mint_call[c].pc = "insert" => mint_call[c].total_redeemed <= SettledSupply(a)

\* A call other than the one that moves keeps a picture that is right: the sum
\* of mints is unchanged and the sum of settled redemptions did not shrink.
LEMMA ReadsStay ==
  ASSUME TypeOK, TypeOK', [Next]_vars, OnlyPositiveAmountsMove', NEW c \in MintCallers, ReadsOf(c),
         mint_call'[c] = mint_call[c],
         \A a : mint_call[c].pc \in MintLocked /\ a = mint_call[c].req.asset_id =>
           MintedSupply(a)' = MintedSupply(a)
  PROVE  ReadsOf(c)'
<1>1. PICK a : a = mint_call[c].req.asset_id
  OBVIOUS
<1>2. /\ SettledSupply(a) <= SettledSupply(a)'
      /\ SettledSupply(a) \in Int /\ SettledSupply(a)' \in Int
  BY SettledSupplyGrows
<1>3. mint_call[c].total_redeemed \in Int
  BY DEF TypeOK, MintTypeOK, MintFrameType
<1>4. mint_call[c].pc \in MintLocked => MintedSupply(a)' = MintedSupply(a)
  BY <1>1
<1>5. /\ mint_call[c].pc \in MintLocked => a \in DOMAIN TokenSupply
      /\ mint_call[c].pc \in {"sum_redeemed", "insert"} =>
           mint_call[c].total_minted = MintedSupply(a)
      /\ mint_call[c].pc = "insert" => mint_call[c].total_redeemed <= SettledSupply(a)
  BY <1>1 DEF ReadsOf, Req
<1>6. /\ mint_call'[c].pc \in MintLocked => a \in DOMAIN TokenSupply
      /\ mint_call'[c].pc \in {"sum_redeemed", "insert"} =>
           mint_call'[c].total_minted = MintedSupply(a)'
      /\ mint_call'[c].pc = "insert" => mint_call'[c].total_redeemed <= SettledSupply(a)'
  BY <1>2, <1>3, <1>4, <1>5 DEF MintLocked
<1>7. mint_call'[c].req.asset_id = a
  BY <1>1
<1> QED
  BY <1>6, <1>7 DEF ReadsOf, Req

\* Whatever happens, the sums of a call under its lock stay right.
LEMMA ReadsStep ==
  ASSUME TypeOK, TypeOK', [Next]_vars, OnlyPositiveAmountsMove',
         LocksAreHeldByTheirCalls, SupplyReadsAreCurrent
  PROVE  SupplyReadsAreCurrent'
<1> SUFFICES ASSUME NEW c \in MintCallers PROVE ReadsOf(c)'
  BY DEF SupplyReadsAreCurrent, ReadsOf
<1>1. ReadsOf(c)
  BY DEF SupplyReadsAreCurrent, ReadsOf
<1>2. ASSUME UNCHANGED <<token_mints, mint_call>> PROVE ReadsOf(c)'
  BY <1>1, <1>2, MintedSame, ReadsStay
<1>3. ASSUME NEW d \in MintCallers, MintStepOf(d), d # c PROVE ReadsOf(c)'
  <2>1. MintStep(d)
    BY <1>3 DEF MintStepOf
  <2>2. mint_call'[c] = mint_call[c]
    BY <1>3, <2>1 DEF MintStep, MintReplay, MintStart, MintCheckSender,
       MintCheckReceiver, MintLockSupply, MintSupplyNotFound, MintSumMinted,
       MintSumRedeemed, MintInsert, MintReject, MintSend, MintFail, Return, GoTo,
       TypeOK, MintTypeOK
  <2>3. CASE MintInsert(d)
    <3>1. mint_call[d].pc \in MintLocked /\ Req(d) \in MintRequests
      BY <2>3 DEF MintInsert, MintLocked, TypeOK, MintTypeOK, MintRunning, Req
    <3>2. Req(d).asset_id \in DOMAIN TokenSupply
      BY <3>1 DEF SupplyReadsAreCurrent
    <3>3. mint_call[c].pc \in MintLocked => Req(c).asset_id # Req(d).asset_id
      BY <1>3, <3>1, <3>2 DEF LocksAreHeldByTheirCalls
    <3>4. \A a : mint_call[c].pc \in MintLocked /\ a = mint_call[c].req.asset_id =>
                 MintedSupply(a)' = MintedSupply(a)
      BY <2>3, <3>1, <3>3, MintedInsert DEF Req
    <3> QED
      BY <1>1, <2>2, <3>4, ReadsStay
  <2>4. CASE UNCHANGED token_mints
    BY <1>1, <2>2, <2>4, MintedSame, ReadsStay
  <2> QED
    BY <2>1, <2>3, <2>4 DEF MintStep, MintReplay, MintStart, MintCheckSender,
       MintCheckReceiver, MintLockSupply, MintSupplyNotFound, MintSumMinted,
       MintSumRedeemed, MintReject, MintSend, MintFail, store_vars
<1>4. ASSUME MintStepOf(c) PROVE ReadsOf(c)'
  <2>1. MintStep(c)
    BY <1>4 DEF MintStepOf
  <2>2. ASSUME NEW pc \in (MintRunning \cup MintDone) \ MintLocked,
               mint_call'[c].pc = pc
        PROVE  ReadsOf(c)'
    BY <2>2 DEF ReadsOf, MintLocked
  <2>3. ASSUME NEW pc \in (MintRunning \cup MintDone) \ MintLocked, NEW req, NEW id,
               Return(c, pc, req, id)
        PROVE  ReadsOf(c)'
    <3>1. mint_call'[c].pc = pc
      BY <2>3 DEF Return, MintFrame, TypeOK, MintTypeOK
    <3> QED
      BY <2>2, <3>1
  <2>4. ASSUME NEW req \in MintRequests, MintReplay(c, req) \/ MintStart(c, req)
        PROVE  ReadsOf(c)'
    BY <2>3, <2>4 DEF MintReplay, MintStart, MintDone, MintRunning, MintLocked
  <2>5. CASE MintCheckSender(c)
    <3>1. mint_call'[c].pc = "check_receiver"
      BY <2>5 DEF MintCheckSender, TypeOK, MintTypeOK, MintFrameType
    <3> QED
      BY <2>2, <3>1 DEF MintRunning, MintLocked
  <2>6. CASE MintCheckReceiver(c)
    BY <2>3, <2>6 DEF MintCheckReceiver, MintDone, MintRunning, MintLocked
  <2>7. CASE MintLockSupply(c)
    <3>1. mint_call'[c].pc = "sum_minted" /\ mint_call'[c].req = mint_call[c].req
      BY <2>7 DEF MintLockSupply, GoTo, TypeOK, MintTypeOK, MintFrameType
    <3>2. mint_call[c].req.asset_id \in DOMAIN TokenSupply
      BY <2>7 DEF MintLockSupply, Req
    <3> QED
      BY <3>1, <3>2 DEF ReadsOf, Req
  <2>8. CASE MintSupplyNotFound(c) \/ MintReject(c) \/ MintFail(c)
    BY <2>3, <2>8 DEF MintSupplyNotFound, MintReject, MintFail, MintDone, MintLocked
  <2>9. CASE MintSumMinted(c)
    <3>1. /\ mint_call'[c].pc = "sum_redeemed" /\ mint_call'[c].req = mint_call[c].req
          /\ mint_call'[c].total_minted = MintedSupply(mint_call[c].req.asset_id)
      BY <2>9 DEF MintSumMinted, Req, TypeOK, MintTypeOK, MintFrameType
    <3>2. \A a : MintedSupply(a)' = MintedSupply(a)
      BY <2>9, MintedSame DEF MintSumMinted, store_vars
    <3>3. mint_call[c].req.asset_id \in DOMAIN TokenSupply
      BY <1>1, <2>9 DEF MintSumMinted, ReadsOf, Req, MintLocked
    <3> QED
      BY <3>1, <3>2, <3>3 DEF ReadsOf, Req
  <2>10. CASE MintSumRedeemed(c)
    <3> DEFINE a == mint_call[c].req.asset_id
    <3>1. /\ mint_call'[c].pc = "insert" /\ mint_call'[c].req = mint_call[c].req
          /\ mint_call'[c].total_redeemed = SettledSupply(a)
          /\ mint_call'[c].total_minted = mint_call[c].total_minted
      BY <2>10 DEF MintSumRedeemed, TotalRedeemed, Req, TypeOK, MintTypeOK, MintFrameType
    <3>2. MintedSupply(a)' = MintedSupply(a)
      BY <2>10, MintedSame DEF MintSumRedeemed, store_vars
    <3>3. a \in DOMAIN TokenSupply /\ mint_call[c].total_minted = MintedSupply(a)
      BY <1>1, <2>10 DEF MintSumRedeemed, ReadsOf, Req, MintLocked
    <3>4. \A b : SettledSupply(b) <= SettledSupply(b)'
      BY SettledSupplyGrows
    <3> QED
      BY <3>1, <3>2, <3>3, <3>4 DEF ReadsOf, Req
  <2>11. CASE MintInsert(c) \/ MintSend(c)
    BY <2>3, <2>11 DEF MintInsert, MintSend, MintDone, MintRunning, MintLocked
  <2> QED
    BY <2>1, <2>4, <2>5, <2>6, <2>7, <2>8, <2>9, <2>10, <2>11 DEF MintStep
<1>5. (\E d \in MintCallers : MintStepOf(d)) \/ UNCHANGED <<token_mints, mint_call>>
  BY DEF Next, vars, RedeemStepOf, RedeemStep, RedeemReplay, RedeemStart,
     RedeemCheckSender, RedeemCheckReceiver, RedeemScanBalance, RedeemLockRow,
     RedeemSumBalance, RedeemInsert, RedeemReject, RedeemSend, RedeemFail, SettleStepOf,
     SettleStep, SettleBegin, SettleReadStatus, SettleCommit, SettleFail,
     Confirm, ConfirmMint, ChainMint, ChainBurn, TrackBurn, Compliance, GrantWallet,
     RevokeWallet, store_vars, mint_vars
<1> QED
  BY <1>2, <1>3, <1>4, <1>5

-----------------------------------------------------------------------------
(* The invariant.                                                          *)

\* No step oversells: the insert is covered by the sums of the call.
LEMMA AllocatedStep ==
  ASSUME TypeOK, TypeOK', [Next]_vars, OnlyPositiveAmountsMove', SupplyInv
  PROVE  AllocatedWithinSupply'
<1> SUFFICES ASSUME NEW a \in DOMAIN TokenSupply, MintsOf(a)' # {}
             PROVE  Allocated(a)' <= TokenSupply[a]
  BY DEF AllocatedWithinSupply
<1>1. /\ MintedSupply(a) \in Int /\ SettledSupply(a) \in Int /\ SettledSupply(a)' \in Int
      /\ SettledSupply(a) <= SettledSupply(a)'
  BY BalancesInt, SettledSupplyGrows DEF TypeOK
<1>2. TokenSupply[a] \in Int
  BY StoreAssumption
<1>3. MintsOf(a) # {} => MintedSupply(a) - SettledSupply(a) <= TokenSupply[a]
  BY DEF SupplyInv, AllocatedWithinSupply, Allocated
<1>4. CASE MintsOf(a)' = MintsOf(a) /\ MintedSupply(a)' = MintedSupply(a)
  BY <1>1, <1>2, <1>3, <1>4 DEF Allocated
<1>5. ASSUME NEW c \in MintCallers, MintInsert(c)
      PROVE  Allocated(a)' <= TokenSupply[a]
  <2>1. Req(c) \in MintRequests /\ mint_call[c].pc = "insert"
    BY <1>5 DEF MintInsert, TypeOK, MintTypeOK, MintRunning, MintLocked, Req
  <2>2. MintedSupply(a)' =
          IF a = Req(c).asset_id THEN MintedSupply(a) + Req(c).token_amount
                                 ELSE MintedSupply(a)
    BY <1>5, <2>1, MintedInsert
  <2>3. CASE a = Req(c).asset_id
    <3>1. /\ mint_call[c].total_minted = MintedSupply(a)
          /\ mint_call[c].total_redeemed <= SettledSupply(a)
      BY <2>1, <2>3 DEF SupplyInv, SupplyReadsAreCurrent
    <3>2. mint_call[c].total_redeemed \in Int /\ Req(c).token_amount \in Int
      BY <2>1, StoreAssumption
         DEF TypeOK, MintTypeOK, MintFrameType, MintRequestType
    <3>3. TokenSupply[a] - (mint_call[c].total_minted - mint_call[c].total_redeemed)
            >= Req(c).token_amount
      BY <1>5, <2>3 DEF MintInsert, Available
    <3>4. MintedSupply(a)' = MintedSupply(a) + Req(c).token_amount
      BY <2>2, <2>3
    <3> QED
      BY <1>1, <1>2, <3>1, <3>2, <3>3, <3>4 DEF Allocated
  <2>4. CASE a # Req(c).asset_id
    <3>1. MintsOf(a)' = MintsOf(a)
      BY <1>5, <2>4 DEF MintInsert, MintsOf
    <3> QED
      BY <1>4, <2>2, <2>4, <3>1
  <2> QED
    BY <2>3, <2>4
<1> QED
  BY <1>4, <1>5, MintedOnlyByInsert, MintedSame DEF MintsOf

\* Nothing is allocated and nothing locked at first.
LEMMA SupplyInit == Init => SupplyInv
<1> SUFFICES ASSUME Init PROVE SupplyInv
  OBVIOUS
<1>1. \A c \in MintCallers : mint_call[c].pc = "idle"
  BY DEF Init, MintInit, IdleMint, MintFrame
<1>2. LocksAreHeldByTheirCalls
  BY <1>1, MintAssumption DEF Init, MintInit, LocksAreHeldByTheirCalls, MintLocked
<1>3. SupplyReadsAreCurrent
  BY <1>1 DEF SupplyReadsAreCurrent, MintLocked
<1>4. AllocatedWithinSupply
  BY DEF Init, StoreInit, AllocatedWithinSupply, MintsOf
<1> QED
  BY <1>2, <1>3, <1>4 DEF SupplyInv

\* The invariant is inductive, given the types before and after the step and that
\* only positive redemptions are settled.
LEMMA SupplyStep ==
  TypeOK /\ TypeOK' /\ OnlyPositiveAmountsMove' /\ SupplyInv /\ [Next]_vars
    => SupplyInv'
<1> SUFFICES ASSUME TypeOK, TypeOK', OnlyPositiveAmountsMove', SupplyInv, [Next]_vars
             PROVE  SupplyInv'
  OBVIOUS
<1>1. LocksAreHeldByTheirCalls'
  <2>1. CASE \E c \in MintCallers : MintStepOf(c)
    BY <2>1, LocksStep DEF MintStepOf, SupplyInv
  <2>2. CASE UNCHANGED mint_vars
    BY <2>2 DEF SupplyInv, LocksAreHeldByTheirCalls, mint_vars, Req
  <2> QED
    BY <2>1, <2>2 DEF Next, vars, RedeemStepOf, SettleStepOf, Confirm, ConfirmMint,
       ChainMint, ChainBurn, TrackBurn, Compliance
<1>2. SupplyReadsAreCurrent'
  BY ReadsStep DEF SupplyInv
<1>3. AllocatedWithinSupply'
  BY AllocatedStep
<1> QED
  BY <1>1, <1>2, <1>3 DEF SupplyInv

\* The supply check of mint_tokens in every reachable state: the lock, the sums
\* taken under it, and the bound they are taken for.
THEOREM SupplyInvariant == Spec => []SupplyInv
<1>1. Init /\ [][Next]_vars /\ []TypeOK /\ []OnlyPositiveAmountsMove => []SupplyInv
  BY SupplyInit, SupplyStep, PTL
<1> QED
  BY <1>1, TypeCorrect, PositiveAmountsMove, PTL DEF Spec

\* The legal supply of an asset is never oversold: pending and confirmed mints,
\* less settled redemptions, stay within legal_wrappers.token_supply.
THEOREM SupplyNeverOversold == Spec => []AllocatedWithinSupply
<1>1. SupplyInv => AllocatedWithinSupply
  BY DEF SupplyInv
<1> QED
  BY <1>1, SupplyInvariant, PTL

\* The lock on the legal_wrappers row is held exactly by the call that is
\* between its first sum and its commit.
THEOREM SupplyLockHeld == Spec => []LocksAreHeldByTheirCalls
<1>1. SupplyInv => LocksAreHeldByTheirCalls
  BY DEF SupplyInv
<1> QED
  BY <1>1, SupplyInvariant, PTL

\* While a call checks the supply, no mint is added behind its back and what it
\* counted as released has been released.
THEOREM SupplyReadsCurrent == Spec => []SupplyReadsAreCurrent
<1>1. SupplyInv => SupplyReadsAreCurrent
  BY DEF SupplyInv
<1> QED
  BY <1>1, SupplyInvariant, PTL

-----------------------------------------------------------------------------
(* Retries.                                                                *)

\* A call that has inserted its row, or found one, has the row of its key.
MintAnswersHaveRows ==
  \A c \in MintCallers : mint_call[c].pc \in {"send", "ok"} =>
    \E m \in token_mints :
      /\ m.id = mint_call[c].id
      /\ m.req.idempotency_key = Req(c).idempotency_key

MintKeyInv ==
  /\ \A m, n \in token_mints :
       m.req.idempotency_key = n.req.idempotency_key => m = n
  /\ MintAnswersHaveRows

\* Only mint_tokens changes its frames.
LEMMA MintCallOnlyBySteps ==
  ASSUME [Next]_vars
  PROVE  (\E c \in MintCallers : MintStepOf(c)) \/ UNCHANGED mint_call
BY DEF Next, vars, RedeemStepOf, SettleStepOf, Confirm, ConfirmMint, ChainMint,
   ChainBurn, TrackBurn, Compliance, mint_vars

\* A row is inserted under a key that no row has.
LEMMA MintKeyNew ==
  ASSUME [Next]_vars
  PROVE  \/ UNCHANGED token_mints
         \/ \E x : /\ token_mints' = token_mints \cup {x}
                   /\ \A y \in token_mints : y.req.idempotency_key # x.req.idempotency_key
<1>1. ASSUME NEW c \in MintCallers, MintInsert(c)
      PROVE  \E x : /\ token_mints' = token_mints \cup {x}
                    /\ \A y \in token_mints : y.req.idempotency_key # x.req.idempotency_key
  <2>1. PICK id : token_mints' = token_mints \cup {[id |-> id, req |-> Req(c)]}
    BY <1>1 DEF MintInsert
  <2> DEFINE x == [id |-> id, req |-> Req(c)]
  <2>2. \A y \in token_mints : y.req.idempotency_key # x.req.idempotency_key
    BY <1>1 DEF MintInsert, KeyTaken, MintsWithKey
  <2>3. token_mints' = token_mints \cup {x}
    BY <2>1
  <2> HIDE DEF x
  <2> QED
    BY <2>2, <2>3
<1> QED
  BY <1>1, MintedOnlyByInsert

\* No step gives a key a second row, or a call the row of another key.
LEMMA MintKeyStep == TypeOK /\ MintKeyInv /\ [Next]_vars => MintKeyInv'
<1> SUFFICES ASSUME TypeOK, MintKeyInv, [Next]_vars PROVE MintKeyInv'
  OBVIOUS
<1>1. token_mints \subseteq token_mints'
  BY MintKeyNew
<1>2. (\A m, n \in token_mints :
        m.req.idempotency_key = n.req.idempotency_key => m = n)'
  BY MintKeyNew DEF MintKeyInv
<1>3. ASSUME NEW c \in MintCallers, mint_call'[c].pc \in {"send", "ok"}
      PROVE  \E m \in token_mints' :
               /\ m.id = mint_call'[c].id
               /\ m.req.idempotency_key = mint_call'[c].req.idempotency_key
  <2>1. CASE mint_call'[c] = mint_call[c]
    BY <1>1, <1>3, <2>1 DEF MintKeyInv, MintAnswersHaveRows, Req
  <2>2. ASSUME NEW pc, NEW req, NEW id, Return(c, pc, req, id)
        PROVE  /\ mint_call'[c].pc = pc /\ mint_call'[c].req = req
               /\ mint_call'[c].id = id
    BY <2>2 DEF Return, MintFrame, TypeOK, MintTypeOK
  <2>3. ASSUME NEW req, MintReplay(c, req)
        PROVE  \E m \in token_mints' :
                 /\ m.id = mint_call'[c].id
                 /\ m.req.idempotency_key = mint_call'[c].req.idempotency_key
    <3>1. PICK m \in MintsWithKey(req.idempotency_key) : Return(c, "ok", req, m.id)
      BY <2>3 DEF MintReplay
    <3> QED
      BY <1>1, <2>2, <3>1 DEF MintsWithKey
  <2>4. CASE MintInsert(c)
    <3>1. PICK id : /\ token_mints' = token_mints \cup {[id |-> id, req |-> Req(c)]}
                    /\ Return(c, "send", Req(c), id)
      BY <2>4 DEF MintInsert
    <3>2. [id |-> id, req |-> Req(c)] \in token_mints'
      BY <3>1
    <3>3. mint_call'[c].id = id /\ mint_call'[c].req = Req(c)
      BY <2>2, <3>1
    <3> QED
      BY <3>2, <3>3
  <2>5. CASE MintSend(c)
    <3>1. Return(c, "ok", Req(c), mint_call[c].id) \/ Return(c, "idle", NoReq, NoId)
      BY <2>5 DEF MintSend
    <3>2. mint_call'[c].id = mint_call[c].id /\ mint_call'[c].req = Req(c)
      BY <1>3, <2>2, <3>1
    <3> QED
      BY <1>1, <2>5, <3>2 DEF MintSend, MintKeyInv, MintAnswersHaveRows
  <2>6. ASSUME NEW pc, pc \notin {"send", "ok"}, NEW req, NEW id,
               Return(c, pc, req, id)
        PROVE  FALSE
    BY <1>3, <2>2, <2>6
  <2>7. CASE \/ MintCheckReceiver(c) \/ MintSupplyNotFound(c) \/ MintReject(c)
             \/ MintFail(c)
    BY <2>6, <2>7 DEF MintCheckReceiver, MintSupplyNotFound, MintReject, MintFail
  <2>8. CASE \/ MintCheckSender(c) \/ MintLockSupply(c) \/ MintSumMinted(c)
             \/ MintSumRedeemed(c)
    <3>1. mint_call[c] \in MintFrameType
      BY DEF TypeOK, MintTypeOK
    <3>2. ASSUME NEW frame, mint_call' = [mint_call EXCEPT ![c] = frame],
                 frame.pc \notin {"send", "ok"}
          PROVE  FALSE
      BY <1>3, <3>2 DEF TypeOK, MintTypeOK
    <3>3. CASE MintCheckSender(c)
      <4> DEFINE frame == [mint_call[c] EXCEPT !.pc = "check_receiver",
                             !.sender_ok = IsWhitelisted(ISSUER_WALLET)]
      <4>1. frame.pc = "check_receiver"
        BY <3>1 DEF MintFrameType
      <4>2. mint_call' = [mint_call EXCEPT ![c] = frame]
        BY <3>3 DEF MintCheckSender
      <4> HIDE DEF frame
      <4> QED
        BY <3>2, <4>1, <4>2
    <3>4. CASE MintLockSupply(c)
      BY <1>3, <3>1, <3>4 DEF MintLockSupply, GoTo, TypeOK, MintTypeOK, MintFrameType
    <3>5. CASE MintSumMinted(c)
      <4> DEFINE frame == [mint_call[c] EXCEPT !.pc = "sum_redeemed",
                             !.total_minted = MintedSupply(Req(c).asset_id)]
      <4>1. frame.pc = "sum_redeemed"
        BY <3>1 DEF MintFrameType
      <4>2. mint_call' = [mint_call EXCEPT ![c] = frame]
        BY <3>5 DEF MintSumMinted
      <4> HIDE DEF frame
      <4> QED
        BY <3>2, <4>1, <4>2
    <3>6. CASE MintSumRedeemed(c)
      <4> DEFINE frame == [mint_call[c] EXCEPT !.pc = "insert",
                             !.total_redeemed = SettledSupply(Req(c).asset_id)]
      <4>1. frame.pc = "insert"
        BY <3>1 DEF MintFrameType
      <4>2. mint_call' = [mint_call EXCEPT ![c] = frame]
        BY <3>6 DEF MintSumRedeemed, TotalRedeemed
      <4> HIDE DEF frame
      <4> QED
        BY <3>2, <4>1, <4>2
    <3> QED
      BY <2>8, <3>3, <3>4, <3>5, <3>6
  <2>9. ASSUME NEW d \in MintCallers, MintStepOf(d), d # c
        PROVE  mint_call'[c] = mint_call[c]
    BY <2>9 DEF MintStepOf, MintStep, MintReplay, MintStart, MintCheckSender,
       MintCheckReceiver, MintLockSupply, MintSupplyNotFound, MintSumMinted,
       MintSumRedeemed, MintInsert, MintReject, MintSend, MintFail, Return, GoTo, TypeOK, MintTypeOK
  <2>10. ASSUME NEW req, MintStart(c, req) PROVE FALSE
    BY <2>6, <2>10 DEF MintStart
  <2> QED
    BY <2>1, <2>3, <2>4, <2>5, <2>7, <2>8, <2>9, <2>10, MintCallOnlyBySteps
       DEF MintStepOf, MintStep
<1>4. MintAnswersHaveRows'
  BY <1>3 DEF MintAnswersHaveRows, Req
<1> QED
  BY <1>2, <1>4 DEF MintKeyInv

\* A retried mint_tokens returns the row of its key, and there is one, however many
\* calls with the key run at the same time.
THEOREM OneMintPerKey == Spec => []OneResultPerKey
<1>1. Init => MintKeyInv
  BY DEF Init, StoreInit, MintInit, IdleMint, MintFrame, MintKeyInv, MintAnswersHaveRows
<1>2. Init /\ [][Next]_vars /\ []TypeOK => []MintKeyInv
  BY <1>1, MintKeyStep, PTL
<1>3. MintKeyInv => OneResultPerKey
  BY DEF MintKeyInv, MintAnswersHaveRows, OneResultPerKey
<1> QED
  BY <1>2, <1>3, TypeCorrect, PTL DEF Spec

-----------------------------------------------------------------------------
(* Revocations.                                                            *)

\* A call that is told of a wallet off the whitelist gets no further: who is
\* cleared after a step was cleared before it, and an insert uses it up.
LEMMA ClearedMoves ==
  ASSUME TypeOK, NEW c \in MintCallers, MintStepOf(c), NEW w \in Wallets \ whitelist
  PROVE  /\ Cleared(w)' \subseteq Cleared(w)
         /\ MintInsert(c) => c \notin Cleared(w)'
<1>1. mint_call[c] \in MintFrameType /\ mint_call \in [MintCallers -> MintFrameType]
  BY DEF TypeOK, MintTypeOK
<1>2. \A d \in MintCallers : d # c => mint_call'[d] = mint_call[d]
  BY <1>1 DEF MintStepOf, MintStep, MintReplay, MintStart, MintCheckSender,
     MintCheckReceiver, MintLockSupply, MintSupplyNotFound, MintSumMinted,
     MintSumRedeemed, MintInsert, MintReject, MintSend, MintFail, Return, GoTo
<1> DEFINE Is(pc, ok, req) ==
      \/ /\ pc \in {"lock_supply", "sum_minted", "sum_redeemed", "insert"}
         /\ w \in {ISSUER_WALLET, req.wallet_address}
      \/ pc = "check_receiver" /\ ok /\ w = ISSUER_WALLET
<1>3. /\ \A d : d \in Cleared(w) <=>
           d \in MintCallers /\ Is(mint_call[d].pc, mint_call[d].sender_ok, mint_call[d].req)
      /\ \A d : d \in Cleared(w)' <=>
           d \in MintCallers /\ Is(mint_call'[d].pc, mint_call'[d].sender_ok, mint_call'[d].req)
  BY DEF Cleared, MintLocked, Req
<1>4. ASSUME NEW pc, NEW req, NEW id, Return(c, pc, req, id)
      PROVE  mint_call'[c].pc = pc /\ mint_call'[c].req = req
  BY <1>1, <1>4 DEF Return, MintFrame
<1>5. ASSUME NEW pc, NEW req, NEW id, Return(c, pc, req, id),
             pc \notin {"lock_supply", "sum_minted", "sum_redeemed", "insert",
                        "check_receiver"}
      PROVE  c \notin Cleared(w)'
  BY <1>3, <1>4, <1>5
<1>6. CASE \/ MintSupplyNotFound(c) \/ MintInsert(c) \/ MintReject(c)
           \/ MintSend(c) \/ MintFail(c)
           \/ \E req \in MintRequests : MintReplay(c, req) \/ MintStart(c, req)
  <2>1. c \notin Cleared(w)'
    BY <1>5, <1>6 DEF MintSupplyNotFound, MintInsert, MintReject, MintSend, MintFail,
       MintReplay, MintStart
  <2> QED
    BY <1>2, <1>3, <2>1
<1>7. CASE MintCheckSender(c)
  <2>1. mint_call'[c].pc = "check_receiver"
        /\ mint_call'[c].sender_ok = IsWhitelisted(ISSUER_WALLET)
    BY <1>1, <1>7 DEF MintCheckSender, MintFrameType
  <2>2. c \notin Cleared(w)'
    BY <1>3, <2>1 DEF IsWhitelisted
  <2> QED
    BY <1>2, <1>3, <1>7, <2>2 DEF MintCheckSender
<1>8. CASE MintCheckReceiver(c)
  <2>1. CASE MayTransfer(c) /\ Return(c, "lock_supply", Req(c), NoId)
    <3>1. w # Req(c).wallet_address /\ mint_call[c].sender_ok
      BY <2>1 DEF MayTransfer, IsWhitelisted
    <3>2. mint_call'[c].pc = "lock_supply" /\ mint_call'[c].req = Req(c)
      BY <1>4, <2>1
    <3>3. c \in Cleared(w)' => c \in Cleared(w)
      BY <1>3, <1>8, <3>1, <3>2 DEF MintCheckReceiver, Req
    <3> QED
      BY <1>2, <1>3, <1>8, <3>3 DEF MintCheckReceiver, MintInsert
  <2>2. CASE Return(c, "idle", NoReq, NoId)
    <3>1. c \notin Cleared(w)'
      BY <1>5, <2>2
    <3> QED
      BY <1>2, <1>3, <3>1
  <2> QED
    BY <1>8, <2>1, <2>2 DEF MintCheckReceiver
<1>9. CASE MintLockSupply(c) \/ MintSumMinted(c) \/ MintSumRedeemed(c)
  <2>1. mint_call[c].pc \in {"lock_supply", "sum_minted", "sum_redeemed"}
    BY <1>9 DEF MintLockSupply, MintSumMinted, MintSumRedeemed
  <2>2. /\ mint_call'[c].req = mint_call[c].req
        /\ mint_call'[c].pc \in {"sum_minted", "sum_redeemed", "insert"}
    <3>1. CASE MintLockSupply(c)
      BY <1>1, <3>1 DEF MintLockSupply, GoTo, MintFrameType
    <3>2. CASE MintSumMinted(c)
      BY <1>1, <3>2 DEF MintSumMinted, MintFrameType
    <3>3. CASE MintSumRedeemed(c)
      BY <1>1, <3>3 DEF MintSumRedeemed, MintFrameType
    <3> QED
      BY <1>9, <3>1, <3>2, <3>3
  <2>3. c \in Cleared(w)' => c \in Cleared(w)
    BY <1>3, <2>1, <2>2
  <2>4. ~MintInsert(c)
    BY <2>1 DEF MintInsert
  <2> QED
    BY <1>2, <1>3, <2>3, <2>4
<1> QED
  BY <1>6, <1>7, <1>8, <1>9 DEF MintStepOf, MintStep

\* The call that inserts a mint of a wallet was cleared for it.
LEMMA InsertWasCleared ==
  ASSUME TypeOK, NEW c \in MintCallers, MintStepOf(c), MintInsert(c),
         NEW w \in Wallets \ whitelist
  PROVE  \/ MintsWith(w)' = MintsWith(w)
         \/ /\ c \in Cleared(w) /\ c \notin Cleared(w)'
            /\ \E x : MintsWith(w)' = MintsWith(w) \cup {x}
<1>1. PICK id : token_mints' = token_mints \cup {[id |-> id, req |-> Req(c)]}
  BY DEF MintInsert
<1>2. PICK x : x = [id |-> id, req |-> Req(c)]
  OBVIOUS
<1>3. token_mints' = token_mints \cup {x} /\ x.req = Req(c)
  BY <1>1, <1>2
<1>4. CASE w \in {ISSUER_WALLET, Req(c).wallet_address}
  <2>1. c \in Cleared(w)
    BY <1>4 DEF Cleared, MintInsert, MintLocked
  <2>2. MintsWith(w)' = MintsWith(w) \cup {x}
    BY <1>3, <1>4 DEF MintsWith
  <2> QED
    BY <2>1, <2>2, ClearedMoves
<1>5. CASE w \notin {ISSUER_WALLET, Req(c).wallet_address}
  BY <1>3, <1>5 DEF MintsWith
<1> QED
  BY <1>4, <1>5

\* What one step adds to the mints of a wallet it takes from those cleared for it.
LEMMA RevokedStep ==
  ASSUME TypeOK, [Next]_vars, NEW w \in Wallets \ whitelist
  PROVE  Cardinality(MintsWith(w)') + Cardinality(Cleared(w)')
           <= Cardinality(MintsWith(w)) + Cardinality(Cleared(w))
<1> DEFINE K == Cleared(w)
           M == MintsWith(w)
<1>1. /\ IsFiniteSet(K) /\ Cardinality(K) \in Nat
      /\ IsFiniteSet(M) /\ Cardinality(M) \in Nat
  <2>1. K \subseteq MintCallers /\ M \subseteq token_mints
    BY DEF Cleared, MintsWith
  <2>2. IsFiniteSet(MintCallers) /\ IsFiniteSet(token_mints)
    BY MintAssumption DEF TypeOK, StoreTypeOK
  <2> QED
    BY <2>1, <2>2, FS_Subset, FS_CardinalityType
<1> HIDE DEF K, M
<1>2. ASSUME NEW D, D \subseteq K
      PROVE  Cardinality(D) \in Nat /\ Cardinality(D) <= Cardinality(K)
  BY <1>1, <1>2, FS_Subset, FS_CardinalityType
<1>3. CASE MintsWith(w)' = M /\ Cleared(w)' \subseteq K
  BY <1>1, <1>2, <1>3 DEF K, M
<1>4. ASSUME NEW c \in K, c \notin Cleared(w)', Cleared(w)' \subseteq K, NEW x,
             MintsWith(w)' = M \cup {x}
      PROVE  Cardinality(MintsWith(w)') + Cardinality(Cleared(w)')
               <= Cardinality(M) + Cardinality(K)
  <2>1. /\ Cardinality(M \cup {x}) \in {Cardinality(M), Cardinality(M) + 1}
    BY <1>1, FS_AddElement
  <2>2. Cardinality(K \ {c}) = Cardinality(K) - 1 /\ IsFiniteSet(K \ {c})
    BY <1>1, <1>4, FS_RemoveElement
  <2>3. Cleared(w)' \subseteq K \ {c}
    BY <1>4
  <2>4. Cardinality(Cleared(w)') <= Cardinality(K \ {c})
    BY <2>2, <2>3, FS_Subset
  <2>5. Cardinality(Cleared(w)') \in Nat
    BY <1>2, <1>4
  <2> QED
    BY <1>1, <1>4, <2>1, <2>2, <2>4, <2>5
<1>5. CASE UNCHANGED mint_call
  <2>1. UNCHANGED token_mints
    <3>1. ASSUME NEW c \in MintCallers, MintInsert(c) PROVE mint_call' # mint_call
      BY <3>1 DEF MintInsert, Return, MintFrame, TypeOK, MintTypeOK
    <3> QED
      BY <1>5, <3>1, MintedOnlyByInsert
  <2> QED
    BY <1>3, <1>5, <2>1 DEF Cleared, MintsWith, Req, K, M
<1>6. ASSUME NEW c \in MintCallers, MintStepOf(c), ~MintInsert(c)
      PROVE  MintsWith(w)' = M /\ Cleared(w)' \subseteq K
  <2>1. UNCHANGED token_mints
    BY <1>6 DEF MintStepOf, MintStep, MintReplay, MintStart, MintCheckSender,
       MintCheckReceiver, MintLockSupply, MintSupplyNotFound, MintSumMinted,
       MintSumRedeemed, MintReject, MintSend, MintFail, store_vars
  <2> QED
    BY <1>6, <2>1, ClearedMoves DEF MintsWith, K, M
<1>7. ASSUME NEW c \in MintCallers, MintStepOf(c), MintInsert(c)
      PROVE  Cardinality(MintsWith(w)') + Cardinality(Cleared(w)')
               <= Cardinality(M) + Cardinality(K)
  <2>1. Cleared(w)' \subseteq K
    BY <1>7, ClearedMoves DEF K
  <2>2. \/ MintsWith(w)' = M
        \/ c \in K /\ c \notin Cleared(w)' /\ \E x : MintsWith(w)' = M \cup {x}
    BY <1>7, InsertWasCleared DEF K, M
  <2> QED
    BY <1>3, <1>4, <2>1, <2>2 DEF K, M
<1> QED
  BY <1>3, <1>5, <1>6, <1>7, MintCallOnlyBySteps DEF K, M

\* A revocation ends the mints of a wallet, the issuer's included, but for the
\* calls that had read the whitelist before it, each of which adds one at most.
THEOREM RevocationIsObeyed == Spec => RevocationEndsMints
<1>1. TypeOK /\ [Next]_vars =>
        [\A w \in Wallets \ whitelist :
           Cardinality(MintsWith(w)') + Cardinality(Cleared(w)')
             <= Cardinality(MintsWith(w)) + Cardinality(Cleared(w))]_vars
  BY RevokedStep
<1> QED
  BY <1>1, TypeCorrect, PTL DEF Spec, RevocationEndsMints

=============================================================================
