-------------------------- MODULE RedemptionProofs ---------------------------
(***************************************************************************)
(* What the row locks of request_redemption are worth, for any number of   *)
(* callers, rows and requests. That a redemption is backed when it is      *)
(* inserted rests on the sum that was read before (SumsAreBacked), and     *)
(* this on confirmed mints never going away. Who holds a row rests on what *)
(* is waited for (WaitsForConfirmed): the snapshot of the locking          *)
(* statement stays right while it waits. Then the keys, and who can wait   *)
(* for whom (WaitsStayWithinABalance).                                     *)
(***************************************************************************)
EXTENDS LifecycleTypes

ConfirmedIds(c) ==
  {m.id : m \in ConfirmedMints(RReq(c).investor_id, RReq(c).asset_id)}

\* A call waits for confirmed mints of its investor only.
WaitsForConfirmed ==
  \A c \in RedeemCallers :
    redeem_call[c].pc = "lock_rows" => redeem_call[c].wanted \subseteq ConfirmedIds(c)

\* What a call has summed is still there, or more is.
SumsAreBacked ==
  \A c \in RedeemCallers : redeem_call[c].pc = "insert" =>
    redeem_call[c].held <= Held(RReq(c).investor_id, RReq(c).asset_id)

BalanceInv ==
  /\ WaitsForConfirmed
  /\ MintRowsHeldByTheirCalls
  /\ SumsAreBacked
  /\ RedemptionBacked

-----------------------------------------------------------------------------
(* Confirmed mints and redemptions stay.                                   *)

\* Rows of token_mints are never removed and a confirmation is never undone.
LEMMA ConfirmedStays ==
  ASSUME TypeOK, [Next]_vars
  PROVE  /\ token_mints \subseteq token_mints'
         /\ \A id \in MintIds : IsConfirmed(id) => IsConfirmed(id)'
<1> DEFINE Keeps == /\ token_mints \subseteq token_mints'
                    /\ \A id \in MintIds : IsConfirmed(id) => IsConfirmed(id)'
<1>1. ASSUME NEW m \in token_mints, Confirm(m) PROVE Keeps
  <2>1. m.id \in MintIds
    BY DEF TypeOK, StoreTypeOK, MintRows
  <2>2. /\ token_mint_events' = [token_mint_events EXCEPT ![m.id] = token_mint_events[m.id] + 1]
        /\ UNCHANGED token_mints
    BY <1>1 DEF Confirm, ConfirmMint
  <2> QED
    BY <2>1, <2>2 DEF IsConfirmed, TypeOK, StoreTypeOK
<1>2. ASSUME UNCHANGED token_mint_events, token_mints \subseteq token_mints' PROVE Keeps
  BY <1>2 DEF IsConfirmed
<1>3. ASSUME NEW c \in MintCallers, MintStepOf(c) PROVE Keeps
  BY <1>2, <1>3 DEF MintStepOf, MintStep, MintReplay, MintStart, MintCheckSender,
       MintCheckReceiver, MintLockSupply, MintSupplyNotFound, MintSumMinted,
       MintSumRedeemed, MintInsert, MintReject, MintSend, MintFail, store_vars
<1>4. ASSUME NEW c \in RedeemCallers, RedeemStepOf(c) PROVE Keeps
  BY <1>2, <1>4 DEF RedeemStepOf, RedeemStep, RedeemReplay, RedeemStart,
       RedeemCheckSender, RedeemCheckReceiver, RedeemScanBalance, RedeemLockRow,
       RedeemSumBalance, RedeemInsert, RedeemReject, RedeemSend, RedeemFail, store_vars
<1>5. ASSUME \/ \E s \in SettleCallers : SettleStepOf(s)
             \/ \E m \in token_mints : ChainMint(m)
             \/ \E r \in token_redemptions :
                  ChainBurn(r) \/ \E status \in RedemptionStatuses : TrackBurn(r, status)
             \/ \E w \in Wallets : Compliance(w)
             \/ UNCHANGED vars
      PROVE  Keeps
  BY <1>2, <1>5 DEF SettleStepOf, SettleStep, SettleBegin, SettleReadStatus,
       SettleCommit, SettleFail, ChainMint, ChainBurn, TrackBurn, Compliance,
       GrantWallet, RevokeWallet, vars, store_vars
<1> QED
  BY <1>1, <1>3, <1>4, <1>5 DEF Next

\* So a balance never shrinks.
LEMMA HeldGrows ==
  ASSUME TypeOK, TypeOK', [Next]_vars, OnlyPositiveAmountsMove', NEW i, NEW a
  PROVE  /\ ConfirmedMints(i, a) \subseteq ConfirmedMints(i, a)'
         /\ Held(i, a) <= Held(i, a)'
         /\ Held(i, a) \in Int /\ Held(i, a)' \in Int
<1> DEFINE S == ConfirmedMints(i, a)
<1>1. S \subseteq S'
  BY ConfirmedStays DEF ConfirmedMints, MintsOf, TypeOK, StoreTypeOK, MintRows
<1>2. S' \subseteq MintRows /\ IsFiniteSet(S')
  BY FS_Subset DEF ConfirmedMints, MintsOf, TypeOK, StoreTypeOK
<1>3. \A m \in S' : MintAmount[m] \in Int /\ MintAmount[m] >= 0
  <2>1. \A m \in S' : m.req.token_amount > 0
    BY DEF ConfirmedMints, MintsOf, OnlyPositiveAmountsMove
  <2> QED
    BY <1>2, <2>1, AmountsInt
<1>4. Held(i, a) = SumOver(MintAmount, S) /\ Held(i, a)' = SumOver(MintAmount, S')
  BY DEF Held, MintAmount, MintRows
<1>5. S \subseteq S' => SumOver(MintAmount, S) <= SumOver(MintAmount, S')
  <2> HIDE DEF S
  <2> QED
    BY <1>1, <1>2, <1>3, SumMonotone
<1>6. SumOver(MintAmount, S) \in Int /\ SumOver(MintAmount, S') \in Int
  <2> HIDE DEF S
  <2>1. IsFiniteSet(S) /\ \A m \in S : MintAmount[m] \in Int
    BY <1>1, <1>2, <1>3, FS_Subset
  <2> QED
    BY <1>2, <1>3, <2>1, SumInt
<1> QED
  BY <1>1, <1>4, <1>5, <1>6

-----------------------------------------------------------------------------
(* What one step does to the calls, the locks and the redemptions.         *)

\* A statement of one call leaves the frames and the rows of the others alone.
LEMMA OthersKept ==
  ASSUME TypeOK, NEW c \in RedeemCallers, RedeemStepOf(c),
         NEW d \in RedeemCallers, d # c
  PROVE  /\ redeem_call'[d] = redeem_call[d]
         /\ \A m \in MintIds : mint_row_lock'[m] = d => mint_row_lock[m] = d
<1>1. RedeemStep(c)
  BY DEF RedeemStepOf
<1>2. ASSUME mint_row_lock' = MintRowsUnlocked(c)
      PROVE  \A m \in MintIds : mint_row_lock'[m] = d => mint_row_lock[m] = d
  BY <1>2, RedemptionAssumption DEF MintRowsUnlocked
<1>3. CASE RedeemLockRow(c)
  BY <1>3 DEF RedeemLockRow, TypeOK, RedemptionTypeOK
<1>4. CASE RedeemInsert(c) \/ RedeemReject(c) \/ RedeemFail(c)
  BY <1>2, <1>4 DEF RedeemInsert, RedeemReject, RedeemFail, RedeemReturn, TypeOK,
       RedemptionTypeOK
<1> QED
  BY <1>1, <1>3, <1>4 DEF RedeemStep, RedeemReplay, RedeemStart, RedeemCheckSender,
     RedeemCheckReceiver, RedeemScanBalance, RedeemSumBalance, RedeemSend, RedeemReturn,
     TypeOK, RedemptionTypeOK

\* What the invariant says of one call.
RowsOf(c) ==
  \A m \in MintIds : mint_row_lock[m] = c =>
    /\ redeem_call[c].pc \in RedeemLocked
    /\ m \notin redeem_call[c].wanted
    /\ m \in ConfirmedIds(c)
CallInv(c) ==
  /\ redeem_call[c].pc = "lock_rows" => redeem_call[c].wanted \subseteq ConfirmedIds(c)
  /\ RowsOf(c)
  /\ redeem_call[c].pc = "insert" =>
       redeem_call[c].held <= Held(RReq(c).investor_id, RReq(c).asset_id)

\* The invariant is that of every call.
LEMMA CallByCall ==
  ASSUME TypeOK
  PROVE  WaitsForConfirmed /\ MintRowsHeldByTheirCalls /\ SumsAreBacked
           <=> \A c \in RedeemCallers : CallInv(c)
<1>1. MintRowsHeldByTheirCalls <=> \A c \in RedeemCallers : RowsOf(c)
  <2>1. \A m \in MintIds : m \in LockedMints <=> mint_row_lock[m] \in RedeemCallers
    BY RedemptionAssumption DEF LockedMints, TypeOK, RedemptionTypeOK
  <2>2. LockedMints \subseteq MintIds
    BY DEF LockedMints
  <2> QED
    BY <2>1, <2>2 DEF MintRowsHeldByTheirCalls, RowsOf, ConfirmedIds
<1> QED
  BY <1>1 DEF WaitsForConfirmed, SumsAreBacked, CallInv

\* A call whose frame and rows a step leaves alone keeps its part.
LEMMA QuietCall ==
  ASSUME TypeOK, TypeOK', [Next]_vars, OnlyPositiveAmountsMove',
         NEW d \in RedeemCallers, CallInv(d),
         redeem_call'[d] = redeem_call[d],
         \A m \in MintIds : mint_row_lock'[m] = d => mint_row_lock[m] = d
  PROVE  CallInv(d)'
<1>1. RReq(d)' = RReq(d)
  BY DEF RReq
<1>2. PICK i, a : i = RReq(d).investor_id /\ a = RReq(d).asset_id
  OBVIOUS
<1>3. /\ ConfirmedMints(i, a) \subseteq ConfirmedMints(i, a)'
      /\ Held(i, a) <= Held(i, a)' /\ Held(i, a) \in Int /\ Held(i, a)' \in Int
  BY HeldGrows
<1>4. ConfirmedIds(d) \subseteq ConfirmedIds(d)'
  BY <1>1, <1>2, <1>3 DEF ConfirmedIds
<1>5. redeem_call[d].held \in Int
  BY DEF TypeOK, RedemptionTypeOK, RedeemFrameType
<1>6. redeem_call[d].pc = "insert" => redeem_call'[d].held <= Held(i, a)'
  BY <1>2, <1>3, <1>5 DEF CallInv
<1>7. RowsOf(d)'
  BY <1>4 DEF CallInv, RowsOf
<1> QED
  BY <1>1, <1>2, <1>4, <1>6, <1>7 DEF CallInv

\* A call that is outside the transaction of the redemption holds no row.
LEMMA OutsideHoldsNothing ==
  ASSUME NEW c \in RedeemCallers, CallInv(c), redeem_call[c].pc \notin RedeemLocked
  PROVE  \A m \in MintIds : mint_row_lock[m] # c
BY DEF CallInv, RowsOf

\* The call that moves keeps its part, statement by statement.
LEMMA MovingCall ==
  ASSUME TypeOK, TypeOK', [Next]_vars, OnlyPositiveAmountsMove',
         NEW c \in RedeemCallers, RedeemStepOf(c),
         CallInv(c)
  PROVE  CallInv(c)'
<1>1. RedeemStep(c)
  BY DEF RedeemStepOf
<1>2. redeem_call[c] \in RedeemFrameType /\ redeem_call'[c] \in RedeemFrameType
  BY DEF TypeOK, RedemptionTypeOK
\* after any statement that leaves the transaction, or has not begun it
<1>3. ASSUME \A m \in MintIds : mint_row_lock'[m] # c,
             redeem_call'[c].pc \notin RedeemLocked
      PROVE  CallInv(c)'
  BY <1>3 DEF CallInv, RowsOf, RedeemLocked
<1>4. ASSUME mint_row_lock' = MintRowsUnlocked(c)
      PROVE  \A m \in MintIds : mint_row_lock'[m] # c
  BY <1>4, RedemptionAssumption DEF MintRowsUnlocked
<1>5. ASSUME NEW pc, NEW req, NEW id, RedeemReturn(c, pc, req, id)
      PROVE  redeem_call'[c].pc = pc
  BY <1>5 DEF RedeemReturn, RedeemFrame, TypeOK, RedemptionTypeOK
<1>6. ASSUME NEW req \in RedemptionRequests, RedeemReplay(c, req) \/ RedeemStart(c, req)
      PROVE  CallInv(c)'
  BY <1>3, <1>5, <1>6, OutsideHoldsNothing
     DEF RedeemReplay, RedeemStart, CallDone, RedeemLocked
<1>7. CASE RedeemCheckSender(c)
  BY <1>3, <1>7, OutsideHoldsNothing
     DEF RedeemCheckSender, RedeemLocked, TypeOK, RedemptionTypeOK
<1>8. CASE RedeemCheckReceiver(c) \/ RedeemSend(c)
  BY <1>3, <1>5, <1>8, OutsideHoldsNothing DEF RedeemCheckReceiver, RedeemSend, RedeemLocked
<1>9. CASE RedeemScanBalance(c)
  <2>1. \A m \in MintIds : mint_row_lock'[m] # c
    BY <1>9, OutsideHoldsNothing DEF RedeemScanBalance, RedeemLocked
  <2>2. /\ redeem_call'[c].pc = "lock_rows"
        /\ redeem_call'[c].wanted = ConfirmedIds(c)
        /\ RReq(c)' = RReq(c)
    BY <1>2, <1>9 DEF RedeemScanBalance, ConfirmedIds, RReq, RedeemFrameType, TypeOK,
         RedemptionTypeOK
  <2>3. UNCHANGED <<token_mints, token_mint_events>>
    BY <1>9 DEF RedeemScanBalance, store_vars
  <2>4. ConfirmedIds(c)' = ConfirmedIds(c)
    BY <2>2, <2>3 DEF ConfirmedIds, ConfirmedMints, MintsOf, IsConfirmed
  <2> QED
    BY <2>1, <2>2, <2>4 DEF CallInv, RowsOf
<1>10. CASE RedeemLockRow(c)
  <2>1. PICK m \in redeem_call[c].wanted \ LockedMints :
          /\ mint_row_lock' = [mint_row_lock EXCEPT ![m] = c]
          /\ redeem_call' = [redeem_call EXCEPT ![c].wanted = @ \ {m}]
    BY <1>10 DEF RedeemLockRow
  <2>2. /\ redeem_call'[c].pc = "lock_rows" /\ redeem_call[c].pc = "lock_rows"
        /\ redeem_call'[c].wanted = redeem_call[c].wanted \ {m}
        /\ RReq(c)' = RReq(c)
    BY <1>2, <1>10, <2>1 DEF RedeemLockRow, RReq, RedeemFrameType, TypeOK, RedemptionTypeOK
  <2>3. UNCHANGED <<token_mints, token_mint_events>>
    BY <1>10 DEF RedeemLockRow, store_vars
  <2>4. ConfirmedIds(c)' = ConfirmedIds(c)
    BY <2>2, <2>3 DEF ConfirmedIds, ConfirmedMints, MintsOf, IsConfirmed
  <2>5. \A n \in MintIds : mint_row_lock'[n] = c => n = m \/ mint_row_lock[n] = c
    BY <2>1 DEF TypeOK, RedemptionTypeOK
  <2>6. redeem_call[c].wanted \subseteq ConfirmedIds(c) /\ RowsOf(c)
    BY <2>2 DEF CallInv
  <2>7. RowsOf(c)'
    BY <2>1, <2>2, <2>4, <2>5, <2>6 DEF RowsOf, RedeemLocked
  <2> QED
    BY <2>2, <2>4, <2>6, <2>7 DEF CallInv
<1>11. CASE RedeemSumBalance(c)
  <2>1. PICK n \in Int : n = Held(RReq(c).investor_id, RReq(c).asset_id)
    BY BalancesInt DEF TypeOK
  <2>2. /\ redeem_call'[c].pc = "insert" /\ redeem_call[c].pc = "lock_rows"
        /\ redeem_call'[c].wanted = redeem_call[c].wanted
        /\ redeem_call'[c].held = n
        /\ RReq(c)' = RReq(c)
    BY <1>2, <1>11, <2>1 DEF RedeemSumBalance, RReq, RedeemFrameType, TypeOK,
         RedemptionTypeOK
  <2>3. UNCHANGED <<token_mints, token_mint_events, mint_row_lock>>
    BY <1>11 DEF RedeemSumBalance, store_vars
  <2>4. ConfirmedIds(c)' = ConfirmedIds(c)
    BY <2>2, <2>3 DEF ConfirmedIds, ConfirmedMints, MintsOf, IsConfirmed
  <2>5. Held(RReq(c).investor_id, RReq(c).asset_id)' = n
    BY <2>1, <2>2, <2>3 DEF Held, ConfirmedMints, MintsOf, IsConfirmed
  <2>6. RowsOf(c)'
    BY <2>2, <2>3, <2>4 DEF CallInv, RowsOf, RedeemLocked
  <2> QED
    BY <2>1, <2>2, <2>5, <2>6 DEF CallInv
<1>12. CASE RedeemInsert(c) \/ RedeemReject(c) \/ RedeemFail(c)
  BY <1>3, <1>4, <1>5, <1>12 DEF RedeemInsert, RedeemReject, RedeemFail, RedeemLocked
<1> QED
  BY <1>1, <1>6, <1>7, <1>8, <1>9, <1>10, <1>11, <1>12 DEF RedeemStep

-----------------------------------------------------------------------------
(* The invariant.                                                          *)

\* A redemption is covered by the sum its call has read, and this by the balance.
LEMMA BackedStep ==
  ASSUME TypeOK, TypeOK', [Next]_vars, OnlyPositiveAmountsMove',
         RedemptionBacked,
         \A c \in RedeemCallers : CallInv(c)
  PROVE  RedemptionBacked'
<1> SUFFICES ASSUME NEW r \in token_redemptions'
             PROVE  r.req.token_amount
                      <= Held(r.req.investor_id, r.req.asset_id)'
  BY DEF RedemptionBacked
<1> DEFINE i == r.req.investor_id
           a == r.req.asset_id
<1>1. Held(i, a) <= Held(i, a)' /\ Held(i, a) \in Int /\ Held(i, a)' \in Int
  BY HeldGrows
<1>2. r.req.token_amount \in Int
  BY StoreAssumption DEF TypeOK, StoreTypeOK, RedemptionRows, RedemptionRequestType
<1>3. CASE r \in token_redemptions
  BY <1>1, <1>2, <1>3 DEF RedemptionBacked
<1>4. CASE r \notin token_redemptions
  <2>1. PICK c \in RedeemCallers : RedeemStepOf(c) /\ ~UNCHANGED token_redemptions
    BY <1>4, OnlyRedeemSteps
  <2>2. RedeemInsert(c) /\ r.req = RReq(c)
    BY <1>4, <2>1, RedeemedOnlyByInsert
  <2>3. redeem_call[c].held <= Held(i, a) /\ redeem_call[c].held \in Int
    BY <2>2 DEF RedeemInsert, CallInv, TypeOK, RedemptionTypeOK, RedeemFrameType
  <2>4. redeem_call[c].held >= r.req.token_amount
    BY <2>2 DEF RedeemInsert, Redeemable
  <2> QED
    BY <1>1, <1>2, <2>3, <2>4
<1> QED
  BY <1>3, <1>4

\* Nothing is locked, summed or redeemed at first.
LEMMA BalanceInit == Init => BalanceInv
BY RedemptionAssumption DEF Init, StoreInit, RedemptionInit, IdleRedeem, RedeemFrame,
   BalanceInv, WaitsForConfirmed, MintRowsHeldByTheirCalls, LockedMints, SumsAreBacked,
   RedemptionBacked

\* The invariant is inductive, given the types before and after the step and that
\* only positive mints are confirmed.
LEMMA BalanceStep ==
  TypeOK /\ TypeOK' /\ OnlyPositiveAmountsMove' /\ BalanceInv /\ [Next]_vars
    => BalanceInv'
<1> SUFFICES ASSUME TypeOK, TypeOK', OnlyPositiveAmountsMove', BalanceInv, [Next]_vars
             PROVE  BalanceInv'
  OBVIOUS
<1>1. \A c \in RedeemCallers : CallInv(c)
  BY CallByCall DEF BalanceInv
<1>2. RedemptionBacked'
  BY <1>1, BackedStep DEF BalanceInv
<1>3. ASSUME NEW d \in RedeemCallers PROVE CallInv(d)'
  <2>1. CASE UNCHANGED <<redeem_call, mint_row_lock>>
    BY <1>1, <2>1, QuietCall
  <2>2. ASSUME NEW c \in RedeemCallers, RedeemStepOf(c) PROVE CallInv(d)'
    <3>1. CASE d = c
      BY <1>1, <2>2, <3>1, MovingCall
    <3>2. CASE d # c
      BY <1>1, <2>2, <3>2, OthersKept, QuietCall
    <3> QED
      BY <3>1, <3>2
  <2> QED
    BY <2>1, <2>2, OnlyRedeemSteps
<1>4. (WaitsForConfirmed /\ MintRowsHeldByTheirCalls /\ SumsAreBacked
         <=> \A c \in RedeemCallers : CallInv(c))'
  BY CallByCall, PTL
<1>5. (WaitsForConfirmed /\ MintRowsHeldByTheirCalls /\ SumsAreBacked)'
  BY <1>3, <1>4
<1> QED
  BY <1>2, <1>5 DEF BalanceInv

\* The balance check of request_redemption in every reachable state: the rows,
\* what is waited for, and the sum.
THEOREM BalanceInvariant == Spec => []BalanceInv
<1>1. Init /\ [][Next]_vars /\ []TypeOK /\ []OnlyPositiveAmountsMove => []BalanceInv
  BY BalanceInit, BalanceStep, PTL
<1> QED
  BY <1>1, TypeCorrect, PositiveAmountsMove, PTL DEF Spec

\* A locked token_mints row is a confirmed row of the redemption that holds it,
\* which does not wait for it: for any number of rows, locked in any order.
THEOREM MintRowsHeld == Spec => []MintRowsHeldByTheirCalls
<1>1. BalanceInv => MintRowsHeldByTheirCalls
  BY DEF BalanceInv
<1> QED
  BY <1>1, BalanceInvariant, PTL

\* No redemption is for more than the investor's confirmed mints.
THEOREM RedemptionsBacked == Spec => []RedemptionBacked
<1>1. BalanceInv => RedemptionBacked
  BY DEF BalanceInv
<1> QED
  BY <1>1, BalanceInvariant, PTL

-----------------------------------------------------------------------------
(* Retries.                                                                *)

\* A call that has inserted its row, or found one, has the row of its key.
RedeemAnswersHaveRows ==
  \A c \in RedeemCallers : redeem_call[c].pc \in {"send", "ok"} =>
    \E r \in token_redemptions :
      /\ r.id = redeem_call[c].id
      /\ r.req.idempotency_key = RReq(c).idempotency_key

RedeemKeyInv ==
  /\ \A r, q \in token_redemptions :
       r.req.idempotency_key = q.req.idempotency_key => r = q
  /\ RedeemAnswersHaveRows

\* A row is inserted under a key that no row has.
LEMMA RedeemKeyNew ==
  ASSUME [Next]_vars
  PROVE  \/ UNCHANGED token_redemptions
         \/ \E x : /\ token_redemptions' = token_redemptions \cup {x}
                   /\ \A y \in token_redemptions : y.req.idempotency_key # x.req.idempotency_key
<1>1. ASSUME NEW c \in RedeemCallers, RedeemInsert(c)
      PROVE  \E x : /\ token_redemptions' = token_redemptions \cup {x}
                    /\ \A y \in token_redemptions : y.req.idempotency_key # x.req.idempotency_key
  <2>1. PICK id : token_redemptions' = token_redemptions \cup {[id |-> id, req |-> RReq(c)]}
    BY <1>1 DEF RedeemInsert
  <2> DEFINE x == [id |-> id, req |-> RReq(c)]
  <2>2. \A y \in token_redemptions : y.req.idempotency_key # x.req.idempotency_key
    BY <1>1 DEF RedeemInsert, RedemptionKeyTaken, RedemptionsWithKey
  <2>3. token_redemptions' = token_redemptions \cup {x}
    BY <2>1
  <2> HIDE DEF x
  <2> QED
    BY <2>2, <2>3
<1> QED
  BY <1>1, OnlyRedeemSteps, RedeemedOnlyByInsert

\* No step gives a key a second row, or a call the row of another key.
LEMMA RedeemKeyStep == TypeOK /\ RedeemKeyInv /\ [Next]_vars => RedeemKeyInv'
<1> SUFFICES ASSUME TypeOK, RedeemKeyInv, [Next]_vars PROVE RedeemKeyInv'
  OBVIOUS
<1>1. token_redemptions \subseteq token_redemptions'
  BY RedeemKeyNew
<1>2. (\A r, q \in token_redemptions :
        r.req.idempotency_key = q.req.idempotency_key => r = q)'
  BY RedeemKeyNew DEF RedeemKeyInv
<1>3. ASSUME NEW c \in RedeemCallers, redeem_call'[c].pc \in {"send", "ok"}
      PROVE  \E r \in token_redemptions' :
               /\ r.id = redeem_call'[c].id
               /\ r.req.idempotency_key = redeem_call'[c].req.idempotency_key
  <2>1. CASE redeem_call'[c] = redeem_call[c]
    BY <1>1, <1>3, <2>1 DEF RedeemKeyInv, RedeemAnswersHaveRows, RReq
  <2>2. ASSUME NEW pc, NEW req, NEW id, RedeemReturn(c, pc, req, id)
        PROVE  /\ redeem_call'[c].pc = pc /\ redeem_call'[c].req = req
               /\ redeem_call'[c].id = id
    BY <2>2 DEF RedeemReturn, RedeemFrame, TypeOK, RedemptionTypeOK
  <2>3. ASSUME NEW req, RedeemReplay(c, req)
        PROVE  \E r \in token_redemptions' :
                 /\ r.id = redeem_call'[c].id
                 /\ r.req.idempotency_key = redeem_call'[c].req.idempotency_key
    <3>1. PICK r \in RedemptionsWithKey(req.idempotency_key) : RedeemReturn(c, "ok", req, r.id)
      BY <2>3 DEF RedeemReplay
    <3> QED
      BY <1>1, <2>2, <3>1 DEF RedemptionsWithKey
  <2>4. CASE RedeemInsert(c)
    <3>1. PICK id : /\ token_redemptions' = token_redemptions \cup {[id |-> id, req |-> RReq(c)]}
                    /\ RedeemReturn(c, "send", RReq(c), id)
      BY <2>4 DEF RedeemInsert
    <3>2. [id |-> id, req |-> RReq(c)] \in token_redemptions'
      BY <3>1
    <3>3. redeem_call'[c].id = id /\ redeem_call'[c].req = RReq(c)
      BY <2>2, <3>1
    <3> QED
      BY <3>2, <3>3
  <2>5. CASE RedeemSend(c)
    <3>1. RedeemReturn(c, "ok", RReq(c), redeem_call[c].id) \/ RedeemReturn(c, "idle", NoReq, NoId)
      BY <2>5 DEF RedeemSend
    <3>2. redeem_call'[c].id = redeem_call[c].id /\ redeem_call'[c].req = RReq(c)
      BY <1>3, <2>2, <3>1
    <3> QED
      BY <1>1, <2>5, <3>2 DEF RedeemSend, RedeemKeyInv, RedeemAnswersHaveRows
  <2>6. ASSUME NEW pc, pc \notin {"send", "ok"}, NEW req, NEW id,
               RedeemReturn(c, pc, req, id)
        PROVE  FALSE
    BY <1>3, <2>2, <2>6
  <2>7. CASE RedeemCheckReceiver(c) \/ RedeemReject(c) \/ RedeemFail(c)
    BY <2>6, <2>7 DEF RedeemCheckReceiver, RedeemReject, RedeemFail
  <2>8. CASE \/ RedeemCheckSender(c) \/ RedeemScanBalance(c) \/ RedeemLockRow(c)
             \/ RedeemSumBalance(c)
    <3>1. redeem_call[c] \in RedeemFrameType
      BY DEF TypeOK, RedemptionTypeOK
    <3>2. ASSUME NEW frame, redeem_call' = [redeem_call EXCEPT ![c] = frame],
                 frame.pc \notin {"send", "ok"}
          PROVE  FALSE
      BY <1>3, <3>2 DEF TypeOK, RedemptionTypeOK
    <3>3. CASE RedeemCheckSender(c)
      <4> DEFINE frame == [redeem_call[c] EXCEPT !.pc = "check_receiver",
                             !.sender_ok = IsWhitelisted(RReq(c).wallet_address)]
      <4>1. frame.pc = "check_receiver"
        BY <3>1 DEF RedeemFrameType
      <4>2. redeem_call' = [redeem_call EXCEPT ![c] = frame]
        BY <3>3 DEF RedeemCheckSender
      <4> HIDE DEF frame
      <4> QED
        BY <3>2, <4>1, <4>2
    <3>4. CASE RedeemScanBalance(c)
      <4> DEFINE frame == [redeem_call[c] EXCEPT !.pc = "lock_rows",
                             !.wanted = {m.id : m \in ConfirmedMints(RReq(c).investor_id,
                                                          RReq(c).asset_id)}]
      <4>1. frame.pc = "lock_rows"
        BY <3>1 DEF RedeemFrameType
      <4>2. redeem_call' = [redeem_call EXCEPT ![c] = frame]
        BY <3>4 DEF RedeemScanBalance
      <4> HIDE DEF frame
      <4> QED
        BY <3>2, <4>1, <4>2
    <3>5. CASE RedeemLockRow(c)
      BY <1>3, <3>1, <3>5 DEF RedeemLockRow, TypeOK, RedemptionTypeOK, RedeemFrameType
    <3>6. CASE RedeemSumBalance(c)
      <4> DEFINE frame == [redeem_call[c] EXCEPT !.pc = "insert",
                             !.held = Held(RReq(c).investor_id, RReq(c).asset_id)]
      <4>1. frame.pc = "insert"
        BY <3>1 DEF RedeemFrameType
      <4>2. redeem_call' = [redeem_call EXCEPT ![c] = frame]
        BY <3>6 DEF RedeemSumBalance
      <4> HIDE DEF frame
      <4> QED
        BY <3>2, <4>1, <4>2
    <3> QED
      BY <2>8, <3>3, <3>4, <3>5, <3>6
  <2>9. ASSUME NEW d \in RedeemCallers, RedeemStepOf(d), d # c
        PROVE  redeem_call'[c] = redeem_call[c]
    BY <2>9 DEF RedeemStepOf, RedeemStep, RedeemReplay, RedeemStart,
       RedeemCheckSender, RedeemCheckReceiver, RedeemScanBalance, RedeemLockRow,
       RedeemSumBalance, RedeemInsert, RedeemReject, RedeemSend, RedeemFail, RedeemReturn, TypeOK, RedemptionTypeOK
  <2>10. ASSUME NEW req, RedeemStart(c, req) PROVE FALSE
    BY <2>6, <2>10 DEF RedeemStart
  <2> QED
    BY <2>1, <2>3, <2>4, <2>5, <2>7, <2>8, <2>9, <2>10, OnlyRedeemSteps
       DEF RedeemStepOf, RedeemStep
<1>4. RedeemAnswersHaveRows'
  BY <1>3 DEF RedeemAnswersHaveRows, RReq
<1> QED
  BY <1>2, <1>4 DEF RedeemKeyInv

\* A retried request_redemption returns the row of its key, and there is one.
THEOREM OneRedemptionPerKey == Spec => []RedemptionResultPerKey
<1>1. Init => RedeemKeyInv
  BY DEF Init, StoreInit, RedemptionInit, IdleRedeem, RedeemFrame, RedeemKeyInv, RedeemAnswersHaveRows
<1>2. Init /\ [][Next]_vars /\ []TypeOK => []RedeemKeyInv
  BY <1>1, RedeemKeyStep, PTL
<1>3. RedeemKeyInv => RedemptionResultPerKey
  BY DEF RedeemKeyInv, RedeemAnswersHaveRows, RedemptionResultPerKey
<1> QED
  BY <1>2, <1>3, TypeCorrect, PTL DEF Spec

-----------------------------------------------------------------------------
(* Who waits for whom.                                                     *)

\* A redemption waits for redemptions of the same balance only, so no others can
\* slow it down or be part of a deadlock with it, in whatever order the rows are
\* locked and whatever is confirmed meanwhile (lock_balance_and_create_redemption).
WaitsStayWithinABalance ==
  \A c \in RedeemCallers : redeem_call[c].pc = "lock_rows" =>
    \A m \in redeem_call[c].wanted \cap LockedMints :
      LET d == mint_row_lock[m] IN
      /\ RReq(d).investor_id = RReq(c).investor_id
      /\ RReq(d).asset_id = RReq(c).asset_id

MintIdsAreUnique == \A m, n \in token_mints : m.id = n.id => m = n

\* A mint is inserted under an id that no row has.
LEMMA MintIdsStep ==
  ASSUME TypeOK, MintIdsAreUnique, [Next]_vars
  PROVE  MintIdsAreUnique'
<1>1. CASE UNCHANGED token_mints
  BY <1>1 DEF MintIdsAreUnique
<1>2. ASSUME NEW c \in MintCallers, MintInsert(c) PROVE MintIdsAreUnique'
  <2>1. PICK id \in MintIds \ {m.id : m \in token_mints} :
          token_mints' = token_mints \cup {[id |-> id, req |-> Req(c)]}
    BY <1>2 DEF MintInsert
  <2>2. PICK x : x = [id |-> id, req |-> Req(c)]
    OBVIOUS
  <2>3. x.id \notin {m.id : m \in token_mints} /\ token_mints' = token_mints \cup {x}
    BY <2>1, <2>2
  <2> QED
    BY <2>3 DEF MintIdsAreUnique
<1>3. (\E c \in MintCallers : MintInsert(c)) \/ UNCHANGED token_mints
  BY DEF Next, vars, MintStepOf, MintStep, MintReplay, MintStart, MintCheckSender,
     MintCheckReceiver, MintLockSupply, MintSupplyNotFound, MintSumMinted,
     MintSumRedeemed, MintReject, MintSend, MintFail, RedeemStepOf, RedeemStep,
     RedeemReplay, RedeemStart, RedeemCheckSender, RedeemCheckReceiver,
     RedeemScanBalance, RedeemLockRow, RedeemSumBalance, RedeemInsert, RedeemReject,
     RedeemSend, RedeemFail, SettleStepOf, SettleStep, SettleBegin, SettleReadStatus,
     SettleCommit, SettleFail, Confirm, ConfirmMint, ChainMint, ChainBurn, TrackBurn,
     Compliance, GrantWallet, RevokeWallet, store_vars, mint_vars
<1> QED
  BY <1>1, <1>2, <1>3

\* Redemptions wait for, and deadlock with, redemptions of the same investor and
\* asset only, for any number of callers, rows and investors: a row that one holds
\* and another waits for is a confirmed row of both, and rows have one owner.
THEOREM WaitsAreLocal == Spec => []WaitsStayWithinABalance
<1>1. ASSUME TypeOK, BalanceInv, MintIdsAreUnique PROVE WaitsStayWithinABalance
  <2>1. SUFFICES ASSUME NEW c \in RedeemCallers, redeem_call[c].pc = "lock_rows",
                        NEW m \in redeem_call[c].wanted, m \in LockedMints
                 PROVE  /\ RReq(mint_row_lock[m]).investor_id = RReq(c).investor_id
                        /\ RReq(mint_row_lock[m]).asset_id = RReq(c).asset_id
    BY DEF WaitsStayWithinABalance
  <2>2. PICK n \in ConfirmedMints(RReq(c).investor_id, RReq(c).asset_id) : n.id = m
    BY <1>1, <2>1 DEF BalanceInv, WaitsForConfirmed, ConfirmedIds
  <2>3. PICK o \in ConfirmedMints(RReq(mint_row_lock[m]).investor_id,
                                  RReq(mint_row_lock[m]).asset_id) : o.id = m
    BY <1>1, <2>1 DEF BalanceInv, MintRowsHeldByTheirCalls
  <2>4. n = o
    BY <1>1, <2>2, <2>3 DEF MintIdsAreUnique, ConfirmedMints, MintsOf
  <2> QED
    BY <2>2, <2>3, <2>4 DEF ConfirmedMints, MintsOf
<1>2. Init => MintIdsAreUnique
  BY DEF Init, StoreInit, MintIdsAreUnique
<1>3. Init /\ [][Next]_vars /\ []TypeOK => []MintIdsAreUnique
  BY <1>2, MintIdsStep, PTL
<1> QED
  BY <1>1, <1>3, BalanceInvariant, TypeCorrect, PTL DEF Spec

=============================================================================
