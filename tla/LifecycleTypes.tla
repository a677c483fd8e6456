--------------------------- MODULE LifecycleTypes ----------------------------
(***************************************************************************)
(* Type correctness of TokenLifecycle, for every value of the constants,   *)
(* and which amounts move: those of mints that are confirmed and of        *)
(* redemptions that are settled are positive (MovedInv).                   *)
(***************************************************************************)
EXTENDS TokenLifecycle, SumTheorems

\* Amounts of rows are integers, of either sign.
LEMMA AmountsInt ==
  /\ \A m \in MintRows : MintAmount[m] = m.req.token_amount /\ MintAmount[m] \in Int
  /\ \A r \in RedemptionRows :
       RedemptionAmount[r] = r.req.token_amount /\ RedemptionAmount[r] \in Int
BY StoreAssumption DEF MintAmount, RedemptionAmount, MintRows, RedemptionRows,
     MintRequestType, RedemptionRequestType

\* So are the sums the services compute.
LEMMA BalancesInt ==
  ASSUME StoreTypeOK
  PROVE  /\ \A a : MintedSupply(a) \in Int
         /\ \A a : SettledSupply(a) \in Int
         /\ \A i, a : Held(i, a) \in Int
<1>1. ASSUME NEW S, S \subseteq token_mints
      PROVE  SumOver(MintAmount, S) \in Int
  <2>1. IsFiniteSet(S) /\ S \subseteq MintRows
    BY <1>1, FS_Subset DEF StoreTypeOK
  <2> QED
    BY <2>1, AmountsInt, SumInt
<1>2. ASSUME NEW S, S \subseteq token_redemptions
      PROVE  SumOver(RedemptionAmount, S) \in Int
  <2>1. IsFiniteSet(S) /\ S \subseteq RedemptionRows
    BY <1>2, FS_Subset DEF StoreTypeOK
  <2> QED
    BY <2>1, AmountsInt, SumInt
<1>3. /\ \A a : MintsOf(a) \subseteq token_mints
      /\ \A a : SettledOf(a) \subseteq token_redemptions
      /\ \A i, a : ConfirmedMints(i, a) \subseteq token_mints
  BY DEF MintsOf, SettledOf, ConfirmedMints
<1> QED
  BY <1>1, <1>2, <1>3 DEF MintedSupply, SettledSupply, Held

\* What the CHECKs of the ledger say of the row a transaction books.
LEMMA CheckedMint ==
  ASSUME NEW m, m.req \in MintRequestType, NEW n, LedgerCheck(MintEntries(m, n))
  PROVE  m.req.token_amount > 0 /\ m.req.fiat_received > 0
<1> DEFINE tokens == Entry("token.mint", m.id, n, "investor:tokens",
                           m.req.investor_id, "TOKEN", m.req.token_amount, 0)
           fiat == Entry("token.mint", m.id, n, "fund:fiat",
                         m.req.asset_id, "USD", m.req.fiat_received, 0)
<1>1. tokens \in MintEntries(m, n) /\ fiat \in MintEntries(m, n)
  BY DEF MintEntries
<1>2. SingleSide(tokens) /\ SingleSide(fiat)
  BY <1>1 DEF LedgerCheck
<1>3. /\ tokens.debit = m.req.token_amount /\ tokens.credit = 0
      /\ fiat.debit = m.req.fiat_received /\ fiat.credit = 0
  BY DEF Entry
<1> QED
  BY <1>2, <1>3 DEF SingleSide

LEMMA CheckedRedemption ==
  ASSUME NEW r, r.req \in RedemptionRequestType, NEW n,
         LedgerCheck(RedeemEntries(r, n))
  PROVE  r.req.token_amount > 0
<1> DEFINE tokens == Entry("token.redeem", r.id, n, "fund:treasury",
                           r.req.asset_id, "TOKEN", r.req.token_amount, 0)
<1>1. tokens \in RedeemEntries(r, n)
  BY DEF RedeemEntries
<1>2. SingleSide(tokens)
  BY <1>1 DEF LedgerCheck
<1>3. tokens.debit = r.req.token_amount /\ tokens.credit = 0
  BY DEF Entry
<1> QED
  BY <1>2, <1>3 DEF SingleSide

\* The empty tables and idle calls are well typed.
LEMMA TypeInit == Init => TypeOK
<1> SUFFICES ASSUME Init PROVE TypeOK
  OBVIOUS
<1>1. StoreTypeOK
  BY FS_EmptySet DEF Init, StoreInit, StoreTypeOK
<1>2. MintTypeOK
  BY DEF Init, MintInit, MintTypeOK, IdleMint, MintFrame, MintFrameType, MintDone,
         MintRunning, MintLocked
<1>3. RedemptionTypeOK
  BY DEF Init, RedemptionInit, RedemptionTypeOK, IdleRedeem, IdleSettle,
         RedeemFrame, SettleFrame, RedeemFrameType, SettleFrameType,
         RedeemRunning, RedeemLocked, SettleRunning, CallDone
<1> QED
  BY <1>1, <1>2, <1>3 DEF Init, TypeOK

\* Replacing the frame of one call by a well-typed frame.
LEMMA MintFrameChange ==
  ASSUME MintTypeOK, NEW c \in MintCallers, NEW frame \in MintFrameType,
         mint_call' = [mint_call EXCEPT ![c] = frame],
         frame.pc \in MintRunning \cup {"ok"} => frame.req \in MintRequests,
         frame.pc \in {"send", "ok"} => frame.id \in MintIds
  PROVE  /\ mint_call' \in [MintCallers -> MintFrameType]
         /\ \A d \in MintCallers :
              /\ mint_call'[d].pc \in MintRunning \cup {"ok"} =>
                   mint_call'[d].req \in MintRequests
              /\ mint_call'[d].pc \in {"send", "ok"} => mint_call'[d].id \in MintIds
BY DEF MintTypeOK

\* A call of mint_tokens that returns leaves a well-typed frame.
LEMMA MintReturnType ==
  ASSUME MintTypeOK, NEW c \in MintCallers,
         NEW pc \in MintRunning \cup MintDone, NEW req \in MintRequests \cup {NoReq},
         NEW id \in MintIds \cup {NoId}, Return(c, pc, req, id),
         pc \in MintRunning \cup {"ok"} => req \in MintRequests,
         pc \in {"send", "ok"} => id \in MintIds
  PROVE  /\ mint_call' \in [MintCallers -> MintFrameType]
         /\ \A d \in MintCallers :
              /\ mint_call'[d].pc \in MintRunning \cup {"ok"} =>
                   mint_call'[d].req \in MintRequests
              /\ mint_call'[d].pc \in {"send", "ok"} => mint_call'[d].id \in MintIds
BY DEF MintTypeOK, Return, MintFrame, MintFrameType

\* Releasing the supply lock keeps its type.
LEMMA MintUnlockedType ==
  ASSUME MintTypeOK, NEW c
  PROVE  MintUnlocked(c) \in [DOMAIN TokenSupply -> MintCallers \cup {NoCaller}]
BY DEF MintTypeOK, MintUnlocked

\* The statements of mint_tokens.
LEMMA TypeMintStep ==
  ASSUME TypeOK, NEW c \in MintCallers, MintStepOf(c)
  PROVE  TypeOK'
<1> USE DEF TypeOK
<1>1. MintStep(c) /\ UNCHANGED <<redemption_vars, chain_vars>>
  BY DEF MintStepOf
<1>2. RedemptionTypeOK' /\ chain_minted' \subseteq MintIds
        /\ chain_burned' \subseteq RedemptionIds
  BY <1>1 DEF RedemptionTypeOK, redemption_vars, chain_vars
<1> SUFFICES StoreTypeOK' /\ MintTypeOK'
  BY <1>2
<1>3. ASSUME UNCHANGED store_vars PROVE StoreTypeOK'
  BY <1>3 DEF StoreTypeOK, store_vars
<1>4. "idle" \in MintDone /\ NoReq \in MintRequests \cup {NoReq}
        /\ NoId \in MintIds \cup {NoId} /\ "idle" \notin MintRunning \cup {"ok"}
  BY DEF MintDone, MintRunning, MintLocked
<1>5. ASSUME NEW req \in MintRequests, MintReplay(c, req)
      PROVE  StoreTypeOK' /\ MintTypeOK'
  <2>1. PICK m \in token_mints : Return(c, "ok", req, m.id)
    BY <1>5 DEF MintReplay, MintsWithKey
  <2>2. m.id \in MintIds /\ "ok" \in MintDone
    BY DEF StoreTypeOK, MintRows, MintDone
  <2> QED
    BY <1>3, <1>5, <2>1, <2>2, MintReturnType DEF MintReplay, MintTypeOK
<1>6. ASSUME NEW req \in MintRequests, MintStart(c, req)
      PROVE  StoreTypeOK' /\ MintTypeOK'
  <2>1. "check_sender" \in MintRunning /\ "check_sender" \notin {"send", "ok"}
    BY DEF MintRunning
  <2> QED
    BY <1>3, <1>4, <1>6, <2>1, MintReturnType DEF MintStart, MintTypeOK
<1>7. CASE MintCheckSender(c)
  <2>0. IsWhitelisted(ISSUER_WALLET) \in BOOLEAN
    BY SMT DEF IsWhitelisted
  <2>1. PICK ok \in BOOLEAN : ok = IsWhitelisted(ISSUER_WALLET)
    BY <2>0, Zenon
  <2> DEFINE frame == [mint_call[c] EXCEPT !.pc = "check_receiver", !.sender_ok = ok]
  <2>2. mint_call' = [mint_call EXCEPT ![c] = frame] /\ UNCHANGED <<store_vars, wrapper_lock>>
    BY <1>7, <2>1 DEF MintCheckSender
  <2>3. mint_call[c] \in MintFrameType /\ mint_call[c].req \in MintRequests
    BY <1>7 DEF MintCheckSender, MintTypeOK, MintRunning, MintLocked
  <2>4. frame \in MintFrameType /\ frame.pc = "check_receiver" /\ frame.req \in MintRequests
    BY <2>3 DEF MintFrameType, MintRunning, MintLocked
  <2> HIDE DEF frame
  <2> QED
    BY <1>3, <2>2, <2>4, MintFrameChange DEF MintTypeOK
<1>8. CASE MintCheckReceiver(c)
  <2>1. Req(c) \in MintRequests /\ "lock_supply" \in MintRunning
          /\ "lock_supply" \notin {"send", "ok"}
    BY <1>8 DEF MintCheckReceiver, MintTypeOK, MintRunning, Req
  <2> QED
    BY <1>3, <1>4, <1>8, <2>1, MintReturnType DEF MintCheckReceiver, MintTypeOK
<1>9. CASE MintLockSupply(c)
  BY <1>3, <1>9 DEF MintLockSupply, GoTo, MintTypeOK, MintFrameType,
       MintRunning, MintLocked
<1>10. CASE MintSupplyNotFound(c)
  BY <1>3, <1>4, <1>10, MintReturnType DEF MintSupplyNotFound, MintTypeOK
<1>11. CASE MintSumMinted(c)
  <2>1. PICK n \in Int : n = MintedSupply(Req(c).asset_id)
    BY BalancesInt
  <2> DEFINE frame == [mint_call[c] EXCEPT !.pc = "sum_redeemed", !.total_minted = n]
  <2>2. mint_call' = [mint_call EXCEPT ![c] = frame] /\ UNCHANGED <<store_vars, wrapper_lock>>
    BY <1>11, <2>1 DEF MintSumMinted
  <2>3. mint_call[c] \in MintFrameType /\ mint_call[c].req \in MintRequests
    BY <1>11 DEF MintSumMinted, MintTypeOK, MintRunning, MintLocked
  <2>4. frame \in MintFrameType /\ frame.pc = "sum_redeemed" /\ frame.req \in MintRequests
    BY <2>3 DEF MintFrameType, MintRunning, MintLocked
  <2> HIDE DEF frame
  <2> QED
    BY <1>3, <2>2, <2>4, MintFrameChange DEF MintTypeOK
<1>12. CASE MintSumRedeemed(c)
  <2>1. PICK n \in Int : n = SettledSupply(Req(c).asset_id)
    BY BalancesInt
  <2> DEFINE frame == [mint_call[c] EXCEPT !.pc = "insert", !.total_redeemed = n]
  <2>2. mint_call' = [mint_call EXCEPT ![c] = frame] /\ UNCHANGED <<store_vars, wrapper_lock>>
    BY <1>12, <2>1 DEF MintSumRedeemed, TotalRedeemed
  <2>3. mint_call[c] \in MintFrameType /\ mint_call[c].req \in MintRequests
    BY <1>12 DEF MintSumRedeemed, MintTypeOK, MintRunning, MintLocked
  <2>4. frame \in MintFrameType /\ frame.pc = "insert" /\ frame.req \in MintRequests
    BY <2>3 DEF MintFrameType, MintRunning, MintLocked
  <2> HIDE DEF frame
  <2> QED
    BY <1>3, <2>2, <2>4, MintFrameChange DEF MintTypeOK
<1>13. CASE MintInsert(c)
  <2>1. PICK id \in MintIds :
          /\ token_mints' = token_mints \cup {[id |-> id, req |-> Req(c)]}
          /\ outbox_events' =
               outbox_events \cup {OutboxEvent("token.mint_requested", id, 1)}
          /\ Return(c, "send", Req(c), id)
    BY <1>13 DEF MintInsert
  <2>2. Req(c) \in MintRequests /\ "send" \in MintRunning
    BY <1>13 DEF MintInsert, MintTypeOK, MintRunning, MintLocked, Req
  <2>3. [id |-> id, req |-> Req(c)] \in MintRows
    BY <2>2 DEF MintRows
  <2>4. IsFiniteSet(token_mints')
    BY <2>1, FS_AddElement DEF StoreTypeOK
  <2>5. outbox_events' \subseteq OutboxEventType
    BY <2>1 DEF StoreTypeOK, OutboxEvent, OutboxEventType
  <2>6. StoreTypeOK'
    BY <1>13, <2>1, <2>3, <2>4, <2>5 DEF MintInsert, StoreTypeOK
  <2> QED
    BY <1>13, <2>1, <2>2, <2>6, MintReturnType, MintUnlockedType
       DEF MintInsert, MintTypeOK
<1>14. CASE MintReject(c)
  BY <1>3, <1>4, <1>14, MintReturnType, MintUnlockedType DEF MintReject, MintTypeOK
<1>15. CASE MintSend(c)
  <2>1. Req(c) \in MintRequests /\ mint_call[c].id \in MintIds /\ "ok" \in MintDone
    BY <1>15 DEF MintSend, MintTypeOK, MintRunning, MintDone, Req
  <2>2. signing_queue' \subseteq MessageType
    BY <1>15, <2>1 DEF MintSend, StoreTypeOK, MessageType
  <2>3. StoreTypeOK'
    BY <1>15, <2>2 DEF MintSend, StoreTypeOK
  <2> QED
    BY <1>4, <1>15, <2>1, <2>3, MintReturnType DEF MintSend, MintTypeOK
<1>16. CASE MintFail(c)
  BY <1>3, <1>4, <1>16, MintReturnType, MintUnlockedType DEF MintFail, MintTypeOK
<1> QED
  BY <1>1, <1>5, <1>6, <1>7, <1>8, <1>9, <1>10, <1>11, <1>12, <1>13,
     <1>14, <1>15, <1>16 DEF MintStep

-----------------------------------------------------------------------------
(* The same for request_redemption.                                        *)

\* Changing one redemption frame, as MintFrameChange.
LEMMA RedeemFrameChange ==
  ASSUME RedemptionTypeOK, NEW c \in RedeemCallers, NEW frame \in RedeemFrameType,
         redeem_call' = [redeem_call EXCEPT ![c] = frame],
         frame.pc \in RedeemRunning \cup {"ok"} => frame.req \in RedemptionRequests,
         frame.pc \in {"send", "ok"} => frame.id \in RedemptionIds
  PROVE  /\ redeem_call' \in [RedeemCallers -> RedeemFrameType]
         /\ \A d \in RedeemCallers :
              /\ redeem_call'[d].pc \in RedeemRunning \cup {"ok"} =>
                   redeem_call'[d].req \in RedemptionRequests
              /\ redeem_call'[d].pc \in {"send", "ok"} =>
                   redeem_call'[d].id \in RedemptionIds
BY DEF RedemptionTypeOK

\* Ending a statement of request_redemption, as MintReturnType.
LEMMA RedeemReturnType ==
  ASSUME RedemptionTypeOK, NEW c \in RedeemCallers,
         NEW pc \in RedeemRunning \cup CallDone,
         NEW req \in RedemptionRequests \cup {NoReq},
         NEW id \in RedemptionIds \cup {NoId}, RedeemReturn(c, pc, req, id),
         pc \in RedeemRunning \cup {"ok"} => req \in RedemptionRequests,
         pc \in {"send", "ok"} => id \in RedemptionIds
  PROVE  /\ redeem_call' \in [RedeemCallers -> RedeemFrameType]
         /\ \A d \in RedeemCallers :
              /\ redeem_call'[d].pc \in RedeemRunning \cup {"ok"} =>
                   redeem_call'[d].req \in RedemptionRequests
              /\ redeem_call'[d].pc \in {"send", "ok"} =>
                   redeem_call'[d].id \in RedemptionIds
<1> DEFINE frame == RedeemFrame(pc, req, id)
<1>1. redeem_call' = [redeem_call EXCEPT ![c] = frame]
  BY DEF RedeemReturn
<1>2. frame \in RedeemFrameType /\ frame.pc = pc /\ frame.req = req /\ frame.id = id
  BY DEF RedeemFrame, RedeemFrameType
<1> HIDE DEF frame
<1> QED
  BY <1>1, <1>2, RedeemFrameChange

\* Releasing the locks on mint rows keeps their type.
LEMMA MintRowsUnlockedType ==
  ASSUME RedemptionTypeOK, NEW c
  PROVE  MintRowsUnlocked(c) \in [MintIds -> RedeemCallers \cup {NoCaller}]
BY DEF RedemptionTypeOK, MintRowsUnlocked

\* The statements of request_redemption.
LEMMA TypeRedeemStep ==
  ASSUME TypeOK, NEW c \in RedeemCallers, RedeemStepOf(c)
  PROVE  TypeOK'
<1> USE DEF TypeOK
<1>1. RedeemStep(c) /\ UNCHANGED <<mint_vars, chain_vars>>
  BY DEF RedeemStepOf
<1>2. MintTypeOK' /\ chain_minted' \subseteq MintIds /\ chain_burned' \subseteq RedemptionIds
  BY <1>1 DEF MintTypeOK, mint_vars, chain_vars
<1> SUFFICES StoreTypeOK' /\ RedemptionTypeOK'
  BY <1>2
<1>3. ASSUME UNCHANGED store_vars PROVE StoreTypeOK'
  BY <1>3 DEF StoreTypeOK, store_vars
<1>4. "idle" \in CallDone /\ NoReq \in RedemptionRequests \cup {NoReq}
        /\ NoId \in RedemptionIds \cup {NoId} /\ "idle" \notin RedeemRunning \cup {"ok"}
  BY DEF CallDone, RedeemRunning, RedeemLocked
<1>5. ASSUME NEW req \in RedemptionRequests, RedeemReplay(c, req)
      PROVE  StoreTypeOK' /\ RedemptionTypeOK'
  <2>1. PICK r \in token_redemptions : RedeemReturn(c, "ok", req, r.id)
    BY <1>5 DEF RedeemReplay, RedemptionsWithKey
  <2>2. r.id \in RedemptionIds /\ "ok" \in CallDone
    BY DEF StoreTypeOK, RedemptionRows, CallDone
  <2> QED
    BY <1>3, <1>5, <2>1, <2>2, RedeemReturnType DEF RedeemReplay, RedemptionTypeOK
<1>6. ASSUME NEW req \in RedemptionRequests, RedeemStart(c, req)
      PROVE  StoreTypeOK' /\ RedemptionTypeOK'
  <2>1. "check_sender" \in RedeemRunning /\ "check_sender" \notin {"send", "ok"}
    BY DEF RedeemRunning
  <2> QED
    BY <1>3, <1>4, <1>6, <2>1, RedeemReturnType DEF RedeemStart, RedemptionTypeOK
<1>7. CASE RedeemCheckSender(c)
  <2>0. IsWhitelisted(RReq(c).wallet_address) \in BOOLEAN
    BY SMT DEF IsWhitelisted
  <2>1. PICK ok \in BOOLEAN : ok = IsWhitelisted(RReq(c).wallet_address)
    BY <2>0, Zenon
  <2> DEFINE frame == [redeem_call[c] EXCEPT !.pc = "check_receiver", !.sender_ok = ok]
  <2>2. redeem_call' = [redeem_call EXCEPT ![c] = frame]
          /\ UNCHANGED <<store_vars, settle_call, mint_row_lock>>
    BY <1>7, <2>1 DEF RedeemCheckSender
  <2>3. redeem_call[c] \in RedeemFrameType /\ redeem_call[c].req \in RedemptionRequests
    BY <1>7 DEF RedeemCheckSender, RedemptionTypeOK, RedeemRunning
  <2>4. frame \in RedeemFrameType /\ frame.pc = "check_receiver"
          /\ frame.req \in RedemptionRequests
    BY <2>3 DEF RedeemFrameType, RedeemRunning
  <2> HIDE DEF frame
  <2> QED
    BY <1>3, <2>2, <2>4, RedeemFrameChange DEF RedemptionTypeOK
<1>8. CASE RedeemCheckReceiver(c)
  <2>1. RReq(c) \in RedemptionRequests /\ "lock_balance" \in RedeemRunning
          /\ "lock_balance" \notin {"send", "ok"}
    BY <1>8 DEF RedeemCheckReceiver, RedemptionTypeOK, RedeemRunning, RReq
  <2> QED
    BY <1>3, <1>4, <1>8, <2>1, RedeemReturnType
       DEF RedeemCheckReceiver, RedemptionTypeOK
<1>9. CASE RedeemScanBalance(c)
  <2> DEFINE rows == {m.id : m \in ConfirmedMints(RReq(c).investor_id, RReq(c).asset_id)}
             frame == [redeem_call[c] EXCEPT !.pc = "lock_rows", !.wanted = rows]
  <2>1. redeem_call' = [redeem_call EXCEPT ![c] = frame]
          /\ UNCHANGED <<store_vars, settle_call, mint_row_lock>>
    BY <1>9 DEF RedeemScanBalance
  <2>2. redeem_call[c] \in RedeemFrameType /\ redeem_call[c].req \in RedemptionRequests
    BY <1>9 DEF RedeemScanBalance, RedemptionTypeOK, RedeemRunning
  <2>3. rows \subseteq MintIds
    <3>1. ConfirmedMints(RReq(c).investor_id, RReq(c).asset_id) \subseteq token_mints
      BY DEF ConfirmedMints, MintsOf
    <3>2. \A m \in token_mints : m.id \in MintIds
      BY DEF StoreTypeOK, MintRows
    <3> QED
      BY <3>1, <3>2
  <2> HIDE DEF rows
  <2>4. frame \in RedeemFrameType /\ frame.pc = "lock_rows"
          /\ frame.req \in RedemptionRequests
    BY <2>2, <2>3 DEF RedeemFrameType, RedeemRunning, RedeemLocked
  <2> HIDE DEF frame
  <2> QED
    BY <1>3, <2>1, <2>4, RedeemFrameChange DEF RedemptionTypeOK
<1>10. CASE RedeemLockRow(c)
  <2>1. PICK m \in redeem_call[c].wanted \ LockedMints :
          /\ mint_row_lock' = [mint_row_lock EXCEPT ![m] = c]
          /\ redeem_call' = [redeem_call EXCEPT ![c].wanted = @ \ {m}]
    BY <1>10 DEF RedeemLockRow
  <2> DEFINE frame == [redeem_call[c] EXCEPT !.wanted = redeem_call[c].wanted \ {m}]
  <2>2. redeem_call' = [redeem_call EXCEPT ![c] = frame]
          /\ UNCHANGED <<store_vars, settle_call>>
    BY <1>10, <2>1 DEF RedeemLockRow
  <2>3. redeem_call[c] \in RedeemFrameType /\ redeem_call[c].req \in RedemptionRequests
          /\ redeem_call[c].pc = "lock_rows"
    BY <1>10 DEF RedeemLockRow, RedemptionTypeOK, RedeemRunning, RedeemLocked
  <2>4. frame \in RedeemFrameType /\ frame.pc = "lock_rows"
          /\ frame.req \in RedemptionRequests
    BY <2>3 DEF RedeemFrameType, RedeemRunning, RedeemLocked
  <2>5. mint_row_lock' \in [MintIds -> RedeemCallers \cup {NoCaller}]
    BY <2>1, <2>3 DEF RedemptionTypeOK, RedeemFrameType
  <2> HIDE DEF frame
  <2> QED
    BY <1>3, <2>2, <2>4, <2>5, RedeemFrameChange DEF RedemptionTypeOK
<1>11. CASE RedeemSumBalance(c)
  <2>1. PICK n \in Int : n = Held(RReq(c).investor_id, RReq(c).asset_id)
    BY BalancesInt
  <2> DEFINE frame == [redeem_call[c] EXCEPT !.pc = "insert", !.held = n]
  <2>2. redeem_call' = [redeem_call EXCEPT ![c] = frame]
          /\ UNCHANGED <<store_vars, settle_call, mint_row_lock>>
    BY <1>11, <2>1 DEF RedeemSumBalance
  <2>3. redeem_call[c] \in RedeemFrameType /\ redeem_call[c].req \in RedemptionRequests
    BY <1>11 DEF RedeemSumBalance, RedemptionTypeOK, RedeemRunning, RedeemLocked
  <2>4. frame \in RedeemFrameType /\ frame.pc = "insert"
          /\ frame.req \in RedemptionRequests
    BY <2>3 DEF RedeemFrameType, RedeemRunning, RedeemLocked
  <2> HIDE DEF frame
  <2> QED
    BY <1>3, <2>2, <2>4, RedeemFrameChange DEF RedemptionTypeOK
<1>12. CASE RedeemInsert(c)
  <2>1. PICK id \in RedemptionIds :
          /\ token_redemptions' = token_redemptions \cup {[id |-> id, req |-> RReq(c)]}
          /\ outbox_events' =
               outbox_events \cup {OutboxEvent("token.redemption_requested", id, 1)}
          /\ RedeemReturn(c, "send", RReq(c), id)
    BY <1>12 DEF RedeemInsert
  <2>2. RReq(c) \in RedemptionRequests /\ "send" \in RedeemRunning
    BY <1>12 DEF RedeemInsert, RedemptionTypeOK, RedeemRunning, RedeemLocked, RReq
  <2>3. [id |-> id, req |-> RReq(c)] \in RedemptionRows
    BY <2>2 DEF RedemptionRows
  <2>4. IsFiniteSet(token_redemptions')
    BY <2>1, FS_AddElement DEF StoreTypeOK
  <2>5. outbox_events' \subseteq OutboxEventType
    BY <2>1 DEF StoreTypeOK, OutboxEvent, OutboxEventType
  <2>6. StoreTypeOK'
    BY <1>12, <2>1, <2>3, <2>4, <2>5 DEF RedeemInsert, StoreTypeOK
  <2> QED
    BY <1>12, <2>1, <2>2, <2>6, RedeemReturnType, MintRowsUnlockedType
       DEF RedeemInsert, RedemptionTypeOK
<1>13. CASE RedeemReject(c)
  BY <1>3, <1>4, <1>13, RedeemReturnType, MintRowsUnlockedType
     DEF RedeemReject, RedemptionTypeOK
<1>14. CASE RedeemSend(c)
  <2>1. RReq(c) \in RedemptionRequests /\ redeem_call[c].id \in RedemptionIds
          /\ "ok" \in CallDone
    BY <1>14 DEF RedeemSend, RedemptionTypeOK, RedeemRunning, CallDone, RReq
  <2>2. signing_queue' \subseteq MessageType
    BY <1>14, <2>1 DEF RedeemSend, StoreTypeOK, MessageType
  <2>3. StoreTypeOK'
    BY <1>14, <2>2 DEF RedeemSend, StoreTypeOK
  <2> QED
    BY <1>4, <1>14, <2>1, <2>3, RedeemReturnType DEF RedeemSend, RedemptionTypeOK
<1>15. CASE RedeemFail(c)
  BY <1>3, <1>4, <1>15, RedeemReturnType, MintRowsUnlockedType
     DEF RedeemFail, RedemptionTypeOK
<1> QED
  BY <1>1, <1>5, <1>6, <1>7, <1>8, <1>9, <1>10, <1>11, <1>12, <1>13,
     <1>14, <1>15 DEF RedeemStep

-----------------------------------------------------------------------------
(* settle_redemption, the trackers, the chain and the compliance service.  *)

\* Appending a status event keeps the event log well typed.
LEMMA AppendStatusType ==
  ASSUME StoreTypeOK, NEW id \in RedemptionIds, NEW status \in RedemptionStatuses,
         NEW at \in Nat, AppendStatus(id, status, at)
  PROVE  token_redemption_events' \in [RedemptionIds -> Seq(StatusEventType)]
<1>1. [status |-> status, created_at |-> at] \in StatusEventType
  BY DEF StatusEventType
<1>2. token_redemption_events[id] \in Seq(StatusEventType)
  BY DEF StoreTypeOK
<1>3. Append(token_redemption_events[id], [status |-> status, created_at |-> at])
        \in Seq(StatusEventType)
  BY <1>1, <1>2
<1> QED
  BY <1>3 DEF AppendStatus, StoreTypeOK

\* How many events of a redemption there are, settled or not, is a number.
LEMMA EventCountsNat ==
  ASSUME StoreTypeOK, NEW id \in RedemptionIds
  PROVE  Cardinality(BurnEvents(id)) \in Nat /\ Settlements(id) \in Nat
<1>1. IsFiniteSet(DOMAIN token_redemption_events[id])
  <2>1. token_redemption_events[id] \in Seq(StatusEventType)
    BY DEF StoreTypeOK
  <2>2. /\ DOMAIN token_redemption_events[id] = 1 .. Len(token_redemption_events[id])
        /\ Len(token_redemption_events[id]) \in Nat
    BY <2>1
  <2>3. IsFiniteSet(1 .. Len(token_redemption_events[id]))
    BY <2>2, FS_Interval
  <2> QED
    BY <2>2, <2>3
<1>2. IsFiniteSet(BurnEvents(id))
  BY <1>1, FS_Subset DEF BurnEvents
<1>3. IsFiniteSet({k \in DOMAIN token_redemption_events[id] :
                     token_redemption_events[id][k].status = "settled"})
  BY <1>1, FS_Subset
<1> QED
  BY <1>2, <1>3, FS_CardinalityType DEF Settlements

\* The statements of settle_redemption.
LEMMA TypeSettleStep ==
  ASSUME TypeOK, NEW s \in SettleCallers, SettleStepOf(s)
  PROVE  TypeOK'
<1> USE DEF TypeOK
<1>1. SettleStep(s) /\ UNCHANGED <<mint_vars, chain_vars>>
  BY DEF SettleStepOf
<1>2. MintTypeOK' /\ chain_minted' \subseteq MintIds /\ chain_burned' \subseteq RedemptionIds
  BY <1>1 DEF MintTypeOK, mint_vars, chain_vars
<1> SUFFICES StoreTypeOK' /\ RedemptionTypeOK'
  BY <1>2
<1>3. ASSUME UNCHANGED store_vars PROVE StoreTypeOK'
  BY <1>3 DEF StoreTypeOK, store_vars
<1>4. ASSUME SettleReturn(s), UNCHANGED <<redeem_call, mint_row_lock>>
      PROVE  RedemptionTypeOK'
  BY <1>4 DEF SettleReturn, IdleSettle, SettleFrame, RedemptionTypeOK, SettleFrameType,
       SettleRunning
<1>5. ASSUME NEW id \in RedemptionIds, SettleBegin(s, id)
      PROVE  StoreTypeOK' /\ RedemptionTypeOK'
  <2>1. PICK n \in Nat : n = Cardinality(BurnEvents(id))
    BY EventCountsNat
  <2>2. settle_call' = [settle_call EXCEPT ![s] = SettleFrame("read_status", id, n)]
    BY <1>5, <2>1 DEF SettleBegin
  <2> QED
    BY <1>3, <1>5, <2>2 DEF SettleBegin, SettleFrame, RedemptionTypeOK, SettleFrameType,
         SettleRunning
<1>6. CASE SettleReadStatus(s)
  <2>1. CASE settle_call' = [settle_call EXCEPT ![s].pc = "commit"]
    BY <1>3, <1>6, <2>1 DEF SettleReadStatus, RedemptionTypeOK, SettleFrameType,
         SettleRunning
  <2>2. CASE SettleReturn(s)
    BY <1>3, <1>4, <1>6, <2>2 DEF SettleReadStatus
  <2> QED
    BY <1>6, <2>1, <2>2 DEF SettleReadStatus
<1>7. CASE SettleCommit(s)
  <2> DEFINE id == settle_call[s].id
             n == Settlements(id) + 1
  <2>1. id \in RedemptionIds /\ settle_call[s].began \in Nat
    BY <1>7 DEF SettleCommit, RedemptionTypeOK, SettleFrameType, SettleRunning
  <2>2. n \in Nat
    BY <2>1, EventCountsNat
  <2>3. token_redemption_events' \in [RedemptionIds -> Seq(StatusEventType)]
    <3>1. AppendStatus(id, "settled", SettledAt(s))
      BY <1>7 DEF SettleCommit
    <3>2. SettledAt(s) \in Nat /\ "settled" \in RedemptionStatuses
      BY <2>1 DEF RedemptionStatuses, SettledAt
    <3> QED
      BY <2>1, <3>1, <3>2, AppendStatusType
  <2>4. outbox_events' \subseteq OutboxEventType
    BY <1>7, <2>1, <2>2 DEF SettleCommit, StoreTypeOK, OutboxEvent, OutboxEventType
  <2>5. ledger_entries' \subseteq LedgerRows
    <3>1. PICK r \in token_redemptions :
            /\ r.id = id
            /\ LedgerCheck(RedeemEntries(r, n))
            /\ ledger_entries' = ledger_entries \cup RedeemEntries(r, n)
      BY <1>7 DEF SettleCommit
    <3>2. r.req \in RedemptionRequestType
      BY StoreAssumption DEF StoreTypeOK, RedemptionRows
    <3>3. r.req.token_amount > 0
      BY <3>1, <3>2, CheckedRedemption
    <3>4. RedeemEntries(r, n) \subseteq LedgerRows
      BY <2>1, <2>2, <3>1, <3>2, <3>3
         DEF RedeemEntries, Entry, LedgerRows, RedemptionRequestType
    <3> QED
      BY <3>1, <3>4 DEF StoreTypeOK
  <2>6. StoreTypeOK'
    BY <1>7, <2>3, <2>4, <2>5 DEF SettleCommit, StoreTypeOK
  <2> QED
    BY <1>4, <1>7, <2>6 DEF SettleCommit
<1>8. CASE SettleFail(s)
  BY <1>3, <1>4, <1>8 DEF SettleFail
<1> QED
  BY <1>1, <1>5, <1>6, <1>7, <1>8 DEF SettleStep

\* The transaction of confirm_mint.
LEMMA TypeConfirm ==
  ASSUME TypeOK, NEW m \in token_mints, Confirm(m)
  PROVE  TypeOK'
<1> USE DEF TypeOK
<1>1. ConfirmMint(m, LockedMints) /\ UNCHANGED <<redemption_vars, chain_vars>>
  BY DEF Confirm
<1> DEFINE n == token_mint_events[m.id] + 1
<1>2. m.id \in MintIds /\ m.req \in MintRequestType
  BY StoreAssumption DEF StoreTypeOK, MintRows
<1>3. n \in Nat
  BY <1>2 DEF StoreTypeOK
<1>4. token_mint_events' \in [MintIds -> Nat]
  BY <1>1, <1>2, <1>3 DEF ConfirmMint, StoreTypeOK
<1>5. MintEntries(m, n) \subseteq LedgerRows
  <2>1. LedgerCheck(MintEntries(m, n))
    BY <1>1 DEF ConfirmMint
  <2>2. m.req.token_amount > 0 /\ m.req.fiat_received > 0
    BY <1>2, <2>1, CheckedMint
  <2> QED
    BY <1>2, <1>3, <2>2 DEF MintEntries, Entry, LedgerRows, MintRequestType
<1>6. outbox_events' \subseteq OutboxEventType
  BY <1>1, <1>2, <1>3 DEF ConfirmMint, StoreTypeOK, OutboxEvent, OutboxEventType
<1>7. ledger_entries' \subseteq LedgerRows
  BY <1>1, <1>5 DEF ConfirmMint, StoreTypeOK
<1>8. StoreTypeOK'
  BY <1>1, <1>4, <1>6, <1>7 DEF ConfirmMint, StoreTypeOK
<1>9. MintTypeOK' /\ RedemptionTypeOK'
  BY <1>1 DEF ConfirmMint, MintTypeOK, RedemptionTypeOK, mint_vars, redemption_vars
<1> QED
  BY <1>1, <1>8, <1>9 DEF chain_vars

\* The chain and the burn tracker.
LEMMA TypeOutside ==
  ASSUME TypeOK,
         \/ \E m \in token_mints : ChainMint(m)
         \/ \E r \in token_redemptions : ChainBurn(r)
         \/ \E r \in token_redemptions, status \in RedemptionStatuses :
              TrackBurn(r, status)
         \/ \E w \in Wallets : Compliance(w)
  PROVE  TypeOK'
<1> USE DEF TypeOK
<1>1. ASSUME NEW m \in token_mints, ChainMint(m) PROVE TypeOK'
  <2>1. m.id \in MintIds
    BY DEF StoreTypeOK, MintRows
  <2> QED
    BY <1>1, <2>1 DEF ChainMint, StoreTypeOK, MintTypeOK, RedemptionTypeOK,
         store_vars, mint_vars, redemption_vars
<1>2. ASSUME NEW r \in token_redemptions, ChainBurn(r) PROVE TypeOK'
  <2>1. r.id \in RedemptionIds
    BY DEF StoreTypeOK, RedemptionRows
  <2> QED
    BY <1>2, <2>1 DEF ChainBurn, StoreTypeOK, MintTypeOK, RedemptionTypeOK,
         store_vars, mint_vars, redemption_vars
<1>3. ASSUME NEW r \in token_redemptions, NEW status \in RedemptionStatuses,
             TrackBurn(r, status)
      PROVE  TypeOK'
  <2>1. r.id \in RedemptionIds
    BY DEF StoreTypeOK, RedemptionRows
  <2>2. PICK n \in Nat : n = Cardinality(BurnEvents(r.id))
    BY <2>1, EventCountsNat
  <2>3. AppendStatus(r.id, status, 2 * (n + 1)) /\ 2 * (n + 1) \in Nat
    BY <1>3, <2>2 DEF TrackBurn
  <2>4. token_redemption_events' \in [RedemptionIds -> Seq(StatusEventType)]
    BY <2>1, <2>3, AppendStatusType
  <2> QED
    BY <1>3, <2>4 DEF TrackBurn, StoreTypeOK, MintTypeOK, RedemptionTypeOK,
         mint_vars, redemption_vars, chain_vars
<1>4. ASSUME NEW w \in Wallets, Compliance(w) PROVE TypeOK'
  BY <1>4 DEF Compliance, GrantWallet, RevokeWallet, StoreTypeOK, MintTypeOK,
       RedemptionTypeOK, mint_vars, redemption_vars, chain_vars
<1> QED
  BY <1>1, <1>2, <1>3, <1>4

\* One step of anybody.
LEMMA TypeStep == TypeOK /\ [Next]_vars => TypeOK'
<1> SUFFICES ASSUME TypeOK, [Next]_vars PROVE TypeOK'
  OBVIOUS
<1>1. CASE UNCHANGED vars
  BY <1>1 DEF TypeOK, StoreTypeOK, MintTypeOK, RedemptionTypeOK, vars, store_vars,
       mint_vars, redemption_vars, chain_vars
<1> QED
  BY <1>1, TypeMintStep, TypeRedeemStep, TypeSettleStep, TypeConfirm, TypeOutside
     DEF Next

\* Every reachable state of the system is well typed: tables hold rows of the
\* schema, a running call has a request, a call past its insert has an id.
THEOREM TypeCorrect == Spec => []TypeOK
BY TypeInit, TypeStep, PTL DEF Spec

-----------------------------------------------------------------------------
(* Who writes the tables, and whose amounts count. Any amount is accepted, *)
(* but what is confirmed or settled has passed the CHECKs of the ledger.   *)

\* An id names one row.
IdsAreUnique ==
  /\ \A m, n \in token_mints : m.id = n.id => m = n
  /\ \A r, q \in token_redemptions : r.id = q.id => r = q

\* What is confirmed or settled is a row.
EventsHaveRows ==
  /\ \A i \in MintIds : IsConfirmed(i) => \E m \in token_mints : m.id = i
  /\ \A i \in RedemptionIds : IsSettled(i) => \E r \in token_redemptions : r.id = i

MovedInv ==
  /\ IdsAreUnique
  /\ EventsHaveRows
  /\ OnlyPositiveAmountsMove

\* Only MintInsert adds a row to token_mints.
LEMMA MintedOnlyByInsert ==
  ASSUME [Next]_vars
  PROVE  (\E c \in MintCallers : MintStepOf(c) /\ MintInsert(c)) \/ UNCHANGED token_mints
BY DEF Next, vars, MintStepOf, MintStep, MintReplay, MintStart, MintCheckSender,
   MintCheckReceiver, MintLockSupply, MintSupplyNotFound, MintSumMinted,
   MintSumRedeemed, MintReject, MintSend, MintFail, RedeemStepOf, RedeemStep,
   RedeemReplay, RedeemStart, RedeemCheckSender, RedeemCheckReceiver,
   RedeemScanBalance, RedeemLockRow, RedeemSumBalance, RedeemInsert, RedeemReject,
   RedeemSend, RedeemFail, SettleStepOf, SettleStep, SettleBegin,
   SettleReadStatus, SettleCommit, SettleFail, Confirm, ConfirmMint, ChainMint,
   ChainBurn, TrackBurn, Compliance, GrantWallet, RevokeWallet, store_vars, mint_vars

\* A step is a statement of one call of request_redemption, or it leaves the
\* calls, the locks and the redemptions alone.
LEMMA OnlyRedeemSteps ==
  ASSUME [Next]_vars
  PROVE  \/ \E c \in RedeemCallers : RedeemStepOf(c)
         \/ UNCHANGED <<redeem_call, mint_row_lock, token_redemptions>>
BY DEF Next, vars, MintStepOf, MintStep, MintReplay, MintStart, MintCheckSender,
   MintCheckReceiver, MintLockSupply, MintSupplyNotFound, MintSumMinted,
   MintSumRedeemed, MintInsert, MintReject, MintSend, MintFail, SettleStepOf,
   SettleStep, SettleBegin, SettleReadStatus, SettleCommit, SettleFail, Confirm,
   ConfirmMint, ChainMint, ChainBurn, TrackBurn, Compliance, GrantWallet,
   RevokeWallet, store_vars, redemption_vars

\* Only RedeemInsert adds a redemption, and it is the call's request.
LEMMA RedeemedOnlyByInsert ==
  ASSUME NEW c \in RedeemCallers, RedeemStepOf(c)
  PROVE  \/ UNCHANGED token_redemptions
         \/ /\ RedeemInsert(c)
            /\ \E id \in RedemptionIds :
                 token_redemptions' = token_redemptions \cup {[id |-> id, req |-> RReq(c)]}
BY DEF RedeemStepOf, RedeemStep, RedeemReplay, RedeemStart, RedeemCheckSender,
   RedeemCheckReceiver, RedeemScanBalance, RedeemLockRow, RedeemSumBalance,
   RedeemInsert, RedeemReject, RedeemSend, RedeemFail, store_vars

\* Status events come from the burn tracker and from settlements.
LEMMA StatusOnlyByTwo ==
  ASSUME [Next]_vars
  PROVE  \/ \E s \in SettleCallers : SettleStepOf(s) /\ SettleCommit(s)
         \/ \E r \in token_redemptions, status \in RedemptionStatuses :
              TrackBurn(r, status)
         \/ UNCHANGED token_redemption_events
BY DEF Next, vars, MintStepOf, MintStep, MintReplay, MintStart, MintCheckSender,
   MintCheckReceiver, MintLockSupply, MintSupplyNotFound, MintSumMinted,
   MintSumRedeemed, MintInsert, MintReject, MintSend, MintFail, RedeemStepOf, RedeemStep,
   RedeemReplay, RedeemStart, RedeemCheckSender, RedeemCheckReceiver,
   RedeemScanBalance, RedeemLockRow, RedeemSumBalance, RedeemInsert, RedeemReject,
   RedeemSend, RedeemFail, SettleStepOf, SettleStep, SettleBegin,
   SettleReadStatus, SettleFail, Confirm, ConfirmMint, ChainMint,
   ChainBurn, Compliance, GrantWallet, RevokeWallet, store_vars

\* Confirmations come from confirm_mint.
LEMMA ConfirmedOnlyByConfirm ==
  ASSUME [Next]_vars
  PROVE  (\E m \in token_mints : Confirm(m)) \/ UNCHANGED token_mint_events
BY DEF Next, vars, MintStepOf, MintStep, MintReplay, MintStart, MintCheckSender,
   MintCheckReceiver, MintLockSupply, MintSupplyNotFound, MintSumMinted,
   MintSumRedeemed, MintInsert, MintReject, MintSend, MintFail, RedeemStepOf, RedeemStep,
   RedeemReplay, RedeemStart, RedeemCheckSender, RedeemCheckReceiver,
   RedeemScanBalance, RedeemLockRow, RedeemSumBalance, RedeemInsert, RedeemReject,
   RedeemSend, RedeemFail, SettleStepOf, SettleStep, SettleBegin,
   SettleReadStatus, SettleCommit, SettleFail, ChainMint,
   ChainBurn, TrackBurn, Compliance, GrantWallet, RevokeWallet, store_vars

\* A row is added under an id that no row has.
LEMMA RowsGrow ==
  ASSUME TypeOK, [Next]_vars
  PROVE  /\ \/ UNCHANGED token_mints
            \/ \E m \in MintRows :
                 /\ \A n \in token_mints : n.id # m.id
                 /\ token_mints' = token_mints \cup {m}
                 /\ UNCHANGED <<token_redemptions, token_redemption_events, chain_vars>>
         /\ \/ UNCHANGED token_redemptions
            \/ \E r \in RedemptionRows :
                 /\ \A q \in token_redemptions : q.id # r.id
                 /\ token_redemptions' = token_redemptions \cup {r}
                 /\ UNCHANGED <<token_mints, token_redemption_events, chain_vars>>
<1>1. ASSUME NEW c \in MintCallers, MintStepOf(c), MintInsert(c)
      PROVE  \E m \in MintRows :
               /\ \A n \in token_mints : n.id # m.id
               /\ token_mints' = token_mints \cup {m}
               /\ UNCHANGED <<token_redemptions, token_redemption_events, chain_vars>>
  <2>1. PICK id \in MintIds \ {m.id : m \in token_mints} :
          token_mints' = token_mints \cup {[id |-> id, req |-> Req(c)]}
    BY <1>1 DEF MintInsert
  <2>2. Req(c) \in MintRequests
    BY <1>1 DEF MintInsert, TypeOK, MintTypeOK, MintRunning, MintLocked, Req
  <2> DEFINE m == [id |-> id, req |-> Req(c)]
  <2>3. m \in MintRows /\ m.id = id
    BY <2>2 DEF MintRows
  <2>4. /\ token_mints' = token_mints \cup {m}
        /\ UNCHANGED <<token_redemptions, token_redemption_events, chain_vars>>
    BY <1>1, <2>1 DEF MintInsert, MintStepOf
  <2> HIDE DEF m
  <2> QED
    BY <2>1, <2>3, <2>4
<1>2. ASSUME NEW c \in RedeemCallers, RedeemStepOf(c), RedeemInsert(c)
      PROVE  \E r \in RedemptionRows :
               /\ \A q \in token_redemptions : q.id # r.id
               /\ token_redemptions' = token_redemptions \cup {r}
               /\ UNCHANGED <<token_mints, token_redemption_events, chain_vars>>
  <2>1. PICK id \in RedemptionIds \ {r.id : r \in token_redemptions} :
          token_redemptions' = token_redemptions \cup {[id |-> id, req |-> RReq(c)]}
    BY <1>2 DEF RedeemInsert
  <2>2. RReq(c) \in RedemptionRequests
    BY <1>2 DEF RedeemInsert, TypeOK, RedemptionTypeOK, RedeemRunning, RedeemLocked, RReq
  <2> DEFINE r == [id |-> id, req |-> RReq(c)]
  <2>3. r \in RedemptionRows /\ r.id = id
    BY <2>2 DEF RedemptionRows
  <2>4. /\ token_redemptions' = token_redemptions \cup {r}
        /\ UNCHANGED <<token_mints, token_redemption_events, chain_vars>>
    BY <1>2, <2>1 DEF RedeemInsert, RedeemStepOf
  <2> HIDE DEF r
  <2> QED
    BY <2>1, <2>3, <2>4
<1> QED
  BY <1>1, <1>2, MintedOnlyByInsert, OnlyRedeemSteps, RedeemedOnlyByInsert

\* A status event settles the redemption it is about, or nothing.
LEMMA AppendSettles ==
  ASSUME StoreTypeOK, NEW id \in RedemptionIds, NEW status, NEW at,
         AppendStatus(id, status, at)
  PROVE  \A i \in RedemptionIds :
           IsSettled(i)' <=> IsSettled(i) \/ (i = id /\ status = "settled")
<1> SUFFICES ASSUME NEW i \in RedemptionIds
             PROVE  IsSettled(i)' <=> IsSettled(i) \/ (i = id /\ status = "settled")
  OBVIOUS
<1> DEFINE old == token_redemption_events[i]
           e == [status |-> status, created_at |-> at]
<1>1. token_redemption_events'[i] = IF i = id THEN Append(old, e) ELSE old
  BY DEF AppendStatus, StoreTypeOK
<1>2. old \in Seq(StatusEventType)
  BY DEF StoreTypeOK
<1>3. CASE i # id
  BY <1>1, <1>3 DEF IsSettled
<1>4. CASE i = id
  <2>1. /\ DOMAIN Append(old, e) = DOMAIN old \cup {Len(old) + 1}
        /\ Append(old, e)[Len(old) + 1] = e
        /\ \A k \in DOMAIN old : Append(old, e)[k] = old[k]
    BY <1>2
  <2>2. token_redemption_events'[i] = Append(old, e)
    BY <1>1, <1>4
  <2>3. (\E k \in DOMAIN Append(old, e) : Append(old, e)[k].status = "settled")
          <=> (\E k \in DOMAIN old : old[k].status = "settled") \/ e.status = "settled"
    BY <2>1
  <2> QED
    BY <1>4, <2>2, <2>3 DEF IsSettled
<1> QED
  BY <1>3, <1>4

\* A confirmed mint is a row that passed the CHECKs, before this step or in it.
LEMMA ConfirmedHavePassed ==
  ASSUME TypeOK, MovedInv, [Next]_vars, NEW i \in MintIds, IsConfirmed(i)'
  PROVE  \E m \in token_mints :
           m.id = i /\ m.req.token_amount > 0 /\ m.req.fiat_received > 0
<1>1. CASE IsConfirmed(i)
  BY <1>1 DEF MovedInv, EventsHaveRows, OnlyPositiveAmountsMove
<1>2. CASE ~IsConfirmed(i)
  <2>1. PICK m \in token_mints : Confirm(m)
    BY <1>2, ConfirmedOnlyByConfirm DEF IsConfirmed
  <2>2. m.id \in MintIds /\ m.req \in MintRequestType
    BY StoreAssumption DEF TypeOK, StoreTypeOK, MintRows
  <2>3. LedgerCheck(MintEntries(m, token_mint_events[m.id] + 1))
    BY <2>1 DEF Confirm, ConfirmMint
  <2>4. m.req.token_amount > 0 /\ m.req.fiat_received > 0
    BY <2>2, <2>3, CheckedMint
  <2>5. m.id = i
    BY <1>2, <2>1, <2>2 DEF Confirm, ConfirmMint, IsConfirmed, TypeOK, StoreTypeOK
  <2> QED
    BY <2>4, <2>5
<1> QED
  BY <1>1, <1>2

\* And so is a settled redemption.
LEMMA SettledHavePassed ==
  ASSUME TypeOK, MovedInv, [Next]_vars, NEW i \in RedemptionIds, IsSettled(i)'
  PROVE  \E r \in token_redemptions : r.id = i /\ r.req.token_amount > 0
<1>1. CASE IsSettled(i)
  BY <1>1 DEF MovedInv, EventsHaveRows, OnlyPositiveAmountsMove
<1>2. ASSUME NEW s \in SettleCallers, SettleCommit(s), ~IsSettled(i)
      PROVE  \E r \in token_redemptions : r.id = i /\ r.req.token_amount > 0
  <2> DEFINE id == settle_call[s].id
  <2>1. id \in RedemptionIds
    BY <1>2 DEF SettleCommit, TypeOK, RedemptionTypeOK, SettleRunning
  <2>2. id = i
    BY <1>2, <2>1, AppendSettles DEF SettleCommit, TypeOK
  <2>3. PICK r \in token_redemptions :
          r.id = id /\ LedgerCheck(RedeemEntries(r, Settlements(id) + 1))
    BY <1>2 DEF SettleCommit
  <2>4. r.req \in RedemptionRequestType
    BY StoreAssumption DEF TypeOK, StoreTypeOK, RedemptionRows
  <2> QED
    BY <2>2, <2>3, <2>4, CheckedRedemption
<1>3. ASSUME NEW r \in token_redemptions, NEW status \in RedemptionStatuses,
             TrackBurn(r, status)
      PROVE  IsSettled(i)
  <2>1. r.id \in RedemptionIds /\ status # "settled"
    BY <1>3 DEF TrackBurn, TypeOK, StoreTypeOK, RedemptionRows
  <2>2. PICK at : AppendStatus(r.id, status, at)
    BY <1>3 DEF TrackBurn
  <2> QED
    BY <2>1, <2>2, AppendSettles DEF TypeOK
<1>4. CASE UNCHANGED token_redemption_events
  BY <1>1, <1>4 DEF IsSettled
<1> QED
  BY <1>1, <1>2, <1>3, <1>4, StatusOnlyByTwo

\* Nothing is on record at first.
LEMMA MovedInit == Init => MovedInv
BY DEF Init, StoreInit, MovedInv, IdsAreUnique, EventsHaveRows, OnlyPositiveAmountsMove,
   IsConfirmed, IsSettled

\* The invariant is inductive, given the types.
LEMMA MovedStep == TypeOK /\ MovedInv /\ [Next]_vars => MovedInv'
<1> SUFFICES ASSUME TypeOK, MovedInv, [Next]_vars PROVE MovedInv'
  OBVIOUS
<1>1. token_mints \subseteq token_mints' /\ token_redemptions \subseteq token_redemptions'
  BY RowsGrow
<1>2. IdsAreUnique'
  BY RowsGrow DEF IdsAreUnique, MovedInv
<1>3. /\ \A m \in token_mints' : m.id \in MintIds
      /\ \A r \in token_redemptions' : r.id \in RedemptionIds
  BY RowsGrow DEF TypeOK, StoreTypeOK, MintRows, RedemptionRows
<1>4. EventsHaveRows'
  BY <1>1, ConfirmedHavePassed, SettledHavePassed DEF EventsHaveRows
<1>5. ASSUME NEW m \in token_mints', IsConfirmed(m.id)'
      PROVE  m.req.token_amount > 0 /\ m.req.fiat_received > 0
  <2>1. PICK n \in token_mints :
          n.id = m.id /\ n.req.token_amount > 0 /\ n.req.fiat_received > 0
    BY <1>3, <1>5, ConfirmedHavePassed
  <2> QED
    BY <1>1, <1>2, <2>1 DEF IdsAreUnique
<1>6. ASSUME NEW r \in token_redemptions', IsSettled(r.id)'
      PROVE  r.req.token_amount > 0
  <2>1. PICK q \in token_redemptions : q.id = r.id /\ q.req.token_amount > 0
    BY <1>3, <1>6, SettledHavePassed
  <2> QED
    BY <1>1, <1>2, <2>1 DEF IdsAreUnique
<1>7. OnlyPositiveAmountsMove'
  BY <1>5, <1>6 DEF OnlyPositiveAmountsMove
<1> QED
  BY <1>2, <1>4, <1>7 DEF MovedInv

\* Rows, their ids and their events in every reachable state.
THEOREM MovedInvariant == Spec => []MovedInv
<1>1. Init /\ [][Next]_vars /\ []TypeOK => []MovedInv
  BY MovedInit, MovedStep, PTL
<1> QED
  BY <1>1, TypeCorrect, PTL DEF Spec

\* Whatever amounts are requested, a mint of no tokens or no fiat, or less, is
\* never confirmed, and such a redemption never settled.
THEOREM PositiveAmountsMove == Spec => []OnlyPositiveAmountsMove
<1>1. MovedInv => OnlyPositiveAmountsMove
  BY DEF MovedInv
<1> QED
  BY <1>1, MovedInvariant, PTL

=============================================================================
