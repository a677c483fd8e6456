----------------------------- MODULE AssetProofs -----------------------------
(***************************************************************************)
(* First the types of AssetLifecycle, and that its tables only grow. Then  *)
(* what the unlocked reads of the asset services are still good for, for   *)
(* any number of tasks, assets and requests: a late wrapper is refused     *)
(* (WrappedIsPastLegal, LateMeansWrapped), the tasks bound the wrappers of *)
(* an asset (CountInv), a key names one row, and a yield counts every      *)
(* yield that was committed before its call. The last two sections are     *)
(* what a reconciliation that passed, or found the supplies apart, is      *)
(* worth, and the books of the yields.                                     *)
(***************************************************************************)
EXTENDS AssetLifecycle, SumTheorems

\* Nothing is booked, and no call runs, at first.
LEMMA TypeInit == Init => TypeOK
<1> SUFFICES ASSUME Init PROVE TypeOK
  OBVIOUS
<1>1. StoreTypeOK /\ CirculationTypeOK
  BY FS_EmptySet DEF Init, StoreInit, StoreTypeOK, CirculationInit, CirculationTypeOK
<1>2. DOMAIN call = Tasks /\ \A t \in Tasks : call[t].pc = "idle"
  BY DEF Init, StoreInit, Idle
<1>3. \A t \in Tasks : FrameTypeOK(t)
  BY <1>2 DEF FrameTypeOK, Reconciling, ReconcileOver
<1> QED
  BY <1>1, <1>2, <1>3 DEF TypeOK, Init

-----------------------------------------------------------------------------
(* Frames.                                                                 *)

\* A frame is only about what is on record, and records stay.
LEMMA QuietFrame ==
  ASSUME NEW u \in Tasks, FrameTypeOK(u), call'[u] = call[u],
         rwa_assets \subseteq rwa_assets', nav_calculations \subseteq nav_calculations'
  PROVE  FrameTypeOK(u)'
<1>1. \A a : IsRegistered(a) => IsRegistered(a)'
  BY DEF IsRegistered, AssetRowsOf
<1>2. {n.id : n \in nav_calculations} \subseteq {n.id : n \in nav_calculations}'
  OBVIOUS
<1> QED
  BY <1>1, <1>2 DEF FrameTypeOK

\* One call moves, the others wait.
LEMMA FramesBecome ==
  ASSUME TypeOK, NEW t \in Tasks, NEW frame, Become(t, frame),
         rwa_assets \subseteq rwa_assets', nav_calculations \subseteq nav_calculations',
         FrameTypeOK(t)'
  PROVE  DOMAIN call' = Tasks /\ \A u \in Tasks : FrameTypeOK(u)'
<1>1. DOMAIN call' = Tasks /\ \A u \in Tasks \ {t} : call'[u] = call[u]
  BY DEF Become, TypeOK
<1> QED
  BY <1>1, QuietFrame DEF TypeOK

\* What Become leaves in the frame.
LEMMA BecomeFrame ==
  ASSUME TypeOK, NEW t \in Tasks, NEW frame, Become(t, frame)
  PROVE  call'[t] = frame
BY DEF Become, TypeOK

\* An idle frame is of its type.
LEMMA IdleFrame ==
  ASSUME TypeOK, NEW t \in Tasks, Become(t, Idle)
  PROVE  FrameTypeOK(t)'
<1>1. call'[t] = Idle
  BY BecomeFrame
<1> QED
  BY <1>1 DEF FrameTypeOK, Idle, Reconciling, ReconcileOver

-----------------------------------------------------------------------------
(* register_asset                                                          *)

\* A registration keeps every table and frame of its type.
LEMMA TypeRegister ==
  ASSUME TypeOK, NEW t \in Tasks, RegisterStep(t)
  PROVE  /\ StoreTypeOK' /\ DOMAIN call' = Tasks /\ \A u \in Tasks : FrameTypeOK(u)'
         /\ UNCHANGED nav_calculations
<1>1. ASSUME NEW req \in RegisterRequests, RegisterReplay(t, req)
      PROVE  /\ StoreTypeOK' /\ FrameTypeOK(t)' /\ UNCHANGED asset_tables
             /\ \E frame : Become(t, frame)
  <2>1. PICK row \in AssetsWithKey(req.idempotency_key) :
          Become(t, Registered(req.idempotency_key, row.id))
    BY <1>1 DEF RegisterReplay
  <2>2. call'[t] = Registered(req.idempotency_key, row.id) /\ UNCHANGED asset_tables
    BY <1>1, <2>1, BecomeFrame DEF RegisterReplay
  <2>3. req.idempotency_key \in Keys
    BY AssetAssumption DEF RegisterRequestType
  <2>4. IsRegistered(row.id)'
    BY <2>1, <2>2 DEF IsRegistered, AssetRowsOf, AssetsWithKey, asset_tables
  <2>5. FrameTypeOK(t)'
    BY <2>2, <2>3, <2>4 DEF FrameTypeOK, Registered, Reconciling, ReconcileOver
  <2> QED
    BY <2>1, <2>2, <2>5 DEF TypeOK, StoreTypeOK, asset_tables
<1>2. ASSUME NEW req \in RegisterRequests, RegisterStart(t, req)
      PROVE  /\ StoreTypeOK' /\ FrameTypeOK(t)' /\ UNCHANGED asset_tables
             /\ \E frame : Become(t, frame)
  <2>1. call'[t] = Registering(req) /\ UNCHANGED asset_tables
    BY <1>2, BecomeFrame DEF RegisterStart
  <2> QED
    BY <1>2, <2>1 DEF FrameTypeOK, Registering, Reconciling, ReconcileOver, RegisterStart,
         TypeOK, StoreTypeOK, asset_tables
<1>3. CASE RegisterInsert(t)
  <2> DEFINE req == call[t].req
  <2>1. PICK a \in Assets \ {row.id : row \in rwa_assets} :
          /\ rwa_assets' = rwa_assets \cup {[id |-> a, req |-> req]}
          /\ rwa_asset_status_events' =
               [rwa_asset_status_events EXCEPT ![a] = Append(@, "pending_legal")]
          /\ outbox_events' =
               outbox_events \cup {[event_type |-> "rwa.registered", id |-> a]}
          /\ Become(t, Registered(req.idempotency_key, a))
    BY <1>3 DEF RegisterInsert
  <2>2. UNCHANGED <<legal_wrappers, nav_calculations, ledger_entries>>
    BY <1>3 DEF RegisterInsert
  <2>3. req \in RegisterRequests /\ req.idempotency_key \in Keys
    BY <1>3, AssetAssumption DEF RegisterInsert, TypeOK, FrameTypeOK, RegisterRequestType
  <2>4. rwa_asset_status_events' \in [Assets -> Seq(AssetStatuses)]
    <3>1. rwa_asset_status_events[a] \in Seq(AssetStatuses)
      BY DEF TypeOK, StoreTypeOK
    <3>2. "pending_legal" \in AssetStatuses
      BY DEF AssetStatuses
    <3>3. Append(rwa_asset_status_events[a], "pending_legal") \in Seq(AssetStatuses)
      BY <3>1, <3>2
    <3> QED
      BY <2>1, <3>3 DEF TypeOK, StoreTypeOK
  <2>5. rwa_assets' \subseteq AssetRows
    BY <2>1, <2>3 DEF TypeOK, StoreTypeOK, AssetRows
  <2>6. outbox_events' \subseteq AssetEventRows
    BY <2>1 DEF TypeOK, StoreTypeOK, AssetEventRows
  <2>7. StoreTypeOK'
    BY <2>2, <2>4, <2>5, <2>6 DEF TypeOK, StoreTypeOK
  <2>8. call'[t] = Registered(req.idempotency_key, a)
    BY <2>1, BecomeFrame
  <2>9. IsRegistered(a)'
    <3>1. [id |-> a, req |-> req].id = a /\ [id |-> a, req |-> req] \in rwa_assets'
      BY <2>1
    <3> QED
      BY <3>1 DEF IsRegistered, AssetRowsOf
  <2>10. FrameTypeOK(t)'
    BY <2>3, <2>8, <2>9 DEF FrameTypeOK, Registered, Reconciling, ReconcileOver
  <2> QED
    BY <2>1, <2>2, <2>7, <2>10, FramesBecome
<1> QED
  BY <1>1, <1>2, <1>3, FramesBecome DEF RegisterStep, asset_tables

-----------------------------------------------------------------------------
(* create_legal_wrapper                                                    *)

\* So does the creation of a wrapper.
LEMMA TypeWrap ==
  ASSUME TypeOK, NEW t \in Tasks, WrapStep(t)
  PROVE  /\ StoreTypeOK' /\ DOMAIN call' = Tasks /\ \A u \in Tasks : FrameTypeOK(u)'
         /\ UNCHANGED nav_calculations
<1>1. ASSUME NEW a \in Assets, NEW supply \in WrapperSupplies, WrapBegin(t, a, supply)
      PROVE  /\ StoreTypeOK' /\ FrameTypeOK(t)' /\ UNCHANGED asset_tables
             /\ \E frame : Become(t, frame)
  <2>1. PICK late : Become(t, WrapFrame("wrap_status", a, supply, late))
    BY <1>1 DEF WrapBegin
  <2>2. call'[t] = WrapFrame("wrap_status", a, supply, late)
    BY <2>1, BecomeFrame
  <2>3. UNCHANGED asset_tables /\ IsRegistered(a)'
    BY <1>1 DEF WrapBegin, IsRegistered, AssetRowsOf, asset_tables
  <2>4. FrameTypeOK(t)'
    BY <2>2, <2>3 DEF FrameTypeOK, WrapFrame, Reconciling, ReconcileOver
  <2> QED
    BY <2>1, <2>3, <2>4 DEF TypeOK, StoreTypeOK, asset_tables
<1>2. CASE WrapReadStatus(t)
  <2>1. UNCHANGED asset_tables /\ StoreTypeOK'
    BY <1>2 DEF WrapReadStatus, TypeOK, StoreTypeOK, asset_tables
  <2>2. CASE Become(t, Idle)
    BY <2>1, <2>2, IdleFrame, FramesBecome DEF asset_tables
  <2>3. CASE Become(t, WrapFrame("wrap_commit", call[t].asset_id, call[t].token_supply,
                                 call[t].late))
    <3>1. call'[t] = WrapFrame("wrap_commit", call[t].asset_id, call[t].token_supply,
                               call[t].late)
      BY <2>3, BecomeFrame
    <3>2. IsRegistered(call[t].asset_id) /\ call[t].token_supply \in WrapperSupplies
      BY <1>2 DEF WrapReadStatus, TypeOK, FrameTypeOK
    <3>4. \A a : IsRegistered(a) => IsRegistered(a)'
      BY <2>1 DEF IsRegistered, AssetRowsOf, asset_tables
    <3>3. FrameTypeOK(t)'
      BY <3>1, <3>2, <3>4 DEF FrameTypeOK, WrapFrame, Reconciling, ReconcileOver
    <3> QED
      BY <2>1, <2>3, <3>3, FramesBecome DEF asset_tables
  <2> QED
    BY <1>2, <2>2, <2>3 DEF WrapReadStatus
<1>3. CASE WrapCommit(t)
  <2> DEFINE a == call[t].asset_id
             supply == call[t].token_supply
  <2>1. supply \in WrapperSupplies /\ supply # 0 /\ a \in Assets
    BY <1>3 DEF WrapCommit, TypeOK, FrameTypeOK, IsRegistered, AssetRowsOf, StoreTypeOK,
         AssetRows
  <2>2. PICK id \in WrapperIds :
          /\ legal_wrappers' = legal_wrappers \cup
               {[id |-> id, asset_id |-> a, token_supply |-> supply]}
          /\ outbox_events' = outbox_events \cup
               {[event_type |-> "rwa.legal_wrapper_created", id |-> id]}
    BY <1>3 DEF WrapCommit
  <2>3. /\ rwa_asset_status_events' =
             [rwa_asset_status_events EXCEPT ![a] = Append(@, StatusAfterWrap)]
        /\ Become(t, Idle)
        /\ UNCHANGED <<rwa_assets, nav_calculations, ledger_entries>>
    BY <1>3 DEF WrapCommit
  <2>4. rwa_asset_status_events' \in [Assets -> Seq(AssetStatuses)]
    <3>1. rwa_asset_status_events[a] \in Seq(AssetStatuses)
      BY <2>1 DEF TypeOK, StoreTypeOK
    <3>2. StatusAfterWrap \in AssetStatuses
      BY DEF AssetStatuses, StatusAfterWrap
    <3>3. Append(rwa_asset_status_events[a], StatusAfterWrap) \in Seq(AssetStatuses)
      BY <3>1, <3>2
    <3> QED
      BY <2>3, <3>3 DEF TypeOK, StoreTypeOK
  <2>5. legal_wrappers' \subseteq WrapperRows
    BY <2>1, <2>2 DEF TypeOK, StoreTypeOK, WrapperRows
  <2>6. outbox_events' \subseteq AssetEventRows
    BY <2>2 DEF TypeOK, StoreTypeOK, AssetEventRows
  <2>7. StoreTypeOK'
    BY <2>3, <2>4, <2>5, <2>6 DEF TypeOK, StoreTypeOK
  <2> QED
    BY <2>3, <2>7, IdleFrame, FramesBecome
<1> QED
  BY <1>1, <1>2, <1>3, FramesBecome DEF WrapStep, asset_tables

-----------------------------------------------------------------------------
(* calculate_and_distribute_yield                                          *)

\* The accrued yield of an asset is a natural number.
LEMMA AccruedNat ==
  ASSUME StoreTypeOK, NEW a
  PROVE  AccruedYield(a) \in Nat
<1>1. IsFiniteSet(YieldsOf(a))
  BY FS_Subset DEF StoreTypeOK, YieldsOf
<1>2. \A n \in YieldsOf(a) : YieldAmount[n] \in Nat
  BY DEF StoreTypeOK, YieldsOf, YieldAmount, NavRows
<1> QED
  BY <1>1, <1>2, SumNat DEF AccruedYield

\* So the value derived from it is an integer.
LEMMA DerivedInt ==
  ASSUME StoreTypeOK, NEW a, IsRegistered(a)
  PROVE  BaseValue(a) \in Int /\ DerivedValue(a) \in Int
<1>1. PICK row \in AssetRowsOf(a) : BaseValue(a) = row.req.total_value
  BY DEF IsRegistered, BaseValue
<1>2. row.req \in RegisterRequests
  BY DEF AssetRowsOf, StoreTypeOK, AssetRows
<1>3. row.req.total_value \in Int
  BY <1>2, AssetAssumption DEF RegisterRequestType
<1> QED
  BY <1>1, <1>3, AccruedNat DEF DerivedValue

\* So does a yield; the ledger CHECK is what keeps yields positive.
LEMMA TypeYield ==
  ASSUME TypeOK, NEW t \in Tasks, YieldStep(t)
  PROVE  /\ StoreTypeOK' /\ DOMAIN call' = Tasks /\ \A u \in Tasks : FrameTypeOK(u)'
         /\ nav_calculations \subseteq nav_calculations'
<1>1. ASSUME NEW req \in YieldRequests, YieldReplay(t, req)
      PROVE  /\ StoreTypeOK' /\ FrameTypeOK(t)' /\ UNCHANGED asset_tables
             /\ \E frame : Become(t, frame)
  <2>1. PICK n \in YieldsWithKey(req.idempotency_key) :
          Become(t, Yielded(req.idempotency_key, n.id))
    BY <1>1 DEF YieldReplay
  <2>2. call'[t] = Yielded(req.idempotency_key, n.id) /\ UNCHANGED asset_tables
    BY <1>1, <2>1, BecomeFrame DEF YieldReplay
  <2>3. req.idempotency_key \in Keys
    BY AssetAssumption DEF YieldRequestType
  <2>4. n \in nav_calculations'
    BY <2>1, <2>2 DEF YieldsWithKey, asset_tables
  <2>5. FrameTypeOK(t)'
    BY <2>2, <2>3, <2>4 DEF FrameTypeOK, Yielded, Reconciling, ReconcileOver
  <2> QED
    BY <2>1, <2>2, <2>5 DEF TypeOK, StoreTypeOK, asset_tables
<1>2. ASSUME NEW a \in Assets, NEW req \in YieldRequests, YieldStart(t, a, req)
      PROVE  /\ StoreTypeOK' /\ FrameTypeOK(t)' /\ UNCHANGED asset_tables
             /\ \E frame : Become(t, frame)
  <2>1. call'[t] = YieldFrame("yield_read", a, req, AccruedYield(a), 0)
    BY <1>2, BecomeFrame DEF YieldStart
  <2>2. UNCHANGED asset_tables /\ IsRegistered(a)'
    BY <1>2 DEF YieldStart, IsRegistered, AssetRowsOf, asset_tables
  <2>3. AccruedYield(a) \in Nat
    BY AccruedNat DEF TypeOK
  <2>4. FrameTypeOK(t)'
    BY <2>1, <2>2, <2>3 DEF FrameTypeOK, YieldFrame, Reconciling, ReconcileOver
  <2> QED
    BY <1>2, <2>2, <2>4 DEF YieldStart, TypeOK, StoreTypeOK, asset_tables
<1>3. CASE YieldRead(t)
  <2> DEFINE c == call[t]
  <2>1. /\ IsRegistered(c.asset_id) /\ c.req \in YieldRequests /\ c.asked \in Nat
        /\ c.total_value \in Int
    BY <1>3 DEF YieldRead, TypeOK, FrameTypeOK
  <2>2. DerivedValue(c.asset_id) \in Int
    BY <2>1, DerivedInt DEF TypeOK
  <2>3. call'[t] = YieldFrame("yield_insert", c.asset_id, c.req, c.asked,
                              DerivedValue(c.asset_id))
    BY <1>3, BecomeFrame DEF YieldRead
  <2>4. UNCHANGED asset_tables /\ \A a : IsRegistered(a) => IsRegistered(a)'
    BY <1>3 DEF YieldRead, IsRegistered, AssetRowsOf, asset_tables
  <2>5. FrameTypeOK(t)'
    BY <2>1, <2>2, <2>3, <2>4 DEF FrameTypeOK, YieldFrame, Reconciling, ReconcileOver
  <2> QED
    BY <1>3, <2>4, <2>5, FramesBecome DEF YieldRead, TypeOK, StoreTypeOK, asset_tables
<1>4. CASE YieldInsert(t)
  <2> DEFINE a == call[t].asset_id
             value == call[t].total_value
             yield == DailyYield(value, call[t].req.rate)
             key == call[t].req.idempotency_key
  <2>1. PICK id \in NavIds :
          /\ LedgerCheck(YieldEntries(id, a, yield))
          /\ nav_calculations' = nav_calculations \cup
               {[id |-> id, asset_id |-> a, total_value |-> value,
                 daily_yield |-> yield, idempotency_key |-> key]}
          /\ ledger_entries' = ledger_entries \cup YieldEntries(id, a, yield)
          /\ outbox_events' =
               outbox_events \cup {[event_type |-> "nav.yield_calculated", id |-> id]}
          /\ Become(t, Yielded(key, id))
    BY <1>4 DEF YieldInsert
  <2>2. UNCHANGED <<rwa_assets, rwa_asset_status_events, legal_wrappers>>
    BY <1>4 DEF YieldInsert
  <2>3. /\ a \in Assets /\ value \in Int /\ call[t].req \in YieldRequests
    BY <1>4 DEF YieldInsert, TypeOK, FrameTypeOK, IsRegistered, AssetRowsOf, StoreTypeOK,
         AssetRows
  <2>4. key \in Keys /\ call[t].req.rate \in Int
    BY <2>3, AssetAssumption DEF YieldRequestType
  <2>5. yield \in Nat \ {0}
    <3>1. yield \in Int
      BY <2>3, <2>4 DEF DailyYield, DAYS_PER_YEAR
    <3>2. yield > 0
      <4> DEFINE e == [reference_id |-> id, asset_id |-> a, account |-> "fund:yield",
                       debit |-> yield, credit |-> 0]
      <4>1. e \in YieldEntries(id, a, yield) /\ e.debit = yield /\ e.credit = 0
        BY DEF YieldEntries
      <4>2. (e.debit > 0 /\ e.credit = 0) \/ (e.debit = 0 /\ e.credit > 0)
        BY <2>1, <4>1 DEF LedgerCheck, PositiveAmounts, SingleSide
      <4> QED
        BY <4>1, <4>2
    <3> QED
      BY <3>1, <3>2
  <2> HIDE DEF yield
  <2>6. ledger_entries' \subseteq YieldEntryRows /\ IsFiniteSet(ledger_entries')
    <3>1. YieldEntries(id, a, yield) \subseteq YieldEntryRows
      BY <2>3, <2>5 DEF YieldEntries, YieldEntryRows
    <3>2. IsFiniteSet(YieldEntries(id, a, yield))
      <4>1. PICK x, y : YieldEntries(id, a, yield) = {x, y}
        BY DEF YieldEntries
      <4>2. IsFiniteSet({x} \cup {y})
        BY FS_Singleton, FS_AddElement
      <4>3. {x, y} = {x} \cup {y}
        OBVIOUS
      <4> QED
        BY <4>1, <4>2, <4>3, Zenon
    <3> QED
      BY <2>1, <3>1, <3>2, FS_Union DEF TypeOK, StoreTypeOK
  <2> DEFINE row == [id |-> id, asset_id |-> a, total_value |-> value,
                     daily_yield |-> yield, idempotency_key |-> key]
  <2>7. nav_calculations' = nav_calculations \cup {row} /\ row.id = id
    BY <2>1
  <2>8. row \in NavRows
    BY <2>3, <2>4, <2>5 DEF NavRows
  <2> HIDE DEF row
  <2>9. nav_calculations' \subseteq NavRows /\ IsFiniteSet(nav_calculations')
    BY <2>7, <2>8, FS_AddElement DEF TypeOK, StoreTypeOK
  <2>10. outbox_events' \subseteq AssetEventRows
    BY <2>1 DEF TypeOK, StoreTypeOK, AssetEventRows
  <2>11. StoreTypeOK'
    BY <2>2, <2>6, <2>9, <2>10 DEF TypeOK, StoreTypeOK
  <2>12. call'[t] = Yielded(key, id)
    BY <2>1, BecomeFrame
  <2>13. id \in {n.id : n \in nav_calculations}'
    BY <2>7
  <2>14. FrameTypeOK(t)'
    BY <2>4, <2>12, <2>13 DEF FrameTypeOK, Yielded, Reconciling, ReconcileOver
  <2> QED
    BY <2>1, <2>2, <2>11, <2>14, FramesBecome
<1> QED
  BY <1>1, <1>2, <1>3, <1>4, FramesBecome DEF YieldStep, asset_tables

-----------------------------------------------------------------------------
(* reconcile_asset, and calls that fail                                    *)

\* What is on chain is a natural number, what is requested an integer.
LEMMA SumsTyped ==
  ASSUME CirculationTypeOK, NEW a
  PROVE  /\ Tokens(issued, a) \in Int /\ Tokens(minted, a) \in Nat
         /\ Redeemed(burned, a) \in Nat /\ Redeemed(retired, a) \in Nat
<1>1. /\ minted \subseteq issued /\ IsFiniteSet(issued) /\ IsFiniteSet(burned)
      /\ retired \subseteq burned
      /\ \A m \in issued : MintAmount[m] \in Int
      /\ \A m \in minted : MintAmount[m] \in Nat
      /\ \A r \in burned : RedemptionAmount[r] \in Nat
  BY CirculationAssumption DEF CirculationTypeOK
<1>2. Tokens(issued, a) \in Int
  <2>1. OfAsset(issued, a) \subseteq issued /\ IsFiniteSet(OfAsset(issued, a))
    BY <1>1, FS_Subset DEF OfAsset
  <2> QED
    BY <1>1, <2>1, SumInt DEF Tokens
<1>3. Tokens(minted, a) \in Nat
  <2>1. OfAsset(minted, a) \subseteq minted /\ IsFiniteSet(OfAsset(minted, a))
    BY <1>1, FS_Subset DEF OfAsset
  <2> QED
    BY <1>1, <2>1, SumNat DEF Tokens
<1>4. ASSUME NEW R \in SUBSET burned PROVE Redeemed(R, a) \in Nat
  <2>1. OfAsset(R, a) \subseteq burned /\ IsFiniteSet(OfAsset(R, a))
    BY <1>1, FS_Subset DEF OfAsset
  <2> QED
    BY <1>1, <2>1, SumNat DEF Redeemed
<1> QED
  BY <1>1, <1>2, <1>3, <1>4

\* So are the tokens the rebase has minted.
LEMMA RebasedNat ==
  ASSUME StoreTypeOK, NEW a
  PROVE  Rebased(a) \in Nat
<1> DEFINE R == {n \in YieldsOf(a) : n.id \in rebased}
<1>1. IsFiniteSet(R)
  BY FS_Subset DEF StoreTypeOK, YieldsOf
<1>2. \A n \in R : YieldAmount[n] \in Nat
  BY DEF StoreTypeOK, YieldsOf, YieldAmount, NavRows
<1> QED
  BY <1>1, <1>2, SumNat DEF Rebased

\* So does a reconciliation, which changes no table.
LEMMA TypeReconcile ==
  ASSUME TypeOK, NEW t \in Tasks, ReconcileStep(t)
  PROVE  DOMAIN call' = Tasks /\ (\A u \in Tasks : FrameTypeOK(u)') /\ UNCHANGED asset_tables
<1>1. UNCHANGED asset_tables /\ (\A a : IsRegistered(a) => IsRegistered(a)')
  BY DEF ReconcileStep, IsRegistered, AssetRowsOf, asset_tables
<1> SUFFICES FrameTypeOK(t)' /\ \E frame : Become(t, frame)
  BY <1>1, FramesBecome DEF asset_tables
<1> DEFINE c == call[t]
<1> USE DEF Reconciling, ReconcileOver
<1>2. c.pc \in Reconciling =>
        /\ IsRegistered(c.asset_id) /\ c.total_value \in Int /\ c.total_minted \in Int
        /\ c.total_redeemed \in Int /\ c.onchain_supply \in Int
  BY DEF TypeOK, FrameTypeOK
<1>3. ASSUME NEW a \in Assets, ReconcileStart(t, a)
      PROVE  FrameTypeOK(t)' /\ \E frame : Become(t, frame)
  <2>1. DerivedValue(a) \in Int
    BY <1>3, DerivedInt DEF ReconcileStart, TypeOK
  <2>2. call'[t] = ReconcileFrame("sum_minted", a, DerivedValue(a), 0, 0, 0)
    BY <1>3, BecomeFrame DEF ReconcileStart
  <2> QED
    BY <1>1, <1>3, <2>1, <2>2 DEF ReconcileStart, ReconcileFrame, FrameTypeOK
<1>4. CASE ReconcileMinted(t)
  <2>1. call'[t] = ReconcileFrame("sum_redeemed", c.asset_id, c.total_value,
                                  Tokens(issued, c.asset_id), 0, 0)
    BY <1>4, BecomeFrame DEF ReconcileMinted
  <2>2. Tokens(issued, c.asset_id) \in Int
    BY SumsTyped DEF TypeOK
  <2> QED
    BY <1>1, <1>2, <1>4, <2>1, <2>2 DEF ReconcileMinted, ReconcileFrame, FrameTypeOK
<1>5. CASE ReconcileRedeemed(t)
  <2>1. call'[t] = ReconcileFrame("ask_chain", c.asset_id, c.total_value, c.total_minted,
                                  Redeemed(retired, c.asset_id), 0)
    BY <1>5, BecomeFrame DEF ReconcileRedeemed
  <2>2. Redeemed(retired, c.asset_id) \in Int
    BY SumsTyped DEF TypeOK
  <2> QED
    BY <1>1, <1>2, <1>5, <2>1, <2>2 DEF ReconcileRedeemed, ReconcileFrame, FrameTypeOK
<1>6. CASE ReconcileChain(t)
  <2>1. call'[t] = ReconcileFrame("ask_custodian", c.asset_id, c.total_value,
                                  c.total_minted, c.total_redeemed,
                                  GetTotalSupply(c.asset_id))
    BY <1>6, BecomeFrame DEF ReconcileChain
  <2>2. GetTotalSupply(c.asset_id) \in Int
    BY SumsTyped, RebasedNat DEF TypeOK, GetTotalSupply, ChainSupply
  <2> QED
    BY <1>1, <1>2, <1>6, <2>1, <2>2 DEF ReconcileChain, ReconcileFrame, FrameTypeOK
<1>7. CASE ReconcileCustodian(t)
  <2>1. PICK pc \in {"matched", "alert"} : Become(t, ReconcileOutcome(pc, c))
    BY <1>7 DEF ReconcileCustodian
  <2>2. call'[t] = ReconcileOutcome(pc, c)
    BY <2>1, BecomeFrame
  <2> QED
    BY <1>1, <1>2, <1>7, <2>1, <2>2 DEF ReconcileCustodian, ReconcileOutcome, FrameTypeOK
<1>8. CASE ReconcileAlert(t)
  <2>1. call'[t] = ReconcileOutcome("mismatch", c)
    BY <1>8, BecomeFrame DEF ReconcileAlert
  <2>2. IsRegistered(c.asset_id) /\ c.total_minted \in Int
    BY <1>8 DEF ReconcileAlert, TypeOK, FrameTypeOK
  <2> QED
    BY <1>1, <1>8, <2>1, <2>2 DEF ReconcileAlert, ReconcileOutcome, FrameTypeOK
<1> QED
  BY <1>3, <1>4, <1>5, <1>6, <1>7, <1>8 DEF ReconcileStep

\* So does a call that fails.
LEMMA TypeFail ==
  ASSUME TypeOK, NEW t \in Tasks, TaskFail(t)
  PROVE  DOMAIN call' = Tasks /\ (\A u \in Tasks : FrameTypeOK(u)') /\ UNCHANGED asset_tables
BY IdleFrame, FramesBecome DEF TaskFail, asset_tables

-----------------------------------------------------------------------------
(* The outside.                                                            *)

\* The token services keep the stations of a token in their order.
LEMMA TypeTokens ==
  ASSUME CirculationTypeOK, TokenStep
  PROVE  CirculationTypeOK'
<1>1. ASSUME NEW m \in DOMAIN MintAmount, IssueTokens(m) PROVE CirculationTypeOK'
  BY <1>1, FS_AddElement DEF IssueTokens, Issue, CirculationTypeOK
<1>2. ASSUME NEW m \in DOMAIN MintAmount, MintOnChain(m) PROVE CirculationTypeOK'
  BY <1>2 DEF MintOnChain, CirculationTypeOK
<1>3. ASSUME NEW r \in DOMAIN RedemptionAmount, BurnOnChain(r) PROVE CirculationTypeOK'
  BY <1>3, FS_AddElement DEF BurnOnChain, CirculationTypeOK
<1>4. ASSUME NEW r \in DOMAIN RedemptionAmount, Retire(r) PROVE CirculationTypeOK'
  BY <1>4 DEF Retire, CirculationTypeOK
<1> QED
  BY <1>1, <1>2, <1>3, <1>4 DEF TokenStep

-----------------------------------------------------------------------------
(* The whole system.                                                       *)

\* Every step of the system keeps the type invariant.
LEMMA TypeStep == TypeOK /\ [Next]_vars => TypeOK'
<1> SUFFICES ASSUME TypeOK, [Next]_vars PROVE TypeOK'
  OBVIOUS
<1>1. ASSUME UNCHANGED circulation PROVE CirculationTypeOK'
  BY <1>1 DEF TypeOK, CirculationTypeOK, circulation
<1>2. ASSUME UNCHANGED asset_tables PROVE StoreTypeOK'
  BY <1>2 DEF TypeOK, StoreTypeOK, asset_tables
<1>3. ASSUME UNCHANGED <<asset_tables, call>>
      PROVE  DOMAIN call' = Tasks /\ \A u \in Tasks : FrameTypeOK(u)'
  BY <1>3, QuietFrame DEF TypeOK, asset_tables
<1>4. ASSUME NEW t \in Tasks, ServiceStep(t) PROVE TypeOK'
  <2>1. /\ StoreTypeOK' /\ DOMAIN call' = Tasks /\ \A u \in Tasks : FrameTypeOK(u)'
        /\ nav_calculations \subseteq nav_calculations'
    BY <1>2, <1>4, TypeRegister, TypeWrap, TypeYield, TypeReconcile, TypeFail
       DEF ServiceStep, asset_tables
  <2>2. UNCHANGED circulation /\ rebased' \subseteq {n.id : n \in nav_calculations}'
    BY <1>4, <2>1 DEF ServiceStep, outside, TypeOK
  <2> QED
    BY <1>1, <2>1, <2>2 DEF TypeOK
<1>5. CASE TokenStep
  BY <1>2, <1>3, <1>5, TypeTokens DEF TokenStep, TypeOK, asset_tables
<1>6. CASE RebaseStep
  BY <1>1, <1>2, <1>3, <1>6 DEF RebaseStep, Rebase, TypeOK, asset_tables
<1>7. CASE UNCHANGED vars
  BY <1>1, <1>2, <1>3, <1>7 DEF vars, outside, TypeOK, asset_tables
<1> QED
  BY <1>4, <1>5, <1>6, <1>7 DEF Next

\* The asset services, the circulation of the tokens and the rebase keep every
\* table and every call frame of its type, for all tasks and requests.
THEOREM TypeCorrect == Spec => []TypeOK
BY TypeInit, TypeStep, PTL DEF Spec

-----------------------------------------------------------------------------
(* Registrations, wrappers and yields.                                     *)

\* An asset with a wrapper has left pending_legal, and does not come back.
WrappedIsPastLegal ==
  \A w \in legal_wrappers :
    IsRegistered(w.asset_id) /\ LatestAssetStatus(w.asset_id) = "pending_audit"

\* What a call of create_legal_wrapper would have seen at its beginning stays.
LateMeansWrapped ==
  \A t \in Tasks :
    call[t].pc \in {"wrap_status", "wrap_commit"} /\ call[t].late =>
      WrappersOf(call[t].asset_id) # {}

WrapInv == WrappedIsPastLegal /\ LateMeansWrapped /\ LateWrapIsRefused

\* The yields a call might have asked for are in what it is about to read.
AskedIsAccrued ==
  \A t \in Tasks :
    call[t].pc = "yield_read" => call[t].asked <= AccruedYield(call[t].asset_id)

YieldInv == AskedIsAccrued /\ YieldsCompound

\* What a reconciliation knows so far: what it found settled was burned before it
\* asks the chain, and what its books agree on is on chain, or rebased.
SettledWasBurned ==
  \A t \in Tasks :
    call[t].pc = "ask_chain" =>
      call[t].total_redeemed <= Redeemed(burned, call[t].asset_id)
OnChain(a) == Tokens(minted, a) + Rebased(a)
AgreedIsOnChain ==
  \A t \in Tasks :
    /\ call[t].pc = "ask_custodian" /\ SuppliesAgree(call[t]) =>
         call[t].total_minted <= OnChain(call[t].asset_id)
    /\ call[t].pc = "matched" => call[t].total_minted <= OnChain(call[t].asset_id)

SupplyInv == SettledWasBurned /\ AgreedIsOnChain

\* A ledger row is of a yield on record.
EntriesNameYields ==
  \A e \in ledger_entries : e.reference_id \in {n.id : n \in nav_calculations}

BookInv == EntriesNameYields /\ YieldsAreBooked

-----------------------------------------------------------------------------
(* What a step may change.                                                 *)

\* One call moves, or none does and the tables of the services stay.
LEMMA OneMoves ==
  ASSUME TypeOK, [Next]_vars
  PROVE  \/ UNCHANGED <<asset_tables, call>>
         \/ \E t \in Tasks :
              /\ ServiceStep(t)
              /\ \A u \in Tasks \ {t} : call'[u] = call[u]
<1>1. ASSUME NEW t \in Tasks, ServiceStep(t)
      PROVE  \A u \in Tasks \ {t} : call'[u] = call[u]
  <2>1. \E frame : Become(t, frame)
    BY <1>1 DEF ServiceStep, RegisterStep, RegisterReplay, RegisterStart, RegisterInsert,
         WrapStep, WrapBegin, WrapReadStatus, WrapCommit, YieldStep, YieldReplay,
         YieldStart, YieldRead, YieldInsert, ReconcileStep, ReconcileStart,
         ReconcileMinted, ReconcileRedeemed, ReconcileChain, ReconcileCustodian,
         ReconcileAlert, TaskFail
  <2> QED
    BY <2>1 DEF Become, TypeOK
<1> QED
  BY <1>1 DEF Next, TokenStep, RebaseStep, vars

\* What the insert of a registration leaves.
LEMMA RegisterInserted ==
  ASSUME TypeOK, NEW t \in Tasks, RegisterInsert(t)
  PROVE  \E row :
           /\ rwa_assets' = rwa_assets \cup {row}
           /\ row.req = call[t].req
           /\ ~AssetKeyTaken(row.req.idempotency_key)
           /\ call'[t] = Registered(row.req.idempotency_key, row.id)
<1>1. PICK a : /\ rwa_assets' = rwa_assets \cup {[id |-> a, req |-> call[t].req]}
               /\ ~AssetKeyTaken(call[t].req.idempotency_key)
               /\ Become(t, Registered(call[t].req.idempotency_key, a))
  BY DEF RegisterInsert
<1> DEFINE row == [id |-> a, req |-> call[t].req]
<1>2. row.id = a /\ row.req = call[t].req /\ rwa_assets' = rwa_assets \cup {row}
  BY <1>1
<1> HIDE DEF row
<1> QED
  BY <1>1, <1>2, BecomeFrame

\* What the insert of a yield leaves.
LEMMA YieldInserted ==
  ASSUME TypeOK, NEW t \in Tasks, YieldInsert(t)
  PROVE  \E row :
           /\ nav_calculations' = nav_calculations \cup {row}
           /\ row.idempotency_key = call[t].req.idempotency_key
           /\ ~YieldKeyTaken(row.idempotency_key)
           /\ call'[t] = Yielded(row.idempotency_key, row.id)
<1> DEFINE value == call[t].total_value
           yield == DailyYield(value, call[t].req.rate)
           key == call[t].req.idempotency_key
           Row(id) == [id |-> id, asset_id |-> call[t].asset_id, total_value |-> value,
                       daily_yield |-> yield, idempotency_key |-> key]
<1>1. PICK id : /\ nav_calculations' = nav_calculations \cup {Row(id)}
                /\ ~YieldKeyTaken(key)
                /\ Become(t, Yielded(key, id))
  BY DEF YieldInsert
<1>2. Row(id).id = id /\ Row(id).idempotency_key = key
  OBVIOUS
<1> HIDE DEF Row
<1> QED
  BY <1>1, <1>2, BecomeFrame

\* A step of a call is one of these, and takes the call there.
LEMMA Stations ==
  ASSUME TypeOK, NEW t \in Tasks, ServiceStep(t)
  PROVE  \/ (\E req : RegisterReplay(t, req)) /\ call'[t].pc = "registered"
         \/ (\E req : RegisterStart(t, req)) /\ call'[t].pc = "register_insert"
         \/ RegisterInsert(t) /\ call'[t].pc = "registered"
         \/ (\E a, supply : WrapBegin(t, a, supply)) /\ call'[t].pc = "wrap_status"
         \/ WrapReadStatus(t) /\ call'[t].pc \in {"wrap_commit", "idle"}
         \/ WrapCommit(t) /\ call'[t].pc = "idle"
         \/ (\E a, req : YieldStart(t, a, req)) /\ call'[t].pc = "yield_read"
         \/ (\E req : YieldReplay(t, req)) /\ call'[t].pc = "yielded"
         \/ YieldRead(t) /\ call'[t].pc = "yield_insert"
         \/ YieldInsert(t) /\ call'[t].pc = "yielded"
         \/ (\E a : ReconcileStart(t, a)) /\ call'[t].pc = "sum_minted"
         \/ ReconcileMinted(t) /\ call'[t].pc = "sum_redeemed"
         \/ ReconcileRedeemed(t) /\ call'[t].pc = "ask_chain"
         \/ ReconcileChain(t) /\ call'[t].pc = "ask_custodian"
         \/ ReconcileCustodian(t) /\ call'[t].pc \in {"matched", "alert"}
         \/ ReconcileAlert(t) /\ call'[t].pc = "mismatch"
         \/ TaskFail(t) /\ call'[t].pc = "idle"
<1>1. ASSUME NEW frame, Become(t, frame) PROVE call'[t].pc = frame.pc
  BY <1>1, BecomeFrame
<1>2. /\ \A req : RegisterReplay(t, req) => call'[t].pc = "registered"
      /\ \A req : RegisterStart(t, req) => call'[t].pc = "register_insert"
      /\ RegisterInsert(t) => call'[t].pc = "registered"
  <2>1. ASSUME NEW req, RegisterReplay(t, req) PROVE call'[t].pc = "registered"
    <3>1. \E k, id : Become(t, Registered(k, id))
      BY <2>1 DEF RegisterReplay
    <3> QED
      BY <1>1, <3>1 DEF Registered
  <2>2. ASSUME NEW req, RegisterStart(t, req) PROVE call'[t].pc = "register_insert"
    BY <1>1, <2>2 DEF RegisterStart, Registering
  <2>3. ASSUME RegisterInsert(t) PROVE call'[t].pc = "registered"
    <3>1. \E k, id : call'[t] = Registered(k, id)
      BY <2>3, RegisterInserted
    <3> QED
      BY <3>1 DEF Registered
  <2> QED
    BY <2>1, <2>2, <2>3
<1>3. /\ \A a, supply : WrapBegin(t, a, supply) => call'[t].pc = "wrap_status"
      /\ WrapReadStatus(t) => call'[t].pc \in {"wrap_commit", "idle"}
      /\ WrapCommit(t) => call'[t].pc = "idle"
  BY <1>1 DEF WrapBegin, WrapReadStatus, WrapCommit, WrapFrame, Idle
<1>4. /\ \A req : YieldReplay(t, req) => call'[t].pc = "yielded"
      /\ \A a, req : YieldStart(t, a, req) => call'[t].pc = "yield_read"
      /\ YieldRead(t) => call'[t].pc = "yield_insert"
      /\ YieldInsert(t) => call'[t].pc = "yielded"
  <2>1. ASSUME NEW req, YieldReplay(t, req) PROVE call'[t].pc = "yielded"
    <3>1. \E k, id : Become(t, Yielded(k, id))
      BY <2>1 DEF YieldReplay
    <3> QED
      BY <1>1, <3>1 DEF Yielded
  <2>2. ASSUME NEW a, NEW req, YieldStart(t, a, req) PROVE call'[t].pc = "yield_read"
    BY <1>1, <2>2 DEF YieldStart, YieldFrame
  <2>3. YieldRead(t) => call'[t].pc = "yield_insert"
    BY <1>1 DEF YieldRead, YieldFrame
  <2>4. ASSUME YieldInsert(t) PROVE call'[t].pc = "yielded"
    <3>1. \E k, id : call'[t] = Yielded(k, id)
      BY <2>4, YieldInserted
    <3> QED
      BY <3>1 DEF Yielded
  <2> QED
    BY <2>1, <2>2, <2>3, <2>4
<1>5. /\ \A a : ReconcileStart(t, a) => call'[t].pc = "sum_minted"
      /\ ReconcileMinted(t) => call'[t].pc = "sum_redeemed"
      /\ ReconcileRedeemed(t) => call'[t].pc = "ask_chain"
      /\ ReconcileChain(t) => call'[t].pc = "ask_custodian"
  BY <1>1 DEF ReconcileStart, ReconcileMinted, ReconcileRedeemed, ReconcileChain,
     ReconcileFrame
<1>6. /\ ReconcileCustodian(t) => call'[t].pc \in {"matched", "alert"}
      /\ ReconcileAlert(t) => call'[t].pc = "mismatch"
  BY <1>1 DEF ReconcileCustodian, ReconcileAlert, ReconcileOutcome
<1>7. TaskFail(t) => call'[t].pc = "idle"
  BY <1>1 DEF TaskFail, Idle
<1> QED
  BY <1>2, <1>3, <1>4, <1>5, <1>6, <1>7 DEF ServiceStep, RegisterStep, WrapStep,
     YieldStep, ReconcileStep

\* Only the insert of a registration writes rwa_assets.
LEMMA AssetsChange ==
  ASSUME [Next]_vars, rwa_assets' # rwa_assets
  PROVE  \E t \in Tasks : RegisterInsert(t)
BY DEF Next, ServiceStep, RegisterStep, RegisterReplay, RegisterStart, WrapStep,
   WrapBegin, WrapReadStatus, WrapCommit, YieldStep, YieldReplay, YieldStart, YieldRead,
   YieldInsert, ReconcileStep, TaskFail, TokenStep, RebaseStep, vars, asset_tables

\* Only the insert of a yield writes nav_calculations.
LEMMA YieldsChange ==
  ASSUME [Next]_vars, nav_calculations' # nav_calculations
  PROVE  \E t \in Tasks : YieldInsert(t)
BY DEF Next, ServiceStep, RegisterStep, RegisterReplay, RegisterStart, RegisterInsert,
   WrapStep, WrapBegin, WrapReadStatus, WrapCommit, YieldStep, YieldReplay, YieldStart,
   YieldRead, ReconcileStep, TaskFail, TokenStep, RebaseStep, vars, asset_tables

\* Only the commit of a wrapper writes legal_wrappers.
LEMMA WrappersChange ==
  ASSUME [Next]_vars, legal_wrappers' # legal_wrappers
  PROVE  \E t \in Tasks : WrapCommit(t)
BY DEF Next, ServiceStep, RegisterStep, RegisterReplay, RegisterStart, RegisterInsert,
   WrapStep, WrapBegin, WrapReadStatus, YieldStep, YieldReplay, YieldStart, YieldRead,
   YieldInsert, ReconcileStep, TaskFail, TokenStep, RebaseStep, vars, asset_tables

\* The three tables are append-only, and the row of an asset is immutable.
LEMMA TablesGrow ==
  ASSUME [Next]_vars
  PROVE  /\ rwa_assets \subseteq rwa_assets' /\ legal_wrappers \subseteq legal_wrappers'
         /\ nav_calculations \subseteq nav_calculations'
         /\ \A a : IsRegistered(a) => AssetRowsOf(a)' = AssetRowsOf(a)
<1>1. CASE rwa_assets' # rwa_assets
  <2>1. PICK t \in Tasks : RegisterInsert(t)
    BY <1>1, AssetsChange
  <2>2. PICK a \in Assets \ {row.id : row \in rwa_assets} :
          rwa_assets' = rwa_assets \cup {[id |-> a, req |-> call[t].req]}
    BY <2>1 DEF RegisterInsert
  <2>3. ~IsRegistered(a)
    BY <2>2 DEF IsRegistered, AssetRowsOf
  <2>4. \A b : IsRegistered(b) => AssetRowsOf(b)' = AssetRowsOf(b)
    BY <2>2, <2>3 DEF AssetRowsOf
  <2> QED
    BY <2>1, <2>2, <2>4 DEF RegisterInsert
<1>2. CASE rwa_assets' = rwa_assets
  BY <1>2, YieldsChange, WrappersChange DEF AssetRowsOf, YieldInsert, WrapCommit
<1> QED
  BY <1>1, <1>2

-----------------------------------------------------------------------------
(* KeysNameOneRow.                                                         *)

\* Keys name one row when there are no rows, and no call has returned.
LEMMA KeysInit == Init => KeysNameOneRow
BY DEF Init, StoreInit, Idle, KeysNameOneRow

\* Each step keeps the rows of a key, or inserts the first.
LEMMA KeysStep == TypeOK /\ KeysNameOneRow /\ [Next]_vars => KeysNameOneRow'
<1> SUFFICES ASSUME TypeOK, KeysNameOneRow, [Next]_vars PROVE KeysNameOneRow'
  OBVIOUS
<1>1. \A r, s \in rwa_assets' : r.req.idempotency_key = s.req.idempotency_key => r = s
  <2>1. CASE rwa_assets' = rwa_assets
    BY <2>1 DEF KeysNameOneRow
  <2>2. CASE rwa_assets' # rwa_assets
    <3>1. PICK t \in Tasks : RegisterInsert(t)
      BY <2>2, AssetsChange
    <3>2. PICK row : /\ rwa_assets' = rwa_assets \cup {row}
                     /\ ~AssetKeyTaken(row.req.idempotency_key)
      BY <3>1, RegisterInserted
    <3>3. \A s \in rwa_assets : s.req.idempotency_key # row.req.idempotency_key
      BY <3>2 DEF AssetKeyTaken, AssetsWithKey
    <3> QED
      BY <3>2, <3>3 DEF KeysNameOneRow
  <2> QED
    BY <2>1, <2>2
<1>2. \A n, m \in nav_calculations' : n.idempotency_key = m.idempotency_key => n = m
  <2>1. CASE nav_calculations' = nav_calculations
    BY <2>1 DEF KeysNameOneRow
  <2>2. CASE nav_calculations' # nav_calculations
    <3>1. PICK t \in Tasks : YieldInsert(t)
      BY <2>2, YieldsChange
    <3>2. PICK row : /\ nav_calculations' = nav_calculations \cup {row}
                     /\ ~YieldKeyTaken(row.idempotency_key)
      BY <3>1, YieldInserted
    <3>3. \A n \in nav_calculations : n.idempotency_key # row.idempotency_key
      BY <3>2 DEF YieldKeyTaken, YieldsWithKey
    <3> QED
      BY <3>2, <3>3 DEF KeysNameOneRow
  <2> QED
    BY <2>1, <2>2
<1> DEFINE Answered(u) ==
      /\ call[u].pc = "registered" =>
           call[u].id \in {r.id : r \in AssetsWithKey(call[u].idempotency_key)}
      /\ call[u].pc = "yielded" =>
           call[u].id \in {n.id : n \in YieldsWithKey(call[u].idempotency_key)}
<1>3. ASSUME NEW u \in Tasks, call'[u] = call[u] PROVE Answered(u)'
  BY <1>3, TablesGrow DEF KeysNameOneRow, AssetsWithKey, YieldsWithKey
<1>4. ASSUME NEW t \in Tasks, ServiceStep(t) PROVE Answered(t)'
  <2>1. ASSUME NEW req, RegisterReplay(t, req) PROVE Answered(t)'
    <3>1. PICK row \in AssetsWithKey(req.idempotency_key) :
            Become(t, Registered(req.idempotency_key, row.id))
      BY <2>1 DEF RegisterReplay
    <3>2. call'[t] = Registered(req.idempotency_key, row.id)
      BY <3>1, BecomeFrame
    <3> QED
      BY <3>1, <3>2, <2>1 DEF Registered, AssetsWithKey, RegisterReplay, asset_tables
  <2>2. CASE RegisterInsert(t)
    <3>1. PICK row : /\ rwa_assets' = rwa_assets \cup {row}
                     /\ call'[t] = Registered(row.req.idempotency_key, row.id)
      BY <2>2, RegisterInserted
    <3> QED
      BY <3>1 DEF Registered, AssetsWithKey
  <2>3. ASSUME NEW req, YieldReplay(t, req) PROVE Answered(t)'
    <3>1. PICK n \in YieldsWithKey(req.idempotency_key) :
            Become(t, Yielded(req.idempotency_key, n.id))
      BY <2>3 DEF YieldReplay
    <3>2. call'[t] = Yielded(req.idempotency_key, n.id)
      BY <3>1, BecomeFrame
    <3> QED
      BY <3>1, <3>2, <2>3 DEF Yielded, YieldsWithKey, YieldReplay, asset_tables
  <2>4. CASE YieldInsert(t)
    <3>1. PICK row : /\ nav_calculations' = nav_calculations \cup {row}
                     /\ call'[t] = Yielded(row.idempotency_key, row.id)
      BY <2>4, YieldInserted
    <3> QED
      BY <3>1 DEF Yielded, YieldsWithKey
  <2>5. ASSUME call'[t].pc \notin {"registered", "yielded"} PROVE Answered(t)'
    BY <2>5
  <2> HIDE DEF Answered
  <2> QED
    BY <1>4, <2>1, <2>2, <2>3, <2>4, <2>5, Stations
<1>5. \A u \in Tasks : Answered(u)'
  BY <1>3, <1>4, OneMoves
<1> QED
  BY <1>1, <1>2, <1>5 DEF KeysNameOneRow

\* A retried registration or yield is answered with the one row of its key, also
\* when calls with the key ran at the same time, for all tasks and requests.
THEOREM KeysAreUnique == Spec => []KeysNameOneRow
BY KeysInit, KeysStep, TypeCorrect, PTL DEF Spec

-----------------------------------------------------------------------------
(* LateWrapIsRefused.                                                      *)

\* There are no wrappers and no calls at first.
LEMMA WrapInit == Init => WrapInv
BY DEF Init, StoreInit, Idle, WrapInv, WrappedIsPastLegal, LateMeansWrapped,
   LateWrapIsRefused

\* Appending a status makes it the latest.
LEMMA LatestAppended ==
  ASSUME StoreTypeOK, NEW a \in Assets, NEW status \in AssetStatuses,
         rwa_asset_status_events' =
           [rwa_asset_status_events EXCEPT ![a] = Append(@, status)]
  PROVE  /\ LatestAssetStatus(a)' = status
         /\ \A b \in Assets \ {a} : LatestAssetStatus(b)' = LatestAssetStatus(b)
<1>1. rwa_asset_status_events \in [Assets -> Seq(AssetStatuses)]
  BY DEF StoreTypeOK
<1>2. rwa_asset_status_events'[a] = Append(rwa_asset_status_events[a], status)
  BY <1>1
<1>3. \A b \in Assets \ {a} : rwa_asset_status_events'[b] = rwa_asset_status_events[b]
  BY <1>1
<1>4. rwa_asset_status_events[a] \in Seq(AssetStatuses)
  BY <1>1
<1> QED
  BY <1>2, <1>3, <1>4 DEF LatestAssetStatus

\* Wrappers are for assets on record, and their status stays.
LEMMA WrappedStep ==
  ASSUME TypeOK, WrappedIsPastLegal, [Next]_vars
  PROVE  WrappedIsPastLegal'
<1>1. \A w \in legal_wrappers : w.asset_id \in Assets
  BY DEF TypeOK, StoreTypeOK, WrapperRows
<1>2. \A a : IsRegistered(a) => IsRegistered(a)'
  BY TablesGrow DEF IsRegistered
<1>3. ASSUME NEW t \in Tasks, RegisterInsert(t) PROVE WrappedIsPastLegal'
  <2>1. PICK a \in Assets \ {row.id : row \in rwa_assets} :
          rwa_asset_status_events' =
            [rwa_asset_status_events EXCEPT ![a] = Append(@, "pending_legal")]
    BY <1>3 DEF RegisterInsert
  <2>2. ~IsRegistered(a)
    BY <2>1 DEF IsRegistered, AssetRowsOf
  <2>3. \A b \in Assets \ {a} : LatestAssetStatus(b)' = LatestAssetStatus(b)
    BY <2>1, LatestAppended DEF TypeOK, AssetStatuses
  <2>4. legal_wrappers' = legal_wrappers
    BY <1>3 DEF RegisterInsert
  <2> QED
    BY <1>1, <1>2, <2>2, <2>3, <2>4 DEF WrappedIsPastLegal
<1>4. ASSUME NEW t \in Tasks, WrapCommit(t) PROVE WrappedIsPastLegal'
  <2>1. PICK a : a = call[t].asset_id /\ IsRegistered(a)
    BY <1>4 DEF WrapCommit, TypeOK, FrameTypeOK
  <2>2. a \in Assets
    BY <2>1 DEF IsRegistered, AssetRowsOf, TypeOK, StoreTypeOK, AssetRows
  <2>3. rwa_asset_status_events' =
          [rwa_asset_status_events EXCEPT ![a] = Append(@, "pending_audit")]
    BY <1>4, <2>1 DEF WrapCommit, StatusAfterWrap
  <2>4. /\ LatestAssetStatus(a)' = "pending_audit"
        /\ \A b \in Assets \ {a} : LatestAssetStatus(b)' = LatestAssetStatus(b)
    BY <2>2, <2>3, LatestAppended DEF TypeOK, AssetStatuses
  <2>5. PICK id : legal_wrappers' = legal_wrappers \cup
                    {[id |-> id, asset_id |-> a, token_supply |-> call[t].token_supply]}
    BY <1>4, <2>1 DEF WrapCommit
  <2>6. \A w \in legal_wrappers' : w \in legal_wrappers \/ w.asset_id = a
    BY <2>5
  <2> QED
    BY <1>1, <1>2, <2>1, <2>4, <2>6 DEF WrappedIsPastLegal
<1>5. ASSUME UNCHANGED <<rwa_asset_status_events, legal_wrappers>>
      PROVE  WrappedIsPastLegal'
  BY <1>2, <1>5 DEF WrappedIsPastLegal, LatestAssetStatus
<1>6. \/ \E t \in Tasks : RegisterInsert(t) \/ WrapCommit(t)
      \/ UNCHANGED <<rwa_asset_status_events, legal_wrappers>>
  BY DEF Next, ServiceStep, RegisterStep, RegisterReplay, RegisterStart, WrapStep,
     WrapBegin, WrapReadStatus, YieldStep, YieldReplay, YieldStart, YieldRead,
     YieldInsert, ReconcileStep, TaskFail, TokenStep, RebaseStep, vars, asset_tables
<1> QED
  BY <1>3, <1>4, <1>5, <1>6

\* A late call finds the status moved, whoever moved it.
LEMMA WrapStepInv == TypeOK /\ WrapInv /\ [Next]_vars => WrapInv'
<1> SUFFICES ASSUME TypeOK, WrapInv, [Next]_vars PROVE WrapInv'
  OBVIOUS
<1> DEFINE Frame(u) ==
      /\ call[u].pc \in {"wrap_status", "wrap_commit"} /\ call[u].late =>
           WrappersOf(call[u].asset_id) # {}
      /\ call[u].pc = "wrap_commit" => ~call[u].late
<1>1. \A a : WrappersOf(a) # {} => WrappersOf(a)' # {}
  BY TablesGrow DEF WrappersOf
<1>2. \A u \in Tasks : Frame(u)
  BY DEF WrapInv, LateMeansWrapped, LateWrapIsRefused
<1>3. ASSUME NEW u \in Tasks, call'[u] = call[u] PROVE Frame(u)'
  BY <1>1, <1>2, <1>3
<1>4. ASSUME NEW t \in Tasks, ServiceStep(t) PROVE Frame(t)'
  <2>1. ASSUME NEW a, NEW supply, WrapBegin(t, a, supply) PROVE Frame(t)'
    <3>1. call'[t] = WrapFrame("wrap_status", a, supply, WrappersOf(a) # {})
      BY <2>1, BecomeFrame DEF WrapBegin
    <3>2. call'[t].pc = "wrap_status" /\ call'[t].asset_id = a
          /\ call'[t].late = (WrappersOf(a) # {})
      BY <3>1 DEF WrapFrame
    <3> QED
      BY <1>1, <3>2
  <2>2. CASE WrapReadStatus(t)
    <3>1. call[t].pc = "wrap_status" /\ (call[t].late => WrappersOf(call[t].asset_id) # {})
      BY <1>2, <2>2 DEF WrapReadStatus
    <3>2. CASE Become(t, Idle)
      <4>1. call'[t].pc = "idle"
        BY <3>2, BecomeFrame DEF Idle
      <4> QED
        BY <4>1
    <3>3. CASE /\ LatestAssetStatus(call[t].asset_id) = "pending_legal"
               /\ Become(t, WrapFrame("wrap_commit", call[t].asset_id,
                                      call[t].token_supply, call[t].late))
      <4>1. WrappersOf(call[t].asset_id) = {}
        BY <3>3 DEF WrapInv, WrappedIsPastLegal, WrappersOf
      <4>2. ~call[t].late
        BY <3>1, <4>1
      <4>3. call'[t].late = call[t].late
        BY <3>3, BecomeFrame DEF WrapFrame
      <4> QED
        BY <4>2, <4>3
    <3> QED
      BY <2>2, <3>2, <3>3 DEF WrapReadStatus
  <2>3. CASE call'[t].pc \notin {"wrap_status", "wrap_commit"}
    BY <2>3
  <2> QED
    BY <1>4, <2>1, <2>2, <2>3, Stations
<1>5. \A u \in Tasks : Frame(u)'
  BY <1>3, <1>4, OneMoves
<1>6. WrappedIsPastLegal'
  BY WrappedStep DEF WrapInv
<1> QED
  BY <1>5, <1>6 DEF WrapInv, LateMeansWrapped, LateWrapIsRefused

\* A call of create_legal_wrapper that began after a wrapper of its asset was
\* committed inserts none, for all tasks, assets and supplies.
THEOREM LateWrapRefused == Spec => []LateWrapIsRefused
<1>1. WrapInv => LateWrapIsRefused
  BY DEF WrapInv
<1> QED
  BY <1>1, WrapInit, WrapStepInv, TypeCorrect, PTL DEF Spec

-----------------------------------------------------------------------------
(* WrappersAreBounded: every wrapper after the first is of a call that was *)
(* past the check when the first one was committed.                        *)

FinitelyWrapped == \A a \in Assets : IsFiniteSet(WrappersOf(a))

CountInv == FinitelyWrapped /\ WrappersAreBounded

\* Calls under way are finitely many, and one that leaves them is one less.
LEMMA CallsOfTasks ==
  ASSUME NEW S \in SUBSET Tasks, NEW P \in SUBSET S
  PROVE  /\ IsFiniteSet(S)
         /\ Cardinality(S) \in Nat /\ Cardinality(P) \in Nat
         /\ Cardinality(P) <= Cardinality(S)
         /\ \A t \in S : t \notin P => Cardinality(P) + 1 <= Cardinality(S)
<1>1. IsFiniteSet(S) /\ IsFiniteSet(P)
  BY AssetAssumption, FS_Subset
<1>2. Cardinality(S) \in Nat /\ Cardinality(P) \in Nat
  BY <1>1, FS_CardinalityType
<1>3. Cardinality(P) <= Cardinality(S)
  BY <1>1, FS_Subset
<1>4. ASSUME NEW t \in S, t \notin P
      PROVE  Cardinality(P) + 1 <= Cardinality(S)
  <2>1. IsFiniteSet(P \cup {t}) /\ Cardinality(P \cup {t}) = Cardinality(P) + 1
    BY <1>1, <1>4, FS_AddElement
  <2>2. P \cup {t} \subseteq S
    BY <1>4
  <2> QED
    BY <1>1, <2>1, <2>2, FS_Subset
<1> QED
  BY <1>1, <1>2, <1>3, <1>4

\* Who comes to the commit of a wrapper found pending_legal, and who leaves it
\* commits or fails.
LEMMA WrappingMoves ==
  ASSUME TypeOK, [Next]_vars, NEW a \in Assets
  PROVE  \/ /\ WrappersOf(a)' = WrappersOf(a)
            /\ Wrapping(a)' \subseteq Wrapping(a)
         \/ /\ WrappersOf(a)' = WrappersOf(a)
            /\ LatestAssetStatus(a) = "pending_legal"
         \/ \E t \in Wrapping(a) : \E w :
              /\ w.asset_id = a
              /\ WrappersOf(a)' = WrappersOf(a) \cup {w}
              /\ Wrapping(a)' \subseteq Wrapping(a) \ {t}
<1>1. CASE UNCHANGED <<asset_tables, call>>
  BY <1>1 DEF asset_tables, WrappersOf, Wrapping
<1>2. ASSUME NEW t \in Tasks, ServiceStep(t), \A u \in Tasks \ {t} : call'[u] = call[u]
      PROVE  \/ /\ WrappersOf(a)' = WrappersOf(a)
                /\ Wrapping(a)' \subseteq Wrapping(a)
             \/ /\ WrappersOf(a)' = WrappersOf(a)
                /\ LatestAssetStatus(a) = "pending_legal"
             \/ \E u \in Wrapping(a) : \E w :
                  /\ w.asset_id = a
                  /\ WrappersOf(a)' = WrappersOf(a) \cup {w}
                  /\ Wrapping(a)' \subseteq Wrapping(a) \ {u}
  <2>1. CASE WrapCommit(t)
    <3>1. PICK id : legal_wrappers' = legal_wrappers \cup
            {[id |-> id, asset_id |-> call[t].asset_id, token_supply |-> call[t].token_supply]}
      BY <2>1 DEF WrapCommit
    <3>2. PICK w : w = [id |-> id, asset_id |-> call[t].asset_id,
                        token_supply |-> call[t].token_supply]
      OBVIOUS
    <3>3. w.asset_id = call[t].asset_id /\ legal_wrappers' = legal_wrappers \cup {w}
      BY <3>1, <3>2
    <3>4. call'[t].pc = "idle"
      BY <2>1, BecomeFrame DEF WrapCommit, Idle
    <3>5. Wrapping(a)' \subseteq Wrapping(a) \ {t}
      BY <1>2, <3>4 DEF Wrapping
    <3>6. CASE call[t].asset_id = a
      <4>1. t \in Wrapping(a)
        BY <2>1, <3>6 DEF Wrapping, WrapCommit
      <4>2. WrappersOf(a)' = WrappersOf(a) \cup {w}
        BY <3>3, <3>6 DEF WrappersOf
      <4> QED
        BY <3>3, <3>5, <3>6, <4>1, <4>2
    <3>7. CASE call[t].asset_id # a
      <4>1. WrappersOf(a)' = WrappersOf(a)
        BY <3>3, <3>7 DEF WrappersOf
      <4> QED
        BY <3>5, <4>1
    <3> QED
      BY <3>6, <3>7
  <2>2. CASE WrapReadStatus(t)
    <3>1. WrappersOf(a)' = WrappersOf(a)
      BY <2>2 DEF WrapReadStatus, asset_tables, WrappersOf
    <3>2. CASE LatestAssetStatus(call[t].asset_id) = "pending_legal"
      <4>1. call'[t] = WrapFrame("wrap_commit", call[t].asset_id, call[t].token_supply,
                                 call[t].late)
        BY <2>2, <3>2, BecomeFrame DEF WrapReadStatus
      <4>2. call'[t].asset_id = call[t].asset_id
        BY <4>1 DEF WrapFrame
      <4>3. CASE call[t].asset_id = a
        BY <3>1, <3>2, <4>3
      <4>4. CASE call[t].asset_id # a
        BY <1>2, <3>1, <4>2, <4>4 DEF Wrapping
      <4> QED
        BY <4>3, <4>4
    <3>3. CASE LatestAssetStatus(call[t].asset_id) # "pending_legal"
      <4>1. call'[t].pc = "idle"
        BY <2>2, <3>3, BecomeFrame DEF WrapReadStatus, Idle
      <4> QED
        BY <1>2, <3>1, <4>1 DEF Wrapping
    <3> QED
      BY <3>2, <3>3
  <2>3. CASE ~WrapCommit(t) /\ ~WrapReadStatus(t)
    <3>1. call'[t].pc # "wrap_commit"
      BY <1>2, <2>3, Stations
    <3>2. Wrapping(a)' \subseteq Wrapping(a)
      BY <1>2, <3>1 DEF Wrapping
    <3>3. legal_wrappers' = legal_wrappers
      BY <1>2, <2>3 DEF ServiceStep, RegisterStep, RegisterReplay, RegisterStart,
         RegisterInsert, WrapStep, WrapBegin, YieldStep, YieldReplay, YieldStart,
         YieldRead, YieldInsert, ReconcileStep, ReconcileStart, ReconcileMinted,
         ReconcileRedeemed, ReconcileChain, ReconcileCustodian, ReconcileAlert,
         TaskFail, asset_tables
    <3> QED
      BY <3>2, <3>3 DEF WrappersOf
  <2> QED
    BY <2>1, <2>2, <2>3
<1> QED
  BY <1>1, <1>2, OneMoves

\* There are no wrappers at first, and no call is about to insert one.
LEMMA CountInit == Init => CountInv
<1> SUFFICES ASSUME Init PROVE CountInv
  OBVIOUS
<1>1. \A a \in Assets : WrappersOf(a) = {} /\ Wrapping(a) = {}
  BY DEF Init, StoreInit, Idle, WrappersOf, Wrapping
<1>2. Cardinality(Tasks) \in Nat
  BY AssetAssumption, FS_CardinalityType
<1>3. IsFiniteSet({}) /\ Cardinality({}) = 0
  BY FS_EmptySet
<1>4. Cardinality({}) + Cardinality({}) <= Cardinality(Tasks)
  BY <1>2, <1>3
<1> QED
  BY <1>1, <1>3, <1>4 DEF CountInv, FinitelyWrapped, WrappersAreBounded

\* A call past the check turns into a wrapper; while there is one nobody passes.
LEMMA CountStep == TypeOK /\ WrapInv /\ CountInv /\ [Next]_vars => CountInv'
<1> SUFFICES ASSUME TypeOK, WrapInv, CountInv, [Next]_vars, NEW a \in Assets
             PROVE  /\ IsFiniteSet(WrappersOf(a)')
                    /\ Cardinality(WrappersOf(a)') + Cardinality(Wrapping(a)')
                         <= Cardinality(Tasks)
  BY DEF CountInv, FinitelyWrapped, WrappersAreBounded
<1>1. /\ IsFiniteSet(WrappersOf(a)) /\ Cardinality(WrappersOf(a)) \in Nat
      /\ Cardinality(WrappersOf(a)) + Cardinality(Wrapping(a)) <= Cardinality(Tasks)
  BY FS_CardinalityType DEF CountInv, FinitelyWrapped, WrappersAreBounded
<1>2. Wrapping(a) \subseteq Tasks /\ Wrapping(a)' \subseteq Tasks
  BY DEF Wrapping
<1>3. /\ Cardinality(Tasks) \in Nat
      /\ Cardinality(Wrapping(a)) \in Nat /\ Cardinality(Wrapping(a)') \in Nat
      /\ Cardinality(Wrapping(a)') <= Cardinality(Tasks)
  BY <1>2, CallsOfTasks
<1>4. CASE /\ WrappersOf(a)' = WrappersOf(a)
           /\ Wrapping(a)' \subseteq Wrapping(a)
  <2>1. Cardinality(Wrapping(a)') <= Cardinality(Wrapping(a))
    BY <1>2, <1>4, CallsOfTasks
  <2> QED
    BY <1>1, <1>3, <1>4, <2>1
<1>5. CASE /\ WrappersOf(a)' = WrappersOf(a)
           /\ LatestAssetStatus(a) = "pending_legal"
  <2>1. WrappersOf(a) = {}
    BY <1>5 DEF WrapInv, WrappedIsPastLegal, WrappersOf
  <2>2. Cardinality(WrappersOf(a)') = 0
    BY <1>5, <2>1, FS_EmptySet
  <2> QED
    BY <1>1, <1>3, <1>5, <2>2
<1>6. ASSUME NEW t \in Wrapping(a), NEW w, WrappersOf(a)' = WrappersOf(a) \cup {w},
             Wrapping(a)' \subseteq Wrapping(a) \ {t}
      PROVE  /\ IsFiniteSet(WrappersOf(a)')
             /\ Cardinality(WrappersOf(a)') + Cardinality(Wrapping(a)')
                  <= Cardinality(Tasks)
  <2>1. /\ IsFiniteSet(WrappersOf(a)')
        /\ Cardinality(WrappersOf(a)') \in Nat
        /\ Cardinality(WrappersOf(a)') <= Cardinality(WrappersOf(a)) + 1
    <3>1. PICK W : W = WrappersOf(a)
      OBVIOUS
    <3>2. IsFiniteSet(W \cup {w}) /\ Cardinality(W \cup {w}) \in Nat
      BY <1>1, <3>1, FS_AddElement, FS_CardinalityType
    <3>3. Cardinality(W \cup {w}) <= Cardinality(W) + 1
      <4>1. IsFiniteSet(W) /\ Cardinality(W) \in Nat
        BY <1>1, <3>1
      <4>2. Cardinality(W \cup {w}) \in {Cardinality(W), Cardinality(W) + 1}
        BY <4>1, FS_AddElement
      <4> QED
        BY <4>1, <4>2
    <3> QED
      BY <1>6, <3>1, <3>2, <3>3, Zenon
  <2>2. Cardinality(Wrapping(a)') + 1 <= Cardinality(Wrapping(a))
    BY <1>2, <1>6, CallsOfTasks
  <2> QED
    BY <1>1, <1>3, <2>1, <2>2
<1> QED
  BY <1>4, <1>5, <1>6, WrappingMoves

\* The invariants of the wrappers, together.
LEMMA WrapperInvariant == Spec => [](WrapInv /\ CountInv)
BY WrapInit, WrapStepInv, CountInit, CountStep, TypeCorrect, PTL DEF Spec

\* The wrappers of an asset, and the calls about to insert another, are never
\* more than the tasks: the unlocked check of create_legal_wrapper fails once for
\* each task at most, for all tasks, assets and supplies.
THEOREM WrappersBounded == Spec => []WrappersAreBounded
<1>1. CountInv => WrappersAreBounded
  BY DEF CountInv
<1> QED
  BY <1>1, WrapperInvariant, PTL

\* An asset has one legal wrapper, as mint_tokens takes it to have.
OneWrapperEach == \A a \in Assets : \A v, w \in WrappersOf(a) : v = w

\* With a single task, or callers that wait for each other, the unlocked check of
\* create_legal_wrapper is enough: no asset gets a second wrapper.
THEOREM SingleTaskWrapsOnce ==
  ASSUME \A t, u \in Tasks : t = u
  PROVE  Spec => []OneWrapperEach
<1>1. ASSUME CountInv PROVE OneWrapperEach
  <2>1. SUFFICES ASSUME NEW a \in Assets, NEW v \in WrappersOf(a),
                        NEW w \in WrappersOf(a), v # w
                 PROVE  FALSE
    BY DEF OneWrapperEach
  <2>2. IsFiniteSet(WrappersOf(a)) /\ Cardinality(WrappersOf(a)) \in Nat
    BY <1>1, FS_CardinalityType DEF CountInv, FinitelyWrapped
  <2>3. Cardinality(WrappersOf(a)) >= 2
    <3>1. Cardinality(WrappersOf(a)) # 0 /\ Cardinality(WrappersOf(a)) # 1
      BY <2>1, <2>2, FS_EmptySet, FS_Singleton
    <3> QED
      BY <2>2, <3>1
  <2>4. Cardinality(Tasks) <= 1
    <3>1. CASE Tasks = {}
      BY <3>1, FS_EmptySet
    <3>2. ASSUME NEW t \in Tasks PROVE Cardinality(Tasks) <= 1
      <4>1. Tasks = {t}
        OBVIOUS
      <4> QED
        BY <4>1, FS_Singleton
    <3> QED
      BY <3>1, <3>2
  <2>5. Wrapping(a) \subseteq Tasks
    BY DEF Wrapping
  <2>6. Cardinality(Wrapping(a)) \in Nat /\ Cardinality(Tasks) \in Nat
    BY <2>5, CallsOfTasks
  <2>7. Cardinality(WrappersOf(a)) + Cardinality(Wrapping(a)) <= Cardinality(Tasks)
    BY <1>1 DEF CountInv, WrappersAreBounded
  <2> QED
    BY <2>2, <2>3, <2>4, <2>6, <2>7
<1> QED
  BY <1>1, WrapperInvariant, PTL

-----------------------------------------------------------------------------
(* YieldsCompound.                                                         *)

\* No call runs at first.
LEMMA YieldInit == Init => YieldInv
BY DEF Init, StoreInit, Idle, YieldInv, AskedIsAccrued, YieldsCompound

\* The accrued yield of an asset never falls, and its base value stays.
LEMMA AccruedGrows ==
  ASSUME TypeOK, TypeOK', [Next]_vars, NEW a
  PROVE  /\ AccruedYield(a) \in Nat /\ AccruedYield(a)' \in Nat
         /\ AccruedYield(a) <= AccruedYield(a)'
         /\ IsRegistered(a) => BaseValue(a)' = BaseValue(a)
<1> DEFINE R == YieldsOf(a)
           f == YieldAmount
           S == YieldsOf(a)'
           g == YieldAmount'
<1>1. IsFiniteSet(S) /\ \A n \in S : g[n] \in Nat
  BY FS_Subset DEF TypeOK, StoreTypeOK, YieldsOf, YieldAmount, NavRows
<1>2. R \subseteq S /\ \A n \in R : f[n] = g[n]
  BY TablesGrow DEF YieldsOf, YieldAmount
<1>3. AccruedYield(a) = SumOver(f, R) /\ AccruedYield(a)' = SumOver(g, S)
  BY DEF AccruedYield
<1> HIDE DEF R, S, f, g
<1>4. IsFiniteSet(R)
  BY <1>1, <1>2, FS_Subset
<1>5. SumOver(f, R) = SumOver(g, R) /\ SumOver(g, R) <= SumOver(g, S)
  BY <1>1, <1>2, <1>4, SumAgree, SumMonotone
<1>6. AccruedYield(a) \in Nat /\ AccruedYield(a)' \in Nat
  BY <1>1, <1>3, AccruedNat, SumNat DEF TypeOK
<1>7. IsRegistered(a) => BaseValue(a)' = BaseValue(a)
  <2>1. ASSUME IsRegistered(a) PROVE AssetRowsOf(a)' = AssetRowsOf(a)
    BY <2>1, TablesGrow
  <2> QED
    BY <2>1, Zenon DEF BaseValue
<1> QED
  BY <1>3, <1>5, <1>6, <1>7

\* What a call reads lies between what it could have asked for and what is there.
LEMMA YieldStepInv == TypeOK /\ TypeOK' /\ YieldInv /\ [Next]_vars => YieldInv'
<1> SUFFICES ASSUME TypeOK, TypeOK', YieldInv, [Next]_vars PROVE YieldInv'
  OBVIOUS
<1> DEFINE Frame(u) ==
      /\ call[u].pc = "yield_read" => call[u].asked <= AccruedYield(call[u].asset_id)
      /\ call[u].pc = "yield_insert" =>
           /\ BaseValue(call[u].asset_id) + call[u].asked <= call[u].total_value
           /\ call[u].total_value <=
                BaseValue(call[u].asset_id) + AccruedYield(call[u].asset_id)
<1>1. \A u \in Tasks : Frame(u)
  BY DEF YieldInv, AskedIsAccrued, YieldsCompound
<1>2. ASSUME NEW u \in Tasks, call'[u] = call[u] PROVE Frame(u)'
  <2>1. CASE call[u].pc \in {"yield_read", "yield_insert"}
    <3>1. PICK a : a = call[u].asset_id
      OBVIOUS
    <3>2. IsRegistered(a) /\ call[u].asked \in Nat /\ call[u].total_value \in Int
      BY <2>1, <3>1 DEF TypeOK, FrameTypeOK
    <3>3. BaseValue(a) \in Int /\ BaseValue(a)' = BaseValue(a)
      BY <3>2, DerivedInt, AccruedGrows DEF TypeOK
    <3>4. /\ AccruedYield(a) \in Nat /\ AccruedYield(a)' \in Nat
          /\ AccruedYield(a) <= AccruedYield(a)'
      BY AccruedGrows
    <3>5. /\ call[u].pc = "yield_read" => call[u].asked <= AccruedYield(a)
          /\ call[u].pc = "yield_insert" =>
               /\ BaseValue(a) + call[u].asked <= call[u].total_value
               /\ call[u].total_value <= BaseValue(a) + AccruedYield(a)
      BY <1>1, <3>1
    <3>6. /\ call[u].pc = "yield_read" => call[u].asked <= AccruedYield(a)'
          /\ call[u].pc = "yield_insert" =>
               /\ BaseValue(a)' + call[u].asked <= call[u].total_value
               /\ call[u].total_value <= BaseValue(a)' + AccruedYield(a)'
      BY <3>2, <3>3, <3>4, <3>5
    <3> QED
      BY <1>2, <3>1, <3>6
  <2>2. CASE call[u].pc \notin {"yield_read", "yield_insert"}
    BY <1>2, <2>2
  <2> QED
    BY <2>1, <2>2
<1>3. ASSUME NEW t \in Tasks, ServiceStep(t) PROVE Frame(t)'
  <2>1. ASSUME NEW a, NEW req, YieldStart(t, a, req) PROVE Frame(t)'
    <3>1. /\ call'[t].pc = "yield_read" /\ call'[t].asset_id = a
          /\ call'[t].asked = AccruedYield(a)
      BY <2>1, BecomeFrame DEF YieldStart, YieldFrame
    <3>2. AccruedYield(a) \in Nat /\ AccruedYield(a)' = AccruedYield(a)
      BY <2>1, AccruedNat DEF YieldStart, asset_tables, TypeOK, AccruedYield, YieldsOf,
         YieldAmount
    <3> QED
      BY <3>1, <3>2
  <2>2. CASE YieldRead(t)
    <3>1. PICK a : a = call[t].asset_id /\ IsRegistered(a) /\ call[t].asked \in Nat
      BY <2>2 DEF YieldRead, TypeOK, FrameTypeOK
    <3>2. /\ call'[t].pc = "yield_insert" /\ call'[t].asset_id = a
          /\ call'[t].asked = call[t].asked /\ call'[t].total_value = DerivedValue(a)
      BY <2>2, <3>1, BecomeFrame DEF YieldRead, YieldFrame
    <3>3. AccruedYield(a)' = AccruedYield(a) /\ BaseValue(a)' = BaseValue(a)
      BY <2>2, <3>1, AccruedGrows DEF YieldRead, asset_tables, AccruedYield, YieldsOf,
         YieldAmount
    <3>4. AccruedYield(a) \in Nat /\ BaseValue(a) \in Int
      BY <3>1, AccruedNat, DerivedInt DEF TypeOK
    <3>5. call[t].asked <= AccruedYield(a)
      BY <1>1, <2>2, <3>1 DEF YieldRead
    <3>6. /\ BaseValue(a) + call[t].asked <= DerivedValue(a)
          /\ DerivedValue(a) <= BaseValue(a) + AccruedYield(a)
      BY <3>1, <3>4, <3>5 DEF DerivedValue
    <3> QED
      BY <3>2, <3>3, <3>6
  <2>3. CASE call'[t].pc \notin {"yield_read", "yield_insert"}
    BY <2>3
  <2> HIDE DEF Frame
  <2> QED
    BY <1>3, <2>1, <2>2, <2>3, Stations
<1> HIDE DEF Frame
<1>4. \A u \in Tasks : Frame(u)'
  BY <1>2, <1>3, OneMoves
<1> QED
  BY <1>4 DEF Frame, YieldInv, AskedIsAccrued, YieldsCompound

\* A yield is calculated on all that was committed before its call, and on nothing
\* that is not committed when it is booked, for all tasks, assets and rates.
THEOREM YieldsDoCompound == Spec => []YieldsCompound
<1>1. YieldInv => YieldsCompound
  BY DEF YieldInv
<1> QED
  BY <1>1, YieldInit, YieldStepInv, TypeCorrect, PTL DEF Spec

-----------------------------------------------------------------------------
(* PassedBoundsTheMissing.                                                 *)

\* No call runs at first.
LEMMA SupplyInit == Init => SupplyInv
BY DEF Init, StoreInit, Idle, SupplyInv, SettledWasBurned, AgreedIsOnChain

\* More mints on chain are no fewer tokens.
LEMMA TokensMonotone ==
  ASSUME NEW S, IsFiniteSet(S), \A m \in S : MintAmount[m] \in Nat, NEW R \in SUBSET S,
         NEW a
  PROVE  Tokens(R, a) \in Nat /\ Tokens(S, a) \in Nat /\ Tokens(R, a) <= Tokens(S, a)
<1>1. OfAsset(R, a) \subseteq OfAsset(S, a) /\ OfAsset(S, a) \subseteq S
  BY DEF OfAsset
<1>2. IsFiniteSet(OfAsset(S, a)) /\ IsFiniteSet(OfAsset(R, a))
  BY <1>1, FS_Subset
<1>3. \A m \in OfAsset(S, a) : MintAmount[m] \in Nat
  BY <1>1
<1> QED
  BY <1>1, <1>2, <1>3, SumNat, SumMonotone DEF Tokens

\* Nor are more burns.
LEMMA RedeemedMonotone ==
  ASSUME NEW S, IsFiniteSet(S), \A r \in S : RedemptionAmount[r] \in Nat,
         NEW R \in SUBSET S, NEW a
  PROVE  Redeemed(R, a) \in Nat /\ Redeemed(S, a) \in Nat /\ Redeemed(R, a) <= Redeemed(S, a)
<1>1. OfAsset(R, a) \subseteq OfAsset(S, a) /\ OfAsset(S, a) \subseteq S
  BY DEF OfAsset
<1>2. IsFiniteSet(OfAsset(S, a)) /\ IsFiniteSet(OfAsset(R, a))
  BY <1>1, FS_Subset
<1>3. \A r \in OfAsset(S, a) : RedemptionAmount[r] \in Nat
  BY <1>1
<1> QED
  BY <1>1, <1>2, <1>3, SumNat, SumMonotone DEF Redeemed

\* The stations of a token are not left, nor is a rebase undone.
LEMMA StationsGrow ==
  ASSUME [Next]_vars
  PROVE  minted \subseteq minted' /\ burned \subseteq burned' /\ rebased \subseteq rebased'
BY DEF Next, ServiceStep, TokenStep, RebaseStep, IssueTokens, Issue, MintOnChain,
   BurnOnChain, Retire, Rebase, vars, outside, circulation

\* So what was minted or rebased on chain, and what was burned, never shrinks.
LEMMA SuppliesGrow ==
  ASSUME TypeOK, TypeOK', [Next]_vars, NEW a
  PROVE  /\ OnChain(a) \in Nat /\ OnChain(a)' \in Nat /\ OnChain(a) <= OnChain(a)'
         /\ Redeemed(burned, a) \in Nat /\ Redeemed(burned, a)' \in Nat
         /\ Redeemed(burned, a) <= Redeemed(burned, a)'
<1>1. /\ IsFiniteSet(minted') /\ \A m \in minted' : MintAmount[m] \in Nat
      /\ IsFiniteSet(burned') /\ \A r \in burned' : RedemptionAmount[r] \in Nat
  BY FS_Subset, CirculationAssumption DEF TypeOK, CirculationTypeOK
<1>2. /\ Tokens(minted, a) \in Nat /\ Tokens(minted', a) \in Nat
      /\ Tokens(minted, a) <= Tokens(minted', a)
  BY <1>1, StationsGrow, TokensMonotone
<1>3. /\ Redeemed(burned, a) \in Nat /\ Redeemed(burned', a) \in Nat
      /\ Redeemed(burned, a) <= Redeemed(burned', a)
  BY <1>1, StationsGrow, RedeemedMonotone
<1> DEFINE R == {n \in YieldsOf(a) : n.id \in rebased}
           f == YieldAmount
           S == {n \in YieldsOf(a) : n.id \in rebased}'
           g == YieldAmount'
<1>4. IsFiniteSet(S) /\ \A n \in S : g[n] \in Nat
  BY FS_Subset DEF TypeOK, StoreTypeOK, YieldsOf, YieldAmount, NavRows
<1>5. R \subseteq S /\ \A n \in R : f[n] = g[n]
  BY TablesGrow, StationsGrow DEF YieldsOf, YieldAmount
<1>6. Rebased(a) = SumOver(f, R) /\ Rebased(a)' = SumOver(g, S)
  BY DEF Rebased
<1> HIDE DEF R, S, f, g
<1>7. IsFiniteSet(R)
  BY <1>4, <1>5, FS_Subset
<1>8. SumOver(f, R) = SumOver(g, R) /\ SumOver(g, R) <= SumOver(g, S)
  BY <1>4, <1>5, <1>7, SumAgree, SumMonotone
<1>9. Rebased(a) \in Nat /\ Rebased(a)' \in Nat /\ Rebased(a) <= Rebased(a)'
  BY <1>4, <1>6, <1>8, RebasedNat, SumNat DEF TypeOK
<1>10. /\ Tokens(minted, a)' = Tokens(minted', a)
       /\ Redeemed(burned, a)' = Redeemed(burned', a)
  BY DEF Tokens, Redeemed
<1> QED
  BY <1>2, <1>3, <1>9, <1>10 DEF OnChain

\* The five reads in their order: each bounds what the next one may find.
LEMMA SupplyStepInv == TypeOK /\ TypeOK' /\ SupplyInv /\ [Next]_vars => SupplyInv'
<1> SUFFICES ASSUME TypeOK, TypeOK', SupplyInv, [Next]_vars PROVE SupplyInv'
  OBVIOUS
<1> DEFINE Frame(u) ==
      /\ call[u].pc = "ask_chain" =>
           call[u].total_redeemed <= Redeemed(burned, call[u].asset_id)
      /\ call[u].pc = "ask_custodian" /\ SuppliesAgree(call[u]) =>
           call[u].total_minted <= OnChain(call[u].asset_id)
      /\ call[u].pc = "matched" =>
           call[u].total_minted <= OnChain(call[u].asset_id)
<1>1. \A u \in Tasks : Frame(u)
  BY DEF SupplyInv, SettledWasBurned, AgreedIsOnChain
<1>2. ASSUME NEW u \in Tasks, call'[u] = call[u] PROVE Frame(u)'
  <2>1. PICK a : a = call[u].asset_id
    OBVIOUS
  <2>2. /\ OnChain(a) \in Nat /\ OnChain(a)' \in Nat /\ OnChain(a) <= OnChain(a)'
        /\ Redeemed(burned, a) \in Nat /\ Redeemed(burned, a)' \in Nat
        /\ Redeemed(burned, a) <= Redeemed(burned, a)'
    BY SuppliesGrow
  <2>3. /\ call[u].pc \in {"ask_chain", "ask_custodian"} =>
             call[u].total_redeemed \in Int /\ call[u].total_minted \in Int
        /\ call[u].pc = "matched" => call[u].total_minted \in Int
    BY DEF TypeOK, FrameTypeOK, Reconciling, ReconcileOver
  <2>4. /\ call[u].pc = "ask_chain" => call[u].total_redeemed <= Redeemed(burned, a)'
        /\ call[u].pc = "ask_custodian" /\ SuppliesAgree(call[u]) =>
             call[u].total_minted <= OnChain(a)'
        /\ call[u].pc = "matched" => call[u].total_minted <= OnChain(a)'
    BY <1>1, <2>1, <2>2, <2>3
  <2>5. SuppliesAgree(call[u])' = SuppliesAgree(call[u])
    BY <1>2 DEF SuppliesAgree
  <2> QED
    BY <1>2, <2>1, <2>4, <2>5
<1>3. ASSUME NEW t \in Tasks, ServiceStep(t) PROVE Frame(t)'
  <2>1. CASE ReconcileRedeemed(t)
    <3>1. PICK a : a = call[t].asset_id
      OBVIOUS
    <3>2. /\ call'[t].pc = "ask_chain" /\ call'[t].asset_id = a
          /\ call'[t].total_redeemed = Redeemed(retired, a)
      BY <2>1, <3>1, BecomeFrame DEF ReconcileRedeemed, ReconcileFrame
    <3>3. /\ retired \subseteq burned /\ IsFiniteSet(burned)
          /\ \A r \in burned : RedemptionAmount[r] \in Nat
      BY CirculationAssumption DEF TypeOK, CirculationTypeOK
    <3>4. /\ Redeemed(retired, a) \in Nat /\ Redeemed(burned, a) \in Nat
          /\ Redeemed(retired, a) <= Redeemed(burned, a)
      BY <3>3, RedeemedMonotone
    <3>5. Redeemed(burned, a)' \in Nat /\ Redeemed(burned, a) <= Redeemed(burned, a)'
      BY SuppliesGrow
    <3>6. Redeemed(retired, a) <= Redeemed(burned, a)'
      BY <3>4, <3>5
    <3> QED
      BY <3>2, <3>6
  <2>2. CASE ReconcileChain(t)
    <3>1. PICK a : a = call[t].asset_id
      OBVIOUS
    <3>2. /\ call'[t].pc = "ask_custodian" /\ call'[t].asset_id = a
          /\ call'[t].total_minted = call[t].total_minted
          /\ call'[t].total_redeemed = call[t].total_redeemed
          /\ call'[t].onchain_supply = OnChain(a) - Redeemed(burned, a)
      <4>1. GetTotalSupply(a) = OnChain(a) - Redeemed(burned, a)
        BY SumsTyped, RebasedNat DEF TypeOK, GetTotalSupply, ChainSupply, OnChain
      <4> QED
        BY <2>2, <3>1, <4>1, BecomeFrame DEF ReconcileChain, ReconcileFrame
    <3>3. /\ OnChain(a) \in Nat /\ OnChain(a)' \in Nat /\ OnChain(a) <= OnChain(a)'
          /\ Redeemed(burned, a) \in Nat
      BY SuppliesGrow
    <3>4. call[t].total_minted \in Int /\ call[t].total_redeemed \in Int
      BY <2>2 DEF ReconcileChain, TypeOK, FrameTypeOK, Reconciling
    <3>5. call[t].total_redeemed <= Redeemed(burned, a)
      BY <1>1, <2>2, <3>1 DEF ReconcileChain
    <3>6. SuppliesAgree(call[t])' => call[t].total_minted <= OnChain(a)'
      BY <3>2, <3>3, <3>4, <3>5 DEF SuppliesAgree
    <3> QED
      BY <3>2, <3>6
  <2>3. CASE ReconcileCustodian(t)
    <3>1. PICK a : a = call[t].asset_id
      OBVIOUS
    <3>2. \/ call'[t].pc = "alert"
          \/ /\ SuppliesAgree(call[t])
             /\ call'[t].pc = "matched" /\ call'[t].asset_id = a
             /\ call'[t].total_minted = call[t].total_minted
      BY <2>3, <3>1, BecomeFrame DEF ReconcileCustodian, ReconcileOutcome
    <3>3. OnChain(a) \in Nat /\ OnChain(a)' \in Nat /\ OnChain(a) <= OnChain(a)'
      BY SuppliesGrow
    <3>4. call[t].total_minted \in Int
      BY <2>3 DEF ReconcileCustodian, TypeOK, FrameTypeOK, Reconciling
    <3>5. SuppliesAgree(call[t]) => call[t].total_minted <= OnChain(a)
      BY <1>1, <2>3, <3>1 DEF ReconcileCustodian
    <3>6. SuppliesAgree(call[t]) => call[t].total_minted <= OnChain(a)'
      BY <3>3, <3>4, <3>5
    <3> QED
      BY <3>2, <3>6
  <2>4. CASE call'[t].pc \notin {"ask_chain", "ask_custodian", "matched"}
    BY <2>4
  <2> HIDE DEF Frame
  <2> QED
    BY <1>3, <2>1, <2>2, <2>3, <2>4, Stations
<1> HIDE DEF Frame
<1>4. \A u \in Tasks : Frame(u)'
  BY <1>2, <1>3, OneMoves
<1> QED
  BY <1>4 DEF Frame, SupplyInv, SettledWasBurned, AgreedIsOnChain

\* What was issued is minted or not yet.
LEMMA IssuedSplits ==
  ASSUME TypeOK, NEW a
  PROVE  /\ Tokens(issued, a) = Tokens(minted, a) + Unminted(a)
         /\ Tokens(issued, a) \in Int /\ Tokens(minted, a) \in Nat /\ Unminted(a) \in Int
<1>1. /\ minted \subseteq issued /\ IsFiniteSet(issued)
      /\ \A m \in issued : MintAmount[m] \in Int
  BY CirculationAssumption DEF TypeOK, CirculationTypeOK
<1> DEFINE S == OfAsset(issued, a)
           R == OfAsset(minted, a)
<1>2. R \in SUBSET S /\ S \subseteq issued /\ OfAsset(issued \ minted, a) = S \ R
  BY <1>1 DEF OfAsset
<1>3. Tokens(issued, a) = SumOver(MintAmount, S) /\ Tokens(minted, a) = SumOver(MintAmount, R)
      /\ Unminted(a) = SumOver(MintAmount, S \ R)
  BY <1>2 DEF Tokens, Unminted
<1> HIDE DEF S, R
<1>4. /\ IsFiniteSet(S) /\ \A m \in S : MintAmount[m] \in Int
      /\ IsFiniteSet(S \ R) /\ \A m \in S \ R : MintAmount[m] \in Int
  BY <1>1, <1>2, FS_Subset
<1>5. SumOver(MintAmount, S) = SumOver(MintAmount, R) + SumOver(MintAmount, S \ R)
  BY <1>2, <1>4, SumSplit
<1>6. SumOver(MintAmount, S \ R) \in Int
  BY <1>4, SumInt
<1> QED
  BY <1>3, <1>5, <1>6, SumsTyped DEF TypeOK

\* What was burned is settled or not yet.
LEMMA BurnedSplits ==
  ASSUME TypeOK, NEW a
  PROVE  /\ Redeemed(burned, a) = Redeemed(retired, a) + Unsettled(a)
         /\ Redeemed(retired, a) \in Nat /\ Unsettled(a) \in Nat
<1>1. /\ retired \subseteq burned /\ IsFiniteSet(burned)
      /\ \A r \in burned : RedemptionAmount[r] \in Nat
  BY CirculationAssumption DEF TypeOK, CirculationTypeOK
<1> DEFINE S == OfAsset(burned, a)
           R == OfAsset(retired, a)
<1>2. R \in SUBSET S /\ S \subseteq burned /\ OfAsset(burned \ retired, a) = S \ R
  BY <1>1 DEF OfAsset
<1>3. /\ Redeemed(burned, a) = SumOver(RedemptionAmount, S)
      /\ Redeemed(retired, a) = SumOver(RedemptionAmount, R)
      /\ Unsettled(a) = SumOver(RedemptionAmount, S \ R)
  BY <1>2 DEF Redeemed, Unsettled
<1> HIDE DEF S, R
<1>4. /\ IsFiniteSet(S) /\ \A r \in S : RedemptionAmount[r] \in Nat
      /\ IsFiniteSet(S \ R) /\ \A r \in S \ R : RedemptionAmount[r] \in Nat
  BY <1>1, <1>2, FS_Subset
<1>5. \A r \in S : RedemptionAmount[r] \in Int
  BY <1>4
<1>6. SumOver(RedemptionAmount, S)
        = SumOver(RedemptionAmount, R) + SumOver(RedemptionAmount, S \ R)
  BY <1>2, <1>4, <1>5, SumSplit
<1>7. SumOver(RedemptionAmount, S \ R) \in Nat
  BY <1>4, SumNat
<1> QED
  BY <1>3, <1>6, <1>7, SumsTyped DEF TypeOK

\* What is agreed on bounds what is missing.
LEMMA AgreedBounds == TypeOK /\ SupplyInv => PassedBoundsTheMissing
<1> SUFFICES ASSUME TypeOK, SupplyInv, NEW t \in Tasks, call[t].pc = "matched",
                    NEW a, a = call[t].asset_id
             PROVE  Unminted(a) <= (Tokens(issued, a) - call[t].total_minted) + Rebased(a)
  BY DEF PassedBoundsTheMissing
<1>1. /\ Tokens(issued, a) = Tokens(minted, a) + Unminted(a)
      /\ Tokens(issued, a) \in Int /\ Tokens(minted, a) \in Nat /\ Unminted(a) \in Int
  BY IssuedSplits
<1>2. Rebased(a) \in Nat /\ call[t].total_minted \in Int
  BY RebasedNat DEF TypeOK, FrameTypeOK, Reconciling, ReconcileOver
<1>3. call[t].total_minted <= Tokens(minted, a) + Rebased(a)
  BY DEF SupplyInv, AgreedIsOnChain, OnChain
<1> QED
  BY <1>1, <1>2, <1>3

\* After a reconciliation that passed, no more tokens are missing on chain, net of
\* negative mints, than were issued since it summed the mints or came from a rebase,
\* for all assets, amounts and interleavings.
THEOREM PassedIsBounded == Spec => []PassedBoundsTheMissing
BY SupplyInit, SupplyStepInv, AgreedBounds, TypeCorrect, PTL DEF Spec

-----------------------------------------------------------------------------
(* AlarmsHaveACause.                                                       *)

\* When nothing is under way the sums and totalSupply() agree.
LEMMA AlarmCause ==
  ASSUME TypeOK, [Next]_vars, NEW t \in Tasks, call[t].pc = "ask_chain",
         call'[t].pc = "ask_custodian", ~SuppliesAgree(call'[t]),
         NEW a, a = call[t].asset_id
  PROVE  \/ Unminted(a) # 0 \/ Unsettled(a) # 0 \/ Rebased(a) # 0
         \/ call[t].total_minted # Tokens(issued, a)
         \/ call[t].total_redeemed # Redeemed(retired, a)
<1>1. ServiceStep(t)
  <2>1. call'[t] # call[t]
    OBVIOUS
  <2> QED
    BY <2>1, OneMoves
<1>2. ReconcileChain(t)
  BY <1>1, Stations
<1>3. /\ call'[t].total_minted = call[t].total_minted
      /\ call'[t].total_redeemed = call[t].total_redeemed
      /\ call'[t].onchain_supply = Tokens(minted, a) - Redeemed(burned, a) + Rebased(a)
  BY <1>2, BecomeFrame DEF ReconcileChain, ReconcileFrame, GetTotalSupply, ChainSupply
<1>4. Tokens(issued, a) = Tokens(minted, a) + Unminted(a)
  BY IssuedSplits
<1>5. Redeemed(burned, a) = Redeemed(retired, a) + Unsettled(a)
  BY BurnedSplits
<1>6. /\ Tokens(minted, a) \in Nat /\ Unminted(a) \in Int /\ Rebased(a) \in Nat
      /\ Redeemed(retired, a) \in Nat /\ Unsettled(a) \in Nat
  BY IssuedSplits, BurnedSplits, RebasedNat DEF TypeOK
<1> QED
  BY <1>3, <1>4, <1>5, <1>6 DEF SuppliesAgree

\* A reconciliation finds the supplies apart only if something was under way, was
\* booked since its sums or was rebased, for all assets, amounts and interleavings.
THEOREM AlarmsAreCaused == Spec => AlarmsHaveACause
<1>1. TypeOK /\ [Next]_vars =>
        [\A t \in Tasks :
           LET a == call[t].asset_id IN
           call[t].pc = "ask_chain" /\ call[t]'.pc = "ask_custodian"
             /\ ~SuppliesAgree(call[t]') =>
               \/ Unminted(a) # 0 \/ Unsettled(a) # 0 \/ Rebased(a) # 0
               \/ call[t].total_minted # Tokens(issued, a)
               \/ call[t].total_redeemed # Redeemed(retired, a)]_vars
  BY AlarmCause
<1> QED
  BY <1>1, TypeCorrect, PTL DEF Spec, AlarmsHaveACause

-----------------------------------------------------------------------------
(* YieldsAreBooked.                                                        *)

\* The sums over the two accounts of an asset.
Booked(a) ==
  /\ SumOver(Credits, EntriesOn("fund:treasury", a)) = AccruedYield(a)
  /\ SumOver(Debits, EntriesOn("fund:yield", a)) = AccruedYield(a)

\* Nothing is booked and nothing accrued at first.
LEMMA BookInit == Init => BookInv
<1> SUFFICES ASSUME Init PROVE BookInv
  OBVIOUS
<1>1. ledger_entries = {} /\ nav_calculations = {}
  BY DEF Init, StoreInit
<1>2. ASSUME NEW a \in Assets PROVE Booked(a)
  <2>1. /\ EntriesOn("fund:treasury", a) = {} /\ EntriesOn("fund:yield", a) = {}
        /\ YieldsOf(a) = {}
    BY <1>1 DEF EntriesOn, YieldsOf
  <2>2. /\ SumOver(Credits, {}) = 0 /\ SumOver(Debits, {}) = 0 /\ SumOver(YieldAmount, {}) = 0
    BY SumEmpty
  <2> QED
    BY <2>1, <2>2 DEF Booked, AccruedYield
<1> QED
  BY <1>1, <1>2 DEF BookInv, EntriesNameYields, YieldsAreBooked, Booked

\* A table that gains one row, or none, of those summed.
LEMMA SumGains ==
  ASSUME NEW S, IsFiniteSet(S), NEW f, NEW g, \A x \in S : f[x] \in Nat /\ g[x] = f[x],
         NEW e, e \notin S, g[e] \in Nat
  PROVE  SumOver(g, S \cup {e}) = SumOver(f, S) + g[e]
<1>1. SumOver(f, S) = SumOver(g, S)
  BY SumAgree
<1>2. SumOver(g, S \cup {e}) = SumOver(g, S) + g[e]
  BY SumInsert
<1> QED
  BY <1>1, <1>2

\* The rows of an account stay what they are, unless the yield is of its asset.
LEMMA BookYield ==
  ASSUME TypeOK, TypeOK', BookInv, NEW t \in Tasks, YieldInsert(t), NEW a \in Assets
  PROVE  Booked(a)' /\ EntriesNameYields'
<1> DEFINE b == call[t].asset_id
           value == call[t].total_value
           yield == DailyYield(value, call[t].req.rate)
           key == call[t].req.idempotency_key
           Row(id) == [id |-> id, asset_id |-> b, total_value |-> value,
                       daily_yield |-> yield, idempotency_key |-> key]
           Debit(id) == [reference_id |-> id, asset_id |-> b, account |-> "fund:yield",
                         debit |-> yield, credit |-> 0]
           Credit(id) == [reference_id |-> id, asset_id |-> b, account |-> "fund:treasury",
                          debit |-> 0, credit |-> yield]
<1>1. PICK id \in NavIds \ {n.id : n \in nav_calculations} :
        /\ nav_calculations' = nav_calculations \cup {Row(id)}
        /\ ledger_entries' = ledger_entries \cup {Debit(id), Credit(id)}
  BY DEF YieldInsert, YieldEntries
<1>2. PICK row, d, c, y, x :
        /\ nav_calculations' = nav_calculations \cup {row}
        /\ ledger_entries' = ledger_entries \cup {d, c}
        /\ row.id = id /\ row.asset_id = x /\ row.daily_yield = y
        /\ d.reference_id = id /\ d.asset_id = x /\ d.account = "fund:yield" /\ d.debit = y
        /\ c.reference_id = id /\ c.asset_id = x /\ c.account = "fund:treasury"
        /\ c.credit = y
  <2>1. /\ Row(id).id = id /\ Row(id).asset_id = b /\ Row(id).daily_yield = yield
        /\ Debit(id).reference_id = id /\ Debit(id).asset_id = b
        /\ Debit(id).account = "fund:yield" /\ Debit(id).debit = yield
        /\ Credit(id).reference_id = id /\ Credit(id).asset_id = b
        /\ Credit(id).account = "fund:treasury" /\ Credit(id).credit = yield
    OBVIOUS
  <2> HIDE DEF Row, Debit, Credit, b, yield
  <2> QED
    BY <1>1, <2>1
<1> HIDE DEF Row, Debit, Credit, b, yield, value, key
<1>3. /\ row \notin nav_calculations /\ d \notin ledger_entries /\ c \notin ledger_entries
      /\ \A e \in ledger_entries : e.reference_id # id
  BY <1>1, <1>2 DEF BookInv, EntriesNameYields
<1>4. y \in Nat
  BY <1>2 DEF TypeOK, StoreTypeOK, NavRows
<1>5. /\ IsFiniteSet(YieldsOf(a)) /\ IsFiniteSet(EntriesOn("fund:treasury", a))
      /\ IsFiniteSet(EntriesOn("fund:yield", a))
  BY FS_Subset DEF TypeOK, StoreTypeOK, YieldsOf, EntriesOn
<1>6. \A n \in YieldsOf(a) : YieldAmount[n] \in Nat /\ YieldAmount'[n] = YieldAmount[n]
  BY <1>2 DEF TypeOK, StoreTypeOK, YieldsOf, YieldAmount, NavRows
<1>7. /\ \A e \in EntriesOn("fund:treasury", a) :
           Credits[e] \in Nat /\ Credits'[e] = Credits[e]
      /\ \A e \in EntriesOn("fund:yield", a) :
           Debits[e] \in Nat /\ Debits'[e] = Debits[e]
  BY <1>2 DEF TypeOK, StoreTypeOK, EntriesOn, Credits, Debits, YieldEntryRows
<1>8. YieldAmount'[row] = y /\ Credits'[c] = y /\ Debits'[d] = y
  BY <1>2 DEF YieldAmount, Credits, Debits
<1>9. Booked(a)
  BY DEF BookInv, YieldsAreBooked, Booked
<1>10. ASSUME a = x PROVE Booked(a)'
  <2>1. /\ YieldsOf(a)' = YieldsOf(a) \cup {row} /\ row \notin YieldsOf(a)
        /\ EntriesOn("fund:treasury", a)' = EntriesOn("fund:treasury", a) \cup {c}
        /\ c \notin EntriesOn("fund:treasury", a)
        /\ EntriesOn("fund:yield", a)' = EntriesOn("fund:yield", a) \cup {d}
        /\ d \notin EntriesOn("fund:yield", a)
    BY <1>2, <1>3, <1>10 DEF YieldsOf, EntriesOn
  <2>2. SumOver(YieldAmount', YieldsOf(a)') = SumOver(YieldAmount, YieldsOf(a)) + y
    BY <1>4, <1>5, <1>6, <1>8, <2>1, SumGains
  <2>3. SumOver(Credits', EntriesOn("fund:treasury", a)')
          = SumOver(Credits, EntriesOn("fund:treasury", a)) + y
    BY <1>4, <1>5, <1>7, <1>8, <2>1, SumGains
  <2>4. SumOver(Debits', EntriesOn("fund:yield", a)')
          = SumOver(Debits, EntriesOn("fund:yield", a)) + y
    BY <1>4, <1>5, <1>7, <1>8, <2>1, SumGains
  <2>5. /\ SumOver(Credits', EntriesOn("fund:treasury", a)') = AccruedYield(a)'
        /\ SumOver(Debits', EntriesOn("fund:yield", a)') = AccruedYield(a)'
    BY <1>9, <2>2, <2>3, <2>4 DEF Booked, AccruedYield
  <2> QED
    BY <2>5 DEF Booked
<1>11. ASSUME a # x PROVE Booked(a)'
  <2>1. /\ YieldsOf(a)' = YieldsOf(a)
        /\ EntriesOn("fund:treasury", a)' = EntriesOn("fund:treasury", a)
        /\ EntriesOn("fund:yield", a)' = EntriesOn("fund:yield", a)
    BY <1>2, <1>11 DEF YieldsOf, EntriesOn
  <2>2. SumOver(YieldAmount', YieldsOf(a)) = SumOver(YieldAmount, YieldsOf(a))
    BY <1>5, <1>6, SumAgree
  <2>3. SumOver(Credits', EntriesOn("fund:treasury", a))
          = SumOver(Credits, EntriesOn("fund:treasury", a))
    BY <1>5, <1>7, SumAgree
  <2>4. SumOver(Debits', EntriesOn("fund:yield", a))
          = SumOver(Debits, EntriesOn("fund:yield", a))
    BY <1>5, <1>7, SumAgree
  <2> QED
    BY <1>9, <2>1, <2>2, <2>3, <2>4 DEF Booked, AccruedYield
<1>12. EntriesNameYields'
  BY <1>2 DEF BookInv, EntriesNameYields
<1> QED
  BY <1>10, <1>11, <1>12

\* Only the insert of a yield writes the books.
LEMMA BookStep == TypeOK /\ TypeOK' /\ BookInv /\ [Next]_vars => BookInv'
<1> SUFFICES ASSUME TypeOK, TypeOK', BookInv, [Next]_vars PROVE BookInv'
  OBVIOUS
<1>1. CASE \E t \in Tasks : YieldInsert(t)
  <2>1. PICK t \in Tasks : YieldInsert(t)
    BY <1>1
  <2>2. \A a \in Assets : Booked(a)'
    BY <2>1, BookYield
  <2>3. EntriesNameYields'
    <3>1. call[t].asset_id \in Assets
      BY <2>1 DEF YieldInsert, TypeOK, FrameTypeOK, IsRegistered, AssetRowsOf, StoreTypeOK,
         AssetRows
    <3> QED
      BY <2>1, <3>1, BookYield
  <2> QED
    BY <2>2, <2>3 DEF BookInv, YieldsAreBooked, Booked
<1>2. CASE UNCHANGED <<nav_calculations, ledger_entries>>
  BY <1>2 DEF BookInv, EntriesNameYields, YieldsAreBooked, AccruedYield, YieldsOf,
     YieldAmount, EntriesOn, Credits, Debits
<1>3. (\E t \in Tasks : YieldInsert(t)) \/ UNCHANGED <<nav_calculations, ledger_entries>>
  BY DEF Next, ServiceStep, RegisterStep, RegisterReplay, RegisterStart, RegisterInsert,
     WrapStep, WrapBegin, WrapReadStatus, WrapCommit, YieldStep, YieldReplay, YieldStart,
     YieldRead, ReconcileStep, TaskFail, TokenStep, RebaseStep, vars, asset_tables
<1> QED
  BY <1>1, <1>2, <1>3

\* The books of every asset hold all the yields its derived value counts, on both
\* sides, for all tasks, assets and rates.
THEOREM AllYieldsAreBooked == Spec => []YieldsAreBooked
<1>1. BookInv => YieldsAreBooked
  BY DEF BookInv
<1> QED
  BY <1>1, BookInit, BookStep, TypeCorrect, PTL DEF Spec

=============================================================================
