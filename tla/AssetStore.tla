----------------------------- MODULE AssetStore ------------------------------
(***************************************************************************)
(* The tables the four asset services share (registry.rs, legal.rs,        *)
(* nav.rs, reconciliation.rs), and the tasks that call them. A task runs   *)
(* one call at a time; the call is a frame call[t] that advances one SQL   *)
(* statement, or one question to the outside, per step. As in TokenStore a *)
(* SELECT is one step, and the INSERTs of a transaction and its COMMIT are *)
(* another. Of ledger_entries and outbox_events these are the rows the     *)
(* asset services write.                                                   *)
(***************************************************************************)
EXTENDS Integers, FiniteSets, Sequences, Sums, LedgerConstraints

CONSTANTS
  Tasks,               \* tasks that call the asset services
  Assets,              \* the uuids an asset may get
  WrapperIds,          \* the uuids a legal wrapper may get
  NavIds,              \* the uuids a yield calculation may get
  Keys,                \* idempotency keys
  RegisterRequests,    \* the requests callers of register_asset may send
  WrapperSupplies,     \* the token_supply callers of create_legal_wrapper ask for
  YieldRequests        \* rate and key of calculate_and_distribute_yield

RegisterRequestType ==
  [total_value : Int, custodian : STRING, idempotency_key : Keys]
YieldRequestType == [rate : Int, idempotency_key : Keys]

\* Nothing checks the sign of a value, a supply or a rate.
ASSUME AssetAssumption ==
  /\ IsFiniteSet(Tasks)
  /\ RegisterRequests \subseteq RegisterRequestType
  /\ WrapperSupplies \subseteq Int
  /\ YieldRequests \subseteq YieldRequestType

VARIABLES
  rwa_assets,                \* rows [id, req]
  rwa_asset_status_events,   \* statuses of each asset, in the order of created_at
  legal_wrappers,            \* rows [id, asset_id, token_supply]
  nav_calculations,          \* rows [id, asset_id, total_value, daily_yield, key]
  ledger_entries,            \* rows of the yields
  outbox_events,             \* rows [event_type, id]
  call                       \* the frame of each task

asset_tables == <<rwa_assets, rwa_asset_status_events, legal_wrappers,
                  nav_calculations, ledger_entries, outbox_events>>

AssetRows == [id : Assets, req : RegisterRequests]
\* The statuses the code ever writes.
AssetStatuses == {"pending_legal", "pending_audit"}
WrapperRows ==
  [id : WrapperIds, asset_id : Assets, token_supply : WrapperSupplies \ {0}]
NavRows ==
  [id : NavIds, asset_id : Assets, total_value : Int, daily_yield : Nat \ {0},
   idempotency_key : Keys]
YieldEntryRows ==
  [reference_id : NavIds, asset_id : Assets,
   account : {"fund:yield", "fund:treasury"}, debit : Nat, credit : Nat]
AssetEventRows ==
  [event_type : {"rwa.registered"}, id : Assets]
    \cup [event_type : {"rwa.legal_wrapper_created"}, id : WrapperIds]
    \cup [event_type : {"nav.yield_calculated"}, id : NavIds]

StoreTypeOK ==
  /\ rwa_assets \subseteq AssetRows
  /\ rwa_asset_status_events \in [Assets -> Seq(AssetStatuses)]
  /\ legal_wrappers \subseteq WrapperRows
  /\ nav_calculations \subseteq NavRows /\ IsFiniteSet(nav_calculations)
  /\ ledger_entries \subseteq YieldEntryRows /\ IsFiniteSet(ledger_entries)
  /\ outbox_events \subseteq AssetEventRows

Idle == [pc |-> "idle"]

StoreInit ==
  /\ rwa_assets = {}
  /\ rwa_asset_status_events = [a \in Assets |-> << >>]
  /\ legal_wrappers = {}
  /\ nav_calculations = {}
  /\ ledger_entries = {}
  /\ outbox_events = {}
  /\ call = [t \in Tasks |-> Idle]

-----------------------------------------------------------------------------

\* The frames of calls that have returned.
Done == {"idle", "registered", "yielded", "matched", "mismatch"}
IsDone(t) == call[t].pc \in Done
Become(t, frame) == call' = [call EXCEPT ![t] = frame]

\* The row of an asset; it is immutable, and read where the code reads it.
AssetRowsOf(a) == {row \in rwa_assets : row.id = a}
IsRegistered(a) == AssetRowsOf(a) # {}

WrappersOf(a) == {w \in legal_wrappers : w.asset_id = a}

YieldsOf(a) == {n \in nav_calculations : n.asset_id = a}
YieldAmount == [n \in nav_calculations |-> n.daily_yield]
AccruedYield(a) == SumOver(YieldAmount, YieldsOf(a))

BaseValue(a) == (CHOOSE row \in AssetRowsOf(a) : TRUE).req.total_value
DerivedValueOfBase(a) == BaseValue(a)
\* a.total_value + COALESCE((SELECT SUM(n.daily_yield) ...), 0), one statement
\* of the yield calculation and of the reconciliation
DerivedValue(a) == BaseValue(a) + AccruedYield(a)

\* A statement, a commit, an awaited service or the process fails, or a decimal
\* division panics: what is uncommitted is rolled back, the caller has no result.
TaskFail(t) ==
  /\ ~IsDone(t)
  /\ Become(t, Idle)
  /\ UNCHANGED asset_tables

=============================================================================
