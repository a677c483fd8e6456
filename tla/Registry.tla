------------------------------ MODULE Registry -------------------------------
(***************************************************************************)
(* RwaRegistryService.register_asset (registry.rs). The custodian registry *)
(* is asked between the lookup of the key and the transaction; it reads no *)
(* table, so its answer is part of the lookup's step.                      *)
(***************************************************************************)
EXTENDS AssetStore

CONSTANT ApprovedCustodians

Registering(req) == [pc |-> "register_insert", req |-> req]
Registered(k, a) == [pc |-> "registered", idempotency_key |-> k, id |-> a]

AssetsWithKey(k) == {row \in rwa_assets : row.req.idempotency_key = k}

AssetKeyTakenUnchecked(k) == FALSE
\* UNIQUE (idempotency_key), checked when the row is inserted
AssetKeyTaken(k) == AssetsWithKey(k) # {}

\* A known key is answered before the custodian is looked at.
RegisterReplay(t, req) ==
  /\ IsDone(t)
  /\ \E row \in AssetsWithKey(req.idempotency_key) :
       Become(t, Registered(req.idempotency_key, row.id))
  /\ UNCHANGED asset_tables

\* Without the approval (InvalidCustodian) nothing happens.
RegisterStart(t, req) ==
  /\ IsDone(t)
  /\ AssetsWithKey(req.idempotency_key) = {}
  /\ req.custodian \in ApprovedCustodians
  /\ Become(t, Registering(req))
  /\ UNCHANGED asset_tables

\* The asset, its first status and the outbox event, COMMIT.
RegisterInsert(t) ==
  LET req == call[t].req IN
  /\ call[t].pc = "register_insert"
  /\ ~AssetKeyTaken(req.idempotency_key)
  /\ \E a \in Assets \ {row.id : row \in rwa_assets} :
       /\ rwa_assets' = rwa_assets \cup {[id |-> a, req |-> req]}
       /\ rwa_asset_status_events' =
            [rwa_asset_status_events EXCEPT ![a] = Append(@, "pending_legal")]
       /\ outbox_events' =
            outbox_events \cup {[event_type |-> "rwa.registered", id |-> a]}
       /\ Become(t, Registered(req.idempotency_key, a))
  /\ UNCHANGED <<legal_wrappers, nav_calculations, ledger_entries>>

RegisterStep(t) ==
  \/ \E req \in RegisterRequests : RegisterReplay(t, req) \/ RegisterStart(t, req)
  \/ RegisterInsert(t)

=============================================================================
