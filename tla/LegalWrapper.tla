---------------------------- MODULE LegalWrapper -----------------------------
(***************************************************************************)
(* LegalWrapperService.create_legal_wrapper (legal.rs): one transaction    *)
(* that reads the asset, reads its latest status, and inserts. It takes no *)
(* lock and no idempotency key. The price per token is left out: nothing   *)
(* reads it again.                                                         *)
(***************************************************************************)
EXTENDS AssetStore

\* late: the asset had a wrapper when the call began; no action reads it.
WrapFrame(pc, a, supply, late) ==
  [pc |-> pc, asset_id |-> a, token_supply |-> supply, late |-> late]

\* BEGIN and SELECT FROM rwa_assets. An id comes from a registration that has
\* returned; for any other (AssetNotFound) nothing happens.
WrapBegin(t, a, supply) ==
  /\ IsDone(t)
  /\ IsRegistered(a)
  /\ Become(t, WrapFrame("wrap_status", a, supply, WrappersOf(a) # {}))
  /\ UNCHANGED asset_tables

\* ORDER BY created_at DESC LIMIT 1. Events are kept in commit order: a wrapper's
\* transaction begins after the registration has committed, and the events of
\* two wrappers are alike.
LatestAssetStatus(a) ==
  LET events == rwa_asset_status_events[a] IN events[Len(events)]

\* The guard of the state machine: read without a lock, used at the commit.
WrapReadStatus(t) ==
  LET c == call[t] IN
  /\ c.pc = "wrap_status"
  /\ IF LatestAssetStatus(c.asset_id) = "pending_legal"
       THEN Become(t, WrapFrame("wrap_commit", c.asset_id, c.token_supply, c.late))
       ELSE Become(t, Idle)                \* InvalidState
  /\ UNCHANGED asset_tables

StatusAfterWrapUnmoved == "pending_legal"
StatusAfterWrap == "pending_audit"

\* The wrapper, the status event and the outbox event, COMMIT. The division by a
\* supply of zero panics, which is TaskFail.
WrapCommit(t) ==
  LET a == call[t].asset_id
      supply == call[t].token_supply
  IN
  /\ call[t].pc = "wrap_commit"
  /\ supply # 0
  /\ \E id \in WrapperIds \ {w.id : w \in legal_wrappers} :
       /\ legal_wrappers' = legal_wrappers \cup
            {[id |-> id, asset_id |-> a, token_supply |-> supply]}
       /\ outbox_events' = outbox_events \cup
            {[event_type |-> "rwa.legal_wrapper_created", id |-> id]}
  /\ rwa_asset_status_events' =
       [rwa_asset_status_events EXCEPT ![a] = Append(@, StatusAfterWrap)]
  /\ Become(t, Idle)
  /\ UNCHANGED <<rwa_assets, nav_calculations, ledger_entries>>

WrapStep(t) ==
  \/ \E a \in Assets, supply \in WrapperSupplies : WrapBegin(t, a, supply)
  \/ WrapReadStatus(t) \/ WrapCommit(t)

=============================================================================
