--------------------------------- MODULE Nav ---------------------------------
(***************************************************************************)
(* NavCalculationEngine.calculate_and_distribute_yield (nav.rs): the       *)
(* lookup of the key, then one transaction that reads the value of the     *)
(* asset, base and accrued yield, and books the yield of a day on it.      *)
(* Decimals are integers here, and their quotient is rounded.              *)
(***************************************************************************)
EXTENDS AssetStore

DAYS_PER_YEAR == 365

DailyYield(value, rate) == (value * rate) \div DAYS_PER_YEAR

\* asked: the yield accrued when the call began; no action reads it.
YieldFrame(pc, a, req, asked, value) ==
  [pc |-> pc, asset_id |-> a, req |-> req, asked |-> asked, total_value |-> value]
Yielded(k, id) == [pc |-> "yielded", idempotency_key |-> k, id |-> id]

YieldsWithKey(k) == {n \in nav_calculations : n.idempotency_key = k}

YieldKeyTakenUnchecked(k) == FALSE
\* UNIQUE (idempotency_key), checked when the row is inserted
YieldKeyTaken(k) == YieldsWithKey(k) # {}

\* The key alone decides, not the asset the call is for.
YieldReplay(t, req) ==
  /\ IsDone(t)
  /\ \E n \in YieldsWithKey(req.idempotency_key) : Become(t, Yielded(req.idempotency_key, n.id))
  /\ UNCHANGED asset_tables

\* A call for an asset that is not on record (AssetNotFound) leaves nothing.
YieldStart(t, a, req) ==
  /\ IsDone(t)
  /\ IsRegistered(a)
  /\ YieldsWithKey(req.idempotency_key) = {}
  /\ Become(t, YieldFrame("yield_read", a, req, AccruedYield(a), 0))
  /\ UNCHANGED asset_tables

\* BEGIN and SELECT derived_total_value, without a lock.
YieldRead(t) ==
  LET c == call[t] IN
  /\ c.pc = "yield_read"
  /\ Become(t, YieldFrame("yield_insert", c.asset_id, c.req, c.asked,
                          DerivedValue(c.asset_id)))
  /\ UNCHANGED asset_tables

YieldEntriesOnOneAccount(id, a, yield) ==
  {[reference_id |-> id, asset_id |-> a, account |-> "fund:yield",
    debit |-> yield, credit |-> 0],
   [reference_id |-> id, asset_id |-> a, account |-> "fund:yield",
    debit |-> 0, credit |-> yield]}
\* The two ledger rows of a yield.
YieldEntries(id, a, yield) ==
  {[reference_id |-> id, asset_id |-> a, account |-> "fund:yield",
    debit |-> yield, credit |-> 0],
   [reference_id |-> id, asset_id |-> a, account |-> "fund:treasury",
    debit |-> 0, credit |-> yield]}

\* The calculation, its ledger rows and the outbox event, COMMIT. The CHECK of
\* the ledger refuses a yield of zero or less.
YieldInsert(t) ==
  LET a == call[t].asset_id
      value == call[t].total_value
      yield == DailyYield(value, call[t].req.rate)
      key == call[t].req.idempotency_key
  IN
  /\ call[t].pc = "yield_insert"
  /\ ~YieldKeyTaken(key)
  /\ \E id \in NavIds \ {n.id : n \in nav_calculations} :
       /\ LedgerCheck(YieldEntries(id, a, yield))
       /\ nav_calculations' = nav_calculations \cup
            {[id |-> id, asset_id |-> a, total_value |-> value,
              daily_yield |-> yield, idempotency_key |-> key]}
       /\ ledger_entries' = ledger_entries \cup YieldEntries(id, a, yield)
       /\ outbox_events' =
            outbox_events \cup {[event_type |-> "nav.yield_calculated", id |-> id]}
       /\ Become(t, Yielded(key, id))
  /\ UNCHANGED <<rwa_assets, rwa_asset_status_events, legal_wrappers>>

YieldStep(t) ==
  \/ \E req \in YieldRequests :
       YieldReplay(t, req) \/ \E a \in Assets : YieldStart(t, a, req)
  \/ YieldRead(t) \/ YieldInsert(t)

=============================================================================
