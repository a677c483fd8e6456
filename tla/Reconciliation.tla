--------------------------- MODULE Reconciliation ----------------------------
(***************************************************************************)
(* RwaReconciliationEngine.reconcile_asset (reconciliation.rs): three      *)
(* SELECTs without a transaction, then the chain and the custodian are     *)
(* asked, then the answers are compared. The token tables and the chain    *)
(* are those of Circulation, which TokenLifecycle implements; to them the  *)
(* rebase minter adds the tokens nav.yield_calculated events announce      *)
(* (README.md, "positive rebase"; nav.rs: "triggers on-chain token         *)
(* rebase"). It is outside, and so are the custodian and the alerts.       *)
(***************************************************************************)
EXTENDS AssetStore, Circulation

CONSTANTS
  CustodianNavs,    \* what the custodian may report
  NAV_TOLERANCE     \* how far it may be from the books

VARIABLE rebased    \* the yields whose tokens are on chain

\* What is left of a call that has its answers, and of one that has returned.
ReconcileOutcome(pc, c) ==
  [pc |-> pc, asset_id |-> c.asset_id, total_minted |-> c.total_minted]

ReconcileFrame(pc, a, value, total_minted, total_redeemed, onchain_supply) ==
  [pc |-> pc, asset_id |-> a, total_value |-> value, total_minted |-> total_minted,
   total_redeemed |-> total_redeemed, onchain_supply |-> onchain_supply]

Rebased(a) == SumOver(YieldAmount, {n \in YieldsOf(a) : n.id \in rebased})

\* BlockchainService.get_total_supply: totalSupply() of the token contract
GetTotalSupply(a) == ChainSupply(a) + Rebased(a)

Rebase(n) ==
  /\ [event_type |-> "nav.yield_calculated", id |-> n.id] \in outbox_events
  /\ n.id \notin rebased
  /\ rebased' = rebased \cup {n.id}

\* SELECT derived_total_value; without the asset (AssetNotFound) nothing happens.
ReconcileStart(t, a) ==
  /\ IsDone(t)
  /\ IsRegistered(a)
  /\ Become(t, ReconcileFrame("sum_minted", a, DerivedValue(a), 0, 0, 0))

\* SUM(token_amount) FROM token_mints: a mint counts before it is on chain.
ReconcileMinted(t) ==
  LET c == call[t] IN
  /\ c.pc = "sum_minted"
  /\ Become(t, ReconcileFrame("sum_redeemed", c.asset_id, c.total_value,
                              Tokens(issued, c.asset_id), 0, 0))

\* SUM(token_amount) FROM token_redemptions WHERE settled: tokens count until
\* their settlement, though they left the chain before.
ReconcileRedeemed(t) ==
  LET c == call[t] IN
  /\ c.pc = "sum_redeemed"
  /\ Become(t, ReconcileFrame("ask_chain", c.asset_id, c.total_value, c.total_minted,
                              Redeemed(retired, c.asset_id), 0))

ReconcileChain(t) ==
  LET c == call[t] IN
  /\ c.pc = "ask_chain"
  /\ Become(t, ReconcileFrame("ask_custodian", c.asset_id, c.total_value, c.total_minted,
                              c.total_redeemed, GetTotalSupply(c.asset_id)))

SuppliesCover(c) == c.total_minted - c.total_redeemed >= c.onchain_supply
SuppliesOfMints(c) == c.total_minted = c.onchain_supply
SuppliesAgree(c) == c.total_minted - c.total_redeemed = c.onchain_supply

NavsAgree(value, nav) ==
  value - nav <= NAV_TOLERANCE /\ nav - value <= NAV_TOLERANCE

\* The custodian answers and the call compares: Ok(true), or an alert to send.
ReconcileCustodian(t) ==
  /\ call[t].pc = "ask_custodian"
  /\ \E nav \in CustodianNavs :
       IF SuppliesAgree(call[t]) /\ NavsAgree(call[t].total_value, nav)
         THEN Become(t, ReconcileOutcome("matched", call[t]))
         ELSE Become(t, ReconcileOutcome("alert", call[t]))

\* Err(ReconciliationMismatch) once the alert is accepted; if it is not, the
\* caller gets the error of the alert service instead (TaskFail).
ReconcileAlert(t) ==
  /\ call[t].pc = "alert"
  /\ Become(t, ReconcileOutcome("mismatch", call[t]))

\* The service changes no table, here or outside.
ReconcileStep(t) ==
  /\ \/ \E a \in Assets : ReconcileStart(t, a)
     \/ ReconcileMinted(t) \/ ReconcileRedeemed(t) \/ ReconcileChain(t)
     \/ ReconcileCustodian(t) \/ ReconcileAlert(t)
  /\ UNCHANGED asset_tables

=============================================================================
