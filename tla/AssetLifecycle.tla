--------------------------- MODULE AssetLifecycle ----------------------------
(***************************************************************************)
(* The asset services together: registration, legal wrapper, daily yield   *)
(* and reconciliation, called by tasks that run at the same time, over the *)
(* circulation of the asset's tokens and their rebase. Of the token        *)
(* services Circulation is used and not TokenLifecycle, which implements   *)
(* it: what the asset services see of them are two sums and totalSupply(). *)
(***************************************************************************)
EXTENDS Registry, LegalWrapper, Nav, Reconciliation

outside == <<circulation, rebased>>
vars == <<asset_tables, call, outside>>

Reconciling == {"sum_minted", "sum_redeemed", "ask_chain", "ask_custodian"}
ReconcileOver == {"alert", "matched", "mismatch"}

FrameTypeOK(t) ==
  LET c == call[t] IN
  /\ c.pc \in {"idle", "register_insert", "registered", "wrap_status", "wrap_commit",
               "yield_read", "yield_insert", "yielded"} \cup Reconciling \cup ReconcileOver
  /\ c.pc = "register_insert" => c.req \in RegisterRequests
  /\ c.pc = "registered" => c.idempotency_key \in Keys /\ IsRegistered(c.id)
  /\ c.pc \in {"wrap_status", "wrap_commit"} =>
       IsRegistered(c.asset_id) /\ c.token_supply \in WrapperSupplies
  /\ c.pc \in {"yield_read", "yield_insert"} =>
       /\ IsRegistered(c.asset_id) /\ c.req \in YieldRequests
       /\ c.asked \in Nat /\ c.total_value \in Int
  /\ c.pc = "yielded" =>
       c.idempotency_key \in Keys /\ c.id \in {n.id : n \in nav_calculations}
  /\ c.pc \in Reconciling =>
       /\ IsRegistered(c.asset_id) /\ c.total_value \in Int
       /\ {c.total_minted, c.total_redeemed, c.onchain_supply} \subseteq Int
  /\ c.pc \in ReconcileOver => IsRegistered(c.asset_id) /\ c.total_minted \in Int

TypeOK ==
  /\ StoreTypeOK
  /\ CirculationTypeOK
  /\ rebased \subseteq {n.id : n \in nav_calculations}
  /\ DOMAIN call = Tasks
  /\ \A t \in Tasks : FrameTypeOK(t)

Init ==
  /\ StoreInit
  /\ CirculationInit
  /\ rebased = {}

-----------------------------------------------------------------------------

ServiceStep(t) ==
  /\ RegisterStep(t) \/ WrapStep(t) \/ YieldStep(t) \/ ReconcileStep(t) \/ TaskFail(t)
  /\ UNCHANGED outside

Supply(a) == Tokens(issued, a) - Redeemed(retired, a)

\* The token services issue against a wrapper of the asset, whichever they lock.
IssueTokens(m) ==
  /\ \E w \in WrappersOf(m.req.asset_id) :
       Supply(m.req.asset_id) + MintAmount[m] <= w.token_supply
  /\ Issue(m)

TokenStep ==
  /\ \/ \E m \in DOMAIN MintAmount : IssueTokens(m) \/ MintOnChain(m)
     \/ \E r \in DOMAIN RedemptionAmount : BurnOnChain(r) \/ Retire(r)
  /\ UNCHANGED <<asset_tables, call, rebased>>

RebaseStep ==
  /\ \E n \in nav_calculations : Rebase(n)
  /\ UNCHANGED <<asset_tables, call, circulation>>

Next == (\E t \in Tasks : ServiceStep(t)) \/ TokenStep \/ RebaseStep

Spec == Init /\ [][Next]_vars

-----------------------------------------------------------------------------

\* Retries: a key names one asset and one yield, and a call that returned Ok
\* returned the row of its key (find_by_idempotency_key of registry.rs,
\* find_nav_by_idempotency_key of nav.rs, the UNIQUE columns).
KeysNameOneRow ==
  /\ \A r, s \in rwa_assets :
       r.req.idempotency_key = s.req.idempotency_key => r = s
  /\ \A n, m \in nav_calculations : n.idempotency_key = m.idempotency_key => n = m
  /\ \A t \in Tasks :
       /\ call[t].pc = "registered" =>
            call[t].id \in {r.id : r \in AssetsWithKey(call[t].idempotency_key)}
       /\ call[t].pc = "yielded" =>
            call[t].id \in {n.id : n \in YieldsWithKey(call[t].idempotency_key)}

\* An asset gets a second wrapper only from calls that ran at the same time: no
\* call that began after a wrapper was committed comes to insert another. This
\* is all the unlocked read of the status is good for (create_legal_wrapper).
LateWrapIsRefused == \A t \in Tasks : call[t].pc = "wrap_commit" => ~call[t].late

Wrapping(a) == {t \in Tasks : call[t].pc = "wrap_commit" /\ call[t].asset_id = a}

\* How many wrappers an asset can get from those calls: with the calls that are
\* about to insert one it never has more than there are tasks, however often
\* create_legal_wrapper is called, retried or fails.
WrappersAreBounded ==
  \A a \in Assets :
    Cardinality(WrappersOf(a)) + Cardinality(Wrapping(a)) <= Cardinality(Tasks)

Credits == [e \in ledger_entries |-> e.credit]
Debits == [e \in ledger_entries |-> e.debit]
EntriesOn(account, a) ==
  {e \in ledger_entries : e.account = account /\ e.asset_id = a}

\* What is booked is what was calculated: the treasury of an asset is credited
\* all the yields its derived value counts, and fund:yield is debited as much,
\* also when two days are calculated at once (compute_and_record_yield).
YieldsAreBooked ==
  \A a \in Assets :
    /\ SumOver(Credits, EntriesOn("fund:treasury", a)) = AccruedYield(a)
    /\ SumOver(Debits, EntriesOn("fund:yield", a)) = AccruedYield(a)

\* A yield is calculated on a value the books had while its call ran: every yield
\* that was committed before the call began is compounded, and none that is not
\* committed when it inserts. Only days calculated at the same time miss each
\* other (compute_and_record_yield reads without a lock).
YieldsCompound ==
  \A t \in Tasks : call[t].pc = "yield_insert" =>
    LET a == call[t].asset_id IN
    /\ BaseValue(a) + call[t].asked <= call[t].total_value
    /\ call[t].total_value <= BaseValue(a) + AccruedYield(a)

\* tokens issued and not yet on chain, burned and not yet settled
Unminted(a) == Tokens(issued \ minted, a)
Unsettled(a) == Redeemed(burned \ retired, a)

\* What an Ok(true) is worth, though its five reads are of five moments: tokens
\* that are missing on chain, net of the negative mints that hide as many, are no
\* more than were issued since it summed the mints, or are hidden by rebased ones
\* (reconcile_asset).
PassedBoundsTheMissing ==
  \A t \in Tasks : call[t].pc = "matched" =>
    LET a == call[t].asset_id IN
    Unminted(a) <= (Tokens(issued, a) - call[t].total_minted) + Rebased(a)

\* A supply mismatch has a cause: something was under way when the chain was
\* asked, was booked since the sums were taken, or a rebase came on top.
AlarmsHaveACause ==
  [][\A t \in Tasks :
       LET a == call[t].asset_id IN
       call[t].pc = "ask_chain" /\ call[t]'.pc = "ask_custodian"
         /\ ~SuppliesAgree(call[t]') =>
           \/ Unminted(a) # 0 \/ Unsettled(a) # 0 \/ Rebased(a) # 0
           \/ call[t].total_minted # Tokens(issued, a)
           \/ call[t].total_redeemed # Redeemed(retired, a)]_vars

=============================================================================
