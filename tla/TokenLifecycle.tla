--------------------------- MODULE TokenLifecycle ----------------------------
(***************************************************************************)
(* Minting and redemption together, over the tables of TokenStore, with    *)
(* the outside world they meet: investors whose wallets are granted and    *)
(* revoked, the signer and the chain behind the signing queue, and the     *)
(* trackers that report what the chain did. The outside is modelled from   *)
(* how the services use it: a mint is confirmed after it happened on       *)
(* chain, a burn is reported 'burned' after it did, and messages of the    *)
(* queue are executed at most once each (they carry a deduplication id),   *)
(* in any order. The token contract takes unsigned amounts: a message with *)
(* a negative one is never executed.                                       *)
(***************************************************************************)
EXTENDS Minting, Redemption

VARIABLES
  chain_minted,   \* mint ids executed on chain
  chain_burned    \* redemption ids burned on chain

chain_vars == <<chain_minted, chain_burned>>
vars == <<store_vars, mint_vars, redemption_vars, chain_vars>>

TypeOK ==
  /\ StoreTypeOK
  /\ MintTypeOK
  /\ RedemptionTypeOK
  /\ chain_minted \subseteq MintIds
  /\ chain_burned \subseteq RedemptionIds

Init ==
  /\ StoreInit
  /\ MintInit
  /\ RedemptionInit
  /\ chain_minted = {}
  /\ chain_burned = {}

-----------------------------------------------------------------------------
(* The chain and the trackers.                                             *)

\* tokens the chain shows in a wallet, and in all wallets
OnChain(S, T) == SumOver(MintAmount, {m \in S : m.id \in chain_minted})
                 - SumOver(RedemptionAmount, {r \in T : r.id \in chain_burned})
WalletBalance(w, a) ==
  OnChain({m \in MintsOf(a) : m.req.wallet_address = w},
          {r \in token_redemptions :
             r.req.asset_id = a /\ r.req.wallet_address = w})
OnChainSupply(a) ==
  OnChain(MintsOf(a), {r \in token_redemptions : r.req.asset_id = a})

ChainMint(m) ==
  /\ [action |-> "mint", id |-> m.id] \in signing_queue
  /\ m.id \notin chain_minted
  /\ MintAmount[m] >= 0
  /\ chain_minted' = chain_minted \cup {m.id}
  /\ UNCHANGED <<store_vars, mint_vars, redemption_vars, chain_burned>>

\* The burn tracker: approved, burning, then burned or failed.
TrackBurn(r, status) ==
  /\ \/ status = "approved" /\ LatestIs(r.id, "pending")
     \/ /\ status = "burning" /\ LatestIs(r.id, "approved")
        /\ [action |-> "burn", id |-> r.id] \in signing_queue
     \/ /\ status = "burned" /\ LatestIs(r.id, "burning")
        /\ r.id \in chain_burned
     \/ /\ status = "failed" /\ LatestIs(r.id, "burning")
        /\ r.id \notin chain_burned
  /\ AppendStatus(r.id, status, 2 * (Cardinality(BurnEvents(r.id)) + 1))
  /\ UNCHANGED <<token_mints, token_mint_events, token_redemptions,
                 ledger_entries, outbox_events, whitelist, signing_queue,
                 mint_vars, redemption_vars, chain_vars>>

\* The token contract burns only what the wallet holds.
ChainBurn(r) ==
  /\ LatestIs(r.id, "burning")
  /\ r.id \notin chain_burned
  /\ 0 <= r.req.token_amount
  /\ r.req.token_amount <= WalletBalance(r.req.wallet_address, r.req.asset_id)
  /\ chain_burned' = chain_burned \cup {r.id}
  /\ UNCHANGED <<store_vars, mint_vars, redemption_vars, chain_minted>>

-----------------------------------------------------------------------------

MintStep(c) ==
  \/ \E req \in MintRequests : MintReplay(c, req) \/ MintStart(c, req)
  \/ MintCheckSender(c) \/ MintCheckReceiver(c)
  \/ MintLockSupply(c) \/ MintSupplyNotFound(c)
  \/ MintSumMinted(c) \/ MintSumRedeemed(c)
  \/ MintInsert(c) \/ MintReject(c)
  \/ MintSend(c) \/ MintFail(c)

RedeemStep(c) ==
  \/ \E req \in RedemptionRequests : RedeemReplay(c, req) \/ RedeemStart(c, req)
  \/ RedeemCheckSender(c) \/ RedeemCheckReceiver(c)
  \/ RedeemScanBalance(c) \/ RedeemLockRow(c) \/ RedeemSumBalance(c)
  \/ RedeemInsert(c) \/ RedeemReject(c)
  \/ RedeemSend(c) \/ RedeemFail(c)

SettleStep(s) ==
  \/ \E id \in RedemptionIds : SettleBegin(s, id)
  \/ SettleReadStatus(s) \/ SettleCommit(s) \/ SettleFail(s)

MintStepOf(c) == MintStep(c) /\ UNCHANGED <<redemption_vars, chain_vars>>
RedeemStepOf(c) == RedeemStep(c) /\ UNCHANGED <<mint_vars, chain_vars>>
SettleStepOf(s) == SettleStep(s) /\ UNCHANGED <<mint_vars, chain_vars>>

Confirm(m) ==
  /\ m.id \in chain_minted
  /\ ConfirmMint(m, LockedMints)
  /\ UNCHANGED <<redemption_vars, chain_vars>>

Compliance(w) ==
  /\ GrantWallet(w) \/ RevokeWallet(w)
  /\ UNCHANGED <<mint_vars, redemption_vars, chain_vars>>

Next ==
  \/ \E c \in MintCallers : MintStepOf(c)
  \/ \E c \in RedeemCallers : RedeemStepOf(c)
  \/ \E s \in SettleCallers : SettleStepOf(s)
  \/ \E m \in token_mints : Confirm(m) \/ ChainMint(m)
  \/ \E r \in token_redemptions :
       \/ ChainBurn(r)
       \/ \E status \in RedemptionStatuses : TrackBurn(r, status)
  \/ \E w \in Wallets : Compliance(w)

Spec == Init /\ [][Next]_vars

\* A call that is running keeps executing its next statement, and PostgreSQL
\* grants a row lock to its waiters in the order they came, so a waiter is not
\* overtaken for ever (strong fairness). It ends a deadlock by failing one of the
\* calls in it. Nothing else obliges a call to fail, and nothing obliges one to
\* start, a wallet to be granted, or the chain to act.
MintProgress(c) ==
  /\ \/ MintCheckSender(c) \/ MintCheckReceiver(c) \/ MintSupplyNotFound(c)
     \/ MintSumMinted(c) \/ MintSumRedeemed(c)
     \/ MintInsert(c) \/ MintReject(c) \/ MintSend(c)
  /\ UNCHANGED <<redemption_vars, chain_vars>>
MintGetLock(c) == MintLockSupply(c) /\ UNCHANGED <<redemption_vars, chain_vars>>

RedeemProgress(c) ==
  /\ \/ RedeemCheckSender(c) \/ RedeemCheckReceiver(c)
     \/ RedeemScanBalance(c) \/ RedeemSumBalance(c)
     \/ RedeemInsert(c) \/ RedeemReject(c) \/ RedeemSend(c)
  /\ UNCHANGED <<mint_vars, chain_vars>>
RedeemGetLock(c) == RedeemLockRow(c) /\ UNCHANGED <<mint_vars, chain_vars>>
BreakDeadlock(c) ==
  Deadlocked(c) /\ RedeemFail(c) /\ UNCHANGED <<mint_vars, chain_vars>>

Fairness ==
  /\ \A c \in MintCallers : WF_vars(MintProgress(c)) /\ SF_vars(MintGetLock(c))
  /\ \A c \in RedeemCallers :
       /\ WF_vars(RedeemProgress(c)) /\ SF_vars(RedeemGetLock(c))
       /\ WF_vars(BreakDeadlock(c))

FairSpec == Spec /\ Fairness

-----------------------------------------------------------------------------
(* Safety.                                                                 *)

\* Supply: the tokens reserved by mint rows, less those released by settled
\* redemptions, never exceed the legal supply, however many calls of
\* mint_tokens check it at the same time (minting.rs, FOR UPDATE and the
\* sums read under it). A legal supply may be negative too: then nothing is
\* minted.
AllocatedWithinSupply ==
  \A a \in DOMAIN TokenSupply : MintsOf(a) # {} => Allocated(a) <= TokenSupply[a]

\* What mint rows of negative amounts take off the books of an asset.
Understated(a) == -SumOver(MintAmount, {m \in MintsOf(a) : MintAmount[m] < 0})

\* The same for what the chain really shows, whatever order mints, burns,
\* confirmations and settlements are executed in: supply is reserved before
\* a token exists and released only after it is burned. mint_tokens accepts
\* negative amounts, and those do oversell: a mint of -1 leaves room for one
\* token more than the legal supply. Nothing else does, and not by more.
OnChainWithinSupply ==
  \A a \in DOMAIN TokenSupply :
    MintsOf(a) # {} => OnChainSupply(a) <= TokenSupply[a] + Understated(a)

\* The books are never further behind the chain than their negative mints put
\* them: it shows no more tokens of an asset than its other mints less its settled
\* redemptions, and what was burned had been minted, also for an asset without a
\* wrapper. reconcile_asset compares these two.
ChainWithinBooks ==
  \A a \in Assets :
    0 <= OnChainSupply(a) /\ OnChainSupply(a) <= Allocated(a) + Understated(a)

\* A mint of no tokens or no fiat, or less, is never confirmed, and such a
\* redemption never settled: their rows are accepted and for ever pending, so
\* what is held and what is released only grows (confirm_mint, settle_redemption
\* and the CHECKs of ledger_entries).
OnlyPositiveAmountsMove ==
  /\ \A m \in token_mints : IsConfirmed(m.id) =>
       m.req.token_amount > 0 /\ m.req.fiat_received > 0
  /\ \A r \in token_redemptions : IsSettled(r.id) => r.req.token_amount > 0

\* The mints that take tokens from or to a wallet, and the calls that were told
\* that the wallet is on the whitelist and have inserted nothing yet.
MintsWith(w) == {m \in token_mints : w \in {ISSUER_WALLET, m.req.wallet_address}}
Cleared(w) ==
  {c \in MintCallers :
     \/ /\ mint_call[c].pc \in {"lock_supply"} \cup MintLocked
        /\ w \in {ISSUER_WALLET, Req(c).wallet_address}
     \/ mint_call[c].pc = "check_receiver" /\ mint_call[c].sender_ok /\ w = ISSUER_WALLET}

\* The whitelist is read before the transaction, so a mint may follow the
\* revocation of its wallet; but only calls that had asked before it, each once:
\* while a wallet is off the whitelist its mints and the calls that may still add
\* one are never more than they were (mint_tokens, can_transfer).
RevocationEndsMints ==
  [][\A w \in Wallets \ whitelist :
       Cardinality(MintsWith(w)') + Cardinality(Cleared(w)')
         <= Cardinality(MintsWith(w)) + Cardinality(Cleared(w))]_vars

\* Retries: a key never names two mints, and every call that returned Ok for
\* a key returned its row (find_by_idempotency_key, the UNIQUE column).
OneResultPerKey ==
  /\ \A m, n \in token_mints :
       m.req.idempotency_key = n.req.idempotency_key => m = n
  /\ \A c \in MintCallers : mint_call[c].pc = "ok" =>
       \E m \in token_mints :
         /\ m.id = mint_call[c].id
         /\ m.req.idempotency_key = Req(c).idempotency_key

\* The same of request_redemption.
RedemptionResultPerKey ==
  /\ \A r, q \in token_redemptions :
       r.req.idempotency_key = q.req.idempotency_key => r = q
  /\ \A c \in RedeemCallers : redeem_call[c].pc = "ok" =>
       \E r \in token_redemptions :
         /\ r.id = redeem_call[c].id
         /\ r.req.idempotency_key = RReq(c).idempotency_key

\* No single redemption is for more than the investor's confirmed mints
\* (lock_balance_and_create_redemption).
RedemptionBacked ==
  \A r \in token_redemptions :
    r.req.token_amount <= Held(r.req.investor_id, r.req.asset_id)

\* Fiat is wired only for tokens that left the chain: a settled redemption
\* was burned, in spite of the unlocked status check (settle_redemption).
SettledOnlyAfterBurn ==
  \A e \in outbox_events :
    e.event_type = "token.redemption_settled" => e.aggregate_id \in chain_burned

\* The unlocked check lets a redemption be settled more than once, but not for
\* ever: a settling task orders its wire at most twice, once by a call that began
\* before the burn was reported, whose event is older than the report, and once by
\* a call that began after it, whose event ends it (settle_redemption).
SettlementsAreBounded ==
  \A id \in RedemptionIds : Settlements(id) <= 2 * Cardinality(SettleCallers)

\* The legal_wrappers row is locked by a call from its first read of the supply
\* to its commit, and by nobody else: the lock never outlives the transaction
\* and never changes hands within it (lock_supply_and_create_mint).
LocksAreHeldByTheirCalls ==
  \A c \in MintCallers, a \in DOMAIN TokenSupply :
    wrapper_lock[a] = c <=>
      mint_call[c].pc \in MintLocked /\ Req(c).asset_id = a

\* What the lock is for: between its sums and its commit a call's picture of the
\* supply is never too optimistic. No mint can be added behind its back, and a
\* redemption that settles meanwhile only frees more than it has seen.
SupplyReadsAreCurrent ==
  \A c \in MintCallers :
    LET call == mint_call[c]
        a == Req(c).asset_id
    IN /\ call.pc \in MintLocked => a \in DOMAIN TokenSupply
       /\ call.pc \in {"sum_redeemed", "insert"} => call.total_minted = MintedSupply(a)
       /\ call.pc = "insert" => call.total_redeemed <= SettledSupply(a)

\* A locked token_mints row is a confirmed row of the investor and asset that a
\* running redemption is about, which does not wait for it, so that a call never
\* waits for itself (lock_balance_and_create_redemption).
MintRowsHeldByTheirCalls ==
  \A m \in LockedMints :
    LET c == mint_row_lock[m] IN
    /\ redeem_call[c].pc \in RedeemLocked
    /\ m \notin redeem_call[c].wanted
    /\ m \in {n.id : n \in ConfirmedMints(RReq(c).investor_id, RReq(c).asset_id)}

Debits == [e \in LedgerRows |-> e.debit]
Credits == [e \in LedgerRows |-> e.credit]
Booked(id, cur) ==
  {e \in ledger_entries : e.reference_id = id /\ e.currency = cur}

\* Every event of a mint or a redemption is booked by the same transaction:
\* for each of them and each currency, what is debited is credited, however
\* often it is confirmed or settled.
LedgerBalanced ==
  \A id \in MintIds \cup RedemptionIds, cur \in {"TOKEN", "USD"} :
    SumOver(Debits, Booked(id, cur)) = SumOver(Credits, Booked(id, cur))

-----------------------------------------------------------------------------
(* Refinement and liveness.                                                *)

I == INSTANCE Issuance WITH
       issued <- token_mints,
       retired <- {r \in token_redemptions : IsSettled(r.id)}

\* Seen through the tables, the services issue and retire atomically.
RefinesIssuance == I!Spec

C == INSTANCE Circulation WITH
       issued <- token_mints,
       minted <- {m \in token_mints : m.id \in chain_minted},
       burned <- {r \in token_redemptions : r.id \in chain_burned},
       retired <- {r \in token_redemptions : IsSettled(r.id)}

\* A token passes its four stations in order: the chain shows only what the
\* tables have issued and the tables retire only what the chain has burned,
\* though status, queue and chain are read at different moments. This is what
\* a reconciliation of the two may rely on (AssetLifecycle).
RefinesCirculation == C!CirculationSpec

(* What the documents say and the code does not do.                        *)

\* "Every write operation accepts a caller-supplied idempotency_key" and is
\* "safe to retry" (README.md:62): a mint is confirmed once. confirm_mint
\* takes no key and does not look at earlier events.
ConfirmedOnce == \A m \in MintIds : token_mint_events[m] <= 1

\* "settle_redemption() requires BURNED before settling fiat" (README.md:65):
\* a redemption is settled, and its wire ordered, once. The status is read
\* without a lock and two calls may both find it burned.
SettledOnce == \A r \in RedemptionIds : Settlements(r) <= 1

\* The redemption "locks the investor's confirmed token balance"
\* (README.md:118): what open and settled redemptions take is covered by what
\* the investor holds. Rows are locked, but an earlier redemption never
\* reduces the sum.
RedemptionsWithinHoldings ==
  \A i \in Investors, a \in Assets :
    SumOver(RedemptionAmount,
            {r \in token_redemptions :
               r.req.investor_id = i /\ r.req.asset_id = a
               /\ ~LatestIs(r.id, "failed")}) <= Held(i, a)

\* "There is no dual-write inconsistency" (README.md:56) and a retry after a
\* crash "returns the first call's result" (README.md:62): a call that
\* returned Ok has its mint in the signing queue. A crash between the commit
\* and the send leaves a row that the retry returns without sending it, with
\* its outbox event alone to tell.
OkIsEnqueued ==
  \A c \in MintCallers : mint_call[c].pc = "ok" =>
    [action |-> "mint", id |-> mint_call[c].id] \in signing_queue

-----------------------------------------------------------------------------
\* Every call of mint_tokens comes back: nobody waits for ever on the
\* legal_wrappers row.
MintCallsReturn ==
  \A c \in MintCallers :
    mint_call[c].pc \in MintRunning ~> mint_call[c].pc \in MintDone

\* The same of request_redemption and the rows it locks, though two calls that
\* lock them in different orders deadlock.
RedeemCallsReturn ==
  \A c \in RedeemCallers :
    redeem_call[c].pc \in RedeemRunning ~> redeem_call[c].pc \in CallDone

=============================================================================
