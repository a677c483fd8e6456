# RWA tokenization: a verification project

TLA+ models, TLC runs and TLAPS proofs for the real-world-asset tokenization
service in `src/` (Rust over PostgreSQL). Paths below are relative to the
repository; `minting.rs` stands for `src/src/minting.rs` and so on.

## 1. Inventory of the system

| component | code | state | operations | talks to |
|---|---|---|---|---|
| Token store | `schema.sql`, `models.rs` | append-only tables; every balance is a SUM | SQL statements of the services | all services |
| TokenMintService | `minting.rs` | `token_mints`, `token_mint_events`, ledger, outbox | `mint_tokens`, `confirm_mint` | compliance (`can_transfer`), signing queue |
| TokenRedemptionService | `redemption.rs` | `token_redemptions`, `token_redemption_events`, ledger, outbox | `request_redemption`, `settle_redemption` | compliance, signing queue, burn tracker |
| KycComplianceService | `compliance.rs` | `investor_compliance`, `wallet_whitelist_events`, `compliance_status_events`, outbox | `onboard_investor`, `revoke_whitelist`, `can_transfer` | KYC and sanctions providers |
| RwaOutboxPublisher | `outbox.rs` | `outbox_publish_log` | `poll_and_publish`, `run_forever` | all writers of `outbox_events`, Kafka |
| RwaRegistryService | `registry.rs` | `rwa_assets`, `rwa_asset_status_events`, outbox | `register_asset` | custodian registry |
| LegalWrapperService | `legal.rs` | `legal_wrappers`, `rwa_asset_status_events`, outbox | `create_legal_wrapper` | registry's tables |
| NavService | `nav.rs` | `nav_calculations`, ledger, outbox | `calculate_and_distribute_yield` | registry's tables; its event makes the outside rebase the token |
| ReconciliationService | `reconciliation.rs` | none | `reconcile_asset` | token tables, yields, chain, custodian, alerts |
| Ports, stubs, demo | `ports.rs`, `main.rs` | none | traits, stubs that approve | |

The services share nothing but the database. They call one another once
(`can_transfer`), and learn from the outside through two trackers that call
`confirm_mint` and append burn status events. The signing queue and Kafka are
written to by separate steps, not by the transaction.

What makes it hard:

- **Statements interleave.** PostgreSQL runs at READ COMMITTED. Each SELECT
  sees what was committed when it started, so two SELECTs of one transaction
  may see different states. Only two places take row locks (`legal_wrappers` in
  `mint_tokens`, `token_mints` in `request_redemption`), and the publisher a
  third.
- **`created_at` is not commit order.** `DEFAULT NOW()` is the start of the
  writing transaction, and "the latest event" (whitelist, redemption status) and
  the publisher's ORDER BY both go by it.
- **Failure.** A process may die, or lose its connection, between any two
  statements and between commit and send. Callers retry with the same key.
- **Derived state.** Supply and holdings are sums over several tables, taken by
  different statements.

What correctness means, per component: supply is never oversold, in the tables
and on chain; a key has one result; locks end with their transaction; fiat is
wired only for burned tokens; the books balance; the whitelist is what
onboardings and revocations make of it; committed events reach Kafka; an asset gets
no second wrapper once it has one; a yield is booked once and on a value the books
had; a reconciliation neither passes over missing tokens nor cries wolf without a
cause.
`PROJECT.json` lists the hazards line by line with the properties aimed at each.

## 2. The modules

    Sums, LedgerConstraints ─┬─ TokenStore ──┬── Minting ────┐
                             │               └── Redemption ─┴─ TokenLifecycle ── MCLifecycle
                             │                                    │ implements
                             │                        Issuance, Circulation
                             │                                        │ stands for the token services in
                             └─ AssetStore ──┬── Registry ────────┐   │
                                             ├── LegalWrapper ────┤   │
                                             ├── Nav ─────────────┤   │
                                             └── Reconciliation ──┴─ AssetLifecycle ── MCAssets

    Compliance ── MCCompliance          Outbox ── MCOutbox
      │ implements                        │ implements
      Whitelist                           EventDelivery

    proofs:  SumTheorems ─┬─ LifecycleTypes ─┬─ SupplyProofs ─────┬─ SettlementProofs
                          │                  └─ RedemptionProofs ─┘
                          └─ AssetProofs            OutboxProofs, ComplianceProofs

| module | models |
|---|---|
| `Sums` | `COALESCE(SUM(..), 0)` |
| `LedgerConstraints` | the CHECK constraints of `ledger_entries` |
| `TokenStore` | the tables minting and redemption share, balances, the signing queue, the whitelist as both see it |
| `Minting` | `mint_tokens` one statement per step, `confirm_mint` as one transaction |
| `Redemption` | `request_redemption`, down to the single rows it locks, and `settle_redemption` |
| `TokenLifecycle` | both, with signer, chain, trackers and revocations between them; their properties |
| `Issuance` | the promise: issue against a supply in one step, once per key; retire once |
| `Circulation` | the promise: a token is issued, minted on chain, burned on chain and retired, in this order |
| `AssetStore` | the tables of the asset services, the derived value of an asset, the tasks and their calls |
| `Registry`, `LegalWrapper`, `Nav`, `Reconciliation` | `register_asset`, `create_legal_wrapper`, `calculate_and_distribute_yield`, `reconcile_asset` |
| `AssetLifecycle` | the four at once over `Circulation` and the rebase; their properties |
| `Compliance` | onboarding, revocation and transfer check, with transaction times |
| `Whitelist` | the promise: one grant or one investor's revocations at a time |
| `Outbox` | publisher instances, writers' transactions, Kafka and its failures |
| `EventDelivery` | the promise: at-least-once delivery of committed events, and of nothing else |
| `SumTheorems` | lemmas about sums over finite sets |
| `LifecycleTypes`, `SupplyProofs`, `RedemptionProofs`, `SettlementProofs` | proofs about `TokenLifecycle` |
| `AssetProofs` | proofs about `AssetLifecycle` |
| `OutboxProofs`, `ComplianceProofs` | proofs about `Outbox` and `Compliance` |
| `MCLifecycle`, `MCAssets`, `MCCompliance`, `MCOutbox` | instances for TLC |

### How state and actions correspond to the code

*Tables* are sets of rows or, where the code asks for nothing else, counters
(`token_mint_events` is the number of `confirmed` events, the only status the
code writes there). No action updates or removes a row, as the triggers of
`schema.sql` demand. Ids are taken from a finite set. `whitelist` in `TokenStore`
is the set of wallets `is_wallet_whitelisted` answers true for; that the
compliance service changes it only by single grants and revocations is
`RefinesWhitelist`. `TokenStore` splits the revocation of several wallets into
single ones, which admits more behaviours and not fewer.

*Amounts* of mints, redemptions, fiat and supplies are integers of either sign, as the
signed decimals of `models.rs` are: nothing but the CHECKs of `ledger_entries`
(`LedgerConstraints`) looks at a sign. A mint of a negative amount passes the supply
check, is committed and lowers the sum the next call checks against; its
confirmation fails on the CHECK whenever it is tried, and the token contract, whose
amounts are unsigned, never executes its message (`ChainMint`, `ChainBurn`).

*Calls* are frames (`mint_call[c]`, `redeem_call[c]`, `settle_call[s]`,
`onboard_call[c]`, `revoke_call[c]`, `check_call[c]`, `publisher[p]`) with a
program counter and the local variables that outlive a statement. One SELECT is one
step. The INSERTs of a transaction together with its COMMIT are one step, for
nobody can see them earlier. An exception is a `confirm_mint`, which is one step
altogether: it reads one immutable row. A call that fails leaves an idle frame.

*Errors and crashes* are `MintFail`, `RedeemFail`, `SettleFail`, `OnboardFail`,
`RevokeFail`, `CheckFail`, `PublisherFails`: possible at every step, they drop the
frame, roll back and release the locks. A COMMIT whose answer is lost is the commit
followed by the failure. A send whose answer is lost is the second disjunct of
`MintSend`, `RedeemSend` and `SendFails`.

*Locks*: `wrapper_lock` is FOR UPDATE on `legal_wrappers`; `mint_row_lock` is FOR
UPDATE on `token_mints`, which `confirm_mint` waits for as well, because its insert
into `token_mint_events` needs a key-share lock on the row; `row_lock` is FOR
UPDATE SKIP LOCKED in the publisher. A redemption takes its rows one by one:
`RedeemScanBalance` is the snapshot of the statement (`wanted`), `RedeemLockRow`
takes any one of them that is free, for the statement has no ORDER BY. Two calls may
so wait for each other (`Deadlocked`); PostgreSQL fails one of the statements,
which is `RedeemFail`. The asset services take no lock at all.

*The claiming statement of the publisher* is two steps, `ClaimScan` and
`ClaimLock`: the join is evaluated on the snapshot and the lock taken
afterwards, and PostgreSQL re-evaluates the condition only for a row that was
updated, which an `outbox_events` row never is.

*Time*: `Compliance` and `Outbox` count transactions as they begin. In `Redemption`
the times of status events are counted per redemption, in burn events.

The asset services keep the status events of an asset in commit order, which here
gives the same latest status as `created_at`: a wrapper's transaction can begin only
after the registration has committed, and the events of two wrappers are alike.

*The asset services* are called by `Tasks`, each of which runs one call at a time,
of any of the four services. A call is a frame again; `TaskFail` is what goes wrong
with it. Two fields of frames are not in the code and no action reads them:
`late` (the asset had a wrapper when the call began) and `asked` (the yield accrued
at that moment) state properties about the past of a call. Decimals are integers and
the daily yield is rounded down, so a yield may be 0, which the ledger's
CHECK refuses as it does a negative one. Values, rates and supplies
may be negative or 0, as nothing in the code checks them; the division by a supply of
0 is a panic. The price per token is left out, for nothing reads it.

*Reconciliation* sees the token services as two sums and `totalSupply()`.
`AssetLifecycle` therefore runs over `Circulation`, and `RefinesCirculation` shows
that `TokenLifecycle` implements it. `IssueTokens` adds that a mint needs a wrapper
with room. The rebase, which "triggers" on a yield event, and the custodian are
outside: the rebase happens once for each event at any time after it, the
custodian reports one of a few values. (The stubs of `main.rs` answer both
questions from the database that is being checked, so they cannot disagree; they
are not what the services are written for.)

*The outside of the token services*, from how the code uses it: messages are executed at most once (they carry
deduplication ids), in any order; a mint is confirmed after it happened; the
burn tracker appends `approved`, `burning`, `burned` or `failed`; the token contract
burns what the wallet holds at most. The KYC and sanctions providers
answer the same for an investor at all times, and are asked in the step that
starts the onboarding: they read no table.

## 3. The runs

| run | instance | states | checks |
|---|---|---|---|
| `MCMinting` | 2 callers, supply 3, requests for 3, for 2, for -1, and for an asset without wrapper | 92 thousand | `AllocatedWithinSupply`, `OneResultPerKey`, `LocksAreHeldByTheirCalls`, `SupplyReadsAreCurrent`, `RevocationEndsMints`, `MintCallsReturn` |
| `MCRedemption` | two mint rows of 1, 2 callers that redeem both rows with one key | 121 thousand | `RedemptionBacked`, `RedemptionResultPerKey`, `MintRowsHeldByTheirCalls`, `RedeemCallsReturn` |
| `MCSettlement` | 2 mints of 2 and one of -1 against a supply of 3, one redemption, 2 settling tasks | 318 thousand | `TypeOK`, `SupplyReadsAreCurrent`, `OnChainWithinSupply`, `ChainWithinBooks`, `SettledOnlyAfterBurn`, `SettlementsAreBounded`, `OnlyPositiveAmountsMove`, `LedgerBalanced`, `RefinesIssuance`, `RefinesCirculation` |
| `MCAssets` | 2 tasks, one asset registered and wrapped twice, 2 yields of 365 and 366, 2 mints of 365 or -365 and 1 redemption of 365, rebases, 2 custodian reports | 660 thousand | `TypeOK`, `KeysNameOneRow`, `LateWrapIsRefused`, `WrappersAreBounded`, `YieldsAreBooked`, `YieldsCompound`, `PassedBoundsTheMissing`, `AlarmsHaveACause` |
| `MCOutbox` | 2 publishers, 2 events, batch of 2, 1 failure | 6 thousand | `TypeOK`, `ClaimsAreExclusive`, `NoEventLost`, `CopiesAreBounded`, `DeliversAtLeastOnce` |
| `MCCompliance` | 2 onboarders, 1 revoker, 1 checker, 3 transactions, 5 requests of 3 investors | 1.2 million | `TypeOK`, `OneRecordPerKey`, `OnlyScreenedInvestors`, `RevocationReachesKnownWallets`, `TransfersBetweenGranted`, `RefinesWhitelist` |

**What they show.** `MCMinting`: the lock and the order of the two sums make the
supply check safe although settlements do not take part in the lock, and a caller
gets its row in the end; and once a wallet is revoked its mints grow only by calls that
had read the whitelist before. The run has no redemptions; that the second of the two
sums stays right while settlements go on is checked by the same property,
`SupplyReadsAreCurrent`, in `MCSettlement`. `MCRedemption`: a single redemption is never for more
than the confirmed mints of its investor, the row locks are those of running calls,
and every call returns, although the two may lock the rows in opposite orders. `MCSettlement`: the second mint of 2 fits
only once the first has been redeemed, or after the mint of -1, so the run goes
through the whole life of a token and reuses the supply. The chain shows no more
than the legal supply and what negative mints took off the books (`Understated`),
although supply is tracked in tables alone and messages are executed in any order, and
no more than the mints that are not negative less the settled redemptions, also where no legal
supply bounds them: without negative mints these are the bounds README.md:116 promises, with them
the excess is their own amount at most. `OnlyPositiveAmountsMove`
says why a negative or empty request does no more harm than that: it is never
confirmed nor settled, so it gives nobody holdings and releases nothing.
Nothing stops a redemption from being settled twice, but each task does it twice at
most. `RefinesIssuance`
says that all of it looks like atomic issues and retirements, also when two
settlements of one redemption race; `RefinesCirculation` that the four stations of a
token keep their order. `MCAssets`: what the unlocked reads of the asset services are
still good for. A call that begins after a wrapper exists is refused, so only calls
at the same time can create two, and there are never more wrappers of an asset than
tasks. A yield is calculated on a value between the
one when its call began and the one when it is booked, so only days calculated at the
same time fail to compound each other. A reconciliation reads five values at five
moments; if it passes, the tokens missing on chain are at most those issued since
its first sum, or hidden by as many rebased ones; and a supply mismatch it finds
comes from something under way, something booked since, or a rebase. `MCOutbox`: no crash, time-out or pair of
publishers loses an event, and the number of copies is bounded.
`MCCompliance`: nobody the providers turn down has a compliance record, a grant or an
announcement, and no grant is without its record; a revocation reaches each wallet that was on record when it
began, unless an onboarding that had not committed by then grants it anew.

**Bounds.** The races of interest are between two calls, or a call and an outside
event: two callers of each kind are in each run that is about them. Amounts are the
smallest ones for which two requests conflict. `MaxConfirms` bounds how often
`confirm_mint` runs for one mint, `MaxTransactions` the transactions of
`Compliance` (an onboarding, a revocation and a renewed onboarding are three),
`MaxFailures` the failures of `Outbox`. Calls are unbounded: a caller may call again
for ever. In `MCAssets` the first yield is as large as each mint and the
redemption, so that a rebase can hide a missing mint exactly, which is the case its
reconciliation properties are about. The two onboarders of `MCCompliance` are symmetric,
so are the ids of mints and the settling tasks in `MCSettlement`, and the
tasks, the ids of the mints and those of wrappers and yields in `MCAssets`; these
runs have safety properties only. Redemptions have positive amounts in the runs; the
proofs take any. Deadlock is checked except in `MCOutbox` (when all is published
nothing is left) and `MCCompliance` (when the transactions are used up).

**Fairness.** `TokenLifecycle!FairSpec`: a running call executes its next statement
(weak fairness of the statements), and PostgreSQL serves the waiters of a row in
the order they came, so the acquisition of a lock is strongly fair. It detects a
deadlock and fails a statement of it (weak fairness of `BreakDeadlock`, which is
`RedeemFail` of a deadlocked call); no other failure is owed.
Nothing makes a call start, an outsider act, or a failure happen. `Outbox!FairSpec`:
`run_forever` polls for ever, and a poll in progress goes on (weak fairness per
instance). Failures are bounded, which is the assumption that the broker
recovers; writers owe nothing.

### Where documents and code part

Each of these runs checks one property and TLC finds it violated.

| run | property | document | code |
|---|---|---|---|
| `VConfirmedOnce` | a mint is confirmed once | README.md:62, every write is keyed and safe to retry | `confirm_mint` has no key and books again |
| `VSettledOnce` | a redemption is settled once | README.md:65, requires BURNED; README.md:50, reads under a lock | two calls both read `burned`, both wire |
| `VHoldings` | open redemptions are covered by holdings | README.md:118, the balance is locked | earlier redemptions are never subtracted |
| `VEnqueued` | an Ok means the mint is enqueued | README.md:56 and 62 | a retry after a crash returns the row and sends nothing |
| `VSentOnce` | without failures one copy | outbox.rs:61 | snapshot first, lock after |
| `VRevoked` | after the revocation the wallet is out | compliance.rs:121 | its events may be older than the grant it read |

Other differences seen on the way, without a run:

- a mint of a negative amount oversells: on a supply of 3, mints of -1, 2 and 2 all pass
  the check and the chain comes to show 4, where README.md:116 says that the derived
  supply prevents overselling. `OnChainWithinSupply` states the bound that does
  hold; without its term `Understated`, TLC refutes it in `MCSettlement`;
- two calls at once with one key both miss the lookup, and the later INSERT fails on the
  UNIQUE column: that caller gets a database error where README.md:62 promises "the
  first call's result", and gets the row when it calls again. `OneResultPerKey`,
  `RedemptionResultPerKey`, `OneRecordPerKey` and `KeysNameOneRow` permit this, for
  they speak of rows and of calls that return Ok;
- a mint of no tokens or without fiat is accepted and holds back its supply, but can
  never be confirmed; nor is supply given back that a mint never signed or never
  confirmed holds (`minting.rs:272`);
- a mint may commit after the revocation of its wallet: the whitelist is read before
  the transaction, and the two answers of `can_transfer` are of two moments.
  `RevocationEndsMints` says how many can: the calls that had their answer;
- publishers' batches overlap; no code reads `expires_at`;
- the latest status of a settled redemption may go on being `burned`, because the
  settlement's `created_at` is older than the burn event it read. One task alone can
  therefore settle twice, with a call that began before the burn was reported and one
  that began after it. `SettlementsAreBounded` says that it cannot a third time: the
  event of the second call is the latest one for good;
- `legal.rs` takes no lock on `rwa_assets`, so two calls at once create two wrappers
  (README.md:50 says that the status is read under a lock). `WrappersAreBounded` bounds
  them by the tasks that call it;
- the key of a yield alone decides about a replay: a call for another asset with the
  same key is answered with the first one's yield;
- a rebase makes `totalSupply()` differ from minted less settled for good, so the
  first yield with a rebase makes every later reconciliation raise an alarm;
- a mismatch raises an alert and halts nothing (README.md:122).

## 4. The proofs

All theorems hold for every value of the constants that meets the named
assumptions (`StoreAssumption`, `MintAssumption`, `RedemptionAssumption`,
`OutboxAssumption`, `ComplianceAssumption`, `AssetAssumption`, `CirculationAssumption`).
The assumptions fix the types of requests and ids, keep "nobody" and "no request" apart
from the real ones, and take the publishers, the callers of `mint_tokens`, the tasks
that settle and the tasks of the asset services to be finitely many: processes are, and
four bounds count them. Every safety property that a passing run checks is proved.

- `SumTheorems`: a sum of integers over a finite set is an integer, adding an element adds
  its value, a set may be summed in two parts, elements that are not negative never lower
  a sum.
  `MapThenSumSet` is a fold over a recursive *function*, so these are provable by the
  library's facts about finite sets; a smallest counterexample replaces induction.
- `LifecycleTypes`, and the first part of `AssetProofs`: `Spec => []TypeOK`, one lemma per actor;
  and `MovedInv`, that ids name one row, events have rows, and (`OnlyPositiveAmountsMove`)
  what is confirmed or settled has passed the CHECKs of the ledger. With amounts
  of either sign this is what makes holdings and released supply only grow. The sets of
  requests and ids may be infinite: that the tables are finite, which the sums need, is
  part of the types and preserved because rows are added one at a time.
- `SupplyProofs`: `AllocatedWithinSupply` is not inductive: a call may insert because of
  sums it took earlier, so the invariant must say that these are right. The
  strengthening is `SupplyInv`, on top of `TypeOK`: `AllocatedWithinSupply`,
  `SupplyReadsAreCurrent` and `LocksAreHeldByTheirCalls`. The lock makes a
  call the only one in the critical section of its asset, so the sum of mints cannot move
  (whoever inserts holds the same lock); settlements only add to the
  settled redemptions, whose amounts are positive by `MovedInv`, so the other sum only grows
  and the call is at worst too cautious. `OneMintPerKey` adds that a call past its insert has the row of
  its key. `RevocationIsObeyed` is an action property from the types alone: while a
  wallet is off the whitelist no call joins `Cleared`, the calls that were told it is on
  it, and the one that inserts a mint leaves it with the same step.
- `RedemptionProofs`: `BalanceInv`, that a call waits for, and holds, confirmed rows of its
  investor only, and that the sum it has read is still backed. Confirmations are
  never undone and are of positive amounts, so a balance only grows, and what a call has summed stays true
  whatever other redemptions do. Hence `MintRowsHeldByTheirCalls` and
  `RedemptionBacked`; `RedemptionResultPerKey` as for mints. `WaitsAreLocal` is a theorem
  only: whoever waits for a row and whoever holds it redeem the same investor's tokens
  of the same asset, so all parties of a deadlock do. To say something it needs a second
  balance, with which `MCRedemption`, liveness included, takes too long; TLC checked it on
  such an instance without liveness before it was proved.
- `SettlementProofs`: `settle_redemption` acts on a status it read earlier, without a lock.
  `BurnInv` says why this does no harm on this side: a status `burned` follows the
  burn, burns are not undone, so a call past its check is about burned tokens even if its
  status is stale. It also says that what is on chain is not negative. From it
  `SettledOnlyAfterBurn`; `OnChainWithinSupply` from the supply and `ChainBehindBooks`. `RefinesCirculation` needs more: the contract checks the balance
  of one wallet, `Circulation` speaks of the whole asset. `Covered`, that the burns of any
  *set* of wallets are covered by the mints to them, is inductive: split the set into the
  wallet that burns and the others. `RefinesIssuance` follows from the same account of
  the steps. `LedgerBalanced` needs `BooksInv`: every ledger row belongs to an event
  that has happened, so the four rows of the next event are new, and each pair adds
  the same amount to both sums of its currency. `ChainBehindBooks` puts `Covered` and
  the order of the stations together: what an asset shows on chain is not negative and
  not more than the tables account for. The tables' sum is split into its mints of
  either sign (`BooksRestated`): `Allocated(a) + Understated(a)` is the sum without the
  negative ones, and every mint on chain is among the others. `SettlementInv` counts the settlements of a
  redemption in two parts. A call that began before the last report of the tracker is
  `Straddling`: its settlement leaves the status `burned`, each task has one such call
  at most, and once the burn is reported none begins any more. A call that began after
  it writes the latest status for good, so once it has committed only the calls
  already past their check (`Sealing`) can settle again, one for each task.
- `AssetProofs`: keys; `WrapInv`, that a wrapped asset is past `pending_legal` for good, so a call
  that found the old status began before the first wrapper; `CountInv`, that the wrappers
  of an asset and the calls about to insert one are together no more than the tasks,
  because after the first wrapper no call joins them, from which
  `SingleTaskWrapsOnce`: callers that wait for each other give an asset one wrapper;
  `YieldInv`, that what was
  accrued when a call began still is; `SupplyInv`, which bounds what each stage of a
  reconciliation may have missed by what was issued, burned or rebased since;
  `BookInv`, that every ledger row belongs to a yield on record, so both accounts grow
  by what `nav_calculations` grows by. `AlarmsHaveACause` is an action property
  from the same invariant.
- `OutboxProofs`: `TypeCorrect`; `OutboxInvariant` (types, exclusive claims, no event lost, batches of
  committed events only), from which `NoEventLost` and `ClaimsAreExclusive` follow; `DeliversSafely`,
  the safety part of the refinement of `EventDelivery`, step by step; and
  `SingleInstanceKeepsOrder`: with a single publisher, whatever was
  committed before an event's transaction began reaches Kafka before that event.
  The argument: a batch is sorted by `created_at`, everything committed before an
  event's transaction began is older than it, so it is already published or earlier
  in the batch, and a failed send ends the batch. `CopiesAreBounded` needs a count per
  event (`CountedCopies`): until the event is logged, only a failure repeats it; from
  then on, only the instances already past the check, each of which sends it once.
  `SingleInstanceSendsOnce` is the other side of `VSentOnce`: that bound for one
  publisher, for which the sentence of outbox.rs:61 is true.
- `ComplianceProofs`: `Clocked`, an account of transactions and their times: no two share
  one, a running transaction has written nothing yet, what was committed when one began
  is older than it, and every row is announced by the one event of its transaction. From
  it: a grant and a revocation never tie, so a wallet that is on the whitelist has a
  grant younger than all its revocations; a revocation has read every row that was
  committed when it began (`RevokersHaveRead`), hence `RevocationReachesKnownWallets`; a
  later event is of a transaction no check had asked about, hence
  `TransfersBetweenGranted`. `RefinesWhitelist` follows from the types alone: a grant
  cannot take a wallet off the list and a revocation cannot put one on it.

Only model-checked: liveness (`MintCallsReturn`, `RedeemCallsReturn`, the fair part
of `DeliversAtLeastOnce`), which needs fairness and ENABLED, out of the prover's reach.

## 5. Not modelled, and the plan

Not modelled: logging, error texts, JSON payloads, decimals as such (rounding apart),
tiers, jurisdictions, and expiry dates, which no code reads. The stubs and the demo of
`main.rs` have no logic of their own: the stubs approve, or answer from the database
what the other side should say, and the demo is one sequential scenario. The oracle
port is called by nobody. `TokenStore` takes an asset to have one wrapper at most, as
`create_legal_wrapper` means it to and, by `SingleTaskWrapsOnce`, does when its callers
wait for each other; with two, `mint_tokens` locks and checks whichever
row its query returns first, and the supply bound would be that of a row the code
does not choose.

Planned: two wrappers of one asset in `TokenStore`, with a lock per row.
