----------------------------- MODULE TokenStore -----------------------------
(***************************************************************************)
(* The PostgreSQL tables (schema.sql) that token minting and redemption    *)
(* share, the queries both services run on them, and the signing queue     *)
(* both send to.                                                           *)
(*                                                                         *)
(* PostgreSQL runs at its default READ COMMITTED level: a statement sees   *)
(* what was committed when it started, so each SELECT is one atomic step,  *)
(* and nobody sees a transaction's writes before its commit, so its        *)
(* INSERTs and its COMMIT are one step. Row locks taken by FOR UPDATE are  *)
(* variables of the modules that take them.                                *)
(*                                                                         *)
(* A row of token_mints or token_redemptions is its generated id together  *)
(* with the request it was created from; no statement of the program ever  *)
(* updates one.                                                            *)
(***************************************************************************)
EXTENDS Integers, FiniteSets, Sequences, Sums, LedgerConstraints

CONSTANTS
  Assets,              \* rwa_assets.id
  Investors,           \* investor ids
  Wallets,             \* wallet addresses, ISSUER_WALLET among them
  ISSUER_WALLET,       \* the address both services use for the issuer
  Keys,                \* idempotency keys
  MintIds,             \* the uuids a mint may get
  RedemptionIds,       \* the uuids a redemption may get
  TokenSupply,         \* legal_wrappers.token_supply of each asset that has one
  MintRequests,        \* the requests callers of mint_tokens may send
  RedemptionRequests,  \* the requests callers of request_redemption may send
  NoCaller,            \* the owner of a free row lock
  NoReq,               \* the request of an idle call
  NoId                 \* the id of a call that has none yet

\* Amounts are signed decimals in the requests and in the tables; no statement
\* but the INSERTs into the ledger looks at their sign.
MintRequestType ==
  [asset_id : Assets, investor_id : Investors, wallet_address : Wallets,
   token_amount : Int, fiat_received : Int, idempotency_key : Keys]

RedemptionRequestType ==
  [asset_id : Assets, investor_id : Investors, wallet_address : Wallets,
   token_amount : Int, idempotency_key : Keys]

\* One wrapper per asset at most, as create_legal_wrapper means it to be.
ASSUME StoreAssumption ==
  /\ ISSUER_WALLET \in Wallets
  /\ MintIds \cap RedemptionIds = {}
  /\ NoId \notin MintIds \cup RedemptionIds
  /\ NoReq \notin MintRequests \cup RedemptionRequests
  /\ DOMAIN TokenSupply \subseteq Assets
  /\ \A a \in DOMAIN TokenSupply : TokenSupply[a] \in Int
  /\ MintRequests \subseteq MintRequestType
  /\ RedemptionRequests \subseteq RedemptionRequestType

VARIABLES
  token_mints,              \* set of mint rows
  token_mint_events,        \* number of 'confirmed' events of each mint
  token_redemptions,        \* set of redemption rows
  token_redemption_events,  \* status events of each redemption, in commit order
  ledger_entries,           \* set of ledger rows
  outbox_events,            \* set of [event_type, aggregate_id, nth]
  whitelist,                \* wallets whose latest wallet_whitelist_events is a grant
  signing_queue             \* messages accepted by the queue: [action, id]

store_vars == <<token_mints, token_mint_events, token_redemptions,
                token_redemption_events, ledger_entries, outbox_events,
                whitelist, signing_queue>>

MintRows == [id : MintIds, req : MintRequests]
RedemptionRows == [id : RedemptionIds, req : RedemptionRequests]

\* RedemptionStatus, as_str
RedemptionStatuses ==
  {"pending", "approved", "burning", "burned", "settled", "failed"}

LedgerRows ==
  [event_type : {"token.mint", "token.redeem"},
   reference_id : MintIds \cup RedemptionIds, nth : Nat,
   account : {"investor:tokens", "fund:treasury", "fund:fiat", "investor:fiat"},
   owner : Investors \cup Assets,
   currency : {"TOKEN", "USD"}, debit : Nat, credit : Nat]

OutboxEventType ==
  [event_type : {"token.mint_requested", "token.mint_confirmed",
                 "token.redemption_requested", "token.redemption_settled"},
   aggregate_id : MintIds \cup RedemptionIds, nth : Nat]

MessageType == [action : {"mint", "burn"}, id : MintIds \cup RedemptionIds]

StatusEventType == [status : RedemptionStatuses, created_at : Nat]

StoreTypeOK ==
  /\ token_mints \subseteq MintRows /\ IsFiniteSet(token_mints)
  /\ token_mint_events \in [MintIds -> Nat]
  /\ token_redemptions \subseteq RedemptionRows /\ IsFiniteSet(token_redemptions)
  /\ token_redemption_events \in [RedemptionIds -> Seq(StatusEventType)]
  /\ ledger_entries \subseteq LedgerRows
  /\ outbox_events \subseteq OutboxEventType
  /\ whitelist \subseteq Wallets
  /\ signing_queue \subseteq MessageType

StoreInit ==
  /\ token_mints = {}
  /\ token_mint_events = [m \in MintIds |-> 0]
  /\ token_redemptions = {}
  /\ token_redemption_events = [r \in RedemptionIds |-> << >>]
  /\ ledger_entries = {}
  /\ outbox_events = {}
  /\ whitelist = {}
  /\ signing_queue = {}

-----------------------------------------------------------------------------
(* The derived state: every balance is a query.                            *)

MintAmount == [m \in MintRows |-> m.req.token_amount]
RedemptionAmount == [r \in RedemptionRows |-> r.req.token_amount]

\* SUM(token_amount) FROM token_mints WHERE asset_id = a
MintsOf(a) == {m \in token_mints : m.req.asset_id = a}
MintedSupply(a) == SumOver(MintAmount, MintsOf(a))

IsSettledOrBurning(id) ==
  \E k \in DOMAIN token_redemption_events[id] :
    token_redemption_events[id][k].status \in {"settled", "burning"}
\* EXISTS (... status = 'settled')
IsSettled(id) ==
  \E k \in DOMAIN token_redemption_events[id] :
    token_redemption_events[id][k].status = "settled"

SettledOfRequested(a) == {r \in token_redemptions : r.req.asset_id = a}
\* SUM(token_amount) FROM token_redemptions WHERE asset_id = a AND settled
SettledOf(a) == {r \in token_redemptions : r.req.asset_id = a /\ IsSettled(r.id)}
SettledSupply(a) == SumOver(RedemptionAmount, SettledOf(a))

\* EXISTS (... status = 'confirmed')
IsConfirmed(id) == token_mint_events[id] > 0

\* an investor's confirmed mints of an asset, and what they sum to
ConfirmedMints(i, a) ==
  {m \in MintsOf(a) : m.req.investor_id = i /\ IsConfirmed(m.id)}
Held(i, a) == SumOver(MintAmount, ConfirmedMints(i, a))

\* Supply reserved by pending and confirmed mints and not yet released.
Allocated(a) == MintedSupply(a) - SettledSupply(a)

-----------------------------------------------------------------------------
(* What the compliance service does to the one table can_transfer reads    *)
(* (Compliance shows that it does no more). The wallets of a revoked       *)
(* investor leave the whitelist one after the other here.                  *)

IsWhitelisted(w) == w \in whitelist

GrantWallet(w) ==
  /\ whitelist' = whitelist \cup {w}
  /\ UNCHANGED <<token_mints, token_mint_events, token_redemptions,
                 token_redemption_events, ledger_entries, outbox_events,
                 signing_queue>>

RevokeWallet(w) ==
  /\ IsWhitelisted(w)
  /\ whitelist' = whitelist \ {w}
  /\ UNCHANGED <<token_mints, token_mint_events, token_redemptions,
                 token_redemption_events, ledger_entries, outbox_events,
                 signing_queue>>

-----------------------------------------------------------------------------
(* Rows the services write.                                                *)

OutboxEventOfNobody(type, id, n) ==
  [event_type |-> type, aggregate_id |-> NoId, nth |-> n]
OutboxEvent(type, id, n) ==
  [event_type |-> type, aggregate_id |-> id, nth |-> n]

Entry(type, id, n, account, owner, currency, debit, credit) ==
  [event_type |-> type, reference_id |-> id, nth |-> n, account |-> account,
   owner |-> owner, currency |-> currency, debit |-> debit, credit |-> credit]

=============================================================================
