----------------------------- MODULE Redemption ------------------------------
(***************************************************************************)
(* TokenRedemptionService (redemption.rs): request_redemption, called by   *)
(* RedeemCallers, and settle_redemption, called by SettleCallers. As in    *)
(* Minting, a call is a frame that advances one statement per step and may *)
(* fail, or die with its process, at any of them.                          *)
(***************************************************************************)
EXTENDS TokenStore

CONSTANTS
  RedeemCallers,   \* tasks that call request_redemption
  SettleCallers    \* tasks that call settle_redemption

ASSUME RedemptionAssumption ==
  /\ NoCaller \notin RedeemCallers
  /\ IsFiniteSet(SettleCallers)

VARIABLES
  redeem_call,     \* frame of each caller of request_redemption
  settle_call,     \* frame of each caller of settle_redemption
  mint_row_lock    \* who holds FOR UPDATE on each token_mints row

redemption_vars == <<redeem_call, settle_call, mint_row_lock>>

RedeemFrame(pc, req, id) ==
  [pc |-> pc, req |-> req, id |-> id, sender_ok |-> FALSE, wanted |-> {}, held |-> 0]
SettleFrame(pc, id, began) == [pc |-> pc, id |-> id, began |-> began]

IdleRedeem == RedeemFrame("idle", NoReq, NoId)
IdleSettle == SettleFrame("idle", NoId, 0)

RedeemLocked == {"lock_rows", "insert"}
RedeemRunning == {"check_sender", "check_receiver", "lock_balance", "send"}
                   \cup RedeemLocked
SettleRunning == {"read_status", "commit"}
CallDone == {"idle", "ok"}

RedeemFrameType ==
  [pc : RedeemRunning \cup CallDone, req : RedemptionRequests \cup {NoReq},
   id : RedemptionIds \cup {NoId}, sender_ok : BOOLEAN,
   wanted : SUBSET MintIds, held : Int]
SettleFrameType ==
  [pc : SettleRunning \cup {"idle"}, id : RedemptionIds \cup {NoId}, began : Nat]

RedemptionTypeOK ==
  /\ redeem_call \in [RedeemCallers -> RedeemFrameType]
  /\ \A c \in RedeemCallers :
       /\ redeem_call[c].pc \in RedeemRunning \cup {"ok"} =>
            redeem_call[c].req \in RedemptionRequests
       /\ redeem_call[c].pc \in {"send", "ok"} => redeem_call[c].id \in RedemptionIds
  /\ settle_call \in [SettleCallers -> SettleFrameType]
  /\ \A s \in SettleCallers :
       settle_call[s].pc \in SettleRunning => settle_call[s].id \in RedemptionIds
  /\ mint_row_lock \in [MintIds -> RedeemCallers \cup {NoCaller}]

RedemptionInit ==
  /\ redeem_call = [c \in RedeemCallers |-> IdleRedeem]
  /\ settle_call = [s \in SettleCallers |-> IdleSettle]
  /\ mint_row_lock = [m \in MintIds |-> NoCaller]

RReq(c) == redeem_call[c].req

LockedMints == {m \in MintIds : mint_row_lock[m] # NoCaller}
MintRowsUnlockedNever(c) == mint_row_lock
MintRowsUnlocked(c) ==
  [m \in MintIds |-> IF mint_row_lock[m] = c THEN NoCaller ELSE mint_row_lock[m]]

RedeemReturn(c, pc, req, id) ==
  redeem_call' = [redeem_call EXCEPT ![c] = RedeemFrame(pc, req, id)]

-----------------------------------------------------------------------------
(* request_redemption                                                      *)

RedemptionsWithKey(k) == {r \in token_redemptions : r.req.idempotency_key = k}

RedemptionKeyTakenUnchecked(k) == FALSE
\* UNIQUE (idempotency_key), checked when the row is inserted
RedemptionKeyTaken(k) == RedemptionsWithKey(k) # {}

RedeemReplay(c, req) ==
  /\ redeem_call[c].pc \in CallDone
  /\ \E r \in RedemptionsWithKey(req.idempotency_key) :
       RedeemReturn(c, "ok", req, r.id)
  /\ UNCHANGED <<store_vars, settle_call, mint_row_lock>>

RedeemStart(c, req) ==
  /\ redeem_call[c].pc \in CallDone
  /\ RedemptionsWithKey(req.idempotency_key) = {}
  /\ RedeemReturn(c, "check_sender", req, NoId)
  /\ UNCHANGED <<store_vars, settle_call, mint_row_lock>>

\* can_transfer(wallet, ISSUER_WALLET)
RedeemCheckSender(c) ==
  /\ redeem_call[c].pc = "check_sender"
  /\ redeem_call' = [redeem_call EXCEPT
       ![c] = [@ EXCEPT !.pc = "check_receiver", !.sender_ok = IsWhitelisted(RReq(c).wallet_address)]]
  /\ UNCHANGED <<store_vars, settle_call, mint_row_lock>>

RedeemCheckReceiver(c) ==
  /\ redeem_call[c].pc = "check_receiver"
  /\ IF redeem_call[c].sender_ok /\ IsWhitelisted(ISSUER_WALLET)
       THEN RedeemReturn(c, "lock_balance", RReq(c), NoId)
       ELSE RedeemReturn(c, "idle", NoReq, NoId)   \* WalletNotWhitelisted
  /\ UNCHANGED <<store_vars, settle_call, mint_row_lock>>

\* SELECT ... FOR UPDATE begins: it takes the confirmed mints of its snapshot.
RedeemScanBalance(c) ==
  /\ redeem_call[c].pc = "lock_balance"
  /\ redeem_call' = [redeem_call EXCEPT
       ![c] = [@ EXCEPT !.pc = "lock_rows",
                        !.wanted = {m.id : m \in ConfirmedMints(RReq(c).investor_id,
                                                               RReq(c).asset_id)}]]
  /\ UNCHANGED <<store_vars, settle_call, mint_row_lock>>

\* It locks them one by one, in no stated order, and waits for the rows of others.
RedeemLockRow(c) ==
  /\ redeem_call[c].pc = "lock_rows"
  /\ \E m \in redeem_call[c].wanted \ LockedMints :
       /\ mint_row_lock' = [mint_row_lock EXCEPT ![m] = c]
       /\ redeem_call' = [redeem_call EXCEPT ![c].wanted = @ \ {m}]
  /\ UNCHANGED <<store_vars, settle_call>>

\* Calls that wait for each other's rows. PostgreSQL finds them out and fails a
\* statement of one of them, which is RedeemFail.
Deadlocked(c) ==
  \E D \in SUBSET RedeemCallers :
    /\ c \in D
    /\ \A d \in D :
         /\ redeem_call[d].wanted # {}
         /\ \A m \in redeem_call[d].wanted : mint_row_lock[m] \in D \ {d}

\* The sum is a second statement: it sees every mint confirmed by now.
RedeemSumBalance(c) ==
  /\ redeem_call[c].pc = "lock_rows"
  /\ redeem_call[c].wanted = {}
  /\ redeem_call' = [redeem_call EXCEPT
       ![c] = [@ EXCEPT !.pc = "insert", !.held = Held(RReq(c).investor_id, RReq(c).asset_id)]]
  /\ UNCHANGED <<store_vars, settle_call, mint_row_lock>>

RedeemableOfAnybody(c) == MintedSupply(RReq(c).asset_id)
\* what the call believes may be redeemed: earlier redemptions do not count
Redeemable(c) == redeem_call[c].held

RedeemInsert(c) ==
  /\ redeem_call[c].pc = "insert"
  /\ Redeemable(c) >= RReq(c).token_amount
  /\ ~RedemptionKeyTaken(RReq(c).idempotency_key)
  /\ \E id \in RedemptionIds \ {r.id : r \in token_redemptions} :
       /\ token_redemptions' = token_redemptions \cup {[id |-> id, req |-> RReq(c)]}
       /\ outbox_events' =
            outbox_events \cup {OutboxEvent("token.redemption_requested", id, 1)}
       /\ RedeemReturn(c, "send", RReq(c), id)
  /\ mint_row_lock' = MintRowsUnlocked(c)
  /\ UNCHANGED <<token_mints, token_mint_events, token_redemption_events,
                 ledger_entries, whitelist, signing_queue, settle_call>>

\* InsufficientTokenBalance, or a UNIQUE violation on the key.
RedeemReject(c) ==
  /\ redeem_call[c].pc = "insert"
  /\ \/ Redeemable(c) < RReq(c).token_amount
     \/ RedemptionKeyTaken(RReq(c).idempotency_key)
  /\ RedeemReturn(c, "idle", NoReq, NoId)
  /\ mint_row_lock' = MintRowsUnlocked(c)
  /\ UNCHANGED <<store_vars, settle_call>>

RedeemSend(c) ==
  /\ redeem_call[c].pc = "send"
  /\ signing_queue' =
       signing_queue \cup {[action |-> "burn", id |-> redeem_call[c].id]}
  /\ \/ RedeemReturn(c, "ok", RReq(c), redeem_call[c].id)
     \/ RedeemReturn(c, "idle", NoReq, NoId)   \* accepted, the answer was lost
  /\ UNCHANGED <<token_mints, token_mint_events, token_redemptions,
                 token_redemption_events, ledger_entries, outbox_events,
                 whitelist, settle_call, mint_row_lock>>

RedeemFail(c) ==
  /\ redeem_call[c].pc \in RedeemRunning
  /\ RedeemReturn(c, "idle", NoReq, NoId)
  /\ mint_row_lock' = MintRowsUnlocked(c)
  /\ UNCHANGED <<store_vars, settle_call>>

-----------------------------------------------------------------------------
(* settle_redemption                                                       *)
(*                                                                         *)
(* created_at is DEFAULT NOW(), the time the writing transaction began, so *)
(* the order of the status events of a redemption is not their commit      *)
(* order. Times are counted per redemption in burn events: the k-th event  *)
(* of the burn tracker has created_at = 2k, and a settlement that began    *)
(* after k of them has created_at = 2k + 1.                                *)

BurnEvents(id) == {k \in DOMAIN token_redemption_events[id] :
                     token_redemption_events[id][k].status # "settled"}

\* ORDER BY created_at DESC LIMIT 1 gives this status; "pending" without events
LatestIs(id, status) ==
  LET events == token_redemption_events[id] IN
  \/ events = << >> /\ status = "pending"
  \/ \E k \in DOMAIN events :
       /\ events[k].status = status
       /\ \A j \in DOMAIN events : events[j].created_at <= events[k].created_at

AppendStatus(id, status, at) ==
  token_redemption_events' =
    [token_redemption_events EXCEPT
       ![id] = Append(@, [status |-> status, created_at |-> at])]

SettleReturn(s) == settle_call' = [settle_call EXCEPT ![s] = IdleSettle]

\* BEGIN, and the immutable row is read; without one (RedemptionNotFound)
\* nothing happens.
SettleBegin(s, id) ==
  /\ settle_call[s].pc = "idle"
  /\ id \in {r.id : r \in token_redemptions}
  /\ settle_call' = [settle_call EXCEPT
       ![s] = SettleFrame("read_status", id, Cardinality(BurnEvents(id)))]
  /\ UNCHANGED <<store_vars, redeem_call, mint_row_lock>>

RequiredStatusEarly == "burning"
RequiredStatus == "burned"

\* The guard of the state machine: read without a lock, used at the commit.
SettleReadStatus(s) ==
  /\ settle_call[s].pc = "read_status"
  /\ IF LatestIs(settle_call[s].id, RequiredStatus)
       THEN settle_call' = [settle_call EXCEPT ![s].pc = "commit"]
       ELSE SettleReturn(s)                \* InvalidState
  /\ UNCHANGED <<store_vars, redeem_call, mint_row_lock>>

RedeemEntries(r, n) ==
  LET E(account, owner, currency, debit, credit) ==
        Entry("token.redeem", r.id, n, account, owner, currency, debit, credit)
      amount == r.req.token_amount                \* 1:1 token to fiat
  IN {E("fund:treasury", r.req.asset_id, "TOKEN", amount, 0),
      E("investor:tokens", r.req.investor_id, "TOKEN", 0, amount),
      E("investor:fiat", r.req.investor_id, "USD", amount, 0),
      E("fund:fiat", r.req.asset_id, "USD", 0, amount)}

\* how many times a redemption has been settled
Settlements(id) ==
  Cardinality({k \in DOMAIN token_redemption_events[id] :
                 token_redemption_events[id][k].status = "settled"})

SettledAtRequest(s) == 1
\* the settled event's created_at, the start of the settlement's transaction
SettledAt(s) == 2 * settle_call[s].began + 1

\* The settled event, the ledger rows and the wire's outbox event, COMMIT.
SettleCommit(s) ==
  LET id == settle_call[s].id
      n == Settlements(id) + 1
  IN
  /\ settle_call[s].pc = "commit"
  /\ \E r \in token_redemptions :
       /\ r.id = id
       /\ LedgerCheck(RedeemEntries(r, n))
       /\ ledger_entries' = ledger_entries \cup RedeemEntries(r, n)
  /\ AppendStatus(id, "settled", SettledAt(s))
  /\ outbox_events' =
       outbox_events \cup {OutboxEvent("token.redemption_settled", id, n)}
  /\ SettleReturn(s)
  /\ UNCHANGED <<token_mints, token_mint_events, token_redemptions, whitelist,
                 signing_queue, redeem_call, mint_row_lock>>

\* A statement fails (the ledger CHECK refuses a redemption of no tokens), or
\* the process dies.
SettleFail(s) ==
  /\ settle_call[s].pc \in SettleRunning
  /\ SettleReturn(s)
  /\ UNCHANGED <<store_vars, redeem_call, mint_row_lock>>

=============================================================================
