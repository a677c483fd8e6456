------------------------------- MODULE Minting -------------------------------
(***************************************************************************)
(* TokenMintService (minting.rs): mint_tokens and confirm_mint, called     *)
(* concurrently by MintCallers. A call of mint_tokens is a frame           *)
(* mint_call[c] that advances one SQL statement, or one message sent, per  *)
(* step; any other call, a revocation or a confirmation may run between    *)
(* two of its steps. A statement may fail, a connection may be lost before *)
(* or after the commit, and the process may crash: the frame is gone, the  *)
(* open transaction rolls back and its row lock is released (MintFail).    *)
(* Whoever called is free to call again with the same request.             *)
(***************************************************************************)
EXTENDS TokenStore

CONSTANTS
  MintCallers,   \* tasks that call mint_tokens, one call at a time
  MaxConfirms    \* how often confirm_mint may run for one mint

ASSUME MintAssumption ==
  /\ NoCaller \notin MintCallers /\ IsFiniteSet(MintCallers)
  /\ MaxConfirms \in Nat

VARIABLES
  mint_call,      \* the frame of each caller's current or last call
  wrapper_lock    \* who holds the legal_wrappers row of each asset

mint_vars == <<mint_call, wrapper_lock>>

MintFrame(pc, req, id) ==
  [pc |-> pc, req |-> req, id |-> id, sender_ok |-> FALSE,
   total_minted |-> 0, total_redeemed |-> 0]
IdleMint == MintFrame("idle", NoReq, NoId)

\* Where a call stands: the next statement it will execute, or how it ended.
MintLocked == {"sum_minted", "sum_redeemed", "insert"}
MintRunning == {"check_sender", "check_receiver", "lock_supply", "send"}
                 \cup MintLocked
MintDone == {"idle", "ok"}

MintFrameType ==
  [pc : MintRunning \cup MintDone, req : MintRequests \cup {NoReq},
   id : MintIds \cup {NoId}, sender_ok : BOOLEAN,
   total_minted : Int, total_redeemed : Int]

\* A running call has a request, a call past its insert an id.
MintTypeOK ==
  /\ mint_call \in [MintCallers -> MintFrameType]
  /\ \A c \in MintCallers :
       /\ mint_call[c].pc \in MintRunning \cup {"ok"} =>
            mint_call[c].req \in MintRequests
       /\ mint_call[c].pc \in {"send", "ok"} => mint_call[c].id \in MintIds
  /\ wrapper_lock \in [DOMAIN TokenSupply -> MintCallers \cup {NoCaller}]

MintInit ==
  /\ mint_call = [c \in MintCallers |-> IdleMint]
  /\ wrapper_lock = [a \in DOMAIN TokenSupply |-> NoCaller]

Req(c) == mint_call[c].req

MintUnlockedNever(c) == wrapper_lock
\* wrapper_lock once the transaction of c is over
MintUnlocked(c) ==
  [a \in DOMAIN wrapper_lock |->
     IF wrapper_lock[a] = c THEN NoCaller ELSE wrapper_lock[a]]

GoTo(c, pc) == mint_call' = [mint_call EXCEPT ![c].pc = pc]
Return(c, pc, req, id) ==
  mint_call' = [mint_call EXCEPT ![c] = MintFrame(pc, req, id)]

-----------------------------------------------------------------------------
(* mint_tokens                                                             *)

\* The row find_by_idempotency_key returns, if any.
MintsWithKey(k) == {m \in token_mints : m.req.idempotency_key = k}

KeyTakenUnchecked(k) == FALSE
\* UNIQUE (idempotency_key), checked when the row is inserted
KeyTaken(k) == MintsWithKey(k) # {}

\* A call whose key is taken returns the existing row and does nothing else.
MintReplay(c, req) ==
  /\ mint_call[c].pc \in MintDone
  /\ \E m \in MintsWithKey(req.idempotency_key) : Return(c, "ok", req, m.id)
  /\ UNCHANGED <<store_vars, wrapper_lock>>

MintStart(c, req) ==
  /\ mint_call[c].pc \in MintDone
  /\ MintsWithKey(req.idempotency_key) = {}
  /\ Return(c, "check_sender", req, NoId)
  /\ UNCHANGED <<store_vars, wrapper_lock>>

\* can_transfer reads the issuer's wallet first, then the investor's, in two
\* statements, and only then looks at both answers.
MintCheckSender(c) ==
  /\ mint_call[c].pc = "check_sender"
  /\ mint_call' = [mint_call EXCEPT
       ![c] = [@ EXCEPT !.pc = "check_receiver", !.sender_ok = IsWhitelisted(ISSUER_WALLET)]]
  /\ UNCHANGED <<store_vars, wrapper_lock>>

MayTransferFrom(c) == mint_call[c].sender_ok
\* what can_transfer answers
MayTransfer(c) == mint_call[c].sender_ok /\ IsWhitelisted(Req(c).wallet_address)

MintCheckReceiver(c) ==
  /\ mint_call[c].pc = "check_receiver"
  /\ IF MayTransfer(c)
       THEN Return(c, "lock_supply", Req(c), NoId)
       ELSE Return(c, "idle", NoReq, NoId)     \* WalletNotWhitelisted
  /\ UNCHANGED <<store_vars, wrapper_lock>>

SupplyRowFreeAlways(a) == TRUE
\* FOR UPDATE waits for whoever holds the legal_wrappers row.
SupplyRowFree(a) == wrapper_lock[a] = NoCaller

\* SELECT token_supply ... FOR UPDATE
MintLockSupply(c) ==
  LET a == Req(c).asset_id IN
  /\ mint_call[c].pc = "lock_supply"
  /\ a \in DOMAIN TokenSupply
  /\ SupplyRowFree(a)
  /\ wrapper_lock' = [wrapper_lock EXCEPT ![a] = c]
  /\ GoTo(c, "sum_minted")
  /\ UNCHANGED store_vars

MintSupplyNotFound(c) ==
  /\ mint_call[c].pc = "lock_supply"
  /\ Req(c).asset_id \notin DOMAIN TokenSupply
  /\ Return(c, "idle", NoReq, NoId)
  /\ UNCHANGED <<store_vars, wrapper_lock>>

MintSumMinted(c) ==
  /\ mint_call[c].pc = "sum_minted"
  /\ mint_call' = [mint_call EXCEPT
       ![c] = [@ EXCEPT !.pc = "sum_redeemed", !.total_minted = MintedSupply(Req(c).asset_id)]]
  /\ UNCHANGED <<store_vars, wrapper_lock>>

TotalRequested(a) == SumOver(RedemptionAmount, SettledOfRequested(a))
\* only what is settled has released supply
TotalRedeemed(a) == SettledSupply(a)

MintSumRedeemed(c) ==
  /\ mint_call[c].pc = "sum_redeemed"
  /\ mint_call' = [mint_call EXCEPT
       ![c] = [@ EXCEPT !.pc = "insert", !.total_redeemed = TotalRedeemed(Req(c).asset_id)]]
  /\ UNCHANGED <<store_vars, wrapper_lock>>

\* what the call believes is left of the supply
Available(c) ==
  TokenSupply[Req(c).asset_id]
    - (mint_call[c].total_minted - mint_call[c].total_redeemed)

\* INSERT mint and outbox event, COMMIT.
MintInsert(c) ==
  /\ mint_call[c].pc = "insert"
  /\ Available(c) >= Req(c).token_amount
  /\ ~KeyTaken(Req(c).idempotency_key)
  /\ \E id \in MintIds \ {m.id : m \in token_mints} :
       /\ token_mints' = token_mints \cup {[id |-> id, req |-> Req(c)]}
       /\ outbox_events' =
            outbox_events \cup {OutboxEvent("token.mint_requested", id, 1)}
       /\ Return(c, "send", Req(c), id)
  /\ wrapper_lock' = MintUnlocked(c)
  /\ UNCHANGED <<token_mint_events, token_redemptions, token_redemption_events,
                 ledger_entries, whitelist, signing_queue>>

\* InsufficientTokenSupply, or idempotency_key already UNIQUE-ly taken.
MintReject(c) ==
  /\ mint_call[c].pc = "insert"
  /\ \/ Available(c) < Req(c).token_amount
     \/ KeyTaken(Req(c).idempotency_key)
  /\ Return(c, "idle", NoReq, NoId)
  /\ wrapper_lock' = MintUnlocked(c)
  /\ UNCHANGED store_vars

\* After the commit: read the row back and send it to the signing queue.
MintSend(c) ==
  /\ mint_call[c].pc = "send"
  /\ signing_queue' =
       signing_queue \cup {[action |-> "mint", id |-> mint_call[c].id]}
  /\ \/ Return(c, "ok", Req(c), mint_call[c].id)
     \/ Return(c, "idle", NoReq, NoId)         \* accepted, the answer was lost
  /\ UNCHANGED <<token_mints, token_mint_events, token_redemptions,
                 token_redemption_events, ledger_entries, outbox_events,
                 whitelist, wrapper_lock>>

\* A statement or the send fails, or the process dies: rollback.
MintFail(c) ==
  /\ mint_call[c].pc \in MintRunning
  /\ Return(c, "idle", NoReq, NoId)
  /\ wrapper_lock' = MintUnlocked(c)
  /\ UNCHANGED store_vars

-----------------------------------------------------------------------------
(* confirm_mint                                                            *)

MintEntriesMixed(m, n) ==
  LET E(account, owner, currency, debit, credit) ==
        Entry("token.mint", m.id, n, account, owner, currency, debit, credit)
  IN {E("investor:tokens", m.req.investor_id, "TOKEN", m.req.token_amount, 0),
      E("fund:treasury", m.req.asset_id, "TOKEN", 0, m.req.token_amount),
      E("fund:fiat", m.req.asset_id, "USD", m.req.token_amount, 0),
      E("investor:fiat", m.req.investor_id, "USD", 0, m.req.fiat_received)}
\* The four ledger rows of a confirmation: tokens to the investor, fiat to the
\* fund.
MintEntries(m, n) ==
  LET E(account, owner, currency, debit, credit) ==
        Entry("token.mint", m.id, n, account, owner, currency, debit, credit)
  IN {E("investor:tokens", m.req.investor_id, "TOKEN", m.req.token_amount, 0),
      E("fund:treasury", m.req.asset_id, "TOKEN", 0, m.req.token_amount),
      E("fund:fiat", m.req.asset_id, "USD", m.req.fiat_received, 0),
      E("investor:fiat", m.req.investor_id, "USD", 0, m.req.fiat_received)}

\* One transaction. It looks at nothing but the row's existence: neither at
\* earlier 'confirmed' events nor at any lock. The ledger CHECK refuses a mint
\* of no tokens or no fiat, and a row locked by a redemption is waited for
\* (the parameter locked says which those are).
ConfirmMint(m, locked) ==
  LET n == token_mint_events[m.id] + 1 IN
  /\ m \in token_mints
  /\ m.id \notin locked
  /\ n <= MaxConfirms
  /\ LedgerCheck(MintEntries(m, n))
  /\ token_mint_events' = [token_mint_events EXCEPT ![m.id] = n]
  /\ ledger_entries' = ledger_entries \cup MintEntries(m, n)
  /\ outbox_events' =
       outbox_events \cup {OutboxEvent("token.mint_confirmed", m.id, n)}
  /\ UNCHANGED <<token_mints, token_redemptions, token_redemption_events,
                 whitelist, signing_queue, mint_vars>>

=============================================================================
