----------------------------- MODULE Compliance ------------------------------
(***************************************************************************)
(* KycComplianceService (compliance.rs): onboard_investor,                 *)
(* revoke_whitelist and can_transfer, called concurrently, one SQL         *)
(* statement or one call of a provider per step. created_at of every row   *)
(* is NOW(), the time its transaction began, so transactions are counted   *)
(* as they begin, and the latest whitelist event of a wallet need not be   *)
(* the last one committed. Tiers, jurisdictions, references and expiry     *)
(* dates are left out: nothing the service does depends on them.           *)
(***************************************************************************)
EXTENDS Integers, FiniteSets

CONSTANTS
  Wallets,           \* wallet addresses
  OnboardRequests,   \* requests that callers of onboard_investor may send
  Sanctioned,        \* investors the sanctions screening reports
  Unverified,        \* investors the KYC provider does not pass
  Onboarders,        \* tasks that call onboard_investor
  Revokers,          \* tasks that call revoke_whitelist
  Checkers,          \* tasks that call can_transfer
  MaxTransactions,   \* bound on the transactions begun
  NoReq              \* the request of a call that has none

Investors == {r.investor_id : r \in OnboardRequests}
Keys == {r.idempotency_key : r \in OnboardRequests}
Times == 1..MaxTransactions

ASSUME ComplianceAssumption ==
  /\ MaxTransactions \in Nat
  /\ NoReq \notin OnboardRequests
  /\ \A r \in OnboardRequests : r.wallet_address \in Wallets

VARIABLES
  now,                      \* transactions begun so far
  known,                    \* the transactions committed when each one began
  investor_compliance,      \* rows [req, created_at]; created_at stands for the id
  wallet_whitelist_events,  \* rows [wallet_address, investor_id, action, created_at]
  compliance_status_events, \* 'expired' rows [compliance_id, created_at]
  outbox_events,            \* rows [event_type, investor_id, created_at]
  onboard_call, revoke_call, check_call    \* the frame of each caller

tables == <<investor_compliance, wallet_whitelist_events,
            compliance_status_events, outbox_events>>
clock == <<now, known>>
vars == <<clock, tables, onboard_call, revoke_call, check_call>>

ComplianceRows == [req : OnboardRequests, created_at : Times]

OnboardFrame(pc, req, id) == [pc |-> pc, req |-> req, id |-> id]
RevokeFrame(pc, i, began, rows) ==
  [pc |-> pc, investor_id |-> i, began |-> began, rows |-> rows]
\* asked is what was committed when the check began; nothing reads it
CheckFrame(pc, from, to, ok, asked) ==
  [pc |-> pc, from |-> from, to |-> to, sender_ok |-> ok, asked |-> asked]

NoCheck == CheckFrame("idle", NoReq, NoReq, FALSE, {})

\* A call that failed, or whose answer is of no consequence, is idle.
Done == {"idle", "ok"}

TypeOK ==
  /\ now \in 0..MaxTransactions
  /\ known \in [Times -> SUBSET (1..now)]
  /\ investor_compliance \subseteq ComplianceRows
  /\ wallet_whitelist_events \subseteq
       [wallet_address : Wallets, investor_id : Investors,
        action : {"grant", "revoke"}, created_at : 1..now]
  /\ compliance_status_events \subseteq [compliance_id : Times, created_at : 1..now]
  /\ outbox_events \subseteq
       [event_type : {"investor.whitelisted", "investor.whitelist_revoked"},
        investor_id : Investors, created_at : 1..now]
  /\ \A c \in Onboarders :
       /\ onboard_call[c].pc \in {"begin", "commit"} \cup Done
       /\ onboard_call[c].pc # "idle" =>
            onboard_call[c].req \in OnboardRequests
       /\ onboard_call[c].pc \in {"commit", "ok"} => onboard_call[c].id \in 1..now
  /\ \A c \in Revokers :
       /\ revoke_call[c].pc \in {"idle", "read", "commit"}
       /\ revoke_call[c].rows \subseteq investor_compliance
  /\ \A c \in Checkers : check_call[c].pc \in {"idle", "receiver", "yes"}

Init ==
  /\ now = 0
  /\ known = [t \in Times |-> {}]
  /\ investor_compliance = {}
  /\ wallet_whitelist_events = {}
  /\ compliance_status_events = {}
  /\ outbox_events = {}
  /\ onboard_call = [c \in Onboarders |-> OnboardFrame("idle", NoReq, 0)]
  /\ revoke_call = [c \in Revokers |-> RevokeFrame("idle", NoReq, 0, {})]
  /\ check_call = [c \in Checkers |-> NoCheck]

\* every transaction writes one outbox event
Committed == {e.created_at : e \in outbox_events}

\* BEGIN: the transaction gets its NOW().
Begin ==
  /\ now < MaxTransactions
  /\ now' = now + 1
  /\ known' = [known EXCEPT ![now + 1] = Committed]

-----------------------------------------------------------------------------
(* is_wallet_whitelisted                                                   *)

EventsOfAnyWallet(w) == wallet_whitelist_events
EventsOf(w) == {e \in wallet_whitelist_events : e.wallet_address = w}

\* ORDER BY created_at DESC LIMIT 1
Latest(E) == {e \in E : \A f \in E : f.created_at <= e.created_at}

IsWalletWhitelisted(w) == \E e \in Latest(EventsOf(w)) : e.action = "grant"

-----------------------------------------------------------------------------
(* onboard_investor                                                        *)

Onboard(c, pc, req, id) ==
  onboard_call' = [onboard_call EXCEPT ![c] = OnboardFrame(pc, req, id)]
OReq(c) == onboard_call[c].req

RowsWithKey(k) == {row \in investor_compliance : row.req.idempotency_key = k}

KeyTakenUnchecked(k) == FALSE
\* UNIQUE (idempotency_key), checked by the INSERT
KeyTaken(k) == RowsWithKey(k) # {}

ReplayOfNothing(c, req) ==
  /\ onboard_call[c].pc \in Done
  /\ RowsWithKey(req.idempotency_key) # {}
  /\ Onboard(c, "ok", req, 0)
  /\ UNCHANGED <<clock, tables, revoke_call, check_call>>
OnboardReplay(c, req) ==
  /\ onboard_call[c].pc \in Done
  /\ \E row \in RowsWithKey(req.idempotency_key) : Onboard(c, "ok", req, row.created_at)
  /\ UNCHANGED <<clock, tables, revoke_call, check_call>>

PassesUnscreened(i) == i \notin Unverified
\* the answers of SanctionsChecker.screen and KycProvider.verify_identity, asked
\* in turn; neither looks at the tables
Passes(i) == i \notin Sanctioned /\ i \notin Unverified

\* A call for an investor who does not pass (SanctionedInvestor, KycFailed)
\* returns without a trace.
OnboardStart(c, req) ==
  /\ onboard_call[c].pc \in Done
  /\ RowsWithKey(req.idempotency_key) = {}
  /\ Passes(req.investor_id)
  /\ Onboard(c, "begin", req, 0)
  /\ UNCHANGED <<clock, tables, revoke_call, check_call>>

OnboardBegin(c) ==
  /\ onboard_call[c].pc = "begin"
  /\ Begin
  /\ Onboard(c, "commit", OReq(c), now + 1)
  /\ UNCHANGED <<tables, revoke_call, check_call>>

\* The compliance row, the grant and the outbox event, COMMIT.
OnboardCommit(c) ==
  LET req == OReq(c)
      at == onboard_call[c].id
  IN
  /\ onboard_call[c].pc = "commit"
  /\ ~KeyTaken(req.idempotency_key)
  /\ investor_compliance' = investor_compliance \cup {[req |-> req, created_at |-> at]}
  /\ wallet_whitelist_events' = wallet_whitelist_events \cup
       {[wallet_address |-> req.wallet_address, investor_id |-> req.investor_id,
         action |-> "grant", created_at |-> at]}
  /\ outbox_events' = outbox_events \cup
       {[event_type |-> "investor.whitelisted", investor_id |-> req.investor_id,
         created_at |-> at]}
  /\ Onboard(c, "ok", req, at)
  /\ UNCHANGED <<clock, compliance_status_events, revoke_call, check_call>>

\* A statement or the process fails, or the key is no longer free.
OnboardFail(c) ==
  /\ onboard_call[c].pc \notin Done
  /\ Onboard(c, "idle", NoReq, 0)
  /\ UNCHANGED <<clock, tables, revoke_call, check_call>>

-----------------------------------------------------------------------------
(* revoke_whitelist                                                        *)

Revoke(c, pc, i, began, rows) ==
  revoke_call' = [revoke_call EXCEPT ![c] = RevokeFrame(pc, i, began, rows)]

RevokeBegin(c, i) ==
  /\ revoke_call[c].pc = "idle"
  /\ Begin
  /\ Revoke(c, "read", i, now + 1, {})
  /\ UNCHANGED <<tables, onboard_call, check_call>>

RevocableFirst(i) ==
  LET rows == {row \in investor_compliance : row.req.investor_id = i}
  IN {row \in rows : \A r \in rows : row.created_at <= r.created_at}
\* SELECT ... FROM investor_compliance WHERE investor_id = i
Revocable(i) == {row \in investor_compliance : row.req.investor_id = i}

RevokeRead(c) ==
  LET call == revoke_call[c] IN
  /\ call.pc = "read"
  /\ Revoke(c, "commit", call.investor_id, call.began, Revocable(call.investor_id))
  /\ UNCHANGED <<clock, tables, onboard_call, check_call>>

\* A revoke and an 'expired' event per row read, one outbox event even if none
\* was, COMMIT.
RevokeCommit(c) ==
  LET call == revoke_call[c] IN
  /\ call.pc = "commit"
  /\ wallet_whitelist_events' = wallet_whitelist_events \cup
       {[wallet_address |-> row.req.wallet_address,
         investor_id |-> call.investor_id, action |-> "revoke",
         created_at |-> call.began] : row \in call.rows}
  /\ compliance_status_events' = compliance_status_events \cup
       {[compliance_id |-> row.created_at, created_at |-> call.began] : row \in call.rows}
  /\ outbox_events' = outbox_events \cup
       {[event_type |-> "investor.whitelist_revoked",
         investor_id |-> call.investor_id, created_at |-> call.began]}
  /\ Revoke(c, "idle", NoReq, 0, {})
  /\ UNCHANGED <<clock, investor_compliance, onboard_call, check_call>>

RevokeFail(c) ==
  /\ revoke_call[c].pc # "idle"
  /\ Revoke(c, "idle", NoReq, 0, {})
  /\ UNCHANGED <<clock, tables, onboard_call, check_call>>

-----------------------------------------------------------------------------
(* can_transfer: two statements, whose answers are looked at together.     *)

CheckSender(c, from, to) ==
  /\ check_call[c].pc # "receiver"
  /\ check_call' = [check_call EXCEPT
       ![c] = CheckFrame("receiver", from, to, IsWalletWhitelisted(from), Committed)]
  /\ UNCHANGED <<clock, tables, onboard_call, revoke_call>>

EitherWallet(from_ok, to_ok) == from_ok \/ to_ok
BothWallets(from_ok, to_ok) == from_ok /\ to_ok

CheckReceiver(c) ==
  LET call == check_call[c]
      yes == BothWallets(call.sender_ok, IsWalletWhitelisted(call.to))
  IN
  /\ call.pc = "receiver"
  /\ check_call' = [check_call EXCEPT ![c] = IF yes THEN [@ EXCEPT !.pc = "yes"] ELSE NoCheck]
  /\ UNCHANGED <<clock, tables, onboard_call, revoke_call>>

CheckFail(c) ==
  /\ check_call[c].pc = "receiver"
  /\ check_call' = [check_call EXCEPT ![c] = NoCheck]
  /\ UNCHANGED <<clock, tables, onboard_call, revoke_call>>

-----------------------------------------------------------------------------

OnboardStep(c) ==
  \/ \E req \in OnboardRequests : OnboardReplay(c, req) \/ OnboardStart(c, req)
  \/ OnboardBegin(c) \/ OnboardCommit(c) \/ OnboardFail(c)

RevokeStep(c) ==
  \/ \E i \in Investors : RevokeBegin(c, i)
  \/ RevokeRead(c) \/ RevokeCommit(c) \/ RevokeFail(c)

CheckStep(c) ==
  \/ \E from, to \in Wallets : CheckSender(c, from, to)
  \/ CheckReceiver(c) \/ CheckFail(c)

Next ==
  \/ \E c \in Onboarders : OnboardStep(c)
  \/ \E c \in Revokers : RevokeStep(c)
  \/ \E c \in Checkers : CheckStep(c)

Spec == Init /\ [][Next]_vars

-----------------------------------------------------------------------------

\* Retries: a key names one compliance record, and a call that returned Ok
\* returned the record of its key (find_by_idempotency_key, the UNIQUE column).
OneRecordPerKey ==
  /\ \A r, s \in investor_compliance :
       r.req.idempotency_key = s.req.idempotency_key => r = s
  /\ \A c \in Onboarders : onboard_call[c].pc = "ok" =>
       \E row \in RowsWithKey(OReq(c).idempotency_key) :
         row.created_at = onboard_call[c].id

\* Nobody the providers turn down is ever on record, on the whitelist or
\* announced, whatever keys and wallets his requests share with others; and no
\* wallet is granted without its compliance record, no onboarding announced
\* without the record and the grant of its transaction (onboard_investor).
OnlyScreenedInvestors ==
  /\ \A row \in investor_compliance :
       row.req.investor_id \notin Sanctioned \cup Unverified
  /\ \A g \in wallet_whitelist_events : g.action = "grant" =>
       /\ g.investor_id \notin Sanctioned \cup Unverified
       /\ \E row \in investor_compliance :
            /\ row.created_at = g.created_at
            /\ row.req.investor_id = g.investor_id
            /\ row.req.wallet_address = g.wallet_address
  /\ \A e \in outbox_events : e.event_type = "investor.whitelisted" =>
       /\ e.investor_id \notin Sanctioned \cup Unverified
       /\ \E g \in wallet_whitelist_events :
            /\ g.action = "grant"
            /\ g.created_at = e.created_at
            /\ g.investor_id = e.investor_id

\* A revocation reaches every wallet the investor had when it began: each of
\* them is out, unless it was granted anew by an onboarding that had not
\* committed by then (revoke_whitelist, is_wallet_whitelisted).
RevocationReachesKnownWallets ==
  \A e \in outbox_events : e.event_type = "investor.whitelist_revoked" =>
    \A row \in investor_compliance :
      row.req.investor_id = e.investor_id /\ row.created_at \in known[e.created_at] =>
        \/ ~IsWalletWhitelisted(row.req.wallet_address)
        \/ \E g \in EventsOf(row.req.wallet_address) :
             g.action = "grant" /\ g.created_at \notin known[e.created_at]

\* A transfer is let through only between wallets that were granted, and each
\* revocation that had committed before the check began only if a younger grant
\* overrides it (can_transfer).
TransfersBetweenGranted ==
  \A c \in Checkers : check_call[c].pc = "yes" =>
    \A w \in {check_call[c].from, check_call[c].to} :
      \E g \in EventsOf(w) :
        /\ g.action = "grant"
        /\ \A r \in EventsOf(w) :
             r.action = "revoke" /\ r.created_at \in check_call[c].asked =>
               r.created_at < g.created_at

W == INSTANCE Whitelist WITH
       whitelisted <- {w \in Wallets : IsWalletWhitelisted(w)}

\* Each transaction grants one wallet or revokes some: the abstraction the token
\* services are checked against (GrantWallet and RevokeWallet of TokenStore).
RefinesWhitelist == W!Spec

(* What the documents say and the code does not do.                        *)

\* "Revokes an investor's whitelist status" (compliance.rs:121): once the
\* revocation has committed, the wallets it found are out. Its events carry the
\* time it began, and a grant it has read may be younger than that.
RevokedIsOut ==
  [][\A c \in Revokers : RevokeCommit(c) =>
       \A row \in revoke_call[c].rows : ~IsWalletWhitelisted(row.req.wallet_address)']_vars

=============================================================================
