-------------------------- MODULE ComplianceProofs ---------------------------
(***************************************************************************)
(* What is proved about KycComplianceService for any number of calls,      *)
(* investors and wallets. The order of commits and the order of created_at *)
(* differ, so everything rests on what a transaction's time says           *)
(* (Clocked): no two transactions share one, a running one has written     *)
(* nothing yet, and what was committed when it began is older than it.     *)
(***************************************************************************)
EXTENDS Compliance, TLAPS

OnboardFrames ==
  [pc : {"idle"}, req : {NoReq}, id : {0}]
  \cup [pc : {"begin"}, req : OnboardRequests, id : {0}]
  \cup [pc : {"commit", "ok"}, req : OnboardRequests, id : 1..now]
RevokeFrames ==
  [pc : {"idle"}, investor_id : {NoReq}, began : {0}, rows : {{}}]
  \cup [pc : {"read", "commit"}, investor_id : Investors, began : 1..now,
        rows : SUBSET investor_compliance]
CheckFrames ==
  [pc : {"idle", "receiver", "yes"}, from : Wallets \cup {NoReq},
   to : Wallets \cup {NoReq}, sender_ok : BOOLEAN, asked : SUBSET Times]
WhitelistEvents ==
  [wallet_address : Wallets, investor_id : Investors,
   action : {"grant", "revoke"}, created_at : 1..now]
OutboxRows ==
  [event_type : {"investor.whitelisted", "investor.whitelist_revoked"},
   investor_id : Investors, created_at : 1..now]

\* TypeOK with the frames in full.
Types ==
  /\ now \in 0..MaxTransactions
  /\ known \in [Times -> SUBSET (1..now)]
  /\ investor_compliance \subseteq [req : OnboardRequests, created_at : 1..now]
  /\ wallet_whitelist_events \subseteq WhitelistEvents
  /\ compliance_status_events \subseteq [compliance_id : Times, created_at : 1..now]
  /\ outbox_events \subseteq OutboxRows
  /\ onboard_call \in [Onboarders -> OnboardFrames]
  /\ revoke_call \in [Revokers -> RevokeFrames]
  /\ check_call \in [Checkers -> CheckFrames]

-----------------------------------------------------------------------------
(* Types.                                                                  *)

\* Transaction times are numbers within the bound.
LEMMA TimesFact ==
  ASSUME Types
  PROVE  /\ now \in Nat /\ MaxTransactions \in Nat /\ now <= MaxTransactions
         /\ 1..now \subseteq Times
         /\ Committed \subseteq 1..now
BY ComplianceAssumption DEF Types, Times, Committed, OutboxRows

\* What was committed when a transaction began.
LEMMA BeginKnown ==
  ASSUME Types, Begin
  PROVE  known' \in [Times -> SUBSET (1..now')]
<1>1. 1..now \subseteq 1..now' /\ Committed \subseteq 1..now'
  BY TimesFact DEF Begin
<1>2. known \in [Times -> SUBSET (1..now')]
  <2>1. SUBSET (1..now) \subseteq SUBSET (1..now')
    BY <1>1
  <2>2. \A t \in Times : known[t] \in SUBSET (1..now')
    BY <2>1 DEF Types
  <2> HIDE DEF Times
  <2> QED
    BY <2>2 DEF Types
<1> QED
  BY <1>1, <1>2 DEF Begin

\* The statements of onboard_investor.
LEMMA TypesOnboard ==
  ASSUME Types, NEW c \in Onboarders, OnboardStep(c)
  PROVE  Types'
<1>1. ASSUME NEW req \in OnboardRequests, OnboardReplay(c, req) PROVE Types'
  <2>1. PICK row \in investor_compliance : Onboard(c, "ok", req, row.created_at)
    BY <1>1 DEF OnboardReplay, RowsWithKey
  <2>2. row.created_at \in 1..now
    BY DEF Types
  <2>3. onboard_call' \in [Onboarders -> OnboardFrames]
    BY <2>1, <2>2 DEF Onboard, OnboardFrame, OnboardFrames, Types
  <2> QED
    BY <1>1, <2>3 DEF OnboardReplay, Types, clock, tables, OnboardFrames, RevokeFrames,
       CheckFrames, WhitelistEvents, OutboxRows
<1>2. ASSUME NEW req \in OnboardRequests, OnboardStart(c, req) PROVE Types'
  <2>1. onboard_call' \in [Onboarders -> OnboardFrames]
    BY <1>2 DEF OnboardStart, Onboard, OnboardFrame, OnboardFrames, Types
  <2> QED
    BY <1>2, <2>1 DEF OnboardStart, Types, clock, tables, OnboardFrames, RevokeFrames,
       CheckFrames, WhitelistEvents, OutboxRows
<1>3. CASE OnboardFail(c)
  <2>1. onboard_call' \in [Onboarders -> OnboardFrames]
    BY <1>3 DEF OnboardFail, Onboard, OnboardFrame, OnboardFrames, Types
  <2> QED
    BY <1>3, <2>1 DEF OnboardFail, Types, clock, tables, OnboardFrames, RevokeFrames,
       CheckFrames, WhitelistEvents, OutboxRows
<1>4. CASE OnboardBegin(c)
  <2>1. /\ now' = now + 1 /\ now' \in 0..MaxTransactions /\ now \in Nat
        /\ known' = [known EXCEPT ![now + 1] = Committed]
        /\ UNCHANGED <<tables, revoke_call, check_call>>
    BY <1>4, TimesFact DEF OnboardBegin, Begin
  <2>2. known' \in [Times -> SUBSET (1..now')]
    BY <1>4, BeginKnown DEF OnboardBegin
  <2>3. OReq(c) \in OnboardRequests
    BY <1>4 DEF OnboardBegin, OReq, Types, OnboardFrames
  <2>4. onboard_call' \in [Onboarders -> OnboardFrames']
    BY <1>4, <2>1, <2>3 DEF OnboardBegin, Onboard, OnboardFrame, OnboardFrames, Types
  <2>5. revoke_call' \in [Revokers -> RevokeFrames'] /\ check_call' \in [Checkers -> CheckFrames']
    BY <2>1 DEF Types, RevokeFrames, CheckFrames, tables
  <2>6. /\ investor_compliance' \subseteq [req : OnboardRequests, created_at : 1..now']
        /\ wallet_whitelist_events' \subseteq WhitelistEvents'
        /\ compliance_status_events' \subseteq [compliance_id : Times, created_at : 1..now']
        /\ outbox_events' \subseteq OutboxRows'
    BY <2>1 DEF Types, tables, WhitelistEvents, OutboxRows
  <2> QED
    BY <2>1, <2>2, <2>4, <2>5, <2>6 DEF Types
<1>5. CASE OnboardCommit(c)
  <2> DEFINE req == OReq(c)
             at == onboard_call[c].id
  <2>1. req \in OnboardRequests /\ at \in 1..now
    BY <1>5 DEF OnboardCommit, OReq, Types, OnboardFrames
  <2>2. req.wallet_address \in Wallets /\ req.investor_id \in Investors
    BY <2>1, ComplianceAssumption DEF Investors
  <2>3. UNCHANGED <<clock, compliance_status_events, revoke_call, check_call>>
    BY <1>5 DEF OnboardCommit
  <2>4. /\ investor_compliance' \subseteq [req : OnboardRequests, created_at : 1..now']
        /\ investor_compliance \subseteq investor_compliance'
    BY <1>5, <2>1, <2>3 DEF OnboardCommit, Types, clock
  <2>5. wallet_whitelist_events' \subseteq WhitelistEvents'
    BY <1>5, <2>1, <2>2, <2>3 DEF OnboardCommit, Types, clock, WhitelistEvents
  <2>6. outbox_events' \subseteq OutboxRows'
    BY <1>5, <2>1, <2>2, <2>3 DEF OnboardCommit, Types, clock, OutboxRows
  <2>7. onboard_call' \in [Onboarders -> OnboardFrames']
    BY <1>5, <2>1, <2>3 DEF OnboardCommit, Onboard, OnboardFrame, OnboardFrames, Types, clock
  <2>8. revoke_call' \in [Revokers -> RevokeFrames'] /\ check_call' \in [Checkers -> CheckFrames']
    BY <2>3, <2>4 DEF Types, RevokeFrames, CheckFrames, clock
  <2> QED
    BY <2>3, <2>4, <2>5, <2>6, <2>7, <2>8 DEF Types, clock
<1> QED
  BY <1>1, <1>2, <1>3, <1>4, <1>5 DEF OnboardStep

\* The statements of revoke_whitelist.
LEMMA TypesRevoke ==
  ASSUME Types, NEW c \in Revokers, RevokeStep(c)
  PROVE  Types'
<1>1. ASSUME NEW i \in Investors, RevokeBegin(c, i) PROVE Types'
  <2>1. /\ now' = now + 1 /\ now' \in 0..MaxTransactions /\ now \in Nat
        /\ known' = [known EXCEPT ![now + 1] = Committed]
        /\ UNCHANGED <<tables, onboard_call, check_call>>
    BY <1>1, TimesFact DEF RevokeBegin, Begin
  <2>2. known' \in [Times -> SUBSET (1..now')]
    BY <1>1, BeginKnown DEF RevokeBegin
  <2>3. revoke_call' \in [Revokers -> RevokeFrames']
    BY <1>1, <2>1 DEF RevokeBegin, Revoke, RevokeFrame, RevokeFrames, Types, tables
  <2>4. onboard_call' \in [Onboarders -> OnboardFrames'] /\ check_call' \in [Checkers -> CheckFrames']
    BY <2>1 DEF Types, OnboardFrames, CheckFrames
  <2>5. /\ investor_compliance' \subseteq [req : OnboardRequests, created_at : 1..now']
        /\ wallet_whitelist_events' \subseteq WhitelistEvents'
        /\ compliance_status_events' \subseteq [compliance_id : Times, created_at : 1..now']
        /\ outbox_events' \subseteq OutboxRows'
    BY <2>1 DEF Types, tables, WhitelistEvents, OutboxRows
  <2> QED
    BY <2>1, <2>2, <2>3, <2>4, <2>5 DEF Types
<1>2. CASE RevokeRead(c)
  <2>1. Revocable(revoke_call[c].investor_id) \subseteq investor_compliance
    BY DEF Revocable
  <2>2. /\ revoke_call[c].investor_id \in Investors /\ revoke_call[c].began \in 1..now
    BY <1>2 DEF RevokeRead, Types, RevokeFrames
  <2>3. revoke_call' \in [Revokers -> RevokeFrames]
    BY <1>2, <2>1, <2>2 DEF RevokeRead, Revoke, RevokeFrame, RevokeFrames, Types
  <2> QED
    BY <1>2, <2>3 DEF RevokeRead, Types, clock, tables, OnboardFrames, RevokeFrames,
       CheckFrames, WhitelistEvents, OutboxRows
<1>3. CASE RevokeFail(c)
  <2>1. revoke_call' \in [Revokers -> RevokeFrames]
    BY <1>3 DEF RevokeFail, Revoke, RevokeFrame, RevokeFrames, Types
  <2> QED
    BY <1>3, <2>1 DEF RevokeFail, Types, clock, tables, OnboardFrames, RevokeFrames,
       CheckFrames, WhitelistEvents, OutboxRows
<1>4. CASE RevokeCommit(c)
  <2> DEFINE call == revoke_call[c]
  <2>1. /\ call.investor_id \in Investors /\ call.began \in 1..now
        /\ call.rows \subseteq investor_compliance
    BY <1>4 DEF RevokeCommit, Types, RevokeFrames
  <2>2. UNCHANGED <<clock, investor_compliance, onboard_call, check_call>>
    BY <1>4 DEF RevokeCommit
  <2>3. ASSUME NEW row \in call.rows
        PROVE  row.req.wallet_address \in Wallets /\ row.created_at \in Times
    BY <2>1, TimesFact, ComplianceAssumption DEF Types
  <2>4. wallet_whitelist_events' \subseteq WhitelistEvents'
    BY <1>4, <2>1, <2>2, <2>3 DEF RevokeCommit, Types, clock, WhitelistEvents
  <2>5. compliance_status_events' \subseteq [compliance_id : Times, created_at : 1..now']
    BY <1>4, <2>1, <2>2, <2>3 DEF RevokeCommit, Types, clock
  <2>6. outbox_events' \subseteq OutboxRows'
    BY <1>4, <2>1, <2>2 DEF RevokeCommit, Types, clock, OutboxRows
  <2>7. revoke_call' \in [Revokers -> RevokeFrames']
    BY <1>4, <2>2 DEF RevokeCommit, Revoke, RevokeFrame, RevokeFrames, Types, clock
  <2> QED
    BY <2>2, <2>4, <2>5, <2>6, <2>7 DEF Types, clock, OnboardFrames, CheckFrames
<1> QED
  BY <1>1, <1>2, <1>3, <1>4 DEF RevokeStep

\* The statements of can_transfer.
LEMMA TypesCheck ==
  ASSUME Types, NEW c \in Checkers, CheckStep(c)
  PROVE  Types'
<1>1. UNCHANGED <<clock, tables, onboard_call, revoke_call>>
  BY DEF CheckStep, CheckSender, CheckReceiver, CheckFail
<1>2. NoCheck \in CheckFrames
  BY DEF NoCheck, CheckFrame, CheckFrames
<1>3. check_call' \in [Checkers -> CheckFrames]
  <2>1. ASSUME NEW from \in Wallets, NEW to \in Wallets, CheckSender(c, from, to)
        PROVE  check_call' \in [Checkers -> CheckFrames]
    <3>1. IsWalletWhitelisted(from) \in BOOLEAN /\ Committed \subseteq Times
      BY TimesFact DEF IsWalletWhitelisted
    <3> DEFINE frame == CheckFrame("receiver", from, to, IsWalletWhitelisted(from), Committed)
    <3>2. frame \in CheckFrames
      BY <3>1, Zenon DEF CheckFrame, CheckFrames
    <3>3. check_call' = [check_call EXCEPT ![c] = frame]
      BY <2>1 DEF CheckSender
    <3> HIDE DEF frame
    <3> QED
      BY <3>2, <3>3 DEF Types
  <2>2. CASE CheckReceiver(c)
    <3> DEFINE yes == BothWallets(check_call[c].sender_ok, IsWalletWhitelisted(check_call[c].to))
    <3>1. [check_call[c] EXCEPT !.pc = "yes"] \in CheckFrames
      BY DEF Types, CheckFrames
    <3>2. check_call' = [check_call EXCEPT
                           ![c] = IF yes THEN [@ EXCEPT !.pc = "yes"] ELSE NoCheck]
      BY <2>2 DEF CheckReceiver
    <3> HIDE DEF yes
    <3> QED
      BY <1>2, <3>1, <3>2 DEF Types
  <2>3. CASE CheckFail(c)
    BY <1>2, <2>3 DEF CheckFail, Types
  <2> QED
    BY <2>1, <2>2, <2>3 DEF CheckStep
<1> QED
  BY <1>1, <1>3 DEF Types, clock, tables, OnboardFrames, RevokeFrames, CheckFrames,
     WhitelistEvents, OutboxRows

\* One step of anybody.
LEMMA TypesStep == Types /\ [Next]_vars => Types'
<1>1. CASE UNCHANGED vars
  BY <1>1 DEF vars, Types, clock, tables, OnboardFrames, RevokeFrames, CheckFrames,
     WhitelistEvents, OutboxRows
<1> QED
  BY <1>1, TypesOnboard, TypesRevoke, TypesCheck DEF Next

LEMMA TypesInit == Init => Types
BY ComplianceAssumption DEF Init, Types, OnboardFrame, RevokeFrame, CheckFrame, NoCheck,
   OnboardFrames, RevokeFrames, CheckFrames, Times

\* Every table and every frame is of its type, for any number of calls.
THEOREM TypeCorrect == Spec => []TypeOK
<1>1. Types => TypeOK
  <2> SUFFICES ASSUME Types PROVE TypeOK
    OBVIOUS
  <2>1. investor_compliance \subseteq ComplianceRows
    BY TimesFact DEF Types, ComplianceRows
  <2>2. ASSUME NEW c \in Onboarders
        PROVE  /\ onboard_call[c].pc \in {"begin", "commit"} \cup Done
               /\ onboard_call[c].pc # "idle" => onboard_call[c].req \in OnboardRequests
               /\ onboard_call[c].pc \in {"commit", "ok"} => onboard_call[c].id \in 1..now
    BY DEF Types, OnboardFrames, Done
  <2>3. ASSUME NEW c \in Revokers
        PROVE  /\ revoke_call[c].pc \in {"idle", "read", "commit"}
               /\ revoke_call[c].rows \subseteq investor_compliance
    BY DEF Types, RevokeFrames
  <2>4. \A c \in Checkers : check_call[c].pc \in {"idle", "receiver", "yes"}
    BY DEF Types, CheckFrames
  <2> QED
    BY <2>1, <2>2, <2>3, <2>4 DEF Types, TypeOK, WhitelistEvents, OutboxRows
<1> QED
  BY <1>1, TypesInit, TypesStep, PTL DEF Spec

-----------------------------------------------------------------------------
(* Transactions and their times.                                           *)

Opening == {"read", "commit"}

\* A running transaction has a time of its own and has written nothing yet.
OpenIsUncommitted ==
  /\ \A c \in Onboarders : onboard_call[c].pc = "commit" => onboard_call[c].id \notin Committed
  /\ \A c \in Revokers : revoke_call[c].pc \in Opening => revoke_call[c].began \notin Committed
OpenTimesDiffer ==
  /\ \A c, d \in Onboarders :
       onboard_call[c].pc = "commit" /\ onboard_call[d].pc = "commit" /\ c # d =>
         onboard_call[c].id # onboard_call[d].id
  /\ \A c, d \in Revokers :
       revoke_call[c].pc \in Opening /\ revoke_call[d].pc \in Opening /\ c # d =>
         revoke_call[c].began # revoke_call[d].began
  /\ \A c \in Onboarders, d \in Revokers :
       onboard_call[c].pc = "commit" /\ revoke_call[d].pc \in Opening =>
         onboard_call[c].id # revoke_call[d].began
\* What a transaction could see has committed, and began before it.
KnownIsPast ==
  \A t \in Times : known[t] \subseteq Committed /\ \A u \in known[t] : u < t
\* A transaction announces what it did.
EventOf(action) ==
  IF action = "grant" THEN "investor.whitelisted" ELSE "investor.whitelist_revoked"
RowsAreAnnounced ==
  /\ \A row \in investor_compliance : row.created_at \in Committed
  /\ \A g \in wallet_whitelist_events : \E e \in outbox_events :
       e.created_at = g.created_at /\ e.event_type = EventOf(g.action)
  /\ \A e, f \in outbox_events : e.created_at = f.created_at => e = f

Clocked == OpenIsUncommitted /\ OpenTimesDiffer /\ KnownIsPast /\ RowsAreAnnounced

\* Who writes, who begins, and what is left.
LEMMA Writers ==
  ASSUME [Next]_vars
  PROVE  \/ \E c \in Onboarders : OnboardCommit(c)
         \/ \E c \in Revokers : RevokeCommit(c)
         \/ UNCHANGED tables
BY DEF Next, vars, OnboardStep, OnboardReplay, OnboardStart, OnboardBegin, OnboardFail,
   RevokeStep, RevokeBegin, RevokeRead, RevokeFail, CheckStep, CheckSender, CheckReceiver,
   CheckFail
LEMMA Beginners ==
  ASSUME [Next]_vars
  PROVE  (Begin /\ UNCHANGED tables) \/ UNCHANGED clock
BY DEF Next, vars, OnboardStep, OnboardReplay, OnboardStart, OnboardBegin, OnboardFail,
   OnboardCommit, RevokeStep, RevokeBegin, RevokeRead, RevokeFail, RevokeCommit, CheckStep,
   CheckSender, CheckReceiver, CheckFail

\* The tables only grow, each commit by rows of its own time.
LEMMA TablesGrow ==
  ASSUME [Next]_vars
  PROVE  /\ investor_compliance \subseteq investor_compliance'
         /\ wallet_whitelist_events \subseteq wallet_whitelist_events'
         /\ outbox_events \subseteq outbox_events'
         /\ Committed \subseteq Committed'
BY Writers DEF OnboardCommit, RevokeCommit, tables, Committed

\* A commit adds one time to those committed.
LEMMA OnboardCommits ==
  ASSUME NEW c \in Onboarders, OnboardCommit(c)
  PROVE  Committed' = Committed \cup {onboard_call[c].id}
<1> DEFINE e == [event_type |-> "investor.whitelisted", investor_id |-> OReq(c).investor_id,
                 created_at |-> onboard_call[c].id]
<1>1. outbox_events' = outbox_events \cup {e}
  BY DEF OnboardCommit
<1>2. e.created_at = onboard_call[c].id
  OBVIOUS
<1> HIDE DEF e
<1> QED
  BY <1>1, <1>2 DEF Committed
LEMMA RevokeCommits ==
  ASSUME NEW c \in Revokers, RevokeCommit(c)
  PROVE  Committed' = Committed \cup {revoke_call[c].began}
<1> DEFINE e == [event_type |-> "investor.whitelist_revoked", investor_id |-> revoke_call[c].investor_id,
                 created_at |-> revoke_call[c].began]
<1>1. outbox_events' = outbox_events \cup {e}
  BY DEF RevokeCommit
<1>2. e.created_at = revoke_call[c].began
  OBVIOUS
<1> HIDE DEF e
<1> QED
  BY <1>1, <1>2 DEF Committed

\* Where the running transactions of the next state come from.
LEMMA OpenOnboards ==
  ASSUME Types, [Next]_vars, NEW c \in Onboarders, onboard_call'[c].pc = "commit"
  PROVE  \/ onboard_call'[c] = onboard_call[c] /\ ~OnboardCommit(c)
         \/ OnboardBegin(c) /\ onboard_call'[c].id = now + 1
<1>1. ASSUME NEW d \in Onboarders, OnboardStep(d)
      PROVE  \/ onboard_call'[c] = onboard_call[c] /\ ~OnboardCommit(c)
             \/ OnboardBegin(c) /\ onboard_call'[c].id = now + 1
  <2>1. \A e \in Onboarders : e # d => onboard_call'[e] = onboard_call[e]
    BY <1>1 DEF OnboardStep, OnboardReplay, OnboardStart, OnboardBegin, OnboardCommit,
       OnboardFail, Onboard, Types
  <2>2. PICK pc, req, id : onboard_call' = [onboard_call EXCEPT ![d] = OnboardFrame(pc, req, id)]
                           /\ (pc = "commit" => OnboardBegin(d) /\ id = now + 1)
    BY <1>1 DEF OnboardStep, OnboardReplay, OnboardStart, OnboardBegin, OnboardCommit,
       OnboardFail, Onboard
  <2>3. onboard_call'[d] = OnboardFrame(pc, req, id)
    BY <2>2 DEF Types
  <2>4. CASE c = d
    BY <2>2, <2>3, <2>4 DEF OnboardFrame
  <2>5. CASE c # d
    <3>1. ~OnboardCommit(c)
      <4>1. OnboardCommit(c) => onboard_call'[c].pc = "ok"
        BY DEF OnboardCommit, Onboard, OnboardFrame, Types
      <4> QED
        BY <4>1
    <3> QED
      BY <2>1, <2>5, <3>1
  <2> QED
    BY <2>4, <2>5
<1>2. CASE UNCHANGED onboard_call
  <2>1. OnboardCommit(c) => onboard_call'[c].pc = "ok"
    BY DEF OnboardCommit, Onboard, OnboardFrame, Types
  <2> QED
    BY <1>2, <2>1
<1>3. \A d \in Revokers : RevokeStep(d) => UNCHANGED onboard_call
  BY DEF RevokeStep, RevokeBegin, RevokeRead, RevokeFail, RevokeCommit
<1>4. \A d \in Checkers : CheckStep(d) => UNCHANGED onboard_call
  BY DEF CheckStep, CheckSender, CheckReceiver, CheckFail
<1> QED
  BY <1>1, <1>2, <1>3, <1>4 DEF Next, vars

LEMMA OpenRevokes ==
  ASSUME Types, [Next]_vars, NEW c \in Revokers, revoke_call'[c].pc \in Opening
  PROVE  \/ /\ revoke_call[c].pc \in Opening /\ ~RevokeCommit(c)
            /\ revoke_call'[c].began = revoke_call[c].began
            /\ revoke_call'[c].investor_id = revoke_call[c].investor_id
            /\ \/ revoke_call'[c] = revoke_call[c]
               \/ RevokeRead(c) /\ revoke_call'[c].rows = Revocable(revoke_call[c].investor_id)
         \/ /\ \E i \in Investors : RevokeBegin(c, i)
            /\ revoke_call'[c].pc = "read" /\ revoke_call'[c].began = now + 1
<1> DEFINE Goal ==
      \/ /\ revoke_call[c].pc \in Opening /\ ~RevokeCommit(c)
         /\ revoke_call'[c].began = revoke_call[c].began
         /\ revoke_call'[c].investor_id = revoke_call[c].investor_id
         /\ \/ revoke_call'[c] = revoke_call[c]
            \/ RevokeRead(c) /\ revoke_call'[c].rows = Revocable(revoke_call[c].investor_id)
      \/ /\ \E i \in Investors : RevokeBegin(c, i)
         /\ revoke_call'[c].pc = "read" /\ revoke_call'[c].began = now + 1
<1>1. ~RevokeCommit(c)
  <2>1. RevokeCommit(c) => revoke_call'[c].pc = "idle"
    BY DEF RevokeCommit, Revoke, RevokeFrame, Types
  <2> QED
    BY <2>1 DEF Opening
<1>2. ASSUME NEW d \in Revokers, RevokeStep(d) PROVE Goal
  <2>1. CASE d # c
    <3>1. revoke_call'[c] = revoke_call[c]
      BY <1>2, <2>1 DEF RevokeStep, RevokeBegin, RevokeRead, RevokeFail, RevokeCommit, Revoke,
         Types
    <3> QED
      BY <1>1, <3>1
  <2>2. CASE d = c
    <3>1. CASE RevokeFail(c)
      BY <3>1 DEF RevokeFail, Revoke, RevokeFrame, Types, Opening
    <3>2. ASSUME NEW i \in Investors, RevokeBegin(c, i) PROVE Goal
      BY <3>2 DEF RevokeBegin, Revoke, RevokeFrame, Types
    <3>3. CASE RevokeRead(c)
      <4>1. revoke_call'[c] = RevokeFrame("commit", revoke_call[c].investor_id,
              revoke_call[c].began, Revocable(revoke_call[c].investor_id))
        BY <3>3 DEF RevokeRead, Revoke, Types
      <4> QED
        BY <1>1, <3>3, <4>1 DEF RevokeRead, RevokeFrame, Opening
    <3> QED
      BY <1>1, <1>2, <2>2, <3>1, <3>2, <3>3 DEF RevokeStep
  <2> QED
    BY <2>1, <2>2
<1>3. ASSUME UNCHANGED revoke_call PROVE Goal
  BY <1>1, <1>3
<1>4. \A d \in Onboarders : OnboardStep(d) => UNCHANGED revoke_call
  BY DEF OnboardStep, OnboardReplay, OnboardStart, OnboardBegin, OnboardCommit, OnboardFail
<1>5. \A d \in Checkers : CheckStep(d) => UNCHANGED revoke_call
  BY DEF CheckStep, CheckSender, CheckReceiver, CheckFail
<1> HIDE DEF Goal
<1>6. Goal
  BY <1>2, <1>3, <1>4, <1>5 DEF Next, vars
<1> QED
  BY <1>6 DEF Goal

\* The rows of a commit are announced by its one event, which nobody else has.
LEMMA CommitsAreAnnounced ==
  ASSUME Types, Clocked, [Next]_vars
  PROVE  RowsAreAnnounced'
<1>1. CASE UNCHANGED tables
  BY <1>1 DEF Clocked, RowsAreAnnounced, tables, Committed
<1>2. ASSUME NEW c \in Onboarders, OnboardCommit(c) PROVE RowsAreAnnounced'
  <2> DEFINE at == onboard_call[c].id
             o == [event_type |-> "investor.whitelisted", investor_id |-> OReq(c).investor_id,
                   created_at |-> at]
             g == [wallet_address |-> OReq(c).wallet_address,
                   investor_id |-> OReq(c).investor_id, action |-> "grant", created_at |-> at]
             row == [req |-> OReq(c), created_at |-> at]
  <2>1. /\ outbox_events' = outbox_events \cup {o}
        /\ wallet_whitelist_events' = wallet_whitelist_events \cup {g}
        /\ investor_compliance' = investor_compliance \cup {row}
        /\ onboard_call[c].pc = "commit"
    BY <1>2 DEF OnboardCommit
  <2>2. /\ o.created_at = at /\ o.event_type = EventOf("grant")
        /\ g.created_at = at /\ g.action = "grant" /\ row.created_at = at
    BY DEF EventOf
  <2>3. at \notin Committed
    BY <2>1 DEF Clocked, OpenIsUncommitted
  <2> HIDE DEF o, g, row, at
  <2>4. \A e \in outbox_events : e.created_at # at
    BY <2>3 DEF Committed
  <2>5. Committed' = Committed \cup {at}
    BY <2>1, <2>2 DEF Committed
  <2> QED
    BY <2>1, <2>2, <2>4, <2>5 DEF Clocked, RowsAreAnnounced
<1>3. ASSUME NEW c \in Revokers, RevokeCommit(c) PROVE RowsAreAnnounced'
  <2> DEFINE at == revoke_call[c].began
             o == [event_type |-> "investor.whitelist_revoked",
                   investor_id |-> revoke_call[c].investor_id, created_at |-> at]
  <2>1. /\ outbox_events' = outbox_events \cup {o}
        /\ investor_compliance' = investor_compliance
        /\ revoke_call[c].pc = "commit"
    BY <1>3 DEF RevokeCommit
  <2>2. \A g \in wallet_whitelist_events' :
          g \in wallet_whitelist_events \/ (g.action = "revoke" /\ g.created_at = at)
    <3> SUFFICES ASSUME NEW g \in wallet_whitelist_events', g \notin wallet_whitelist_events
                 PROVE  g.action = "revoke" /\ g.created_at = at
      OBVIOUS
    <3>1. PICK row \in revoke_call[c].rows :
            g = [wallet_address |-> row.req.wallet_address,
                 investor_id |-> revoke_call[c].investor_id, action |-> "revoke",
                 created_at |-> at]
      BY <1>3 DEF RevokeCommit
    <3> QED
      BY <3>1
  <2>3. o.created_at = at /\ o.event_type = EventOf("revoke")
    BY DEF EventOf
  <2>4. at \notin Committed
    BY <2>1 DEF Clocked, OpenIsUncommitted, Opening
  <2> HIDE DEF o, at
  <2>5. \A e \in outbox_events : e.created_at # at
    BY <2>4 DEF Committed
  <2>6. Committed' = Committed \cup {at}
    BY <2>1, <2>3 DEF Committed
  <2> QED
    BY <2>1, <2>2, <2>3, <2>5, <2>6 DEF Clocked, RowsAreAnnounced
<1> QED
  BY <1>1, <1>2, <1>3, Writers

\* What a beginning transaction sees has committed, and its time is the latest.
LEMMA KnownStaysPast ==
  ASSUME Types, Clocked, [Next]_vars
  PROVE  KnownIsPast'
<1>1. CASE UNCHANGED clock
  BY <1>1, TablesGrow DEF clock, Clocked, KnownIsPast
<1>2. CASE Begin /\ UNCHANGED tables
  <2>1. Committed' = Committed
    BY <1>2 DEF tables, Committed
  <2>2. known' = [known EXCEPT ![now + 1] = Committed] /\ now \in Nat
        /\ \A u \in Committed : u < now + 1
    BY <1>2, TimesFact DEF Begin
  <2>3. \A t \in Times : known'[t] = IF t = now + 1 THEN Committed ELSE known[t]
    BY <2>2 DEF Types
  <2> QED
    BY <2>1, <2>2, <2>3 DEF Clocked, KnownIsPast
<1> QED
  BY <1>1, <1>2, Beginners

\* Times of running transactions, one of which may just have begun.
LEMMA OpenStaysUncommitted ==
  ASSUME Types, Clocked, [Next]_vars
  PROVE  OpenIsUncommitted'
<1>1. ASSUME NEW c \in Onboarders, onboard_call'[c].pc = "commit"
      PROVE  onboard_call'[c].id \notin Committed'
  <2>1. CASE onboard_call'[c] = onboard_call[c] /\ ~OnboardCommit(c)
    <3>1. onboard_call[c].id \notin Committed /\ onboard_call[c].pc = "commit"
      BY <1>1, <2>1 DEF Clocked, OpenIsUncommitted
    <3>2. ASSUME NEW d \in Onboarders, OnboardCommit(d)
          PROVE  onboard_call[c].id \notin Committed'
      <4>1. d # c /\ onboard_call[d].pc = "commit"
        BY <2>1, <3>2 DEF OnboardCommit
      <4> QED
        BY <3>1, <3>2, <4>1, OnboardCommits DEF Clocked, OpenTimesDiffer
    <3>3. ASSUME NEW d \in Revokers, RevokeCommit(d)
          PROVE  onboard_call[c].id \notin Committed'
      <4>1. revoke_call[d].pc \in Opening
        BY <3>3 DEF RevokeCommit, Opening
      <4> QED
        BY <3>1, <3>3, <4>1, RevokeCommits DEF Clocked, OpenTimesDiffer
    <3>4. CASE UNCHANGED tables
      BY <3>1, <3>4, <2>1 DEF tables, Committed
    <3> QED
      BY <2>1, <3>2, <3>3, <3>4, Writers
  <2>2. CASE OnboardBegin(c) /\ onboard_call'[c].id = now + 1
    <3>1. Committed' = Committed
      BY <2>2 DEF OnboardBegin, tables, Committed
    <3> QED
      BY <2>2, <3>1, TimesFact
  <2> QED
    BY <1>1, <2>1, <2>2, OpenOnboards
<1>2. ASSUME NEW c \in Revokers, revoke_call'[c].pc \in Opening
      PROVE  revoke_call'[c].began \notin Committed'
  <2>1. CASE /\ revoke_call[c].pc \in Opening /\ ~RevokeCommit(c)
             /\ revoke_call'[c].began = revoke_call[c].began
    <3>1. revoke_call[c].began \notin Committed
      BY <2>1 DEF Clocked, OpenIsUncommitted
    <3>2. ASSUME NEW d \in Onboarders, OnboardCommit(d)
          PROVE  revoke_call[c].began \notin Committed'
      <4>1. onboard_call[d].pc = "commit"
        BY <3>2 DEF OnboardCommit
      <4> QED
        BY <2>1, <3>1, <3>2, <4>1, OnboardCommits DEF Clocked, OpenTimesDiffer
    <3>3. ASSUME NEW d \in Revokers, RevokeCommit(d)
          PROVE  revoke_call[c].began \notin Committed'
      <4>1. d # c /\ revoke_call[d].pc \in Opening
        BY <2>1, <3>3 DEF RevokeCommit, Opening
      <4> QED
        BY <2>1, <3>1, <3>3, <4>1, RevokeCommits DEF Clocked, OpenTimesDiffer
    <3>4. CASE UNCHANGED tables
      BY <3>1, <3>4, <2>1 DEF tables, Committed
    <3> QED
      BY <2>1, <3>2, <3>3, <3>4, Writers
  <2>2. CASE (\E i \in Investors : RevokeBegin(c, i)) /\ revoke_call'[c].began = now + 1
    <3>1. Committed' = Committed
      BY <2>2 DEF RevokeBegin, tables, Committed
    <3> QED
      BY <2>2, <3>1, TimesFact
  <2> QED
    BY <1>2, <2>1, <2>2, OpenRevokes
<1> QED
  BY <1>1, <1>2 DEF OpenIsUncommitted

LEMMA OpenStaysApart ==
  ASSUME Types, Clocked, [Next]_vars
  PROVE  OpenTimesDiffer'
<1>1. /\ \A c \in Onboarders : onboard_call[c].pc = "commit" =>
           onboard_call[c].id \in Nat /\ onboard_call[c].id <= now
      /\ \A c \in Revokers : revoke_call[c].pc \in Opening =>
           revoke_call[c].began \in Nat /\ revoke_call[c].began <= now
      /\ now \in Nat
  BY TimesFact DEF Types, OnboardFrames, RevokeFrames, Opening
<1>2. ASSUME NEW c \in Onboarders, OnboardBegin(c)
      PROVE  /\ \A d \in Onboarders : d # c => onboard_call'[d] = onboard_call[d]
             /\ onboard_call[c].pc = "begin" /\ revoke_call' = revoke_call
  BY <1>2 DEF OnboardBegin, Onboard, Types
<1>3. ASSUME NEW c \in Revokers, NEW i \in Investors, RevokeBegin(c, i)
      PROVE  /\ \A d \in Revokers : d # c => revoke_call'[d] = revoke_call[d]
             /\ revoke_call[c].pc = "idle" /\ onboard_call' = onboard_call
  BY <1>3 DEF RevokeBegin, Revoke, Types
<1>4. ASSUME NEW c \in Onboarders, NEW d \in Onboarders, c # d,
             onboard_call'[c].pc = "commit", onboard_call'[d].pc = "commit"
      PROVE  onboard_call'[c].id # onboard_call'[d].id
  <2>1. CASE OnboardBegin(c) /\ onboard_call'[c].id = now + 1
    <3>1. onboard_call'[d] = onboard_call[d]
      BY <1>2, <1>4, <2>1
    <3> QED
      BY <1>1, <1>4, <2>1, <3>1
  <2>2. CASE OnboardBegin(d) /\ onboard_call'[d].id = now + 1
    <3>1. onboard_call'[c] = onboard_call[c]
      BY <1>2, <1>4, <2>2
    <3> QED
      BY <1>1, <1>4, <2>2, <3>1
  <2>3. CASE onboard_call'[c] = onboard_call[c] /\ onboard_call'[d] = onboard_call[d]
    BY <1>4, <2>3 DEF Clocked, OpenTimesDiffer
  <2> QED
    BY <1>4, <2>1, <2>2, <2>3, OpenOnboards
<1>5. ASSUME NEW c \in Revokers, NEW d \in Revokers, c # d,
             revoke_call'[c].pc \in Opening, revoke_call'[d].pc \in Opening
      PROVE  revoke_call'[c].began # revoke_call'[d].began
  <2>1. CASE (\E i \in Investors : RevokeBegin(c, i)) /\ revoke_call'[c].began = now + 1
    <3>1. revoke_call'[d] = revoke_call[d]
      BY <1>3, <1>5, <2>1
    <3> QED
      BY <1>1, <1>5, <2>1, <3>1
  <2>2. CASE (\E i \in Investors : RevokeBegin(d, i)) /\ revoke_call'[d].began = now + 1
    <3>1. revoke_call'[c] = revoke_call[c]
      BY <1>3, <1>5, <2>2
    <3> QED
      BY <1>1, <1>5, <2>2, <3>1
  <2>3. CASE /\ revoke_call[c].pc \in Opening /\ revoke_call[d].pc \in Opening
             /\ revoke_call'[c].began = revoke_call[c].began
             /\ revoke_call'[d].began = revoke_call[d].began
    BY <1>5, <2>3 DEF Clocked, OpenTimesDiffer
  <2> QED
    BY <1>5, <2>1, <2>2, <2>3, OpenRevokes
<1>6. ASSUME NEW c \in Onboarders, NEW d \in Revokers,
             onboard_call'[c].pc = "commit", revoke_call'[d].pc \in Opening
      PROVE  onboard_call'[c].id # revoke_call'[d].began
  <2>1. CASE OnboardBegin(c) /\ onboard_call'[c].id = now + 1
    <3>1. revoke_call'[d] = revoke_call[d]
      BY <1>2, <2>1
    <3> QED
      BY <1>1, <1>6, <2>1, <3>1
  <2>2. CASE (\E i \in Investors : RevokeBegin(d, i)) /\ revoke_call'[d].began = now + 1
    <3>1. onboard_call'[c] = onboard_call[c]
      BY <1>3, <2>2
    <3> QED
      BY <1>1, <1>6, <2>2, <3>1
  <2>3. CASE /\ onboard_call'[c] = onboard_call[c] /\ revoke_call[d].pc \in Opening
             /\ revoke_call'[d].began = revoke_call[d].began
    BY <1>6, <2>3 DEF Clocked, OpenTimesDiffer
  <2> QED
    BY <1>6, <2>1, <2>2, <2>3, OpenOnboards, OpenRevokes
<1> QED
  BY <1>4, <1>5, <1>6 DEF OpenTimesDiffer

\* The account of transactions and their times is inductive.
LEMMA ClockedStep == Types /\ Clocked /\ [Next]_vars => Clocked'
BY CommitsAreAnnounced, KnownStaysPast, OpenStaysUncommitted, OpenStaysApart DEF Clocked
LEMMA ClockedInit == Init => Clocked
BY DEF Init, Clocked, OpenIsUncommitted, OpenTimesDiffer, KnownIsPast, RowsAreAnnounced,
   Committed, OnboardFrame, RevokeFrame, Opening

\* New rows carry the time of a transaction that had not committed, so nobody
\* who began earlier knows them.
LEMMA NewRowsAreUnknown ==
  ASSUME Types, Clocked, [Next]_vars
  PROVE  /\ \A r \in wallet_whitelist_events' : r \in wallet_whitelist_events \/ r.created_at \notin Committed
         /\ \A r \in investor_compliance' : r \in investor_compliance \/ r.created_at \notin Committed
         /\ \A t \in 1..now : known'[t] = known[t]
<1>1. ASSUME UNCHANGED tables
      PROVE  /\ \A r \in wallet_whitelist_events' : r \in wallet_whitelist_events \/ r.created_at \notin Committed
             /\ \A r \in investor_compliance' : r \in investor_compliance \/ r.created_at \notin Committed
  BY <1>1 DEF tables
<1>2. ASSUME NEW c \in Onboarders, OnboardCommit(c)
      PROVE  /\ \A r \in wallet_whitelist_events' : r \in wallet_whitelist_events \/ r.created_at \notin Committed
             /\ \A r \in investor_compliance' : r \in investor_compliance \/ r.created_at \notin Committed
  <2>1. onboard_call[c].id \notin Committed
    BY <1>2 DEF OnboardCommit, Clocked, OpenIsUncommitted
  <2> QED
    BY <1>2, <2>1 DEF OnboardCommit
<1>3. ASSUME NEW c \in Revokers, RevokeCommit(c)
      PROVE  /\ \A r \in wallet_whitelist_events' : r \in wallet_whitelist_events \/ r.created_at \notin Committed
             /\ \A r \in investor_compliance' : r \in investor_compliance \/ r.created_at \notin Committed
  <2>1. revoke_call[c].began \notin Committed
    BY <1>3 DEF RevokeCommit, Clocked, OpenIsUncommitted, Opening
  <2>2. ASSUME NEW r \in wallet_whitelist_events', r \notin wallet_whitelist_events
        PROVE  r.created_at \notin Committed
    <3>1. PICK row \in revoke_call[c].rows :
            r = [wallet_address |-> row.req.wallet_address,
                 investor_id |-> revoke_call[c].investor_id, action |-> "revoke",
                 created_at |-> revoke_call[c].began]
      BY <1>3, <2>2 DEF RevokeCommit
    <3> QED
      BY <2>1, <3>1
  <2>3. investor_compliance' = investor_compliance
    BY <1>3 DEF RevokeCommit
  <2> QED
    BY <2>2, <2>3
<1>4. \A t \in 1..now : known'[t] = known[t]
  <2>1. CASE Begin
    <3>1. \A t \in 1..now : t # now + 1 /\ t \in Times
      BY TimesFact
    <3> QED
      BY <2>1, <3>1 DEF Begin, Types
  <2> QED
    BY <2>1, Beginners DEF clock
<1> QED
  BY <1>1, <1>2, <1>3, <1>4, Writers

-----------------------------------------------------------------------------
(* Keys.                                                                   *)

\* A caller's frame moves by its own steps only.
LEMMA OnboardMoves ==
  ASSUME Types, [Next]_vars, NEW c \in Onboarders
  PROVE  onboard_call'[c] = onboard_call[c] \/ OnboardStep(c)
<1>1. ASSUME NEW d \in Onboarders, OnboardStep(d), d # c
      PROVE  onboard_call'[c] = onboard_call[c]
  BY <1>1 DEF OnboardStep, OnboardReplay, OnboardStart, OnboardBegin, OnboardCommit,
     OnboardFail, Onboard, Types
<1>2. \A d \in Revokers : RevokeStep(d) => UNCHANGED onboard_call
  BY DEF RevokeStep, RevokeBegin, RevokeRead, RevokeFail, RevokeCommit
<1>3. \A d \in Checkers : CheckStep(d) => UNCHANGED onboard_call
  BY DEF CheckStep, CheckSender, CheckReceiver, CheckFail
<1> QED
  BY <1>1, <1>2, <1>3 DEF Next, vars

\* Compliance rows are written by onboardings only.
LEMMA RecordedByOnboarding ==
  ASSUME [Next]_vars
  PROVE  (\E c \in Onboarders : OnboardCommit(c)) \/ UNCHANGED investor_compliance
BY Writers DEF RevokeCommit, tables

LEMMA KeysStep == Types /\ OneRecordPerKey /\ [Next]_vars => OneRecordPerKey'
<1> SUFFICES ASSUME Types, OneRecordPerKey, [Next]_vars PROVE OneRecordPerKey'
  OBVIOUS
<1>1. ASSUME NEW r \in investor_compliance', NEW s \in investor_compliance',
             r.req.idempotency_key = s.req.idempotency_key
      PROVE  r = s
  <2>1. CASE UNCHANGED investor_compliance
    BY <1>1, <2>1 DEF OneRecordPerKey
  <2>2. ASSUME NEW c \in Onboarders, OnboardCommit(c) PROVE r = s
    <3> DEFINE new == [req |-> OReq(c), created_at |-> onboard_call[c].id]
    <3>1. investor_compliance' = investor_compliance \cup {new}
          /\ RowsWithKey(OReq(c).idempotency_key) = {}
      BY <2>2 DEF OnboardCommit, KeyTaken
    <3>2. new.req = OReq(c)
      OBVIOUS
    <3> HIDE DEF new
    <3>3. \A row \in investor_compliance : row.req.idempotency_key # new.req.idempotency_key
      BY <3>1, <3>2 DEF RowsWithKey
    <3> QED
      BY <1>1, <3>1, <3>3 DEF OneRecordPerKey
  <2> QED
    BY <2>1, <2>2, RecordedByOnboarding
<1>2. ASSUME NEW c \in Onboarders, onboard_call'[c].pc = "ok"
      PROVE  \E row \in investor_compliance' :
               /\ row.req.idempotency_key = onboard_call'[c].req.idempotency_key
               /\ row.created_at = onboard_call'[c].id
  <2>1. CASE onboard_call'[c] = onboard_call[c]
    BY <1>2, <2>1, TablesGrow DEF OneRecordPerKey, RowsWithKey, OReq
  <2>2. ASSUME NEW req \in OnboardRequests, OnboardReplay(c, req)
        PROVE  \E row \in investor_compliance' :
                 /\ row.req.idempotency_key = onboard_call'[c].req.idempotency_key
                 /\ row.created_at = onboard_call'[c].id
    <3>1. PICK row \in RowsWithKey(req.idempotency_key) :
            onboard_call' = [onboard_call EXCEPT ![c] = OnboardFrame("ok", req, row.created_at)]
      BY <2>2 DEF OnboardReplay, Onboard
    <3>2. onboard_call'[c].req = req /\ onboard_call'[c].id = row.created_at
      BY <3>1 DEF OnboardFrame, Types
    <3> QED
      BY <3>1, <3>2, TablesGrow DEF RowsWithKey
  <2>3. CASE OnboardCommit(c)
    <3>1. /\ onboard_call'[c].req = OReq(c) /\ onboard_call'[c].id = onboard_call[c].id
          /\ [req |-> OReq(c), created_at |-> onboard_call[c].id] \in investor_compliance'
      BY <2>3 DEF OnboardCommit, Onboard, OnboardFrame, Types
    <3> QED
      BY <3>1
  <2>4. /\ \A req \in OnboardRequests : ~OnboardStart(c, req)
        /\ ~OnboardBegin(c) /\ ~OnboardFail(c)
    BY <1>2 DEF OnboardStart, OnboardBegin, OnboardFail, Onboard, OnboardFrame, Types
  <2> QED
    BY <2>1, <2>2, <2>3, <2>4, OnboardMoves DEF OnboardStep
<1> QED
  BY <1>1, <1>2 DEF OneRecordPerKey, RowsWithKey, OReq

\* A key names one compliance record, whatever calls with it do at once
\* (find_by_idempotency_key and the UNIQUE column of investor_compliance).
THEOREM KeysNameOneRecord == Spec => []OneRecordPerKey
<1>1. Init => OneRecordPerKey
  BY DEF Init, OneRecordPerKey, OnboardFrame
<1> QED
  BY <1>1, KeysStep, TypesInit, TypesStep, PTL DEF Spec

-----------------------------------------------------------------------------
(* Screening.                                                              *)

\* Whoever writes has been let through by both providers.
CallsAreScreened ==
  \A c \in Onboarders : onboard_call[c].pc \in {"begin", "commit"} =>
    Passes(OReq(c).investor_id)

LEMMA ScreeningStep ==
  Types /\ CallsAreScreened /\ OnlyScreenedInvestors /\ [Next]_vars =>
    CallsAreScreened' /\ OnlyScreenedInvestors'
<1> SUFFICES ASSUME Types, CallsAreScreened, OnlyScreenedInvestors, [Next]_vars
             PROVE  CallsAreScreened' /\ OnlyScreenedInvestors'
  OBVIOUS
<1>1. ASSUME NEW c \in Onboarders, onboard_call'[c].pc \in {"begin", "commit"}
      PROVE  Passes(onboard_call'[c].req.investor_id)
  <2>1. CASE onboard_call'[c] = onboard_call[c]
    BY <1>1, <2>1 DEF CallsAreScreened, OReq
  <2>2. ASSUME NEW req \in OnboardRequests, OnboardStart(c, req)
        PROVE  Passes(onboard_call'[c].req.investor_id)
    BY <2>2 DEF OnboardStart, Onboard, OnboardFrame, Types
  <2>3. CASE OnboardBegin(c)
    <3>1. onboard_call'[c].req = OReq(c) /\ onboard_call[c].pc = "begin"
      BY <2>3 DEF OnboardBegin, Onboard, OnboardFrame, Types
    <3> QED
      BY <3>1 DEF CallsAreScreened
  <2>4. /\ \A req \in OnboardRequests : ~OnboardReplay(c, req)
        /\ ~OnboardCommit(c) /\ ~OnboardFail(c)
    BY <1>1 DEF OnboardReplay, OnboardCommit, OnboardFail, Onboard, OnboardFrame, Types
  <2> QED
    BY <2>1, <2>2, <2>3, <2>4, OnboardMoves DEF OnboardStep
<1>2. ASSUME NEW row \in investor_compliance'
      PROVE  row.req.investor_id \notin Sanctioned \cup Unverified
  <2>1. CASE row \in investor_compliance
    BY <2>1 DEF OnlyScreenedInvestors
  <2>2. ASSUME NEW c \in Onboarders, OnboardCommit(c), row \notin investor_compliance
        PROVE  row.req.investor_id \notin Sanctioned \cup Unverified
    <3>1. row.req = OReq(c) /\ Passes(OReq(c).investor_id)
      BY <2>2 DEF OnboardCommit, CallsAreScreened
    <3> QED
      BY <3>1 DEF Passes
  <2>3. \A c \in Revokers : RevokeCommit(c) => row \in investor_compliance
    BY DEF RevokeCommit
  <2> QED
    BY <2>1, <2>2, <2>3, Writers DEF tables
<1>3. ASSUME NEW g \in wallet_whitelist_events', g.action = "grant"
      PROVE  /\ g.investor_id \notin Sanctioned \cup Unverified
             /\ \E row \in investor_compliance' :
                  /\ row.created_at = g.created_at
                  /\ row.req.investor_id = g.investor_id
                  /\ row.req.wallet_address = g.wallet_address
  <2>1. CASE g \in wallet_whitelist_events
    BY <1>3, <2>1, TablesGrow DEF OnlyScreenedInvestors
  <2>2. ASSUME NEW c \in Onboarders, OnboardCommit(c), g \notin wallet_whitelist_events
        PROVE  /\ g.investor_id \notin Sanctioned \cup Unverified
               /\ \E row \in investor_compliance' :
                    /\ row.created_at = g.created_at
                    /\ row.req.investor_id = g.investor_id
                    /\ row.req.wallet_address = g.wallet_address
    <3> DEFINE row == [req |-> OReq(c), created_at |-> onboard_call[c].id]
    <3>1. /\ row \in investor_compliance'
          /\ g.investor_id = OReq(c).investor_id /\ g.created_at = onboard_call[c].id
          /\ g.wallet_address = OReq(c).wallet_address
          /\ Passes(OReq(c).investor_id)
      BY <2>2 DEF OnboardCommit, CallsAreScreened
    <3>2. /\ row.created_at = g.created_at
          /\ row.req.investor_id = g.investor_id
          /\ row.req.wallet_address = g.wallet_address
      BY <3>1
    <3> HIDE DEF row
    <3> QED
      BY <3>1, <3>2 DEF Passes
  <2>3. \A c \in Revokers : RevokeCommit(c) => g \in wallet_whitelist_events
    BY <1>3 DEF RevokeCommit
  <2> QED
    BY <2>1, <2>2, <2>3, Writers DEF tables
<1>4. ASSUME NEW e \in outbox_events', e.event_type = "investor.whitelisted"
      PROVE  /\ e.investor_id \notin Sanctioned \cup Unverified
             /\ \E g \in wallet_whitelist_events' :
                  /\ g.action = "grant"
                  /\ g.created_at = e.created_at
                  /\ g.investor_id = e.investor_id
  <2>1. CASE e \in outbox_events
    BY <1>4, <2>1, TablesGrow DEF OnlyScreenedInvestors
  <2>2. ASSUME NEW c \in Onboarders, OnboardCommit(c), e \notin outbox_events
        PROVE  /\ e.investor_id \notin Sanctioned \cup Unverified
               /\ \E g \in wallet_whitelist_events' :
                    /\ g.action = "grant"
                    /\ g.created_at = e.created_at
                    /\ g.investor_id = e.investor_id
    <3> DEFINE g == [wallet_address |-> OReq(c).wallet_address,
                     investor_id |-> OReq(c).investor_id, action |-> "grant",
                     created_at |-> onboard_call[c].id]
    <3>1. /\ g \in wallet_whitelist_events'
          /\ e.investor_id = OReq(c).investor_id /\ e.created_at = onboard_call[c].id
          /\ Passes(OReq(c).investor_id)
      BY <1>4, <2>2 DEF OnboardCommit, CallsAreScreened
    <3>2. g.action = "grant" /\ g.created_at = e.created_at /\ g.investor_id = e.investor_id
      BY <3>1
    <3> HIDE DEF g
    <3> QED
      BY <3>1, <3>2 DEF Passes
  <2>3. \A c \in Revokers : RevokeCommit(c) => e \in outbox_events
    BY <1>4 DEF RevokeCommit
  <2> QED
    BY <1>4, <2>1, <2>2, <2>3, Writers DEF tables
<1> QED
  BY <1>1, <1>2, <1>3, <1>4 DEF CallsAreScreened, OnlyScreenedInvestors, OReq

\* Nobody the providers turn down is recorded, granted or announced, however
\* calls that share his wallet or his key interleave, and each grant has its
\* record and each announcement its grant (onboard_investor).
THEOREM OnlyScreened == Spec => []OnlyScreenedInvestors
<1>1. Init => CallsAreScreened /\ OnlyScreenedInvestors
  BY DEF Init, CallsAreScreened, OnlyScreenedInvestors, OnboardFrame
<1> QED
  BY <1>1, ScreeningStep, TypesInit, TypesStep, PTL DEF Spec

-----------------------------------------------------------------------------
(* Revocations.                                                            *)

\* What a revocation has read is all that was on record when it began, and for
\* each of these rows it writes a revoke event of its time.
RevokersHaveRead ==
  \A c \in Revokers : revoke_call[c].pc = "commit" =>
    \A row \in investor_compliance :
      /\ row.req.investor_id = revoke_call[c].investor_id
      /\ row.created_at \in known[revoke_call[c].began]
      => row \in revoke_call[c].rows
RevocationsAreWritten ==
  \A e \in outbox_events : e.event_type = "investor.whitelist_revoked" =>
    \A row \in investor_compliance :
      row.req.investor_id = e.investor_id /\ row.created_at \in known[e.created_at] =>
        \E r \in EventsOf(row.req.wallet_address) :
          r.action = "revoke" /\ r.created_at = e.created_at

RevokeInv == RevokersHaveRead /\ RevocationsAreWritten

LEMMA RevokersStayRead ==
  ASSUME Types, Clocked, RevokeInv, [Next]_vars
  PROVE  RevokersHaveRead'
<1> SUFFICES ASSUME NEW c \in Revokers, revoke_call'[c].pc = "commit",
                    NEW row \in investor_compliance',
                    row.req.investor_id = revoke_call'[c].investor_id,
                    row.created_at \in known'[revoke_call'[c].began]
             PROVE  row \in revoke_call'[c].rows
  BY DEF RevokersHaveRead
<1>1. /\ revoke_call[c].pc \in Opening
      /\ revoke_call'[c].began = revoke_call[c].began
      /\ revoke_call'[c].investor_id = revoke_call[c].investor_id
      /\ \/ revoke_call'[c] = revoke_call[c]
         \/ RevokeRead(c) /\ revoke_call'[c].rows = Revocable(revoke_call[c].investor_id)
  BY OpenRevokes DEF Opening
<1>2. revoke_call[c].began \in 1..now /\ revoke_call[c].began \in Times
  BY <1>1, TimesFact DEF Types, RevokeFrames, Opening
<1>3. row.created_at \in known[revoke_call[c].began] /\ row.created_at \in Committed
  BY <1>1, <1>2, NewRowsAreUnknown DEF Clocked, KnownIsPast
<1>4. row \in investor_compliance
  BY <1>3, NewRowsAreUnknown
<1>5. CASE revoke_call'[c] = revoke_call[c]
  BY <1>3, <1>4, <1>5 DEF RevokeInv, RevokersHaveRead
<1>6. CASE revoke_call'[c].rows = Revocable(revoke_call[c].investor_id)
  BY <1>1, <1>4, <1>6 DEF Revocable
<1> QED
  BY <1>1, <1>5, <1>6

LEMMA RevocationsStayWritten ==
  ASSUME Types, Clocked, RevokeInv, [Next]_vars
  PROVE  RevocationsAreWritten'
<1> SUFFICES ASSUME NEW e \in outbox_events',
                    e.event_type = "investor.whitelist_revoked",
                    NEW row \in investor_compliance',
                    row.req.investor_id = e.investor_id,
                    row.created_at \in known'[e.created_at]
             PROVE  \E r \in wallet_whitelist_events' :
                      /\ r.wallet_address = row.req.wallet_address
                      /\ r.action = "revoke" /\ r.created_at = e.created_at
  BY DEF RevocationsAreWritten, EventsOf
<1>1. ASSUME e.created_at \in 1..now
      PROVE  row \in investor_compliance /\ row.created_at \in known[e.created_at]
  <2>1. e.created_at \in Times /\ row.created_at \in known[e.created_at]
    BY <1>1, TimesFact, NewRowsAreUnknown
  <2>2. row.created_at \in Committed
    BY <2>1 DEF Clocked, KnownIsPast
  <2> QED
    BY <2>1, <2>2, NewRowsAreUnknown
<1>2. CASE e \in outbox_events
  <2>1. e.created_at \in 1..now
    BY <1>2 DEF Types, OutboxRows
  <2> QED
    BY <1>1, <1>2, <2>1, TablesGrow DEF RevokeInv, RevocationsAreWritten, EventsOf
<1>3. ASSUME NEW c \in Revokers, RevokeCommit(c), e \notin outbox_events
      PROVE  \E r \in wallet_whitelist_events' :
               /\ r.wallet_address = row.req.wallet_address
               /\ r.action = "revoke" /\ r.created_at = e.created_at
  <2>1. /\ e.investor_id = revoke_call[c].investor_id /\ e.created_at = revoke_call[c].began
        /\ revoke_call[c].pc = "commit"
    BY <1>3 DEF RevokeCommit
  <2>2. e.created_at \in 1..now
    BY <2>1 DEF Types, RevokeFrames
  <2>3. row \in revoke_call[c].rows
    BY <1>1, <2>1, <2>2 DEF RevokeInv, RevokersHaveRead
  <2> DEFINE r == [wallet_address |-> row.req.wallet_address,
                   investor_id |-> revoke_call[c].investor_id, action |-> "revoke",
                   created_at |-> revoke_call[c].began]
  <2>4. r \in wallet_whitelist_events'
    BY <1>3, <2>3 DEF RevokeCommit
  <2> QED
    BY <2>1, <2>4
<1>4. \A c \in Onboarders : OnboardCommit(c) => e \in outbox_events
  BY DEF OnboardCommit
<1> QED
  BY <1>2, <1>3, <1>4, Writers DEF tables

\* A wallet with a revoke event of a transaction is out, or has a younger grant.
LEMMA RevokedOrOverridden ==
  ASSUME Types, Clocked, NEW w, IsWalletWhitelisted(w)
  PROVE  \E g \in EventsOf(w) :
           /\ g.action = "grant"
           /\ \A r \in EventsOf(w) : r.action = "revoke" => r.created_at < g.created_at
<1>1. PICK g \in Latest(EventsOf(w)) : g.action = "grant"
  BY DEF IsWalletWhitelisted
<1>2. g \in EventsOf(w) /\ \A r \in EventsOf(w) : r.created_at <= g.created_at
  BY <1>1 DEF Latest
<1>3. ASSUME NEW r \in EventsOf(w), r.action = "revoke"
      PROVE  r.created_at < g.created_at
  <2>1. r.created_at # g.created_at
    <3>1. r \in wallet_whitelist_events /\ g \in wallet_whitelist_events
      BY <1>2 DEF EventsOf
    <3>2. PICK e \in outbox_events :
            e.created_at = r.created_at /\ e.event_type = EventOf(r.action)
      BY <3>1 DEF Clocked, RowsAreAnnounced
    <3>3. PICK f \in outbox_events :
            f.created_at = g.created_at /\ f.event_type = EventOf(g.action)
      BY <3>1 DEF Clocked, RowsAreAnnounced
    <3>4. e.event_type # f.event_type
      BY <1>1, <1>3, <3>2, <3>3 DEF EventOf
    <3> QED
      BY <3>2, <3>3, <3>4 DEF Clocked, RowsAreAnnounced
  <2>2. r.created_at \in Nat /\ g.created_at \in Nat
    BY <1>2, TimesFact DEF Types, WhitelistEvents, EventsOf
  <2> QED
    BY <1>2, <2>1, <2>2
<1> QED
  BY <1>1, <1>2, <1>3

\* A revocation reaches all the wallets its investor had when it began, or
\* somebody granted them whom it could not know of (revoke_whitelist).
THEOREM RevocationReaches == Spec => []RevocationReachesKnownWallets
<1>1. Init => RevokeInv
  BY DEF Init, RevokeInv, RevokersHaveRead, RevocationsAreWritten, RevokeFrame
<1>2. Types /\ Clocked /\ RevokeInv /\ [Next]_vars => RevokeInv'
  BY RevokersStayRead, RevocationsStayWritten DEF RevokeInv
<1>3. Types /\ Clocked /\ RevokeInv => RevocationReachesKnownWallets
  <2> SUFFICES ASSUME Types, Clocked, RevokeInv,
                      NEW e \in outbox_events, e.event_type = "investor.whitelist_revoked",
                      NEW row \in investor_compliance,
                      row.req.investor_id = e.investor_id,
                      row.created_at \in known[e.created_at],
                      IsWalletWhitelisted(row.req.wallet_address)
               PROVE  \E g \in EventsOf(row.req.wallet_address) :
                        g.action = "grant" /\ g.created_at \notin known[e.created_at]
    BY DEF RevocationReachesKnownWallets
  <2>1. PICK r \in EventsOf(row.req.wallet_address) :
          r.action = "revoke" /\ r.created_at = e.created_at
    BY DEF RevokeInv, RevocationsAreWritten
  <2>2. PICK g \in EventsOf(row.req.wallet_address) :
          g.action = "grant" /\ e.created_at < g.created_at
    BY <2>1, RevokedOrOverridden
  <2>3. e.created_at \in Times /\ e.created_at \in Nat /\ g.created_at \in Nat
    BY TimesFact DEF Types, OutboxRows, WhitelistEvents, EventsOf
  <2>4. g.created_at \notin known[e.created_at]
    BY <2>2, <2>3 DEF Clocked, KnownIsPast
  <2> QED
    BY <2>2, <2>4
<1> QED
  BY <1>1, <1>2, <1>3, TypesInit, TypesStep, ClockedInit, ClockedStep, PTL DEF Spec

-----------------------------------------------------------------------------
(* Transfers.                                                              *)

\* A grant is younger than the revocations that had committed by then.
Overrides(w, asked) ==
  \E g \in EventsOf(w) :
    /\ g.action = "grant"
    /\ \A r \in EventsOf(w) :
         r.action = "revoke" /\ r.created_at \in asked => r.created_at < g.created_at

\* The answer about the sender is still right when that about the receiver comes.
ChecksInv ==
  \A c \in Checkers :
    /\ check_call[c].asked \subseteq Committed
    /\ check_call[c].pc = "receiver" /\ check_call[c].sender_ok =>
         Overrides(check_call[c].from, check_call[c].asked)
    /\ check_call[c].pc = "yes" =>
         /\ Overrides(check_call[c].from, check_call[c].asked)
         /\ Overrides(check_call[c].to, check_call[c].asked)

\* Later events are of transactions that were still running.
LEMMA OverridesStays ==
  ASSUME Types, Clocked, [Next]_vars, NEW w, NEW asked \in SUBSET Committed,
         Overrides(w, asked)
  PROVE  Overrides(w, asked)'
<1>1. PICK g \in EventsOf(w) :
        /\ g.action = "grant"
        /\ \A r \in EventsOf(w) :
             r.action = "revoke" /\ r.created_at \in asked => r.created_at < g.created_at
  BY DEF Overrides
<1>2. g \in EventsOf(w)'
  BY TablesGrow DEF EventsOf
<1>3. ASSUME NEW r \in EventsOf(w)', r.created_at \in asked PROVE r \in EventsOf(w)
  BY <1>3, NewRowsAreUnknown DEF EventsOf
<1> QED
  BY <1>1, <1>2, <1>3 DEF Overrides

\* A checker's frame moves by its own steps only.
LEMMA CheckMoves ==
  ASSUME Types, [Next]_vars, NEW c \in Checkers
  PROVE  check_call'[c] = check_call[c] \/ CheckStep(c)
<1>1. ASSUME NEW d \in Checkers, CheckStep(d), d # c
      PROVE  check_call'[c] = check_call[c]
  BY <1>1 DEF CheckStep, CheckSender, CheckReceiver, CheckFail, Types
<1>2. \A d \in Onboarders : OnboardStep(d) => UNCHANGED check_call
  BY DEF OnboardStep, OnboardReplay, OnboardStart, OnboardBegin, OnboardCommit, OnboardFail
<1>3. \A d \in Revokers : RevokeStep(d) => UNCHANGED check_call
  BY DEF RevokeStep, RevokeBegin, RevokeRead, RevokeFail, RevokeCommit
<1> QED
  BY <1>1, <1>2, <1>3 DEF Next, vars

\* What a check may conclude from what it has asked.
Sound(f) ==
  /\ f.asked \subseteq Committed
  /\ f.pc = "receiver" /\ f.sender_ok => Overrides(f.from, f.asked)
  /\ f.pc = "yes" => Overrides(f.from, f.asked) /\ Overrides(f.to, f.asked)

\* An answer that was right stays right.
LEMMA SoundStays ==
  ASSUME Types, Clocked, [Next]_vars, NEW f, Sound(f)
  PROVE  Sound(f)'
<1>1. f.asked \subseteq Committed /\ f.asked \subseteq Committed'
  BY TablesGrow DEF Sound
<1>2. \A w : Overrides(w, f.asked) => Overrides(w, f.asked)'
  BY <1>1, OverridesStays
<1> QED
  BY <1>1, <1>2 DEF Sound

\* A wallet that is on the whitelist overrides every revocation of it.
LEMMA WhitelistedOverrides ==
  ASSUME Types, Clocked, NEW w, NEW asked, IsWalletWhitelisted(w)
  PROVE  Overrides(w, asked)
BY RevokedOrOverridden DEF Overrides

LEMMA ChecksStep ==
  ASSUME Types, Clocked, ChecksInv, [Next]_vars
  PROVE  ChecksInv'
<1> SUFFICES ASSUME NEW c \in Checkers, NEW g, g = check_call'[c]
             PROVE  Sound(g)'
  BY DEF ChecksInv, Sound, Overrides, EventsOf
<1>1. PICK f : f = check_call[c]
  OBVIOUS
<1>2. Sound(f)
  BY <1>1 DEF ChecksInv, Sound
<1>3. Sound(NoCheck)
  BY DEF Sound, NoCheck, CheckFrame
<1>4. SUFFICES Sound(g)
  BY SoundStays
<1>5. CASE g = f \/ g = NoCheck
  BY <1>2, <1>3, <1>5
<1>6. ASSUME NEW from \in Wallets, NEW to \in Wallets, CheckSender(c, from, to)
      PROVE  Sound(g)
  <2> DEFINE frame == CheckFrame("receiver", from, to, IsWalletWhitelisted(from), Committed)
  <2>1. g = frame
    <3>1. check_call' = [check_call EXCEPT ![c] = frame]
      BY <1>6 DEF CheckSender
    <3> HIDE DEF frame
    <3> QED
      BY <3>1 DEF Types
  <2>2. g.pc = "receiver" /\ g.from = from /\ g.asked = Committed
    BY <2>1 DEF CheckFrame
  <2>3. ASSUME g.sender_ok PROVE IsWalletWhitelisted(from)
    <3>1. frame.sender_ok = IsWalletWhitelisted(from)
      BY SMT DEF CheckFrame
    <3> HIDE DEF frame
    <3> QED
      BY <2>1, <2>3, <3>1, Zenon
  <2>4. g.sender_ok => Overrides(from, Committed)
    BY <2>3, WhitelistedOverrides
  <2> QED
    BY <2>2, <2>4, Zenon DEF Sound
<1>7. CASE CheckReceiver(c)
  <2>1. f.pc = "receiver" /\ f \in CheckFrames
    BY <1>1, <1>7 DEF CheckReceiver, Types
  <2>2. \/ g = NoCheck
        \/ g = [f EXCEPT !.pc = "yes"] /\ f.sender_ok /\ IsWalletWhitelisted(f.to)
    BY <1>1, <1>7 DEF CheckReceiver, BothWallets, Types
  <2>3. ASSUME g = [f EXCEPT !.pc = "yes"], f.sender_ok, IsWalletWhitelisted(f.to)
        PROVE  Sound(g)
    <3>1. g.pc = "yes" /\ g.from = f.from /\ g.to = f.to /\ g.asked = f.asked
      BY <2>1, <2>3 DEF CheckFrames
    <3>2. Overrides(f.from, f.asked) /\ Overrides(f.to, f.asked)
      BY <1>2, <2>1, <2>3, WhitelistedOverrides DEF Sound
    <3> QED
      BY <1>2, <3>1, <3>2 DEF Sound
  <2> QED
    BY <1>3, <2>2, <2>3
<1>8. CASE CheckFail(c)
  BY <1>3, <1>8 DEF CheckFail, Types
<1> QED
  BY <1>1, <1>5, <1>6, <1>7, <1>8, CheckMoves DEF CheckStep

\* A transfer is let through only between wallets whose grant is younger than
\* every revocation committed when the check began (can_transfer).
THEOREM TransfersAreGranted == Spec => []TransfersBetweenGranted
<1>1. Init => ChecksInv
  BY DEF Init, ChecksInv, NoCheck, CheckFrame
<1>2. ChecksInv => TransfersBetweenGranted
  BY DEF ChecksInv, TransfersBetweenGranted, Overrides
<1> QED
  BY <1>1, <1>2, ChecksStep, TypesInit, TypesStep, ClockedInit, ClockedStep, PTL DEF Spec

-----------------------------------------------------------------------------
(* The whitelist.                                                          *)

Whitelisted == {w \in Wallets : IsWalletWhitelisted(w)}

\* A grant puts its wallet on the list or changes nothing.
LEMMA CommitGrants ==
  ASSUME Types, Types', NEW c \in Onboarders, OnboardCommit(c)
  PROVE  \/ Whitelisted' = Whitelisted
         \/ \E w \in Wallets : Whitelisted' = Whitelisted \cup {w}
<1>1. PICK g : g = [wallet_address |-> OReq(c).wallet_address,
                    investor_id |-> OReq(c).investor_id, action |-> "grant",
                    created_at |-> onboard_call[c].id]
  OBVIOUS
<1>2. PICK w \in Wallets : w = OReq(c).wallet_address
  BY ComplianceAssumption DEF OnboardCommit, OReq, Types, OnboardFrames
<1>3. /\ wallet_whitelist_events' = wallet_whitelist_events \cup {g}
      /\ g.wallet_address = w /\ g.action = "grant"
  BY <1>1, <1>2 DEF OnboardCommit
<1>4. \A e \in wallet_whitelist_events' : e.created_at \in Nat
  BY TimesFact DEF Types, WhitelistEvents
<1>5. ASSUME NEW v, v # w PROVE IsWalletWhitelisted(v)' <=> IsWalletWhitelisted(v)
  <2>1. EventsOf(v)' = EventsOf(v)
    BY <1>3, <1>5 DEF EventsOf
  <2> QED
    BY <2>1 DEF IsWalletWhitelisted, Latest
<1>6. ASSUME IsWalletWhitelisted(w) PROVE IsWalletWhitelisted(w)'
  <2>1. PICK h \in EventsOf(w) :
          h.action = "grant" /\ \A e \in EventsOf(w) : e.created_at <= h.created_at
    BY <1>6 DEF IsWalletWhitelisted, Latest
  <2>2. EventsOf(w)' = EventsOf(w) \cup {g}
    BY <1>3 DEF EventsOf
  <2>3. \A e \in EventsOf(w)' : e.created_at \in Nat
    BY <1>4 DEF EventsOf
  <2>4. CASE g.created_at <= h.created_at
    <3>1. h \in EventsOf(w)' /\ \A e \in EventsOf(w)' : e.created_at <= h.created_at
      BY <2>1, <2>2, <2>4
    <3> QED
      BY <2>1, <3>1 DEF IsWalletWhitelisted, Latest
  <2>5. CASE ~(g.created_at <= h.created_at)
    <3>1. g \in EventsOf(w)' /\ \A e \in EventsOf(w)' : e.created_at <= g.created_at
      BY <2>1, <2>2, <2>3, <2>5
    <3> QED
      BY <1>3, <3>1 DEF IsWalletWhitelisted, Latest
  <2> QED
    BY <2>4, <2>5
<1>7. \A v \in Wallets : v \in Whitelisted' <=> v \in Whitelisted \/ (v = w /\ w \in Whitelisted')
  BY <1>5, <1>6 DEF Whitelisted
<1>8. Whitelisted \subseteq Wallets /\ Whitelisted' \subseteq Wallets
  BY DEF Whitelisted
<1> HIDE DEF Whitelisted
<1> QED
  BY <1>7, <1>8

\* A revocation takes wallets off the list and puts none on it.
LEMMA CommitRevokes ==
  ASSUME NEW c \in Revokers, RevokeCommit(c)
  PROVE  Whitelisted' \subseteq Whitelisted
<1>1. \A e \in wallet_whitelist_events' :
        e \in wallet_whitelist_events \/ e.action = "revoke"
  <2> SUFFICES ASSUME NEW e \in wallet_whitelist_events', e \notin wallet_whitelist_events
               PROVE  e.action = "revoke"
    OBVIOUS
  <2>1. PICK row \in revoke_call[c].rows :
          e = [wallet_address |-> row.req.wallet_address,
               investor_id |-> revoke_call[c].investor_id, action |-> "revoke",
               created_at |-> revoke_call[c].began]
    BY DEF RevokeCommit
  <2> QED
    BY <2>1
<1>2. wallet_whitelist_events \subseteq wallet_whitelist_events'
  BY DEF RevokeCommit
<1>3. ASSUME NEW w, IsWalletWhitelisted(w)' PROVE IsWalletWhitelisted(w)
  <2>1. PICK g \in EventsOf(w)' :
          g.action = "grant" /\ \A e \in EventsOf(w)' : e.created_at <= g.created_at
    BY <1>3 DEF IsWalletWhitelisted, Latest
  <2>2. g \in EventsOf(w) /\ EventsOf(w) \subseteq EventsOf(w)'
    BY <1>1, <1>2, <2>1 DEF EventsOf
  <2> QED
    BY <2>1, <2>2 DEF IsWalletWhitelisted, Latest
<1> QED
  BY <1>3 DEF Whitelisted

\* Each transaction grants one wallet or revokes some, which is all that the
\* token services assume of the whitelist (is_wallet_whitelisted).
THEOREM WhitelistImplemented == Spec => RefinesWhitelist
<1>1. Init => W!Init
  BY DEF Init, W!Init, IsWalletWhitelisted, Latest, EventsOf
<1>2. Types /\ Types' /\ [Next]_vars => [W!Next]_Whitelisted
  <2> SUFFICES ASSUME Types, Types', [Next]_vars PROVE W!Next \/ Whitelisted' = Whitelisted
    OBVIOUS
  <2>1. ASSUME NEW c \in Onboarders, OnboardCommit(c)
        PROVE  W!Next \/ Whitelisted' = Whitelisted
    BY <2>1, CommitGrants DEF W!Next, W!Grant, Whitelisted
  <2>2. ASSUME NEW c \in Revokers, RevokeCommit(c) PROVE W!Next
    <3>1. PICK S : S = Whitelisted \ Whitelisted'
      OBVIOUS
    <3>2. S \in SUBSET Wallets /\ Whitelisted' = Whitelisted \ S
      BY <2>2, <3>1, CommitRevokes DEF Whitelisted
    <3> QED
      BY <3>2 DEF W!Next, W!Revoke, Whitelisted
  <2>3. CASE UNCHANGED tables
    BY <2>3 DEF tables, Whitelisted, IsWalletWhitelisted, Latest, EventsOf
  <2> QED
    BY <2>1, <2>2, <2>3, Writers
<1> QED
  BY <1>1, <1>2, TypesInit, TypesStep, PTL
     DEF Spec, RefinesWhitelist, W!Spec, Whitelisted

=============================================================================
