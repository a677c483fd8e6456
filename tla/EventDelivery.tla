---------------------------- MODULE EventDelivery ----------------------------
(***************************************************************************)
(* What a transactional outbox promises: an event that was committed is    *)
(* delivered in the end, however often; nothing else ever is; and an event *)
(* is written off as published only after it was delivered.                *)
(***************************************************************************)
CONSTANTS Events

VARIABLES committed, delivered, published

vars == <<committed, delivered, published>>

Init == committed = {} /\ delivered = {} /\ published = {}

Commit(e) ==
  /\ committed' = committed \cup {e}
  /\ UNCHANGED <<delivered, published>>

Deliver(e) ==
  /\ e \in committed
  /\ delivered' = delivered \cup {e}
  /\ UNCHANGED <<committed, published>>

Publish(e) ==
  /\ e \in delivered
  /\ published' = published \cup {e}
  /\ UNCHANGED <<committed, delivered>>

Next == \E e \in Events : Commit(e) \/ Deliver(e) \/ Publish(e)

SafeSpec == Init /\ [][Next]_vars

Spec == SafeSpec /\ \A e \in Events : WF_vars(Deliver(e))

=============================================================================
