----------------------------- MODULE EventInbox -----------------------------
(***************************************************************************)
(* What the GoCardless webhook endpoint promises to the provider, without  *)
(* saying how: an event is settled only after its effects were applied,    *)
(* and a delivery is acknowledged (HTTP 200) only when every event it      *)
(* carries is settled.  WebhookClaims implements this with claim rows and  *)
(* leases over a shared table.                                             *)
(***************************************************************************)
EXTENDS Sequences, Functions

CONSTANTS Events, Deliveries, Batch

VARIABLES
    handled,    \* events whose effects were applied at least once
    done,       \* events settled: later deliveries of them are skipped
    acked       \* deliveries the endpoint answered 200 to

vars == <<handled, done, acked>>

Init ==
    /\ handled = {}
    /\ done = {}
    /\ acked = {}

\* The effects of an event may be applied again: handlers are idempotent.
Handle(e) ==
    /\ handled' = handled \cup {e}
    /\ UNCHANGED <<done, acked>>

Settle(e) ==
    /\ e \in handled
    /\ done' = done \cup {e}
    /\ UNCHANGED <<handled, acked>>

Acknowledge(d) ==
    /\ Range(Batch[d]) \subseteq done
    /\ acked' = acked \cup {d}
    /\ UNCHANGED <<handled, done>>

Next ==
    \/ \E e \in Events : Handle(e) \/ Settle(e)
    \/ \E d \in Deliveries : Acknowledge(d)

\* Nothing delivered is forgotten.
Fairness ==
    /\ \A e \in Events : WF_vars(Handle(e)) /\ WF_vars(Settle(e))
    /\ \A d \in Deliveries : WF_vars(Acknowledge(d))

Spec == Init /\ [][Next]_vars /\ Fairness
=============================================================================
