--------------------------- MODULE WebhookClaims ----------------------------
(***************************************************************************)
(* GoCardlessWebhookService: several requests (workers) process deliveries *)
(* of the same events at the same time.  Each event is guarded by one row  *)
(* of the table ProcessedWebhookEvents, which the worker creates, or takes *)
(* over once it is older than the lease (15 minutes).  The identity of a   *)
(* claim is its claimedAt time; it fences the final update and the         *)
(* release.  A handler has no deadline: it can outlive its lease.          *)
(*                                                                         *)
(* Each action is one database access, or the run of one handler.          *)
(***************************************************************************)
EXTENDS Integers, Sequences, Functions

CONSTANTS
    Workers,     \* requests that may be in progress at the same time
    Events,
    Deliveries,
    Batch,       \* the events of each delivery, in order
    Lease,       \* the 15 minutes, in ticks
    MaxClock,    \* bound on the clock
    MaxFaults    \* bound on crashes and errors

ASSUME ClaimsAssumption ==
    /\ Batch \in [Deliveries -> Seq(Events)]
    /\ Lease \in Nat \ {0}
    /\ MaxClock \in Nat
    /\ MaxFaults \in Nat

VARIABLES
    now,      \* the clock the claims are stamped with
    row,      \* the table: one row per event at most (unique key)
    worker,   \* local state of each request
    handled,  \* history: events whose handler ran to its end without error
    acked,    \* deliveries answered 200, which the provider stops sending
    faults    \* crashes and errors so far

vars == <<now, row, worker, handled, acked, faults>>

NoDelivery == "none"

PCs == {"idle", "create", "read", "steal", "handle", "complete", "release",
        "answer"}

Row == [state : {"absent", "claimed", "completed"}, claimedAt : Nat]

Worker == [pc : PCs, delivery : Deliveries \cup {NoDelivery}, pos : Nat,
           stamp : Nat, seen : Nat, failed : BOOLEAN]

NoRow == [state |-> "absent", claimedAt |-> 0]

Idle == [pc |-> "idle", delivery |-> NoDelivery, pos |-> 0, stamp |-> 0,
         seen |-> 0, failed |-> FALSE]

Current(w) == Batch[worker[w].delivery][worker[w].pos]

\* The row still carries the claim made at time at, and is not completed.
HasClaim(e, at) == row[e].state = "claimed" /\ row[e].claimedAt = at

\* The request w goes from its event to the next one of its delivery, and
\* stamps the claim it will make for it.
Advance(w, failed) ==
    LET s == worker[w]
    IN  [pc |-> IF s.pos < Len(Batch[s.delivery]) THEN "create" ELSE "answer",
         delivery |-> s.delivery, pos |-> s.pos + 1, stamp |-> now, seen |-> 0,
         failed |-> s.failed \/ failed]

Goto(w, pc) == worker' = [worker EXCEPT ![w].pc = pc]

\* One crash or error more.  Both bounds are the model's: a claim left behind
\* must have the time to grow old before the clock stops.
Fault ==
    /\ faults < MaxFaults
    /\ now + Lease <= MaxClock
    /\ faults' = faults + 1

-----------------------------------------------------------------------------

Init ==
    /\ now = 0
    /\ row = [e \in Events |-> NoRow]
    /\ worker = [w \in Workers |-> Idle]
    /\ handled = {}
    /\ acked = {}
    /\ faults = 0

Tick ==
    /\ now < MaxClock
    /\ now' = now + 1
    /\ UNCHANGED <<row, worker, handled, acked, faults>>

\* The provider sends, or sends again, a delivery that was not answered 200.
Receive(w, d) ==
    /\ worker[w].pc = "idle"
    /\ d \notin acked
    /\ worker' = [worker EXCEPT ![w] =
         [pc |-> IF Batch[d] = <<>> THEN "answer" ELSE "create",
          delivery |-> d, pos |-> 1, stamp |-> now, seen |-> 0,
          failed |-> FALSE]]
    /\ UNCHANGED <<now, row, handled, acked, faults>>

\* create(): the unique key lets one request insert the row.
CreateClaim(w) ==
    /\ worker[w].pc = "create"
    /\ IF row[Current(w)].state = "absent"
       THEN /\ row' = [row EXCEPT ![Current(w)] =
                         [state |-> "claimed", claimedAt |-> worker[w].stamp]]
            /\ Goto(w, "handle")
       ELSE /\ Goto(w, "read")
            /\ UNCHANGED row
    /\ UNCHANGED <<now, handled, acked, faults>>

\* A mutant: a claim is taken over whatever its age.
ReadClaimNoLease(w) ==
    /\ worker[w].pc = "read"
    /\ worker' = [worker EXCEPT ![w] =
         IF row[Current(w)].state = "completed" THEN Advance(w, FALSE)
         ELSE IF row[Current(w)].state = "absent" THEN Advance(w, TRUE)
         ELSE [@ EXCEPT !.pc = "steal", !.seen = row[Current(w)].claimedAt]]
    /\ UNCHANGED <<now, row, handled, acked, faults>>

\* A mutant: an old claim is never taken over.
ReadClaimNeverOld(w) ==
    /\ worker[w].pc = "read"
    /\ worker' = [worker EXCEPT ![w] =
                    Advance(w, row[Current(w)].state # "completed")]
    /\ UNCHANGED <<now, row, handled, acked, faults>>

\* findUnique() after the conflict: a completed event is skipped, a row that
\* vanished or is younger than the lease makes the delivery fail (it will be
\* sent again), an older claim may be taken over.
ReadClaim(w) ==
    LET r == row[Current(w)]
        old == r.state = "claimed" /\ now - r.claimedAt >= Lease
    IN  /\ worker[w].pc = "read"
        /\ worker' = [worker EXCEPT ![w] =
             IF old THEN [@ EXCEPT !.pc = "steal", !.seen = r.claimedAt]
             ELSE Advance(w, r.state # "completed")]
        /\ UNCHANGED <<now, row, handled, acked, faults>>

\* updateMany() on the claim that was read: one of the takers wins.
StealClaim(w) ==
    /\ worker[w].pc = "steal"
    /\ IF HasClaim(Current(w), worker[w].seen)
       THEN /\ row' = [row EXCEPT ![Current(w)].claimedAt = worker[w].stamp]
            /\ worker' = [worker EXCEPT ![w].pc = "handle", ![w].seen = 0]
       ELSE /\ worker' = [worker EXCEPT ![w] = Advance(w, TRUE)]
            /\ UNCHANGED row
    /\ UNCHANGED <<now, handled, acked, faults>>

\* The handler of the event's resource type returns.
HandleEvent(w) ==
    /\ worker[w].pc = "handle"
    /\ handled' = handled \cup {Current(w)}
    /\ Goto(w, "complete")
    /\ UNCHANGED <<now, row, acked, faults>>

\* A mutant: the event is marked completed whoever holds the claim.
CompleteUnfenced(w) ==
    /\ worker[w].pc = "complete"
    /\ row' = [row EXCEPT ![Current(w)].state = "completed"]
    /\ worker' = [worker EXCEPT ![w] = Advance(w, FALSE)]
    /\ UNCHANGED <<now, handled, acked, faults>>

\* updateMany() on the claim this request made; a count other than one is an
\* error ("reservation expiree").
CompleteEvent(w) ==
    /\ worker[w].pc = "complete"
    /\ IF HasClaim(Current(w), worker[w].stamp)
       THEN /\ row' = [row EXCEPT ![Current(w)].state = "completed"]
            /\ worker' = [worker EXCEPT ![w] = Advance(w, FALSE)]
       ELSE /\ Goto(w, "release")
            /\ UNCHANGED row
    /\ UNCHANGED <<now, handled, acked, faults>>

\* A mutant: the claim is deleted even when it was completed or taken over.
ReleaseUnfenced(w) ==
    /\ worker[w].pc = "release"
    /\ row' = [row EXCEPT ![Current(w)] = NoRow]
    /\ worker' = [worker EXCEPT ![w] = Advance(w, TRUE)]
    /\ UNCHANGED <<now, handled, acked, faults>>

\* deleteMany() in the catch block, on the claim this request made.
ReleaseClaim(w) ==
    /\ worker[w].pc = "release"
    /\ row' = IF HasClaim(Current(w), worker[w].stamp)
              THEN [row EXCEPT ![Current(w)] = NoRow] ELSE row
    /\ worker' = [worker EXCEPT ![w] = Advance(w, TRUE)]
    /\ UNCHANGED <<now, handled, acked, faults>>

\* A mutant: the endpoint answers 200 although an event failed.
AnswerAlwaysOk(w) ==
    /\ worker[w].pc = "answer"
    /\ acked' = acked \cup {worker[w].delivery}
    /\ worker' = [worker EXCEPT ![w] = Idle]
    /\ UNCHANGED <<now, row, handled, faults>>

\* The end of the loop: 503 if an event failed or was pending, else 200.
Answer(w) ==
    /\ worker[w].pc = "answer"
    /\ acked' = IF worker[w].failed THEN acked
                ELSE acked \cup {worker[w].delivery}
    /\ worker' = [worker EXCEPT ![w] = Idle]
    /\ UNCHANGED <<now, row, handled, faults>>

\* The handler, or the update that completes the event, throws.
HandlerError(w) ==
    /\ worker[w].pc \in {"handle", "complete"}
    /\ Fault
    /\ Goto(w, "release")
    /\ UNCHANGED <<now, row, handled, acked>>

\* The database refuses an access of claimEvent, or the release: the error
\* reaches the outer catch block and the rest of the delivery goes on.
DatabaseError(w) ==
    /\ worker[w].pc \in {"create", "read", "steal", "release"}
    /\ Fault
    /\ worker' = [worker EXCEPT ![w] = Advance(w, TRUE)]
    /\ UNCHANGED <<now, row, handled, acked>>

\* The process stops: the request is gone, its claim stays in the table.
Crash(w) ==
    /\ worker[w].pc # "idle"
    /\ Fault
    /\ worker' = [worker EXCEPT ![w] = Idle]
    /\ UNCHANGED <<now, row, handled, acked>>

Step(w) ==
    \/ CreateClaim(w)
    \/ ReadClaim(w)
    \/ StealClaim(w)
    \/ HandleEvent(w)
    \/ CompleteEvent(w)
    \/ ReleaseClaim(w)
    \/ Answer(w)

Next ==
    \/ Tick
    \/ \E w \in Workers :
         \/ \E d \in Deliveries : Receive(w, d)
         \/ Step(w)
         \/ HandlerError(w)
         \/ DatabaseError(w)
         \/ Crash(w)

\* A request in progress goes on, time passes, and the provider keeps sending
\* what was not acknowledged.
Fairness ==
    /\ WF_vars(Tick)
    /\ \A w \in Workers : WF_vars(Step(w))
    /\ \A d \in Deliveries : WF_vars(\E w \in Workers : Receive(w, d))

Spec == Init /\ [][Next]_vars /\ Fairness

-----------------------------------------------------------------------------

TypeOK ==
    /\ now \in Nat
    /\ row \in [Events -> Row]
    /\ worker \in [Workers -> Worker]
    /\ handled \subseteq Events
    /\ acked \subseteq Deliveries
    /\ faults \in Nat

\* w was granted the claim of e and has neither settled nor released it.
Holds(w, e) ==
    /\ worker[w].pc \in {"handle", "complete", "release"}
    /\ Current(w) = e

\* ... and its lease has not run out.
HoldsFresh(w, e) == Holds(w, e) /\ now - worker[w].stamp < Lease

\* Two requests are inside the handler of the same event only when one of
\* them outlived its lease (redirectWebhookToHandler, claimEvent).
FreshClaimsExclude ==
    \A e \in Events : \A v, w \in Workers :
        HoldsFresh(v, e) /\ HoldsFresh(w, e) => v = w

\* A request whose claim was taken over neither completes nor deletes the
\* row of the new holder, and a completed row stays: a row changes only from
\* a claim that is old, or by the request that made that very claim.
ClaimsAreFenced ==
    [][\A e \in Events :
          row[e].state # "absent" /\ row'[e] # row[e] =>
            /\ row[e].state = "claimed"
            /\ \/ now - row[e].claimedAt >= Lease
               \/ \E w \in Workers :
                    /\ Holds(w, e)
                    /\ worker[w].stamp = row[e].claimedAt
                    /\ worker'[w] # worker[w]]_vars

\* A delivery answered 200 carries only completed events: none is lost by
\* being skipped as pending or failed next to events that went well.
AckedIsCompleted ==
    \A d \in acked : \A i \in 1 .. Len(Batch[d]) :
        row[Batch[d][i]].state = "completed"

\* The endpoint keeps the promise of EventInbox: no event completed before
\* its handler succeeded, none forgotten, and 200 only when all are settled.
Inbox == INSTANCE EventInbox
            WITH done <- {e \in Events : row[e].state = "completed"}
ImplementsInbox == Inbox!Init /\ [][Inbox!Next]_(Inbox!vars)

\* In spite of crashes, errors, claims left behind and requests that overtake
\* each other, every delivery is acknowledged in the end.
EveryDeliveryAcked == \A d \in Deliveries : <>(d \in acked)
=============================================================================
