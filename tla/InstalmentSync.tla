--------------------------- MODULE InstalmentSync ---------------------------
(***************************************************************************)
(* One instalment of an invoice, collected by one GoCardless payment, and  *)
(* the three kinds of processes that write its row with no lock between    *)
(* them:                                                                   *)
(*   - webhook workers read the payment at the provider, then the row, and *)
(*     write the row if it did not change (GoCardlessPaymentWebhookHandler)*)
(*   - the reconciliation reads the row, then the payment, and writes in   *)
(*     the same way, with no event (GoCardlessReconciliationService)       *)
(*   - a user asks to retry a failed collection: read the row, the payment *)
(*     and its history, reserve the row, call the provider, and settle     *)
(*     (GoCardlessInstalmentRetryService).                                 *)
(* The provider moves the payment and emits events on its own; they are    *)
(* delivered in any order, and again until a worker completes them.  Which *)
(* of two workers may hold an event is the matter of WebhookClaims; here   *)
(* both may.  Every action is one access to the database or the provider.  *)
(***************************************************************************)
EXTENDS PaymentRules, Sequences

CONSTANTS
    Workers,       \* webhook requests
    Reconcilers,   \* reconciliations of the plan
    Requesters,    \* requests to retry the collection
    RetryLimit,    \* resubmissions after which the code refuses (3)
    MaxEvents,     \* bound on the provider's events
    MaxClock,      \* bound on the clock, hence on reservations
    MaxCrashes     \* bound on requests that stop half-way

ASSUME SyncAssumption ==
    /\ RetryLimit \in Nat
    /\ MaxEvents \in Nat
    /\ MaxClock \in Nat
    /\ MaxCrashes \in Nat

VARIABLES
    clock,     \* time of the last event or reservation; times start at 1
    pay,       \* status of the payment at the provider
    log,       \* the provider's events, oldest first
    todo,      \* indices of the events not completed by a worker
    inst,      \* the row: [status, auto, manual, last]
    hook,      \* local state of each webhook worker
    rec,       \* local state of each reconciliation
    req,       \* local state of each retry request
    crashes

provider == <<pay, log>>
vars == <<clock, pay, log, todo, inst, hook, rec, req, crashes>>

-----------------------------------------------------------------------------

Instalment == [status : CollectionStatus, auto : BOOLEAN, manual : Nat, last : Nat]

Event == [action : Actions, at : Nat, will : BOOLEAN]

NewInstalment == [status |-> "PENDING", auto |-> FALSE, manual |-> 0, last |-> 0]

\* Local states that carry nothing: what was read is forgotten.
IdleHook == [pc |-> "idle", ev |-> 0, pay |-> "pending_submission",
             row |-> NewInstalment]
IdleRec == [pc |-> "idle", pay |-> "pending_submission", row |-> NewInstalment]
IdleReq == [pc |-> "idle", pay |-> "pending_submission", row |-> NewInstalment,
            outcome |-> NoEvent, retries |-> 0]

\* The payment was just submitted, and the event is on its way.
Init ==
    /\ clock = 1
    /\ pay = "submitted"
    /\ log = <<[action |-> "submitted", at |-> 1, will |-> FALSE]>>
    /\ todo = {1}
    /\ inst = NewInstalment
    /\ hook = [w \in Workers |-> IdleHook]
    /\ rec = [k \in Reconcilers |-> IdleRec]
    /\ req = [r \in Requesters |-> IdleReq]
    /\ crashes = 0

-----------------------------------------------------------------------------
(***************************************************************************)
(* The provider (external): each change of the payment emits one event.    *)
(***************************************************************************)

Emit(action, status, will) ==
    /\ Len(log) < MaxEvents
    /\ clock < MaxClock
    /\ clock' = clock + 1
    /\ pay' = status
    /\ log' = Append(log, [action |-> action, at |-> clock + 1, will |-> will])
    /\ todo' = todo \cup {Len(log) + 1}

WillRetry == log[Len(log)].will

SubmitPayment ==
    /\ pay = "pending_submission"
    /\ Emit("submitted", "submitted", FALSE)

ConfirmPayment ==
    /\ pay = "submitted"
    /\ Emit("confirmed", "confirmed", FALSE)

PayOut ==
    /\ pay = "confirmed"
    /\ Emit("paid_out", "paid_out", FALSE)

FailPayment ==
    /\ pay = "submitted"
    /\ \E will \in BOOLEAN : Emit("failed", "failed", will)

AutomaticResubmission ==
    /\ pay = "failed"
    /\ WillRetry
    /\ Emit("resubmission_requested", "pending_submission", FALSE)

ChargeBack ==
    /\ pay \in {"confirmed", "paid_out"}
    /\ Emit("charged_back", "charged_back", FALSE)

Provider ==
    /\ \/ SubmitPayment \/ ConfirmPayment \/ PayOut \/ FailPayment
       \/ AutomaticResubmission \/ ChargeBack
    /\ UNCHANGED <<inst, hook, rec, req, crashes>>

-----------------------------------------------------------------------------
(***************************************************************************)
(* Webhook workers.                                                        *)
(***************************************************************************)

\* The event only names the payment: its current state is fetched.
ReceiveEvent(w, i) ==
    /\ hook[w].pc = "idle"
    /\ hook' = [hook EXCEPT ![w] = [IdleHook EXCEPT !.pc = "read", !.ev = i,
                                                   !.pay = pay]]
    /\ UNCHANGED <<clock, provider, todo, inst, rec, req, crashes>>

ReadInstalment(w) ==
    /\ hook[w].pc = "read"
    /\ hook' = [hook EXCEPT ![w].pc = "sync", ![w].row = inst]
    /\ UNCHANGED <<clock, provider, todo, inst, rec, req, crashes>>

\* The update is conditional on three of the columns that were read; when it
\* matches no row it throws.
Unchanged(row) ==
    /\ inst.status = row.status
    /\ inst.manual = row.manual
    /\ inst.last = row.last

SyncInstalment(w) ==
    LET h == hook[w]
        e == log[h.ev]
    IN  /\ h.pc = "sync"
        /\ IF NothingToSync(h.row, h.pay, e)
           THEN /\ hook' = [hook EXCEPT ![w] = [IdleHook EXCEPT !.pc = "complete",
                                                                !.ev = h.ev]]
                /\ UNCHANGED inst
           ELSE IF Unchanged(h.row)
           THEN /\ inst' = SyncedInstalment(inst, h.row, h.pay, e)
                /\ hook' = [hook EXCEPT ![w] = [IdleHook EXCEPT !.pc = "complete",
                                                                !.ev = h.ev]]
           ELSE /\ hook' = [hook EXCEPT ![w] = IdleHook]
                /\ UNCHANGED inst
        /\ UNCHANGED <<clock, provider, todo, rec, req, crashes>>

CompleteEvent(w) ==
    /\ hook[w].pc = "complete"
    /\ todo' = todo \ {hook[w].ev}
    /\ hook' = [hook EXCEPT ![w] = IdleHook]
    /\ UNCHANGED <<clock, provider, inst, rec, req, crashes>>

\* The handler throws or its process stops; the event is delivered again.
CrashHook(w) ==
    /\ hook[w].pc # "idle"
    /\ crashes < MaxCrashes
    /\ crashes' = crashes + 1
    /\ hook' = [hook EXCEPT ![w] = IdleHook]
    /\ UNCHANGED <<clock, provider, todo, inst, rec, req>>

HookStep(w) ==
    \/ ReadInstalment(w)
    \/ SyncInstalment(w)
    \/ CompleteEvent(w)

-----------------------------------------------------------------------------
(***************************************************************************)
(* Reconciliation: the row first, then the provider, no event.             *)
(***************************************************************************)

ReadPlan(k) ==
    /\ rec[k].pc = "idle"
    /\ rec' = [rec EXCEPT ![k].pc = "fetch", ![k].row = inst]
    /\ UNCHANGED <<clock, provider, todo, inst, hook, req, crashes>>

FetchForPlan(k) ==
    /\ rec[k].pc = "fetch"
    /\ rec' = [rec EXCEPT ![k].pc = "sync", ![k].pay = pay]
    /\ UNCHANGED <<clock, provider, todo, inst, hook, req, crashes>>

ReconcileInstalment(k) ==
    LET c == rec[k]
    IN  /\ c.pc = "sync"
        /\ inst' = IF ~NothingToSync(c.row, c.pay, NoEvent) /\ Unchanged(c.row)
                   THEN SyncedInstalment(inst, c.row, c.pay, NoEvent)
                   ELSE inst
        /\ rec' = [rec EXCEPT ![k] = IdleRec]
        /\ UNCHANGED <<clock, provider, todo, hook, req, crashes>>

RecStep(k) ==
    \/ ReadPlan(k)
    \/ FetchForPlan(k)
    \/ ReconcileInstalment(k)

-----------------------------------------------------------------------------
(***************************************************************************)
(* A request to retry.                                                     *)
(***************************************************************************)

RequestRetry(r) ==
    /\ req[r].pc = "idle"
    /\ req' = [req EXCEPT ![r].pc = "fetch", ![r].row = inst]
    /\ UNCHANGED <<clock, provider, todo, inst, hook, rec, crashes>>

FetchForRetry(r) ==
    /\ req[r].pc = "fetch"
    /\ req' = [req EXCEPT ![r].pc = "history", ![r].pay = pay]
    /\ UNCHANGED <<clock, provider, todo, inst, hook, rec, crashes>>

Resubmissions == Cardinality({i \in 1 .. Len(log) :
                                log[i].action = "resubmission_requested"})

LatestOutcome == log[Len(log)]

\* getCapabilityForInstalment refuses in every other case.
CanRetryManually(q) ==
    /\ q.row.manual = 0
    /\ q.row.status \notin {"SUCCESS", "PAYMENT_IN_PROGRESS"}
    /\ q.pay = "failed"
    /\ ~q.row.auto
    /\ q.retries < RetryLimit

\* reconcilePendingRetry: the history tells how the earlier retry ended.
PendingRetryEnded(q) ==
    /\ q.row.manual # 0
    /\ q.outcome.at >= q.row.manual
    /\ q.pay \in {"failed", "pending_submission", "submitted", "confirmed",
                  "paid_out"}
    /\ q.pay = "failed" => q.outcome.action = "failed"

EndedStatus(status) ==
    CASE status = "failed"                     -> "FAILED"
      [] status \in {"confirmed", "paid_out"}  -> "SUCCESS"
      [] OTHER                                 -> "PAYMENT_IN_PROGRESS"

\* The request goes on to reserve the row, or is refused.
Decide(q) == IF CanRetryManually(q)
             THEN [IdleReq EXCEPT !.pc = "reserve"]
             ELSE IdleReq

ReadHistory(r) ==
    /\ req[r].pc = "history"
    /\ LET q == [req[r] EXCEPT !.outcome = LatestOutcome,
                               !.retries = Resubmissions]
       IN  req' = [req EXCEPT ![r] = IF PendingRetryEnded(q)
                                     THEN [q EXCEPT !.pc = "settle"]
                                     ELSE Decide(q)]
    /\ UNCHANGED <<clock, provider, todo, inst, hook, rec, crashes>>

SettlePendingRetry(r) ==
    LET q == req[r]
        settled == [status |-> EndedStatus(q.pay),
                    auto |-> q.pay = "failed" /\ q.outcome.will,
                    manual |-> 0, last |-> q.outcome.at]
    IN  /\ q.pc = "settle"
        /\ IF inst.manual = q.row.manual /\ inst.status = "PAYMENT_IN_PROGRESS"
           THEN /\ inst' = settled
                /\ req' = [req EXCEPT ![r] = Decide([q EXCEPT
                             !.row = [settled EXCEPT !.last = q.row.last]])]
           ELSE /\ req' = [req EXCEPT ![r] = IdleReq]
                /\ UNCHANGED inst
        /\ UNCHANGED <<clock, provider, todo, hook, rec, crashes>>

\* A mutant: the reservation is not conditional.
ReserveAlways(r) ==
    /\ req[r].pc = "reserve"
    /\ clock < MaxClock
    /\ clock' = clock + 1
    /\ inst' = [inst EXCEPT !.status = "PAYMENT_IN_PROGRESS",
                            !.manual = clock + 1]
    /\ req' = [req EXCEPT ![r] = [IdleReq EXCEPT !.pc = "call"]]
    /\ UNCHANGED <<provider, todo, hook, rec, crashes>>

ReserveRetry(r) ==
    /\ req[r].pc = "reserve"
    /\ IF ~inst.auto /\ inst.manual = 0 /\ inst.status = "FAILED"
       THEN /\ clock < MaxClock
            /\ clock' = clock + 1
            /\ inst' = [inst EXCEPT !.status = "PAYMENT_IN_PROGRESS",
                                    !.manual = clock + 1]
            /\ req' = [req EXCEPT ![r] = [IdleReq EXCEPT !.pc = "call"]]
       ELSE /\ req' = [req EXCEPT ![r] = IdleReq]
            /\ UNCHANGED <<clock, inst>>
    /\ UNCHANGED <<provider, todo, hook, rec, crashes>>

\* Between the decision and the reservation, the mandate turns out to be
\* missing or not active.
RefuseForMandate(r) ==
    /\ req[r].pc = "reserve"
    /\ req' = [req EXCEPT ![r] = IdleReq]
    /\ UNCHANGED <<clock, provider, todo, inst, hook, rec, crashes>>

\* The provider accepts the resubmission.  The code then writes only what is
\* already there, whether it gets the answer or not.
CallAccepted(r) ==
    /\ req[r].pc = "call"
    /\ pay = "failed"
    /\ Emit("resubmission_requested", "pending_submission", FALSE)
    /\ req' = [req EXCEPT ![r] = IdleReq]
    /\ UNCHANGED <<inst, hook, rec, crashes>>

\* The provider refuses for good (the payment is not failed any more, the
\* mandate is not active, ...).
CallRejected(r) ==
    /\ req[r].pc = "call"
    /\ req' = [req EXCEPT ![r] = [IdleReq EXCEPT !.pc = "rejected"]]
    /\ UNCHANGED <<clock, provider, todo, inst, hook, rec, crashes>>

\* The call does not reach the provider and no answer comes (a time-out, a
\* status 5xx): the reservation is kept.
CallUncertain(r) ==
    /\ req[r].pc = "call"
    /\ crashes < MaxCrashes
    /\ crashes' = crashes + 1
    /\ req' = [req EXCEPT ![r] = IdleReq]
    /\ UNCHANGED <<clock, provider, todo, inst, hook, rec>>

ReleaseRejected(r) ==
    /\ req[r].pc = "rejected"
    /\ inst' = IF inst.manual # 0 /\ inst.status = "PAYMENT_IN_PROGRESS"
               THEN [inst EXCEPT !.status = "FAILED", !.manual = 0]
               ELSE inst
    /\ req' = [req EXCEPT ![r] = IdleReq]
    /\ UNCHANGED <<clock, provider, todo, hook, rec, crashes>>

CrashReq(r) ==
    /\ req[r].pc # "idle"
    /\ crashes < MaxCrashes
    /\ crashes' = crashes + 1
    /\ req' = [req EXCEPT ![r] = IdleReq]
    /\ UNCHANGED <<clock, provider, todo, inst, hook, rec>>

ReqStep(r) ==
    \/ FetchForRetry(r)
    \/ ReadHistory(r)
    \/ SettlePendingRetry(r)
    \/ ReserveRetry(r)
    \/ CallAccepted(r)
    \/ CallRejected(r)
    \/ ReleaseRejected(r)

-----------------------------------------------------------------------------

Next ==
    \/ Provider
    \/ \E w \in Workers :
         \/ \E i \in todo : ReceiveEvent(w, i)
         \/ HookStep(w)
         \/ CrashHook(w)
    \/ \E k \in Reconcilers : RecStep(k)
    \/ \E r \in Requesters :
         \/ RequestRetry(r)
         \/ ReqStep(r)
         \/ RefuseForMandate(r)
         \/ CallUncertain(r)
         \/ CrashReq(r)

\* A handler that began goes on, every event is delivered until completed and
\* the reconciliation comes back.  Nothing is assumed of the provider's own
\* moves nor of the user.
Fairness ==
    /\ \A w \in Workers : WF_vars(HookStep(w))
    /\ \A i \in 1 .. MaxEvents :
         WF_vars(i \in todo /\ \E w \in Workers : ReceiveEvent(w, i))
    /\ \A k \in Reconcilers : WF_vars(RecStep(k))
    /\ \A r \in Requesters : WF_vars(ReqStep(r))

Spec == Init /\ [][Next]_vars /\ Fairness

-----------------------------------------------------------------------------

TypeOK ==
    /\ clock \in Nat
    /\ pay \in ProviderStatus
    /\ log \in Seq(Event)
    /\ todo \subseteq 1 .. Len(log)
    /\ inst \in Instalment
    /\ hook \in [Workers -> [pc : {"idle", "read", "sync", "complete"},
                             ev : Nat, pay : ProviderStatus, row : Instalment]]
    /\ rec \in [Reconcilers -> [pc : {"idle", "fetch", "sync"},
                                pay : ProviderStatus, row : Instalment]]
    /\ req \in [Requesters ->
                  [pc : {"idle", "fetch", "history", "settle", "reserve",
                         "call", "rejected"},
                   pay : ProviderStatus, row : Instalment,
                   outcome : Event \cup {NoEvent}, retries : Nat]]
    /\ crashes \in Nat

\* A collection GoCardless will retry by itself is a failed one: the screen
\* that says so, and the retry button it hides, never concern a paid or a
\* pending instalment (automaticRetryScheduled is not part of the condition
\* of the update).
AutomaticRetryIsOfFailure == inst.auto => inst.status = "FAILED"

\* The time of the last event never goes back, although two code paths write
\* it and only one compares it (syncInstalmentStatus, reconcilePendingRetry):
\* the settlement of an earlier retry may bring it back, but not before the
\* reservation it ends.
LastEventKept ==
    [][\/ inst'.last >= inst.last
       \/ inst.manual # 0 /\ inst'.manual = 0 /\ inst'.last >= inst.manual]_vars

\* Two requests to retry the same failed collection are never on their way
\* together, from the click until the provider takes the payment back.
OneRetryAtATime ==
    Resubmissions = 0 =>
        \A q, r \in Requesters :
            req[q].pc = "call" /\ req[r].pc = "call" => q = r

\* A reservation is never replaced by another one, and ends only because the
\* provider said something after it was made, or refused a call for good.
ReservationIsKept ==
    [][inst.manual # 0 /\ inst'.manual # inst.manual =>
          /\ inst'.manual = 0
          /\ \/ LatestOutcome.at >= inst.manual
             \/ \E r \in Requesters : req[r].pc = "rejected" /\ req'[r].pc = "idle"
      ]_vars

\* When the provider is quiet, and everything it said was delivered, the row
\* ends up saying what the provider says, whatever was read too early, lost,
\* or applied late on the way.
Agrees ==
    \/ inst.status = MatchPaymentAttemptStatus(pay)
    \/ pay = "pending_submission" /\ inst.status = "PAYMENT_IN_PROGRESS"
Converges == <>[]Agrees

\* A reservation ends: by an event, by the history of the payment, or by the
\* provider's refusal.  The user is not locked out of retrying for ever.
ReservationEnds == inst.manual # 0 ~> inst.manual = 0
=============================================================================
