---------------------------- MODULE Subscription ----------------------------
(***************************************************************************)
(* The subscription of one user: what Stripe holds, the row that mirrors   *)
(* it, the requests that change the plan (SubscriptionService) and the     *)
(* events that synchronise the row (SubscriptionWebhookService).           *)
(*                                                                         *)
(* Each call of Stripe and each access to the database is a step.  Plans   *)
(* are STARTER and PRO, whatever the interval; a scheduled change is that  *)
(* of PRO to STARTER.  A checkout session stays open until it is paid: two *)
(* of them make two subscriptions.  Mails, invitations, coupons, unpaid    *)
(* invoices, the quotas a lower plan must meet (a change may be refused    *)
(* without a step) and the synchronisation an administrator asks for are   *)
(* not here.                                                               *)
(***************************************************************************)
EXTENDS Naturals, FiniteSets

CONSTANTS
    Requests,    \* requests of the user or of an administrator
    Workers,     \* deliveries of the events of Stripe
    MaxSubs,     \* bound on the subscriptions
    MaxChanges   \* bound on the changes at Stripe

ASSUME SubscriptionAssumption ==
    /\ MaxSubs \in Nat \ {0}
    /\ MaxChanges \in Nat

Subs == 1..MaxSubs
Plans == {"STARTER", "PRO"}
None == "none"

VARIABLES
    stripe,      \* the subscriptions at Stripe
    sessions,    \* plans of the checkout sessions that are open
    local,       \* the row UserSubscription
    changes,     \* number of changes at Stripe
    events,      \* events that are not marked as processed
    req,         \* local state of the requests
    worker,      \* local state of the deliveries
    overlapped   \* history: two deliveries were under way at the same time

subscriptionVars ==
    <<stripe, sessions, local, changes, events, req, worker, overlapped>>

NoSub == [status |-> None, plan |-> "STARTER", cancel |-> FALSE, schedule |-> FALSE]

IdleReq == [pc |-> "idle", sub |-> 0, schedule |-> FALSE, company |-> 0]
IdleWorker == [pc |-> "idle", event |-> 0, sub |-> 0, seen |-> NoSub]

InitSubscription ==
    /\ \E plan \in Plans, active \in BOOLEAN :
         /\ stripe = [s \in Subs |-> IF s = 1 /\ active
                                     THEN [NoSub EXCEPT !.status = "active", !.plan = plan]
                                     ELSE NoSub]
         /\ local = [sub |-> IF active THEN 1 ELSE 0,
                     plan |-> IF active THEN plan ELSE "STARTER",
                     active |-> active, pending |-> None, schedule |-> FALSE]
    /\ sessions = {}
    /\ changes = 0
    /\ events = {}
    /\ req = [r \in Requests |-> IdleReq]
    /\ worker = [w \in Workers |-> IdleWorker]
    /\ overlapped = FALSE

Renewing(s) == stripe[s].status = "active" /\ ~stripe[s].cancel

\* A change of a subscription, which Stripe notifies with what it became.
Change(s, row) ==
    /\ changes < MaxChanges
    /\ stripe' = [stripe EXCEPT ![s] = row]
    /\ changes' = changes + 1
    /\ events' = events \cup {[n |-> changes + 1, sub |-> s, row |-> row]}

\* The plan that counts for the access of the user.
CurrentPlan == IF local.active THEN local.plan ELSE "FREE"

Free(r) == req' = [req EXCEPT ![r] = IdleReq]

-----------------------------------------------------------------------------
(***************************************************************************)
(* createCheckoutSession: a first plan, an upgrade, or a scheduled change  *)
(***************************************************************************)

CreateCheckoutSession(r, plan) ==
    /\ req[r].pc = "idle"
    /\ local.pending # "FREE"
    /\ ~(local.active /\ local.sub # 0)
    /\ sessions' = sessions \cup {plan}
    /\ UNCHANGED <<stripe, local, changes, events, req, worker, overlapped>>

\* A change of a plan that is active: what to do is decided by the row.
StartChange(r, plan) ==
    /\ req[r].pc = "idle"
    /\ local.pending # "FREE"
    /\ local.active /\ local.sub # 0
    /\ local.plan # plan
    /\ req' = [req EXCEPT ![r].pc = IF plan = "PRO" THEN "upgrade" ELSE "schedule",
                          ![r].sub = local.sub]
    /\ UNCHANGED <<stripe, sessions, local, changes, events, worker, overlapped>>

\* The events of Stripe alone give the new plan.
UpgradeAtStripe(r) ==
    LET s == req[r].sub IN
    /\ req[r].pc = "upgrade"
    /\ Free(r)
    /\ IF stripe[s].status = "active"
       THEN Change(s, [stripe[s] EXCEPT !.plan = "PRO"])
       ELSE UNCHANGED <<stripe, changes, events>>
    /\ UNCHANGED <<sessions, local, worker, overlapped>>

\* schedulePlanChange and scheduleFreePlan: Stripe first (it refuses what is
\* scheduled or has ended), then the row.
ScheduleAtStripe(r) ==
    LET s == req[r].sub IN
    /\ req[r].pc = "schedule"
    /\ IF stripe[s].status = "active" /\ ~stripe[s].schedule
       THEN /\ Change(s, [stripe[s] EXCEPT !.schedule = TRUE])
            /\ req' = [req EXCEPT ![r].pc = "writeSchedule"]
       ELSE Free(r) /\ UNCHANGED <<stripe, changes, events>>
    /\ UNCHANGED <<sessions, local, worker, overlapped>>

WriteSchedule(r) ==
    /\ req[r].pc = "writeSchedule"
    /\ Free(r)
    /\ local' = [local EXCEPT !.pending = "STARTER", !.schedule = TRUE]
    /\ UNCHANGED <<stripe, sessions, changes, events, worker, overlapped>>

StartFree(r) ==
    /\ req[r].pc = "idle"
    /\ local.active /\ local.sub # 0
    /\ req' = [req EXCEPT ![r].pc = "free", ![r].sub = local.sub]
    /\ UNCHANGED <<stripe, sessions, local, changes, events, worker, overlapped>>

ScheduleFreePlan(r) ==
    LET s == req[r].sub IN
    /\ req[r].pc = "free"
    /\ IF stripe[s].status = "active"
       THEN /\ Change(s, [stripe[s] EXCEPT !.cancel = TRUE])
            /\ req' = [req EXCEPT ![r].pc = "writeFree"]
       ELSE Free(r) /\ UNCHANGED <<stripe, changes, events>>
    /\ UNCHANGED <<sessions, local, worker, overlapped>>

WriteFree(r) ==
    /\ req[r].pc = "writeFree"
    /\ Free(r)
    /\ local' = [local EXCEPT !.pending = "FREE", !.schedule = FALSE]
    /\ UNCHANGED <<stripe, sessions, changes, events, worker, overlapped>>

-----------------------------------------------------------------------------
(***************************************************************************)
(* cancelPendingPlanChange                                                 *)
(***************************************************************************)

StartCancelPending(r) ==
    /\ req[r].pc = "idle"
    /\ local.sub # 0
    /\ req' = [req EXCEPT ![r].pc = "resume", ![r].sub = local.sub,
                          ![r].schedule = local.schedule]
    /\ UNCHANGED <<stripe, sessions, local, changes, events, worker, overlapped>>

\* The schedule is released, or the subscription renewed again.
ResumeAtStripe(r) ==
    LET s == req[r].sub IN
    /\ req[r].pc = "resume"
    /\ IF stripe[s].status = "active" /\ (req[r].schedule => stripe[s].schedule)
       THEN /\ Change(s, IF req[r].schedule
                         THEN [stripe[s] EXCEPT !.schedule = FALSE]
                         ELSE [stripe[s] EXCEPT !.cancel = FALSE])
            /\ req' = [req EXCEPT ![r].pc = "writeResume"]
       ELSE Free(r) /\ UNCHANGED <<stripe, changes, events>>
    /\ UNCHANGED <<sessions, local, worker, overlapped>>

CancelPendingPlanChange(r) ==
    /\ req[r].pc = "writeResume"
    /\ Free(r)
    /\ local' = [local EXCEPT !.pending = None, !.schedule = FALSE]
    /\ UNCHANGED <<stripe, sessions, changes, events, worker, overlapped>>

-----------------------------------------------------------------------------
(***************************************************************************)
(* The webhook                                                             *)
(***************************************************************************)

\* A mutant: the state that the event carries is written.
RetrievedFromEvent(e) == e.row

\* The subscription as it is now.
Retrieved(e) == stripe[e.sub]

\* handleWebhook, and the first part of syncSubscription: an event that was
\* processed is not looked at again; one that is under way may be.
Retrieve(w, e) ==
    /\ worker[w].pc = "idle"
    /\ e \in events
    /\ worker' = [worker EXCEPT ![w] = [pc |-> "write", event |-> e.n,
                                        sub |-> e.sub, seen |-> Retrieved(e)]]
    /\ overlapped' = (overlapped \/ \E v \in Workers : worker[v].pc # "idle")
    /\ UNCHANGED <<stripe, sessions, local, changes, events, req>>

\* The transaction: the row names the subscription of this event.  The event
\* is marked afterwards, unless the process stops before.
SyncSubscription(w) ==
    LET seen == worker[w].seen
        active == seen.status = "active"
        applied == ~active \/ local.pending = seen.plan
    IN  /\ worker[w].pc = "write"
        /\ local' = [sub |-> worker[w].sub, plan |-> seen.plan, active |-> active,
                     pending |-> IF applied THEN None ELSE local.pending,
                     schedule |-> ~applied /\ local.schedule]
        /\ events' \in {events, {e \in events : e.n # worker[w].event}}
        /\ worker' = [worker EXCEPT ![w] = IdleWorker]
        /\ UNCHANGED <<stripe, sessions, changes, req, overlapped>>

StopWorker(w) ==
    /\ worker[w].pc # "idle"
    /\ worker' = [worker EXCEPT ![w] = IdleWorker]
    /\ UNCHANGED <<stripe, sessions, local, changes, events, req, overlapped>>

-----------------------------------------------------------------------------
(***************************************************************************)
(* Stripe: a session is paid, a period ends                                *)
(***************************************************************************)

PayCheckout(s, plan) ==
    /\ plan \in sessions
    /\ s = Cardinality({t \in Subs : stripe[t].status # None}) + 1
    /\ s \in Subs
    /\ sessions' = sessions \ {plan}
    /\ Change(s, [NoSub EXCEPT !.status = "active", !.plan = plan])
    /\ UNCHANGED <<local, req, worker, overlapped>>

PeriodEnds(s) ==
    /\ stripe[s].status = "active"
    /\ \/ /\ stripe[s].cancel
          /\ Change(s, [stripe[s] EXCEPT !.status = "canceled", !.cancel = FALSE,
                                         !.schedule = FALSE])
       \/ /\ ~stripe[s].cancel
          /\ stripe[s].schedule
          /\ Change(s, [stripe[s] EXCEPT !.plan = "STARTER", !.schedule = FALSE])
    /\ UNCHANGED <<sessions, local, req, worker, overlapped>>

UserBegins(r) ==
    \/ \E plan \in Plans : CreateCheckoutSession(r, plan) \/ StartChange(r, plan)
    \/ StartFree(r)

SubscriptionSteps ==
    \/ \E r \in Requests : \/ UpgradeAtStripe(r)
                           \/ ScheduleAtStripe(r)
                           \/ WriteSchedule(r)
                           \/ ScheduleFreePlan(r)
                           \/ WriteFree(r)
                           \/ CancelPendingPlanChange(r)
    \/ \E w \in Workers : SyncSubscription(w) \/ StopWorker(w)
    \/ \E s \in Subs : PeriodEnds(s)

-----------------------------------------------------------------------------
(***************************************************************************)
(* Properties                                                              *)
(***************************************************************************)

SubscriptionTypeOK ==
    /\ \A s \in Subs : /\ stripe[s].status \in {None, "active", "canceled"}
                       /\ stripe[s].plan \in Plans
    /\ sessions \subseteq Plans
    /\ local \in [sub : 0..MaxSubs, plan : Plans, active : BOOLEAN,
                  pending : {None, "FREE", "STARTER"}, schedule : BOOLEAN]
    /\ local.schedule => local.pending = "STARTER"
    /\ \A e \in events : e.n \in 1..changes /\ e.sub \in Subs

\* When every event was processed, the row says what Stripe says, in whatever
\* order the events came and however often.  It may not when two of them were
\* synchronised at the same time (the older state is written last, and no
\* event remains), or when the user paid two sessions.
PlanFollowsStripe ==
    /\ events = {}
    /\ \A w \in Workers : worker[w].pc = "idle"
    /\ ~overlapped
    /\ MaxSubs > 1 => stripe[2].status = None
    => LET s == stripe[1] IN
       s.status # None => /\ local.sub = 1
                          /\ local.active <=> s.status = "active"
                          /\ local.plan = s.plan
=============================================================================
