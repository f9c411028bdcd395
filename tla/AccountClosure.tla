--------------------------- MODULE AccountClosure ---------------------------
(***************************************************************************)
(* The closing of an account (AccountClosureService), with what it must    *)
(* bring to an end: the companies of the user (CompaniesService) and the   *)
(* subscription (Subscription, whose steps are interleaved with those of   *)
(* this module).  A procedure of closure is tried again until it has       *)
(* nothing left to do, by the request that closes, a job that runs every   *)
(* ten minutes and an administrator who acknowledges what only a person    *)
(* can verify; a lease keeps two attempts apart.                           *)
(*                                                                         *)
(* Closed companies keep their accounts at the payment providers, which    *)
(* have to be reviewed.  The date of the next attempt is not here: an      *)
(* attempt may begin at any time.                                          *)
(***************************************************************************)
EXTENDS Subscription

CONSTANTS
    Companies,   \* ids of the companies the user may own
    Procs,       \* attempts of the procedure
    MaxBusy      \* bound on the requests, deliveries and attempts at once

ASSUME ClosureAssumption == MaxBusy \in Nat

VARIABLES
    closed,      \* User.closedAt
    company,     \* status of the companies
    closure,     \* the row AccountClosure
    proc,        \* local state of the attempts
    expired,     \* history: a lease became old while its attempt went on
    resumed,     \* history: the renewal was turned on again after the closing
    lateActive   \* history: a reactivation had read its company before it

closureVars == <<closed, company, closure, proc, expired, resumed, lateActive>>
vars == <<subscriptionVars, closureVars>>

Reviews == {"ACCOUNT_REVIEW", "STRIPE_SCHEDULE_REVIEW"}
Actions == Reviews \cup {"STRIPE_CANCELLATION", "SETTLEMENT"}

IdleProc == [pc |-> "idle", reviewed |-> {}, sub |-> 0, schedule |-> FALSE,
             pending |-> {}]

Init ==
    /\ InitSubscription
    /\ closed = FALSE
    /\ company = [c \in Companies |-> None]
    /\ closure = [status |-> None, pending |-> {}, reviewed |-> {}, lease |-> "free"]
    /\ proc = [p \in Procs |-> IdleProc]
    /\ expired = FALSE
    /\ resumed = FALSE
    /\ lateActive = FALSE

Working == {p \in Procs : proc[p].pc # "idle"}

MayBegin ==
    Cardinality({r \in Requests : req[r].pc # "idle"})
      + Cardinality({w \in Workers : worker[w].pc # "idle"})
      + Cardinality(Working) < MaxBusy

-----------------------------------------------------------------------------
(***************************************************************************)
(* Companies                                                               *)
(***************************************************************************)

Active == {c \in Companies : company[c] = "ACTIVE"}

PlanQuota(plan) == IF plan = "PRO" THEN 3 ELSE 1

\* assertCanCreateCompany: the smaller of the quotas of the plan and of the
\* plan that is scheduled.
Quota ==
    IF local.pending = None \/ PlanQuota(local.pending) >= PlanQuota(CurrentPlan)
    THEN PlanQuota(CurrentPlan) ELSE PlanQuota(local.pending)

\* The quota is read before the transaction.
StartCreateCompany(r, c) ==
    /\ req[r].pc = "idle"
    /\ company[c] = None
    /\ Cardinality(Active) < Quota
    /\ req' = [req EXCEPT ![r].pc = "create", ![r].company = c]
    /\ UNCHANGED <<stripe, sessions, local, changes, events, worker, overlapped,
                   closureVars>>

\* A mutant: the row of the user is not read again.
ClosedForCreation == FALSE

ClosedUser == closed

\* The transaction locks the row of the user, and reads that it is not closed.
CreateCompany(r) ==
    /\ req[r].pc = "create"
    /\ Free(r)
    /\ company' = IF ~ClosedUser /\ company[req[r].company] = None
                  THEN [company EXCEPT ![req[r].company] = "ACTIVE"] ELSE company
    /\ UNCHANGED <<stripe, sessions, local, changes, events, worker, overlapped,
                   closed, closure, proc, expired, resumed, lateActive>>

\* performOwnedCompanyAction and closeCompany: the request of the user.
CloseCompany(c) ==
    /\ company[c] = "ACTIVE"
    /\ company' = [company EXCEPT ![c] = "CLOSED"]
    /\ UNCHANGED <<subscriptionVars, closed, closure, proc, expired,
                   resumed, lateActive>>

\* By the user, or by an administrator: what was closed with the account is
\* refused.  The quota is not looked at.
StartReactivate(r, c) ==
    /\ req[r].pc = "idle"
    /\ company[c] = "CLOSED"
    /\ req' = [req EXCEPT ![r].pc = "reactivate", ![r].company = c]
    /\ UNCHANGED <<stripe, sessions, local, changes, events, worker, overlapped,
                   closureVars>>

Reactivate(r) ==
    LET c == req[r].company IN
    /\ req[r].pc = "reactivate"
    /\ Free(r)
    /\ company' = [company EXCEPT ![c] = "ACTIVE"]
    /\ lateActive' = (lateActive \/ company[c] = "CLOSED_WITH_ACCOUNT")
    /\ UNCHANGED <<stripe, sessions, local, changes, events, worker, overlapped,
                   closed, closure, proc, expired, resumed>>

-----------------------------------------------------------------------------
(***************************************************************************)
(* close: one serializable transaction                                     *)
(***************************************************************************)

\* All the companies of the user.
ClosedWithAccount(c) == company[c] # None

Close ==
    /\ ~closed
    /\ closed' = TRUE
    /\ company' = [c \in Companies |-> IF ClosedWithAccount(c)
                                       THEN "CLOSED_WITH_ACCOUNT" ELSE company[c]]
    /\ closure' = [closure EXCEPT !.status = "PENDING"]
    /\ UNCHANGED <<subscriptionVars, proc, expired, resumed, lateActive>>

-----------------------------------------------------------------------------
(***************************************************************************)
(* process                                                                 *)
(***************************************************************************)

\* A mutant: the lease is not looked at.
ClaimableWithoutLease ==
    /\ closure.status \notin {None, "COMPLETED"}

Claimable ==
    /\ closure.status \notin {None, "COMPLETED"}
    /\ closure.lease \in {"free", "old"}

\* The claim, and the rows read after it.
Claim(p) ==
    /\ proc[p].pc = "idle"
    /\ Claimable
    /\ closure' = [closure EXCEPT !.lease = "held"]
    /\ proc' = [proc EXCEPT ![p] =
         [pc |-> IF local.sub = 0 THEN "survey" ELSE "stripe",
          reviewed |-> closure.reviewed, sub |-> local.sub,
          schedule |-> local.schedule, pending |-> {}]]
    /\ UNCHANGED <<subscriptionVars, closed, company, expired,
                   resumed, lateActive>>

Adds(p, pc, actions) ==
    proc' = [proc EXCEPT ![p].pc = pc, ![p].pending = @ \cup actions]

\* The subscription is retrieved, and its renewal stopped, by a call with an
\* idempotency key; or Stripe cannot be reached.
CancelRenewal(p) ==
    LET s == proc[p].sub IN
    /\ proc[p].pc = "stripe"
    /\ \/ /\ Adds(p, "survey", {"STRIPE_CANCELLATION"})
          /\ UNCHANGED <<stripe, changes, events>>
       \/ /\ ~Renewing(s)
          /\ Adds(p, "confirm", {})
          /\ UNCHANGED <<stripe, changes, events>>
       \/ /\ Renewing(s)
          /\ Adds(p, "confirm", {})
          /\ \/ Change(s, [stripe[s] EXCEPT !.cancel = TRUE])
             \/ UNCHANGED <<stripe, changes, events>>   \* the key was used before
    /\ UNCHANGED <<sessions, local, req, worker, overlapped, closed, company, closure,
                   expired, resumed, lateActive>>

\* A mutant: what was asked is not verified.
Unconfirmed(p) == {}

NotStopped(p) == IF Renewing(proc[p].sub) THEN {"STRIPE_CANCELLATION"} ELSE {}

ConfirmRenewal(p) ==
    /\ proc[p].pc = "confirm"
    /\ \/ Adds(p, "survey",
               NotStopped(p)
                 \cup (IF proc[p].schedule THEN {"STRIPE_SCHEDULE_REVIEW"} ELSE {}))
       \/ Adds(p, "survey", {"STRIPE_CANCELLATION"})
    /\ UNCHANGED <<subscriptionVars, closed, company, closure, expired,
                   resumed, lateActive>>

\* What is left of the companies that were closed with the account: payments
\* or invoices may be under way, or a notice that could not be sent; both are
\* left for the next attempt.
Survey(p) ==
    LET owned == \E c \in Companies : company[c] = "CLOSED_WITH_ACCOUNT" IN
    /\ proc[p].pc = "survey"
    /\ \E left \in {{}, {"SETTLEMENT"}} :
         Adds(p, "conclude", IF owned THEN {"ACCOUNT_REVIEW"} \cup left ELSE {})
    /\ UNCHANGED <<subscriptionVars, closed, company, closure, expired, resumed,
                   lateActive>>

StatusOf(remaining) ==
    IF remaining = {} THEN "COMPLETED"
    ELSE IF remaining \cap (Reviews \cup {"STRIPE_CANCELLATION"}) # {}
    THEN "ACTION_REQUIRED" ELSE "WAITING_SETTLEMENT"

\* The status is written whatever it has become.
Conclude(p) ==
    LET remaining == proc[p].pending \ proc[p].reviewed IN
    /\ proc[p].pc = "conclude"
    /\ closure' = [closure EXCEPT !.status = StatusOf(remaining),
                                   !.pending = remaining \cap Reviews]
    /\ proc' = [proc EXCEPT ![p] = [IdleProc EXCEPT !.pc = "free"]]
    /\ UNCHANGED <<subscriptionVars, closed, company, expired,
                   resumed, lateActive>>

\* An exception: the status is written all the same.
Fail(p) ==
    /\ proc[p].pc \notin {"idle", "free"}
    /\ closure' = [closure EXCEPT !.status = "ACTION_REQUIRED"]
    /\ proc' = [proc EXCEPT ![p] = [IdleProc EXCEPT !.pc = "free"]]
    /\ UNCHANGED <<subscriptionVars, closed, company, expired,
                   resumed, lateActive>>

\* finally: the lease is cleared, even that of another attempt.
Finish(p) ==
    /\ proc[p].pc = "free"
    /\ closure' = [closure EXCEPT !.lease = "free"]
    /\ proc' = [proc EXCEPT ![p] = IdleProc]
    /\ UNCHANGED <<subscriptionVars, closed, company, expired,
                   resumed, lateActive>>

Crash(p) ==
    /\ proc[p].pc # "idle"
    /\ proc' = [proc EXCEPT ![p] = IdleProc]
    /\ UNCHANGED <<subscriptionVars, closed, company, closure, expired,
                   resumed, lateActive>>

\* Five minutes have passed.
LeaseGetsOld ==
    /\ closure.lease = "held"
    /\ closure' = [closure EXCEPT !.lease = "old"]
    /\ expired' = (expired \/ Working # {})
    /\ UNCHANGED <<subscriptionVars, closed, company, proc, resumed,
                   lateActive>>

\* acknowledgeReview: an attempt follows, which Claim is.
AcknowledgeReview(action) ==
    /\ action \in closure.pending
    /\ action \notin closure.reviewed
    /\ closure' = [closure EXCEPT !.reviewed = @ \cup {action}]
    /\ UNCHANGED <<subscriptionVars, closed, company, proc, expired,
                   resumed, lateActive>>

-----------------------------------------------------------------------------

\* A user that is closed begins nothing (AuthGuard); an administrator may
\* cancel the change that is pending, whatever the account.
Begins ==
    /\ MayBegin
    /\ \/ ~closed /\ \/ \E r \in Requests : UserBegins(r) /\ UNCHANGED closureVars
                     \/ \E r \in Requests, c \in Companies : StartCreateCompany(r, c)
                     \/ \E c \in Companies : CloseCompany(c)
                     \/ Close
       \/ \E r \in Requests : /\ ~closed \/ local.pending # None
                              /\ StartCancelPending(r)
                              /\ UNCHANGED closureVars
       \/ \E r \in Requests, c \in Companies : StartReactivate(r, c)
       \/ \E p \in Procs : Claim(p)
       \/ \E w \in Workers, e \in events : Retrieve(w, e) /\ UNCHANGED closureVars

RequestSteps ==
    \/ SubscriptionSteps /\ UNCHANGED closureVars
    \/ \E r \in Requests :
         \/ CreateCompany(r)
         \/ Reactivate(r)
         \/ /\ ResumeAtStripe(r)
            /\ resumed' = (resumed \/ closed)
            /\ UNCHANGED <<closed, company, closure, proc, expired,
                           lateActive>>

\* A session that was open when the account was closed may still be paid.
Checkouts ==
    \E s \in Subs, plan \in Plans : PayCheckout(s, plan) /\ UNCHANGED closureVars

ProcSteps(p) ==
    \/ CancelRenewal(p)
    \/ ConfirmRenewal(p)
    \/ Survey(p)
    \/ Conclude(p)
    \/ Fail(p)
    \/ Finish(p)

Next ==
    \/ Begins
    \/ RequestSteps
    \/ Checkouts
    \/ \E p \in Procs : ProcSteps(p) \/ Crash(p)
    \/ LeaseGetsOld
    \/ \E action \in Reviews : AcknowledgeReview(action)

Spec == Init /\ [][Next]_vars

-----------------------------------------------------------------------------
(***************************************************************************)
(* Properties                                                              *)
(***************************************************************************)

\* Every variable keeps the shape of the rows and local states above, and an
\* attempt exists only for an account that is closed.
TypeOK ==
    /\ SubscriptionTypeOK
    /\ company \in [Companies -> {None, "ACTIVE", "CLOSED", "CLOSED_WITH_ACCOUNT"}]
    /\ closure.status \in {None, "PENDING", "ACTION_REQUIRED", "WAITING_SETTLEMENT",
                           "COMPLETED"}
    /\ closure.pending \subseteq Reviews
    /\ closure.reviewed \subseteq Reviews
    /\ closure.lease \in {"free", "held", "old"}
    /\ \A p \in Procs : proc[p].pending \subseteq Actions
    /\ (closure.status # None) <=> closed
    /\ Working # {} => closed

\* A closed account owns no active company, whatever was being created or
\* closed when it was closed; only a reactivation that had read its company
\* before can make one.
ClosedOwnsNothingActive == closed /\ ~lateActive => Active = {}

\* A procedure that is completed stays so: another attempt can overwrite its
\* status only if it outlived its lease.
CompletedIsFinal ==
    [][closure.status = "COMPLETED" /\ ~expired => closure'.status = "COMPLETED"]_vars

\* The procedure is completed only when the subscription it has read will not
\* be renewed: a failure of Stripe, a call replayed with the same key, an
\* attempt that stops, an event or a change of plan in between never hide
\* that it will.  Only a cancelled change of plan can turn it on again.
RenewalStopped ==
    [][\A p \in Procs :
         /\ proc[p].pc = "conclude"
         /\ proc'[p].pc = "free"
         /\ closure.status # "COMPLETED"
         /\ closure'.status = "COMPLETED"
         /\ ~resumed
         => proc[p].sub = 0 \/ ~Renewing(proc[p].sub)]_vars
=============================================================================
