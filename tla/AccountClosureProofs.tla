------------------------- MODULE AccountClosureProofs -------------------------
(***************************************************************************)
(* Proofs about AccountClosure, for any companies, requests, deliveries    *)
(* and attempts, and any bounds.                                           *)
(***************************************************************************)
EXTENDS AccountClosure, FiniteSetTheorems, TLAPS

ReqPcs == {"idle", "upgrade", "schedule", "writeSchedule", "free", "writeFree",
           "resume", "writeResume", "create", "reactivate"}

ProcPcs == {"idle", "stripe", "confirm", "survey", "conclude", "free"}

Row == [status : {None, "active", "canceled"}, plan : Plans, cancel : BOOLEAN,
        schedule : BOOLEAN]

Req == [pc : ReqPcs, sub : 0..MaxSubs, schedule : BOOLEAN,
        company : Companies \cup {0}]

Worker == [pc : {"idle", "write"}, event : Nat, sub : 0..MaxSubs, seen : Row]

Proc == [pc : ProcPcs, reviewed : SUBSET Reviews, sub : 0..MaxSubs,
         schedule : BOOLEAN, pending : SUBSET Actions]

\* A request that names a subscription or a company names one.
ReqPlaced(s) ==
    /\ s.pc \in {"upgrade", "schedule", "free", "resume"} => s.sub \in Subs
    /\ s.pc \in {"create", "reactivate"} => s.company \in Companies

SubscriptionShape ==
    /\ stripe \in [Subs -> Row]
    /\ sessions \subseteq Plans
    /\ local \in [sub : 0..MaxSubs, plan : Plans, active : BOOLEAN,
                  pending : {None, "FREE", "STARTER"}, schedule : BOOLEAN]
    /\ local.schedule => local.pending = "STARTER"
    /\ changes \in Nat
    /\ events \subseteq [n : 1..changes, sub : Subs, row : Row]

LocalShape ==
    /\ req \in [Requests -> Req]
    /\ \A r \in Requests : ReqPlaced(req[r])
    /\ worker \in [Workers -> Worker]

ClosureRow ==
    [status : {None, "PENDING", "ACTION_REQUIRED", "WAITING_SETTLEMENT", "COMPLETED"},
     pending : SUBSET Reviews, reviewed : SUBSET Reviews,
     lease : {"free", "held", "old"}]

ClosureShape ==
    /\ closed \in BOOLEAN
    /\ company \in [Companies -> {None, "ACTIVE", "CLOSED", "CLOSED_WITH_ACCOUNT"}]
    /\ closure \in ClosureRow
    /\ (closure.status # None) <=> closed
    /\ proc \in [Procs -> Proc]
    /\ \A p \in Procs : proc[p].pc \in {"stripe", "confirm"} => proc[p].sub \in Subs
    /\ \A p \in Procs : proc[p].pc # "idle" => closed

Shape == SubscriptionShape /\ LocalShape /\ ClosureShape

-----------------------------------------------------------------------------

LEMMA IdleProcShape == IdleProc \in Proc /\ [IdleProc EXCEPT !.pc = "free"] \in Proc
<1>1. {} \in SUBSET Reviews /\ {} \in SUBSET Actions /\ 0 \in 0..MaxSubs
  BY SubscriptionAssumption
<1> QED
  BY <1>1 DEF IdleProc, Proc, ProcPcs

LEMMA ShapeInit == Init => Shape
<1> SUFFICES ASSUME Init PROVE Shape
  OBVIOUS
<1> USE SubscriptionAssumption DEF Init, InitSubscription
<1>1. SubscriptionShape
  <2>1. PICK plan \in Plans, active \in BOOLEAN :
          /\ stripe = [s \in Subs |-> IF s = 1 /\ active
                                      THEN [NoSub EXCEPT !.status = "active", !.plan = plan]
                                      ELSE NoSub]
          /\ local = [sub |-> IF active THEN 1 ELSE 0,
                      plan |-> IF active THEN plan ELSE "STARTER",
                      active |-> active, pending |-> None, schedule |-> FALSE]
    OBVIOUS
  <2>2. NoSub \in Row /\ [NoSub EXCEPT !.status = "active", !.plan = plan] \in Row
    BY DEF NoSub, Row, Plans, None
  <2>3. stripe \in [Subs -> Row]
    BY <2>1, <2>2
  <2>4. 1 \in 0..MaxSubs /\ 0 \in 0..MaxSubs
    OBVIOUS
  <2>5. /\ local \in [sub : 0..MaxSubs, plan : Plans, active : BOOLEAN,
                      pending : {None, "FREE", "STARTER"}, schedule : BOOLEAN]
        /\ local.schedule = FALSE
    BY <2>1, <2>4 DEF Plans
  <2> QED
    BY <2>3, <2>5 DEF SubscriptionShape
<1>2. LocalShape
  BY DEF LocalShape, ReqPlaced, Req, ReqPcs, Worker, IdleReq, IdleWorker, NoSub,
         Row, Plans, None
<1>3. ClosureShape
  BY IdleProcShape DEF ClosureShape, ClosureRow, IdleProc, None
<1> QED
  BY <1>1, <1>2, <1>3 DEF Shape

LEMMA ShapeIsTypeOK == Shape => TypeOK
BY SubscriptionAssumption
   DEF Shape, SubscriptionShape, LocalShape, ClosureShape, TypeOK,
       SubscriptionTypeOK, Row, Proc, Subs, ClosureRow, Working

\* A change at Stripe and its event.
LEMMA ChangeShape ==
    ASSUME SubscriptionShape, NEW s \in Subs, NEW row \in Row, Change(s, row)
    PROVE  /\ stripe' \in [Subs -> Row]
           /\ changes' \in Nat
           /\ events' \subseteq [n : 1..changes', sub : Subs, row : Row]
<1>1. /\ stripe' = [stripe EXCEPT ![s] = row]
      /\ changes' = changes + 1
      /\ events' = events \cup {[n |-> changes + 1, sub |-> s, row |-> row]}
  BY DEF Change
<1>2. changes \in Nat /\ events \subseteq [n : 1..changes, sub : Subs, row : Row]
  BY DEF SubscriptionShape
<1>3. \A e \in events' : e \in [n : 1..changes', sub : Subs, row : Row]
  BY <1>1, <1>2
<1> QED
  BY <1>1, <1>2, <1>3 DEF SubscriptionShape

LEMMA FreeShape ==
    ASSUME LocalShape, NEW r \in Requests, Free(r), UNCHANGED worker
    PROVE  LocalShape'
BY SubscriptionAssumption
   DEF LocalShape, Free, IdleReq, Req, ReqPcs, ReqPlaced

-----------------------------------------------------------------------------
(***************************************************************************)
(* The steps of the requests                                               *)
(***************************************************************************)

LEMMA RequestShape ==
    ASSUME Shape, NEW r \in Requests,
           \/ UserBegins(r)
           \/ StartCancelPending(r)
           \/ UpgradeAtStripe(r) \/ ScheduleAtStripe(r) \/ WriteSchedule(r)
           \/ ScheduleFreePlan(r) \/ WriteFree(r)
           \/ ResumeAtStripe(r) \/ CancelPendingPlanChange(r)
    PROVE  SubscriptionShape' /\ LocalShape'
<1> USE SubscriptionAssumption DEF Shape
<1>s. req[r].sub \in Subs => stripe[req[r].sub] \in Row
  BY DEF SubscriptionShape
<1>l. local \in [sub : 0..MaxSubs, plan : Plans, active : BOOLEAN,
                 pending : {None, "FREE", "STARTER"}, schedule : BOOLEAN]
  BY DEF SubscriptionShape
<1>r. req[r] \in Req /\ ReqPlaced(req[r])
  BY DEF LocalShape
<1>1. ASSUME NEW plan \in Plans, CreateCheckoutSession(r, plan)
      PROVE  SubscriptionShape' /\ LocalShape'
  BY <1>1 DEF CreateCheckoutSession, SubscriptionShape, LocalShape
<1>2. ASSUME NEW plan \in Plans, StartChange(r, plan)
      PROVE  SubscriptionShape' /\ LocalShape'
  <2>1. \A pc \in {"upgrade", "schedule"} :
          [req[r] EXCEPT !.pc = pc, !.sub = local.sub] \in Req
    BY <1>l, <1>r DEF Req, ReqPcs
  <2>2. local.sub \in Subs
    BY <1>2, <1>l DEF StartChange, Subs
  <2>3. LocalShape'
    BY <2>1, <2>2, <1>2, <1>r DEF StartChange, LocalShape, ReqPlaced, Req
  <2> QED
    BY <2>3, <1>2 DEF StartChange, SubscriptionShape
<1>3. CASE StartFree(r)
  <2>1. [req[r] EXCEPT !.pc = "free", !.sub = local.sub] \in Req
    BY <1>l, <1>r DEF Req, ReqPcs
  <2>2. local.sub \in Subs
    BY <1>3, <1>l DEF StartFree, Subs
  <2>3. LocalShape'
    BY <2>1, <2>2, <1>3, <1>r DEF StartFree, LocalShape, ReqPlaced, Req
  <2> QED
    BY <2>3, <1>3 DEF StartFree, SubscriptionShape
<1>4. CASE StartCancelPending(r)
  <2>1. [req[r] EXCEPT !.pc = "resume", !.sub = local.sub, !.schedule = local.schedule]
          \in Req
    BY <1>l, <1>r DEF Req, ReqPcs
  <2>2. local.sub \in Subs
    BY <1>4, <1>l DEF StartCancelPending, Subs
  <2>3. LocalShape'
    BY <2>1, <2>2, <1>4, <1>r DEF StartCancelPending, LocalShape, ReqPlaced, Req
  <2> QED
    BY <2>3, <1>4 DEF StartCancelPending, SubscriptionShape
<1>5. CASE UpgradeAtStripe(r)
  <2>1. LocalShape'
    BY <1>5, FreeShape DEF UpgradeAtStripe
  <2>2. req[r].sub \in Subs
    BY <1>5, <1>r DEF UpgradeAtStripe, ReqPlaced
  <2>3. [stripe[req[r].sub] EXCEPT !.plan = "PRO"] \in Row
    BY <2>2, <1>s DEF Row, Plans
  <2>4. CASE stripe[req[r].sub].status = "active"
    <3>1. Change(req[r].sub, [stripe[req[r].sub] EXCEPT !.plan = "PRO"])
      BY <2>4, <1>5 DEF UpgradeAtStripe
    <3>2. UNCHANGED <<sessions, local>>
      BY <1>5 DEF UpgradeAtStripe
    <3> HIDE <1>5
    <3> QED
      BY <3>1, <3>2, <2>1, <2>2, <2>3, ChangeShape DEF SubscriptionShape
  <2>5. CASE stripe[req[r].sub].status # "active"
    BY <2>5, <2>1, <1>5 DEF UpgradeAtStripe, SubscriptionShape
  <2> QED
    BY <2>4, <2>5
<1>6. CASE ScheduleAtStripe(r)
  <2>2. req[r].sub \in Subs
    BY <1>6, <1>r DEF ScheduleAtStripe, ReqPlaced
  <2>3. [stripe[req[r].sub] EXCEPT !.schedule = TRUE] \in Row
    BY <2>2, <1>s DEF Row, Plans
  <2>4. CASE stripe[req[r].sub].status = "active" /\ ~stripe[req[r].sub].schedule
    <3>1. LocalShape'
      BY <2>4, <1>6, <1>r DEF ScheduleAtStripe, LocalShape, Req, ReqPcs, ReqPlaced
    <3> QED
      BY <3>1, <2>2, <2>3, <2>4, <1>6, ChangeShape
         DEF ScheduleAtStripe, SubscriptionShape
  <2>5. CASE ~(stripe[req[r].sub].status = "active" /\ ~stripe[req[r].sub].schedule)
    BY <2>5, <1>6, FreeShape DEF ScheduleAtStripe, SubscriptionShape
  <2> QED
    BY <2>4, <2>5
<1>7. CASE WriteSchedule(r)
  BY <1>7, FreeShape DEF WriteSchedule, SubscriptionShape
<1>8. CASE ScheduleFreePlan(r)
  <2>2. req[r].sub \in Subs
    BY <1>8, <1>r DEF ScheduleFreePlan, ReqPlaced
  <2>3. [stripe[req[r].sub] EXCEPT !.cancel = TRUE] \in Row
    BY <2>2, <1>s DEF Row, Plans
  <2>4. CASE stripe[req[r].sub].status = "active"
    <3>1. LocalShape'
      BY <2>4, <1>8, <1>r DEF ScheduleFreePlan, LocalShape, Req, ReqPcs, ReqPlaced
    <3> QED
      BY <3>1, <2>2, <2>3, <2>4, <1>8, ChangeShape
         DEF ScheduleFreePlan, SubscriptionShape
  <2>5. CASE stripe[req[r].sub].status # "active"
    BY <2>5, <1>8, FreeShape DEF ScheduleFreePlan, SubscriptionShape
  <2> QED
    BY <2>4, <2>5
<1>9. CASE WriteFree(r)
  BY <1>9, FreeShape DEF WriteFree, SubscriptionShape
<1>10. CASE ResumeAtStripe(r)
  <2>2. req[r].sub \in Subs
    BY <1>10, <1>r DEF ResumeAtStripe, ReqPlaced
  <2>3. /\ [stripe[req[r].sub] EXCEPT !.schedule = FALSE] \in Row
        /\ [stripe[req[r].sub] EXCEPT !.cancel = FALSE] \in Row
    BY <2>2, <1>s DEF Row, Plans
  <2>4. CASE /\ stripe[req[r].sub].status = "active"
             /\ req[r].schedule => stripe[req[r].sub].schedule
    <3>1. LocalShape'
      BY <2>4, <1>10, <1>r DEF ResumeAtStripe, LocalShape, Req, ReqPcs, ReqPlaced
    <3>2. \E row \in Row : Change(req[r].sub, row)
      BY <2>2, <2>3, <2>4, <1>10 DEF ResumeAtStripe
    <3> QED
      BY <3>1, <3>2, <2>2, <1>10, ChangeShape DEF ResumeAtStripe, SubscriptionShape
  <2>5. CASE ~(/\ stripe[req[r].sub].status = "active"
               /\ req[r].schedule => stripe[req[r].sub].schedule)
    BY <2>5, <1>10, FreeShape DEF ResumeAtStripe, SubscriptionShape
  <2> QED
    BY <2>4, <2>5
<1>11. CASE CancelPendingPlanChange(r)
  BY <1>11, FreeShape DEF CancelPendingPlanChange, SubscriptionShape
<1> QED
  BY <1>1, <1>2, <1>3, <1>4, <1>5, <1>6, <1>7, <1>8, <1>9, <1>10, <1>11 DEF UserBegins

-----------------------------------------------------------------------------
(***************************************************************************)
(* The steps of the deliveries and of Stripe                               *)
(***************************************************************************)

LEMMA DeliveryShape ==
    ASSUME Shape, NEW w \in Workers,
           \/ \E e \in events : Retrieve(w, e)
           \/ SyncSubscription(w)
           \/ StopWorker(w)
    PROVE  SubscriptionShape' /\ LocalShape'
<1> USE DEF Shape
<1>i. IdleWorker \in Worker
  BY SubscriptionAssumption DEF IdleWorker, Worker, NoSub, Row, Plans, None
<1>w. worker[w] \in Worker
  BY DEF LocalShape
<1>1. ASSUME NEW e \in events, Retrieve(w, e)
      PROVE  SubscriptionShape' /\ LocalShape'
  <2>1. e \in [n : 1..changes, sub : Subs, row : Row] /\ changes \in Nat
    BY DEF SubscriptionShape
  <2>2. stripe[e.sub] \in Row
    BY <2>1 DEF SubscriptionShape
  <2>3. [pc |-> "write", event |-> e.n, sub |-> e.sub, seen |-> Retrieved(e)] \in Worker
    BY <2>1, <2>2, SubscriptionAssumption DEF Worker, Retrieved, Subs
  <2> QED
    BY <2>3, <1>1 DEF Retrieve, SubscriptionShape, LocalShape
<1>2. CASE SyncSubscription(w)
  <2>1. LocalShape'
    BY <1>2, <1>i DEF SyncSubscription, LocalShape
  <2>2. events' \subseteq events
    BY <1>2 DEF SyncSubscription
  <2>3. /\ worker[w].seen \in Row
        /\ worker[w].sub \in 0..MaxSubs
    BY <1>w DEF Worker
  <2> DEFINE active == worker[w].seen.status = "active"
             applied == ~active \/ local.pending = worker[w].seen.plan
  <2>4. local' = [sub |-> worker[w].sub, plan |-> worker[w].seen.plan,
                  active |-> active,
                  pending |-> IF applied THEN None ELSE local.pending,
                  schedule |-> ~applied /\ local.schedule]
    BY <1>2 DEF SyncSubscription
  <2>5. /\ local.pending \in {None, "FREE", "STARTER"}
        /\ local.schedule \in BOOLEAN
        /\ local.schedule => local.pending = "STARTER"
    BY DEF SubscriptionShape
  <2>6. worker[w].seen.plan \in Plans
    BY <2>3 DEF Row
  <2>7. active \in BOOLEAN /\ applied \in BOOLEAN
    OBVIOUS
  <2> HIDE DEF active, applied
  <2>8. /\ local' \in [sub : 0..MaxSubs, plan : Plans, active : BOOLEAN,
                       pending : {None, "FREE", "STARTER"}, schedule : BOOLEAN]
        /\ local'.schedule => local'.pending = "STARTER"
    BY <2>3, <2>4, <2>5, <2>6, <2>7
  <2> QED
    BY <2>1, <2>2, <2>8, <1>2 DEF SyncSubscription, SubscriptionShape
<1>3. CASE StopWorker(w)
  BY <1>3, <1>i DEF StopWorker, SubscriptionShape, LocalShape
<1> QED
  BY <1>1, <1>2, <1>3

LEMMA StripeShape ==
    ASSUME Shape, NEW s \in Subs,
           PeriodEnds(s) \/ \E plan \in Plans : PayCheckout(s, plan)
    PROVE  SubscriptionShape' /\ LocalShape'
<1> USE DEF Shape
<1>1. LocalShape'
  BY DEF PeriodEnds, PayCheckout, LocalShape
<1>2. \E row \in Row : Change(s, row)
  <2>1. CASE PeriodEnds(s)
    BY <2>1 DEF PeriodEnds, SubscriptionShape, Row, Plans
  <2>2. ASSUME NEW plan \in Plans, PayCheckout(s, plan)
        PROVE  \E row \in Row : Change(s, row)
    <3>1. [NoSub EXCEPT !.status = "active", !.plan = plan] \in Row
      BY DEF NoSub, Row, Plans, None
    <3> QED
      BY <3>1, <2>2 DEF PayCheckout
  <2> QED
    BY <2>1, <2>2
<1>3. UNCHANGED local /\ sessions' \subseteq sessions
  BY DEF PeriodEnds, PayCheckout
<1> QED
  BY <1>1, <1>2, <1>3, ChangeShape DEF SubscriptionShape

-----------------------------------------------------------------------------
(***************************************************************************)
(* The steps of the companies and of the procedure                         *)
(***************************************************************************)

LEMMA CompanyShape ==
    ASSUME Shape, NEW c \in Companies,
           \/ CloseCompany(c)
           \/ \E r \in Requests : \/ StartCreateCompany(r, c) \/ CreateCompany(r)
                                 \/ StartReactivate(r, c) \/ Reactivate(r)
    PROVE  Shape'
<1> USE DEF Shape
<1>1. CASE CloseCompany(c)
  BY <1>1 DEF CloseCompany, subscriptionVars, SubscriptionShape, LocalShape,
     ClosureShape
<1>2. ASSUME NEW r \in Requests,
             \/ StartCreateCompany(r, c) \/ CreateCompany(r)
             \/ StartReactivate(r, c) \/ Reactivate(r)
      PROVE  Shape'
  <2>1. SubscriptionShape'
    BY <1>2 DEF StartCreateCompany, CreateCompany, StartReactivate, Reactivate,
       closureVars, SubscriptionShape
  <2>2. LocalShape'
    <3>1. CASE CreateCompany(r) \/ Reactivate(r)
      BY <3>1, FreeShape DEF CreateCompany, Reactivate
    <3>2. CASE StartCreateCompany(r, c) \/ StartReactivate(r, c)
      <4>1. \A pc \in {"create", "reactivate"} :
              [req[r] EXCEPT !.pc = pc, !.company = c] \in Req
        BY DEF LocalShape, Req, ReqPcs
      <4>2. PICK pc \in {"create", "reactivate"} :
              req' = [req EXCEPT ![r] = [req[r] EXCEPT !.pc = pc, !.company = c]]
        BY <3>2 DEF StartCreateCompany, StartReactivate, LocalShape
      <4>3. UNCHANGED worker
        BY <3>2 DEF StartCreateCompany, StartReactivate
      <4>4. req[r] \in Req
        BY DEF LocalShape
      <4> DEFINE new == [req[r] EXCEPT !.pc = pc, !.company = c]
      <4>5. new \in Req /\ ReqPlaced(new)
        BY <4>1, <4>4 DEF Req, ReqPlaced
      <4> HIDE DEF new
      <4> QED
        BY <4>2, <4>3, <4>5 DEF LocalShape, new
    <3> QED
      BY <1>2, <3>1, <3>2
  <2>3. ClosureShape'
    <3>1. req[r].pc \in {"create", "reactivate"} => req[r].company \in Companies
      BY DEF LocalShape, ReqPlaced
    <3> QED
      BY <1>2, <3>1 DEF StartCreateCompany, CreateCompany, StartReactivate,
         Reactivate, closureVars, ClosureShape
  <2> QED
    BY <2>1, <2>2, <2>3
<1> QED
  BY <1>1, <1>2

\* An attempt goes on with more actions to take.
LEMMA AddsShape ==
    ASSUME ClosureShape, NEW p \in Procs, NEW pc \in {"confirm", "survey", "conclude"},
           NEW A \in SUBSET Actions, Adds(p, pc, A)
    PROVE  /\ proc' \in [Procs -> Proc]
           /\ proc'[p].pc = pc
           /\ proc'[p].sub = proc[p].sub
           /\ proc'[p].schedule = proc[p].schedule
           /\ proc'[p].reviewed = proc[p].reviewed
           /\ proc'[p].pending = proc[p].pending \cup A
           /\ \A q \in Procs \ {p} : proc'[q] = proc[q]
<1>1. proc[p] \in Proc
  BY DEF ClosureShape
<1> DEFINE new == [proc[p] EXCEPT !.pc = pc, !.pending = proc[p].pending \cup A]
<1>2. proc[p].pending \cup A \in SUBSET Actions
  BY <1>1 DEF Proc
<1>3. /\ new \in Proc
      /\ new.pc = pc
      /\ new.sub = proc[p].sub
      /\ new.schedule = proc[p].schedule
      /\ new.reviewed = proc[p].reviewed
      /\ new.pending = proc[p].pending \cup A
  BY <1>1, <1>2 DEF Proc, ProcPcs
<1>4. proc' = [proc EXCEPT ![p] = new]
  BY DEF Adds
<1> HIDE DEF new
<1> QED
  BY <1>3, <1>4 DEF ClosureShape

LEMMA AttemptShape ==
    ASSUME Shape, NEW p \in Procs,
           \/ Claim(p) \/ CancelRenewal(p) \/ ConfirmRenewal(p) \/ Survey(p)
           \/ Conclude(p) \/ Fail(p) \/ Finish(p) \/ Crash(p)
    PROVE  Shape'
<1> USE DEF Shape
<1>p. /\ proc[p] \in Proc
      /\ proc[p].pc \in {"stripe", "confirm"} => proc[p].sub \in Subs
      /\ proc[p].pc # "idle" => closed
  BY DEF ClosureShape
<1>i. IdleProc \in Proc /\ [IdleProc EXCEPT !.pc = "free"] \in Proc
  BY IdleProcShape
<1>1. CASE Claim(p)
  <2> DEFINE new == [pc |-> IF local.sub = 0 THEN "survey" ELSE "stripe",
                     reviewed |-> closure.reviewed, sub |-> local.sub,
                     schedule |-> local.schedule, pending |-> {}]
  <2>0. /\ closure.reviewed \in SUBSET Reviews
        /\ local.sub \in 0..MaxSubs /\ local.schedule \in BOOLEAN
        /\ local.sub # 0 => local.sub \in Subs
        /\ {} \in SUBSET Actions
    BY DEF ClosureShape, ClosureRow, SubscriptionShape, Subs
  <2>1. /\ new \in Proc
        /\ new.pc \in {"survey", "stripe"}
        /\ new.pc = "stripe" => new.sub \in Subs
    BY <2>0 DEF Proc, ProcPcs
  <2>2. closed /\ closure.status # None
    BY <1>1 DEF Claim, Claimable, ClosureShape
  <2>3. proc' = [proc EXCEPT ![p] = new]
    BY <1>1 DEF Claim
  <2> HIDE DEF new
  <2>4. closure' = [closure EXCEPT !.lease = "held"] /\ UNCHANGED <<closed, company>>
    BY <1>1 DEF Claim
  <2>5. closure' \in ClosureRow /\ closure'.status = closure.status
    BY <2>4 DEF ClosureShape, ClosureRow
  <2>6. ClosureShape'
    BY <2>1, <2>2, <2>3, <2>4, <2>5 DEF ClosureShape
  <2> QED
    BY <2>6, <1>1 DEF Claim, subscriptionVars, SubscriptionShape, LocalShape
<1>2. CASE CancelRenewal(p)
  <2>1. proc[p].sub \in Subs
    BY <1>2, <1>p DEF CancelRenewal
  <2>2. [stripe[proc[p].sub] EXCEPT !.cancel = TRUE] \in Row
    <3>1. stripe[proc[p].sub] \in Row
      BY <2>1 DEF SubscriptionShape
    <3> QED
      BY <3>1 DEF Row
  <2>3. SubscriptionShape'
    <3>1. CASE UNCHANGED <<stripe, changes, events>>
      BY <1>2, <3>1 DEF CancelRenewal, SubscriptionShape
    <3>2. CASE Change(proc[p].sub, [stripe[proc[p].sub] EXCEPT !.cancel = TRUE])
      BY <1>2, <2>1, <2>2, <3>2, ChangeShape DEF CancelRenewal, SubscriptionShape
    <3> QED
      BY <1>2, <3>1, <3>2 DEF CancelRenewal
  <2>4. LocalShape'
    BY <1>2 DEF CancelRenewal, LocalShape
  <2>8. \E A \in SUBSET Actions, pc \in {"survey", "confirm"} : Adds(p, pc, A)
    BY <1>2 DEF CancelRenewal, Actions
  <2>5. /\ proc' \in [Procs -> Proc]
        /\ proc'[p].sub = proc[p].sub
        /\ \A q \in Procs \ {p} : proc'[q] = proc[q]
    BY <2>8, AddsShape
  <2>6. proc[p].pc # "idle"
    BY <1>2 DEF CancelRenewal
  <2>7. ClosureShape'
    BY <1>2, <1>p, <2>1, <2>5, <2>6 DEF CancelRenewal, ClosureShape
  <2> QED
    BY <2>3, <2>4, <2>7
<1>3. CASE ConfirmRenewal(p) \/ Survey(p)
  <2>1. \E A \in SUBSET Actions, pc \in {"survey", "conclude"} : Adds(p, pc, A)
    BY <1>3 DEF ConfirmRenewal, Survey, NotStopped, Actions, Reviews
  <2>2. /\ proc' \in [Procs -> Proc]
        /\ proc'[p].pc \in {"survey", "conclude"}
        /\ \A q \in Procs \ {p} : proc'[q] = proc[q]
    BY <2>1, AddsShape
  <2>3. proc[p].pc # "idle"
    BY <1>3 DEF ConfirmRenewal, Survey
  <2>4. ClosureShape'
    BY <1>3, <1>p, <2>2, <2>3 DEF ConfirmRenewal, Survey, ClosureShape
  <2> QED
    BY <1>3, <2>4 DEF ConfirmRenewal, Survey, subscriptionVars, SubscriptionShape,
       LocalShape
<1>4. CASE Conclude(p) \/ Fail(p)
  <2>1. /\ proc[p].pc # "idle"
        /\ proc' = [proc EXCEPT ![p] = [IdleProc EXCEPT !.pc = "free"]]
    BY <1>4 DEF Conclude, Fail
  <2>2. closure' \in ClosureRow /\ closure'.status # None
    <3>1. closure \in ClosureRow
      BY DEF ClosureShape
    <3>2. CASE Fail(p)
      BY <3>1, <3>2 DEF Fail, ClosureRow, None
    <3>3. CASE Conclude(p)
      <4>1. PICK status \in {"COMPLETED", "ACTION_REQUIRED", "WAITING_SETTLEMENT"},
                 pending \in SUBSET Reviews :
              closure' = [closure EXCEPT !.status = status, !.pending = pending]
        BY <3>3 DEF Conclude, StatusOf
      <4> QED
        BY <3>1, <4>1 DEF ClosureRow, None
    <3> QED
      BY <1>4, <3>2, <3>3
  <2>3. UNCHANGED <<subscriptionVars, closed, company>>
    BY <1>4 DEF Conclude, Fail
  <2>4. [IdleProc EXCEPT !.pc = "free"].pc = "free"
    BY DEF IdleProc
  <2>5. ClosureShape'
    BY <1>p, <1>i, <2>1, <2>2, <2>3, <2>4 DEF ClosureShape
  <2> QED
    BY <2>3, <2>5 DEF subscriptionVars, SubscriptionShape, LocalShape
<1>5. CASE Finish(p) \/ Crash(p)
  <2>1. /\ proc[p].pc # "idle"
        /\ proc' = [proc EXCEPT ![p] = IdleProc]
        /\ closure' \in {closure, [closure EXCEPT !.lease = "free"]}
        /\ UNCHANGED <<subscriptionVars, closed, company>>
    BY <1>5 DEF Finish, Crash
  <2>4. closure' \in ClosureRow /\ closure'.status = closure.status
    BY <2>1 DEF ClosureShape, ClosureRow
  <2>2. IdleProc.pc = "idle"
    BY DEF IdleProc
  <2>3. ClosureShape'
    BY <1>p, <1>i, <2>1, <2>2, <2>4 DEF ClosureShape
  <2> QED
    BY <2>1, <2>3 DEF subscriptionVars, SubscriptionShape, LocalShape
<1> QED
  BY <1>1, <1>2, <1>3, <1>4, <1>5

LEMMA RowShape ==
    ASSUME Shape,
           Close \/ LeaseGetsOld \/ \E action \in Reviews : AcknowledgeReview(action)
    PROVE  Shape'
<1> USE DEF Shape
<1>1. SubscriptionShape' /\ LocalShape'
  BY DEF Close, LeaseGetsOld, AcknowledgeReview, subscriptionVars, SubscriptionShape,
     LocalShape
<1>2. CASE Close
  <2>1. closure' \in ClosureRow /\ closure'.status # None
    BY <1>2 DEF Close, ClosureShape, ClosureRow, None
  <2> QED
    <3>1. \A c \in Companies : company[c] \in {None, "ACTIVE", "CLOSED", "CLOSED_WITH_ACCOUNT"}
      BY DEF ClosureShape
    <3>2. company' \in [Companies -> {None, "ACTIVE", "CLOSED", "CLOSED_WITH_ACCOUNT"}]
      BY <1>2, <3>1 DEF Close
    <3>3. closed' = TRUE /\ UNCHANGED proc
      BY <1>2 DEF Close
    <3> QED
      BY <1>1, <2>1, <3>2, <3>3 DEF ClosureShape
<1>3. CASE LeaseGetsOld
  <2>1. closure' \in ClosureRow /\ closure'.status = closure.status
    BY <1>3 DEF LeaseGetsOld, ClosureShape, ClosureRow
  <2> QED
    <3>1. UNCHANGED <<closed, company, proc>>
      BY <1>3 DEF LeaseGetsOld
    <3> QED
      BY <1>1, <2>1, <3>1 DEF ClosureShape
<1>4. ASSUME NEW action \in Reviews, AcknowledgeReview(action)
      PROVE  ClosureShape'
  <2>1. closure' \in ClosureRow /\ closure'.status = closure.status
    BY <1>4 DEF AcknowledgeReview, ClosureShape, ClosureRow
  <2> QED
    BY <1>4, <2>1 DEF AcknowledgeReview, ClosureShape
<1> QED
  BY <1>1, <1>2, <1>3, <1>4

LEMMA ShapeStep == Shape /\ [Next]_vars => Shape'
<1> SUFFICES ASSUME Shape, [Next]_vars PROVE Shape'
  OBVIOUS
<1>k. UNCHANGED <<closed, company, closure, proc>> => ClosureShape'
  BY DEF Shape, ClosureShape
<1>1. CASE Begins
  <2>1. CASE \E r \in Requests : UserBegins(r) /\ UNCHANGED closureVars
    BY <2>1, <1>k, RequestShape DEF closureVars, Shape
  <2>2. CASE \E r \in Requests : StartCancelPending(r) /\ UNCHANGED closureVars
    BY <2>2, <1>k, RequestShape DEF closureVars, Shape
  <2>3. CASE \E w \in Workers, e \in events : Retrieve(w, e) /\ UNCHANGED closureVars
    BY <2>3, <1>k, DeliveryShape DEF closureVars, Shape
  <2>4. CASE \E c \in Companies : \/ CloseCompany(c)
                                  \/ \E r \in Requests : \/ StartCreateCompany(r, c)
                                                        \/ StartReactivate(r, c)
    BY <2>4, CompanyShape
  <2>5. CASE Close
    BY <2>5, RowShape
  <2>6. CASE \E p \in Procs : Claim(p)
    BY <2>6, AttemptShape
  <2> QED
    BY <1>1, <2>1, <2>2, <2>3, <2>4, <2>5, <2>6 DEF Begins
<1>2. CASE RequestSteps
  <2>1. CASE SubscriptionSteps /\ UNCHANGED closureVars
    <3>1. SubscriptionShape' /\ LocalShape'
      BY <2>1, RequestShape, DeliveryShape, StripeShape DEF SubscriptionSteps
    <3> QED
      BY <2>1, <3>1, <1>k DEF closureVars, Shape
  <2>2. ASSUME NEW r \in Requests, CreateCompany(r) \/ Reactivate(r)
        PROVE  Shape'
    <3>1. req[r].company \in Companies
      BY <2>2 DEF CreateCompany, Reactivate, Shape, LocalShape, ReqPlaced
    <3> QED
      BY <2>2, <3>1, CompanyShape
  <2>3. ASSUME NEW r \in Requests, ResumeAtStripe(r),
               UNCHANGED <<closed, company, closure, proc>>
        PROVE  Shape'
    BY <2>3, <1>k, RequestShape DEF Shape
  <2> QED
    BY <1>2, <2>1, <2>2, <2>3 DEF RequestSteps
<1>3. CASE Checkouts
  BY <1>3, <1>k, StripeShape DEF Checkouts, closureVars, Shape
<1>4. CASE \E p \in Procs : ProcSteps(p) \/ Crash(p)
  BY <1>4, AttemptShape DEF ProcSteps
<1>5. CASE LeaseGetsOld \/ \E action \in Reviews : AcknowledgeReview(action)
  BY <1>5, RowShape
<1>6. CASE UNCHANGED vars
  BY <1>6 DEF vars, subscriptionVars, closureVars, Shape, SubscriptionShape,
     LocalShape, ClosureShape
<1> QED
  BY <1>1, <1>2, <1>3, <1>4, <1>5, <1>6 DEF Next

\* Every variable keeps its shape, and an attempt exists only for an account
\* that is closed, whatever is interleaved.
THEOREM TypeCorrect == Spec => []TypeOK
<1>1. Init => Shape
  BY ShapeInit
<1>2. Shape /\ [Next]_vars => Shape'
  BY ShapeStep
<1>3. Shape => TypeOK
  BY ShapeIsTypeOK
<1> QED
  BY <1>1, <1>2, <1>3, PTL DEF Spec

-----------------------------------------------------------------------------
(***************************************************************************)
(* The steps, by what they may change                                      *)
(***************************************************************************)

RequestStep(r) ==
    \/ UserBegins(r)
    \/ StartCancelPending(r)
    \/ UpgradeAtStripe(r) \/ ScheduleAtStripe(r) \/ WriteSchedule(r)
    \/ ScheduleFreePlan(r) \/ WriteFree(r)
    \/ CancelPendingPlanChange(r)

Resume(r) ==
    /\ ResumeAtStripe(r)
    /\ resumed' = (resumed \/ closed)
    /\ UNCHANGED <<closed, company, closure, proc, expired, lateActive>>

DeliveryStep(w) ==
    (\E e \in events : Retrieve(w, e)) \/ SyncSubscription(w) \/ StopWorker(w)

StripeStep(s) == PeriodEnds(s) \/ \E plan \in Plans : PayCheckout(s, plan)

CompanyRequest(r, c) == StartCreateCompany(r, c) \/ StartReactivate(r, c)

CompanyWrite(r) == CreateCompany(r) \/ Reactivate(r)

AttemptStep(p) == Claim(p) \/ ProcSteps(p) \/ Crash(p)

RowStep == LeaseGetsOld \/ \E action \in Reviews : AcknowledgeReview(action)

SubscriptionStep ==
    \/ \E r \in Requests : RequestStep(r)
    \/ \E w \in Workers : DeliveryStep(w)
    \/ \E s \in Subs : StripeStep(s)

LEMMA Steps ==
    [Next]_vars =>
        \/ SubscriptionStep /\ UNCHANGED closureVars
        \/ \E r \in Requests : Resume(r)
        \/ \E r \in Requests, c \in Companies : CompanyRequest(r, c)
        \/ \E r \in Requests : CompanyWrite(r)
        \/ \E c \in Companies : CloseCompany(c)
        \/ Close /\ ~closed
        \/ \E p \in Procs : AttemptStep(p)
        \/ RowStep
        \/ UNCHANGED vars
BY DEF Next, Begins, RequestSteps, SubscriptionSteps, Checkouts, Close, SubscriptionStep,
   RequestStep, Resume, DeliveryStep, StripeStep, CompanyRequest, CompanyWrite,
   AttemptStep, RowStep

-----------------------------------------------------------------------------
(***************************************************************************)
(* What a closed account owns                                              *)
(***************************************************************************)

\* Stronger than ClosedOwnsNothingActive: nothing that could be reactivated
\* is left either, and what is about to be reactivated exists.
NothingLeft ==
    /\ closed /\ ~lateActive =>
          \A c \in Companies : company[c] \in {None, "CLOSED_WITH_ACCOUNT"}
    /\ \A r \in Requests :
          req[r].pc = "reactivate" => company[req[r].company] # None

\* Most steps touch neither the companies nor the requests that are about to
\* reactivate one.
LEMMA Untouched ==
    ASSUME LocalShape,
           \/ SubscriptionStep /\ UNCHANGED closureVars
           \/ \E r \in Requests : Resume(r)
           \/ \E p \in Procs : AttemptStep(p)
           \/ RowStep
           \/ UNCHANGED vars
    PROVE  /\ UNCHANGED <<closed, company, lateActive>>
           /\ \A r \in Requests : req'[r].pc = "reactivate" => req'[r] = req[r]
<1>1. CASE (\E p \in Procs : AttemptStep(p)) \/ RowStep \/ UNCHANGED vars
  BY <1>1 DEF AttemptStep, ProcSteps, Claim, CancelRenewal, ConfirmRenewal, Survey,
     Conclude, Fail, Finish, Crash, RowStep, LeaseGetsOld, AcknowledgeReview,
     subscriptionVars, closureVars, vars
<1>2. ASSUME NEW q \in Requests, RequestStep(q) \/ ResumeAtStripe(q)
      PROVE  \A r \in Requests : req'[r].pc = "reactivate" => req'[r] = req[r]
  <2>1. \A r \in Requests : req[r] \in Req
    BY DEF LocalShape
  <2>2. CASE Free(q)
    BY <2>2 DEF Free, IdleReq, LocalShape
  <2>3. CASE UNCHANGED req
    BY <2>3
  <2>4. CASE \E s \in Req : s.pc # "reactivate" /\ req' = [req EXCEPT ![q] = s]
    BY <2>4 DEF LocalShape
  <2>5. CASE UserBegins(q)
    <3>1. ASSUME NEW plan \in Plans, StartChange(q, plan)
          PROVE  req'[q].pc # "reactivate" /\ \A r \in Requests \ {q} : req'[r] = req[r]
      BY <2>1, <3>1 DEF StartChange, LocalShape, Req
    <3>2. CASE StartFree(q)
      BY <2>1, <3>2 DEF StartFree, LocalShape, Req
    <3>3. ASSUME NEW plan \in Plans, CreateCheckoutSession(q, plan)
          PROVE  UNCHANGED req
      BY <3>3 DEF CreateCheckoutSession
    <3> QED
      BY <2>5, <2>3, <3>1, <3>2, <3>3 DEF UserBegins
  <2>6. CASE StartCancelPending(q)
    BY <2>1, <2>6 DEF StartCancelPending, LocalShape, Req
  <2>7. CASE ScheduleAtStripe(q)
    BY <2>1, <2>2, <2>7 DEF ScheduleAtStripe, LocalShape, Req
  <2>8. CASE ScheduleFreePlan(q)
    BY <2>1, <2>2, <2>8 DEF ScheduleFreePlan, LocalShape, Req
  <2>9. CASE ResumeAtStripe(q)
    BY <2>1, <2>2, <2>9 DEF ResumeAtStripe, LocalShape, Req
  <2>10. CASE \/ UpgradeAtStripe(q) \/ WriteSchedule(q) \/ WriteFree(q)
              \/ CancelPendingPlanChange(q)
    BY <2>2, <2>10 DEF UpgradeAtStripe, WriteSchedule, WriteFree,
       CancelPendingPlanChange
  <2> QED
    BY <1>2, <2>5, <2>6, <2>7, <2>8, <2>9, <2>10 DEF RequestStep
<1>3. CASE SubscriptionStep /\ UNCHANGED closureVars
  <2>1. CASE \E w \in Workers : DeliveryStep(w)
    BY <1>3, <2>1 DEF DeliveryStep, Retrieve, SyncSubscription, StopWorker, closureVars
  <2>2. CASE \E s \in Subs : StripeStep(s)
    BY <1>3, <2>2 DEF StripeStep, PeriodEnds, PayCheckout, closureVars
  <2> QED
    BY <1>2, <1>3, <2>1, <2>2 DEF SubscriptionStep, closureVars
<1>4. CASE \E r \in Requests : Resume(r)
  BY <1>2, <1>4 DEF Resume
<1> QED
  BY <1>1, <1>3, <1>4

LEMMA NothingLeftStep == Shape /\ NothingLeft /\ [Next]_vars => NothingLeft'
<1> SUFFICES ASSUME Shape, NothingLeft, [Next]_vars PROVE NothingLeft'
  OBVIOUS
<1> USE DEF Shape
<1>r. \A r \in Requests : req[r] \in Req /\ ReqPlaced(req[r])
  BY DEF LocalShape
<1>1. CASE /\ UNCHANGED <<closed, company, lateActive>>
           /\ \A r \in Requests : req'[r].pc = "reactivate" => req'[r] = req[r]
  BY <1>1 DEF NothingLeft
<1>2. ASSUME NEW r \in Requests, NEW c \in Companies, CompanyRequest(r, c)
      PROVE  NothingLeft'
  <2>1. UNCHANGED <<closed, company, lateActive>>
    BY <1>2 DEF CompanyRequest, StartCreateCompany, StartReactivate, closureVars
  <2>2. /\ req'[r].pc = "reactivate" => company[req'[r].company] # None
        /\ \A q \in Requests \ {r} : req'[q] = req[q]
    BY <1>2, <1>r DEF CompanyRequest, StartCreateCompany, StartReactivate, LocalShape,
       Req, None
  <2> QED
    BY <2>1, <2>2 DEF NothingLeft
<1>3. ASSUME NEW r \in Requests, CreateCompany(r)
      PROVE  NothingLeft'
  <2>1. /\ req'[r].pc = "idle"
        /\ \A q \in Requests \ {r} : req'[q] = req[q]
    BY <1>3 DEF CreateCompany, Free, IdleReq, LocalShape
  <2>2. /\ UNCHANGED <<closed, lateActive>>
        /\ closed => company' = company
        /\ \A c \in Companies : company[c] # None => company'[c] # None
    BY <1>3 DEF CreateCompany, ClosedUser, ClosureShape, None
  <2>3. \A q \in Requests : req[q].pc = "reactivate" => req[q].company \in Companies
    BY <1>r DEF ReqPlaced
  <2> QED
    BY <2>1, <2>2, <2>3 DEF NothingLeft
<1>4. ASSUME NEW r \in Requests, Reactivate(r)
      PROVE  NothingLeft'
  <2> DEFINE c == req[r].company
  <2>1. c \in Companies /\ company[c] # None
    BY <1>4, <1>r DEF Reactivate, ReqPlaced, NothingLeft
  <2>2. /\ req'[r].pc = "idle"
        /\ \A q \in Requests \ {r} : req'[q] = req[q]
    BY <1>4 DEF Reactivate, Free, IdleReq, LocalShape
  <2>3. /\ UNCHANGED closed
        /\ lateActive' = (lateActive \/ company[c] = "CLOSED_WITH_ACCOUNT")
        /\ company' = [company EXCEPT ![c] = "ACTIVE"]
    BY <1>4 DEF Reactivate
  <2>4. closed => lateActive'
    BY <2>1, <2>3 DEF NothingLeft
  <2>5. \A d \in Companies : company[d] # None => company'[d] # None
    BY <2>3 DEF ClosureShape, None
  <2>6. \A q \in Requests : req[q].pc = "reactivate" => req[q].company \in Companies
    BY <1>r DEF ReqPlaced
  <2> QED
    BY <2>2, <2>3, <2>4, <2>5, <2>6 DEF NothingLeft
<1>5. ASSUME NEW c \in Companies, CloseCompany(c)
      PROVE  NothingLeft'
  <2>1. /\ UNCHANGED <<closed, lateActive, req>>
        /\ company[c] = "ACTIVE"
        /\ company' = [company EXCEPT ![c] = "CLOSED"]
    BY <1>5 DEF CloseCompany, subscriptionVars
  <2>2. ~(closed /\ ~lateActive)
    BY <2>1 DEF NothingLeft, None
  <2>3. \A d \in Companies : company[d] # None => company'[d] # None
    BY <2>1 DEF ClosureShape, None
  <2>4. \A q \in Requests : req[q].pc = "reactivate" => req[q].company \in Companies
    BY <1>r DEF ReqPlaced
  <2> QED
    BY <2>1, <2>2, <2>3, <2>4 DEF NothingLeft
<1>6. CASE Close
  <2>1. \A c \in Companies : company'[c] = IF company[c] # None
                                          THEN "CLOSED_WITH_ACCOUNT" ELSE company[c]
    BY <1>6 DEF Close, ClosedWithAccount
  <2>2. \A q \in Requests : req[q].pc = "reactivate" => req[q].company \in Companies
    BY <1>r DEF ReqPlaced
  <2> QED
    BY <1>6, <2>1, <2>2 DEF Close, NothingLeft, subscriptionVars, None
<1> QED
  BY <1>1, <1>2, <1>3, <1>4, <1>5, <1>6, Steps, Untouched DEF CompanyWrite

\* An account that is closed owns no active company, whatever was being
\* created, closed or reactivated when it was closed, except by a reactivation
\* that had read its company before (performOwnedCompanyAction).
THEOREM ClosedOwnsNothing == Spec => []ClosedOwnsNothingActive
<1>1. Init => NothingLeft
  BY DEF Init, InitSubscription, IdleReq, NothingLeft
<1>2. Init => Shape
  BY ShapeInit
<1>3. Shape /\ NothingLeft /\ [Next]_vars => (Shape /\ NothingLeft)'
  BY ShapeStep, NothingLeftStep
<1>4. NothingLeft => ClosedOwnsNothingActive
  BY DEF NothingLeft, ClosedOwnsNothingActive, Active, None
<1> QED
  BY <1>1, <1>2, <1>3, <1>4, PTL DEF Spec

-----------------------------------------------------------------------------
(***************************************************************************)
(* The lease and the end of the procedure                                  *)
(***************************************************************************)

\* As long as no lease became old under an attempt, the attempt that works is
\* alone and holds it, and one that finds the procedure completed has written
\* that itself.
LeaseHeld ==
    ~expired =>
        /\ \A p, q \in Procs : proc[p].pc # "idle" /\ proc[q].pc # "idle" => p = q
        /\ \A p \in Procs : proc[p].pc # "idle" => closure.lease = "held"
        /\ closure.status = "COMPLETED" =>
              \A p \in Procs : proc[p].pc \in {"idle", "free"}

\* The steps that leave the procedure alone.
LEMMA ProcedureUntouched ==
    ASSUME \/ SubscriptionStep /\ UNCHANGED closureVars
           \/ \E r \in Requests : Resume(r)
           \/ \E r \in Requests, c \in Companies : CompanyRequest(r, c)
           \/ \E r \in Requests : CompanyWrite(r)
           \/ \E c \in Companies : CloseCompany(c)
           \/ UNCHANGED vars
    PROVE  UNCHANGED <<closure, proc, expired>>
BY DEF closureVars, Resume, CompanyRequest, StartCreateCompany, StartReactivate,
       CompanyWrite, CreateCompany, Reactivate, CloseCompany, vars

\* What an attempt may do to the row and to itself.
LEMMA AttemptEffect ==
    ASSUME Shape, NEW p \in Procs, AttemptStep(p)
    PROVE  /\ \A q \in Procs \ {p} : proc'[q] = proc[q]
           /\ UNCHANGED expired
           /\ \/ Claim(p) /\ closure'.lease = "held" /\ closure'.status = closure.status
              \/ /\ proc[p].pc \notin {"idle", "free"}
                 /\ closure'.lease = closure.lease
                 /\ \/ closure'.status = closure.status
                    \/ proc'[p].pc = "free"
              \/ /\ proc'[p].pc = "idle"
                 /\ closure'.status = closure.status
<1> USE DEF Shape
<1>c. closure \in ClosureRow /\ proc \in [Procs -> Proc]
  BY DEF ClosureShape
<1>1. CASE Claim(p)
  BY <1>1, <1>c DEF Claim, ClosureRow
<1>2. CASE CancelRenewal(p) \/ ConfirmRenewal(p) \/ Survey(p)
  <2>1. \E A \in SUBSET Actions, pc \in {"survey", "confirm", "conclude"} : Adds(p, pc, A)
    BY <1>2 DEF CancelRenewal, ConfirmRenewal, Survey, NotStopped, Actions, Reviews
  <2>2. \A q \in Procs \ {p} : proc'[q] = proc[q]
    BY <2>1, AddsShape
  <2>3. UNCHANGED <<closure, expired>> /\ proc[p].pc \notin {"idle", "free"}
    BY <1>2 DEF CancelRenewal, ConfirmRenewal, Survey
  <2> QED
    BY <2>2, <2>3
<1>3. CASE Conclude(p) \/ Fail(p)
  <2>1. /\ proc' = [proc EXCEPT ![p] = [IdleProc EXCEPT !.pc = "free"]]
        /\ UNCHANGED expired
        /\ proc[p].pc \notin {"idle", "free"}
    BY <1>3 DEF Conclude, Fail
  <2>2. proc'[p].pc = "free" /\ \A q \in Procs \ {p} : proc'[q] = proc[q]
    BY <2>1, <1>c DEF IdleProc
  <2>3. closure'.lease = closure.lease
    BY <1>3, <1>c DEF Conclude, Fail, ClosureRow
  <2> QED
    BY <2>1, <2>2, <2>3
<1>4. CASE Finish(p) \/ Crash(p)
  <2>1. proc' = [proc EXCEPT ![p] = IdleProc] /\ UNCHANGED expired
    BY <1>4 DEF Finish, Crash
  <2>2. closure'.status = closure.status
    BY <1>4, <1>c DEF Finish, Crash, ClosureRow
  <2> QED
    BY <2>1, <2>2, <1>c DEF IdleProc
<1> QED
  BY <1>1, <1>2, <1>3, <1>4 DEF AttemptStep, ProcSteps

LEMMA LeaseHeldStep == Shape /\ LeaseHeld /\ [Next]_vars => LeaseHeld'
<1> SUFFICES ASSUME Shape, LeaseHeld, [Next]_vars, ~expired'
             PROVE  LeaseHeld'
  BY DEF LeaseHeld
<1> USE DEF Shape
<1>c. closure \in ClosureRow
  BY DEF ClosureShape
<1>1. CASE UNCHANGED <<closure, proc, expired>>
  BY <1>1 DEF LeaseHeld
<1>2. CASE Close /\ ~closed
  <2>1. closure'.status = "PENDING" /\ closure'.lease = closure.lease
    BY <1>2, <1>c DEF Close, ClosureRow
  <2> QED
    BY <1>2, <2>1 DEF Close, LeaseHeld
<1>3. ASSUME NEW p \in Procs, AttemptStep(p)
      PROVE  LeaseHeld'
  <2>1. ~expired
    BY <1>3, AttemptEffect
  <2>2. CASE Claim(p) /\ closure'.lease = "held" /\ closure'.status = closure.status
    <3>1. closure.lease # "held" /\ closure.status # "COMPLETED"
      BY <2>2 DEF Claim, Claimable
    <3>2. \A q \in Procs : proc[q].pc = "idle"
      BY <2>1, <3>1 DEF LeaseHeld
    <3> QED
      BY <2>2, <3>1, <3>2, <1>3, AttemptEffect DEF LeaseHeld
  <2>3. CASE /\ proc[p].pc \notin {"idle", "free"}
             /\ closure'.lease = closure.lease
             /\ \/ closure'.status = closure.status
                \/ proc'[p].pc = "free"
    <3>1. \A q \in Procs \ {p} : proc[q].pc = "idle" /\ proc'[q].pc = "idle"
      BY <2>1, <2>3, <1>3, AttemptEffect DEF LeaseHeld
    <3>2. closure.status # "COMPLETED"
      BY <2>1, <2>3 DEF LeaseHeld
    <3>3. closure'.lease = "held"
      BY <2>1, <2>3 DEF LeaseHeld
    <3> QED
      BY <2>3, <3>1, <3>2, <3>3 DEF LeaseHeld
  <2>4. CASE proc'[p].pc = "idle" /\ closure'.status = closure.status
    <3>1. CASE proc[p].pc = "idle"
      <4>1. Claim(p)
        BY <1>3, <3>1 DEF AttemptStep, ProcSteps, CancelRenewal, ConfirmRenewal,
           Survey, Conclude, Fail, Finish, Crash
      <4>2. proc'[p].pc # "idle"
        BY <4>1 DEF Claim, ClosureShape
      <4> QED
        BY <2>4, <4>2
    <3>2. CASE proc[p].pc # "idle"
      <4>1. \A q \in Procs : proc'[q].pc = "idle"
        BY <2>1, <2>4, <3>2, <1>3, AttemptEffect DEF LeaseHeld
      <4> QED
        BY <4>1 DEF LeaseHeld
    <3> QED
      BY <3>1, <3>2
  <2> QED
    BY <1>3, <2>2, <2>3, <2>4, AttemptEffect
<1>4. CASE LeaseGetsOld
  <2>1. ~expired /\ Working = {} /\ UNCHANGED proc
    BY <1>4 DEF LeaseGetsOld
  <2>2. \A p \in Procs : proc'[p].pc = "idle"
    BY <2>1 DEF Working
  <2> QED
    BY <2>2 DEF LeaseHeld
<1>5. ASSUME NEW action \in Reviews, AcknowledgeReview(action)
      PROVE  LeaseHeld'
  <2>1. closure'.status = closure.status /\ closure'.lease = closure.lease
    BY <1>5, <1>c DEF AcknowledgeReview, ClosureRow
  <2> QED
    BY <1>5, <2>1 DEF AcknowledgeReview, LeaseHeld
<1> QED
  BY <1>1, <1>2, <1>3, <1>4, <1>5, Steps, ProcedureUntouched DEF RowStep

LEMMA FinalStep ==
    ASSUME Shape, LeaseHeld, [Next]_vars, closure.status = "COMPLETED", ~expired
    PROVE  closure'.status = "COMPLETED"
<1> USE DEF Shape
<1>c. closure \in ClosureRow /\ closed
  BY DEF ClosureShape, None
<1>1. ASSUME NEW p \in Procs, AttemptStep(p)
      PROVE  closure'.status = "COMPLETED"
  <2>1. proc[p].pc \in {"idle", "free"}
    BY DEF LeaseHeld
  <2> QED
    BY <1>1, <2>1, AttemptEffect DEF LeaseHeld
<1>2. CASE RowStep
  BY <1>2, <1>c DEF RowStep, LeaseGetsOld, AcknowledgeReview, ClosureRow
<1> QED
  BY <1>c, <1>1, <1>2, Steps, ProcedureUntouched

\* A completed closure stays completed, unless a lease became old under an
\* attempt (process writes the status without looking at it).
THEOREM CompletedFinal == Spec => CompletedIsFinal
<1>1. Init => Shape /\ LeaseHeld
  <2>1. Init => LeaseHeld
    BY DEF Init, IdleProc, LeaseHeld, None
  <2> QED
    BY <2>1, ShapeInit
<1>2. Shape /\ LeaseHeld /\ [Next]_vars => (Shape /\ LeaseHeld)'
  BY ShapeStep, LeaseHeldStep
<1>3. Shape /\ LeaseHeld /\ [Next]_vars =>
        [closure.status = "COMPLETED" /\ ~expired => closure'.status = "COMPLETED"]_vars
  BY FinalStep
<1> QED
  BY <1>1, <1>2, <1>3, PTL DEF Spec, CompletedIsFinal

-----------------------------------------------------------------------------
(***************************************************************************)
(* The renewal                                                             *)
(***************************************************************************)

Exists(s) == s # 0 => stripe[s].status # None

\* The subscriptions that exist are numbered from one, and whoever names one
\* names one that exists: a subscription that is paid now is named by nobody.
NamesExist ==
    /\ \E n \in 0..MaxSubs : {t \in Subs : stripe[t].status # None} = 1..n
    /\ Exists(local.sub)
    /\ \A e \in events : Exists(e.sub)
    /\ \A w \in Workers : worker[w].pc = "write" => Exists(worker[w].sub)
    /\ \A p \in Procs : Exists(proc[p].sub)

\* An attempt that found no cancellation to be made works on a subscription
\* that is not renewed.
RenewalSeen ==
    ~resumed =>
        \A p \in Procs :
            /\ proc[p].pc \in {"survey", "conclude"}
            /\ "STRIPE_CANCELLATION" \notin proc[p].pending
            => proc[p].sub = 0 \/ ~Renewing(proc[p].sub)

\* Every step of Stripe keeps the numbers and what ends; only a new checkout
\* and a resumption let a renewal begin.
LEMMA ChangeEffect ==
    ASSUME SubscriptionShape, NEW s \in Subs, NEW row \in Row, Change(s, row),
           row.status # None, stripe[s].status # None
    PROVE  /\ \A t \in Subs : stripe'[t].status # None <=> stripe[t].status # None
           /\ \A e \in events' : e \in events \/ e.sub = s
           /\ \A t \in Subs \ {s} : stripe'[t] = stripe[t]
           /\ stripe'[s] = row
BY DEF SubscriptionShape, Change

StripeMoves ==
    \/ UNCHANGED <<stripe, changes, events>>
    \/ \E s \in Subs, row \in Row : /\ Change(s, row)
                                    /\ row.status # None
                                    /\ stripe[s].status # None
                                    /\ ~Renewing(s) => row.status # "active" \/ row.cancel

\* What moves at Stripe is a subscription that exists.
StripeKeeps ==
    \/ UNCHANGED <<stripe, changes, events>>
    \/ \E s \in Subs, row \in Row : /\ Change(s, row)
                                    /\ row.status # None
                                    /\ stripe[s].status # None

LEMMA MovesKeep == StripeMoves => StripeKeeps
BY DEF StripeMoves, StripeKeeps

LEMMA RequestMoves ==
    ASSUME Shape, NEW r \in Requests, RequestStep(r)
    PROVE  /\ StripeMoves
           /\ local'.sub = local.sub /\ UNCHANGED worker
<1> USE DEF Shape
<1>r. ReqPlaced(req[r])
  BY DEF LocalShape
<1>l. local'.sub = local.sub /\ UNCHANGED worker
  BY DEF RequestStep, UserBegins, CreateCheckoutSession, StartChange, StartFree,
     StartCancelPending, UpgradeAtStripe, ScheduleAtStripe, WriteSchedule,
     ScheduleFreePlan, WriteFree, CancelPendingPlanChange, SubscriptionShape
<1> DEFINE s == req[r].sub
<1>s. s \in Subs => stripe[s] \in Row
  BY DEF SubscriptionShape
<1>1. CASE UpgradeAtStripe(r)
  <2>1. s \in Subs
    BY <1>1, <1>r DEF UpgradeAtStripe, ReqPlaced
  <2>2. CASE stripe[s].status = "active"
    <3> DEFINE row == [stripe[s] EXCEPT !.plan = "PRO"]
    <3>1. row \in Row /\ row.status = "active" /\ row.cancel = stripe[s].cancel
      BY <1>s, <2>1, <2>2 DEF Row, Plans
    <3>2. Change(s, row)
      BY <1>1, <2>2 DEF UpgradeAtStripe
    <3> HIDE DEF row
    <3> QED
      BY <1>l, <2>1, <2>2, <3>1, <3>2 DEF StripeMoves, Renewing, None
  <2> QED
    BY <1>1, <1>l, <2>2 DEF UpgradeAtStripe, StripeMoves
<1>2. CASE ScheduleAtStripe(r)
  <2>1. s \in Subs
    BY <1>2, <1>r DEF ScheduleAtStripe, ReqPlaced
  <2>2. CASE stripe[s].status = "active" /\ ~stripe[s].schedule
    <3> DEFINE row == [stripe[s] EXCEPT !.schedule = TRUE]
    <3>1. row \in Row /\ row.status = "active" /\ row.cancel = stripe[s].cancel
      BY <1>s, <2>1, <2>2 DEF Row
    <3>2. Change(s, row)
      BY <1>2, <2>2 DEF ScheduleAtStripe
    <3> HIDE DEF row
    <3> QED
      BY <1>l, <2>1, <2>2, <3>1, <3>2 DEF StripeMoves, Renewing, None
  <2> QED
    BY <1>2, <1>l, <2>2 DEF ScheduleAtStripe, StripeMoves
<1>3. CASE ScheduleFreePlan(r)
  <2>1. s \in Subs
    BY <1>3, <1>r DEF ScheduleFreePlan, ReqPlaced
  <2>2. CASE stripe[s].status = "active"
    <3> DEFINE row == [stripe[s] EXCEPT !.cancel = TRUE]
    <3>1. row \in Row /\ row.status = "active" /\ row.cancel = TRUE
      BY <1>s, <2>1, <2>2 DEF Row
    <3>2. Change(s, row)
      BY <1>3, <2>2 DEF ScheduleFreePlan
    <3> HIDE DEF row
    <3> QED
      BY <1>l, <2>1, <2>2, <3>1, <3>2 DEF StripeMoves, Renewing, None
  <2> QED
    BY <1>3, <1>l, <2>2 DEF ScheduleFreePlan, StripeMoves
<1>4. CASE \/ UserBegins(r) \/ StartCancelPending(r) \/ WriteSchedule(r) \/ WriteFree(r)
           \/ CancelPendingPlanChange(r)
  BY <1>4, <1>l DEF UserBegins, CreateCheckoutSession, StartChange, StartFree,
     StartCancelPending, WriteSchedule, WriteFree, CancelPendingPlanChange, StripeMoves
<1> QED
  BY <1>1, <1>2, <1>3, <1>4 DEF RequestStep

LEMMA ResumeMoves ==
    ASSUME Shape, NEW r \in Requests, Resume(r)
    PROVE  /\ StripeKeeps
           /\ UNCHANGED <<local, worker, proc>>
           /\ resumed' = (resumed \/ closed)
<1> DEFINE s == req[r].sub
<1>1. s \in Subs /\ stripe[s] \in Row
  BY DEF Resume, ResumeAtStripe, Shape, LocalShape, ReqPlaced, SubscriptionShape
<1>2. UNCHANGED <<local, worker, proc>> /\ resumed' = (resumed \/ closed)
  BY DEF Resume, ResumeAtStripe
<1>3. CASE UNCHANGED <<stripe, changes, events>>
  BY <1>2, <1>3 DEF StripeKeeps
<1>4. CASE stripe[s].status = "active" /\ Change(s, [stripe[s] EXCEPT !.schedule = FALSE])
  <2>1. /\ [stripe[s] EXCEPT !.schedule = FALSE] \in Row
        /\ [stripe[s] EXCEPT !.schedule = FALSE].status # None
    BY <1>1, <1>4 DEF Row, None
  <2> QED
    BY <1>1, <1>2, <1>4, <2>1 DEF None, StripeKeeps
<1>5. CASE stripe[s].status = "active" /\ Change(s, [stripe[s] EXCEPT !.cancel = FALSE])
  <2>1. /\ [stripe[s] EXCEPT !.cancel = FALSE] \in Row
        /\ [stripe[s] EXCEPT !.cancel = FALSE].status # None
    BY <1>1, <1>5 DEF Row, None
  <2> QED
    BY <1>1, <1>2, <1>5, <2>1 DEF None, StripeKeeps
<1> QED
  BY <1>3, <1>4, <1>5 DEF Resume, ResumeAtStripe

LEMMA PeriodMoves ==
    ASSUME Shape, NEW s \in Subs, PeriodEnds(s)
    PROVE  StripeMoves /\ UNCHANGED <<local, worker>>
<1>0. UNCHANGED <<local, worker>>
  BY DEF PeriodEnds
<1>1. stripe[s] \in Row /\ stripe[s].status = "active"
  BY DEF PeriodEnds, Shape, SubscriptionShape
<1>2. CASE /\ stripe[s].cancel
           /\ Change(s, [stripe[s] EXCEPT !.status = "canceled", !.cancel = FALSE,
                                          !.schedule = FALSE])
  <2> DEFINE row == [stripe[s] EXCEPT !.status = "canceled", !.cancel = FALSE,
                                      !.schedule = FALSE]
  <2>1. row \in Row /\ row.status = "canceled"
    BY <1>1 DEF Row
  <2>2. Change(s, row)
    BY <1>2
  <2> HIDE DEF row
  <2> QED
    BY <1>0, <1>1, <2>1, <2>2 DEF StripeMoves, None
<1>3. CASE /\ ~stripe[s].cancel
           /\ Change(s, [stripe[s] EXCEPT !.plan = "STARTER", !.schedule = FALSE])
  <2> DEFINE row == [stripe[s] EXCEPT !.plan = "STARTER", !.schedule = FALSE]
  <2>1. row \in Row /\ row.status = "active"
    BY <1>1 DEF Row, Plans
  <2>2. Change(s, row)
    BY <1>3
  <2> HIDE DEF row
  <2> QED
    BY <1>0, <1>1, <1>3, <2>1, <2>2 DEF StripeMoves, Renewing, None
<1> QED
  BY <1>2, <1>3 DEF PeriodEnds

\* A session that is paid makes the next subscription.
LEMMA CheckoutMoves ==
    ASSUME Shape, NamesExist, NEW s \in Subs, NEW plan \in Plans, PayCheckout(s, plan)
    PROVE  /\ stripe[s].status = None
           /\ \E n \in 0..MaxSubs : {t \in Subs : stripe'[t].status # None} = 1..n
           /\ \A t \in Subs \ {s} : stripe'[t] = stripe[t]
           /\ stripe'[s].status # None
           /\ \A e \in events' : e \in events \/ e.sub = s
           /\ UNCHANGED <<local, worker>>
<1>0. UNCHANGED <<local, worker>>
  BY DEF PayCheckout
<1>1. PICK n \in 0..MaxSubs : {t \in Subs : stripe[t].status # None} = 1..n
  BY DEF NamesExist
<1>2. Cardinality(1..n) = n
  BY <1>1, FS_Interval, SubscriptionAssumption
<1>3. s = n + 1
  BY <1>1, <1>2 DEF PayCheckout
<1>4. stripe[s].status = None
  <2>1. s \notin 1..n
    BY <1>3, SubscriptionAssumption
  <2> QED
    BY <1>1, <2>1
<1> DEFINE row == [NoSub EXCEPT !.status = "active", !.plan = plan]
<1>5. /\ stripe' = [stripe EXCEPT ![s] = row]
      /\ events' = events \cup {[n |-> changes + 1, sub |-> s, row |-> row]}
  BY DEF PayCheckout, Change
<1>6. row.status = "active"
  BY DEF NoSub
<1>7. /\ \A t \in Subs \ {s} : stripe'[t] = stripe[t]
      /\ stripe'[s].status # None
  BY <1>5, <1>6 DEF Shape, SubscriptionShape, None
<1>8. {t \in Subs : stripe'[t].status # None} = 1..(n + 1)
  <2>1. {t \in Subs : stripe'[t].status # None}
          = {t \in Subs : stripe[t].status # None} \cup {s}
    BY <1>7
  <2> QED
    BY <1>1, <1>3, <2>1, SubscriptionAssumption
<1>9. n + 1 \in 0..MaxSubs
  BY <1>3, SubscriptionAssumption DEF Subs
<1>10. \A e \in events' : e \in events \/ e.sub = s
  BY <1>5
<1> QED
  BY <1>0, <1>4, <1>7, <1>8, <1>9, <1>10

\* Whatever moves a subscription that exists keeps every name.
LEMMA NamesKept ==
    ASSUME Shape, NamesExist, StripeKeeps
    PROVE  /\ \E n \in 0..MaxSubs : {t \in Subs : stripe'[t].status # None} = 1..n
           /\ \A e \in events' : e.sub # 0 => stripe'[e.sub].status # None
           /\ \A t \in Subs : stripe[t].status # None => stripe'[t].status # None
<1>e. \A e \in events : e.sub \in Subs /\ stripe[e.sub].status # None
  BY SubscriptionAssumption DEF NamesExist, Exists, Shape, SubscriptionShape, Subs
<1>1. CASE UNCHANGED <<stripe, changes, events>>
  BY <1>1 DEF NamesExist, Exists
<1>2. ASSUME NEW s \in Subs, NEW row \in Row, Change(s, row),
             row.status # None, stripe[s].status # None
      PROVE  /\ \E n \in 0..MaxSubs : {t \in Subs : stripe'[t].status # None} = 1..n
             /\ \A e \in events' : e.sub # 0 => stripe'[e.sub].status # None
             /\ \A t \in Subs : stripe[t].status # None => stripe'[t].status # None
  <2>1. /\ \A t \in Subs : stripe'[t].status # None <=> stripe[t].status # None
        /\ \A e \in events' : e \in events \/ e.sub = s
    BY <1>2, ChangeEffect DEF Shape
  <2>2. {t \in Subs : stripe'[t].status # None} = {t \in Subs : stripe[t].status # None}
    BY <2>1
  <2> QED
    BY <1>2, <1>e, <2>1, <2>2 DEF NamesExist
<1> QED
  BY <1>1, <1>2 DEF StripeKeeps

LEMMA NamesInit == Init => NamesExist
<1> SUFFICES ASSUME Init PROVE NamesExist
  OBVIOUS
<1>1. PICK plan \in Plans, active \in BOOLEAN :
        /\ stripe = [s \in Subs |-> IF s = 1 /\ active
                                    THEN [NoSub EXCEPT !.status = "active", !.plan = plan]
                                    ELSE NoSub]
        /\ local = [sub |-> IF active THEN 1 ELSE 0,
                    plan |-> IF active THEN plan ELSE "STARTER",
                    active |-> active, pending |-> None, schedule |-> FALSE]
  BY DEF Init, InitSubscription
<1>2. NoSub.status = None /\ [NoSub EXCEPT !.status = "active", !.plan = plan].status # None
  BY DEF NoSub, None
<1>3. \E n \in 0..MaxSubs : {t \in Subs : stripe[t].status # None} = 1..n
  <2>1. CASE active
    <3>1. {t \in Subs : stripe[t].status # None} = 1..1 /\ 1 \in 0..MaxSubs
      BY <1>1, <1>2, <2>1, SubscriptionAssumption DEF Subs
    <3> QED
      BY <3>1
  <2>2. CASE ~active
    <3>1. {t \in Subs : stripe[t].status # None} = 1..0 /\ 0 \in 0..MaxSubs
      BY <1>1, <1>2, <2>2, SubscriptionAssumption DEF Subs
    <3> QED
      BY <3>1
  <2> QED
    BY <2>1, <2>2
<1>4. Exists(local.sub)
  <2>1. local.sub = IF active THEN 1 ELSE 0
    BY <1>1
  <2> QED
    BY <1>1, <1>2, <2>1, SubscriptionAssumption DEF Subs, Exists
<1>5. /\ events = {}
      /\ \A w \in Workers : worker[w].pc = "idle"
      /\ \A p \in Procs : proc[p].sub = 0
  BY DEF Init, InitSubscription, IdleWorker, IdleProc
<1> QED
  BY <1>3, <1>4, <1>5 DEF NamesExist, Exists

LEMMA NamesExistStep == Shape /\ NamesExist /\ [Next]_vars => NamesExist'
<1> SUFFICES ASSUME Shape, NamesExist, [Next]_vars PROVE NamesExist'
  OBVIOUS
<1>n. /\ local.sub \in 0..MaxSubs
      /\ \A w \in Workers : worker[w].sub \in 0..MaxSubs
      /\ \A p \in Procs : proc[p].sub \in 0..MaxSubs
      /\ \A s \in 0..MaxSubs : s # 0 => s \in Subs
      /\ \A e \in events : e.sub \in Subs /\ e.sub # 0
  BY SubscriptionAssumption DEF Shape, SubscriptionShape, LocalShape, ClosureShape,
     Worker, Proc, Subs
<1>1. ASSUME StripeKeeps, local'.sub = local.sub, UNCHANGED worker,
             \A p \in Procs : proc'[p].sub \in {proc[p].sub, local.sub, 0}
      PROVE  NamesExist'
  <2>1. /\ \E n \in 0..MaxSubs : {t \in Subs : stripe'[t].status # None} = 1..n
        /\ \A e \in events' : e.sub # 0 => stripe'[e.sub].status # None
        /\ \A t \in Subs : stripe[t].status # None => stripe'[t].status # None
    BY <1>1, NamesKept
  <2>2. local'.sub # 0 => stripe'[local'.sub].status # None
    BY <1>1, <1>n, <2>1 DEF NamesExist, Exists
  <2>3. \A w \in Workers :
          worker'[w].pc = "write" /\ worker'[w].sub # 0 => stripe'[worker'[w].sub].status # None
    BY <1>1, <1>n, <2>1 DEF NamesExist, Exists
  <2>4. \A p \in Procs : proc'[p].sub # 0 => stripe'[proc'[p].sub].status # None
    BY <1>1, <1>n, <2>1 DEF NamesExist, Exists
  <2> QED
    BY <2>1, <2>2, <2>3, <2>4 DEF NamesExist, Exists
<1>2. CASE SubscriptionStep /\ UNCHANGED closureVars
  <2>0. UNCHANGED proc
    BY <1>2 DEF closureVars
  <2>1. ASSUME NEW r \in Requests, RequestStep(r)
        PROVE  NamesExist'
    <3>1. StripeMoves /\ local'.sub = local.sub /\ UNCHANGED worker
      BY <2>1, RequestMoves
    <3> QED
      BY <1>1, <2>0, <3>1, MovesKeep
  <2>2. ASSUME NEW s \in Subs, PeriodEnds(s)
        PROVE  NamesExist'
    <3>1. StripeMoves /\ UNCHANGED <<local, worker>>
      BY <2>2, PeriodMoves
    <3> QED
      BY <1>1, <2>0, <3>1, MovesKeep
  <2>3. ASSUME NEW s \in Subs, NEW plan \in Plans, PayCheckout(s, plan)
        PROVE  NamesExist'
    <3>1. /\ \A t \in Subs : stripe[t].status # None => stripe'[t].status # None
          /\ \A e \in events' : e.sub # 0 => stripe'[e.sub].status # None
      BY <1>n, <2>3, CheckoutMoves DEF NamesExist, Exists
    <3>2. UNCHANGED <<local, worker, proc>>
      BY <1>2, <2>3, CheckoutMoves DEF closureVars
    <3> QED
      BY <1>n, <2>3, <3>1, <3>2, CheckoutMoves DEF NamesExist, Exists
  <2>4. ASSUME NEW w \in Workers, DeliveryStep(w)
        PROVE  NamesExist'
    <3>1. UNCHANGED <<stripe, proc>> /\ events' \subseteq events
      BY <1>2, <2>4 DEF DeliveryStep, Retrieve, SyncSubscription, StopWorker, closureVars
    <3>2. local'.sub = local.sub \/ (local'.sub = worker[w].sub /\ worker[w].pc = "write")
      BY <2>4 DEF DeliveryStep, Retrieve, SyncSubscription, StopWorker
    <3>3. /\ \A v \in Workers \ {w} : worker'[v] = worker[v]
          /\ worker'[w].pc = "write" => \E e \in events : worker'[w].sub = e.sub
      BY <2>4 DEF DeliveryStep, Retrieve, SyncSubscription, StopWorker, Shape,
         LocalShape, IdleWorker
    <3> QED
      BY <3>1, <3>2, <3>3 DEF NamesExist, Exists
  <2> QED
    BY <1>2, <2>1, <2>2, <2>3, <2>4 DEF SubscriptionStep, StripeStep
<1>3. CASE \E r \in Requests : Resume(r)
  BY <1>1, <1>3, ResumeMoves
<1>4. CASE \/ \E r \in Requests, c \in Companies : CompanyRequest(r, c)
           \/ \E r \in Requests : CompanyWrite(r)
           \/ \E c \in Companies : CloseCompany(c)
           \/ Close /\ ~closed
           \/ RowStep
           \/ UNCHANGED vars
  <2>1. UNCHANGED <<stripe, changes, events, local, worker, proc>>
    BY <1>4 DEF CompanyRequest, StartCreateCompany, StartReactivate, CompanyWrite,
       CreateCompany, Reactivate, CloseCompany, Close, RowStep, LeaseGetsOld,
       AcknowledgeReview, vars, subscriptionVars, closureVars
  <2> QED
    BY <1>1, <2>1 DEF StripeKeeps
<1>5. ASSUME NEW p \in Procs, AttemptStep(p)
      PROVE  NamesExist'
  <2>1. UNCHANGED <<local, worker>>
    BY <1>5 DEF AttemptStep, ProcSteps, Claim, CancelRenewal, ConfirmRenewal, Survey,
       Conclude, Fail, Finish, Crash, subscriptionVars
  <2>2. /\ \A q \in Procs \ {p} : proc'[q].sub = proc[q].sub
        /\ proc'[p].sub \in {proc[p].sub, local.sub, 0}
    <3>1. \A q \in Procs \ {p} : proc'[q].sub = proc[q].sub
      BY <1>5, AttemptEffect
    <3>2. CASE CancelRenewal(p) \/ ConfirmRenewal(p) \/ Survey(p)
      <4>1. \E A \in SUBSET Actions, pc \in {"survey", "confirm", "conclude"} :
              Adds(p, pc, A)
        BY <3>2 DEF CancelRenewal, ConfirmRenewal, Survey, NotStopped, Actions, Reviews
      <4> QED
        BY <3>1, <4>1, AddsShape DEF Shape
    <3>3. CASE Claim(p) \/ Conclude(p) \/ Fail(p) \/ Finish(p) \/ Crash(p)
      <4>1. proc'[p].sub \in {local.sub, 0}
        BY <3>3 DEF Claim, Conclude, Fail, Finish, Crash, IdleProc, Shape, ClosureShape
      <4> QED
        BY <3>1, <4>1
    <3> QED
      BY <1>5, <3>2, <3>3 DEF AttemptStep, ProcSteps
  <2>3. CASE CancelRenewal(p)
    <3>1. proc[p].sub \in Subs /\ stripe[proc[p].sub] \in Row
      BY <2>3 DEF CancelRenewal, Shape, ClosureShape, SubscriptionShape
    <3>2. [stripe[proc[p].sub] EXCEPT !.cancel = TRUE] \in Row
      BY <3>1 DEF Row
    <3>3. Renewing(proc[p].sub) =>
            /\ stripe[proc[p].sub].status # None
            /\ [stripe[proc[p].sub] EXCEPT !.cancel = TRUE].status # None
      BY <3>1 DEF Renewing, None, Row
    <3>4. \/ UNCHANGED <<stripe, changes, events>>
          \/ /\ Renewing(proc[p].sub)
             /\ Change(proc[p].sub, [stripe[proc[p].sub] EXCEPT !.cancel = TRUE])
      BY <2>3 DEF CancelRenewal
    <3>5. StripeKeeps
      BY <3>1, <3>2, <3>3, <3>4 DEF StripeKeeps
    <3> QED
      BY <1>1, <2>1, <2>2, <3>5
  <2>4. CASE UNCHANGED <<stripe, changes, events>>
    BY <1>1, <2>1, <2>2, <2>4 DEF StripeKeeps
  <2> QED
    BY <1>5, <2>3, <2>4 DEF AttemptStep, ProcSteps, Claim, ConfirmRenewal, Survey,
       Conclude, Fail, Finish, Crash, subscriptionVars
<1> QED
  BY <1>2, <1>3, <1>4, <1>5, Steps

LEMMA RenewalSeenStep ==
    Shape /\ NamesExist /\ RenewalSeen /\ [Next]_vars => RenewalSeen'
<1> SUFFICES ASSUME Shape, NamesExist, RenewalSeen, [Next]_vars, ~resumed'
             PROVE  RenewalSeen'
  BY DEF RenewalSeen
<1>n. \A p \in Procs : /\ proc[p].sub \in 0..MaxSubs
                       /\ proc[p].sub # 0 => /\ proc[p].sub \in Subs
                                             /\ stripe[proc[p].sub].status # None
  BY DEF Shape, ClosureShape, Proc, Subs, NamesExist, Exists
<1> DEFINE Quiet == \A s \in Subs : stripe[s].status # None /\ ~Renewing(s) => ~Renewing(s)'
<1>q. StripeMoves => Quiet
  <2> SUFFICES ASSUME StripeMoves PROVE Quiet
    OBVIOUS
  <2>1. CASE UNCHANGED <<stripe, changes, events>>
    BY <2>1 DEF Renewing
  <2>2. CASE ~UNCHANGED <<stripe, changes, events>>
    <3>1. PICK s \in Subs, row \in Row :
            /\ Change(s, row) /\ row.status # None /\ stripe[s].status # None
            /\ ~Renewing(s) => row.status # "active" \/ row.cancel
      BY <2>2 DEF StripeMoves
    <3> QED
      BY <3>1, ChangeEffect DEF Shape, Renewing
  <2> QED
    BY <2>1, <2>2
<1>1. ASSUME Quiet, ~resumed,
             \A p \in Procs :
                /\ proc'[p].pc \in {"survey", "conclude"}
                /\ "STRIPE_CANCELLATION" \notin proc'[p].pending
                => \/ proc'[p].sub = 0
                   \/ /\ proc[p].pc \in {"survey", "conclude"}
                      /\ "STRIPE_CANCELLATION" \notin proc[p].pending
                      /\ proc'[p].sub = proc[p].sub
                   \/ proc'[p].sub = proc[p].sub /\ ~Renewing(proc[p].sub)
      PROVE  RenewalSeen'
  BY <1>1, <1>n DEF RenewalSeen, Renewing
<1> HIDE DEF Quiet
<1>2. CASE SubscriptionStep /\ UNCHANGED closureVars
  <2>1. Quiet
    <3>1. ASSUME NEW r \in Requests, RequestStep(r) PROVE Quiet
      BY <3>1, <1>q, RequestMoves
    <3>2. ASSUME NEW w \in Workers, DeliveryStep(w) PROVE Quiet
      BY <3>2 DEF DeliveryStep, Retrieve, SyncSubscription, StopWorker, Quiet, Renewing
    <3>3. ASSUME NEW s \in Subs, PeriodEnds(s) PROVE Quiet
      BY <3>3, <1>q, PeriodMoves
    <3>4. ASSUME NEW s \in Subs, NEW plan \in Plans, PayCheckout(s, plan) PROVE Quiet
      BY <3>4, CheckoutMoves DEF Quiet, Renewing
    <3> QED
      BY <1>2, <3>1, <3>2, <3>3, <3>4 DEF SubscriptionStep, StripeStep
  <2>2. UNCHANGED <<proc, resumed>>
    BY <1>2 DEF closureVars
  <2> QED
    BY <1>1, <2>1, <2>2
<1>3. ASSUME NEW r \in Requests, Resume(r)
      PROVE  RenewalSeen'
  <2>1. ~closed /\ UNCHANGED proc
    BY <1>3, ResumeMoves
  <2>2. \A p \in Procs : proc'[p].pc = "idle"
    BY <2>1 DEF Shape, ClosureShape
  <2> QED
    BY <2>2 DEF RenewalSeen
<1>4. CASE \/ \E r \in Requests, c \in Companies : CompanyRequest(r, c)
           \/ \E r \in Requests : CompanyWrite(r)
           \/ \E c \in Companies : CloseCompany(c)
           \/ Close /\ ~closed
           \/ RowStep
           \/ UNCHANGED vars
  <2>1. UNCHANGED <<stripe, proc, resumed>>
    BY <1>4 DEF CompanyRequest, StartCreateCompany, StartReactivate, CompanyWrite,
       CreateCompany, Reactivate, CloseCompany, Close, RowStep, LeaseGetsOld,
       AcknowledgeReview, vars, subscriptionVars, closureVars
  <2> QED
    BY <1>1, <2>1 DEF Quiet, Renewing
<1>5. ASSUME NEW p \in Procs, AttemptStep(p)
      PROVE  RenewalSeen'
  <2>1. ~resumed
    BY <1>5 DEF AttemptStep, ProcSteps, Claim, CancelRenewal, ConfirmRenewal, Survey,
       Conclude, Fail, Finish, Crash
  <2>2. \A q \in Procs \ {p} : proc'[q] = proc[q]
    BY <1>5, AttemptEffect
  <2>3. CASE CancelRenewal(p)
    <3>1. proc[p].sub \in Subs /\ stripe[proc[p].sub] \in Row
      BY <2>3 DEF CancelRenewal, Shape, ClosureShape, SubscriptionShape
    <3> DEFINE row == [stripe[proc[p].sub] EXCEPT !.cancel = TRUE]
    <3>2. row \in Row /\ row.cancel
      BY <3>1 DEF Row
    <3>3. Renewing(proc[p].sub) => /\ stripe[proc[p].sub].status # None
                                   /\ row.status # None
      BY <3>1 DEF Renewing, None, Row
    <3>4. \/ UNCHANGED <<stripe, changes, events>>
          \/ Renewing(proc[p].sub) /\ Change(proc[p].sub, row)
      BY <2>3 DEF CancelRenewal
    <3> HIDE DEF row
    <3>5. Quiet
      BY <1>q, <3>1, <3>2, <3>3, <3>4 DEF StripeMoves
    <3>6. \/ Adds(p, "survey", {"STRIPE_CANCELLATION"})
          \/ Adds(p, "confirm", {})
      BY <2>3 DEF CancelRenewal
    <3>7. \/ "STRIPE_CANCELLATION" \in proc'[p].pending
          \/ proc'[p].pc = "confirm"
      BY <3>6, AddsShape DEF Shape, Actions
    <3> QED
      BY <1>1, <2>1, <2>2, <3>5, <3>7
  <2>4. CASE ConfirmRenewal(p)
    <3>1. PICK A \in SUBSET Actions :
            /\ Adds(p, "survey", A)
            /\ Renewing(proc[p].sub) => "STRIPE_CANCELLATION" \in A
      BY <2>4 DEF ConfirmRenewal, NotStopped, Actions, Reviews
    <3>2. proc'[p].sub = proc[p].sub /\ proc'[p].pending = proc[p].pending \cup A
      BY <3>1, AddsShape DEF Shape
    <3>3. Quiet
      BY <2>4 DEF ConfirmRenewal, subscriptionVars, Quiet, Renewing
    <3> QED
      BY <1>1, <2>1, <2>2, <3>1, <3>2, <3>3
  <2>5. CASE Survey(p)
    <3>1. PICK A \in SUBSET Actions : Adds(p, "conclude", A)
      BY <2>5 DEF Survey, Actions, Reviews
    <3>2. /\ proc'[p].sub = proc[p].sub
          /\ proc'[p].pending = proc[p].pending \cup A
          /\ proc[p].pc = "survey"
      BY <2>5, <3>1, AddsShape DEF Shape, Survey
    <3>3. Quiet
      BY <2>5 DEF Survey, subscriptionVars, Quiet, Renewing
    <3> QED
      BY <1>1, <2>1, <2>2, <3>2, <3>3
  <2>6. CASE Claim(p) \/ Conclude(p) \/ Fail(p) \/ Finish(p) \/ Crash(p)
    <3>1. proc'[p].pc \in {"survey", "conclude"} => proc'[p].sub = 0
      BY <2>6 DEF Claim, Conclude, Fail, Finish, Crash, IdleProc, Shape, ClosureShape
    <3>2. Quiet
      BY <2>6 DEF Claim, Conclude, Fail, Finish, Crash, subscriptionVars, Quiet, Renewing
    <3> QED
      BY <1>1, <2>1, <2>2, <3>1, <3>2
  <2> QED
    BY <1>5, <2>3, <2>4, <2>5, <2>6 DEF AttemptStep, ProcSteps
<1> QED
  BY <1>2, <1>3, <1>4, <1>5, Steps

LEMMA RenewalStep ==
    ASSUME Shape, RenewalSeen, [Next]_vars, NEW p \in Procs,
           proc[p].pc = "conclude", proc'[p].pc = "free",
           closure.status # "COMPLETED", closure'.status = "COMPLETED", ~resumed
    PROVE  proc[p].sub = 0 \/ ~Renewing(proc[p].sub)
<1> USE DEF Shape
<1>c. closure \in ClosureRow /\ proc[p] \in Proc
  BY DEF ClosureShape
<1>1. PICK q \in Procs : AttemptStep(q)
  <2>1. CASE Close
    BY <2>1 DEF Close
  <2>2. CASE RowStep
    BY <2>2 DEF RowStep, LeaseGetsOld, AcknowledgeReview
  <2> QED
    BY <2>1, <2>2, Steps, ProcedureUntouched
<1>2. q = p
  BY <1>1, AttemptEffect
<1>3. Conclude(p)
  <2>1. CASE Fail(p)
    BY <1>c, <2>1 DEF Fail, ClosureRow
  <2>2. CASE Claim(p) \/ CancelRenewal(p) \/ ConfirmRenewal(p) \/ Survey(p) \/ Finish(p)
    BY <2>2 DEF Claim, CancelRenewal, ConfirmRenewal, Survey, Finish
  <2>3. CASE Crash(p)
    BY <2>3 DEF Crash
  <2> QED
    BY <1>1, <1>2, <2>1, <2>2, <2>3 DEF AttemptStep, ProcSteps
<1>4. closure'.status = StatusOf(proc[p].pending \ proc[p].reviewed)
  BY <1>3, <1>c DEF Conclude, ClosureRow
<1>5. proc[p].pending \ proc[p].reviewed = {}
  BY <1>4 DEF StatusOf
<1>6. "STRIPE_CANCELLATION" \notin proc[p].reviewed
  BY <1>c DEF Proc, Reviews
<1> QED
  BY <1>5, <1>6 DEF RenewalSeen

\* A closure completes only when the subscription it has read is not renewed any
\* more (process), whatever Stripe refuses, replays or is asked meanwhile; only
\* the cancellation of a change of plan can turn the renewal on again.
THEOREM RenewalIsStopped == Spec => RenewalStopped
<1> DEFINE Inv == Shape /\ NamesExist /\ RenewalSeen
<1>1. Init => Inv
  <2> SUFFICES ASSUME Init PROVE Inv
    OBVIOUS
  <2>1. Shape
    BY ShapeInit
  <2>2. RenewalSeen
    BY DEF Init, IdleProc, RenewalSeen
  <2> QED
    BY <2>1, <2>2, NamesInit
<1>2. Inv /\ [Next]_vars => Inv'
  BY ShapeStep, NamesExistStep, RenewalSeenStep
<1>3. Inv /\ [Next]_vars =>
        [\A p \in Procs :
           /\ proc[p].pc = "conclude"
           /\ proc'[p].pc = "free"
           /\ closure.status # "COMPLETED"
           /\ closure'.status = "COMPLETED"
           /\ ~resumed
           => proc[p].sub = 0 \/ ~Renewing(proc[p].sub)]_vars
  BY RenewalStep
<1> QED
  BY <1>1, <1>2, <1>3, PTL DEF Spec, RenewalStopped
-----------------------------------------------------------------------------
(***************************************************************************)
(* The plan that the row says                                              *)
(***************************************************************************)

\* One delivery at a time, and one subscription.
Alone == ~overlapped /\ (MaxSubs > 1 => stripe[2].status = None)

SamePlan(a, b) == (a.status = "active" <=> b.status = "active") /\ a.plan = b.plan

\* The row says what the subscription 1 is.
Mirrors(state) ==
    /\ local.sub = 1
    /\ local.active <=> state.status = "active"
    /\ local.plan = state.plan

\* A state that is about to be written is the one of now, or the event of a
\* later one waits; without events the row says what Stripe says.
Synchronised ==
    Alone =>
        /\ \A v, w \in Workers :
              worker[v].pc = "write" /\ worker[w].pc = "write" => v = w
        /\ \A w \in Workers :
              worker[w].pc = "write" =>
                  /\ worker[w].sub \in Subs
                  /\ worker[w].event <= changes
                  /\ \/ SamePlan(worker[w].seen, stripe[1])
                     \/ \E e \in events : e.n # worker[w].event
        /\ events = {} /\ stripe[1].status # None => Mirrors(stripe[1])

LEMMA SynchronisedInit == Init => Synchronised
<1> SUFFICES ASSUME Init PROVE Synchronised
  OBVIOUS
<1>1. PICK plan \in Plans, active \in BOOLEAN :
        /\ stripe = [s \in Subs |-> IF s = 1 /\ active
                                    THEN [NoSub EXCEPT !.status = "active", !.plan = plan]
                                    ELSE NoSub]
        /\ local = [sub |-> IF active THEN 1 ELSE 0,
                    plan |-> IF active THEN plan ELSE "STARTER",
                    active |-> active, pending |-> None, schedule |-> FALSE]
  BY DEF Init, InitSubscription
<1>2. 1 \in Subs
  BY SubscriptionAssumption DEF Subs
<1>3. \A w \in Workers : worker[w].pc = "idle"
  BY DEF Init, InitSubscription, IdleWorker
<1>4. stripe[1].status # None => Mirrors(stripe[1])
  <2>1. CASE active
    <3>1. stripe[1].status = "active" /\ stripe[1].plan = plan
      BY <1>1, <1>2, <2>1 DEF NoSub
    <3>2. local.sub = 1 /\ local.plan = plan /\ local.active = TRUE
      BY <1>1, <2>1
    <3> QED
      BY <3>1, <3>2 DEF Mirrors
  <2>2. CASE ~active
    BY <1>1, <1>2, <2>2 DEF NoSub
  <2> QED
    BY <2>1, <2>2
<1> QED
  BY <1>3, <1>4 DEF Synchronised

\* Whoever names a subscription names the one there is.
LEMMA OnlyOne ==
    ASSUME NamesExist, Alone, NEW s \in Subs, stripe[s].status # None
    PROVE  s = 1
<1>1. PICK n \in 0..MaxSubs : {t \in Subs : stripe[t].status # None} = 1..n
  BY DEF NamesExist
<1>2. s \in 1..n
  BY <1>1
<1>3. 2 \in 1..n => 2 \in Subs /\ MaxSubs > 1
  BY <1>1, SubscriptionAssumption DEF Subs
<1>4. 2 \notin 1..n
  BY <1>1, <1>3 DEF Alone
<1> QED
  BY <1>1, <1>2, <1>4, SubscriptionAssumption

\* A step that is not of a delivery leaves them alone, and what the row says
\* of the plan.
LEMMA OthersLeave ==
    ASSUME Shape, NamesExist, [Next]_vars, ~\E w \in Workers : DeliveryStep(w)
    PROVE  /\ StripeKeeps \/ \E s \in Subs, plan \in Plans : PayCheckout(s, plan)
           /\ UNCHANGED <<worker, overlapped>>
           /\ local'.sub = local.sub
           /\ local'.active = local.active
           /\ local'.plan = local.plan
<1>l. local \in [sub : 0..MaxSubs, plan : Plans, active : BOOLEAN,
                 pending : {None, "FREE", "STARTER"}, schedule : BOOLEAN]
  BY DEF Shape, SubscriptionShape
<1>1. ASSUME NEW r \in Requests, RequestStep(r)
      PROVE  /\ StripeKeeps
             /\ UNCHANGED <<worker, overlapped>>
             /\ local'.sub = local.sub
             /\ local'.active = local.active
             /\ local'.plan = local.plan
  <2>1. StripeKeeps
    BY <1>1, RequestMoves, MovesKeep
  <2>2. UNCHANGED <<worker, overlapped>>
    BY <1>1 DEF RequestStep, UserBegins, CreateCheckoutSession, StartChange, StartFree,
       StartCancelPending, UpgradeAtStripe, ScheduleAtStripe, WriteSchedule,
       ScheduleFreePlan, WriteFree, CancelPendingPlanChange
  <2>3. CASE WriteSchedule(r) \/ WriteFree(r) \/ CancelPendingPlanChange(r)
    BY <1>l, <2>1, <2>2, <2>3 DEF WriteSchedule, WriteFree, CancelPendingPlanChange
  <2>4. CASE ~(WriteSchedule(r) \/ WriteFree(r) \/ CancelPendingPlanChange(r))
    <3>1. UNCHANGED local
      BY <1>1, <2>4 DEF RequestStep, UserBegins, CreateCheckoutSession, StartChange,
         StartFree, StartCancelPending, UpgradeAtStripe, ScheduleAtStripe,
         ScheduleFreePlan
    <3> QED
      BY <2>1, <2>2, <3>1
  <2> QED
    BY <2>3, <2>4
<1>2. ASSUME NEW r \in Requests, Resume(r)
      PROVE  StripeKeeps /\ UNCHANGED <<worker, overlapped, local>>
  <2>1. StripeKeeps
    BY <1>2, ResumeMoves
  <2> QED
    BY <1>2, <2>1 DEF Resume, ResumeAtStripe
<1>3. ASSUME NEW s \in Subs, StripeStep(s)
      PROVE  /\ StripeKeeps \/ \E plan \in Plans : PayCheckout(s, plan)
             /\ UNCHANGED <<worker, overlapped, local>>
  BY <1>3, PeriodMoves, MovesKeep DEF StripeStep, PeriodEnds, PayCheckout
<1>4. CASE \/ \E r \in Requests, c \in Companies : CompanyRequest(r, c)
           \/ \E r \in Requests : CompanyWrite(r)
           \/ \E c \in Companies : CloseCompany(c)
           \/ Close /\ ~closed
           \/ RowStep
           \/ UNCHANGED vars
  <2>1. UNCHANGED <<stripe, changes, events, local, worker, overlapped>>
    BY <1>4 DEF CompanyRequest, StartCreateCompany, StartReactivate, CompanyWrite,
       CreateCompany, Reactivate, CloseCompany, Close, RowStep, LeaseGetsOld,
       AcknowledgeReview, vars, subscriptionVars, closureVars
  <2> QED
    BY <2>1 DEF StripeKeeps
<1>5. ASSUME NEW p \in Procs, AttemptStep(p)
      PROVE  StripeKeeps /\ UNCHANGED <<worker, overlapped, local>>
  <2>1. UNCHANGED <<worker, overlapped, local>>
    BY <1>5 DEF AttemptStep, ProcSteps, Claim, CancelRenewal, ConfirmRenewal, Survey,
       Conclude, Fail, Finish, Crash, subscriptionVars
  <2>2. CASE CancelRenewal(p)
    <3>1. proc[p].sub \in Subs /\ stripe[proc[p].sub] \in Row
      BY <2>2 DEF CancelRenewal, Shape, ClosureShape, SubscriptionShape
    <3> DEFINE row == [stripe[proc[p].sub] EXCEPT !.cancel = TRUE]
    <3>2. row \in Row
      BY <3>1 DEF Row
    <3>3. Renewing(proc[p].sub) =>
            stripe[proc[p].sub].status # None /\ row.status # None
      BY <3>1 DEF Renewing, None, Row
    <3>4. \/ UNCHANGED <<stripe, changes, events>>
          \/ Renewing(proc[p].sub) /\ Change(proc[p].sub, row)
      BY <2>2 DEF CancelRenewal
    <3> HIDE DEF row
    <3> QED
      BY <2>1, <3>1, <3>2, <3>3, <3>4 DEF StripeKeeps
  <2>3. CASE UNCHANGED <<stripe, changes, events>>
    BY <2>1, <2>3 DEF StripeKeeps
  <2> QED
    BY <1>5, <2>2, <2>3 DEF AttemptStep, ProcSteps, Claim, ConfirmRenewal, Survey,
       Conclude, Fail, Finish, Crash, subscriptionVars
<1> QED
  BY <1>1, <1>2, <1>3, <1>4, <1>5, Steps DEF SubscriptionStep

LEMMA AloneBefore ==
    ASSUME Shape, NamesExist, [Next]_vars, Alone'
    PROVE  Alone
<1>2. MaxSubs > 1 => 2 \in Subs
  BY SubscriptionAssumption DEF Subs
<1>1. CASE \E w \in Workers : DeliveryStep(w)
  <2>1. UNCHANGED stripe
    BY <1>1 DEF DeliveryStep, Retrieve, SyncSubscription, StopWorker
  <2>2. overlapped => overlapped'
    BY <1>1 DEF DeliveryStep, Retrieve, SyncSubscription, StopWorker
  <2> QED
    BY <2>1, <2>2 DEF Alone
<1>3. CASE ~\E w \in Workers : DeliveryStep(w)
  <2>1. /\ StripeKeeps \/ \E s \in Subs, plan \in Plans : PayCheckout(s, plan)
        /\ UNCHANGED overlapped
    BY <1>3, OthersLeave
  <2>2. \A t \in Subs : stripe[t].status # None => stripe'[t].status # None
    <3>1. CASE StripeKeeps
      BY <3>1, NamesKept
    <3>2. ASSUME NEW s \in Subs, NEW plan \in Plans, PayCheckout(s, plan)
          PROVE  \A t \in Subs : stripe[t].status # None => stripe'[t].status # None
      BY <3>2, CheckoutMoves
    <3> QED
      BY <2>1, <3>1, <3>2
  <2> QED
    BY <1>2, <2>1, <2>2 DEF Alone
<1> QED
  BY <1>1, <1>3

LEMMA SynchronisedStep ==
    Shape /\ NamesExist /\ Synchronised /\ [Next]_vars => Synchronised'
<1> SUFFICES ASSUME Shape, NamesExist, Synchronised, [Next]_vars, Alone'
             PROVE  Synchronised'
  BY DEF Synchronised
<1>0. Alone
  BY AloneBefore
<1>i. /\ \A v, w \in Workers :
            worker[v].pc = "write" /\ worker[w].pc = "write" => v = w
      /\ \A w \in Workers :
            worker[w].pc = "write" =>
                /\ worker[w].sub \in Subs
                /\ worker[w].event <= changes
                /\ \/ SamePlan(worker[w].seen, stripe[1])
                   \/ \E e \in events : e.n # worker[w].event
      /\ events = {} /\ stripe[1].status # None => Mirrors(stripe[1])
  BY <1>0 DEF Synchronised
<1>t. /\ changes \in Nat
      /\ \A w \in Workers : worker[w] \in Worker
      /\ \A e \in events : e.n \in 1..changes /\ e.sub \in Subs
  BY DEF Shape, SubscriptionShape, LocalShape
<1>1. CASE ~\E w \in Workers : DeliveryStep(w)
  <2>1. /\ StripeKeeps \/ \E s \in Subs, plan \in Plans : PayCheckout(s, plan)
        /\ UNCHANGED worker
        /\ local'.sub = local.sub
        /\ local'.active = local.active
        /\ local'.plan = local.plan
    BY <1>1, OthersLeave
  <2>2. CASE UNCHANGED <<stripe, changes, events>>
    BY <1>i, <2>1, <2>2 DEF Synchronised, Mirrors, SamePlan
  <2>3. CASE \E s, row : Change(s, row)
    <3>1. PICK s, row : Change(s, row)
      BY <2>3
    <3>2. /\ changes' = changes + 1
          /\ events' = events \cup {[n |-> changes + 1, sub |-> s, row |-> row]}
      BY <3>1 DEF Change
    <3> DEFINE last == [n |-> changes + 1, sub |-> s, row |-> row]
    <3>3. last \in events' /\ last.n = changes + 1
      BY <3>2
    <3> HIDE DEF last
    <3>4. \A w \in Workers :
            worker[w].pc = "write" =>
                /\ worker[w].event <= changes'
                /\ \E e \in events' : e.n # worker[w].event
      BY <1>i, <1>t, <3>2, <3>3 DEF Worker
    <3> QED
      BY <1>i, <2>1, <3>3, <3>4 DEF Synchronised
  <2> QED
    BY <2>1, <2>2, <2>3 DEF StripeKeeps, PayCheckout
<1>2. ASSUME NEW w \in Workers, NEW e \in events, Retrieve(w, e)
      PROVE  Synchronised'
  <2>1. /\ UNCHANGED <<stripe, changes, events, local>>
        /\ worker' = [worker EXCEPT ![w] = [pc |-> "write", event |-> e.n,
                                            sub |-> e.sub, seen |-> stripe[e.sub]]]
        /\ overlapped' = (overlapped \/ \E v \in Workers : worker[v].pc # "idle")
    BY <1>2 DEF Retrieve, Retrieved
  <2>2. \A v \in Workers : worker[v].pc = "idle"
    BY <2>1 DEF Alone
  <2>3. e.sub = 1
    BY <1>0, <1>t, OnlyOne, SubscriptionAssumption DEF NamesExist, Exists, Subs
  <2>4. /\ \A v \in Workers \ {w} : worker'[v].pc = "idle"
        /\ worker'[w].sub = 1 /\ worker'[w].event = e.n
        /\ worker'[w].seen = stripe[1]
    BY <2>1, <2>2, <2>3 DEF Shape, LocalShape
  <2>5. \A v \in Workers : worker'[v].pc = "write" => v = w
    BY <2>4
  <2>6. SamePlan(worker'[w].seen, stripe'[1])
    BY <2>1, <2>4 DEF SamePlan
  <2>7. worker'[w].sub \in Subs /\ worker'[w].event <= changes'
    BY <1>t, <2>1, <2>3, <2>4
  <2>8. events' = {} /\ stripe'[1].status # None => Mirrors(stripe[1])'
    BY <1>i, <2>1 DEF Mirrors
  <2> QED
    BY <2>5, <2>6, <2>7, <2>8 DEF Synchronised, SamePlan
<1>3. ASSUME NEW w \in Workers, SyncSubscription(w)
      PROVE  Synchronised'
  <2>1. /\ worker[w].pc = "write"
        /\ UNCHANGED <<stripe, changes>>
        /\ events' \in {events, {e \in events : e.n # worker[w].event}}
        /\ worker' = [worker EXCEPT ![w] = IdleWorker]
        /\ local'.sub = worker[w].sub
        /\ local'.plan = worker[w].seen.plan
        /\ local'.active = (worker[w].seen.status = "active")
    BY <1>3 DEF SyncSubscription
  <2>2. \A v \in Workers : worker'[v].pc # "write"
    BY <1>i, <2>1 DEF IdleWorker, Shape, LocalShape
  <2>3. worker[w].sub = 1
    BY <1>0, <1>i, <2>1, OnlyOne, SubscriptionAssumption DEF NamesExist, Exists, Subs
  <2>4. events' = {} => SamePlan(worker[w].seen, stripe[1])
    BY <1>i, <2>1
  <2>5. events' = {} => Mirrors(stripe[1])'
    BY <2>1, <2>3, <2>4 DEF Mirrors, SamePlan
  <2> QED
    BY <2>2, <2>5 DEF Synchronised
<1>4. ASSUME NEW w \in Workers, StopWorker(w)
      PROVE  Synchronised'
  <2>1. /\ UNCHANGED <<stripe, changes, events, local>>
        /\ worker' = [worker EXCEPT ![w] = IdleWorker]
    BY <1>4 DEF StopWorker
  <2>2. \A v \in Workers : worker'[v].pc = "write" => worker'[v] = worker[v]
    BY <2>1 DEF IdleWorker, Shape, LocalShape
  <2> QED
    BY <1>i, <2>1, <2>2 DEF Synchronised, Mirrors, SamePlan
<1> QED
  BY <1>1, <1>2, <1>3, <1>4 DEF DeliveryStep

\* When every event was processed, the row says what Stripe says, for any number
\* of requests, deliveries and changes, unless two deliveries overlapped or two
\* sessions were paid (handleWebhook, syncSubscription).
THEOREM PlanIsStripes == Spec => []PlanFollowsStripe
<1>1. Init => Shape /\ NamesExist /\ Synchronised
  BY ShapeInit, NamesInit, SynchronisedInit
<1>2. Shape /\ NamesExist /\ Synchronised /\ [Next]_vars
        => (Shape /\ NamesExist /\ Synchronised)'
  BY ShapeStep, NamesExistStep, SynchronisedStep
<1>3. Synchronised => PlanFollowsStripe
  BY DEF Synchronised, Alone, Mirrors, PlanFollowsStripe
<1> QED
  BY <1>1, <1>2, <1>3, PTL DEF Spec
=============================================================================
