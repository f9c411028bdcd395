-------------------------- MODULE InstalmentSetup --------------------------
(***************************************************************************)
(* From the draft of an invoice to its payment at GoCardless: the invoice  *)
(* is sent (DocumentService), which creates a payment link, its public     *)
(* access, and the plan when it is paid in instalments; the client opens   *)
(* the public page, which gives the flow where the mandate is signed       *)
(* (GoCardlessProvider); the event of the signed mandate creates the       *)
(* schedule (GoCardlessBillingRequestWebhookHandler), whose payments are   *)
(* linked to the instalments then or by the reconciliation.                *)
(*                                                                         *)
(* A link is a billing request of the provider and its row, numbered in    *)
(* the order of creation; the token of the public access is that of the    *)
(* link it was set with.  What the events of the payments do to the        *)
(* invoice is in InstalmentSync and InvoiceSettlement; here they only move *)
(* its status.  The company is active and linked.                          *)
(***************************************************************************)
EXTENDS InstalmentSchedule, FiniteSets

CONSTANTS
    Requests,    \* requests of the company's users
    Clients,     \* requests of the client for the public page
    Workers,     \* deliveries of the events
    MaxLinks,    \* bound on the links
    MaxFlows,    \* bound on the flows of a link
    MaxBusy,     \* bound on the requests and deliveries under way at once
    MaxCrashes,  \* bound on those that stop half-way
    MaxEdits,    \* bound on the editions of the invoice
    Totals,      \* totals of an invoice, in cents
    FirstDates,  \* first due dates
    Direct       \* whether the invoice may be made without an estimate

None == "none"

\* The dates are days that exist; the row of the access is held by nobody, or
\* by a client.
ASSUME SetupAssumption ==
    /\ None \notin Clients
    /\ Totals \subseteq Nat
    /\ FirstDates \subseteq
         {d \in [month : Nat, day : 1..31] : d.day <= DaysIn(d.month)}
    /\ MaxLinks \in Nat \ {0}
    /\ MaxFlows \in Nat \ {0}
    /\ MaxBusy \in Nat
    /\ MaxCrashes \in Nat
    /\ MaxEdits \in Nat
    /\ Direct \subseteq BOOLEAN

Links == 1..MaxLinks

VARIABLES
    invoice,     \* the row: status, payment mode, sent or not, origin
    access,      \* the link of the public access, or 0
    link,        \* the billing requests and their rows
    plan,        \* the instalment plan
    schedules,   \* schedules created at the provider for each link
    day,         \* 0: before the deadline of the authorisation, 1: after it,
                 \* 2: the dates of the plan cannot be met any more
    events,      \* links with an event fulfilled that is not completed
    req, client, worker,
    lock,        \* the client's request that holds the row of the access
    crashes,
    edits,
    edited,      \* history: the draft was edited while it was sent, or later
    overlapped   \* history: two requests were sending at the same time

remote == <<schedules, day, events>>
local == <<req, client, worker, lock, crashes>>
history == <<edits, edited, overlapped>>
vars == <<invoice, access, link, plan, remote, local, history>>

NoPlan == [there |-> FALSE, ref |-> 0, exact |-> FALSE, schedule |-> 0,
           late |-> FALSE, ids |-> FALSE, failed |-> FALSE]

NoLink == [mode |-> "ONE_TIME", provider |-> "none", status |-> "VALID",
           payment |-> FALSE, mailed |-> FALSE, flow |-> 0, made |-> 0,
           live |-> {}, given |-> {}]

IdleReq == [pc |-> "idle", why |-> "send", mode |-> "ONE_TIME", link |-> 0]
IdleClient == [pc |-> "idle", link |-> 0, flow |-> 0]
IdleWorker == [pc |-> "idle", link |-> 0]

Init ==
    /\ \E mode \in {"ONE_TIME", "INSTALMENTS"}, direct \in Direct :
         invoice = [status |-> "DRAFT", mode |-> mode, sent |-> FALSE, direct |-> direct]
    /\ access = 0
    /\ link = [k \in Links |-> NoLink]
    /\ plan = NoPlan
    /\ schedules = [k \in Links |-> 0]
    /\ day = 0
    /\ events = {}
    /\ req = [r \in Requests |-> IdleReq]
    /\ client = [c \in Clients |-> IdleClient]
    /\ worker = [w \in Workers |-> IdleWorker]
    /\ lock = None
    /\ crashes = 0
    /\ edits = 0
    /\ edited = FALSE
    /\ overlapped = FALSE

Made == {k \in Links : link[k].provider # "none"}

Sending == {r \in Requests : req[r].pc \notin {"idle", "update"}}

MayBegin ==
    Cardinality({r \in Requests : req[r].pc # "idle"})
      + Cardinality({c \in Clients : client[c].pc # "idle"})
      + Cardinality({w \in Workers : worker[w].pc # "idle"}) < MaxBusy

-----------------------------------------------------------------------------
(***************************************************************************)
(* updateDraftDocument: the status is checked when the invoice comes from  *)
(* an estimate, before the transaction                                     *)
(***************************************************************************)

StartUpdate(r, mode) ==
    /\ req[r].pc = "idle"
    /\ edits < MaxEdits
    /\ edits' = edits + 1
    /\ invoice.direct \/ invoice.status = "DRAFT"
    /\ req' = [req EXCEPT ![r] = [IdleReq EXCEPT !.pc = "update", !.mode = mode]]
    /\ UNCHANGED <<invoice, access, link, plan, remote, client, worker, lock,
                   crashes, edited, overlapped>>

\* syncInvoiceInstalmentPlan: the mode is written, the plan deleted.
UpdateDraftDocument(r) ==
    /\ req[r].pc = "update"
    /\ invoice' = [invoice EXCEPT !.mode = req[r].mode]
    /\ plan' = NoPlan
    /\ edited' = (edited \/ invoice.sent \/ Sending # {})
    /\ req' = [req EXCEPT ![r] = IdleReq]
    /\ UNCHANGED <<access, link, remote, client, worker, lock, crashes, edits,
                   overlapped>>

-----------------------------------------------------------------------------
(***************************************************************************)
(* sendDocumentToClient, retryInvoicePayment,                              *)
(* resendInstalmentMandateAuthorisation: a link, a mail, the status        *)
(***************************************************************************)

\* The status is read at the start only.  The provider asks for a new
\* mandate when an instalment failed.
MaySend(why) ==
    CASE why = "send"  -> invoice.status = "DRAFT"
      [] why = "retry" -> invoice.status = "REJECTED"
      [] why = "renew" -> invoice.mode = "INSTALMENTS" /\ plan.failed

StartSend(r, why) ==
    /\ req[r].pc = "idle"
    /\ MaySend(why)
    /\ req' = [req EXCEPT ![r] = [IdleReq EXCEPT !.pc = "link", !.why = why]]
    /\ overlapped' = (overlapped \/ Sending # {})
    /\ UNCHANGED <<invoice, access, link, plan, remote, client, worker, lock,
                   crashes, edits, edited>>

\* The billing request, its first flow, and the row of the link.  (Nobody
\* knows of a billing request without a row.)
CreateBillingRequest(r) ==
    LET k == Cardinality(Made) + 1 IN
    /\ req[r].pc = "link"
    /\ k \in Links
    /\ link' = [link EXCEPT ![k] = [NoLink EXCEPT !.mode = invoice.mode,
                                                  !.provider = "pending",
                                                  !.flow = 1, !.made = 1,
                                                  !.live = {1}]]
    /\ req' = [req EXCEPT ![r].pc = "access", ![r].link = k]
    /\ UNCHANGED <<invoice, access, plan, remote, client, worker, lock, crashes, history>>

\* A mutant: the public access that exists is kept.
CurrentAccessKept(k) == IF access = 0 THEN k ELSE access

\* The upsert of the public access.
CurrentAccess(k) == k

\* The access gets the new link and its token; the row may be locked.
SetAccess(r) ==
    LET k == req[r].link IN
    /\ req[r].pc = "access"
    /\ lock = None
    /\ access' = CurrentAccess(k)
    /\ req' = [req EXCEPT ![r].pc = IF link[k].mode = "ONE_TIME" THEN "payment" ELSE "mail"]
    /\ UNCHANGED <<invoice, link, plan, remote, client, worker, lock, crashes, history>>

\* A mutant: the mail does not wait for the payment.
CreateOneTimePaymentLater(r) ==
    /\ req[r].pc = "payment"
    /\ req' = [req EXCEPT ![r].pc = "mail"]
    /\ UNCHANGED <<invoice, access, link, plan, remote, client, worker, lock,
                   crashes, history>>

CreateOneTimePayment(r) ==
    /\ req[r].pc = "payment"
    /\ link' = [link EXCEPT ![req[r].link].payment = TRUE]
    /\ req' = [req EXCEPT ![r].pc = "mail"]
    /\ UNCHANGED <<invoice, access, plan, remote, client, worker, lock, crashes, history>>

MailInvoice(r) ==
    /\ req[r].pc = "mail"
    /\ link' = [link EXCEPT ![req[r].link].mailed = TRUE]
    /\ req' = [req EXCEPT ![r] = IF req[r].why = "renew" THEN IdleReq
                                 ELSE [@ EXCEPT !.pc = "deliver"]]
    /\ UNCHANGED <<invoice, access, plan, remote, client, worker, lock, crashes, history>>

\* What the plan of an invoice is made of: amounts that add up to the total
\* (else the handler refuses to ask for the schedule) and differ by a cent at
\* most, dates that follow each other.
SchedulesAreExact ==
    \A total \in Totals, n \in {2, 3}, first \in FirstDates,
       frequency \in {"WEEKLY", "MONTHLY", "YEARLY"} :
      LET s == BuildInstalmentSchedule(total, n, first, frequency) IN
      /\ TotalOf(total, n) = total
      /\ \A i \in 1..(n - 1) :
           /\ s[i].amountInCents - s[i + 1].amountInCents \in {0, 1}
           /\ Earlier(s[i].dueDate, s[i + 1].dueDate)

\* A mutant: the invoice is delivered without its plan.
NeedsPlanNever == FALSE

NeedsPlan == invoice.mode = "INSTALMENTS"

\* markInvoiceAsDelivered: the plan is made for the link of the public access
\* as it is now; an invoice has one plan, and a second one makes the
\* transaction fail.
MarkInvoiceAsDelivered(r) ==
    /\ req[r].pc = "deliver"
    /\ req[r].why = "send"
    /\ req' = [req EXCEPT ![r] = IdleReq]
    /\ IF NeedsPlan /\ plan.there
       THEN UNCHANGED <<invoice, plan>>
       ELSE /\ invoice' = [invoice EXCEPT !.status = "PENDING", !.sent = TRUE]
            /\ plan' = IF NeedsPlan
                       THEN [NoPlan EXCEPT !.there = TRUE, !.ref = access,
                                              !.exact = SchedulesAreExact]
                       ELSE plan
    /\ UNCHANGED <<access, link, remote, client, worker, lock, crashes, history>>

\* The status is PENDING whatever it has become.
EndRetryInvoicePayment(r) ==
    /\ req[r].pc = "deliver"
    /\ req[r].why = "retry"
    /\ req' = [req EXCEPT ![r] = IdleReq]
    /\ invoice' = [invoice EXCEPT !.status = "PENDING"]
    /\ UNCHANGED <<access, link, plan, remote, client, worker, lock, crashes, history>>

-----------------------------------------------------------------------------
(***************************************************************************)
(* getPublicPaymentByToken and getCurrentInstalmentFlow: one transaction,  *)
(* the row of the access locked; what it read is not read again            *)
(***************************************************************************)

\* The client holds the token of the access, and the flow may be given.
Authorisable(k) ==
    LET initial == k = plan.ref IN
    /\ invoice.sent
    /\ invoice.mode = "INSTALMENTS"
    /\ plan.there
    /\ invoice.status # "PAID"
    /\ initial => ~plan.late /\ plan.schedule = 0 /\ day = 0
    /\ ~initial => plan.failed
    /\ link[k].status = "VALID"

OpenPaymentPage(c) ==
    /\ client[c].pc = "idle"
    /\ lock = None
    /\ access # 0
    /\ link[access].mailed
    /\ Authorisable(access)
    /\ lock' = c
    /\ client' = [client EXCEPT ![c] = [pc |-> "find", link |-> access,
                                        flow |-> link[access].flow]]
    /\ UNCHANGED <<invoice, access, link, plan, remote, req, worker, crashes, history>>

Leave(c) ==
    /\ client' = [client EXCEPT ![c] = IdleClient]
    /\ lock' = None

\* The flow that is known serves until it expires.
FindBillingRequest(c) ==
    LET k == client[c].link IN
    /\ client[c].pc = "find"
    /\ IF link[k].provider # "pending"
       THEN Leave(c) /\ UNCHANGED link
       ELSE IF link[k].flow \in link[k].live
       THEN /\ link' = [link EXCEPT ![k].given = @ \cup {link[k].flow}]
            /\ Leave(c)
       ELSE /\ client' = [client EXCEPT ![c].pc = "flow"]
            /\ UNCHANGED <<link, lock>>
    /\ UNCHANGED <<invoice, access, plan, remote, req, worker, crashes, history>>

\* A mutant: every call creates a flow.
FlowForEachCall(c) == link[client[c].link].made + 1

\* The flow for the idempotency key (link, flow that expired).
FlowFor(c) == client[c].flow + 1

\* A flow that was created by a request that stopped is returned again; it is
\* of no use if it expired since.
CreateFlow(c) ==
    LET k == client[c].link
        f == FlowFor(c)
    IN  /\ client[c].pc = "flow"
        /\ f <= MaxFlows
        /\ link' = IF link[k].provider = "pending" /\ f > link[k].made
                   THEN [link EXCEPT ![k].made = f, ![k].live = @ \cup {f}]
                   ELSE link
        /\ IF f \in link'[k].live
           THEN /\ client' = [client EXCEPT ![c].pc = "save", ![c].flow = f]
                /\ UNCHANGED lock
           ELSE Leave(c)
        /\ UNCHANGED <<invoice, access, plan, remote, req, worker, crashes, history>>

SaveFlow(c) ==
    LET k == client[c].link IN
    /\ client[c].pc = "save"
    /\ link' = IF link[k].provider = "pending"
               THEN [link EXCEPT ![k].flow = client[c].flow,
                                 ![k].given = @ \cup {client[c].flow}]
               ELSE link
    /\ Leave(c)
    /\ UNCHANGED <<invoice, access, plan, remote, req, worker, crashes, history>>

-----------------------------------------------------------------------------
(***************************************************************************)
(* The billing request event                                               *)
(***************************************************************************)

PlanOf(k) == plan.there /\ plan.ref = k

Done(w, k) ==
    /\ worker' = [worker EXCEPT ![w] = IdleWorker]
    /\ events' = events \ {k}

\* A mutant: an event is completed when it is received.
ReceivedIsDone(k) == events \ {k}

\* A claim does not complete the event: see WebhookClaims.
Received(k) == events

\* Without a plan only the status of the link is synchronised; a status that
\* ends the link stays.
ReceiveFulfilled(w, k) ==
    /\ worker[w].pc = "idle"
    /\ k \in events
    /\ IF PlanOf(k) /\ plan.schedule = 0 /\ ~plan.late
       THEN /\ worker' = [worker EXCEPT ![w] = [pc |-> "mandate", link |-> k]]
            /\ events' = Received(k)
            /\ UNCHANGED link
       ELSE /\ Done(w, k)
            /\ link' = IF ~PlanOf(k) /\ link[k].status = "VALID"
                       THEN [link EXCEPT ![k].status = "COMPLETED"] ELSE link
    /\ UNCHANGED <<invoice, access, plan, schedules, day, req, client, lock,
                   crashes, history>>

\* The amounts are checked, and the mandate tells the first date a payment
\* can have.
FindMandate(w) ==
    /\ worker[w].pc = "mandate"
    /\ worker' = [worker EXCEPT ![w] =
         IF ~plan.exact THEN IdleWorker
         ELSE [@ EXCEPT !.pc = IF day = 2 THEN "refuseLink" ELSE "schedule"]]
    /\ UNCHANGED <<invoice, access, link, plan, remote, req, client, lock,
                   crashes, history>>

RefuseLink(w) ==
    /\ worker[w].pc = "refuseLink"
    /\ link' = [link EXCEPT ![worker[w].link].status = "FAILED"]
    /\ worker' = [worker EXCEPT ![w].pc = "refusePlan"]
    /\ UNCHANGED <<invoice, access, plan, remote, req, client, lock, crashes, history>>

\* A plan that is gone makes the update fail: the event comes again.
RefusePlan(w) ==
    LET k == worker[w].link IN
    /\ worker[w].pc = "refusePlan"
    /\ IF PlanOf(k)
       THEN plan' = [plan EXCEPT !.late = TRUE] /\ Done(w, k)
       ELSE /\ worker' = [worker EXCEPT ![w] = IdleWorker]
            /\ UNCHANGED <<plan, events>>
    /\ UNCHANGED <<invoice, access, link, schedules, day, req, client, lock,
                   crashes, history>>

\* A mutant: a call without idempotency key.
ScheduledForEachCall(k) == schedules[k] + 1

\* The schedule for the idempotency key of the billing request.
ScheduledFor(k) == 1

CreateInstalmentSchedule(w) ==
    LET k == worker[w].link IN
    /\ worker[w].pc = "schedule"
    /\ schedules' = [schedules EXCEPT ![k] = ScheduledFor(k)]
    /\ worker' = [worker EXCEPT ![w].pc = "save"]
    /\ UNCHANGED <<invoice, access, link, plan, day, events, req, client, lock,
                   crashes, history>>

\* updateCreatedInstalmentPlan fails if the plan is gone: the event stays.
UpdateCreatedInstalmentPlan(w) ==
    LET k == worker[w].link IN
    /\ worker[w].pc = "save"
    /\ IF PlanOf(k)
       THEN /\ plan' = [plan EXCEPT !.schedule = k]
            /\ worker' = [worker EXCEPT ![w].pc = "ids"]
       ELSE /\ worker' = [worker EXCEPT ![w] = IdleWorker]
            /\ UNCHANGED plan
    /\ UNCHANGED <<invoice, access, link, remote, req, client, lock, crashes, history>>

\* The provider may not have generated the payments yet.
LinkPayments(w) ==
    LET k == worker[w].link IN
    /\ worker[w].pc = "ids"
    /\ \/ UNCHANGED plan
       \/ PlanOf(k) /\ plan' = [plan EXCEPT !.ids = TRUE]
    /\ Done(w, k)
    /\ UNCHANGED <<invoice, access, link, schedules, day, req, client, lock,
                   crashes, history>>

\* reconcileClaimedPlan: the payments of the schedule are linked.
ReconcilePaymentPlan ==
    /\ plan.there
    /\ plan.schedule # 0
    /\ ~plan.ids
    /\ plan' = [plan EXCEPT !.ids = TRUE]
    /\ UNCHANGED <<invoice, access, link, remote, local, history>>

-----------------------------------------------------------------------------
(***************************************************************************)
(* The provider, the time, the payments, the crashes                       *)
(***************************************************************************)

\* A billing request ends, and its flows with it (they are forgotten here).
Ended(k, status) ==
    [link EXCEPT ![k].provider = status, ![k].live = {}, ![k].given = {},
                 ![k].flow = 0, ![k].made = 0]

\* The client signs, by a flow that was given and did not expire.
ClientAuthorises(k) ==
    /\ link[k].provider = "pending"
    /\ link[k].given \cap link[k].live # {}
    /\ link' = Ended(k, "fulfilled")
    /\ events' = events \cup {k}
    /\ UNCHANGED <<invoice, access, plan, schedules, day, local, history>>

FlowExpires(k, f) ==
    /\ f \in link[k].live
    /\ link' = [link EXCEPT ![k].live = @ \ {f}]
    /\ UNCHANGED <<invoice, access, plan, remote, local, history>>

BillingRequestCancelled(k) ==
    /\ link[k].provider = "pending"
    /\ link' = Ended(k, "cancelled")
    /\ UNCHANGED <<invoice, access, plan, remote, local, history>>

Tick ==
    /\ plan.there
    /\ day < 2
    /\ day' = day + 1
    /\ UNCHANGED <<invoice, access, link, plan, schedules, events, local, history>>

\* The payments of the schedule, or of the link, move the invoice.
PaymentsMove(s) ==
    /\ invoice.sent
    /\ invoice.status = "PENDING"
    /\ s \in {"REJECTED", "PAID"}
    /\ invoice.mode = "INSTALMENTS" => plan.schedule # 0
    /\ invoice' = [invoice EXCEPT !.status = s]
    /\ plan' = [plan EXCEPT !.failed = @ \/ (plan.there /\ s = "REJECTED")]
    /\ UNCHANGED <<access, link, remote, local, history>>

Crash ==
    /\ crashes < MaxCrashes
    /\ crashes' = crashes + 1
    /\ \/ \E r \in Requests : /\ req[r].pc # "idle"
                              /\ req' = [req EXCEPT ![r] = IdleReq]
                              /\ UNCHANGED <<client, worker, lock>>
       \/ \E c \in Clients : client[c].pc # "idle" /\ Leave(c) /\ UNCHANGED <<req, worker>>
       \/ \E w \in Workers : /\ worker[w].pc # "idle"
                             /\ worker' = [worker EXCEPT ![w] = IdleWorker]
                             /\ UNCHANGED <<req, client, lock>>
    /\ UNCHANGED <<invoice, access, link, plan, remote, history>>

RequestSteps(r) ==
    \/ UpdateDraftDocument(r)
    \/ CreateBillingRequest(r)
    \/ SetAccess(r)
    \/ CreateOneTimePayment(r)
    \/ MailInvoice(r)
    \/ MarkInvoiceAsDelivered(r)
    \/ EndRetryInvoicePayment(r)

ClientSteps(c) == FindBillingRequest(c) \/ CreateFlow(c) \/ SaveFlow(c)

WorkerSteps(w) ==
    \/ FindMandate(w)
    \/ RefuseLink(w)
    \/ RefusePlan(w)
    \/ CreateInstalmentSchedule(w)
    \/ UpdateCreatedInstalmentPlan(w)
    \/ LinkPayments(w)

Begins ==
    /\ MayBegin
    /\ \/ \E r \in Requests, mode \in {"ONE_TIME", "INSTALMENTS"} : StartUpdate(r, mode)
       \/ \E r \in Requests, why \in {"send", "retry", "renew"} : StartSend(r, why)
       \/ \E c \in Clients : OpenPaymentPage(c)
       \/ \E w \in Workers, k \in Links : ReceiveFulfilled(w, k)

Environment ==
    \/ \E k \in Links : \/ ClientAuthorises(k)
                        \/ BillingRequestCancelled(k)
                        \/ \E f \in 1..MaxFlows : FlowExpires(k, f)
    \/ Tick
    \/ \E s \in {"REJECTED", "PAID"} : PaymentsMove(s)
    \/ Crash

Next ==
    \/ Begins
    \/ \E r \in Requests : RequestSteps(r)
    \/ \E c \in Clients : ClientSteps(c)
    \/ \E w \in Workers : WorkerSteps(w)
    \/ ReconcilePaymentPlan
    \/ Environment

Spec == Init /\ [][Next]_vars

-----------------------------------------------------------------------------
(***************************************************************************)
(* Properties                                                              *)
(***************************************************************************)

\* A billing request has at most one flow where it can be signed: clicks at
\* the same time, a flow that expires, a transaction that fails after the
\* provider answered never open a second one.
OneLiveFlow == \A k \in Links : Cardinality(link[k].live) <= 1

\* GoCardless collects an invoice by one schedule at most, whatever is
\* delivered twice, at the same time or after a crash, and however many links
\* the invoice had, unless the plan was deleted by an edition after sending.
OneSchedule ==
    /\ \A k \in Links : schedules[k] <= 1
    /\ ~edited => \A j, k \in Links : schedules[j] > 0 /\ schedules[k] > 0 => j = k

\* The page of a one-time invoice never leads to a billing request whose
\* payments Onetto does not know: the row of the payment is there before the
\* token is mailed, also when an earlier attempt stopped half-way.
OpenableLinkHasPayment ==
    access # 0 /\ link[access].mailed /\ link[access].mode = "ONE_TIME"
        => link[access].payment

\* What was sent to be paid in instalments has its plan, and nothing else has:
\* also with two requests that send, one that edits before, and crashes.
PlanFromDelivery ==
    ~edited => (plan.there <=> invoice.sent /\ invoice.mode = "INSTALMENTS")

\* While the client has still to sign, the token that was mailed last is the
\* one of the access, and the access leads to the billing request the plan
\* waits for: it holds when no second request is sending.
DeliveredIsPayable ==
    /\ plan.there /\ ~edited
    /\ plan.schedule = 0 /\ ~plan.late
    /\ Sending = {} /\ ~overlapped
    => plan.ref = access /\ link[access].mailed

\* The amounts of a plan add up to the total, they differ by a cent at most,
\* and the dates follow each other, whatever the total, the first date and the
\* frequency.
ScheduleIsExact == plan.there => plan.exact

\* The event of a mandate that was signed for the plan is completed only when
\* the plan has its schedule, or the reason why there is none: whatever stops
\* half-way, is delivered again or runs twice, nothing that was signed is
\* forgotten.  The plan may be deleted by an edition meanwhile.
SettledBeforeDone ==
    \A k \in Links :
        /\ link[k].provider = "fulfilled"
        /\ PlanOf(k)
        /\ k \notin events
        /\ ~edited
        => plan.schedule = k \/ plan.late
=============================================================================
