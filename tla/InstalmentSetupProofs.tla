----------------------- MODULE InstalmentSetupProofs -----------------------
(***************************************************************************)
(* Proofs about InstalmentSetup, for any number of requests, clients,      *)
(* deliveries and links and any bounds, and about the calendar and the     *)
(* amounts of InstalmentSchedule, for every total and every first date.    *)
(***************************************************************************)
EXTENDS InstalmentSetup, FiniteSetTheorems, TLAPS

Modes == {"ONE_TIME", "INSTALMENTS"}

Invoice == [status : {"DRAFT", "PENDING", "REJECTED", "PAID"}, mode : Modes,
            sent : BOOLEAN, direct : BOOLEAN]

Link == [mode : Modes, provider : {"none", "pending", "fulfilled", "cancelled"},
         status : {"VALID", "COMPLETED", "FAILED"}, payment : BOOLEAN,
         mailed : BOOLEAN, flow : Nat, made : Nat, live : SUBSET Nat,
         given : SUBSET Nat]

Plan == [there : BOOLEAN, ref : Links \cup {0}, exact : BOOLEAN,
         schedule : Links \cup {0}, late : BOOLEAN, ids : BOOLEAN,
         failed : BOOLEAN]

Req == [pc : {"idle", "update", "link", "access", "payment", "mail", "deliver"},
        why : {"send", "retry", "renew"}, mode : Modes, link : Links \cup {0}]

Client == [pc : {"idle", "find", "flow", "save"}, link : Links \cup {0},
           flow : Nat]

Worker == [pc : {"idle", "mandate", "refuseLink", "refusePlan", "schedule",
                 "save", "ids"},
           link : Links \cup {0}]

TypeOK ==
    /\ invoice \in Invoice
    /\ access \in Links \cup {0}
    /\ link \in [Links -> Link]
    /\ plan \in Plan
    /\ schedules \in [Links -> 0..1]
    /\ day \in 0..2
    /\ events \subseteq Links
    /\ req \in [Requests -> Req]
    /\ client \in [Clients -> Client]
    /\ worker \in [Workers -> Worker]
    /\ lock \in Clients \cup {None}
    /\ edited \in BOOLEAN
    /\ overlapped \in BOOLEAN

\* The links are numbered in the order of creation, and those in use exist.
LinksExist ==
    /\ \E n \in Nat : Made = 1..n
    /\ access \in Made \cup {0}
    /\ \A r \in Requests :
         req[r].pc \in {"access", "payment", "mail", "deliver"} =>
             req[r].link \in Made
    /\ \A c \in Clients : client[c].pc # "idle" => client[c].link \in Made
    /\ \A w \in Workers : worker[w].pc # "idle" => worker[w].link \in Links

\* The client's request that is under way holds the row of the access.
LockHeld == \A c \in Clients : client[c].pc # "idle" => lock = c

\* Only the last flow that was made may be live, and the row of the link
\* knows it or an earlier one.  A request that makes a flow has seen that the
\* one of the row expired.
FlowsInOrder ==
    /\ \A k \in Links : /\ link[k].live \subseteq {link[k].made}
                        /\ link[k].flow <= link[k].made
    /\ \A c \in Clients :
         LET l == link[client[c].link] IN
         /\ client[c].pc # "idle"
         /\ l.provider = "pending"
         => /\ client[c].pc \in {"find", "flow"} => client[c].flow = l.flow
            /\ client[c].pc = "flow" => l.flow \notin l.live
            /\ client[c].pc = "save" => client[c].flow <= l.made

\* A link is mailed after the row of its payment is written.
PaymentBeforeMail ==
    /\ \A k \in Links :
         link[k].mailed /\ link[k].mode = "ONE_TIME" => link[k].payment
    /\ \A r \in Requests :
         req[r].pc = "mail" /\ link[req[r].link].mode = "ONE_TIME" =>
             link[req[r].link].payment

\* Before there is a plan nobody was given a flow, and nothing was signed.
NothingBeforePlan ==
    ~edited /\ ~plan.there =>
        /\ \A k \in Links : /\ link[k].given = {}
                            /\ link[k].provider # "fulfilled"
                            /\ schedules[k] = 0
        /\ \A c \in Clients : client[c].pc = "idle"
        /\ \A w \in Workers : worker[w].pc = "idle"

\* Whatever follows from a plan is about its link.
PlanIsFollowed ==
    /\ plan.schedule # 0 => plan.schedule = plan.ref
    /\ ~edited =>
         /\ \A k \in Links : schedules[k] > 0 => PlanOf(k)
         /\ \A w \in Workers :
              worker[w].pc # "idle" => PlanOf(worker[w].link)
         /\ \A w \in Workers :
              worker[w].pc = "ids" => plan.schedule = worker[w].link

\* The invoice is a draft until it is sent, and a plan without schedule is
\* still to be signed.
StatusFollows ==
    /\ invoice.sent <=> invoice.status # "DRAFT"
    /\ plan.failed => plan.there
    /\ ~edited /\ plan.there /\ plan.schedule = 0 =>
         invoice.status = "PENDING" /\ ~plan.failed

\* A first sending meets no plan; the later ones follow a schedule.
SendersKnow ==
    \A r \in Sending :
        /\ req[r].why = "retry" => invoice.sent
        /\ req[r].why # "send" /\ ~edited =>
             /\ invoice.sent
             /\ plan.there => plan.schedule # 0
        /\ req[r].why = "send" /\ ~edited /\ ~overlapped => ~invoice.sent

\* With one request that sends at a time, the access is that of its link, and
\* the plan that still waits for the client that of the access.
OneSender ==
    ~overlapped =>
        /\ \A q, r \in Sending : q = r
        /\ \A r \in Sending :
             /\ req[r].pc \in {"payment", "mail", "deliver"} =>
                  access = req[r].link
             /\ req[r].pc = "deliver" => link[access].mailed
        /\ ~edited /\ plan.there /\ plan.schedule = 0 /\ ~plan.late =>
             access # 0 /\ plan.ref = access /\ link[access].mailed

IInv ==
    /\ TypeOK
    /\ LinksExist
    /\ LockHeld
    /\ FlowsInOrder
    /\ PaymentBeforeMail
    /\ PlanFromDelivery
    /\ NothingBeforePlan
    /\ PlanIsFollowed
    /\ SettledBeforeDone
    /\ StatusFollows
    /\ SendersKnow
    /\ OneSender

-----------------------------------------------------------------------------
(***************************************************************************)
(* The calendar and the amounts                                            *)
(***************************************************************************)

\* A day that exists, of a year that is not a leap year.
Dates == {d \in [month : Nat, day : 1..31] : d.day <= DaysIn(d.month)}

\* A month has from 28 to 31 days.
LEMMA DaysInRange ==
    ASSUME NEW month \in Nat
    PROVE  DaysIn(month) \in 28..31
BY DEF DaysIn

LEMMA Division ==
    ASSUME NEW total \in Nat, NEW n \in {2, 3}
    PROVE  /\ total \div n \in Nat
           /\ total % n \in 0..(n - 1)
           /\ total = n * (total \div n) + (total % n)
OBVIOUS

\* The amounts that buildInstalmentSchedule writes add up to the total of the
\* invoice, so that the handler of the mandate never refuses its own plan.
THEOREM AmountsAddUp ==
    ASSUME NEW total \in Nat, NEW n \in {2, 3}
    PROVE  TotalOf(total, n) = total
<1>1. CASE n = 2
  BY <1>1, Division DEF TotalOf, Amount
<1>2. CASE n = 3
  BY <1>2, Division DEF TotalOf, Amount
<1> QED
  BY <1>1, <1>2

\* An instalment is at most a cent lower than the one before.
THEOREM AmountsDescend ==
    ASSUME NEW total \in Nat, NEW n \in {2, 3}, NEW i \in 1..(n - 1)
    PROVE  Amount(total, n, i) - Amount(total, n, i + 1) \in {0, 1}
BY Division DEF Amount

\* A later month has the same day or, in a shorter month, its last one.
LEMMA MonthsFollow ==
    ASSUME NEW d \in Dates, NEW j \in Nat, NEW k \in Nat, j < k
    PROVE  /\ AddCalendarMonths(d, k) \in Dates
           /\ Earlier(AddCalendarMonths(d, j), AddCalendarMonths(d, k))
<1>1. /\ d \in [month : Nat, day : 1..31]
      /\ d.month + k \in Nat
  BY DEF Dates
<1>2. DaysIn(d.month + k) \in 28..31
  BY <1>1, DaysInRange
<1>3. AddCalendarMonths(d, k) \in Dates
  BY <1>1, <1>2 DEF Dates, AddCalendarMonths
<1>4. Earlier(AddCalendarMonths(d, j), AddCalendarMonths(d, k))
  BY <1>1 DEF AddCalendarMonths, Earlier
<1> QED
  BY <1>3, <1>4

\* Up to three weeks later: in the month, or in the next one.
LEMMA WeeksFollow ==
    ASSUME NEW d \in Dates, NEW j \in 0..2, NEW k \in 0..2, j < k
    PROVE  /\ AddCalendarWeeks(d, k) \in Dates
           /\ Earlier(AddCalendarWeeks(d, j), AddCalendarWeeks(d, k))
<1>1. /\ d \in [month : Nat, day : 1..31]
      /\ d.day <= DaysIn(d.month)
      /\ DaysIn(d.month) \in 28..31
      /\ DaysIn(d.month + 1) \in 28..31
  BY DaysInRange DEF Dates
<1> DEFINE days == DaysIn(d.month)
           next == DaysIn(d.month + 1)
<1>2. AddCalendarWeeks(d, k) =
        IF d.day + 7 * k <= days
        THEN [month |-> d.month, day |-> d.day + 7 * k]
        ELSE [month |-> d.month + 1, day |-> d.day + 7 * k - days]
  BY <1>1 DEF AddCalendarWeeks
<1>3. AddCalendarWeeks(d, j) =
        IF d.day + 7 * j <= days
        THEN [month |-> d.month, day |-> d.day + 7 * j]
        ELSE [month |-> d.month + 1, day |-> d.day + 7 * j - days]
  BY <1>1 DEF AddCalendarWeeks
<1>4. AddCalendarWeeks(d, k) \in Dates
  BY <1>1, <1>2 DEF Dates
<1>5. Earlier(AddCalendarWeeks(d, j), AddCalendarWeeks(d, k))
  BY <1>1, <1>2, <1>3 DEF Earlier
<1> QED
  BY <1>4, <1>5

\* The dates of a plan exist and follow each other, whatever the frequency.
THEOREM DatesFollow ==
    ASSUME NEW first \in Dates, NEW f \in {"WEEKLY", "MONTHLY", "YEARLY"},
           NEW i \in 1..2
    PROVE  /\ AddInstalmentInterval(first, i, f) \in Dates
           /\ Earlier(AddInstalmentInterval(first, i - 1, f),
                      AddInstalmentInterval(first, i, f))
<1>1. i - 1 \in 0..2 /\ i \in 0..2 /\ i - 1 < i
  OBVIOUS
<1>2. CASE f = "WEEKLY"
  BY <1>1, <1>2, WeeksFollow DEF AddInstalmentInterval
<1>3. CASE f = "MONTHLY"
  BY <1>1, <1>3, MonthsFollow DEF AddInstalmentInterval
<1>4. CASE f = "YEARLY"
  <2>1. 12 * (i - 1) \in Nat /\ 12 * i \in Nat /\ 12 * (i - 1) < 12 * i
    BY <1>1
  <2> QED
    BY <1>4, <2>1, MonthsFollow DEF AddInstalmentInterval
<1> QED
  BY <1>2, <1>3, <1>4
\* What a plan is made of adds up and follows, for every total and first date.
LEMMA AlwaysExact == SchedulesAreExact = TRUE
<1> SUFFICES ASSUME NEW total \in Totals, NEW n \in {2, 3},
                    NEW first \in FirstDates,
                    NEW frequency \in {"WEEKLY", "MONTHLY", "YEARLY"},
                    NEW i \in 1..(n - 1)
             PROVE  LET s == BuildInstalmentSchedule(total, n, first, frequency)
                    IN  /\ TotalOf(total, n) = total
                        /\ s[i].amountInCents - s[i + 1].amountInCents \in {0, 1}
                        /\ Earlier(s[i].dueDate, s[i + 1].dueDate)
  BY SMT DEF SchedulesAreExact
<1> DEFINE s == BuildInstalmentSchedule(total, n, first, frequency)
<1>1. total \in Nat /\ first \in Dates /\ i \in 1..2 /\ i \in 1..n /\ i + 1 \in 1..n
  BY SetupAssumption DEF Dates
<1>2. /\ s[i].amountInCents = Amount(total, n, i)
      /\ s[i + 1].amountInCents = Amount(total, n, i + 1)
      /\ s[i].dueDate = AddInstalmentInterval(first, i - 1, frequency)
      /\ s[i + 1].dueDate = AddInstalmentInterval(first, i, frequency)
  BY <1>1 DEF BuildInstalmentSchedule
<1>3. TotalOf(total, n) = total
  BY <1>1, AmountsAddUp
<1>4. s[i].amountInCents - s[i + 1].amountInCents \in {0, 1}
  BY <1>1, <1>2, AmountsDescend
<1>5. Earlier(s[i].dueDate, s[i + 1].dueDate)
  BY <1>1, <1>2, DatesFollow
<1> QED
  BY <1>3, <1>4, <1>5

-----------------------------------------------------------------------------
(***************************************************************************)
(* Types                                                                   *)
(***************************************************************************)

LEMMA IdleFields ==
    /\ NoLink \in Link /\ NoPlan \in Plan /\ IdleReq \in Req
    /\ IdleClient \in Client /\ IdleWorker \in Worker
BY DEF Modes, Link, Plan, Req, Client, Worker, NoLink, NoPlan, IdleReq,
   IdleClient, IdleWorker

LEMMA TypeInit == Init => TypeOK
<1> SUFFICES ASSUME Init
             PROVE  TypeOK
  OBVIOUS
<1>1. NoLink \in Link /\ NoPlan \in Plan /\ IdleReq \in Req
      /\ IdleClient \in Client /\ IdleWorker \in Worker
  BY IdleFields
<1>2. invoice \in Invoice
  BY SetupAssumption DEF Init, Invoice, Modes
<1>3. /\ access \in Links \cup {0} /\ day \in 0..2 /\ events \subseteq Links
  BY DEF Init
<1>6. lock \in Clients \cup {None}
  BY DEF Init
<1>7. edited \in BOOLEAN /\ overlapped \in BOOLEAN
  BY DEF Init
<1>4. schedules \in [Links -> 0..1]
  BY DEF Init
<1>5. /\ link \in [Links -> Link] /\ plan \in Plan /\ req \in [Requests -> Req]
      /\ client \in [Clients -> Client] /\ worker \in [Workers -> Worker]
  BY <1>1 DEF Init
<1> QED
  BY <1>2, <1>3, <1>4, <1>5, <1>6, <1>7 DEF TypeOK

\* What the steps write into the row of a link keeps its type.
LEMMA LinkUpdates ==
    ASSUME NEW l \in Link, NEW f \in Nat,
           NEW s \in {"COMPLETED", "FAILED"}, NEW p \in {"fulfilled", "cancelled"}
    PROVE  /\ [l EXCEPT !.payment = TRUE] \in Link
           /\ [l EXCEPT !.mailed = TRUE] \in Link
           /\ [l EXCEPT !.status = s] \in Link
           /\ [l EXCEPT !.given = @ \cup {l.flow}] \in Link
           /\ [l EXCEPT !.made = f, !.live = @ \cup {f}] \in Link
           /\ [l EXCEPT !.flow = f, !.given = @ \cup {f}] \in Link
           /\ [l EXCEPT !.live = @ \ {f}] \in Link
           /\ [l EXCEPT !.provider = p, !.live = {}, !.given = {}, !.flow = 0,
                        !.made = 0] \in Link
BY DEF Link

LEMMA NewLink ==
    ASSUME NEW mode \in Modes
    PROVE  [NoLink EXCEPT !.mode = mode, !.provider = "pending", !.flow = 1,
                          !.made = 1, !.live = {1}] \in Link
<1>1. ASSUME NEW l \in Link, NEW f \in Nat, NEW fs \in SUBSET Nat
      PROVE  [l EXCEPT !.mode = mode, !.provider = "pending", !.flow = f,
                       !.made = f, !.live = fs] \in Link
  BY DEF Link
<1>2. 1 \in Nat /\ {1} \in SUBSET Nat
  OBVIOUS
<1> QED
  BY <1>1, <1>2, IdleFields

LEMMA PutLink ==
    ASSUME link \in [Links -> Link], NEW k, NEW l \in Link,
           link' = [link EXCEPT ![k] = l]
    PROVE  link' \in [Links -> Link]
OBVIOUS

LEMMA PutWorker ==
    ASSUME worker \in [Workers -> Worker], NEW w \in Workers,
           NEW p \in {"idle", "mandate", "refuseLink", "refusePlan", "schedule",
                      "save", "ids"},
           worker' \in {[worker EXCEPT ![w] = IdleWorker],
                        [worker EXCEPT ![w].pc = p]}
    PROVE  worker' \in [Workers -> Worker]
<1>1. worker[w] \in Worker
  OBVIOUS
<1>2. [worker[w] EXCEPT !.pc = p] \in Worker
  BY <1>1 DEF Worker
<1> QED
  BY <1>2, IdleFields

\* The link that a request creates is not in use.
LEMMA FreshLink ==
    ASSUME LinksExist
    PROVE  /\ Cardinality(Made) \in Nat
           /\ Cardinality(Made) + 1 \notin Made
           /\ Made = 1..Cardinality(Made)
<1>1. PICK n \in Nat : Made = 1..n
  BY DEF LinksExist
<1>2. Cardinality(Made) = n
  BY <1>1, FS_Interval
<1> QED
  BY <1>1, <1>2

LEMMA TypeStep ==
    ASSUME TypeOK, LinksExist, [Next]_vars
    PROVE  TypeOK'
<1> USE DEF TypeOK
<1>1. ASSUME NEW r \in Requests, NEW mode \in Modes, StartUpdate(r, mode)
      PROVE  TypeOK'
  BY <1>1 DEF StartUpdate, Req, IdleReq, remote, local, history
<1>2. ASSUME NEW r \in Requests, UpdateDraftDocument(r)
      PROVE  TypeOK'
  BY <1>2 DEF UpdateDraftDocument, Req, IdleReq, Invoice, Plan, NoPlan, Modes,
       remote
<1>3. ASSUME NEW r \in Requests, NEW why \in {"send", "retry", "renew"},
             StartSend(r, why)
      PROVE  TypeOK'
  BY <1>3 DEF StartSend, Req, IdleReq, Modes, remote
<1>4. ASSUME NEW r \in Requests, CreateBillingRequest(r)
      PROVE  TypeOK'
  <2>1. invoice.mode \in Modes
    BY DEF Invoice
  <2>2. link' \in [Links -> Link]
    BY <1>4, <2>1, NewLink, PutLink DEF CreateBillingRequest
  <2>3. req[r] \in Req /\ Cardinality(Made) + 1 \in Links
    BY <1>4 DEF CreateBillingRequest
  <2>4. [req[r] EXCEPT !.pc = "access", !.link = Cardinality(Made) + 1] \in Req
    BY <2>3 DEF Req
  <2>5. req' = [req EXCEPT ![r] =
                  [req[r] EXCEPT !.pc = "access", !.link = Cardinality(Made) + 1]]
    BY <1>4 DEF CreateBillingRequest
  <2>6. req' \in [Requests -> Req]
    BY <2>4, <2>5
  <2> QED
    BY <1>4, <2>2, <2>6 DEF CreateBillingRequest, remote, history
<1>5. ASSUME NEW r \in Requests, SetAccess(r)
      PROVE  TypeOK'
  BY <1>5 DEF SetAccess, CurrentAccess, Req, LinksExist, Made, remote, history
<1>6. ASSUME NEW r \in Requests, CreateOneTimePayment(r)
      PROVE  TypeOK'
  <2>1. link[req[r].link] \in Link
    BY <1>6 DEF CreateOneTimePayment, LinksExist, Made
  <2>2. link' = [link EXCEPT ![req[r].link] =
                   [link[req[r].link] EXCEPT !.payment = TRUE]]
    BY <1>6 DEF CreateOneTimePayment
  <2>3. link' \in [Links -> Link]
    BY <2>1, <2>2, LinkUpdates, PutLink
  <2> QED
    BY <1>6, <2>3 DEF CreateOneTimePayment, Req, remote, history
<1>7. ASSUME NEW r \in Requests, MailInvoice(r)
      PROVE  TypeOK'
  <2>1. link[req[r].link] \in Link
    BY <1>7 DEF MailInvoice, LinksExist, Made
  <2>2. link' = [link EXCEPT ![req[r].link] =
                   [link[req[r].link] EXCEPT !.mailed = TRUE]]
    BY <1>7 DEF MailInvoice
  <2>3. link' \in [Links -> Link]
    BY <2>1, <2>2, LinkUpdates, PutLink
  <2> QED
    BY <1>7, <2>3 DEF MailInvoice, Req, IdleReq, Modes, remote, history
<1>8. ASSUME NEW r \in Requests, MarkInvoiceAsDelivered(r)
      PROVE  TypeOK'
  <2>1. req' \in [Requests -> Req]
    BY <1>8 DEF MarkInvoiceAsDelivered, Req, IdleReq, Modes
  <2>2. invoice' \in Invoice
    BY <1>8 DEF MarkInvoiceAsDelivered, Invoice
  <2>3. plan' \in Plan
    <3>1. [NoPlan EXCEPT !.there = TRUE, !.ref = access, !.exact = TRUE] \in Plan
      BY DEF Plan, NoPlan
    <3>2. plan' \in {plan, [NoPlan EXCEPT !.there = TRUE, !.ref = access,
                                           !.exact = TRUE]}
      BY <1>8, AlwaysExact DEF MarkInvoiceAsDelivered
    <3> QED
      BY <3>1, <3>2
  <2> QED
    BY <1>8, <2>1, <2>2, <2>3 DEF MarkInvoiceAsDelivered, remote, history
<1>9. ASSUME NEW r \in Requests, EndRetryInvoicePayment(r)
      PROVE  TypeOK'
  BY <1>9 DEF EndRetryInvoicePayment, Req, IdleReq, Modes, Invoice, remote,
       history
<1>10. ASSUME NEW c \in Clients, OpenPaymentPage(c)
       PROVE  TypeOK'
  BY <1>10 DEF OpenPaymentPage, Client, Link, remote, history
<1>11. ASSUME NEW c \in Clients, FindBillingRequest(c)
       PROVE  TypeOK'
  <2> DEFINE k == client[c].link
  <2>1. link[k] \in Link
    BY <1>11 DEF FindBillingRequest, LinksExist, Made
  <2>2. \/ link' = link
        \/ link' = [link EXCEPT ![k] =
                      [link[k] EXCEPT !.given = @ \cup {link[k].flow}]]
    BY <1>11 DEF FindBillingRequest
  <2>3. link' \in [Links -> Link]
    BY <2>1, <2>2, LinkUpdates, PutLink
  <2> QED
    BY <1>11, <2>3 DEF FindBillingRequest, Leave, IdleClient, Client, remote,
       history
<1>12. ASSUME NEW c \in Clients, CreateFlow(c)
       PROVE  TypeOK'
  <2> DEFINE k == client[c].link
             f == client[c].flow + 1
  <2>1. link[k] \in Link /\ f \in Nat
    BY <1>12 DEF CreateFlow, LinksExist, Made, Client
  <2>2. \/ link' = link
        \/ link' = [link EXCEPT ![k] =
                      [link[k] EXCEPT !.made = f, !.live = @ \cup {f}]]
    BY <1>12 DEF CreateFlow, FlowFor
  <2>3. link' \in [Links -> Link]
    BY <2>1, <2>2, LinkUpdates, PutLink
  <2> QED
    <3>1. /\ [client[c] EXCEPT !.pc = "save", !.flow = f] \in Client
          /\ IdleClient \in Client
      BY <2>1, IdleFields DEF Client
    <3>2. /\ client' \in [Clients -> Client]
          /\ lock' \in Clients \cup {None}
      BY <1>12, <3>1 DEF CreateFlow, FlowFor, Leave
    <3> QED
      BY <1>12, <2>3, <3>2 DEF CreateFlow, remote, history
<1>13. ASSUME NEW c \in Clients, SaveFlow(c)
       PROVE  TypeOK'
  <2> DEFINE k == client[c].link
             f == client[c].flow
  <2>1. link[k] \in Link /\ f \in Nat
    BY <1>13 DEF SaveFlow, LinksExist, Made, Client
  <2>2. \/ link' = link
        \/ link' = [link EXCEPT ![k] =
                      [link[k] EXCEPT !.flow = f, !.given = @ \cup {f}]]
    BY <1>13 DEF SaveFlow
  <2>3. link' \in [Links -> Link]
    BY <2>1, <2>2, LinkUpdates, PutLink
  <2> QED
    BY <1>13, <2>3 DEF SaveFlow, Leave, IdleClient, Client, remote, history
<1>14. ASSUME NEW w \in Workers, NEW k \in Links, ReceiveFulfilled(w, k)
       PROVE  TypeOK'
  <2>1. \/ link' = link
        \/ link' = [link EXCEPT ![k] = [link[k] EXCEPT !.status = "COMPLETED"]]
    BY <1>14 DEF ReceiveFulfilled
  <2>2. link' \in [Links -> Link]
    BY <2>1, LinkUpdates, PutLink
  <2>3. worker' \in [Workers -> Worker]
    BY <1>14 DEF ReceiveFulfilled, Done, IdleWorker, Worker
  <2> QED
    BY <1>14, <2>2, <2>3 DEF ReceiveFulfilled, Received, Done, history
<1>15. ASSUME NEW w \in Workers, FindMandate(w)
       PROVE  TypeOK'
  BY <1>15 DEF FindMandate, IdleWorker, Worker, remote, history
<1>16. ASSUME NEW w \in Workers, RefuseLink(w)
       PROVE  TypeOK'
  <2> DEFINE k == worker[w].link
  <2>1. link[k] \in Link
    BY <1>16 DEF RefuseLink, LinksExist
  <2>2. link' = [link EXCEPT ![k] = [link[k] EXCEPT !.status = "FAILED"]]
    BY <1>16 DEF RefuseLink
  <2>3. link' \in [Links -> Link]
    BY <2>1, <2>2, LinkUpdates, PutLink
  <2>4. worker' \in [Workers -> Worker]
    BY <1>16, PutWorker DEF RefuseLink
  <2> QED
    BY <1>16, <2>3, <2>4 DEF RefuseLink, remote, history
<1>17. ASSUME NEW w \in Workers, RefusePlan(w)
       PROVE  TypeOK'
  <2>1. worker' \in [Workers -> Worker]
    BY <1>17, PutWorker DEF RefusePlan, Done
  <2>2. plan' \in Plan
    BY <1>17 DEF RefusePlan, Plan
  <2> QED
    BY <1>17, <2>1, <2>2 DEF RefusePlan, Done, history
<1>18. ASSUME NEW w \in Workers, CreateInstalmentSchedule(w)
       PROVE  TypeOK'
  <2>1. worker' \in [Workers -> Worker]
    BY <1>18, PutWorker DEF CreateInstalmentSchedule
  <2>2. schedules' \in [Links -> 0..1]
    <3>1. schedules' = [schedules EXCEPT ![worker[w].link] = 1] /\ 1 \in 0..1
      BY <1>18 DEF CreateInstalmentSchedule, ScheduledFor
    <3> QED
      BY <3>1
  <2> QED
    BY <1>18, <2>1, <2>2 DEF CreateInstalmentSchedule, history
<1>19. ASSUME NEW w \in Workers, UpdateCreatedInstalmentPlan(w)
       PROVE  TypeOK'
  BY <1>19 DEF UpdateCreatedInstalmentPlan, IdleWorker, Worker, Plan, remote,
       history
<1>20. ASSUME NEW w \in Workers, LinkPayments(w)
       PROVE  TypeOK'
  BY <1>20 DEF LinkPayments, Done, IdleWorker, Worker, Plan, history
<1>21. CASE ReconcilePaymentPlan
  BY <1>21 DEF ReconcilePaymentPlan, Plan, remote, local, history
<1>22. ASSUME NEW k \in Links,
              \/ ClientAuthorises(k) \/ BillingRequestCancelled(k)
              \/ \E f \in 1..MaxFlows : FlowExpires(k, f)
       PROVE  TypeOK'
  <2>0. ASSUME NEW status \in {"fulfilled", "cancelled"}
        PROVE  Ended(k, status) \in [Links -> Link]
    <3> DEFINE new == [link[k] EXCEPT !.provider = status, !.live = {},
                                      !.given = {}, !.flow = 0, !.made = 0]
    <3>1. 0 \in Nat /\ link[k] \in Link
      OBVIOUS
    <3>2. new \in Link
      BY <3>1, LinkUpdates
    <3>3. Ended(k, status) = [link EXCEPT ![k] = new]
      BY DEF Ended
    <3> HIDE DEF new
    <3> QED
      BY <3>2, <3>3
  <2>1. CASE ClientAuthorises(k)
    BY <2>0, <2>1 DEF ClientAuthorises, local, history
  <2>2. CASE BillingRequestCancelled(k)
    BY <2>0, <2>2 DEF BillingRequestCancelled, remote, local, history
  <2>3. ASSUME NEW f \in 1..MaxFlows, FlowExpires(k, f)
        PROVE  TypeOK'
    BY <2>3 DEF FlowExpires, Link, remote, local, history
  <2> QED
    BY <1>22, <2>1, <2>2, <2>3
<1>23. CASE Tick
  BY <1>23 DEF Tick, local, history
<1>24. ASSUME NEW s \in {"REJECTED", "PAID"}, PaymentsMove(s)
       PROVE  TypeOK'
  BY <1>24 DEF PaymentsMove, Invoice, Plan, remote, local, history
<1>25. CASE Crash
  <2>1. /\ req' \in [Requests -> Req]
        /\ client' \in [Clients -> Client]
        /\ worker' \in [Workers -> Worker]
        /\ lock' \in Clients \cup {None}
    BY <1>25, IdleFields DEF Crash, Leave
  <2> QED
    BY <1>25, <2>1 DEF Crash, remote, history
<1>26. CASE UNCHANGED vars
  BY <1>26 DEF vars, remote, local, history
<1> QED
  BY <1>1, <1>2, <1>3, <1>4, <1>5, <1>6, <1>7, <1>8, <1>9, <1>10, <1>11,
     <1>12, <1>13, <1>14, <1>15, <1>16, <1>17, <1>18, <1>19, <1>20, <1>21,
     <1>22, <1>23, <1>24, <1>25, <1>26
     DEF Next, Begins, Environment, RequestSteps, ClientSteps, WorkerSteps, Modes
-----------------------------------------------------------------------------
(***************************************************************************)
(* What a step does to a link                                              *)
(***************************************************************************)

\* The link k is made, by a request that sends.
Created(k) ==
    /\ k \notin Made
    /\ link'[k] = [NoLink EXCEPT !.mode = invoice.mode, !.provider = "pending",
                                 !.flow = 1, !.made = 1, !.live = {1}]
    /\ \E r \in Requests : CreateBillingRequest(r)

\* The link k stays as it is, is mailed, paid for, or ends.
Kept(k) ==
    /\ link'[k].mode = link[k].mode
    /\ \/ link'[k].provider = link[k].provider
       \/ /\ link[k].provider = "pending"
          /\ link'[k].provider \in {"fulfilled", "cancelled"}
    /\ link[k].payment => link'[k].payment
    /\ link[k].mailed => link'[k].mailed

LEMMA LinkStep ==
    ASSUME TypeOK, LinksExist, [Next]_vars, NEW k \in Links
    PROVE  Created(k) \/ Kept(k)
<1> USE DEF Kept
<1>1. link[k] \in Link
  BY DEF TypeOK
<1>2. CASE link' = link
  BY <1>2
<1>3. ASSUME NEW r \in Requests, CreateBillingRequest(r)
      PROVE  Created(k) \/ Kept(k)
  <2>1. CASE k = Cardinality(Made) + 1
    BY <1>3, <2>1, FreshLink DEF Created, CreateBillingRequest, TypeOK
  <2>2. CASE k # Cardinality(Made) + 1
    BY <1>3, <2>2 DEF CreateBillingRequest, TypeOK
  <2> QED
    BY <2>1, <2>2
<1>4. ASSUME NEW r \in Requests, CreateOneTimePayment(r) \/ MailInvoice(r)
      PROVE  Kept(k)
  BY <1>1, <1>4 DEF CreateOneTimePayment, MailInvoice, TypeOK, Link
<1>5. ASSUME NEW c \in Clients, FindBillingRequest(c)
      PROVE  Kept(k)
  BY <1>1, <1>5 DEF FindBillingRequest, TypeOK, Link
<1>6. ASSUME NEW c \in Clients, CreateFlow(c)
      PROVE  Kept(k)
  BY <1>1, <1>6 DEF CreateFlow, TypeOK, Link
<1>7. ASSUME NEW c \in Clients, SaveFlow(c)
      PROVE  Kept(k)
  BY <1>1, <1>7 DEF SaveFlow, TypeOK, Link
<1>8. ASSUME NEW w \in Workers, NEW j \in Links, ReceiveFulfilled(w, j)
      PROVE  Kept(k)
  BY <1>1, <1>8 DEF ReceiveFulfilled, TypeOK, Link
<1>9. ASSUME NEW w \in Workers, RefuseLink(w)
      PROVE  Kept(k)
  BY <1>1, <1>9 DEF RefuseLink, TypeOK, Link
<1>10. ASSUME NEW j \in Links, ClientAuthorises(j)
       PROVE  Kept(k)
  BY <1>1, <1>10 DEF ClientAuthorises, Ended, TypeOK, Link
<1>11. ASSUME NEW j \in Links, BillingRequestCancelled(j)
       PROVE  Kept(k)
  BY <1>1, <1>11 DEF BillingRequestCancelled, Ended, TypeOK, Link
<1>12. ASSUME NEW j \in Links, NEW f \in 1..MaxFlows, FlowExpires(j, f)
       PROVE  Kept(k)
  BY <1>1, <1>12 DEF FlowExpires, TypeOK, Link
<1> HIDE DEF Kept
<1> QED
  BY <1>2, <1>3, <1>4, <1>5, <1>6, <1>7, <1>8, <1>9, <1>10, <1>11, <1>12
     DEF Next, Begins, Environment, RequestSteps, ClientSteps, WorkerSteps, vars,
         StartUpdate, UpdateDraftDocument, StartSend, SetAccess,
         MarkInvoiceAsDelivered, EndRetryInvoicePayment, OpenPaymentPage,
         FindMandate, RefusePlan, CreateInstalmentSchedule,
         UpdateCreatedInstalmentPlan, LinkPayments, ReconcilePaymentPlan, Tick,
         PaymentsMove, Crash
-----------------------------------------------------------------------------
(***************************************************************************)
(* What a step does to a request, a client's request and a delivery        *)
(***************************************************************************)

Same(r) == req'[r].link = req[r].link /\ req'[r].why = req[r].why

\* The step of the request r, if it goes on.
ReqMove(r) ==
    \/ req'[r] = req[r]
    \/ req'[r].pc \in {"idle", "update"}
    \/ /\ req'[r].pc = "link"
       /\ StartSend(r, req'[r].why)
    \/ /\ req'[r].pc = "access" /\ req'[r].why = req[r].why
       /\ req'[r].link = Cardinality(Made) + 1
       /\ CreateBillingRequest(r)
    \/ req'[r].pc \in {"payment", "mail"} /\ Same(r) /\ SetAccess(r)
    \/ req'[r].pc = "mail" /\ Same(r) /\ CreateOneTimePayment(r)
    \/ req'[r].pc = "deliver" /\ Same(r) /\ MailInvoice(r)

LEMMA ReqStep ==
    ASSUME TypeOK, [Next]_vars, NEW r \in Requests
    PROVE  ReqMove(r)
<1>1. req[r] \in Req
  BY DEF TypeOK
<1>2. CASE req' = req
  BY <1>2 DEF ReqMove
<1>3. ASSUME NEW q \in Requests, NEW why \in {"send", "retry", "renew"},
             StartSend(q, why)
      PROVE  ReqMove(r)
  <2>1. CASE r = q
    <3>1. req'[r].pc = "link" /\ req'[r].why = why
      BY <1>3, <2>1 DEF StartSend, TypeOK, IdleReq
    <3> QED
      BY <1>3, <2>1, <3>1 DEF ReqMove
  <2>2. CASE r # q
    BY <1>3, <2>2 DEF StartSend, ReqMove, TypeOK
  <2> QED
    BY <2>1, <2>2
<1>4. ASSUME NEW q \in Requests, NEW mode \in Modes, StartUpdate(q, mode)
      PROVE  ReqMove(r)
  BY <1>4 DEF StartUpdate, ReqMove, TypeOK, IdleReq
<1>5. ASSUME NEW q \in Requests,
             \/ UpdateDraftDocument(q) \/ MarkInvoiceAsDelivered(q)
             \/ EndRetryInvoicePayment(q)
      PROVE  ReqMove(r)
  BY <1>5 DEF UpdateDraftDocument, MarkInvoiceAsDelivered,
     EndRetryInvoicePayment, ReqMove, TypeOK, IdleReq
<1>6. ASSUME NEW q \in Requests, CreateBillingRequest(q)
      PROVE  ReqMove(r)
  <2>1. CASE r = q
    <3>1. req'[r] = [req[r] EXCEPT !.pc = "access", !.link = Cardinality(Made) + 1]
      BY <1>6, <2>1 DEF CreateBillingRequest, TypeOK
    <3>2. /\ req'[r].pc = "access" /\ req'[r].why = req[r].why
          /\ req'[r].link = Cardinality(Made) + 1
      BY <1>1, <3>1 DEF Req
    <3> QED
      BY <1>6, <2>1, <3>2 DEF ReqMove
  <2>2. CASE r # q
    BY <1>6, <2>2 DEF CreateBillingRequest, ReqMove, TypeOK
  <2> QED
    BY <2>1, <2>2
<1>7. ASSUME NEW q \in Requests,
             SetAccess(q) \/ CreateOneTimePayment(q) \/ MailInvoice(q)
      PROVE  ReqMove(r)
  <2>1. CASE r = q
    <3>1. CASE SetAccess(q)
      <4>1. Same(r) /\ req'[r].pc \in {"payment", "mail"}
        BY <1>1, <2>1, <3>1 DEF SetAccess, Same, TypeOK, Req
      <4> QED
        BY <2>1, <3>1, <4>1 DEF ReqMove
    <3>2. CASE CreateOneTimePayment(q)
      <4>1. Same(r) /\ req'[r].pc = "mail"
        BY <1>1, <2>1, <3>2 DEF CreateOneTimePayment, Same, TypeOK, Req
      <4> QED
        BY <2>1, <3>2, <4>1 DEF ReqMove
    <3>3. CASE MailInvoice(q)
      <4>1. req'[r].pc = "idle" \/ (Same(r) /\ req'[r].pc = "deliver")
        BY <1>1, <2>1, <3>3 DEF MailInvoice, Same, TypeOK, Req, IdleReq
      <4> QED
        BY <2>1, <3>3, <4>1 DEF ReqMove
    <3> QED
      BY <1>7, <3>1, <3>2, <3>3
  <2>2. CASE r # q
    BY <1>7, <2>2 DEF SetAccess, CreateOneTimePayment, MailInvoice, ReqMove,
       TypeOK
  <2> QED
    BY <2>1, <2>2
<1>8. CASE Crash
  BY <1>8 DEF Crash, ReqMove, TypeOK, IdleReq
<1> QED
  BY <1>2, <1>3, <1>4, <1>5, <1>6, <1>7, <1>8
     DEF Next, Begins, Environment, RequestSteps, ClientSteps, WorkerSteps, vars,
         remote, local, Modes, OpenPaymentPage, FindBillingRequest, CreateFlow,
         SaveFlow, ReceiveFulfilled, FindMandate, RefuseLink, RefusePlan,
         CreateInstalmentSchedule, UpdateCreatedInstalmentPlan, LinkPayments,
         ReconcilePaymentPlan, ClientAuthorises, BillingRequestCancelled,
         FlowExpires, Tick, PaymentsMove

\* The step of the client's request c, if it goes on.
ClientMove(c) ==
    \/ client'[c] = client[c]
    \/ client'[c].pc = "idle"
    \/ OpenPaymentPage(c)
    \/ /\ client'[c] = [client[c] EXCEPT !.pc = "flow"]
       /\ FindBillingRequest(c)
    \/ /\ client'[c] = [client[c] EXCEPT !.pc = "save", !.flow = FlowFor(c)]
       /\ CreateFlow(c)

LEMMA ClientStep ==
    ASSUME TypeOK, [Next]_vars, NEW c \in Clients
    PROVE  ClientMove(c)
<1>1. client[c] \in Client
  BY DEF TypeOK
<1>2. CASE client' = client
  BY <1>2 DEF ClientMove
<1>3. ASSUME NEW b \in Clients, OpenPaymentPage(b)
      PROVE  ClientMove(c)
  BY <1>3 DEF OpenPaymentPage, ClientMove, TypeOK
<1>4. ASSUME NEW b \in Clients, FindBillingRequest(b)
      PROVE  ClientMove(c)
  BY <1>4 DEF FindBillingRequest, Leave, IdleClient, ClientMove, TypeOK
<1>5. ASSUME NEW b \in Clients, CreateFlow(b)
      PROVE  ClientMove(c)
  <2>1. \/ client' = [client EXCEPT ![b] =
                         [client[b] EXCEPT !.pc = "save", !.flow = FlowFor(b)]]
        \/ client' = [client EXCEPT ![b] = IdleClient]
    BY <1>5 DEF CreateFlow, Leave, TypeOK
  <2>2. CASE c = b
    BY <1>5, <2>1, <2>2 DEF ClientMove, IdleClient, TypeOK
  <2>3. CASE c # b
    <3>1. client'[c] = client[c]
      BY <2>1, <2>3 DEF TypeOK
    <3> QED
      BY <3>1 DEF ClientMove
  <2> QED
    BY <2>2, <2>3
<1>6. ASSUME NEW b \in Clients, SaveFlow(b)
      PROVE  ClientMove(c)
  BY <1>6 DEF SaveFlow, Leave, IdleClient, ClientMove, TypeOK
<1>7. CASE Crash
  BY <1>7 DEF Crash, Leave, ClientMove, TypeOK, IdleClient
<1> QED
  BY <1>2, <1>3, <1>4, <1>5, <1>6, <1>7
     DEF Next, Begins, Environment, RequestSteps, ClientSteps, WorkerSteps, vars,
         remote, local, Modes, StartUpdate, UpdateDraftDocument, StartSend,
         CreateBillingRequest, SetAccess, CreateOneTimePayment, MailInvoice,
         MarkInvoiceAsDelivered, EndRetryInvoicePayment,
         ReceiveFulfilled, FindMandate, RefuseLink, RefusePlan,
         CreateInstalmentSchedule, UpdateCreatedInstalmentPlan, LinkPayments,
         ReconcilePaymentPlan, ClientAuthorises, BillingRequestCancelled,
         FlowExpires, Tick, PaymentsMove

\* The step of the delivery w, if it goes on.
WorkerMove(w) ==
    \/ worker'[w] = worker[w]
    \/ worker'[w].pc = "idle"
    \/ /\ worker'[w].pc = "mandate" /\ worker'[w].link \in Links
       /\ PlanOf(worker'[w].link)
       /\ ReceiveFulfilled(w, worker'[w].link)
    \/ /\ worker[w].pc # "idle"
       /\ worker'[w].link = worker[w].link
       /\ worker'[w].pc = "ids" => UpdateCreatedInstalmentPlan(w)

LEMMA WorkerStep ==
    ASSUME TypeOK, [Next]_vars, NEW w \in Workers
    PROVE  WorkerMove(w)
<1>1. worker[w] \in Worker
  BY DEF TypeOK
<1>2. CASE worker' = worker
  BY <1>2 DEF WorkerMove
<1>3. ASSUME NEW v \in Workers, NEW k \in Links, ReceiveFulfilled(v, k)
      PROVE  WorkerMove(w)
  <2>1. \/ worker' = [worker EXCEPT ![v] = IdleWorker]
        \/ /\ worker' = [worker EXCEPT ![v] = [pc |-> "mandate", link |-> k]]
           /\ PlanOf(k)
    BY <1>3 DEF ReceiveFulfilled, Done
  <2>2. CASE worker' = [worker EXCEPT ![v] = IdleWorker]
    BY <2>2 DEF WorkerMove, IdleWorker, TypeOK
  <2>3. CASE /\ worker' = [worker EXCEPT ![v] = [pc |-> "mandate", link |-> k]]
             /\ PlanOf(k)
    <3>1. CASE w = v
      <4>1. worker'[w].pc = "mandate" /\ worker'[w].link = k
        BY <2>3, <3>1 DEF TypeOK
      <4> QED
        BY <1>3, <2>3, <3>1, <4>1 DEF WorkerMove
    <3>2. CASE w # v
      BY <2>3, <3>2 DEF WorkerMove, TypeOK
    <3> QED
      BY <3>1, <3>2
  <2> QED
    BY <2>1, <2>2, <2>3
<1>4. ASSUME NEW v \in Workers, FindMandate(v) \/ RefuseLink(v)
      PROVE  WorkerMove(w)
  BY <1>1, <1>4 DEF FindMandate, RefuseLink, WorkerMove, IdleWorker, TypeOK, Worker
<1>5. ASSUME NEW v \in Workers, RefusePlan(v) \/ LinkPayments(v)
      PROVE  WorkerMove(w)
  BY <1>1, <1>5 DEF RefusePlan, LinkPayments, Done, WorkerMove, IdleWorker, TypeOK
<1>6. ASSUME NEW v \in Workers,
             CreateInstalmentSchedule(v) \/ UpdateCreatedInstalmentPlan(v)
      PROVE  WorkerMove(w)
  BY <1>1, <1>6 DEF CreateInstalmentSchedule, UpdateCreatedInstalmentPlan,
     WorkerMove, IdleWorker, TypeOK, Worker
<1>7. CASE Crash
  BY <1>7 DEF Crash, WorkerMove, TypeOK, IdleWorker
<1> QED
  BY <1>2, <1>3, <1>4, <1>5, <1>6, <1>7
     DEF Next, Begins, Environment, RequestSteps, ClientSteps, WorkerSteps, vars,
         remote, local, Modes, StartUpdate, UpdateDraftDocument, StartSend,
         CreateBillingRequest, SetAccess, CreateOneTimePayment, MailInvoice,
         MarkInvoiceAsDelivered, EndRetryInvoicePayment, OpenPaymentPage,
         FindBillingRequest, CreateFlow, SaveFlow,
         ReconcilePaymentPlan, ClientAuthorises, BillingRequestCancelled,
         FlowExpires, Tick, PaymentsMove
-----------------------------------------------------------------------------
(***************************************************************************)
(* Links, locks and flows                                                  *)
(***************************************************************************)

LEMMA MadeGrows ==
    ASSUME TypeOK, LinksExist, [Next]_vars
    PROVE  /\ Made \subseteq Made'
           /\ \E n \in Nat : Made' = 1..n
           /\ \A r \in Requests :
                CreateBillingRequest(r) => Cardinality(Made) + 1 \in Made'
<1>1. CASE \E r \in Requests : CreateBillingRequest(r)
  <2> DEFINE n == Cardinality(Made)
  <2>1. n \in Nat /\ Made = 1..n
    BY FreshLink
  <2>2. n + 1 \in Links
    BY <1>1 DEF CreateBillingRequest
  <2>3. PICK mode : link' = [link EXCEPT ![n + 1] =
              [NoLink EXCEPT !.mode = mode, !.provider = "pending",
                             !.flow = 1, !.made = 1, !.live = {1}]]
    BY <1>1 DEF CreateBillingRequest
  <2>4. \A k \in Links : link'[k].provider =
           IF k = n + 1 THEN "pending" ELSE link[k].provider
    BY <2>3 DEF NoLink, TypeOK
  <2> HIDE DEF n
  <2>5. Made' = Made \cup {n + 1}
    BY <2>2, <2>4 DEF Made
  <2>6. Made' = 1..(n + 1) /\ n + 1 \in Nat
    BY <2>1, <2>5
  <2> QED
    BY <2>1, <2>5, <2>6 DEF n
<1>2. CASE ~\E r \in Requests : CreateBillingRequest(r)
  <2>1. \A k \in Links : Kept(k)
    BY <1>2, LinkStep DEF Created
  <2>2. Made' = Made
    BY <2>1 DEF Kept, Made
  <2> QED
    BY <1>2, <2>2 DEF LinksExist
<1> QED
  BY <1>1, <1>2

\* Only a request that sends changes the access, or overlaps with another one.
LEMMA AccessStep ==
    ASSUME [Next]_vars
    PROVE  access' = access \/ \E r \in Requests : SetAccess(r)
BY DEF Next, Begins, Environment, RequestSteps, ClientSteps, WorkerSteps, vars,
         remote, local, history, StartUpdate, UpdateDraftDocument, StartSend,
         CreateBillingRequest, CreateOneTimePayment, MailInvoice,
         MarkInvoiceAsDelivered, EndRetryInvoicePayment, OpenPaymentPage,
         FindBillingRequest, CreateFlow, SaveFlow, ReceiveFulfilled, FindMandate,
         RefuseLink, RefusePlan, CreateInstalmentSchedule,
         UpdateCreatedInstalmentPlan, LinkPayments,
         ReconcilePaymentPlan, ClientAuthorises, BillingRequestCancelled,
         FlowExpires, Tick, PaymentsMove, Crash

LEMMA OverlapStays ==
    ASSUME [Next]_vars, overlapped
    PROVE  overlapped'
BY DEF Next, Begins, Environment, RequestSteps, ClientSteps, WorkerSteps, vars,
         remote, local, history, StartUpdate, UpdateDraftDocument, StartSend, SetAccess,
         CreateBillingRequest, CreateOneTimePayment, MailInvoice,
         MarkInvoiceAsDelivered, EndRetryInvoicePayment, OpenPaymentPage,
         FindBillingRequest, CreateFlow, SaveFlow, ReceiveFulfilled, FindMandate,
         RefuseLink, RefusePlan, CreateInstalmentSchedule,
         UpdateCreatedInstalmentPlan, LinkPayments,
         ReconcilePaymentPlan, ClientAuthorises, BillingRequestCancelled,
         FlowExpires, Tick, PaymentsMove, Crash

LEMMA LinksExistStep ==
    ASSUME TypeOK, LinksExist, [Next]_vars
    PROVE  LinksExist'
<1>1. Made \subseteq Made' /\ \E n \in Nat : Made' = 1..n
  BY MadeGrows
<1>2. ASSUME NEW r \in Requests,
             req'[r].pc \in {"access", "payment", "mail", "deliver"}
      PROVE  req'[r].link \in Made'
  <2>1. ReqMove(r)
    BY ReqStep
  <2> QED
    BY <1>1, <1>2, <2>1, MadeGrows
       DEF ReqMove, Same, LinksExist, SetAccess, CreateOneTimePayment, MailInvoice
<1>3. access' = access \/ \E r \in Requests : SetAccess(r)
  BY AccessStep
<1>4. access' \in Made' \cup {0}
  BY <1>1, <1>3 DEF SetAccess, CurrentAccess, LinksExist
<1>5. ASSUME NEW c \in Clients, client'[c].pc # "idle"
      PROVE  client'[c].link \in Made'
  <2>1. client[c] \in Client
    BY DEF TypeOK
  <2>2. CASE client'[c] = client[c]
    BY <1>1, <1>5, <2>2 DEF LinksExist
  <2>3. CASE OpenPaymentPage(c)
    BY <1>1, <2>3 DEF OpenPaymentPage, LinksExist, TypeOK
  <2>4. CASE /\ client'[c] = [client[c] EXCEPT !.pc = "flow"]
             /\ FindBillingRequest(c)
    BY <1>1, <2>1, <2>4 DEF FindBillingRequest, LinksExist, Client
  <2>5. CASE /\ client'[c] = [client[c] EXCEPT !.pc = "save", !.flow = FlowFor(c)]
             /\ CreateFlow(c)
    BY <1>1, <2>1, <2>5 DEF CreateFlow, LinksExist, Client
  <2> QED
    BY <1>5, <2>2, <2>3, <2>4, <2>5, ClientStep DEF ClientMove
<1>6. ASSUME NEW w \in Workers, worker'[w].pc # "idle"
      PROVE  worker'[w].link \in Links
  BY <1>6, WorkerStep DEF WorkerMove, LinksExist
<1> QED
  BY <1>1, <1>2, <1>4, <1>5, <1>6 DEF LinksExist

LEMMA LockStep ==
    ASSUME TypeOK, LockHeld, [Next]_vars
    PROVE  LockHeld'
<1> SUFFICES ASSUME NEW c \in Clients, client'[c].pc # "idle"
             PROVE  lock' = c
  BY DEF LockHeld
<1>1. None \notin Clients
  BY SetupAssumption
<1>2. CASE OpenPaymentPage(c)
  BY <1>2 DEF OpenPaymentPage
<1>3. CASE ~OpenPaymentPage(c)
  <2>1. client[c] \in Client
    BY DEF TypeOK
  <2>2. client[c].pc # "idle"
    BY <1>3, <2>1, ClientStep
       DEF ClientMove, FindBillingRequest, CreateFlow, Client
  <2>3. lock = c
    BY <2>2 DEF LockHeld
  <2>4. ASSUME NEW b \in Clients, client[b].pc # "idle", Leave(b)
        PROVE  FALSE
    <3>1. b = c
      BY <2>3, <2>4 DEF LockHeld
    <3> QED
      BY <2>4, <3>1 DEF Leave, IdleClient, TypeOK
  <2>5. ASSUME NEW b \in Clients, OpenPaymentPage(b)
        PROVE  FALSE
    BY <1>1, <2>3, <2>5 DEF OpenPaymentPage
  <2>6. lock' = lock
    BY <2>4, <2>5
       DEF Next, Begins, Environment, RequestSteps, ClientSteps, WorkerSteps,
         vars, remote, local, history, StartUpdate, UpdateDraftDocument,
         StartSend, SetAccess, CreateBillingRequest, CreateOneTimePayment,
         MailInvoice, MarkInvoiceAsDelivered, EndRetryInvoicePayment,
         FindBillingRequest, CreateFlow, SaveFlow, ReceiveFulfilled,
         FindMandate, RefuseLink, RefusePlan, CreateInstalmentSchedule,
         UpdateCreatedInstalmentPlan, LinkPayments,
         ReconcilePaymentPlan, ClientAuthorises, BillingRequestCancelled,
         FlowExpires, Tick, PaymentsMove, Crash
  <2> QED
    BY <2>3, <2>6
<1> QED
  BY <1>2, <1>3

\* The flows of a link change when one is made, when one expires,
\* when the row learns of one, and when the billing request ends.
FlowMove(k) ==
    \/ /\ link'[k].flow = link[k].flow /\ link'[k].made = link[k].made
       /\ link'[k].live \subseteq link[k].live
    \/ /\ link'[k].flow = 0 /\ link'[k].made = 0 /\ link'[k].live = {}
       /\ link'[k].provider # "pending"
    \/ \E b \in Clients :
         /\ CreateFlow(b) /\ k = client[b].link
         /\ link[k].provider = "pending" /\ FlowFor(b) > link[k].made
         /\ link'[k].flow = link[k].flow /\ link'[k].made = FlowFor(b)
         /\ link'[k].live = link[k].live \cup {FlowFor(b)}
    \/ \E b \in Clients :
         /\ SaveFlow(b) /\ k = client[b].link
         /\ link[k].provider = "pending"
         /\ link'[k].flow = client[b].flow /\ link'[k].made = link[k].made
         /\ link'[k].live = link[k].live

LEMMA FlowMoves ==
    ASSUME TypeOK, LinksExist, [Next]_vars, NEW k \in Links
    PROVE  Created(k) \/ FlowMove(k)
<1>1. link[k] \in Link /\ k \in Links
  BY DEF TypeOK
<1>2. CASE link'[k] = link[k]
  BY <1>2 DEF FlowMove
<1>3. ASSUME NEW r \in Requests, CreateBillingRequest(r)
      PROVE  Created(k) \/ link'[k] = link[k]
  <2>1. CASE k = Cardinality(Made) + 1
    BY <1>3, <2>1, FreshLink DEF Created, CreateBillingRequest, TypeOK
  <2>2. CASE k # Cardinality(Made) + 1
    BY <1>1, <1>3, <2>2 DEF CreateBillingRequest, TypeOK
  <2> QED
    BY <2>1, <2>2
<1>4. ASSUME NEW r \in Requests, CreateOneTimePayment(r) \/ MailInvoice(r)
      PROVE  FlowMove(k)
  <2>1. /\ link'[k].flow = link[k].flow /\ link'[k].made = link[k].made
        /\ link'[k].live = link[k].live
    BY <1>1, <1>4 DEF CreateOneTimePayment, MailInvoice, TypeOK, Link
  <2> QED
    BY <2>1 DEF FlowMove
<1>5. ASSUME NEW c \in Clients, FindBillingRequest(c)
      PROVE  FlowMove(k)
  BY <1>1, <1>5 DEF FindBillingRequest, TypeOK, Link, FlowMove
<1>6. ASSUME NEW c \in Clients, CreateFlow(c)
      PROVE  Created(k) \/ FlowMove(k)
  <2>1. CASE /\ k = client[c].link /\ link[k].provider = "pending"
             /\ FlowFor(c) > link[k].made
    <3>1. link'[k] = [link[k] EXCEPT !.made = FlowFor(c),
                                     !.live = @ \cup {FlowFor(c)}]
      BY <1>1, <1>6, <2>1 DEF CreateFlow, TypeOK
    <3>2. /\ link'[k].flow = link[k].flow /\ link'[k].made = FlowFor(c)
          /\ link'[k].live = link[k].live \cup {FlowFor(c)}
      BY <1>1, <3>1 DEF Link
    <3> QED
      BY <1>6, <2>1, <3>2 DEF FlowMove
  <2>2. CASE ~(/\ k = client[c].link /\ link[k].provider = "pending"
               /\ FlowFor(c) > link[k].made)
    <3>1. link'[k] = link[k]
      BY <1>1, <1>6, <2>2 DEF CreateFlow, TypeOK
    <3> QED
      BY <1>2, <3>1
  <2> QED
    BY <2>1, <2>2
<1>7. ASSUME NEW c \in Clients, SaveFlow(c)
      PROVE  Created(k) \/ FlowMove(k)
  <2>1. CASE k = client[c].link /\ link[k].provider = "pending"
    <3>1. link'[k] = [link[k] EXCEPT !.flow = client[c].flow,
                                     !.given = @ \cup {client[c].flow}]
      BY <1>1, <1>7, <2>1 DEF SaveFlow, TypeOK
    <3>2. /\ link'[k].flow = client[c].flow /\ link'[k].made = link[k].made
          /\ link'[k].live = link[k].live
      BY <1>1, <3>1 DEF Link
    <3> QED
      BY <1>7, <2>1, <3>2 DEF FlowMove
  <2>2. CASE ~(k = client[c].link /\ link[k].provider = "pending")
    <3>1. link'[k] = link[k]
      BY <1>1, <1>7, <2>2 DEF SaveFlow, TypeOK
    <3> QED
      BY <1>2, <3>1
  <2> QED
    BY <2>1, <2>2
<1>8. ASSUME NEW w \in Workers, NEW j \in Links, ReceiveFulfilled(w, j)
      PROVE  FlowMove(k)
  BY <1>1, <1>8 DEF ReceiveFulfilled, TypeOK, Link, FlowMove
<1>9. ASSUME NEW w \in Workers, RefuseLink(w)
      PROVE  FlowMove(k)
  BY <1>1, <1>9 DEF RefuseLink, TypeOK, Link, FlowMove
<1>10. ASSUME NEW j \in Links,
              \/ ClientAuthorises(j) \/ BillingRequestCancelled(j)
              \/ \E f \in 1..MaxFlows : FlowExpires(j, f)
       PROVE  FlowMove(k)
  BY <1>1, <1>10 DEF ClientAuthorises, BillingRequestCancelled, FlowExpires,
     Ended, TypeOK, Link, FlowMove
<1> QED
  BY <1>2, <1>3, <1>4, <1>5, <1>6, <1>7, <1>8, <1>9, <1>10
     DEF Next, Begins, Environment, RequestSteps, ClientSteps, WorkerSteps, vars,
         StartUpdate, UpdateDraftDocument, StartSend, SetAccess,
         MarkInvoiceAsDelivered, EndRetryInvoicePayment, OpenPaymentPage,
         FindMandate, RefusePlan, CreateInstalmentSchedule,
         UpdateCreatedInstalmentPlan, LinkPayments, ReconcilePaymentPlan, Tick,
         PaymentsMove, Crash
\* The invariant of the flows: the lock of the access keeps two requests of
\* the client from making a flow for the same one that expired.
LEMMA FlowStep ==
    ASSUME TypeOK, LinksExist, LockHeld, FlowsInOrder, [Next]_vars
    PROVE  FlowsInOrder'
<1>1. ASSUME NEW k \in Links
      PROVE  /\ link[k] \in Link
             /\ link[k].live \subseteq {link[k].made}
             /\ link[k].flow <= link[k].made
             /\ link[k].flow \in Nat /\ link[k].made \in Nat
  BY DEF FlowsInOrder, TypeOK, Link
<1>2. \A c \in Clients : client[c] \in Client
  BY DEF TypeOK
<1>3. ASSUME NEW b \in Clients, CreateFlow(b),
             link[client[b].link].provider = "pending",
             FlowFor(b) > link[client[b].link].made
      PROVE  /\ link[client[b].link].live = {}
             /\ link[client[b].link].flow <= FlowFor(b)
  <2> DEFINE k == client[b].link
  <2>1. client[b].pc = "flow" /\ k \in Links
    BY <1>3 DEF CreateFlow, LinksExist, Made
  <2>2. client[b].flow = link[k].flow /\ link[k].flow \notin link[k].live
    BY <1>3, <2>1 DEF FlowsInOrder
  <2>3. FlowFor(b) = link[k].flow + 1
    BY <2>2 DEF FlowFor
  <2>4. link[k].flow = link[k].made
    BY <1>1, <1>3, <2>1, <2>3
  <2> QED
    BY <1>1, <2>1, <2>2, <2>3, <2>4
<1>4. ASSUME NEW b \in Clients, SaveFlow(b),
             link[client[b].link].provider = "pending"
      PROVE  client[b].flow <= link[client[b].link].made
  BY <1>4 DEF SaveFlow, FlowsInOrder
<1>5. ASSUME NEW k \in Links
      PROVE  /\ link'[k].live \subseteq {link'[k].made}
             /\ link'[k].flow <= link'[k].made
  <2>1. CASE FlowMove(k)
    <3>1. CASE \E b \in Clients :
                 /\ CreateFlow(b) /\ k = client[b].link
                 /\ link[k].provider = "pending" /\ FlowFor(b) > link[k].made
                 /\ link'[k].flow = link[k].flow /\ link'[k].made = FlowFor(b)
                 /\ link'[k].live = link[k].live \cup {FlowFor(b)}
      BY <1>3, <3>1
    <3>2. CASE \E b \in Clients :
                 /\ SaveFlow(b) /\ k = client[b].link
                 /\ link[k].provider = "pending"
                 /\ link'[k].flow = client[b].flow /\ link'[k].made = link[k].made
                 /\ link'[k].live = link[k].live
      BY <1>1, <1>4, <3>2
    <3> QED
      BY <1>1, <2>1, <3>1, <3>2 DEF FlowMove
  <2>2. CASE Created(k)
    <3>1. link'[k].flow = 1 /\ link'[k].made = 1 /\ link'[k].live = {1}
      BY <2>2 DEF Created, NoLink
    <3> QED
      BY <3>1
  <2> QED
    BY <2>1, <2>2, FlowMoves
<1>6. ASSUME NEW c \in Clients, client'[c].pc # "idle",
             link'[client'[c].link].provider = "pending"
      PROVE  LET l == link'[client'[c].link] IN
             /\ client'[c].pc \in {"find", "flow"} => client'[c].flow = l.flow
             /\ client'[c].pc = "flow" => l.flow \notin l.live
             /\ client'[c].pc = "save" => client'[c].flow <= l.made
  <2>1. CASE client'[c] = client[c]
    <3> DEFINE k == client[c].link
    <3>1. k \in Made /\ k \in Links /\ lock = c
      BY <1>6, <2>1 DEF LinksExist, LockHeld, Made
    <3>2. link[k].provider = "pending"
      BY <1>6, <2>1, <3>1, LinkStep DEF Created, Kept
    <3>3. \A b \in Clients : client[b].pc # "idle" => b = c
      BY <3>1 DEF LockHeld
    <3>4. ASSUME NEW b \in Clients, CreateFlow(b), k = client[b].link,
                 link'[k].made = FlowFor(b),
                 link'[k].live = link[k].live \cup {FlowFor(b)}
          PROVE  FALSE
      <4>1. b = c /\ client[c].pc = "flow"
        BY <3>3, <3>4 DEF CreateFlow
      <4>2. client'[c].pc \in {"save", "idle"}
        BY <1>2, <3>4, <4>1 DEF CreateFlow, Leave, IdleClient, TypeOK, Client
      <4> QED
        BY <2>1, <4>1, <4>2
    <3>5. ASSUME NEW b \in Clients, SaveFlow(b)
          PROVE  FALSE
      <4>1. b = c /\ client[c].pc = "save"
        BY <3>3, <3>5 DEF SaveFlow
      <4>2. client'[c].pc = "idle"
        BY <3>5, <4>1 DEF SaveFlow, Leave, IdleClient, TypeOK
      <4> QED
        BY <2>1, <4>1, <4>2
    <3>6. /\ link'[k].flow = link[k].flow /\ link'[k].made = link[k].made
          /\ link'[k].live \subseteq link[k].live
      BY <1>6, <2>1, <3>1, <3>4, <3>5, FlowMoves DEF FlowMove, Created
    <3> QED
      BY <1>6, <2>1, <3>2, <3>6 DEF FlowsInOrder
  <2>2. CASE OpenPaymentPage(c)
    BY <2>2 DEF OpenPaymentPage, TypeOK
  <2>3. CASE /\ client'[c] = [client[c] EXCEPT !.pc = "flow"]
             /\ FindBillingRequest(c)
    <3>1. /\ client[c].pc = "find" /\ client'[c].pc = "flow"
          /\ client'[c].link = client[c].link
          /\ client'[c].flow = client[c].flow
      BY <1>2, <2>3 DEF FindBillingRequest, Client
    <3>2. /\ link' = link
          /\ link[client[c].link].flow \notin link[client[c].link].live
      BY <1>2, <2>3, <3>1 DEF FindBillingRequest, Leave, IdleClient, TypeOK
    <3>3. link[client[c].link].provider = "pending"
      BY <1>6, <3>1, <3>2
    <3> QED
      BY <3>1, <3>2, <3>3 DEF FlowsInOrder
  <2>4. CASE /\ client'[c] = [client[c] EXCEPT !.pc = "save", !.flow = FlowFor(c)]
             /\ CreateFlow(c)
    <3> DEFINE k == client[c].link
    <3>1. /\ client[c].pc = "flow" /\ client'[c].pc = "save"
          /\ client'[c].link = k
          /\ client'[c].flow = FlowFor(c)
      BY <1>2, <2>4 DEF CreateFlow, Client
    <3>2. k \in Links /\ link[k] \in Link /\ FlowFor(c) \in Nat
      BY <1>2, <3>1 DEF LinksExist, Made, TypeOK, Client, FlowFor
    <3>3. CASE link[k].provider = "pending" /\ FlowFor(c) > link[k].made
      <4>1. link'[k] = [link[k] EXCEPT !.made = FlowFor(c),
                                       !.live = @ \cup {FlowFor(c)}]
        BY <2>4, <3>2, <3>3 DEF CreateFlow, TypeOK
      <4>2. link'[k].made = FlowFor(c)
        BY <3>2, <4>1 DEF Link
      <4> QED
        BY <3>1, <3>2, <4>2
    <3>4. CASE ~(link[k].provider = "pending" /\ FlowFor(c) > link[k].made)
      <4>1. link' = link
        BY <2>4, <3>4 DEF CreateFlow
      <4>2. FlowFor(c) <= link[k].made
        BY <1>1, <1>6, <3>1, <3>2, <3>4, <4>1
      <4> QED
        BY <3>1, <4>1, <4>2
    <3> QED
      BY <3>3, <3>4
  <2> QED
    BY <1>6, <2>1, <2>2, <2>3, <2>4, ClientStep DEF ClientMove
<1> QED
  BY <1>5, <1>6 DEF FlowsInOrder
-----------------------------------------------------------------------------
(***************************************************************************)
(* The payment is known before the mail                                    *)
(***************************************************************************)

\* A link is mailed by the request that made it.
LEMMA MailedBy ==
    ASSUME TypeOK, LinksExist, [Next]_vars, NEW k \in Links, link'[k].mailed
    PROVE  \/ link[k].mailed
           \/ \E r \in Requests : MailInvoice(r) /\ k = req[r].link
<1>1. link[k] \in Link /\ k \in Links
  BY DEF TypeOK
<1>2. CASE link'[k] = link[k]
  BY <1>2
<1>3. ASSUME NEW r \in Requests, CreateBillingRequest(r)
      PROVE  link'[k] = link[k]
  <2>1. CASE k = Cardinality(Made) + 1
    <3>1. link'[k].mailed = FALSE
      BY <1>1, <1>3, <2>1 DEF CreateBillingRequest, NoLink, TypeOK
    <3> QED
      BY <3>1
  <2>2. CASE k # Cardinality(Made) + 1
    BY <1>1, <1>3, <2>2 DEF CreateBillingRequest, TypeOK
  <2> QED
    BY <2>1, <2>2
<1>4. ASSUME NEW r \in Requests, MailInvoice(r), k # req[r].link
      PROVE  link'[k] = link[k]
  BY <1>1, <1>4 DEF MailInvoice, TypeOK
<1>5. ASSUME NEW r \in Requests, CreateOneTimePayment(r)
      PROVE  link'[k].mailed => link[k].mailed
  BY <1>1, <1>5 DEF CreateOneTimePayment, TypeOK, Link
<1>6. ASSUME NEW c \in Clients, FindBillingRequest(c)
      PROVE  link'[k].mailed => link[k].mailed
  BY <1>1, <1>6 DEF FindBillingRequest, TypeOK, Link
<1>7. ASSUME NEW c \in Clients, CreateFlow(c)
      PROVE  link'[k].mailed => link[k].mailed
  BY <1>1, <1>7 DEF CreateFlow, TypeOK, Link
<1>8. ASSUME NEW c \in Clients, SaveFlow(c)
      PROVE  link'[k].mailed => link[k].mailed
  BY <1>1, <1>8 DEF SaveFlow, TypeOK, Link
<1>9. ASSUME NEW w \in Workers, NEW j \in Links, ReceiveFulfilled(w, j)
      PROVE  link'[k].mailed => link[k].mailed
  BY <1>1, <1>9 DEF ReceiveFulfilled, TypeOK, Link
<1>10. ASSUME NEW w \in Workers, RefuseLink(w)
       PROVE  link'[k].mailed => link[k].mailed
  BY <1>1, <1>10 DEF RefuseLink, TypeOK, Link
<1>11. ASSUME NEW j \in Links,
              \/ ClientAuthorises(j) \/ BillingRequestCancelled(j)
              \/ \E f \in 1..MaxFlows : FlowExpires(j, f)
       PROVE  link'[k].mailed => link[k].mailed
  BY <1>1, <1>11 DEF ClientAuthorises, BillingRequestCancelled, FlowExpires,
     Ended, TypeOK, Link
<1> QED
  BY <1>2, <1>3, <1>4, <1>5, <1>6, <1>7, <1>8, <1>9, <1>10, <1>11
     DEF Next, Begins, Environment, RequestSteps, ClientSteps, WorkerSteps, vars,
         StartUpdate, UpdateDraftDocument, StartSend, SetAccess,
         MarkInvoiceAsDelivered, EndRetryInvoicePayment, OpenPaymentPage,
         FindMandate, RefusePlan, CreateInstalmentSchedule,
         UpdateCreatedInstalmentPlan, LinkPayments, ReconcilePaymentPlan, Tick,
         PaymentsMove, Crash

LEMMA PaymentStep ==
    ASSUME TypeOK, LinksExist, PaymentBeforeMail, [Next]_vars
    PROVE  PaymentBeforeMail'
<1>1. ASSUME NEW k \in Links, link'[k].mailed, link'[k].mode = "ONE_TIME"
      PROVE  link'[k].payment
  <2>1. CASE Created(k)
    <3>1. link'[k].mailed = FALSE
      BY <2>1 DEF Created, NoLink
    <3> QED
      BY <1>1, <3>1
  <2>2. CASE Kept(k)
    <3>1. link[k].mode = "ONE_TIME" /\ (link[k].payment => link'[k].payment)
      BY <1>1, <2>2 DEF Kept
    <3>2. CASE link[k].mailed
      BY <3>1, <3>2 DEF PaymentBeforeMail
    <3>3. ASSUME NEW r \in Requests, MailInvoice(r), k = req[r].link
          PROVE  link'[k].payment
      BY <3>1, <3>3 DEF PaymentBeforeMail, MailInvoice
    <3> QED
      BY <1>1, <3>2, <3>3, MailedBy
  <2> QED
    BY <2>1, <2>2, LinkStep
<1>2. ASSUME NEW r \in Requests, req'[r].pc = "mail",
             link'[req'[r].link].mode = "ONE_TIME"
      PROVE  link'[req'[r].link].payment
  <2>1. ASSUME req[r].pc = "mail", req'[r].link = req[r].link
        PROVE  link'[req'[r].link].payment
    <3>1. req[r].link \in Made /\ req[r].link \in Links
      BY <2>1 DEF LinksExist, Made
    <3>2. Kept(req[r].link)
      BY <3>1, LinkStep DEF Created
    <3> QED
      BY <1>2, <2>1, <3>2 DEF Kept, PaymentBeforeMail
  <2>2. CASE req'[r] = req[r]
    BY <1>2, <2>1, <2>2
  <2>3. CASE SetAccess(r) /\ Same(r)
    BY <1>2, <2>3 DEF SetAccess, Same, TypeOK, Req
  <2>4. CASE CreateOneTimePayment(r) /\ Same(r)
    <3>1. req[r].link \in Links /\ link[req[r].link] \in Link
      BY <2>4 DEF CreateOneTimePayment, LinksExist, Made, TypeOK
    <3> QED
      BY <2>4, <3>1 DEF CreateOneTimePayment, Same, TypeOK, Link
  <2> QED
    BY <1>2, <2>2, <2>3, <2>4, ReqStep DEF ReqMove
<1> QED
  BY <1>1, <1>2 DEF PaymentBeforeMail

-----------------------------------------------------------------------------
(***************************************************************************)
(* What a step does to the invoice and its plan                            *)
(***************************************************************************)

\* The plan is made, for the link of the access.
PlanMade ==
    /\ NeedsPlan /\ ~plan.there
    /\ invoice' = [invoice EXCEPT !.status = "PENDING", !.sent = TRUE]
    /\ plan' = [NoPlan EXCEPT !.there = TRUE, !.ref = access,
                              !.exact = SchedulesAreExact]
    /\ \E r \in Requests : MarkInvoiceAsDelivered(r)

\* The plan stays, also when there is none, and learns of its schedule or of
\* the reason why there is none.
PlanKept ==
    /\ edited' = edited
    /\ invoice'.mode = invoice.mode
    /\ plan'.there = plan.there /\ plan'.ref = plan.ref
    /\ plan'.exact = plan.exact
    /\ \/ plan'.schedule = plan.schedule
       \/ \E w \in Workers :
            /\ UpdateCreatedInstalmentPlan(w)
            /\ PlanOf(worker[w].link)
            /\ plan'.schedule = worker[w].link
    /\ plan.late => plan'.late
    /\ plan'.failed = plan.failed
         \/ \E s \in {"REJECTED", "PAID"} : PaymentsMove(s)
    /\ \/ invoice' = invoice
       \/ /\ ~NeedsPlan /\ invoice'.sent /\ invoice'.status = "PENDING"
          /\ \E r \in Requests : MarkInvoiceAsDelivered(r)
       \/ /\ invoice'.sent = invoice.sent
          /\ \/ \E r \in Requests :
                  EndRetryInvoicePayment(r) /\ invoice'.status = "PENDING"
             \/ \E s \in {"REJECTED", "PAID"} :
                  PaymentsMove(s) /\ invoice'.status = s

LEMMA PlanStep ==
    ASSUME TypeOK, LinksExist, [Next]_vars
    PROVE  \/ \E r \in Requests : UpdateDraftDocument(r)
           \/ PlanMade
           \/ PlanKept
<1>1. plan \in Plan /\ invoice \in Invoice
  BY DEF TypeOK
<1>2. CASE UNCHANGED <<plan, invoice, edited>>
  BY <1>2 DEF PlanKept
<1>3. ASSUME NEW r \in Requests, MarkInvoiceAsDelivered(r)
      PROVE  PlanMade \/ PlanKept
  <2>1. CASE NeedsPlan /\ plan.there
    <3>1. UNCHANGED <<plan, invoice, edited>>
      BY <1>3, <2>1 DEF MarkInvoiceAsDelivered, history
    <3> QED
      BY <3>1 DEF PlanKept
  <2>2. CASE NeedsPlan /\ ~plan.there
    BY <1>3, <2>2 DEF MarkInvoiceAsDelivered, PlanMade
  <2>3. CASE ~NeedsPlan
    <3>1. /\ invoice' = [invoice EXCEPT !.status = "PENDING", !.sent = TRUE]
          /\ plan' = plan /\ edited' = edited
      BY <1>3, <2>3 DEF MarkInvoiceAsDelivered, history
    <3>2. /\ invoice'.sent /\ invoice'.status = "PENDING"
          /\ invoice'.mode = invoice.mode
      BY <1>1, <3>1 DEF Invoice
    <3> QED
      BY <1>3, <2>3, <3>1, <3>2 DEF PlanKept
  <2> QED
    BY <2>1, <2>2, <2>3
<1>4. ASSUME NEW r \in Requests, EndRetryInvoicePayment(r)
      PROVE  PlanKept
  <2>1. /\ invoice' = [invoice EXCEPT !.status = "PENDING"]
        /\ plan' = plan /\ edited' = edited
    BY <1>4 DEF EndRetryInvoicePayment, history
  <2>2. /\ invoice'.sent = invoice.sent /\ invoice'.status = "PENDING"
        /\ invoice'.mode = invoice.mode
    BY <1>1, <2>1 DEF Invoice
  <2> QED
    BY <1>4, <2>1, <2>2 DEF PlanKept
<1>5. ASSUME NEW s \in {"REJECTED", "PAID"}, PaymentsMove(s)
      PROVE  PlanKept
  <2>1. /\ invoice' = [invoice EXCEPT !.status = s]
        /\ plan' = [plan EXCEPT !.failed = @ \/ (plan.there /\ s = "REJECTED")]
        /\ edited' = edited
    BY <1>5 DEF PaymentsMove, history
  <2>2. /\ invoice'.sent = invoice.sent /\ invoice'.status = s
        /\ invoice'.mode = invoice.mode
    BY <1>1, <2>1 DEF Invoice
  <2>3. /\ plan'.there = plan.there /\ plan'.ref = plan.ref
        /\ plan'.exact = plan.exact /\ plan'.schedule = plan.schedule
        /\ plan'.late = plan.late
    BY <1>1, <2>1 DEF Plan
  <2> QED
    BY <1>5, <2>1, <2>2, <2>3 DEF PlanKept
<1>6. ASSUME NEW w \in Workers, RefusePlan(w) \/ LinkPayments(w)
      PROVE  PlanKept
  <2>1. /\ plan' \in {plan, [plan EXCEPT !.late = TRUE], [plan EXCEPT !.ids = TRUE]}
        /\ invoice' = invoice /\ edited' = edited
    BY <1>6 DEF RefusePlan, LinkPayments, history
  <2>2. /\ plan'.there = plan.there /\ plan'.ref = plan.ref
        /\ plan'.exact = plan.exact /\ plan'.schedule = plan.schedule
        /\ plan.late => plan'.late
        /\ plan'.failed = plan.failed
    BY <1>1, <2>1 DEF Plan
  <2> QED
    BY <2>1, <2>2 DEF PlanKept
<1>7. ASSUME NEW w \in Workers, UpdateCreatedInstalmentPlan(w)
      PROVE  PlanKept
  <2>1. CASE PlanOf(worker[w].link)
    <3>1. /\ plan' = [plan EXCEPT !.schedule = worker[w].link]
          /\ invoice' = invoice /\ edited' = edited
      BY <1>7, <2>1 DEF UpdateCreatedInstalmentPlan, history
    <3>2. /\ plan'.there = plan.there /\ plan'.ref = plan.ref
          /\ plan'.exact = plan.exact /\ plan'.schedule = worker[w].link
          /\ plan'.late = plan.late
          /\ plan'.failed = plan.failed
      BY <1>1, <3>1 DEF Plan
    <3> QED
      BY <1>7, <2>1, <3>1, <3>2 DEF PlanKept
  <2>2. CASE ~PlanOf(worker[w].link)
    <3>1. UNCHANGED <<plan, invoice, edited>>
      BY <1>7, <2>2 DEF UpdateCreatedInstalmentPlan, history
    <3> QED
      BY <3>1 DEF PlanKept
  <2> QED
    BY <2>1, <2>2
<1>8. CASE ReconcilePaymentPlan
  <2>1. /\ plan' = [plan EXCEPT !.ids = TRUE]
        /\ invoice' = invoice /\ edited' = edited
    BY <1>8 DEF ReconcilePaymentPlan, history
  <2>2. /\ plan'.there = plan.there /\ plan'.ref = plan.ref
        /\ plan'.exact = plan.exact /\ plan'.schedule = plan.schedule
        /\ plan'.late = plan.late
        /\ plan'.failed = plan.failed
    BY <1>1, <2>1 DEF Plan
  <2> QED
    BY <2>1, <2>2 DEF PlanKept
<1> QED
  BY <1>2, <1>3, <1>4, <1>5, <1>6, <1>7, <1>8
     DEF Next, Begins, Environment, RequestSteps, ClientSteps, WorkerSteps, vars,
         remote, local, history, StartUpdate, StartSend,
         CreateBillingRequest, SetAccess, CreateOneTimePayment, MailInvoice,
         OpenPaymentPage, FindBillingRequest, CreateFlow, SaveFlow,
         ReceiveFulfilled, FindMandate, RefuseLink, CreateInstalmentSchedule,
         ClientAuthorises, BillingRequestCancelled, FlowExpires, Tick, Crash
\* A billing request is fulfilled when the client signs, by a flow that was
\* given to a request of the client.
LEMMA SignedBy ==
    ASSUME TypeOK, LinksExist, [Next]_vars, NEW k \in Links
    PROVE  /\ \/ link'[k].provider # "fulfilled"
              \/ link'[k].provider = link[k].provider
              \/ ClientAuthorises(k)
           /\ \/ link'[k].given \subseteq link[k].given
              \/ \E c \in Clients : client[c].pc # "idle"
<1> DEFINE Quiet == /\ link'[k].provider \in {link[k].provider, "cancelled"}
                    /\ link'[k].given \subseteq link[k].given
           Goal == /\ \/ link'[k].provider # "fulfilled"
                      \/ link'[k].provider = link[k].provider
                      \/ ClientAuthorises(k)
                   /\ \/ link'[k].given \subseteq link[k].given
                      \/ \E c \in Clients : client[c].pc # "idle"
<1>1. link[k] \in Link
  BY DEF TypeOK
<1>2. CASE link'[k] = link[k]
  BY <1>2
<1>3. ASSUME NEW r \in Requests, CreateBillingRequest(r)
      PROVE  Goal
  <2>1. CASE k = Cardinality(Made) + 1
    <3>1. link'[k].provider = "pending" /\ link'[k].given = {}
      BY <1>3, <2>1 DEF CreateBillingRequest, NoLink, TypeOK
    <3> QED
      BY <3>1
  <2>2. CASE k # Cardinality(Made) + 1
    BY <1>1, <1>3, <2>2 DEF CreateBillingRequest, TypeOK
  <2> QED
    BY <2>1, <2>2
<1>4. ASSUME NEW r \in Requests, CreateOneTimePayment(r) \/ MailInvoice(r)
      PROVE  Quiet
  <2>1. CASE CreateOneTimePayment(r)
    BY <1>1, <2>1 DEF CreateOneTimePayment, TypeOK, Link
  <2>2. CASE MailInvoice(r)
    BY <1>1, <2>2 DEF MailInvoice, TypeOK, Link
  <2> QED
    BY <1>4, <2>1, <2>2
<1>5. ASSUME NEW c \in Clients,
             FindBillingRequest(c) \/ CreateFlow(c) \/ SaveFlow(c)
      PROVE  Goal
  <2>1. client[c].pc # "idle"
    BY <1>5 DEF FindBillingRequest, CreateFlow, SaveFlow
  <2>2. CASE FindBillingRequest(c)
    <3>1. link'[k].provider = link[k].provider
      BY <1>1, <2>2 DEF FindBillingRequest, TypeOK, Link
    <3> QED
      BY <2>1, <3>1
  <2>3. CASE CreateFlow(c)
    <3>1. link'[k].provider = link[k].provider
      BY <1>1, <2>3 DEF CreateFlow, TypeOK, Link
    <3> QED
      BY <2>1, <3>1
  <2>4. CASE SaveFlow(c)
    <3>1. link'[k].provider = link[k].provider
      BY <1>1, <2>4 DEF SaveFlow, TypeOK, Link
    <3> QED
      BY <2>1, <3>1
  <2> QED
    BY <1>5, <2>2, <2>3, <2>4
<1>6. ASSUME NEW w \in Workers, NEW j \in Links, ReceiveFulfilled(w, j)
      PROVE  Quiet
  BY <1>1, <1>6 DEF ReceiveFulfilled, TypeOK, Link
<1>7. ASSUME NEW w \in Workers, RefuseLink(w)
      PROVE  Quiet
  BY <1>1, <1>7 DEF RefuseLink, TypeOK, Link
<1>8. ASSUME NEW j \in Links, ClientAuthorises(j)
      PROVE  Goal
  <2>1. link'[k].given \subseteq link[k].given
    BY <1>1, <1>8 DEF ClientAuthorises, Ended, TypeOK, Link
  <2>2. CASE j = k
    BY <1>8, <2>1, <2>2
  <2>3. CASE j # k
    BY <1>1, <1>8, <2>3 DEF ClientAuthorises, Ended, TypeOK
  <2> QED
    BY <2>2, <2>3
<1>9. ASSUME NEW j \in Links,
             \/ BillingRequestCancelled(j)
             \/ \E f \in 1..MaxFlows : FlowExpires(j, f)
      PROVE  Quiet
  <2>1. CASE BillingRequestCancelled(j)
    BY <1>1, <2>1 DEF BillingRequestCancelled, Ended, TypeOK, Link
  <2>2. ASSUME NEW f \in 1..MaxFlows, FlowExpires(j, f)
        PROVE  Quiet
    BY <1>1, <2>2 DEF FlowExpires, TypeOK, Link
  <2> QED
    BY <1>9, <2>1, <2>2
<1>10. Quiet => Goal
  OBVIOUS
<1>12. link'[k] = link[k] => Goal
  BY <1>2
<1> HIDE DEF Quiet, Goal
<1>11. Goal
  BY <1>3, <1>4, <1>5, <1>6, <1>7, <1>8, <1>9, <1>10, <1>12
     DEF Next, Begins, Environment, RequestSteps, ClientSteps, WorkerSteps, vars,
         StartUpdate, UpdateDraftDocument, StartSend, SetAccess,
         MarkInvoiceAsDelivered, EndRetryInvoicePayment, OpenPaymentPage,
         FindMandate, RefusePlan, CreateInstalmentSchedule,
         UpdateCreatedInstalmentPlan, LinkPayments, ReconcilePaymentPlan, Tick,
         PaymentsMove, Crash
<1> QED
  BY <1>11 DEF Goal

\* A schedule is created by a delivery under way, and an event is completed by
\* one that found it settled or settles it.
LEMMA ProviderStep ==
    ASSUME TypeOK, LinksExist, [Next]_vars, NEW k \in Links
    PROVE  /\ \/ schedules'[k] = schedules[k]
              \/ \E w \in Workers : worker[w].pc # "idle" /\ worker[w].link = k
           /\ \/ k \in events'
              \/ k \notin events
              \/ ~(PlanOf(k) /\ plan.schedule = 0 /\ ~plan.late)
              \/ \E w \in Workers : RefusePlan(w) /\ PlanOf(k) /\ plan'.late
              \/ \E w \in Workers : worker[w].pc = "ids" /\ worker[w].link = k
<1> DEFINE Goal ==
           /\ \/ schedules'[k] = schedules[k]
              \/ \E w \in Workers : worker[w].pc # "idle" /\ worker[w].link = k
           /\ \/ k \in events'
              \/ k \notin events
              \/ ~(PlanOf(k) /\ plan.schedule = 0 /\ ~plan.late)
              \/ \E w \in Workers : RefusePlan(w) /\ PlanOf(k) /\ plan'.late
              \/ \E w \in Workers : worker[w].pc = "ids" /\ worker[w].link = k
<1>1. schedules' = schedules /\ events \subseteq events' => Goal
  OBVIOUS
<1>2. ASSUME NEW w \in Workers, CreateInstalmentSchedule(w)
      PROVE  Goal
  BY <1>2 DEF CreateInstalmentSchedule, TypeOK
<1>3. ASSUME NEW w \in Workers, LinkPayments(w)
      PROVE  Goal
  BY <1>3 DEF LinkPayments, Done
<1>4. ASSUME NEW w \in Workers, RefusePlan(w)
      PROVE  Goal
  <2>1. CASE k \in events /\ k \notin events'
    <3>1. PlanOf(k) /\ plan' = [plan EXCEPT !.late = TRUE]
      BY <1>4, <2>1 DEF RefusePlan, Done
    <3>2. plan'.late
      BY <3>1 DEF TypeOK, Plan
    <3> QED
      BY <1>4, <3>1, <3>2 DEF RefusePlan
  <2> QED
    BY <1>4, <2>1 DEF RefusePlan
<1>5. ASSUME NEW w \in Workers, NEW j \in Links, ReceiveFulfilled(w, j)
      PROVE  Goal
  BY <1>5 DEF ReceiveFulfilled, Received, Done
<1>6. ASSUME NEW j \in Links, ClientAuthorises(j)
      PROVE  Goal
  BY <1>6 DEF ClientAuthorises
<1> HIDE DEF Goal
<1>7. Goal
  BY <1>1, <1>2, <1>3, <1>4, <1>5, <1>6
     DEF Next, Begins, Environment, RequestSteps, ClientSteps, WorkerSteps, vars,
         remote, local, history, StartUpdate, UpdateDraftDocument, StartSend,
         SetAccess, CreateBillingRequest, CreateOneTimePayment, MailInvoice,
         MarkInvoiceAsDelivered, EndRetryInvoicePayment, OpenPaymentPage,
         FindBillingRequest, CreateFlow, SaveFlow, FindMandate, RefuseLink,
         UpdateCreatedInstalmentPlan, ReconcilePaymentPlan,
         BillingRequestCancelled, FlowExpires, Tick, PaymentsMove, Crash
<1> QED
  BY <1>7 DEF Goal
-----------------------------------------------------------------------------
(***************************************************************************)
(* The plan, its schedule and the invoice                                  *)
(***************************************************************************)

\* An edition that is not one of a sent or sending invoice meets no plan.
LEMMA EditionBefore ==
    ASSUME TypeOK, PlanFromDelivery, NEW r \in Requests, UpdateDraftDocument(r),
           ~edited'
    PROVE  /\ ~edited /\ ~invoice.sent /\ ~plan.there
           /\ Sending = {}
           /\ ~plan'.there /\ plan'.schedule = 0
           /\ invoice'.sent = invoice.sent /\ invoice'.status = invoice.status
           /\ UNCHANGED <<link, client, worker, schedules>>
<1>1. invoice' = [invoice EXCEPT !.mode = req[r].mode] /\ plan' = NoPlan
  BY DEF UpdateDraftDocument
<1>2. invoice'.sent = invoice.sent /\ invoice'.status = invoice.status
  BY <1>1 DEF TypeOK, Invoice
<1>3. ~plan'.there /\ plan'.schedule = 0
  BY <1>1 DEF NoPlan
<1> QED
  BY <1>2, <1>3 DEF UpdateDraftDocument, PlanFromDelivery, remote

\* Nothing but the invoice, the plan and the request changes on delivery.
LEMMA PlanMadeFrame ==
    ASSUME TypeOK, PlanMade
    PROVE  /\ plan'.there /\ plan'.ref = access /\ plan'.schedule = 0
           /\ ~plan'.late /\ ~plan'.failed /\ plan'.exact
           /\ invoice'.sent /\ invoice'.status = "PENDING"
           /\ invoice'.mode = "INSTALMENTS"
           /\ UNCHANGED <<access, link, schedules, events, client, worker,
                          edited, overlapped>>
           /\ \E r \in Requests : MarkInvoiceAsDelivered(r)
<1>1. invoice \in Invoice /\ NoPlan \in Plan
  BY IdleFields DEF TypeOK
<1>2. plan' = [NoPlan EXCEPT !.there = TRUE, !.ref = access, !.exact = TRUE]
  BY AlwaysExact DEF PlanMade
<1>3. /\ plan'.there /\ plan'.ref = access /\ plan'.schedule = 0
      /\ ~plan'.late /\ ~plan'.failed /\ plan'.exact
  BY <1>2 DEF NoPlan
<1>4. invoice' = [invoice EXCEPT !.status = "PENDING", !.sent = TRUE]
  BY DEF PlanMade
<1>5. /\ invoice'.sent /\ invoice'.status = "PENDING"
      /\ invoice'.mode = "INSTALMENTS"
  BY <1>1, <1>4 DEF Invoice, PlanMade, NeedsPlan
<1> QED
  BY <1>3, <1>5 DEF PlanMade, MarkInvoiceAsDelivered, remote, history

LEMMA DeliveryStep ==
    ASSUME TypeOK, LinksExist, PlanFromDelivery, [Next]_vars
    PROVE  PlanFromDelivery'
<1> SUFFICES ASSUME ~edited'
             PROVE  plan'.there <=> invoice'.sent /\ invoice'.mode = "INSTALMENTS"
  BY DEF PlanFromDelivery
<1>1. ASSUME NEW r \in Requests, UpdateDraftDocument(r)
      PROVE  plan'.there <=> invoice'.sent /\ invoice'.mode = "INSTALMENTS"
  BY <1>1, EditionBefore
<1>2. CASE PlanMade
  BY <1>2, PlanMadeFrame
<1>3. CASE PlanKept
  BY <1>3 DEF PlanKept, PlanFromDelivery, NeedsPlan
<1> QED
  BY <1>1, <1>2, <1>3, PlanStep

LEMMA NothingStep ==
    ASSUME TypeOK, LinksExist, PlanFromDelivery, NothingBeforePlan, [Next]_vars
    PROVE  NothingBeforePlan'
<1> SUFFICES ASSUME ~edited', ~plan'.there
             PROVE  /\ \A k \in Links : /\ link'[k].given = {}
                                       /\ link'[k].provider # "fulfilled"
                                       /\ schedules'[k] = 0
                    /\ \A c \in Clients : client'[c].pc = "idle"
                    /\ \A w \in Workers : worker'[w].pc = "idle"
  BY DEF NothingBeforePlan
<1>1. ~edited /\ ~plan.there
  BY EditionBefore, PlanMadeFrame, PlanStep DEF PlanKept
<1>2. /\ \A k \in Links : /\ link[k].given = {}
                         /\ link[k].provider # "fulfilled"
                         /\ schedules[k] = 0
      /\ \A c \in Clients : client[c].pc = "idle"
      /\ \A w \in Workers : worker[w].pc = "idle"
  BY <1>1 DEF NothingBeforePlan
<1>3. ASSUME NEW k \in Links
      PROVE  /\ link'[k].given = {}
             /\ link'[k].provider # "fulfilled"
             /\ schedules'[k] = 0
  <2>1. ~ClientAuthorises(k)
    BY <1>2 DEF ClientAuthorises
  <2> QED
    BY <1>2, <2>1, SignedBy, ProviderStep
<1>4. ASSUME NEW c \in Clients
      PROVE  client'[c].pc = "idle"
  BY <1>1, <1>2, ClientStep
     DEF ClientMove, OpenPaymentPage, Authorisable, FindBillingRequest, CreateFlow
<1>5. ASSUME NEW w \in Workers
      PROVE  worker'[w].pc = "idle"
  BY <1>1, <1>2, WorkerStep DEF WorkerMove, PlanOf
<1> QED
  BY <1>3, <1>4, <1>5

LEMMA FollowedStep ==
    ASSUME TypeOK, LinksExist, PlanFromDelivery, NothingBeforePlan,
           PlanIsFollowed, [Next]_vars
    PROVE  PlanIsFollowed'
<1>1. CASE PlanKept
  <2>1. \A k : PlanOf(k)' <=> PlanOf(k)
    BY <1>1 DEF PlanKept, PlanOf
  <2>2. plan'.schedule # 0 => plan'.schedule = plan'.ref
    BY <1>1 DEF PlanKept, PlanIsFollowed, PlanOf
  <2>3. ASSUME ~edited', NEW k \in Links, schedules'[k] > 0
        PROVE  PlanOf(k)'
    <3>1. ~edited
      BY <1>1, <2>3 DEF PlanKept
    <3>2. PlanOf(k)
      BY <2>3, <3>1, ProviderStep DEF PlanIsFollowed
    <3> QED
      BY <2>1, <3>2
  <2>4. ASSUME ~edited', NEW w \in Workers, worker'[w].pc # "idle"
        PROVE  /\ PlanOf(worker'[w].link)
               /\ worker'[w].pc = "ids" => plan'.schedule = worker'[w].link
    <3>1. ~edited
      BY <1>1, <2>4 DEF PlanKept
    <3>2. PlanOf(worker'[w].link)
      BY <2>4, <3>1, WorkerStep DEF WorkerMove, PlanIsFollowed
    <3>3. ASSUME worker'[w].pc = "ids"
          PROVE  plan'.schedule = worker'[w].link
      <4>1. CASE worker'[w] = worker[w]
        <5>1. plan.schedule = worker[w].link /\ plan.ref = worker[w].link
          BY <3>1, <3>2, <3>3, <4>1 DEF PlanIsFollowed, PlanOf
        <5> QED
          BY <1>1, <4>1, <5>1 DEF PlanKept, PlanOf
      <4>2. CASE worker'[w].link = worker[w].link /\ UpdateCreatedInstalmentPlan(w)
        <5>1. PlanOf(worker[w].link)
          BY <3>2, <4>2
        <5>2. plan' = [plan EXCEPT !.schedule = worker[w].link]
          BY <4>2, <5>1 DEF UpdateCreatedInstalmentPlan
        <5> QED
          BY <4>2, <5>2 DEF TypeOK, Plan
      <4> QED
        BY <2>4, <3>3, <4>1, <4>2, WorkerStep DEF WorkerMove
    <3> QED
      BY <3>2, <3>3
  <2> QED
    BY <1>1, <2>2, <2>3, <2>4 DEF PlanIsFollowed, PlanOf, PlanKept
<1>2. CASE PlanMade
  <2>1. /\ plan'.there /\ plan'.schedule = 0
        /\ UNCHANGED <<schedules, worker, edited>>
        /\ ~plan.there
    BY <1>2, PlanMadeFrame DEF PlanMade
  <2> QED
    BY <2>1 DEF PlanIsFollowed, NothingBeforePlan
<1>3. ASSUME NEW r \in Requests, UpdateDraftDocument(r)
      PROVE  PlanIsFollowed'
  <2>1. plan'.schedule = 0
    BY <1>3 DEF UpdateDraftDocument, NoPlan
  <2>2. CASE ~edited'
    <3>1. ~edited /\ ~plan.there /\ UNCHANGED <<worker, schedules>>
      BY <1>3, <2>2, EditionBefore
    <3> QED
      BY <2>1, <3>1 DEF PlanIsFollowed, NothingBeforePlan
  <2> QED
    BY <2>1, <2>2 DEF PlanIsFollowed
<1> QED
  BY <1>1, <1>2, <1>3, PlanStep

LEMMA SettledStep ==
    ASSUME TypeOK, LinksExist, PlanFromDelivery, NothingBeforePlan,
           PlanIsFollowed, SettledBeforeDone, [Next]_vars
    PROVE  SettledBeforeDone'
<1> SUFFICES ASSUME NEW k \in Links, link'[k].provider = "fulfilled",
                    plan'.there, plan'.ref = k, k \notin events', ~edited'
             PROVE  plan'.schedule = k \/ plan'.late
  BY DEF SettledBeforeDone, PlanOf
<1>1. ~ClientAuthorises(k)
  BY DEF ClientAuthorises
<1>2. link[k].provider = "fulfilled"
  BY <1>1, SignedBy
<1>3. CASE PlanKept
  <2>1. PlanOf(k) /\ ~edited
    BY <1>3 DEF PlanKept, PlanOf
  <2>2. CASE plan.schedule = k \/ plan.late
    BY <1>3, <2>1, <2>2 DEF PlanKept, PlanOf
  <2>3. CASE ~(plan.schedule = k \/ plan.late)
    <3>1. k \in events
      BY <1>2, <2>1, <2>3 DEF SettledBeforeDone
    <3>2. plan.schedule = 0
      BY <2>1, <2>3 DEF PlanIsFollowed, PlanOf
    <3>3. ~\E w \in Workers : worker[w].pc = "ids" /\ worker[w].link = k
      BY <2>1, <2>3 DEF PlanIsFollowed
    <3> QED
      BY <2>1, <2>3, <3>1, <3>2, <3>3, ProviderStep
  <2> QED
    BY <2>2, <2>3
<1>4. CASE PlanMade
  BY <1>2, <1>4, PlanMadeFrame DEF PlanMade, NothingBeforePlan
<1>5. ASSUME NEW r \in Requests, UpdateDraftDocument(r)
      PROVE  FALSE
  BY <1>5, EditionBefore
<1> QED
  BY <1>3, <1>4, <1>5, PlanStep

LEMMA StatusStep ==
    ASSUME TypeOK, LinksExist, PlanFromDelivery, PlanIsFollowed, StatusFollows,
           SendersKnow, [Next]_vars
    PROVE  StatusFollows'
<1>1. \A r \in Requests : EndRetryInvoicePayment(r) => invoice.sent
  BY DEF EndRetryInvoicePayment, SendersKnow, Sending
<1>2. CASE PlanKept
  <2>1. invoice'.sent <=> invoice'.status # "DRAFT"
    BY <1>1, <1>2 DEF PlanKept, StatusFollows, PaymentsMove
  <2>2. plan'.failed => plan'.there
    <3>1. CASE plan'.failed = plan.failed
      BY <1>2, <3>1 DEF PlanKept, StatusFollows
    <3>2. ASSUME NEW t \in {"REJECTED", "PAID"}, PaymentsMove(t), plan'.failed
          PROVE  plan'.there
      <4>1. plan' = [plan EXCEPT !.failed = @ \/ (plan.there /\ t = "REJECTED")]
        BY <3>2 DEF PaymentsMove
      <4>2. plan.failed \/ plan.there
        BY <3>2, <4>1 DEF TypeOK, Plan
      <4> QED
        BY <1>2, <4>2 DEF PlanKept, StatusFollows
    <3> QED
      BY <1>2, <3>1, <3>2 DEF PlanKept
  <2>3. ASSUME ~edited', plan'.there, plan'.schedule = 0
        PROVE  invoice'.status = "PENDING" /\ ~plan'.failed
    <3>1. ~edited /\ plan.there
      BY <1>2, <2>3 DEF PlanKept
    <3>2. plan.schedule = 0
      <4>1. \A w \in Workers : UpdateCreatedInstalmentPlan(w) =>
                 worker[w].link # 0
        BY DEF UpdateCreatedInstalmentPlan, LinksExist, Links
      <4> QED
        BY <1>2, <2>3, <4>1 DEF PlanKept
    <3>3. /\ invoice.status = "PENDING" /\ ~plan.failed
          /\ invoice.mode = "INSTALMENTS"
      BY <3>1, <3>2 DEF StatusFollows, PlanFromDelivery
    <3>4. \A t \in {"REJECTED", "PAID"} : ~PaymentsMove(t)
      BY <3>2, <3>3 DEF PaymentsMove
    <3> QED
      BY <1>2, <3>3, <3>4 DEF PlanKept
  <2> QED
    BY <2>1, <2>2, <2>3 DEF StatusFollows
<1>3. CASE PlanMade
  BY <1>3, PlanMadeFrame DEF StatusFollows
<1>4. ASSUME NEW r \in Requests, UpdateDraftDocument(r)
      PROVE  StatusFollows'
  <2>1. invoice' = [invoice EXCEPT !.mode = req[r].mode] /\ plan' = NoPlan
    BY <1>4 DEF UpdateDraftDocument
  <2>2. invoice'.sent = invoice.sent /\ invoice'.status = invoice.status
    BY <2>1 DEF TypeOK, Invoice
  <2>3. ~plan'.there /\ ~plan'.failed
    BY <2>1 DEF NoPlan
  <2> QED
    BY <2>2, <2>3 DEF StatusFollows
<1> QED
  BY <1>2, <1>3, <1>4, PlanStep
-----------------------------------------------------------------------------
(***************************************************************************)
(* The requests that send                                                  *)
(***************************************************************************)

\* A request that sends has just begun, or it was sending for the same reason.
LEMMA SendingStep ==
    ASSUME TypeOK, [Next]_vars, NEW r \in Sending'
    PROVE  /\ r \in Requests
           /\ \/ StartSend(r, req'[r].why) /\ req'[r].pc = "link"
              \/ r \in Sending /\ req'[r].why = req[r].why
<1>1. r \in Requests /\ req'[r].pc \notin {"idle", "update"}
  BY DEF Sending
<1> QED
  BY <1>1, ReqStep
     DEF ReqMove, Same, Sending, CreateBillingRequest, SetAccess,
         CreateOneTimePayment, MailInvoice

\* An edition goes on next to nobody who sends, or is remembered.
LEMMA EditionAlone ==
    ASSUME TypeOK, PlanFromDelivery, [Next]_vars,
           NEW q \in Requests, UpdateDraftDocument(q), ~edited'
    PROVE  Sending' = {}
<1>1. Sending = {}
  BY EditionBefore
<1>2. \A r \in Requests : req'[r] = req[r] \/ req'[r].pc = "idle"
  BY DEF UpdateDraftDocument, IdleReq, TypeOK
<1> QED
  BY <1>1, <1>2 DEF Sending

LEMMA SendersStep ==
    ASSUME TypeOK, LinksExist, PlanFromDelivery, PlanIsFollowed, StatusFollows,
           SendersKnow, OneSender, [Next]_vars
    PROVE  SendersKnow'
<1>1. invoice.sent => invoice'.sent
  <2>1. CASE PlanMade
    BY <2>1, PlanMadeFrame
  <2>2. CASE PlanKept
    BY <2>2 DEF PlanKept
  <2>3. ASSUME NEW q \in Requests, UpdateDraftDocument(q)
        PROVE  invoice'.sent = invoice.sent
    BY <2>3 DEF UpdateDraftDocument, TypeOK, Invoice
  <2> QED
    BY <2>1, <2>2, <2>3, PlanStep
<1>2. ASSUME NEW r \in Sending', StartSend(r, req'[r].why)
      PROVE  /\ req'[r].why = "retry" => invoice.sent
             /\ req'[r].why # "send" /\ ~edited' =>
                  invoice.sent /\ (plan.there => plan.schedule # 0)
             /\ req'[r].why = "send" => ~invoice.sent
             /\ UNCHANGED <<invoice, plan, edited>>
  <2>1. /\ MaySend(req'[r].why) /\ UNCHANGED <<invoice, plan, edited>>
    BY <1>2 DEF StartSend
  <2>2. req'[r].why \in {"send", "retry", "renew"}
    BY TypeStep, SendingStep DEF TypeOK, Req
  <2>3. CASE req'[r].why = "send"
    BY <2>1, <2>3 DEF MaySend, StatusFollows
  <2>4. CASE req'[r].why = "retry"
    BY <2>1, <2>4 DEF MaySend, StatusFollows
  <2>5. CASE req'[r].why = "renew"
    BY <2>1, <2>5 DEF MaySend, StatusFollows, PlanFromDelivery
  <2> QED
    BY <2>1, <2>2, <2>3, <2>4, <2>5
<1>3. ASSUME NEW r \in Sending', r \in Sending, req'[r].why = req[r].why
      PROVE  /\ req'[r].why = "retry" => invoice'.sent
             /\ req'[r].why # "send" /\ ~edited' =>
                  invoice'.sent /\ (plan'.there => plan'.schedule # 0)
             /\ req'[r].why = "send" /\ ~edited' /\ ~overlapped' =>
                  ~invoice'.sent
  <2>1. req'[r].why = "retry" => invoice'.sent
    BY <1>1, <1>3 DEF SendersKnow
  <2>2. ASSUME req'[r].why # "send", ~edited'
        PROVE  invoice'.sent /\ (plan'.there => plan'.schedule # 0)
    <3>1. ~\E q \in Requests : UpdateDraftDocument(q)
      BY <1>3, <2>2, EditionAlone
    <3>2. ~edited
      BY <2>2, <3>1, PlanStep, PlanMadeFrame DEF PlanKept
    <3>3. invoice.sent /\ (plan.there => plan.schedule # 0)
      BY <1>3, <2>2, <3>2 DEF SendersKnow
    <3>4. ~PlanMade
      BY <3>2, <3>3 DEF PlanMade, NeedsPlan, PlanFromDelivery
    <3>5. \A w \in Workers : UpdateCreatedInstalmentPlan(w) =>
               worker[w].link # 0
      BY DEF UpdateCreatedInstalmentPlan, LinksExist, Links
    <3>6. PlanKept
      BY <3>1, <3>4, PlanStep
    <3> QED
      BY <1>1, <3>3, <3>5, <3>6 DEF PlanKept
  <2>3. ASSUME req'[r].why = "send", ~edited', ~overlapped'
        PROVE  ~invoice'.sent
    <3>1. ~\E q \in Requests : UpdateDraftDocument(q)
      BY <1>3, <2>3, EditionAlone
    <3>2. ~edited
      BY <2>3, <3>1, PlanStep, PlanMadeFrame DEF PlanKept
    <3>3. ~overlapped
      BY <2>3, OverlapStays
    <3>4. ~invoice.sent
      BY <1>3, <2>3, <3>2, <3>3 DEF SendersKnow
    <3>5. ASSUME NEW q \in Requests, MarkInvoiceAsDelivered(q)
          PROVE  FALSE
      <4>1. q \in Sending
        BY <3>5 DEF MarkInvoiceAsDelivered, Sending
      <4>2. q = r
        BY <1>3, <3>3, <4>1 DEF OneSender
      <4>3. req'[r].pc = "idle"
        BY <3>5, <4>2 DEF MarkInvoiceAsDelivered, TypeOK, IdleReq
      <4> QED
        BY <4>3 DEF Sending
    <3>6. PlanKept
      BY <3>1, <3>5, PlanStep DEF PlanMade
    <3> QED
      BY <3>4, <3>5, <3>6 DEF PlanKept
  <2> QED
    BY <2>1, <2>2, <2>3
<1> QED
  BY <1>2, <1>3, SendingStep DEF SendersKnow

LEMMA OneSenderStep ==
    ASSUME TypeOK, LinksExist, PlanFromDelivery, PlanIsFollowed, StatusFollows,
           SendersKnow, OneSender, [Next]_vars
    PROVE  OneSender'
<1> SUFFICES ASSUME ~overlapped'
             PROVE  /\ \A q, r \in Sending' : q = r
                    /\ \A r \in Sending' :
                         /\ req'[r].pc \in {"payment", "mail", "deliver"} =>
                              access' = req'[r].link
                         /\ req'[r].pc = "deliver" => link'[access'].mailed
                    /\ ~edited' /\ plan'.there /\ plan'.schedule = 0 /\ ~plan'.late =>
                         /\ access' # 0 /\ plan'.ref = access'
                         /\ link'[access'].mailed
  BY DEF OneSender
<1>1. ~overlapped /\ \A q, r \in Sending : q = r
  BY OverlapStays DEF OneSender
<1>2. ASSUME NEW q \in Requests, NEW why, StartSend(q, why)
      PROVE  Sending = {}
  BY <1>2 DEF StartSend
<1>3. \A q, r \in Sending' : q = r
  <2> SUFFICES ASSUME NEW q \in Sending', NEW r \in Sending'
               PROVE  q = r
    OBVIOUS
  <2>1. CASE q \in Sending /\ r \in Sending
    BY <1>1, <2>1
  <2>2. ASSUME NEW t \in Sending', StartSend(t, req'[t].why)
        PROVE  \A u \in Sending' : u = t
    <3>1. \A u \in Requests : u # t => req'[u] = req[u]
      BY <2>2 DEF StartSend, TypeOK
    <3>2. Sending = {}
      BY <2>2, SendingStep, <1>2
    <3> QED
      BY <3>1, <3>2 DEF Sending
  <2> QED
    BY <2>1, <2>2, SendingStep
<1>4. ASSUME NEW k \in Made, link[k].mailed
      PROVE  link'[k].mailed
  BY <1>4, LinkStep DEF Created, Kept, Made
<1>5. access' = access \/ \E q \in Requests : SetAccess(q)
  BY AccessStep
<1>6. ASSUME NEW r \in Sending', req'[r].pc \in {"payment", "mail", "deliver"}
      PROVE  access' = req'[r].link
  <2>1. r \in Requests
    BY DEF Sending
  <2>2. CASE SetAccess(r) /\ Same(r)
    BY <2>2 DEF SetAccess, CurrentAccess, Same
  <2>3. CASE /\ req[r].pc \in {"payment", "mail", "deliver"}
             /\ req'[r].link = req[r].link
             /\ ~SetAccess(r)
    <3>1. r \in Sending /\ access = req[r].link
      BY <1>1, <2>1, <2>3 DEF OneSender, Sending
    <3>2. ASSUME NEW q \in Requests, SetAccess(q)
          PROVE  FALSE
      <4>1. q \in Sending
        BY <3>2 DEF SetAccess, Sending
      <4> QED
        BY <1>1, <2>3, <3>1, <3>2, <4>1
    <3> QED
      BY <1>5, <2>3, <3>1, <3>2
  <2>4. SetAccess(r) => req[r].pc = "access"
    BY DEF SetAccess
  <2> QED
    BY <1>6, <2>1, <2>2, <2>3, <2>4, ReqStep
       DEF ReqMove, Same, CreateOneTimePayment, MailInvoice
<1>7. ASSUME NEW r \in Sending', req'[r].pc = "deliver"
      PROVE  link'[access'].mailed
  <2>1. r \in Requests /\ access' = req'[r].link
    BY <1>6, <1>7 DEF Sending
  <2>2. CASE req'[r] = req[r]
    <3>1. r \in Sending /\ req[r].link \in Made
      BY <1>7, <2>1, <2>2 DEF Sending, LinksExist
    <3>2. access = req[r].link /\ link[access].mailed
      BY <1>1, <1>7, <2>2, <3>1 DEF OneSender
    <3> QED
      BY <1>4, <2>1, <2>2, <3>1, <3>2
  <2>3. CASE MailInvoice(r) /\ Same(r)
    <3>1. req[r].link \in Links /\ link[req[r].link] \in Link
      BY <2>1, <2>3 DEF MailInvoice, LinksExist, Made, TypeOK
    <3>2. link'[req[r].link].mailed
      BY <2>3, <3>1 DEF MailInvoice, TypeOK, Link
    <3> QED
      BY <2>1, <2>3, <3>2 DEF Same
  <2> QED
    BY <1>7, <2>1, <2>2, <2>3, ReqStep DEF ReqMove
<1>8. ASSUME ~edited', plan'.there, plan'.schedule = 0, ~plan'.late
      PROVE  access' # 0 /\ plan'.ref = access' /\ link'[access'].mailed
  <2>1. CASE PlanMade
    <3>1. PICK r \in Requests : MarkInvoiceAsDelivered(r)
      BY <2>1, PlanMadeFrame
    <3>2. r \in Sending /\ req[r].pc = "deliver" /\ req[r].link \in Made
      BY <3>1 DEF MarkInvoiceAsDelivered, Sending, LinksExist
    <3>3. access = req[r].link /\ link[access].mailed
      BY <1>1, <3>2 DEF OneSender
    <3>4. access # 0
      BY <3>2, <3>3 DEF Made, Links
    <3> QED
      BY <2>1, <3>3, <3>4, PlanMadeFrame
  <2>2. CASE PlanKept
    <3>1. ~edited /\ plan.there /\ ~plan.late
      BY <1>8, <2>2 DEF PlanKept
    <3>2. plan.schedule = 0
      <4>1. \A w \in Workers : UpdateCreatedInstalmentPlan(w) =>
                 worker[w].link # 0
        BY DEF UpdateCreatedInstalmentPlan, LinksExist, Links
      <4> QED
        BY <1>8, <2>2, <4>1 DEF PlanKept
    <3>3. access # 0 /\ plan.ref = access /\ link[access].mailed
      BY <1>1, <3>1, <3>2 DEF OneSender
    <3>4. ASSUME NEW q \in Requests, SetAccess(q)
          PROVE  FALSE
      <4>1. q \in Sending
        BY <3>4 DEF SetAccess, Sending
      <4> QED
        BY <1>1, <3>1, <3>2, <4>1 DEF SendersKnow, PlanFromDelivery
    <3>5. access' = access /\ access \in Made
      BY <1>5, <3>3, <3>4 DEF LinksExist
    <3> QED
      BY <1>4, <2>2, <3>3, <3>5 DEF PlanKept
  <2>3. ~\E q \in Requests : UpdateDraftDocument(q)
    BY <1>8, EditionBefore
  <2> QED
    BY <2>1, <2>2, <2>3, PlanStep
<1> QED
  BY <1>3, <1>6, <1>7, <1>8
-----------------------------------------------------------------------------
(***************************************************************************)
(* The theorems                                                            *)
(***************************************************************************)

LEMMA InductiveInit == Init => IInv /\ ScheduleIsExact
<1> SUFFICES ASSUME Init
             PROVE  IInv /\ ScheduleIsExact
  OBVIOUS
<1>1. TypeOK
  BY TypeInit
<1>2. /\ \A k \in Links : link[k] = NoLink
      /\ \A r \in Requests : req[r] = IdleReq
      /\ \A c \in Clients : client[c] = IdleClient
      /\ \A w \in Workers : worker[w] = IdleWorker
      /\ \A k \in Links : schedules[k] = 0
      /\ plan = NoPlan /\ access = 0
  BY DEF Init
<1>3. /\ invoice.status = "DRAFT" /\ ~invoice.sent
      /\ ~plan.there /\ plan.schedule = 0 /\ ~plan.failed
  BY <1>2 DEF Init, NoPlan
<1>4. Made = {} /\ Sending = {}
  BY <1>2 DEF Made, Sending, NoLink, IdleReq
<1>5. Made = 1..0 /\ 0 \in Nat
  BY <1>4
<1>6. LinksExist
  BY <1>2, <1>5 DEF LinksExist, IdleReq, IdleClient, IdleWorker
<1>7. LockHeld /\ FlowsInOrder /\ PaymentBeforeMail
  BY <1>2 DEF LockHeld, FlowsInOrder, PaymentBeforeMail, NoLink, IdleReq,
     IdleClient
<1>8. PlanFromDelivery /\ NothingBeforePlan /\ ScheduleIsExact
  BY <1>2, <1>3 DEF PlanFromDelivery, NothingBeforePlan, ScheduleIsExact, NoLink,
     IdleClient, IdleWorker
<1>9. PlanIsFollowed /\ SettledBeforeDone
  BY <1>2, <1>3 DEF PlanIsFollowed, SettledBeforeDone, PlanOf, IdleWorker
<1>10. StatusFollows /\ SendersKnow /\ OneSender
  BY <1>3, <1>4 DEF StatusFollows, SendersKnow, OneSender
<1> QED
  BY <1>1, <1>6, <1>7, <1>8, <1>9, <1>10 DEF IInv

LEMMA ExactStep ==
    ASSUME TypeOK, LinksExist, ScheduleIsExact, [Next]_vars
    PROVE  ScheduleIsExact'
<1>1. \A r \in Requests : UpdateDraftDocument(r) => ~plan'.there
  BY DEF UpdateDraftDocument, NoPlan
<1> QED
  BY <1>1, PlanStep, PlanMadeFrame DEF PlanKept, ScheduleIsExact

LEMMA InductiveStep == IInv /\ [Next]_vars => IInv'
BY TypeStep, LinksExistStep, LockStep, FlowStep, PaymentStep, DeliveryStep,
   NothingStep, FollowedStep, SettledStep, StatusStep, SendersStep, OneSenderStep
   DEF IInv

LEMMA Inductive == Spec => [](IInv /\ ScheduleIsExact)
<1>1. IInv /\ ScheduleIsExact /\ [Next]_vars => (IInv /\ ScheduleIsExact)'
  BY InductiveStep, ExactStep DEF IInv
<1> QED
  BY <1>1, InductiveInit, PTL DEF Spec

\* Every variable keeps its type.
THEOREM TypeCorrect == Spec => []TypeOK
<1>1. IInv => TypeOK
  BY DEF IInv
<1> QED
  BY <1>1, Inductive, PTL

\* A billing request has one live flow at most: the row of the access is locked
\* from the read of the link to the write of its flow, and the idempotency key
\* is the flow that expired.
THEOREM FlowIsOne == Spec => []OneLiveFlow
<1>1. IInv => OneLiveFlow
  <2> SUFFICES ASSUME IInv, NEW k \in Links
               PROVE  Cardinality(link[k].live) <= 1
    BY DEF OneLiveFlow
  <2>1. link[k].live \subseteq {link[k].made}
    BY DEF IInv, FlowsInOrder
  <2>2. IsFiniteSet({link[k].made}) /\ Cardinality({link[k].made}) = 1
    BY FS_Singleton
  <2> QED
    BY <2>1, <2>2, FS_Subset
<1> QED
  BY <1>1, Inductive, PTL

\* An invoice is collected by one schedule at most, whatever is delivered twice
\* or stops half-way, unless it is edited after it was sent.
THEOREM ScheduleIsOne == Spec => []OneSchedule
<1>1. IInv => OneSchedule
  <2> SUFFICES ASSUME IInv
               PROVE  OneSchedule
    OBVIOUS
  <2>1. \A k \in Links : schedules[k] <= 1
    BY DEF IInv, TypeOK
  <2>2. ASSUME ~edited, NEW j \in Links, NEW k \in Links,
               schedules[j] > 0, schedules[k] > 0
        PROVE  j = k
    BY <2>2 DEF IInv, PlanIsFollowed, PlanOf
  <2> QED
    BY <2>1, <2>2 DEF OneSchedule
<1> QED
  BY <1>1, Inductive, PTL

\* The payment of a one-time link is known before anybody can open the link.
THEOREM PaymentIsKnown == Spec => []OpenableLinkHasPayment
<1>1. IInv => OpenableLinkHasPayment
  BY DEF IInv, TypeOK, PaymentBeforeMail, OpenableLinkHasPayment
<1> QED
  BY <1>1, Inductive, PTL

\* The plan is made by the delivery, and only by it.
THEOREM PlanIsFromDelivery == Spec => []PlanFromDelivery
<1>1. IInv => PlanFromDelivery
  BY DEF IInv
<1> QED
  BY <1>1, Inductive, PTL

\* With one request that sends at a time, the client can reach the billing
\* request that the plan waits for.
THEOREM PlanIsPayable == Spec => []DeliveredIsPayable
<1>1. IInv => DeliveredIsPayable
  BY DEF IInv, OneSender, DeliveredIsPayable
<1> QED
  BY <1>1, Inductive, PTL

\* The handler of the mandate never refuses the amounts of the plan.
THEOREM PlanIsExact == Spec => []ScheduleIsExact
BY Inductive, PTL

\* The event of a signed mandate is completed only once the plan has its
\* schedule or the reason why there is none.
THEOREM MandateIsSettled == Spec => []SettledBeforeDone
<1>1. IInv => SettledBeforeDone
  BY DEF IInv
<1> QED
  BY <1>1, Inductive, PTL
=============================================================================
