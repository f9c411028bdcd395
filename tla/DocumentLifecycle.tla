------------------------- MODULE DocumentLifecycle -------------------------
(***************************************************************************)
(* The documents of one company (DocumentService): an estimate is created, *)
(* sent, answered by the client through the link of a negotiation,         *)
(* replaced by a new version, converted to an invoice; drafts are deleted, *)
(* and the list of documents deletes anything.  The daily reminders        *)
(* (AutomaticRemindersService), one sweep in each process of the backend,  *)
(* send new links for the estimates that wait for an answer.               *)
(*                                                                         *)
(* Each read or write of the database is a step, a transaction is one step *)
(* (two transactions that create the same version: the unique key makes    *)
(* one of them fail, which Stop covers).  Ids are given in the order of    *)
(* createdAt.  The year of a number does not change.  What a document      *)
(* says, and how an invoice is sent, are not here: see InstalmentSetup.    *)
(***************************************************************************)
EXTENDS Naturals, FiniteSets, FiniteSetsExt

CONSTANTS
    Created,     \* types of the documents that are created from nothing
    MaxDocs,     \* bound on the documents created
    MaxLinks,    \* bound on the negotiations created
    Requests,    \* requests of the company's users
    Clients,     \* requests of its client
    Sweeps,      \* sweeps of the reminders
    MaxBusy,     \* bound on the requests and sweeps under way at once
    MaxReminders,\* bound on the reminders mailed
    MaxStops     \* bound on the reminders that stop half-way

ASSUME DocumentAssumption ==
    /\ Created \subseteq {"ESTIMATE", "INVOICE"}
    /\ MaxDocs \in Nat
    /\ MaxLinks \in Nat
    /\ IsFiniteSet(Sweeps)
    /\ MaxBusy \in Nat
    /\ MaxReminders \in Nat
    /\ MaxStops \in Nat

Ids   == 1..MaxDocs
Links == 1..MaxLinks

DocumentType == {"ESTIMATE", "INVOICE"}
EstimateStatus == {"DRAFT", "SENT", "ACCEPTED", "REJECTED", "SUPERSEDED"}
Answers == {"ACCEPTED", "REJECTED", "RENEGOCIATED"}

VARIABLES
    made,      \* number of documents ever created
    doc,       \* the rows
    linked,    \* number of negotiations ever created
    link,      \* the negotiations: the estimate, the status
    req,       \* local state of each request of a user
    client,    \* local state of each request of the client
    cron,      \* local state of each sweep of the reminders
    reminded,  \* estimates with a processed reminder
    reminders, \* history: reminder mails sent for each estimate
    overlapped,\* history: estimates that two sweeps had checked and not yet
               \* recorded at the same time
    accepted,  \* history: estimates accepted at some time
    mass,      \* history: documents that are no drafts were deleted
    stops

rows == <<made, doc, linked, link>>
history == <<reminders, overlapped, accepted, mass, stops>>
vars == <<rows, req, client, cron, reminded, history>>

NoRow == [type |-> "ESTIMATE", number |-> 0, version |-> 0, last |-> FALSE,
          status |-> "DRAFT", source |-> 0, there |-> FALSE, root |-> 0,
          readAt |-> 0]

NoLink == [on |-> 0, status |-> "PENDING"]

IdleReq == [pc |-> "idle", type |-> "ESTIMATE", number |-> 0, on |-> 0,
            readAt |-> 0]

IdleCron == [pc |-> "idle", todo |-> {}, on |-> 0]

\* fresh: the link had not been used when it was read.
IdleClient == [pc |-> "idle", link |-> 0, answer |-> "ACCEPTED", fresh |-> FALSE]

Init ==
    /\ made = 0
    /\ doc = [d \in Ids |-> NoRow]
    /\ linked = 0
    /\ link = [n \in Links |-> NoLink]
    /\ req = [r \in Requests |-> IdleReq]
    /\ client = [c \in Clients |-> IdleClient]
    /\ cron = [s \in Sweeps |-> IdleCron]
    /\ reminded = {}
    /\ reminders = [d \in Ids |-> 0]
    /\ overlapped = {}
    /\ accepted = {}
    /\ mass = FALSE
    /\ stops = 0

\* One more request or sweep may begin.
MayBegin ==
    Cardinality({r \in Requests : req[r].pc # "idle"})
      + Cardinality({c \in Clients : client[c].pc # "idle"})
      + Cardinality({s \in Sweeps : cron[s].pc # "idle"}) < MaxBusy

There(type) == {d \in Ids : doc[d].there /\ doc[d].type = type}

SameNumber(type, number) == {d \in There(type) : doc[d].number = number}

InvoicesOf(d) == {i \in There("INVOICE") : doc[i].source = d}

-----------------------------------------------------------------------------
(***************************************************************************)
(* Creation and numbers                                                    *)
(***************************************************************************)

\* One more than the number of the document of this type created last: not
\* the greatest number, since a new version is created with an old one.
DocumentNumber(type) ==
    IF There(type) = {} THEN 1 ELSE doc[Max(There(type))].number + 1

\* A mutant: nothing refuses a number that is taken.
TakenNever(row) == FALSE

\* The unique key (company, number, version); the prefix of a number tells
\* the type.
Taken(row) ==
    \E d \in SameNumber(row.type, row.number) : doc[d].version = row.version

\* A new row, and the local state of the request that created it; a row that
\* is taken is refused, and the request fails.
Insert(r, row, next) ==
    IF Taken(row)
    THEN /\ req' = [req EXCEPT ![r] = IdleReq]
         /\ UNCHANGED <<made, doc>>
    ELSE /\ made < MaxDocs
         /\ made' = made + 1
         /\ doc' = [doc EXCEPT ![made + 1] = [row EXCEPT !.there = TRUE]]
         /\ req' = [req EXCEPT ![r] = next]

\* createDocument reads the number outside the transaction that creates.
StartCreate(r, type) ==
    /\ req[r].pc = "idle"
    /\ made < MaxDocs
    /\ req' = [req EXCEPT ![r] = [IdleReq EXCEPT !.pc = "create", !.type = type,
                                                 !.number = DocumentNumber(type)]]
    /\ UNCHANGED <<rows, client, cron, reminded, history>>

CreateDocument(r) ==
    /\ req[r].pc = "create"
    /\ Insert(r, [NoRow EXCEPT !.type = req[r].type, !.number = req[r].number,
                               !.version = 1, !.last = TRUE, !.root = made + 1],
              IdleReq)
    /\ UNCHANGED <<linked, link, client, cron, reminded, history>>

-----------------------------------------------------------------------------
(***************************************************************************)
(* convertEstimateToInvoice                                                *)
(***************************************************************************)

\* A mutant: an estimate that was sent may be converted.
ConvertibleOnceSent(d) ==
    /\ d \in There("ESTIMATE")
    /\ doc[d].status \in {"SENT", "ACCEPTED"}
    /\ InvoicesOf(d) = {}

\* A mutant: an estimate may be converted again.
ConvertibleAgain(d) == d \in There("ESTIMATE") /\ doc[d].status = "ACCEPTED"

Convertible(d) ==
    /\ d \in There("ESTIMATE")
    /\ doc[d].status = "ACCEPTED"
    /\ InvoicesOf(d) = {}

StartConvert(r, d) ==
    /\ req[r].pc = "idle"
    /\ Convertible(d)
    /\ req' = [req EXCEPT ![r] = [IdleReq EXCEPT !.pc = "convertNumber", !.on = d,
                                                 !.readAt = made]]
    /\ UNCHANGED <<rows, client, cron, reminded, history>>

ReadInvoiceNumber(r) ==
    /\ req[r].pc = "convertNumber"
    /\ req' = [req EXCEPT ![r].pc = "convertCreate",
                          ![r].number = DocumentNumber("INVOICE")]
    /\ UNCHANGED <<rows, client, cron, reminded, history>>

\* The key to the source document.
SourceThere(d) == doc[d].there

\* From the estimate as it was read.  (Its lines are copied afterwards.)
ConvertEstimateToInvoice(r) ==
    LET d == req[r].on IN
    /\ req[r].pc = "convertCreate"
    /\ IF SourceThere(d)
       THEN Insert(r, [NoRow EXCEPT !.type = "INVOICE", !.number = req[r].number,
                                    !.version = 1, !.last = TRUE, !.source = d,
                                    !.root = made + 1, !.readAt = req[r].readAt],
                   IdleReq)
       ELSE /\ req' = [req EXCEPT ![r] = IdleReq]
            /\ UNCHANGED <<made, doc>>
    /\ UNCHANGED <<linked, link, client, cron, reminded, history>>

-----------------------------------------------------------------------------
(***************************************************************************)
(* createNewDocumentVersion                                                *)
(***************************************************************************)

Replaceable(d) ==
    /\ d \in There("ESTIMATE")
    /\ doc[d].status = "SUPERSEDED"
    /\ doc[d].last

StartVersion(r, d) ==
    /\ req[r].pc = "idle"
    /\ Replaceable(d)
    /\ req' = [req EXCEPT ![r] = [IdleReq EXCEPT !.pc = "version", !.on = d]]
    /\ UNCHANGED <<rows, client, cron, reminded, history>>

\* The transaction: the latest version is read again, the source is not.
CreateNewDocumentVersion(r) ==
    LET d == req[r].on
        latest == Max({doc[e].version : e \in SameNumber("ESTIMATE", doc[d].number)}
                      \cup {0})
    IN  /\ req[r].pc = "version"
        /\ req' = [req EXCEPT ![r] = IdleReq]
        /\ IF doc[d].there
           THEN /\ made < MaxDocs
                /\ made' = made + 1
                /\ doc' = [doc EXCEPT
                     ![made + 1] = [NoRow EXCEPT !.number = doc[d].number,
                                                 !.version = latest + 1,
                                                 !.last = TRUE, !.there = TRUE,
                                                 !.root = doc[d].root],
                     ![d].last = FALSE]
           ELSE UNCHANGED <<made, doc>>
        /\ UNCHANGED <<linked, link, client, cron, reminded, history>>

-----------------------------------------------------------------------------
(***************************************************************************)
(* sendDocumentToClient, for an estimate: no status is checked             *)
(***************************************************************************)

AddLink(d) ==
    /\ linked < MaxLinks
    /\ linked' = linked + 1
    /\ link' = [link EXCEPT ![linked + 1] = [on |-> d, status |-> "PENDING"]]

\* The negotiation is created and its link mailed.  (If the mail fails nobody
\* knows the link, and the request ends: nothing has changed.)
SendEstimate(r, d) ==
    /\ req[r].pc = "idle"
    /\ d \in There("ESTIMATE")
    /\ AddLink(d)
    /\ req' = [req EXCEPT ![r] = [IdleReq EXCEPT !.pc = "deliver", !.on = d]]
    /\ UNCHANGED <<made, doc, client, cron, reminded, history>>

\* The estimate becomes SENT, even if the client has answered meanwhile.
MarkDocumentAsDelivered(r) ==
    LET d == req[r].on IN
    /\ req[r].pc = "deliver"
    /\ req' = [req EXCEPT ![r] = IdleReq]
    /\ doc' = IF doc[d].there THEN [doc EXCEPT ![d].status = "SENT"] ELSE doc
    /\ UNCHANGED <<made, linked, link, client, cron, reminded, history>>

-----------------------------------------------------------------------------
(***************************************************************************)
(* The client answers: the negotiation must be PENDING when it is read;    *)
(* neither it nor the estimate is checked when they are written            *)
(***************************************************************************)

\* A mutant: a link may be used again.
OpenAlways(n) == link[n].on # 0

Open(n) == link[n].on # 0 /\ link[n].status = "PENDING"

ReadNegociation(c, n, answer) ==
    /\ client[c].pc = "idle"
    /\ Open(n)
    /\ client' = [client EXCEPT ![c] =
         [pc |-> "answer", link |-> n, answer |-> answer,
          fresh |-> link[n].status = "PENDING"]]
    /\ UNCHANGED <<rows, req, cron, reminded, history>>

\* What the answer makes of the estimate: setNegociationStatus and
\* renegociateByToken.
Answered(answer) == IF answer = "RENEGOCIATED" THEN "SUPERSEDED" ELSE answer

AnswerNegociation(c) ==
    LET n == client[c].link
        d == link[n].on
    IN  /\ client[c].pc = "answer"
        /\ client' = [client EXCEPT ![c] = IdleClient]
        /\ IF d # 0
           THEN /\ link' = [link EXCEPT ![n].status = client[c].answer]
                /\ doc' = [doc EXCEPT ![d].status = Answered(client[c].answer)]
                /\ accepted' = accepted \cup
                     (IF client[c].answer = "ACCEPTED" THEN {d} ELSE {})
           ELSE UNCHANGED <<link, doc, accepted>>
        /\ UNCHANGED <<made, linked, req, cron, reminded, reminders, overlapped, mass,
                       stops>>

-----------------------------------------------------------------------------
(***************************************************************************)
(* Deletion                                                                *)
(***************************************************************************)

\* The rows S are gone, and with an estimate its negotiations (onDelete:
\* Cascade).
Remove(S) ==
    /\ doc' = [d \in Ids |-> IF d \in S THEN NoRow ELSE doc[d]]
    /\ link' = [n \in Links |-> IF link[n].on \in S THEN NoLink ELSE link[n]]
    /\ reminders' = [d \in Ids |-> IF d \in S THEN 0 ELSE reminders[d]]
    /\ accepted' = accepted \ S

\* Neither the source of a document that stays nor a document with a processed
\* reminder is deleted (onDelete: Restrict).
Referenced(S) ==
    \/ \E i \in Ids \ S : doc[i].there /\ doc[i].type = "INVOICE" /\ doc[i].source \in S
    \/ S \cap reminded # {}

DeleteDraftDocument(d) ==
    /\ doc[d].there
    /\ doc[d].status = "DRAFT"
    /\ ~Referenced({d})
    /\ Remove({d})
    /\ UNCHANGED <<made, linked, req, client, cron, reminded, overlapped, mass, stops>>

\* Any document of the list, whatever its status.
MassDeleteDocuments(S) ==
    /\ \A d \in S : doc[d].there
    /\ ~Referenced(S)
    /\ Remove(S)
    /\ mass' = (mass \/ \E d \in S : doc[d].status # "DRAFT")
    /\ UNCHANGED <<made, linked, req, client, cron, reminded, overlapped, stops>>

-----------------------------------------------------------------------------
(***************************************************************************)
(* The reminders of one type: each process sweeps, without a lock.  The    *)
(* candidates are read at the start of a sweep and not read again; for     *)
(* each of them it checks that none was recorded, mails, then records      *)
(***************************************************************************)

\* Those among them whose date has come, of a company that may remind, are
\* chosen by the environment.
Candidates == {d \in There("ESTIMATE") : doc[d].status = "SENT" /\ doc[d].last}

StartReminders(s, S) ==
    /\ cron[s].pc = "idle"
    /\ cron' = [cron EXCEPT ![s] = [IdleCron EXCEPT !.pc = "next", !.todo = S]]
    /\ UNCHANGED <<rows, req, client, reminded, history>>

SumOfReminders == MapThenSumSet(LAMBDA d : reminders[d], Ids)

\* A mutant: what was sent before is not looked at.
AlreadyRemindedNever(d) == FALSE

AlreadyReminded(d) == d \in reminded

\* The sweep goes on with what is left.
GoOn(todo) == [pc |-> IF todo = {} THEN "idle" ELSE "next", todo |-> todo, on |-> 0]

\* The sweeps that have found d not reminded and not yet recorded it.
Reminding(d) == {s \in Sweeps : cron[s].pc \in {"mail", "mark"} /\ cron[s].on = d}

CheckReminder(s, d) ==
    LET todo == cron[s].todo \ {d} IN
    /\ cron[s].pc = "next"
    /\ d \in cron[s].todo
    /\ IF AlreadyReminded(d)
       THEN cron' = [cron EXCEPT ![s] = GoOn(todo)] /\ UNCHANGED overlapped
       ELSE /\ cron' = [cron EXCEPT ![s] = [pc |-> "mail", todo |-> todo, on |-> d]]
            /\ overlapped' = IF Reminding(d) = {} THEN overlapped
                             ELSE overlapped \cup {d}
    /\ UNCHANGED <<rows, req, client, reminded, reminders, accepted, mass, stops>>

\* A link is created and mailed (one beyond MaxLinks is not answered).  The
\* new negotiation refers to the estimate, and fails if it is gone.
SendReminder(s) ==
    LET d == cron[s].on IN
    /\ cron[s].pc = "mail"
    /\ IF doc[d].there
       THEN /\ SumOfReminders < MaxReminders
            /\ IF linked < MaxLinks THEN AddLink(d) ELSE UNCHANGED <<linked, link>>
            /\ reminders' = [reminders EXCEPT ![d] = @ + 1]
            /\ cron' = [cron EXCEPT ![s].pc = "mark"]
       ELSE /\ cron' = [cron EXCEPT ![s] = GoOn(@.todo)]
            /\ UNCHANGED <<linked, link, reminders>>
    /\ UNCHANGED <<made, doc, req, client, reminded, overlapped, accepted, mass, stops>>

\* The row may exist (unique key) or the estimate be gone: nothing is written,
\* and the sweep goes on with the next one.
MarkReminderAsSent(s) ==
    LET d == cron[s].on IN
    /\ cron[s].pc = "mark"
    /\ reminded' = IF doc[d].there THEN reminded \cup {d} ELSE reminded
    /\ cron' = [cron EXCEPT ![s] = GoOn(@.todo)]
    /\ UNCHANGED <<rows, req, client, history>>

-----------------------------------------------------------------------------

\* A request ends half-way: the process stops, or the database fails.
Stop(r) ==
    /\ req[r].pc # "idle"
    /\ req' = [req EXCEPT ![r] = IdleReq]
    /\ UNCHANGED <<rows, client, cron, reminded, history>>

\* A reminder ends half-way: the link, the mail or the database fails and the
\* sweep goes on with the next one, or the process stops.  (A link that was
\* created and not mailed is known to nobody.)
StopReminder(s) ==
    /\ cron[s].pc # "idle"
    /\ IF cron[s].pc = "mark"
       THEN stops < MaxStops /\ stops' = stops + 1
       ELSE UNCHANGED stops
    /\ \E k \in {GoOn(cron[s].todo), IdleCron} : cron' = [cron EXCEPT ![s] = k]
    /\ UNCHANGED <<rows, req, client, reminded, reminders, overlapped, accepted, mass>>

RequestBegins(r) ==
    \/ \E type \in Created : StartCreate(r, type)
    \/ \E d \in 1..made : StartConvert(r, d) \/ StartVersion(r, d) \/ SendEstimate(r, d)

RequestSteps(r) ==
    \/ CreateDocument(r)
    \/ ReadInvoiceNumber(r)
    \/ ConvertEstimateToInvoice(r)
    \/ CreateNewDocumentVersion(r)
    \/ MarkDocumentAsDelivered(r)
    \/ Stop(r)

CronSteps(s) ==
    \/ \E d \in cron[s].todo : CheckReminder(s, d)
    \/ SendReminder(s)
    \/ MarkReminderAsSent(s)
    \/ StopReminder(s)

Begins ==
    /\ MayBegin
    /\ \/ \E r \in Requests : RequestBegins(r)
       \/ \E c \in Clients, n \in 1..linked, answer \in Answers :
             ReadNegociation(c, n, answer)
       \/ \E s \in Sweeps, S \in SUBSET Candidates : S # {} /\ StartReminders(s, S)

Deletions ==
    \/ \E d \in 1..made : DeleteDraftDocument(d)
    \/ \E S \in SUBSET (1..made) : S # {} /\ MassDeleteDocuments(S)

Next ==
    \/ Begins
    \/ \E r \in Requests : RequestSteps(r)
    \/ \E c \in Clients : AnswerNegociation(c)
    \/ \E s \in Sweeps : CronSteps(s)
    \/ Deletions

Spec == Init /\ [][Next]_vars

-----------------------------------------------------------------------------
(***************************************************************************)
(* Properties                                                              *)
(***************************************************************************)

\* The documents that carry one number are the versions of one estimate, or
\* one invoice: requests that compute the same number at the same time, the
\* deletion of drafts and the numbers given back by new versions never mix
\* two of them.  Only the deletion of documents that are no drafts can.
OneLineagePerNumber ==
    ~mass => \A d, e \in Ids :
        /\ doc[d].there /\ doc[e].there
        /\ doc[d].type = doc[e].type
        /\ doc[d].number = doc[e].number
        => doc[d].root = doc[e].root

\* The invoice of an estimate comes from one the client accepted, and the
\* estimate stays as long as the invoice: whatever was sent, answered,
\* converted or deleted meanwhile, its origin can be shown.
InvoiceHasAcceptedEstimate ==
    \A i \in There("INVOICE") :
        doc[i].source # 0 => /\ doc[doc[i].source].there
                             /\ doc[i].source \in accepted

\* A second invoice for one estimate is only created by a conversion that had
\* read the estimate before the first one was created: requests in sequence
\* never do it, whatever the client answers between them.
SecondInvoiceOnlyByOverlap ==
    \A i, j \in Ids :
        /\ i < j
        /\ doc[i].there /\ doc[j].there
        /\ doc[i].type = "INVOICE" /\ doc[j].type = "INVOICE"
        /\ doc[i].source = doc[j].source
        /\ doc[i].source # 0
        => doc[j].readAt < i

\* Once accepted, an estimate changes its status only because another link to
\* it exists, because the same link had been opened before it was used, or
\* because the company sends it: with one link opened once, it is final.
AcceptanceIsFinal ==
    [][\A d \in Ids :
         /\ doc[d].status = "ACCEPTED"
         /\ doc'[d].there
         /\ doc'[d].status # "ACCEPTED"
         => \/ doc'[d].status = "SENT"
            \/ \E m, n \in 1..linked : m # n /\ link[m].on = d /\ link[n].on = d
            \/ \E c \in Clients : /\ client[c].pc = "answer"
                                  /\ client[c].fresh
                                  /\ link[client[c].link].status = "ACCEPTED"]_vars

\* A reminder is mailed once, and once more for each sweep that stopped between
\* the mail and its record; only sweeps that had both found it not recorded send
\* it twice with nothing stopped, and then at most one mail each.
RemindedOncePerStop ==
    \A d \in Ids :
        reminders[d] <= stops + (IF d \in overlapped THEN Cardinality(Sweeps) ELSE 1)
=============================================================================
