------------------------ MODULE ElectronicInvoicing ------------------------
(***************************************************************************)
(* What a company submits to SuperPDP: invoices (SuperPdpB2bService), the  *)
(* sales and the payments that are declared (SuperPdpEreportingService),   *)
(* and the job that follows the invoices (SuperPdpSynchronizationService). *)
(*                                                                         *)
(* A submission is known by its key: the invoice and the flow of a         *)
(* transmission, the invoice of a sale, the reference of a payment.  Its   *)
(* rows are a sequence, for nothing keeps two rows of a sale apart.  What  *)
(* SuperPDP says of an invoice is any answer; whether it refuses an        *)
(* external id it has seen is not known, and both are possible.  Files,    *)
(* amounts, events, and the order and number of the invoices that are      *)
(* followed at once are not here.                                          *)
(***************************************************************************)
EXTENDS SuperPdpConnection, Sequences, FiniteSetsExt

CONSTANTS
    Users,      \* requests of users, or the end of a sending of an invoice
    Invoices,   \* transmissions
    Sales,      \* sales that are declared
    Payments,   \* payments that are declared
    MaxKeys,    \* bound on the keys that are submitted
    MaxPosts,   \* bound on the submissions SuperPDP accepts
    MaxBusy     \* bound on the tasks at once

Keys == Invoices \cup Sales \cup Payments

\* A job follows each invoice in a task of its own.
ASSUME InvoicingAssumption ==
    /\ Tasks = Users \cup Invoices
    /\ Users \cap Invoices = {}
    /\ MaxKeys \in Nat
    /\ MaxPosts \in Nat
    /\ MaxBusy \in Nat

VARIABLES
    rows,       \* rows of each key
    posted,     \* number of submissions SuperPDP accepted
    history     \* history: what happened to each key

vars == <<connectionVars, rows, posted, history>>

Init ==
    /\ InitConnection
    /\ rows = [k \in Keys |-> <<>>]
    /\ posted = [k \in Keys |-> 0]
    /\ history = [k \in Keys |-> {}]

Total == MapThenSumSet(LAMBDA k : posted[k], Keys)

Happened(k, what) == history' = [history EXCEPT ![k] = @ \cup {what}]

\* The tasks that submit a key, until they have written the answer.
Sending(k) ==
    {t \in Tasks : task[t].key = k /\ (task[t].caught \/ task[t].pc \in {"create", "mark", "refuse"})}

MaySubmit(k) ==
    Cardinality({j \in Keys \ {k} : rows[j] # <<>> \/ Sending(j) # {}}) < MaxKeys

MayBegin == Cardinality({t \in Tasks : ~Idle(t)}) < MaxBusy

-----------------------------------------------------------------------------
(***************************************************************************)
(* send, submitB2CTransaction and submitB2CPayment                         *)
(***************************************************************************)

\* A mutant: a transmission that failed to be followed is submitted again.
SubmittedUnlessSynchronised(k, row) == row.status = "SUBMITTED"

\* What needs no other submission: an invoice whose number at SuperPDP is
\* known, a declaration that was made.
Submitted(k, row) ==
    IF k \in Invoices THEN row.id # 0 ELSE row.status = "SUBMITTED"

\* The first row that is found, if any, and what follows.  The client of an
\* invoice may have no electronic address, as the user edits it.
StartSend(t, k) ==
    /\ Idle(t)
    /\ MaySubmit(k)
    /\ IF Sending(k) = {} THEN UNCHANGED history ELSE Happened(k, "overlapped")
    /\ \E i \in IF rows[k] = <<>> THEN {0} ELSE DOMAIN rows[k] :
         LET known == IF i = 0 THEN FALSE ELSE Submitted(k, rows[k][i]) IN
         \/ /\ k \in Invoices
            /\ task' = [task EXCEPT ![t].pc = "refuse", ![t].key = k, ![t].row = i]
         \/ /\ known
            /\ task' = IF k \in Invoices
                       THEN [task EXCEPT ![t].pc = "sync", ![t].key = k] ELSE task
         \/ /\ ~known
            /\ task' = [task EXCEPT ![t].pc = IF i = 0 THEN "create" ELSE "mark",
                                    ![t].key = k, ![t].row = i]
    /\ UNCHANGED <<conn, granted, tokenLost, rows, posted>>

\* A mutant: nothing keeps two rows apart.
UniqueNever(k) == FALSE

\* The unique keys of the rows; those of sales have none.
Unique(k) == k \in Invoices \cup Payments

NewRow == [status |-> "PENDING", id |-> 0]

Create(t) ==
    LET k == task[t].key IN
    /\ task[t].pc = "create"
    /\ IF Unique(k) /\ rows[k] # <<>>
       THEN Done(t) /\ UNCHANGED rows
       ELSE /\ rows' = [rows EXCEPT ![k] = Append(@, NewRow)]
            /\ task' = [task EXCEPT ![t].pc = "mark", ![t].row = Len(rows[k]) + 1]
    /\ UNCHANGED <<conn, granted, tokenLost, posted, history>>

\* No address: the row is FAILED, even that of an invoice SuperPDP holds.
Refuse(t) ==
    LET k == task[t].key
        i == task[t].row IN
    /\ task[t].pc = "refuse"
    /\ Done(t)
    /\ rows' = IF i # 0 THEN [rows EXCEPT ![k][i].status = "FAILED"]
               ELSE IF rows[k] = <<>>
               THEN [rows EXCEPT ![k] = <<[NewRow EXCEPT !.status = "FAILED"]>>]
               ELSE rows
    /\ Happened(k, "refused")
    /\ UNCHANGED <<conn, granted, tokenLost, posted>>

\* The row is SUBMITTING; the files of an invoice are made and validated.
Mark(t) ==
    LET k == task[t].key
        i == task[t].row IN
    /\ task[t].pc = "mark"
    /\ rows' = [rows EXCEPT ![k][i].status = "SUBMITTING"]
    /\ \/ task' = [task EXCEPT ![t] = [TokenThen(@, "post") EXCEPT !.caught = TRUE]]
       \/ /\ k \in Invoices
          /\ task' = [task EXCEPT ![t].pc = "failed", ![t].caught = TRUE]
    /\ UNCHANGED <<conn, granted, tokenLost, posted, history>>

\* SuperPDP accepts, and its answer may be lost; or it refuses.
Post(t) ==
    LET k == task[t].key IN
    /\ task[t].pc = "post"
    /\ \/ /\ Total < MaxPosts
          /\ posted' = [posted EXCEPT ![k] = @ + 1]
          /\ \/ /\ task' = [task EXCEPT ![t].pc = "save", ![t].id = posted[k] + 1]
                /\ UNCHANGED history
             \/ /\ Goto(t, "failed")
                /\ Happened(k, "blind")
       \/ /\ Goto(t, "failed")
          /\ UNCHANGED <<posted, history>>
    /\ UNCHANGED <<conn, granted, tokenLost, rows>>

\* A mutant: the synchronisation is awaited inside the try block.
AwaitedInTry == TRUE

\* The synchronisation that follows is returned without being awaited.
SyncIsCaught == FALSE

\* The update is in the try block: where it fails, the number is lost.
Save(t) ==
    LET k == task[t].key
        i == task[t].row IN
    /\ task[t].pc = "save"
    /\ \/ /\ rows' = [rows EXCEPT ![k][i] = [status |-> "SUBMITTED", id |-> task[t].id]]
          /\ task' = [task EXCEPT ![t] =
               IF k \in Invoices
               THEN [IdleTask EXCEPT !.pc = "sync", !.key = k, !.row = i,
                                     !.caught = SyncIsCaught]
               ELSE IdleTask]
          /\ UNCHANGED history
       \/ /\ Goto(t, "failed")
          /\ Happened(k, "blind")
          /\ UNCHANGED rows
    /\ UNCHANGED <<conn, granted, tokenLost, posted>>

\* catch: the row is FAILED, whatever it has become.
WriteFailed(t) ==
    LET k == task[t].key
        i == task[t].row IN
    /\ task[t].pc = "failed"
    /\ rows' = [rows EXCEPT ![k][i].status = "FAILED"]
    /\ Done(t)
    /\ UNCHANGED <<conn, granted, tokenLost, posted, history>>

-----------------------------------------------------------------------------
(***************************************************************************)
(* sync and syncPendingTransmissions                                       *)
(***************************************************************************)

\* SUBMITTED stands for the statuses of SuperPDP that may change, SETTLED for
\* those that may not.
Answers == {"SUBMITTED", "SETTLED"}
Evolving == {"PENDING", "SUBMITTING", "SUBMITTED"}

\* The row is read, by the request or by the job that found it.
StartSync(t, k) ==
    /\ Idle(t)
    /\ k \in Invoices
    /\ rows[k] # <<>>
    /\ task' = [task EXCEPT ![t].pc = "sync", ![t].key = k]
    /\ UNCHANGED <<conn, granted, tokenLost, rows, posted, history>>

Sync(t) ==
    LET k == task[t].key
        row == rows[k][1] IN
    /\ task[t].pc = "sync"
    /\ task' = [task EXCEPT ![t] =
         IF row.id = 0 THEN IdleTask
         ELSE [TokenThen(@, "get") EXCEPT !.row = 1, !.seen = row.status]]
    /\ UNCHANGED <<conn, granted, tokenLost, rows, posted, history>>

\* The tasks of the job are at work.
Sweeping == \E k \in Invoices : ~Idle(k)

\* Every invoice that may evolve is followed at the same time.
SyncPendingTransmissions ==
    LET pending == {k \in Invoices : /\ rows[k] # <<>>
                                     /\ rows[k][1].id # 0
                                     /\ rows[k][1].status \in Evolving} IN
    /\ ~Sweeping
    /\ conn.active
    /\ pending # {}
    /\ task' = [t \in Tasks |->
         IF t \in pending
         THEN TokenThen([IdleTask EXCEPT !.key = t, !.row = 1,
                                         !.seen = rows[t][1].status], "get")
         ELSE task[t]]
    /\ UNCHANGED <<conn, granted, tokenLost, rows, posted, history>>

\* The invoice is read, and its status written: that of its last event, or,
\* without one, the status that was read; or the reading fails.
SyncTransmission(t) ==
    LET k == task[t].key
        i == task[t].row IN
    /\ task[t].pc = "get"
    /\ \/ /\ \E answer \in Answers \cup {task[t].seen} :
               rows' = [rows EXCEPT ![k][i].status = answer]
          /\ Done(t)
       \/ Rejected(t) /\ UNCHANGED rows
    /\ UNCHANGED <<conn, granted, tokenLost, posted, history>>

-----------------------------------------------------------------------------

\* The process of a task stops: what SuperPDP answered is lost.
Crash(t) ==
    LET k == task[t].key IN
    /\ ~Idle(t)
    /\ Done(t)
    /\ tokenLost' = (tokenLost \/ t \in Storing)
    /\ IF task[t].pc = "save" THEN Happened(k, "blind") ELSE UNCHANGED history
    /\ UNCHANGED <<conn, granted, rows, posted>>

Others == <<rows, posted, history>>

Begins ==
    /\ MayBegin
    /\ \/ \E t \in Users, k \in Keys : StartSend(t, k) \/ StartSync(t, k)
       \/ SyncPendingTransmissions
       \/ \E t \in Users : (ExchangeCode(t) \/ StartVerify(t)) /\ UNCHANGED Others

TaskSteps(t) ==
    \/ Create(t)
    \/ Refuse(t)
    \/ Mark(t)
    \/ Post(t)
    \/ Save(t)
    \/ WriteFailed(t)
    \/ Sync(t)
    \/ SyncTransmission(t)
    \/ Crash(t)
    \/ ConnectionSteps(t) /\ UNCHANGED Others

Next ==
    \/ Begins
    \/ \E t \in Tasks : TaskSteps(t)
    \/ (BuildAuthorizationUrl \/ TokenGetsOld) /\ UNCHANGED Others

Spec == Init /\ [][Next]_vars

-----------------------------------------------------------------------------
(***************************************************************************)
(* Properties                                                              *)
(***************************************************************************)

\* Every variable keeps the shape of the rows and local states above; a
\* transmission and the declaration of a payment have one row, and a number in
\* a row is that of a submission SuperPDP accepted.
TypeOK ==
    /\ ConnectionTypeOK
    /\ \A k \in Keys :
         /\ k \in Invoices \cup Payments => Len(rows[k]) <= 1
         /\ \A i \in DOMAIN rows[k] :
              /\ rows[k][i].status \in Evolving \cup Answers \cup {"FAILED"}
              /\ rows[k][i].id \in 0..posted[k]
    /\ \A t \in Tasks : task[t].row # 0 => task[t].row \in DOMAIN rows[task[t].key]

\* SuperPDP accepts a second submission of the same invoice, sale or payment
\* only if the answer to the first was lost, on its way or because it was not
\* written, or if two submissions ran at the same time: a failed
\* synchronisation, a refresh that fails, a crash and a new sending never submit
\* again what is known to be submitted.
PostedAgainOnlyBlind ==
    \A k \in Keys :
        posted[k] > 1 => history[k] \cap {"blind", "overlapped"} # {}

\* An invoice SuperPDP holds under a number that is known is never marked
\* FAILED, which the job does not follow, unless two submissions ran at the
\* same time or the address of the client was removed.
KnownIsFollowed ==
    \A k \in Invoices : \A i \in DOMAIN rows[k] :
        rows[k][i].id # 0 /\ rows[k][i].status = "FAILED"
        => history[k] \cap {"refused", "overlapped"} # {}
=============================================================================
