-------------------------- MODULE InvoiceSettlement -------------------------
(***************************************************************************)
(* From the collections of an invoice to its status.  The collections are  *)
(* the instalments of its plan, or, for a one-time invoice, the attempts   *)
(* of its payments.  A worker that handles a provider event writes one     *)
(* collection and then recomputes the invoice from all of them             *)
(* (InvoicePaymentStatusService); other workers do the same at the same    *)
(* time, and a user may mark a one-time invoice as paid by hand            *)
(* (DocumentService).                                                      *)
(*   - instalments: the invoice is written only if it still has the status *)
(*     that was read, three times at most (refreshFromInstalment)          *)
(*   - one-time: the payment and the invoice are written unconditionally   *)
(*     (refreshFromPaymentAttempt)                                         *)
(* A delivery reads the provider and then the row, and may write a reading *)
(* older than the row; a reconciliation reads the row first.  What the     *)
(* event, its time and the retries do to one instalment is in              *)
(* InstalmentSync.                                                         *)
(***************************************************************************)
EXTENDS PaymentRules, Integers, Functions

CONSTANTS
    Modes,         \* how the invoice may be paid
    Collections,
    Payments,
    PaymentOf,     \* the payment an attempt belongs to
    NextProvider,  \* the moves of each payment at the provider
    Workers,       \* requests that handle a provider event
    Sweepers,      \* requests that reconcile
    Users,         \* requests to mark the invoice by hand
    Tries,         \* attempts of refreshFromInstalment (3)
    MaxCrashes     \* bound on requests that stop half-way, in each mode

ASSUME SettlementAssumption ==
    /\ Modes \subseteq {"INSTALMENTS", "ONE_TIME"}
    /\ Collections # {}
    /\ PaymentOf \in [Collections -> Payments]
    /\ NextProvider \in [Collections -> [ProviderStatus -> SUBSET ProviderStatus]]
    /\ Tries \in Nat \ {0}
    /\ MaxCrashes \in [Modes -> Nat]

VARIABLES
    mode,          \* how the invoice is paid
    provider,      \* status of each collection at the provider
    todo,          \* events (collection, status) not completed
    col,           \* collections: status of the row
    payment,       \* payments of a one-time invoice: status of the row
    invoice,       \* status of the invoice
    work,          \* local state of each worker
    user,          \* local state of each manual request
    crashes,
    receiptsOwed,      \* history: transitions of a collection to SUCCESS, less
                       \* the receipts sent for it
    confirmationsOwed  \* history: transitions of a plan's invoice to PAID,
                       \* less the confirmations sent

rows == <<col, payment, invoice>>
sent == <<receiptsOwed, confirmationsOwed>>
vars == <<mode, provider, todo, rows, work, user, crashes, sent>>

Sweep == "sweep"

IdleWork == [pc |-> "idle", ev |-> <<>>, seen |-> "PENDING", target |-> "PENDING",
             old |-> "PENDING", next |-> "PENDING", tries |-> 0,
             won |-> FALSE, justPaid |-> FALSE, again |-> FALSE]

Coll(w) == work[w].ev[1]

Init ==
    /\ mode \in Modes
    /\ provider = [c \in Collections |-> "pending_submission"]
    /\ todo = {}
    /\ col = [c \in Collections |-> "PENDING"]
    /\ payment = [p \in Payments |-> "PENDING"]
    /\ invoice = "PENDING"
    /\ work = [w \in Workers \cup Sweepers |-> IdleWork]
    /\ user = [u \in Users |-> "idle"]
    /\ crashes = 0
    /\ receiptsOwed = [c \in Collections |-> 0]
    /\ confirmationsOwed = 0

-----------------------------------------------------------------------------

\* The provider (external) moves a payment and emits the event.
ProviderMoves(c) ==
    \E s \in NextProvider[c][provider[c]] :
        /\ provider' = [provider EXCEPT ![c] = s]
        /\ todo' = todo \cup {<<c, s>>}
        /\ UNCHANGED <<mode, rows, work, user, crashes, sent>>

\* An event: the payment is read at the provider.
Receive(w, ev) ==
    /\ work[w].pc = "idle"
    /\ work' = [work EXCEPT ![w] =
         [IdleWork EXCEPT !.pc = "row", !.ev = ev,
                          !.target = MatchPaymentAttemptStatus(provider[ev[1]])]]
    /\ UNCHANGED <<mode, provider, todo, rows, user, crashes, sent>>

\* Then the row, which may be newer.
ReadRow(w) ==
    /\ work[w].pc = "row"
    /\ work' = [work EXCEPT ![w].pc = "sync", ![w].seen = col[Coll(w)]]
    /\ UNCHANGED <<mode, provider, todo, rows, user, crashes, sent>>

\* A sweep of the reconciliation: the row is read first.  It ends by
\* recomputing the invoice once more; that of a one-time invoice is refused
\* once it was marked by hand.
Sweeping(w, c) ==
    /\ work[w].pc = "idle"
    /\ mode = "ONE_TIME" => invoice # "PAID_MANUALLY"
    /\ work' = [work EXCEPT ![w] =
         [IdleWork EXCEPT !.pc = "fetch", !.ev = <<c, Sweep>>,
                          !.seen = col[c], !.again = TRUE]]
    /\ UNCHANGED <<mode, provider, todo, rows, user, crashes, sent>>

FetchPayment(w) ==
    /\ work[w].pc = "fetch"
    /\ work' = [work EXCEPT ![w].pc = "sync",
         ![w].target = MatchPaymentAttemptStatus(provider[Coll(w)])]
    /\ UNCHANGED <<mode, provider, todo, rows, user, crashes, sent>>

\* w goes on with its event and nothing of what it read.
At(w, pc, won) ==
    [IdleWork EXCEPT !.pc = pc, !.ev = work[w].ev, !.again = work[w].again,
                     !.won = won]

Finished(w, justPaid) ==
    [At(w, "notify", work[w].won) EXCEPT !.justPaid = justPaid]

Owe(c, n) == receiptsOwed' = [receiptsOwed EXCEPT ![c] = @ + n]

\* A mutant: the collection is written whatever happened to it meanwhile.
CollectionUnchangedNever(w) == TRUE

CollectionUnchanged(w) == col[Coll(w)] = work[w].seen

\* The row of the collection is written if it did not change.  Else an
\* instalment's update throws, and the event will come again; an attempt's
\* update returns, as it does when there is nothing to write.
SyncCollection(w) ==
    LET t == work[w].target
        c == Coll(w)
        can == CanUpdateStatus(work[w].seen, t)
    IN  /\ work[w].pc = "sync"
        /\ IF can /\ CollectionUnchanged(w)
           THEN /\ col' = [col EXCEPT ![c] = t]
                /\ IF t = "SUCCESS" THEN Owe(c, 1) ELSE UNCHANGED receiptsOwed
                /\ work' = [work EXCEPT ![w] = At(w, "readInvoice", t = "SUCCESS")]
           ELSE /\ UNCHANGED <<col, receiptsOwed>>
                /\ work' = [work EXCEPT ![w] =
                     IF mode = "ONE_TIME" THEN At(w, "complete", FALSE)
                     ELSE IF can THEN IdleWork
                     ELSE At(w, "readInvoice", FALSE)]
        /\ UNCHANGED <<mode, provider, todo, payment, invoice, user, crashes,
                       confirmationsOwed>>

-----------------------------------------------------------------------------
(***************************************************************************)
(* refreshFromInstalment                                                   *)
(***************************************************************************)

ReadInvoice(w) ==
    /\ work[w].pc = "readInvoice"
    /\ work' = [work EXCEPT ![w] =
         IF invoice = "PAID_MANUALLY" THEN At(w, "complete", FALSE)
         ELSE [@ EXCEPT !.old = invoice,
                        !.pc = IF mode = "INSTALMENTS" THEN "compute"
                               ELSE "attempts"]]
    /\ UNCHANGED <<mode, provider, todo, rows, user, crashes, sent>>

\* A mutant: a paid invoice stays paid.
ComputeUnlessPaid(w) ==
    LET next == StatusFromInstalments(Range(col))
    IN  /\ work[w].pc = "compute"
        /\ work' = [work EXCEPT ![w] =
             IF next = @.old \/ @.old = "PAID" THEN Finished(w, FALSE)
             ELSE [@ EXCEPT !.next = next, !.pc = "swap"]]
        /\ UNCHANGED <<mode, provider, todo, rows, user, crashes, sent>>

ComputeFromInstalments(w) ==
    LET next == StatusFromInstalments(Range(col))
    IN  /\ work[w].pc = "compute"
        /\ work' = [work EXCEPT ![w] =
             IF next = @.old THEN Finished(w, FALSE)
             ELSE [@ EXCEPT !.next = next, !.pc = "swap"]]
        /\ UNCHANGED <<mode, provider, todo, rows, user, crashes, sent>>

TriesLeft(w) == work[w].tries + 1 < Tries

\* A mutant: the invoice is written whatever its status has become.
InvoiceUnchangedNever(w) == TRUE

InvoiceUnchanged(w) == invoice = work[w].old

BecomesPaid(w) ==
    confirmationsOwed' =
        IF work[w].next = "PAID" /\ invoice # "PAID" /\ mode = "INSTALMENTS"
        THEN confirmationsOwed + 1 ELSE confirmationsOwed

SwapInvoice(w) ==
    /\ work[w].pc = "swap"
    /\ IF InvoiceUnchanged(w)
       THEN /\ invoice' = work[w].next
            /\ BecomesPaid(w)
            /\ work' = [work EXCEPT ![w] = Finished(w, @.next = "PAID")]
       ELSE /\ UNCHANGED <<invoice, confirmationsOwed>>
            /\ work' = [work EXCEPT ![w] =
                 IF TriesLeft(w)
                 THEN [At(w, "readInvoice", @.won) EXCEPT !.tries = work[w].tries + 1]
                 ELSE IdleWork]
    /\ UNCHANGED <<mode, provider, todo, col, payment, user, crashes,
                   receiptsOwed>>

-----------------------------------------------------------------------------
(***************************************************************************)
(* refreshFromPaymentAttempt                                               *)
(***************************************************************************)

ReadAttempts(w) ==
    /\ work[w].pc = "attempts"
    /\ work' = [work EXCEPT ![w].pc = "writePayment",
         ![w].target = PaymentStatus({col[c] : c \in
             {d \in Collections : PaymentOf[d] = PaymentOf[Coll(w)]}})]
    /\ UNCHANGED <<mode, provider, todo, rows, user, crashes, sent>>

WritePayment(w) ==
    /\ work[w].pc = "writePayment"
    /\ payment' = [payment EXCEPT ![PaymentOf[Coll(w)]] = work[w].target]
    /\ work' = [work EXCEPT ![w].pc = "payments", ![w].target = "PENDING"]
    /\ UNCHANGED <<mode, provider, todo, col, invoice, user, crashes, sent>>

ReadPayments(w) ==
    /\ work[w].pc = "payments"
    /\ work' = [work EXCEPT ![w].pc = "writeInvoice",
                            ![w].next = StatusFromPayments(Range(payment))]
    /\ UNCHANGED <<mode, provider, todo, rows, user, crashes, sent>>

WriteInvoice(w) ==
    LET k == work[w]
    IN  /\ k.pc = "writeInvoice"
        /\ IF k.next # k.old
           THEN invoice' = k.next /\ BecomesPaid(w)
           ELSE UNCHANGED <<invoice, confirmationsOwed>>
        /\ work' = [work EXCEPT ![w] =
             Finished(w, k.next = "PAID" /\ k.old # "PAID")]
        /\ UNCHANGED <<mode, provider, todo, col, payment, user, crashes,
                       receiptsOwed>>

-----------------------------------------------------------------------------

Confirm(paid) ==
    confirmationsOwed' = IF paid /\ mode = "INSTALMENTS"
                         THEN confirmationsOwed - 1 ELSE confirmationsOwed

\* A mutant: the receipt follows the status that was read.
SendReceiptOfSuccess(w) ==
    /\ work[w].pc = "notify"
    /\ IF col[Coll(w)] = "SUCCESS" THEN Owe(Coll(w), -1)
                                   ELSE UNCHANGED receiptsOwed
    /\ work' = [work EXCEPT ![w].pc = "confirm", ![w].won = FALSE]
    /\ UNCHANGED <<mode, provider, todo, rows, user, crashes, confirmationsOwed>>

\* The receipt of this collection; mail errors are swallowed.  The e-report
\* that follows may throw.
SendReceipt(w) ==
    /\ work[w].pc = "notify"
    /\ IF work[w].won THEN Owe(Coll(w), -1) ELSE UNCHANGED receiptsOwed
    /\ work' = [work EXCEPT ![w].pc = "confirm", ![w].won = FALSE]
    /\ UNCHANGED <<mode, provider, todo, rows, user, crashes, confirmationsOwed>>

\* The confirmation that the invoice is paid.
SendConfirmation(w) ==
    /\ work[w].pc = "confirm"
    /\ Confirm(work[w].justPaid)
    /\ work' = [work EXCEPT ![w] = At(w, "complete", FALSE)]
    /\ UNCHANGED <<mode, provider, todo, rows, user, crashes, receiptsOwed>>

Complete(w) ==
    /\ work[w].pc = "complete"
    /\ IF work[w].again
       THEN /\ work' = [work EXCEPT ![w] =
                          [IdleWork EXCEPT !.pc = "readInvoice", !.ev = work[w].ev]]
            /\ UNCHANGED todo
       ELSE /\ work' = [work EXCEPT ![w] = IdleWork]
            /\ todo' = todo \ {work[w].ev}
    /\ UNCHANGED <<mode, provider, rows, user, crashes, sent>>

\* The request stops or throws; its event will be delivered again.
Crash(w) ==
    /\ work[w].pc # "idle"
    /\ crashes < MaxCrashes[mode]
    /\ crashes' = crashes + 1
    /\ work' = [work EXCEPT ![w] = IdleWork]
    /\ UNCHANGED <<mode, provider, todo, rows, user, sent>>

-----------------------------------------------------------------------------
(***************************************************************************)
(* manuallyMarkInvoiceAsPaid, manuallyMarkInvoiceAsPending: the status is  *)
(* checked, then a transaction writes the new one if it is another.        *)
(***************************************************************************)

CheckMark(u) ==
    /\ user[u] = "idle"
    /\ mode = "ONE_TIME"
    /\ \/ invoice = "PENDING" /\ user' = [user EXCEPT ![u] = "PAID_MANUALLY"]
       \/ invoice = "PAID_MANUALLY" /\ user' = [user EXCEPT ![u] = "PENDING"]
    /\ UNCHANGED <<mode, provider, todo, rows, work, crashes, sent>>

Mark(u) ==
    /\ user[u] # "idle"
    /\ invoice' = user[u]
    /\ user' = [user EXCEPT ![u] = "idle"]
    /\ UNCHANGED <<mode, provider, todo, col, payment, work, crashes, sent>>

-----------------------------------------------------------------------------

Step(w) ==
    \/ ReadRow(w)
    \/ FetchPayment(w)
    \/ SyncCollection(w)
    \/ ReadInvoice(w)
    \/ ComputeFromInstalments(w)
    \/ SwapInvoice(w)
    \/ ReadAttempts(w)
    \/ WritePayment(w)
    \/ ReadPayments(w)
    \/ WriteInvoice(w)
    \/ SendReceipt(w)
    \/ SendConfirmation(w)
    \/ Complete(w)

Deliver(ev) == \E w \in Workers : Receive(w, ev)

Reconcile(c) == \E w \in Sweepers : Sweeping(w, c)

Next ==
    \/ \E c \in Collections : ProviderMoves(c)
    \/ \E ev \in todo : Deliver(ev)
    \/ \E c \in Collections : Reconcile(c)
    \/ \E w \in Workers \cup Sweepers : Step(w) \/ Crash(w)
    \/ \E u \in Users : CheckMark(u) \/ Mark(u)

\* A request goes on, an event comes until completed, and the reconciliation
\* of a plan comes back.  Nobody has to sweep a one-time invoice.
Fairness ==
    /\ \A w \in Workers \cup Sweepers : WF_vars(Step(w))
    /\ \A c \in Collections : \A s \in ProviderStatus :
         WF_vars(<<c, s>> \in todo /\ Deliver(<<c, s>>))
    /\ \A c \in Collections :
         SF_vars(mode = "INSTALMENTS" /\ Reconcile(c))

Spec == Init /\ [][Next]_vars /\ Fairness

-----------------------------------------------------------------------------

TypeOK ==
    /\ mode \in Modes
    /\ provider \in [Collections -> ProviderStatus]
    /\ todo \subseteq Collections \X ProviderStatus
    /\ col \in [Collections -> CollectionStatus]
    /\ payment \in [Payments -> CollectionStatus]
    /\ invoice \in InvoiceStatus
    /\ user \in [Users -> {"idle", "PAID_MANUALLY", "PENDING"}]
    /\ \A w \in Workers \cup Sweepers : work[w].tries < Tries
    /\ receiptsOwed \in [Collections -> Int]
    /\ confirmationsOwed \in Int

\* A receipt is sent at most once for each time a collection becomes SUCCESS,
\* however many events and sweeps report it and however they overlap: who
\* writes the row sends it (handler spec: "n'envoie pas deux recus si une autre
\* synchronisation a deja gagne").  A late event written over a chargeback
\* makes the collection SUCCESS again, and has a receipt of its own.
OneReceiptPerSuccess == \A c \in Collections : receiptsOwed[c] >= 0

\* The client of a plan is told that the invoice is paid once each time it
\* becomes paid: the swap of the status decides who tells.
OneConfirmationPerPayment == confirmationsOwed >= 0

\* The invoice of a plan ends up with the status of its instalments, in spite
\* of refreshes that overlap, give up or are lost with their request.
InvoiceConverges ==
    mode = "INSTALMENTS" => <>[](invoice = StatusFromInstalments(Range(col)))

\* Only a pending invoice is marked as paid by hand.
ManualOnlyFromPending ==
    [][invoice' = "PAID_MANUALLY" /\ invoice # "PAID_MANUALLY" =>
          invoice = "PENDING"]_vars

\* An attempt that succeeded shows on the invoice.
SuccessShows ==
    (mode = "ONE_TIME" /\ \E c \in Collections : col[c] = "SUCCESS") ~>
        (invoice \in {"PAID", "PAID_MANUALLY"}
         \/ \A c \in Collections : col[c] # "SUCCESS")
=============================================================================
