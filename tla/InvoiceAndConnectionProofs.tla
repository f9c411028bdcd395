---------------------- MODULE InvoiceAndConnectionProofs ----------------------
(***************************************************************************)
(* Proofs about InvoiceSettlement, for any collections, payments, requests *)
(* and users, any moves of the provider and any number of tries; and about *)
(* GoCardlessConnection, for any companies, organisations, requests and    *)
(* jobs, and any number of tokens and authorisations.  The two have no row *)
(* in common.                                                              *)
(***************************************************************************)
EXTENDS InvoiceSettlement, GoCardlessConnection, FiniteSetTheorems, TLAPS

Everyone == Workers \cup Sweepers

Ev == Collections \X (ProviderStatus \cup {Sweep})

OneTimePcs == {"attempts", "writePayment", "payments", "writeInvoice"}

WorkPcs == OneTimePcs \cup {"idle", "row", "fetch", "sync", "readInvoice", "compute",
                            "swap", "notify", "confirm", "complete"}

WorkRecord ==
    [pc : WorkPcs, ev : Ev \cup {<<>>}, seen : CollectionStatus,
     target : CollectionStatus, old : InvoiceStatus, next : InvoiceStatus,
     tries : 0 .. Tries - 1, won : BOOLEAN, justPaid : BOOLEAN, again : BOOLEAN]

\* A request that is under way has an event; only that of a one-time invoice
\* computes from payments; a swap changes the status.
WorkShape ==
    /\ work \in [Everyone -> WorkRecord]
    /\ \A w \in Everyone :
         /\ work[w].pc # "idle" => work[w].ev \in Ev
         /\ work[w].pc \in OneTimePcs => mode = "ONE_TIME"
         /\ work[w].pc = "swap" => work[w].next # work[w].old

Shape == TypeOK /\ WorkShape

-----------------------------------------------------------------------------

LEMMA StatusTyped ==
    /\ \A p \in ProviderStatus : MatchPaymentAttemptStatus(p) \in CollectionStatus
    /\ \A S : StatusFromInstalments(S) \in InvoiceStatus
    /\ \A S : StatusFromPayments(S) \in InvoiceStatus
    /\ \A S : PaymentStatus(S) \in CollectionStatus
BY DEF ProviderStatus, MatchPaymentAttemptStatus, CollectionStatus, InvoiceStatus,
       StatusFromInstalments, StatusFromPayments, PaymentStatus

LEMMA IdleTyped ==
    /\ IdleWork \in WorkRecord
    /\ IdleWork.pc = "idle" /\ IdleWork.ev = <<>>
    /\ ~IdleWork.won /\ ~IdleWork.justPaid
<1>1. 0 \in 0 .. Tries - 1
  BY SettlementAssumption
<1> QED
  BY <1>1 DEF IdleWork, WorkRecord, WorkPcs, OneTimePcs, CollectionStatus, InvoiceStatus

\* What is left of a request that goes on.
LEMMA AtTyped ==
    ASSUME Shape, NEW w \in Everyone, work[w].pc # "idle", NEW pc \in WorkPcs,
           NEW won \in BOOLEAN
    PROVE  /\ At(w, pc, won) \in WorkRecord
           /\ At(w, pc, won).pc = pc
           /\ At(w, pc, won).ev = work[w].ev
           /\ At(w, pc, won).won = won
           /\ ~At(w, pc, won).justPaid
           /\ At(w, pc, won).tries = 0
<1>1. work[w].ev \in Ev /\ work[w].again \in BOOLEAN
  BY DEF Shape, WorkShape, WorkRecord
<1> QED
  BY <1>1, IdleTyped DEF At, IdleWork, WorkRecord

LEMMA FinishedTyped ==
    ASSUME Shape, NEW w \in Everyone, work[w].pc # "idle", NEW paid \in BOOLEAN
    PROVE  /\ Finished(w, paid) \in WorkRecord
           /\ Finished(w, paid).pc = "notify"
           /\ Finished(w, paid).ev = work[w].ev
           /\ Finished(w, paid).won = work[w].won
           /\ Finished(w, paid).justPaid = paid
<1> DEFINE r == At(w, "notify", work[w].won)
<1>1. work[w].won \in BOOLEAN /\ "notify" \in WorkPcs
  BY DEF Shape, WorkShape, WorkRecord, WorkPcs
<1>2. /\ r \in WorkRecord /\ r.pc = "notify" /\ r.ev = work[w].ev
      /\ r.won = work[w].won
  BY <1>1, AtTyped
<1>3. Finished(w, paid) = [r EXCEPT !.justPaid = paid]
  BY DEF Finished
<1> HIDE DEF r
<1> QED
  BY <1>2, <1>3 DEF WorkRecord

\* A step that moves one request.
LEMMA OneMoves ==
    ASSUME Shape, NEW w \in Everyone, NEW r \in WorkRecord,
           work' = [work EXCEPT ![w] = r], UNCHANGED mode,
           r.pc # "idle" => r.ev \in Ev,
           r.pc \in OneTimePcs => mode = "ONE_TIME",
           r.pc = "swap" => r.next # r.old
    PROVE  /\ WorkShape'
           /\ work'[w] = r
           /\ \A v \in Everyone \ {w} : work'[v] = work[v]
BY DEF Shape, WorkShape

LEMMA ShapeInit == Init => Shape
<1> SUFFICES ASSUME Init PROVE Shape
  OBVIOUS
<1>1. TypeOK
  BY SettlementAssumption
     DEF Init, TypeOK, IdleWork, ProviderStatus, CollectionStatus, InvoiceStatus
<1>2. WorkShape
  BY IdleTyped DEF Init, WorkShape, Everyone, OneTimePcs
<1> QED
  BY <1>1, <1>2 DEF Shape

-----------------------------------------------------------------------------
(***************************************************************************)
(* What a request does to the debts                                        *)
(***************************************************************************)

\* A request adds a receipt to the debts when it wins the collection, and takes
\* one away when it had won and sends it.
ReceiptMoves(w) ==
    \/ /\ UNCHANGED receiptsOwed
       /\ work'[w].won => work[w].won /\ work'[w].ev = work[w].ev
    \/ /\ Coll(w) \in Collections /\ Owe(Coll(w), 1)
       /\ work'[w].ev = work[w].ev
    \/ /\ Coll(w) \in Collections /\ Owe(Coll(w), -1)
       /\ work[w].won /\ ~work'[w].won

\* The same with the confirmations of a plan.
ConfirmationMoves(w) ==
    \/ /\ UNCHANGED confirmationsOwed
       /\ work'[w].justPaid /\ mode = "INSTALMENTS" => work[w].justPaid
    \/ confirmationsOwed' = confirmationsOwed + 1
    \/ /\ confirmationsOwed' = confirmationsOwed - 1
       /\ mode = "INSTALMENTS" /\ work[w].justPaid /\ ~work'[w].justPaid

RowsTyped ==
    /\ col' \in [Collections -> CollectionStatus]
    /\ payment' \in [Payments -> CollectionStatus]
    /\ invoice' \in InvoiceStatus
    /\ todo' \subseteq todo
    /\ UNCHANGED <<mode, provider, user>>

Moves(w) ==
    /\ WorkShape' /\ RowsTyped
    /\ ReceiptMoves(w) /\ ConfirmationMoves(w)
    /\ \A v \in Everyone \ {w} : work'[v] = work[v]

LEMMA Typed ==
    ASSUME Shape
    PROVE  /\ mode \in Modes
           /\ provider \in [Collections -> ProviderStatus]
           /\ todo \subseteq Collections \X ProviderStatus
           /\ col \in [Collections -> CollectionStatus]
           /\ payment \in [Payments -> CollectionStatus]
           /\ invoice \in InvoiceStatus
           /\ user \in [Users -> {"idle", "PAID_MANUALLY", "PENDING"}]
           /\ receiptsOwed \in [Collections -> Int]
           /\ confirmationsOwed \in Int
           /\ work \in [Everyone -> WorkRecord]
BY DEF Shape, TypeOK, WorkShape

LEMMA Underway ==
    ASSUME Shape, NEW w \in Everyone, work[w].pc # "idle"
    PROVE  work[w].ev \in Ev /\ Coll(w) \in Collections
BY DEF Shape, WorkShape, Ev, Coll

\* A step that only moves the request, and keeps what it has won.
LEMMA QuietMoves ==
    ASSUME Shape, NEW w \in Everyone, NEW r \in WorkRecord,
           work' = [work EXCEPT ![w] = r],
           UNCHANGED <<mode, provider, col, payment, invoice, user, receiptsOwed,
                       confirmationsOwed>>,
           todo' \subseteq todo,
           r.pc # "idle" => r.ev \in Ev,
           r.pc \in OneTimePcs => mode = "ONE_TIME",
           r.pc = "swap" => r.next # r.old,
           r.won => work[w].won /\ r.ev = work[w].ev,
           r.justPaid /\ mode = "INSTALMENTS" => work[w].justPaid
    PROVE  Moves(w)
<1>1. /\ WorkShape' /\ work'[w] = r
      /\ \A v \in Everyone \ {w} : work'[v] = work[v]
  BY OneMoves
<1> QED
  BY <1>1, Typed DEF Moves, RowsTyped, ReceiptMoves, ConfirmationMoves

LEMMA ReceiveMoves ==
    ASSUME Shape, NEW w \in Everyone, NEW ev \in Ev, Receive(w, ev)
    PROVE  Moves(w)
<1> DEFINE target == MatchPaymentAttemptStatus(provider[ev[1]])
           r == [IdleWork EXCEPT !.pc = "row", !.ev = ev, !.target = target]
<1>1. ev[1] \in Collections
  BY DEF Ev
<1>2. target \in CollectionStatus
  BY <1>1, Typed, StatusTyped
<1>3. work' = [work EXCEPT ![w] = r]
  BY DEF Receive
<1> HIDE DEF target
<1>4. /\ r \in WorkRecord /\ r.pc = "row" /\ r.ev = ev /\ ~r.won /\ ~r.justPaid
  BY <1>2, IdleTyped DEF WorkRecord, WorkPcs, IdleWork
<1> HIDE DEF r
<1> QED
  BY <1>3, <1>4, QuietMoves DEF Receive, rows, sent, OneTimePcs

LEMMA SweepingMoves ==
    ASSUME Shape, NEW w \in Everyone, NEW c \in Collections, Sweeping(w, c)
    PROVE  Moves(w)
<1> DEFINE r == [IdleWork EXCEPT !.pc = "fetch", !.ev = <<c, Sweep>>,
                                 !.seen = col[c], !.again = TRUE]
<1>1. col[c] \in CollectionStatus /\ <<c, Sweep>> \in Ev
  BY Typed DEF Ev
<1>2. work' = [work EXCEPT ![w] = r]
  BY DEF Sweeping
<1>3. /\ r \in WorkRecord /\ r.pc = "fetch" /\ r.ev = <<c, Sweep>>
      /\ ~r.won /\ ~r.justPaid
  BY <1>1, IdleTyped DEF WorkRecord, WorkPcs, IdleWork
<1> HIDE DEF r
<1> QED
  BY <1>1, <1>2, <1>3, QuietMoves DEF Sweeping, rows, sent, OneTimePcs

\* The second of the two readings.
LEMMA ReadMoves ==
    ASSUME Shape, NEW w \in Everyone, ReadRow(w) \/ FetchPayment(w)
    PROVE  Moves(w)
<1>0. work[w].pc # "idle" /\ work[w] \in WorkRecord
  BY Typed DEF ReadRow, FetchPayment
<1>c. work[w].ev \in Ev /\ Coll(w) \in Collections
  BY <1>0, Underway
<1> DEFINE target == MatchPaymentAttemptStatus(provider[Coll(w)])
<1>1. col[Coll(w)] \in CollectionStatus /\ target \in CollectionStatus
  BY <1>c, Typed, StatusTyped
<1>2. CASE ReadRow(w)
  <2> DEFINE r == [work[w] EXCEPT !.pc = "sync", !.seen = col[Coll(w)]]
  <2>1. work' = [work EXCEPT ![w] = r]
    BY <1>2, Typed DEF ReadRow
  <2>2. /\ r \in WorkRecord /\ r.pc = "sync" /\ r.ev = work[w].ev
        /\ r.won = work[w].won /\ r.justPaid = work[w].justPaid
    BY <1>0, <1>1 DEF WorkRecord, WorkPcs
  <2> HIDE DEF r
  <2> QED
    BY <1>2, <1>c, <2>1, <2>2, QuietMoves DEF ReadRow, rows, sent, OneTimePcs
<1>3. CASE FetchPayment(w)
  <2> DEFINE r == [work[w] EXCEPT !.pc = "sync", !.target = target]
  <2>1. work' = [work EXCEPT ![w] = r]
    BY <1>3, Typed DEF FetchPayment
  <2> HIDE DEF target
  <2>2. /\ r \in WorkRecord /\ r.pc = "sync" /\ r.ev = work[w].ev
        /\ r.won = work[w].won /\ r.justPaid = work[w].justPaid
    BY <1>0, <1>1 DEF WorkRecord, WorkPcs
  <2> HIDE DEF r
  <2> QED
    BY <1>3, <1>c, <2>1, <2>2, QuietMoves DEF FetchPayment, rows, sent, OneTimePcs
<1> QED
  BY <1>2, <1>3

LEMMA SyncMoves ==
    ASSUME Shape, NEW w \in Everyone, SyncCollection(w)
    PROVE  Moves(w)
<1>0. work[w].pc # "idle" /\ work[w].target \in CollectionStatus
  BY Typed DEF SyncCollection, WorkRecord
<1>c. Coll(w) \in Collections /\ work[w].ev \in Ev
  BY <1>0, Underway
<1> DEFINE t == work[w].target
<1>1. CASE CanUpdateStatus(work[w].seen, t) /\ CollectionUnchanged(w)
  <2> DEFINE r == At(w, "readInvoice", t = "SUCCESS")
  <2>1. /\ col' = [col EXCEPT ![Coll(w)] = t]
        /\ IF t = "SUCCESS" THEN Owe(Coll(w), 1) ELSE UNCHANGED receiptsOwed
        /\ work' = [work EXCEPT ![w] = r]
        /\ UNCHANGED <<mode, provider, todo, payment, invoice, user, confirmationsOwed>>
    BY <1>1 DEF SyncCollection
  <2>2. /\ r \in WorkRecord /\ r.pc = "readInvoice" /\ r.ev = work[w].ev
        /\ r.won = (t = "SUCCESS") /\ ~r.justPaid
    BY <1>0, AtTyped DEF WorkPcs
  <2> HIDE DEF r
  <2>3. /\ WorkShape' /\ work'[w] = r
        /\ \A v \in Everyone \ {w} : work'[v] = work[v]
    BY <1>c, <2>1, <2>2, OneMoves DEF OneTimePcs
  <2>4. col' \in [Collections -> CollectionStatus]
    BY <1>0, <2>1, Typed
  <2>5. ReceiptMoves(w)
    BY <1>c, <2>1, <2>2, <2>3 DEF ReceiptMoves
  <2> QED
    BY <2>1, <2>2, <2>3, <2>4, <2>5, Typed DEF Moves, RowsTyped, ConfirmationMoves
<1>2. CASE ~(CanUpdateStatus(work[w].seen, t) /\ CollectionUnchanged(w))
  <2> DEFINE r == IF mode = "ONE_TIME" THEN At(w, "complete", FALSE)
                  ELSE IF CanUpdateStatus(work[w].seen, t) THEN IdleWork
                  ELSE At(w, "readInvoice", FALSE)
  <2>1. /\ work' = [work EXCEPT ![w] = r]
        /\ UNCHANGED <<mode, provider, todo, col, payment, invoice, user, receiptsOwed,
                       confirmationsOwed>>
    BY <1>2 DEF SyncCollection
  <2>2. /\ r \in WorkRecord /\ r.pc \in {"complete", "idle", "readInvoice"}
        /\ r.pc # "idle" => r.ev = work[w].ev
        /\ ~r.won /\ ~r.justPaid
    <3>1. "complete" \in WorkPcs /\ "readInvoice" \in WorkPcs /\ FALSE \in BOOLEAN
      BY DEF WorkPcs
    <3>2. \/ r = At(w, "complete", FALSE) \/ r = IdleWork
          \/ r = At(w, "readInvoice", FALSE)
      OBVIOUS
    <3> HIDE DEF r
    <3>3. CASE r = At(w, "complete", FALSE)
      BY <1>0, <3>1, <3>3, AtTyped
    <3>4. CASE r = At(w, "readInvoice", FALSE)
      BY <1>0, <3>1, <3>4, AtTyped
    <3>5. CASE r = IdleWork
      BY <3>5, IdleTyped
    <3> QED
      BY <3>2, <3>3, <3>4, <3>5
  <2> HIDE DEF r
  <2>3. /\ WorkShape' /\ work'[w] = r
        /\ \A v \in Everyone \ {w} : work'[v] = work[v]
    BY <1>c, <2>1, <2>2, OneMoves DEF OneTimePcs
  <2> QED
    BY <2>1, <2>2, <2>3, Typed DEF Moves, RowsTyped, ReceiptMoves, ConfirmationMoves
<1> QED
  BY <1>1, <1>2

LEMMA ReadInvoiceMoves ==
    ASSUME Shape, NEW w \in Everyone, ReadInvoice(w)
    PROVE  Moves(w)
<1>0. work[w].pc # "idle" /\ work[w] \in WorkRecord /\ invoice \in InvoiceStatus
  BY Typed DEF ReadInvoice
<1>c. work[w].ev \in Ev
  BY <1>0, Underway
<1>1. CASE invoice = "PAID_MANUALLY"
  <2> DEFINE r == At(w, "complete", FALSE)
  <2>1. /\ r \in WorkRecord /\ r.pc = "complete" /\ r.ev = work[w].ev
        /\ ~r.won /\ ~r.justPaid
    BY <1>0, AtTyped DEF WorkPcs
  <2>2. work' = [work EXCEPT ![w] = r]
    BY <1>1 DEF ReadInvoice
  <2> HIDE DEF r
  <2> QED
    BY <1>c, <2>1, <2>2, QuietMoves DEF ReadInvoice, rows, sent, OneTimePcs
<1>2. CASE invoice # "PAID_MANUALLY"
  <2> DEFINE r == [work[w] EXCEPT !.old = invoice,
                                  !.pc = IF mode = "INSTALMENTS" THEN "compute"
                                         ELSE "attempts"]
  <2>1. /\ r \in WorkRecord /\ r.ev = work[w].ev
        /\ r.won = work[w].won /\ r.justPaid = work[w].justPaid
        /\ r.pc \in {"compute", "attempts"}
        /\ r.pc = "attempts" => mode # "INSTALMENTS"
    BY <1>0 DEF WorkRecord, WorkPcs, OneTimePcs
  <2>2. work' = [work EXCEPT ![w] = r]
    BY <1>2 DEF ReadInvoice
  <2>3. mode \in {"INSTALMENTS", "ONE_TIME"}
    BY Typed, SettlementAssumption
  <2> HIDE DEF r
  <2> QED
    BY <1>c, <2>1, <2>2, <2>3, QuietMoves DEF ReadInvoice, rows, sent, OneTimePcs
<1> QED
  BY <1>1, <1>2

LEMMA ComputeMoves ==
    ASSUME Shape, NEW w \in Everyone, ComputeFromInstalments(w)
    PROVE  Moves(w)
<1>0. work[w].pc # "idle" /\ work[w] \in WorkRecord
  BY Typed DEF ComputeFromInstalments
<1>c. work[w].ev \in Ev
  BY <1>0, Underway
<1> DEFINE next == StatusFromInstalments(Range(col))
<1>n. next \in InvoiceStatus
  BY StatusTyped
<1>1. CASE next = work[w].old
  <2> DEFINE r == Finished(w, FALSE)
  <2>1. /\ r \in WorkRecord /\ r.pc = "notify" /\ r.ev = work[w].ev
        /\ r.won = work[w].won /\ ~r.justPaid
    BY <1>0, FinishedTyped
  <2>2. work' = [work EXCEPT ![w] = r]
    BY <1>1 DEF ComputeFromInstalments
  <2> HIDE DEF r
  <2> QED
    BY <1>c, <2>1, <2>2, QuietMoves DEF ComputeFromInstalments, rows, sent, OneTimePcs
<1>2. CASE next # work[w].old
  <2> DEFINE r == [work[w] EXCEPT !.next = next, !.pc = "swap"]
  <2> HIDE DEF next
  <2>1. /\ r \in WorkRecord /\ r.ev = work[w].ev /\ r.pc = "swap"
        /\ r.won = work[w].won /\ r.justPaid = work[w].justPaid
        /\ r.next # r.old
    BY <1>0, <1>2, <1>n DEF WorkRecord, WorkPcs, OneTimePcs
  <2>2. work' = [work EXCEPT ![w] = r]
    BY <1>2 DEF ComputeFromInstalments, next
  <2> HIDE DEF r
  <2> QED
    BY <1>c, <2>1, <2>2, QuietMoves DEF ComputeFromInstalments, rows, sent, OneTimePcs
<1> QED
  BY <1>1, <1>2

LEMMA SwapMoves ==
    ASSUME Shape, NEW w \in Everyone, SwapInvoice(w)
    PROVE  Moves(w)
<1>0. /\ work[w].pc # "idle" /\ work[w] \in WorkRecord
      /\ work[w].next # work[w].old /\ work[w].next \in InvoiceStatus
  BY Typed DEF SwapInvoice, Shape, WorkShape, WorkRecord
<1>c. work[w].ev \in Ev
  BY <1>0, Underway
<1>1. CASE InvoiceUnchanged(w)
  <2> DEFINE r == Finished(w, work[w].next = "PAID")
  <2>1. /\ r \in WorkRecord /\ r.pc = "notify" /\ r.ev = work[w].ev
        /\ r.won = work[w].won /\ r.justPaid = (work[w].next = "PAID")
    BY <1>0, FinishedTyped
  <2>2. /\ work' = [work EXCEPT ![w] = r]
        /\ invoice' = work[w].next /\ BecomesPaid(w)
        /\ UNCHANGED <<mode, provider, todo, col, payment, user, receiptsOwed>>
    BY <1>1 DEF SwapInvoice
  <2> HIDE DEF r
  <2>3. /\ WorkShape' /\ work'[w] = r
        /\ \A v \in Everyone \ {w} : work'[v] = work[v]
    BY <1>c, <2>1, <2>2, OneMoves DEF OneTimePcs
  <2>4. ConfirmationMoves(w)
    <3>1. work[w].next = "PAID" => invoice # "PAID"
      BY <1>0, <1>1 DEF InvoiceUnchanged
    <3> QED
      BY <2>1, <2>2, <2>3, <3>1 DEF ConfirmationMoves, BecomesPaid
  <2> QED
    BY <1>0, <2>1, <2>2, <2>3, <2>4, Typed DEF Moves, RowsTyped, ReceiptMoves
<1>2. CASE ~InvoiceUnchanged(w)
  <2> DEFINE a == At(w, "readInvoice", work[w].won)
             r == IF TriesLeft(w) THEN [a EXCEPT !.tries = work[w].tries + 1] ELSE IdleWork
  <2>1. /\ a \in WorkRecord /\ a.pc = "readInvoice" /\ a.ev = work[w].ev
        /\ a.won = work[w].won /\ ~a.justPaid
    <3>1. "readInvoice" \in WorkPcs /\ work[w].won \in BOOLEAN
      BY <1>0 DEF WorkPcs, WorkRecord
    <3> QED
      BY <1>0, <3>1, AtTyped
  <2>2. work' = [work EXCEPT ![w] = r]
    BY <1>2 DEF SwapInvoice
  <2>3. TriesLeft(w) => work[w].tries + 1 \in 0 .. Tries - 1
    BY <1>0, SettlementAssumption DEF TriesLeft, WorkRecord
  <2> HIDE DEF a
  <2>4. /\ r \in WorkRecord /\ r.pc \in {"readInvoice", "idle"}
        /\ r.pc # "idle" => r.ev = work[w].ev
        /\ r.won => work[w].won /\ r.ev = work[w].ev
        /\ ~r.justPaid
    <3>1. CASE TriesLeft(w)
      <4>1. r = [a EXCEPT !.tries = work[w].tries + 1]
        BY <3>1
      <4> HIDE DEF r
      <4> QED
        BY <2>1, <2>3, <3>1, <4>1 DEF WorkRecord
    <3>2. CASE ~TriesLeft(w)
      BY <3>2, IdleTyped
    <3> QED
      BY <3>1, <3>2
  <2> HIDE DEF r
  <2> QED
    BY <1>2, <1>c, <2>2, <2>4, QuietMoves DEF SwapInvoice, OneTimePcs
<1> QED
  BY <1>1, <1>2

LEMMA PaymentMoves ==
    ASSUME Shape, NEW w \in Everyone,
           ReadAttempts(w) \/ WritePayment(w) \/ ReadPayments(w)
    PROVE  Moves(w)
<1>0. work[w].pc \in OneTimePcs /\ work[w].pc # "idle" /\ work[w] \in WorkRecord
  BY Typed DEF ReadAttempts, WritePayment, ReadPayments, OneTimePcs
<1>c. work[w].ev \in Ev /\ Coll(w) \in Collections /\ mode = "ONE_TIME"
  BY <1>0, Underway DEF Shape, WorkShape
<1>1. CASE ReadAttempts(w)
  <2> DEFINE target == PaymentStatus({col[c] : c \in
                         {d \in Collections : PaymentOf[d] = PaymentOf[Coll(w)]}})
             r == [work[w] EXCEPT !.pc = "writePayment", !.target = target]
  <2>1. target \in CollectionStatus
    BY StatusTyped
  <2> HIDE DEF target
  <2>2. /\ r \in WorkRecord /\ r.pc = "writePayment" /\ r.ev = work[w].ev
        /\ r.won = work[w].won /\ r.justPaid = work[w].justPaid
    BY <1>0, <2>1 DEF WorkRecord, WorkPcs, OneTimePcs
  <2>3. work' = [work EXCEPT ![w] = r]
    BY <1>1, Typed DEF ReadAttempts, target
  <2> HIDE DEF r
  <2> QED
    BY <1>1, <1>c, <2>2, <2>3, QuietMoves DEF ReadAttempts, rows, sent
<1>2. CASE WritePayment(w)
  <2> DEFINE r == [work[w] EXCEPT !.pc = "payments", !.target = "PENDING"]
  <2>1. /\ r \in WorkRecord /\ r.pc = "payments" /\ r.ev = work[w].ev
        /\ r.won = work[w].won /\ r.justPaid = work[w].justPaid
    BY <1>0 DEF WorkRecord, WorkPcs, OneTimePcs, CollectionStatus
  <2>2. /\ work' = [work EXCEPT ![w] = r]
        /\ UNCHANGED <<mode, provider, todo, col, invoice, user, receiptsOwed,
                       confirmationsOwed>>
    BY <1>2, Typed DEF WritePayment, sent
  <2>3. payment' \in [Payments -> CollectionStatus]
    BY <1>0, <1>2, Typed DEF WritePayment, WorkRecord
  <2> HIDE DEF r
  <2>4. /\ WorkShape' /\ work'[w] = r
        /\ \A v \in Everyone \ {w} : work'[v] = work[v]
    BY <1>c, <2>1, <2>2, OneMoves
  <2> QED
    BY <2>1, <2>2, <2>3, <2>4, Typed DEF Moves, RowsTyped, ReceiptMoves,
       ConfirmationMoves
<1>3. CASE ReadPayments(w)
  <2> DEFINE next == StatusFromPayments(Range(payment))
             r == [work[w] EXCEPT !.pc = "writeInvoice", !.next = next]
  <2>1. next \in InvoiceStatus
    BY StatusTyped
  <2> HIDE DEF next
  <2>2. /\ r \in WorkRecord /\ r.pc = "writeInvoice" /\ r.ev = work[w].ev
        /\ r.won = work[w].won /\ r.justPaid = work[w].justPaid
    BY <1>0, <2>1 DEF WorkRecord, WorkPcs, OneTimePcs
  <2>3. work' = [work EXCEPT ![w] = r]
    BY <1>3, Typed DEF ReadPayments, next
  <2> HIDE DEF r
  <2> QED
    BY <1>3, <1>c, <2>2, <2>3, QuietMoves DEF ReadPayments, rows, sent
<1> QED
  BY <1>1, <1>2, <1>3

LEMMA WriteInvoiceMoves ==
    ASSUME Shape, NEW w \in Everyone, WriteInvoice(w)
    PROVE  Moves(w)
<1>0. /\ work[w].pc \in OneTimePcs /\ work[w].pc # "idle"
      /\ work[w] \in WorkRecord /\ work[w].next \in InvoiceStatus
  BY Typed DEF WriteInvoice, OneTimePcs, WorkRecord
<1>c. work[w].ev \in Ev /\ mode = "ONE_TIME"
  BY <1>0, Underway DEF Shape, WorkShape
<1> DEFINE r == Finished(w, work[w].next = "PAID" /\ work[w].old # "PAID")
<1>1. /\ r \in WorkRecord /\ r.pc = "notify" /\ r.ev = work[w].ev
      /\ r.won = work[w].won
  BY <1>0, FinishedTyped
<1>2. /\ work' = [work EXCEPT ![w] = r]
      /\ invoice' \in {invoice, work[w].next}
      /\ UNCHANGED <<mode, provider, todo, col, payment, user, receiptsOwed,
                     confirmationsOwed>>
  BY <1>c DEF WriteInvoice, BecomesPaid
<1> HIDE DEF r
<1>3. /\ WorkShape' /\ work'[w] = r
      /\ \A v \in Everyone \ {w} : work'[v] = work[v]
  BY <1>c, <1>1, <1>2, OneMoves
<1> QED
  BY <1>0, <1>1, <1>2, <1>3, <1>c, Typed DEF Moves, RowsTyped, ReceiptMoves,
     ConfirmationMoves

LEMMA MailMoves ==
    ASSUME Shape, NEW w \in Everyone, SendReceipt(w) \/ SendConfirmation(w)
    PROVE  Moves(w)
<1>0. /\ work[w].pc # "idle" /\ work[w] \in WorkRecord
      /\ work[w].won \in BOOLEAN /\ work[w].justPaid \in BOOLEAN
  BY Typed DEF SendReceipt, SendConfirmation, WorkRecord
<1>c. work[w].ev \in Ev /\ Coll(w) \in Collections
  BY <1>0, Underway
<1>1. CASE SendReceipt(w)
  <2> DEFINE r == [work[w] EXCEPT !.pc = "confirm", !.won = FALSE]
  <2>1. /\ r \in WorkRecord /\ r.pc = "confirm" /\ r.ev = work[w].ev
        /\ ~r.won /\ r.justPaid = work[w].justPaid
    BY <1>0 DEF WorkRecord, WorkPcs
  <2>2. /\ work' = [work EXCEPT ![w] = r]
        /\ IF work[w].won THEN Owe(Coll(w), -1) ELSE UNCHANGED receiptsOwed
        /\ UNCHANGED <<mode, provider, todo, col, payment, invoice, user,
                       confirmationsOwed>>
    BY <1>1, Typed DEF SendReceipt, rows
  <2> HIDE DEF r
  <2>3. /\ WorkShape' /\ work'[w] = r
        /\ \A v \in Everyone \ {w} : work'[v] = work[v]
    BY <1>c, <2>1, <2>2, OneMoves DEF OneTimePcs
  <2>4. ReceiptMoves(w)
    BY <1>c, <2>1, <2>2, <2>3 DEF ReceiptMoves
  <2> QED
    BY <2>1, <2>2, <2>3, <2>4, Typed DEF Moves, RowsTyped, ConfirmationMoves
<1>2. CASE SendConfirmation(w)
  <2> DEFINE r == At(w, "complete", FALSE)
  <2>1. /\ r \in WorkRecord /\ r.pc = "complete" /\ r.ev = work[w].ev
        /\ ~r.won /\ ~r.justPaid
    BY <1>0, AtTyped DEF WorkPcs
  <2>2. /\ work' = [work EXCEPT ![w] = r]
        /\ Confirm(work[w].justPaid)
        /\ UNCHANGED <<mode, provider, todo, col, payment, invoice, user, receiptsOwed>>
    BY <1>2 DEF SendConfirmation, rows
  <2> HIDE DEF r
  <2>3. /\ WorkShape' /\ work'[w] = r
        /\ \A v \in Everyone \ {w} : work'[v] = work[v]
    BY <1>c, <2>1, <2>2, OneMoves DEF OneTimePcs
  <2>4. ConfirmationMoves(w)
    BY <2>1, <2>2, <2>3 DEF ConfirmationMoves, Confirm
  <2> QED
    BY <2>1, <2>2, <2>3, <2>4, Typed DEF Moves, RowsTyped, ReceiptMoves
<1> QED
  BY <1>1, <1>2

LEMMA EndMoves ==
    ASSUME Shape, NEW w \in Everyone, Complete(w) \/ Crash(w)
    PROVE  Moves(w)
<1>0. work[w].pc # "idle"
  BY DEF Complete, Crash
<1>c. work[w].ev \in Ev
  BY <1>0, Underway
<1>1. CASE work' = [work EXCEPT ![w] = IdleWork]
  BY <1>1, IdleTyped, QuietMoves DEF Complete, Crash, rows, sent, OneTimePcs
<1>2. CASE work' = [work EXCEPT ![w] = [IdleWork EXCEPT !.pc = "readInvoice",
                                                        !.ev = work[w].ev]]
  <2> DEFINE r == [IdleWork EXCEPT !.pc = "readInvoice", !.ev = work[w].ev]
  <2>1. /\ r \in WorkRecord /\ r.pc = "readInvoice" /\ r.ev = work[w].ev
        /\ ~r.won /\ ~r.justPaid
    BY <1>c, IdleTyped DEF WorkRecord, WorkPcs, IdleWork
  <2>2. work' = [work EXCEPT ![w] = r]
    BY <1>2
  <2> HIDE DEF r
  <2> QED
    BY <1>c, <2>1, <2>2, QuietMoves DEF Complete, Crash, rows, sent, OneTimePcs
<1> QED
  BY <1>1, <1>2 DEF Complete, Crash

LEMMA WorkMoves ==
    ASSUME Shape, NEW w \in Everyone, Step(w) \/ Crash(w)
    PROVE  Moves(w)
BY ReadMoves, SyncMoves, ReadInvoiceMoves, ComputeMoves, SwapMoves, PaymentMoves,
   WriteInvoiceMoves, MailMoves, EndMoves DEF Step

-----------------------------------------------------------------------------
(***************************************************************************)
(* Theorems                                                                *)
(***************************************************************************)

\* A step is that of one request, or moves none of them.
LEMMA Steps ==
    ASSUME Shape, [Next]_vars
    PROVE  \/ \E w \in Everyone : Moves(w)
           \/ UNCHANGED <<mode, work, receiptsOwed, confirmationsOwed>>
<1>1. ASSUME NEW ev \in todo, Deliver(ev) PROVE \E w \in Everyone : Moves(w)
  <2>1. ev \in Ev
    BY Typed DEF Ev
  <2> QED
    BY <1>1, <2>1, ReceiveMoves DEF Deliver, Everyone
<1>2. ASSUME NEW c \in Collections, Reconcile(c) PROVE \E w \in Everyone : Moves(w)
  BY <1>2, SweepingMoves DEF Reconcile, Everyone
<1>3. CASE \/ \E c \in Collections : ProviderMoves(c)
           \/ \E u \in Users : CheckMark(u) \/ Mark(u)
           \/ UNCHANGED vars
  BY <1>3 DEF ProviderMoves, CheckMark, Mark, vars, sent
<1> QED
  BY <1>1, <1>2, <1>3, WorkMoves DEF Next, Everyone

LEMMA ShapeStep == Shape /\ [Next]_vars => Shape'
<1> SUFFICES ASSUME Shape, [Next]_vars PROVE Shape'
  OBVIOUS
<1>1. ASSUME NEW w \in Everyone, Moves(w) PROVE Shape'
  <2>1. receiptsOwed' \in [Collections -> Int]
    BY <1>1, Typed DEF Moves, ReceiptMoves, Owe
  <2>2. confirmationsOwed' \in Int
    BY <1>1, Typed DEF Moves, ConfirmationMoves
  <2>3. \A v \in Workers \cup Sweepers : work'[v].tries < Tries
    <3>1. \A v \in Everyone : work'[v].tries \in 0 .. Tries - 1
      BY <1>1 DEF Moves, WorkShape, WorkRecord
    <3> QED
      BY <3>1, SettlementAssumption DEF Everyone
  <2> QED
    BY <1>1, <2>1, <2>2, <2>3, Typed DEF Moves, RowsTyped, Shape, TypeOK
<1>2. ASSUME UNCHANGED <<mode, work, receiptsOwed, confirmationsOwed>>,
             provider' \in [Collections -> ProviderStatus],
             todo' \subseteq Collections \X ProviderStatus,
             UNCHANGED <<col, payment>>, invoice' \in InvoiceStatus,
             user' \in [Users -> {"idle", "PAID_MANUALLY", "PENDING"}]
      PROVE  Shape'
  BY <1>2 DEF Shape, TypeOK, WorkShape
<1>3. ASSUME NEW ev \in todo, Deliver(ev) PROVE Shape'
  <2>1. ev \in Ev
    BY Typed DEF Ev
  <2> QED
    BY <1>1, <1>3, <2>1, ReceiveMoves DEF Deliver, Everyone
<1>4. ASSUME NEW c \in Collections, Reconcile(c) PROVE Shape'
  BY <1>1, <1>4, SweepingMoves DEF Reconcile, Everyone
<1>5. ASSUME NEW c \in Collections, ProviderMoves(c) PROVE Shape'
  <2>1. PICK s \in ProviderStatus :
          /\ provider' = [provider EXCEPT ![c] = s]
          /\ todo' = todo \cup {<<c, s>>}
    <3>1. provider[c] \in ProviderStatus
      BY Typed
    <3>2. NextProvider[c][provider[c]] \subseteq ProviderStatus
      BY <3>1, SettlementAssumption
    <3> QED
      BY <1>5, <3>2 DEF ProviderMoves
  <2>2. UNCHANGED <<mode, work, receiptsOwed, confirmationsOwed, col, payment, invoice, user>>
    BY <1>5 DEF ProviderMoves, rows, sent
  <2> QED
    BY <1>2, <2>1, <2>2, Typed
<1>6. ASSUME NEW u \in Users, CheckMark(u) \/ Mark(u) PROVE Shape'
  <2>1. user' \in [Users -> {"idle", "PAID_MANUALLY", "PENDING"}]
    BY <1>6, Typed DEF CheckMark, Mark
  <2>2. invoice' \in InvoiceStatus
    BY <1>6, Typed DEF CheckMark, Mark, rows, InvoiceStatus
  <2>3. UNCHANGED <<mode, provider, todo, col, payment, work, receiptsOwed,
                    confirmationsOwed>>
    BY <1>6 DEF CheckMark, Mark, rows, sent
  <2> QED
    BY <1>2, <2>1, <2>2, <2>3, Typed
<1>7. CASE UNCHANGED vars
  BY <1>2, <1>7, Typed DEF vars, rows, sent
<1>8. ASSUME NEW w \in Everyone, Step(w) \/ Crash(w) PROVE Shape'
  BY <1>1, <1>8, WorkMoves
<1> QED
  BY <1>3, <1>4, <1>5, <1>6, <1>7, <1>8 DEF Next, Everyone

\* Every variable keeps the shape of the rows and of the local states.
THEOREM TypeCorrect == Spec => []TypeOK
<1>1. Shape => TypeOK
  BY DEF Shape
<1> QED
  BY <1>1, ShapeInit, ShapeStep, PTL DEF Spec

\* The requests that have won collection c and still have to send its receipt.
Winners(c) == {w \in Everyone : work[w].won /\ Coll(w) = c}

\* No collection has more requests about to send a receipt than receipts due.
Counted ==
    \A c \in Collections :
        IsFiniteSet(Winners(c)) /\ receiptsOwed[c] >= Cardinality(Winners(c))

\* The requests that have turned a plan's invoice to PAID and still have to say so.
Tellers == {w \in Everyone : work[w].justPaid /\ mode = "INSTALMENTS"}

Told == IsFiniteSet(Tellers) /\ confirmationsOwed >= Cardinality(Tellers)

\* A set that gained one element at most, lost elements, or lost one for sure.
LEMMA Grows ==
    ASSUME NEW S, NEW T, NEW x, IsFiniteSet(S), T \subseteq S \cup {x}
    PROVE  IsFiniteSet(T) /\ Cardinality(T) <= Cardinality(S) + 1
<1>1. /\ IsFiniteSet(S \cup {x}) /\ Cardinality(S) \in Nat
      /\ Cardinality(S \cup {x}) \in {Cardinality(S), Cardinality(S) + 1}
  BY FS_AddElement, FS_CardinalityType
<1>2. /\ IsFiniteSet(T) /\ Cardinality(T) \in Nat
      /\ Cardinality(T) <= Cardinality(S \cup {x})
  BY <1>1, FS_Subset, FS_CardinalityType
<1> QED
  BY <1>1, <1>2

LEMMA Loses ==
    ASSUME NEW S, NEW T, NEW x, IsFiniteSet(S), x \in S, T \subseteq S \ {x}
    PROVE  IsFiniteSet(T) /\ Cardinality(T) <= Cardinality(S) - 1
<1>1. /\ IsFiniteSet(S \ {x}) /\ Cardinality(S) \in Nat
      /\ Cardinality(S \ {x}) = Cardinality(S) - 1
  BY FS_RemoveElement, FS_CardinalityType
<1>2. /\ IsFiniteSet(T) /\ Cardinality(T) \in Nat
      /\ Cardinality(T) <= Cardinality(S \ {x})
  BY <1>1, FS_Subset, FS_CardinalityType
<1> QED
  BY <1>1, <1>2

LEMMA CountedStep == Shape /\ Counted /\ [Next]_vars => Counted'
<1> SUFFICES ASSUME Shape, Counted, [Next]_vars, NEW c \in Collections
             PROVE  /\ IsFiniteSet(Winners(c)')
                    /\ receiptsOwed'[c] >= Cardinality(Winners(c)')
  BY DEF Counted
<1>0. /\ IsFiniteSet(Winners(c)) /\ receiptsOwed[c] \in Int
      /\ Cardinality(Winners(c)) \in Nat
      /\ receiptsOwed[c] >= Cardinality(Winners(c))
  BY Typed, FS_CardinalityType DEF Counted
<1>1. CASE UNCHANGED <<mode, work, receiptsOwed, confirmationsOwed>>
  BY <1>0, <1>1 DEF Winners, Coll
<1>2. ASSUME NEW w \in Everyone, Moves(w)
      PROVE  /\ IsFiniteSet(Winners(c)')
             /\ receiptsOwed'[c] >= Cardinality(Winners(c)')
  <2>1. \A v \in Everyone \ {w} : v \in Winners(c)' <=> v \in Winners(c)
    BY <1>2 DEF Moves, Winners, Coll
  <2>2. ASSUME Winners(c)' \subseteq Winners(c), receiptsOwed'[c] = receiptsOwed[c]
        PROVE  /\ IsFiniteSet(Winners(c)')
               /\ receiptsOwed'[c] >= Cardinality(Winners(c)')
    BY <1>0, <2>2, FS_Subset, FS_CardinalityType
  <2>3. CASE UNCHANGED receiptsOwed /\ (work'[w].won => work[w].won /\ work'[w].ev = work[w].ev)
    BY <2>1, <2>2, <2>3 DEF Winners, Coll
  <2>4. CASE Owe(Coll(w), 1) /\ Coll(w) \in Collections /\ work'[w].ev = work[w].ev
    <3>1. CASE c = Coll(w)
      <4>1. receiptsOwed'[c] = receiptsOwed[c] + 1
        BY <2>4, <3>1, Typed DEF Owe
      <4>2. Winners(c)' \subseteq Winners(c) \cup {w}
        BY <2>1 DEF Winners
      <4>3. /\ IsFiniteSet(Winners(c)')
            /\ Cardinality(Winners(c)') <= Cardinality(Winners(c)) + 1
        BY <1>0, <4>2, Grows
      <4>4. Cardinality(Winners(c)') \in Nat
        BY <4>3, FS_CardinalityType
      <4> QED
        BY <1>0, <4>1, <4>3, <4>4
    <3>2. CASE c # Coll(w)
      <4>1. receiptsOwed'[c] = receiptsOwed[c]
        BY <2>4, <3>2, Typed DEF Owe
      <4>2. w \notin Winners(c)'
        BY <2>4, <3>2 DEF Winners, Coll
      <4> QED
        BY <2>1, <2>2, <4>1, <4>2 DEF Winners
    <3> QED
      BY <3>1, <3>2
  <2>5. CASE /\ Owe(Coll(w), -1) /\ Coll(w) \in Collections
             /\ work[w].won /\ ~work'[w].won
    <3>0. w \notin Winners(c)'
      BY <2>5 DEF Winners
    <3>1. CASE c = Coll(w)
      <4>1. receiptsOwed'[c] = receiptsOwed[c] - 1
        BY <2>5, <3>1, Typed DEF Owe
      <4>2. w \in Winners(c) /\ Winners(c)' \subseteq Winners(c) \ {w}
        BY <2>1, <2>5, <3>0, <3>1 DEF Winners
      <4>3. /\ IsFiniteSet(Winners(c)')
            /\ Cardinality(Winners(c)') <= Cardinality(Winners(c)) - 1
        BY <1>0, <4>2, Loses
      <4>4. Cardinality(Winners(c)') \in Nat
        BY <4>3, FS_CardinalityType
      <4> QED
        BY <1>0, <4>1, <4>3, <4>4
    <3>2. CASE c # Coll(w)
      <4>1. receiptsOwed'[c] = receiptsOwed[c]
        BY <2>5, <3>2, Typed DEF Owe
      <4> QED
        BY <2>1, <2>2, <3>0, <4>1 DEF Winners
    <3> QED
      BY <3>1, <3>2
  <2> QED
    BY <1>2, <2>3, <2>4, <2>5 DEF Moves, ReceiptMoves
<1> QED
  BY <1>1, <1>2, Steps

\* Each time a collection becomes SUCCESS, one receipt at most is sent: whoever
\* made the conditional update sends it, however many events and sweeps report
\* the same and however they overlap (syncKnownPaymentAttemptStatus,
\* syncInstalmentStatus, SendReceipt).
THEOREM OneReceipt == Spec => []OneReceiptPerSuccess
<1>1. Init => Counted
  <2> SUFFICES ASSUME Init, NEW c \in Collections
               PROVE  IsFiniteSet(Winners(c)) /\ receiptsOwed[c] >= Cardinality(Winners(c))
    BY DEF Counted
  <2>1. Winners(c) = {} /\ receiptsOwed[c] = 0
    BY DEF Init, Winners, IdleWork, Everyone
  <2> QED
    BY <2>1, FS_EmptySet
<1>2. Shape /\ Counted => OneReceiptPerSuccess
  <2> SUFFICES ASSUME Shape, Counted, NEW c \in Collections PROVE receiptsOwed[c] >= 0
    BY DEF OneReceiptPerSuccess
  <2>1. /\ receiptsOwed[c] \in Int /\ Cardinality(Winners(c)) \in Nat
        /\ receiptsOwed[c] >= Cardinality(Winners(c))
    BY Typed, FS_CardinalityType DEF Counted
  <2> QED
    BY <2>1
<1> QED
  BY <1>1, <1>2, CountedStep, ShapeInit, ShapeStep, PTL DEF Spec

LEMMA ToldStep == Shape /\ Told /\ [Next]_vars => Told'
<1> SUFFICES ASSUME Shape, Told, [Next]_vars PROVE Told'
  OBVIOUS
<1>0. /\ IsFiniteSet(Tellers) /\ confirmationsOwed \in Int
      /\ Cardinality(Tellers) \in Nat
      /\ confirmationsOwed >= Cardinality(Tellers)
  BY Typed, FS_CardinalityType DEF Told
<1>1. CASE UNCHANGED <<mode, work, receiptsOwed, confirmationsOwed>>
  BY <1>0, <1>1 DEF Tellers, Told
<1>2. ASSUME NEW w \in Everyone, Moves(w) PROVE Told'
  <2>1. /\ UNCHANGED mode
        /\ \A v \in Everyone \ {w} : v \in Tellers' <=> v \in Tellers
    BY <1>2 DEF Moves, RowsTyped, Tellers
  <2>2. CASE /\ UNCHANGED confirmationsOwed
             /\ work'[w].justPaid /\ mode = "INSTALMENTS" => work[w].justPaid
    <3>1. Tellers' \subseteq Tellers
      BY <2>1, <2>2 DEF Tellers
    <3> QED
      BY <1>0, <2>2, <3>1, FS_Subset, FS_CardinalityType DEF Told
  <2>3. CASE confirmationsOwed' = confirmationsOwed + 1
    <3>1. Tellers' \subseteq Tellers \cup {w}
      BY <2>1 DEF Tellers
    <3>2. IsFiniteSet(Tellers') /\ Cardinality(Tellers') <= Cardinality(Tellers) + 1
      BY <1>0, <3>1, Grows
    <3>3. Cardinality(Tellers') \in Nat
      BY <3>2, FS_CardinalityType
    <3> QED
      BY <1>0, <2>3, <3>2, <3>3 DEF Told
  <2>4. CASE /\ confirmationsOwed' = confirmationsOwed - 1
             /\ mode = "INSTALMENTS" /\ work[w].justPaid /\ ~work'[w].justPaid
    <3>1. w \in Tellers /\ Tellers' \subseteq Tellers \ {w}
      BY <2>1, <2>4 DEF Tellers
    <3>2. IsFiniteSet(Tellers') /\ Cardinality(Tellers') <= Cardinality(Tellers) - 1
      BY <1>0, <3>1, Loses
    <3>3. Cardinality(Tellers') \in Nat
      BY <3>2, FS_CardinalityType
    <3> QED
      BY <1>0, <2>4, <3>2, <3>3 DEF Told
  <2> QED
    BY <1>2, <2>2, <2>3, <2>4 DEF Moves, ConfirmationMoves
<1> QED
  BY <1>1, <1>2, Steps

\* The swap of the status lets one request tell the client of a plan that the
\* invoice is paid (refreshFromInstalment), each time it becomes paid.
THEOREM OneConfirmation == Spec => []OneConfirmationPerPayment
<1>1. Init => Told
  <2> SUFFICES ASSUME Init PROVE Told
    OBVIOUS
  <2>1. Tellers = {} /\ confirmationsOwed = 0
    BY DEF Init, Tellers, IdleWork, Everyone
  <2> QED
    BY <2>1, FS_EmptySet DEF Told
<1>2. Shape /\ Told => OneConfirmationPerPayment
  <2> SUFFICES ASSUME Shape, Told PROVE confirmationsOwed >= 0
    BY DEF OneConfirmationPerPayment
  <2>1. /\ confirmationsOwed \in Int /\ Cardinality(Tellers) \in Nat
        /\ confirmationsOwed >= Cardinality(Tellers)
    BY Typed, FS_CardinalityType DEF Told
  <2> QED
    BY <2>1
<1> QED
  BY <1>1, <1>2, ToldStep, ShapeInit, ShapeStep, PTL DEF Spec

-----------------------------------------------------------------------------
(***************************************************************************)
(* GoCardlessConnection: what the requests know                            *)
(***************************************************************************)

Names == Organisations \cup {Nobody}

Pcs == {"idle", "exchange", "store", "find", "list", "mark", "update", "connect",
        "next", "call", "which"}

AccountRecord == [token : 0..MaxTokens, creditor : Names, verified : BOOLEAN]

StateRecord == [status : {"new", "open", "used"}, company : Companies \cup {Nobody}]

CheckRecord == [pc : Pcs, company : Companies \cup {Nobody}, token : 0..MaxTokens,
                state : 0..MaxStates, verify : BOOLEAN, org : Names, ok : BOOLEAN,
                todo : SUBSET Companies]

AccountTyped ==
    /\ connected \in [Companies -> BOOLEAN]
    /\ account \in [Companies -> AccountRecord]
    /\ state \in [States -> StateRecord]
    /\ owner \in [Tokens -> Names]
    /\ revoked \subseteq Tokens
    /\ check \in [Checkers -> CheckRecord]
    /\ mixed \subseteq Companies

\* What a request knows still holds: the token it tries was given, the one it
\* cuts was refused, and a verification that no reconnection has overlapped
\* has the token of the account.
Sound(k) ==
    /\ k.pc \in {"exchange", "store", "find", "list", "mark", "update", "connect"}
         => k.company \in Companies
    /\ k.pc \in {"exchange", "store"} => k.state \in States
    /\ k.pc \in {"store", "list", "update"} => k.token \in Tokens /\ owner[k.token] # Nobody
    /\ k.pc \in {"mark", "which"} => k.token \in revoked
    /\ k.pc = "update" => k.verify /\ (k.ok => owner[k.token] \in Approved)
    /\ k.pc \in {"list", "update"} /\ k.verify /\ k.company \notin mixed
         => k.token = account[k.company].token

TokensGiven ==
    /\ \A c \in Companies : account[c].token # 0 => owner[account[c].token] # Nobody
    /\ \A s \in States : state[s].status = "open" => state[s].company \in Companies

AccountInv ==
    /\ AccountTyped
    /\ TokensGiven
    /\ \A t \in Checkers : Sound(check[t])
    /\ VerifiedIsOfAccount

-----------------------------------------------------------------------------

LEMMA Bounds ==
    /\ Tokens = 0..MaxTokens \ {0}
    /\ States \subseteq 0..MaxStates
<1>1. MaxTokens \in Nat /\ MaxStates \in Nat
  BY AccountAssumption
<1> QED
  BY <1>1 DEF Tokens, States

LEMMA NoCheckSound == NoCheck \in CheckRecord /\ Sound(NoCheck)
<1>1. 0 \in 0..MaxTokens /\ 0 \in 0..MaxStates
  BY AccountAssumption
<1> QED
  BY <1>1 DEF NoCheck, CheckRecord, Sound, Pcs, Names

LEMMA EndedSound ==
    ASSUME AccountInv, NEW t \in Checkers
    PROVE  Ended(t) \in CheckRecord /\ Sound(Ended(t))
<1>1. check[t].todo \in SUBSET Companies
  BY DEF AccountInv, AccountTyped, CheckRecord
<1> QED
  BY <1>1, NoCheckSound DEF Ended, NoCheck, CheckRecord, Sound, Pcs

LEMMA ReadingSound ==
    ASSUME AccountInv, NEW t \in Checkers, NEW c \in Companies
    PROVE  Reading(t, c) \in CheckRecord /\ Sound(Reading(t, c))
<1>1. CASE account[c].token = 0
  BY <1>1, EndedSound DEF Reading
<1>2. CASE account[c].token # 0
  <2>1. check[t] \in CheckRecord /\ account[c].token \in Tokens
    BY <1>2, AccountAssumption DEF AccountInv, AccountTyped, AccountRecord, Tokens
  <2>2. owner[account[c].token] # Nobody
    BY <1>2 DEF AccountInv, TokensGiven
  <2>3. Reading(t, c) = [check[t] EXCEPT !.pc = "list", !.company = c,
                                         !.token = account[c].token]
    BY <1>2 DEF Reading
  <2>4. Reading(t, c) \in CheckRecord
    <3>1. account[c].token \in 0..MaxTokens
      BY DEF AccountInv, AccountTyped, AccountRecord
    <3> QED
      BY <2>1, <2>3, <3>1 DEF CheckRecord, Pcs
  <2>5. /\ Reading(t, c).pc = "list"
        /\ Reading(t, c).company = c
        /\ Reading(t, c).token = account[c].token
    BY <2>1, <2>3 DEF CheckRecord
  <2> QED
    BY <2>1, <2>2, <2>4, <2>5 DEF Sound
<1> QED
  BY <1>1, <1>2

\* A step that only changes what one request knows.
LEMMA OnlyCheck ==
    ASSUME AccountInv, NEW t \in Checkers, NEW k \in CheckRecord, Sound(k),
           check' = [check EXCEPT ![t] = k],
           UNCHANGED <<accountRows, atGoCardless, mixed>>
    PROVE  AccountInv'
<1>1. \A u \in Checkers : check'[u] = IF u = t THEN k ELSE check[u]
  BY DEF AccountInv, AccountTyped
<1>2. check' \in [Checkers -> CheckRecord]
  BY DEF AccountInv, AccountTyped
<1>3. AccountTyped'
  BY <1>2 DEF AccountInv, AccountTyped, accountRows, atGoCardless
<1>4. \A u \in Checkers : Sound(check[u])'
  BY <1>1 DEF AccountInv, Sound, accountRows, atGoCardless
<1> QED
  BY <1>3, <1>4 DEF AccountInv, TokensGiven, VerifiedIsOfAccount, OrganisationOf,
                    accountRows, atGoCardless

\* The initial states.
LEMMA AccountInitInv == AccountInit => AccountInv
<1> SUFFICES ASSUME AccountInit PROVE AccountInv
  OBVIOUS
<1>1. PICK b \in Before :
        /\ connected = [c \in Companies |-> c = b.company]
        /\ account = [c \in Companies |->
                       IF c = b.company THEN [NoAccount EXCEPT !.token = 1] ELSE NoAccount]
        /\ owner = [k \in Tokens |->
                     IF k = 1 /\ b.company \in Companies THEN b.organisation ELSE Nobody]
  BY DEF AccountInit
<1>2. b.company \in Companies => b.organisation \in Organisations /\ 1 \in Tokens
  BY AccountAssumption DEF Tokens
<1>3. \A c \in Companies :
        /\ account[c] = IF c = b.company THEN [NoAccount EXCEPT !.token = 1] ELSE NoAccount
        /\ account[c] \in AccountRecord
        /\ account[c].token = (IF c = b.company THEN 1 ELSE 0)
        /\ account[c].creditor = Nobody
        /\ ~account[c].verified
  <2>1. NoAccount \in AccountRecord /\ NoAccount.token = 0 /\ NoAccount.creditor = Nobody
        /\ ~NoAccount.verified
    BY AccountAssumption DEF NoAccount, AccountRecord, Names
  <2>2. \A k \in 0..MaxTokens :
          LET a == [NoAccount EXCEPT !.token = k] IN
          a \in AccountRecord /\ a.token = k /\ a.creditor = Nobody /\ ~a.verified
    BY <2>1 DEF AccountRecord
  <2>3. b.company \in Companies => 1 \in 0..MaxTokens
    BY <1>2 DEF Tokens
  <2> QED
    BY <1>1, <2>1, <2>2, <2>3
<1>4. account \in [Companies -> AccountRecord]
  BY <1>1, <1>3
<1>5. owner \in [Tokens -> Names]
  BY <1>1, <1>2 DEF Names
<1>6. \A t \in Checkers : check[t] \in CheckRecord /\ Sound(check[t])
  BY NoCheckSound DEF AccountInit
<1>7. AccountTyped
  BY <1>1, <1>4, <1>5, <1>6 DEF AccountInit, AccountTyped, StateRecord
<1>8. TokensGiven
  BY <1>1, <1>2, <1>3, AccountAssumption DEF TokensGiven, AccountInit
<1>9. VerifiedIsOfAccount
  BY <1>3 DEF VerifiedIsOfAccount
<1> QED
  BY <1>6, <1>7, <1>8, <1>9 DEF AccountInv

\* The steps of one request that write nothing.
LEMMA QuietSteps ==
    ASSUME AccountInv, NEW t \in Checkers,
           \/ \E s \in States : FindState(t, s)
           \/ \E c \in Companies : \/ \E verify \in BOOLEAN : StartCheck(t, c, verify)
                                   \/ StartHandling(t, c)
           \/ t \in Jobs /\ StartSweep(t)
           \/ FindAccount(t)
           \/ ListCreditors(t)
           \/ GoCardlessUnavailable(t)
           \/ SweepNext(t)
           \/ HandlerCalls(t)
           \/ FindDisconnected(t)
    PROVE  AccountInv'
<1> DEFINE Writes(k) == /\ check' = [check EXCEPT ![t] = k]
                        /\ UNCHANGED <<accountRows, atGoCardless, mixed>>
<1>0. check[t] \in CheckRecord /\ Sound(check[t])
  BY DEF AccountInv, AccountTyped
<1>a. ASSUME NEW k \in CheckRecord, Sound(k), Writes(k) PROVE AccountInv'
  BY <1>a, OnlyCheck
<1>b. ASSUME Writes(Ended(t)) PROVE AccountInv'
  BY <1>a, <1>b, EndedSound
<1>1. ASSUME NEW s \in States, FindState(t, s) PROVE AccountInv'
  <2> DEFINE k == [NoCheck EXCEPT !.pc = "exchange", !.state = s, !.company = state[s].company]
  <2>1. state[s].company \in Companies /\ s \in 0..MaxStates
    BY <1>1, Bounds DEF FindState, AccountInv, TokensGiven
  <2>2. k \in CheckRecord
    BY <2>1, NoCheckSound DEF CheckRecord, Pcs
  <2>3. k.pc = "exchange" /\ k.company \in Companies /\ k.state = s
    BY <2>1 DEF NoCheck
  <2>4. Sound(k)
    BY <2>3 DEF Sound
  <2> QED
    BY <1>1, <1>a, <2>2, <2>4 DEF FindState
<1>2. ASSUME NEW c \in Companies, NEW verify \in BOOLEAN, StartCheck(t, c, verify)
      PROVE  AccountInv'
  <2> DEFINE k == [Reading(t, c) EXCEPT !.verify = verify]
  <2>1. Reading(t, c) \in CheckRecord /\ Sound(Reading(t, c))
    BY ReadingSound
  <2>2. k \in CheckRecord
    BY <2>1 DEF CheckRecord
  <2>3. Reading(t, c).pc = "list" /\ Reading(t, c).company = c
        /\ Reading(t, c).token = account[c].token
    BY <1>2, <1>0 DEF StartCheck, Reading, CheckRecord
  <2>4. k.pc = "list" /\ k.company = c /\ k.token = account[c].token
    BY <2>1, <2>3 DEF CheckRecord
  <2>5. Sound(k)
    BY <2>1, <2>3, <2>4 DEF Sound
  <2> QED
    BY <1>2, <1>a, <2>2, <2>5 DEF StartCheck
<1>3. ASSUME NEW c \in Companies, StartHandling(t, c) PROVE AccountInv'
  <2> DEFINE k == [NoCheck EXCEPT !.pc = "call", !.org = OrganisationOf(c),
                                  !.token = account[c].token]
  <2>1. account[c].token \in 0..MaxTokens
    BY DEF AccountInv, AccountTyped, AccountRecord
  <2>2. account[c].token \in Tokens
    BY <1>3, <2>1, Bounds DEF StartHandling
  <2>3. OrganisationOf(c) \in Names
    BY <2>2 DEF OrganisationOf, AccountInv, AccountTyped
  <2>4. k \in CheckRecord
    BY <2>1, <2>3, NoCheckSound DEF CheckRecord, Pcs
  <2>5. k.pc = "call"
    BY DEF NoCheck
  <2>6. Sound(k)
    BY <2>5 DEF Sound
  <2> QED
    BY <1>3, <1>a, <2>4, <2>6 DEF StartHandling
<1>4. ASSUME t \in Jobs, StartSweep(t) PROVE AccountInv'
  <2> DEFINE linkedOnes == {c \in Companies : account[c].token # 0 /\ connected[c]}
             k == [NoCheck EXCEPT !.pc = "next", !.todo = linkedOnes]
  <2>1. k \in CheckRecord
    BY NoCheckSound DEF CheckRecord, Pcs
  <2>2. k.pc = "next"
    BY DEF NoCheck
  <2>3. Sound(k)
    BY <2>2 DEF Sound
  <2> QED
    BY <1>4, <1>a, <2>1, <2>3 DEF StartSweep
<1>5. ASSUME FindAccount(t) PROVE AccountInv'
  <2>1. check[t].company \in Companies
    BY <1>0, <1>5 DEF FindAccount, Sound
  <2> QED
    BY <1>5, <1>a, <2>1, ReadingSound DEF FindAccount
<1>6. ASSUME ListCreditors(t) PROVE AccountInv'
  <2>1. check[t].pc = "list"
    BY <1>6 DEF ListCreditors
  <2>2. CASE Inactive(t)
    <3> DEFINE k == [check[t] EXCEPT !.pc = "mark"]
    <3>1. k \in CheckRecord
      BY <1>0 DEF CheckRecord, Pcs
    <3>2. k.pc = "mark" /\ k.company = check[t].company /\ k.token = check[t].token
      BY <1>0 DEF CheckRecord
    <3>3. Sound(k)
      BY <1>0, <2>1, <2>2, <3>2 DEF Sound, Inactive
    <3>4. Writes(k)
      BY <1>0, <1>6, <2>2 DEF ListCreditors
    <3> QED
      BY <1>a, <3>1, <3>3, <3>4
  <2>3. CASE ~Inactive(t) /\ check[t].verify
    <3> DEFINE ok == owner[check[t].token] \in Approved
               k == [check[t] EXCEPT !.pc = "update", !.ok = ok]
    <3>0. ok \in BOOLEAN
      OBVIOUS
    <3> HIDE DEF ok
    <3>1. k \in CheckRecord
      BY <1>0, <3>0 DEF CheckRecord, Pcs
    <3>2. /\ k.pc = "update" /\ k.company = check[t].company /\ k.token = check[t].token
          /\ k.verify = check[t].verify
          /\ k.ok = ok
      BY <1>0 DEF CheckRecord
    <3>3. Sound(k)
      BY <1>0, <2>1, <2>3, <3>2 DEF Sound, ok
    <3>4. Writes(k)
      BY <1>0, <1>6, <2>3 DEF ListCreditors, AccountInv, AccountTyped, ok
    <3> QED
      BY <1>a, <3>1, <3>3, <3>4
  <2>4. CASE ~Inactive(t) /\ ~check[t].verify
    BY <1>6, <1>b, <2>4 DEF ListCreditors, Ends
  <2> QED
    BY <2>2, <2>3, <2>4
<1>7. ASSUME GoCardlessUnavailable(t) PROVE AccountInv'
  BY <1>7, <1>b DEF GoCardlessUnavailable, AfterOutage
<1>8. ASSUME SweepNext(t) PROVE AccountInv'
  <2>1. CASE check[t].todo = {}
    BY <1>8, <1>a, <2>1, NoCheckSound DEF SweepNext
  <2>2. CASE check[t].todo # {}
    <3>1. PICK c \in check[t].todo :
            Writes([Reading(t, c) EXCEPT !.todo = check[t].todo \ {c}])
      BY <1>8, <2>2 DEF SweepNext
    <3>2. c \in Companies /\ check[t].todo \ {c} \in SUBSET Companies
      BY <1>0 DEF CheckRecord
    <3>3. Reading(t, c) \in CheckRecord /\ Sound(Reading(t, c))
      BY <3>2, ReadingSound
    <3> DEFINE k == [Reading(t, c) EXCEPT !.todo = check[t].todo \ {c}]
    <3>4. k \in CheckRecord
      BY <3>2, <3>3 DEF CheckRecord
    <3>5. /\ k.pc = Reading(t, c).pc
          /\ k.company = Reading(t, c).company
          /\ k.token = Reading(t, c).token
          /\ k.state = Reading(t, c).state
          /\ k.verify = Reading(t, c).verify
          /\ k.ok = Reading(t, c).ok
      BY <3>3 DEF CheckRecord
    <3>6. Sound(k)
      BY <3>3, <3>5 DEF Sound
    <3> QED
      BY <1>a, <3>1, <3>4, <3>6
  <2> QED
    BY <2>1, <2>2
<1>9. ASSUME HandlerCalls(t) PROVE AccountInv'
  <2>1. CASE Inactive(t)
    <3> DEFINE k == [check[t] EXCEPT !.pc = "which"]
    <3>1. k \in CheckRecord
      BY <1>0 DEF CheckRecord, Pcs
    <3>2. k.pc = "which" /\ k.token = check[t].token
      BY <1>0 DEF CheckRecord
    <3>3. Sound(k)
      BY <2>1, <3>2 DEF Sound, Inactive
    <3>4. Writes(k)
      BY <1>0, <1>9, <2>1 DEF HandlerCalls, AccountInv, AccountTyped
    <3> QED
      BY <1>a, <3>1, <3>3, <3>4
  <2>2. CASE ~Inactive(t)
    BY <1>9, <1>b, <2>2 DEF HandlerCalls
  <2> QED
    BY <2>1, <2>2
<1>10. ASSUME FindDisconnected(t) PROVE AccountInv'
  <2>1. CASE Ends(t)
    BY <1>10, <1>b, <2>1 DEF FindDisconnected, Ends
  <2>2. ASSUME NEW c \in AccountsOf(check[t].org),
               check' = [check EXCEPT ![t].pc = "mark", ![t].company = c, ![t].org = Nobody]
        PROVE  AccountInv'
    <3> DEFINE k == [check[t] EXCEPT !.pc = "mark", !.company = c, !.org = Nobody]
    <3>1. c \in Companies
      BY DEF AccountsOf
    <3>2. k \in CheckRecord
      BY <1>0, <3>1 DEF CheckRecord, Pcs, Names
    <3>3. k.pc = "mark" /\ k.company = c /\ k.token = check[t].token
      BY <1>0 DEF CheckRecord
    <3>4. Sound(k)
      BY <1>0, <1>10, <3>1, <3>3 DEF Sound, FindDisconnected
    <3>5. Writes(k)
      BY <1>0, <1>10, <2>2 DEF FindDisconnected, AccountInv, AccountTyped
    <3> QED
      BY <1>a, <3>2, <3>4, <3>5
  <2> QED
    BY <1>10, <2>1, <2>2 DEF FindDisconnected
<1> QED
  BY <1>1, <1>2, <1>3, <1>4, <1>5, <1>6, <1>7, <1>8, <1>9, <1>10

-----------------------------------------------------------------------------

\* The steps that write a row, and those of GoCardless.

LEMMA BuildStep ==
    ASSUME AccountInv, NEW c \in Companies, NEW s \in States, BuildAuthorizationUrl(c, s)
    PROVE  AccountInv'
<1>1. state' \in [States -> StateRecord]
  BY DEF BuildAuthorizationUrl, AccountInv, AccountTyped, StateRecord
<1>2. TokensGiven'
  BY DEF BuildAuthorizationUrl, AccountInv, TokensGiven, AccountTyped, atGoCardless
<1>3. \A t \in Checkers : Sound(check[t])'
  BY DEF BuildAuthorizationUrl, AccountInv, Sound, atGoCardless
<1> QED
  BY <1>1, <1>2, <1>3 DEF BuildAuthorizationUrl, AccountInv, AccountTyped, VerifiedIsOfAccount,
                          OrganisationOf, atGoCardless

LEMMA RevokeStep ==
    ASSUME AccountInv, NEW k \in Tokens, RevokeToken(k)
    PROVE  AccountInv'
<1>1. \A t \in Checkers : Sound(check[t])'
  BY DEF RevokeToken, AccountInv, Sound, accountRows
<1> QED
  BY <1>1 DEF RevokeToken, AccountInv, AccountTyped, TokensGiven, VerifiedIsOfAccount,
              OrganisationOf, accountRows

\* A new token has no owner before: nothing that is known is about it.
LEMMA ExchangeStep ==
    ASSUME AccountInv, NEW t \in Checkers, NEW o \in Organisations, ExchangeCode(t, o)
    PROVE  AccountInv'
<1>1. CASE Ends(t) /\ UNCHANGED atGoCardless
  BY <1>1, EndedSound, OnlyCheck DEF ExchangeCode, Ends
<1>2. ASSUME NEW k \in Tokens, k \notin Given,
             owner' = [owner EXCEPT ![k] = o],
             check' = [check EXCEPT ![t].pc = "store", ![t].token = k],
             UNCHANGED revoked
      PROVE  AccountInv'
  <2> DEFINE new == [check[t] EXCEPT !.pc = "store", !.token = k]
  <2>1. check[t] \in CheckRecord /\ Sound(check[t]) /\ check[t].pc = "exchange"
    BY DEF AccountInv, AccountTyped, ExchangeCode
  <2>2. o # Nobody /\ owner[k] = Nobody /\ k \in 0..MaxTokens
    BY <1>2, AccountAssumption, Bounds DEF Given
  <2>3. /\ owner' \in [Tokens -> Names]
        /\ owner'[k] = o
        /\ \A j \in Tokens : owner[j] # Nobody => owner'[j] = owner[j]
    BY <1>2, <2>2 DEF AccountInv, AccountTyped, Names
  <2>4. new \in CheckRecord
    BY <2>1, <2>2 DEF CheckRecord, Pcs
  <2>5. /\ new.pc = "store" /\ new.token = k /\ new.company = check[t].company
        /\ new.state = check[t].state
    BY <2>1 DEF CheckRecord
  <2>6. \A u \in Checkers : check'[u] = IF u = t THEN new ELSE check[u]
    BY <1>2 DEF AccountInv, AccountTyped
  <2>7. check' \in [Checkers -> CheckRecord]
    BY <1>2, <2>4, <2>6 DEF AccountInv, AccountTyped
  <2>8. UNCHANGED <<connected, account, state, revoked, mixed>>
    BY <1>2 DEF ExchangeCode, accountRows
  <2>9. AccountTyped'
    BY <2>3, <2>7, <2>8 DEF AccountInv, AccountTyped
  <2>10. ASSUME NEW u \in Checkers PROVE Sound(check[u])'
    <3>1. CASE u = t
      BY <2>1, <2>2, <2>3, <2>5, <2>6, <2>8, <3>1 DEF Sound
    <3>2. CASE u # t
      <4>1. check'[u] = check[u] /\ Sound(check[u])
        BY <2>6, <3>2 DEF AccountInv
      <4> QED
        BY <2>3, <2>8, <4>1 DEF Sound
    <3> QED
      BY <3>1, <3>2
  <2>11. \A c \in Companies : account[c].token # 0 =>
           /\ account[c].token \in Tokens
           /\ owner[account[c].token] # Nobody
           /\ owner'[account[c].token] = owner[account[c].token]
    BY <2>3, Bounds DEF AccountInv, AccountTyped, AccountRecord, TokensGiven
  <2>12. TokensGiven'
    BY <2>8, <2>11 DEF AccountInv, TokensGiven
  <2>13. VerifiedIsOfAccount'
    BY <2>8, <2>11 DEF AccountInv, VerifiedIsOfAccount, OrganisationOf
  <2> QED
    BY <2>9, <2>10, <2>12, <2>13 DEF AccountInv
<1> QED
  BY <1>1, <1>2 DEF ExchangeCode

\* A verification that had the former token makes the company mixed.
LEMMA StoreStep ==
    ASSUME AccountInv, NEW t \in Checkers, StoreAccount(t)
    PROVE  AccountInv'
<1>1. CASE Ends(t) /\ UNCHANGED <<accountRows, mixed>>
  BY <1>1, EndedSound, OnlyCheck DEF StoreAccount, Ends
<1>2. ASSUME ~(Ends(t) /\ UNCHANGED <<accountRows, mixed>>)
      PROVE  AccountInv'
  <2> DEFINE c == check[t].company
             s == check[t].state
             k == check[t].token
             new == [NoCheck EXCEPT !.pc = "find", !.company = c]
             acc == [NoAccount EXCEPT !.token = k]
  <2>1. check[t] \in CheckRecord /\ Sound(check[t]) /\ check[t].pc = "store"
    BY DEF AccountInv, AccountTyped, StoreAccount
  <2>2. /\ c \in Companies /\ s \in States /\ k \in Tokens
        /\ owner[k] # Nobody /\ k \in 0..MaxTokens
    BY <2>1, Bounds DEF Sound
  <2>3. /\ account' = [account EXCEPT ![c] = acc]
        /\ state' = [state EXCEPT ![s].status = "used"]
        /\ connected' = [connected EXCEPT ![c] = TRUE]
        /\ mixed' = IF Verifying(c) = {} THEN mixed ELSE mixed \cup {c}
        /\ check' = [check EXCEPT ![t] = new]
        /\ owner' = owner /\ revoked' = revoked
    BY <1>2 DEF StoreAccount, ConnectedAccount, atGoCardless
  <2>4. acc \in AccountRecord /\ acc.token = k /\ acc.creditor = Nobody /\ ~acc.verified
    BY <2>2 DEF NoAccount, AccountRecord, Names
  <2>5. new \in CheckRecord
    BY <2>2, NoCheckSound DEF CheckRecord, Pcs
  <2>6. new.pc = "find" /\ new.company = c
    BY DEF NoCheck
  <2> HIDE DEF acc, new
  <2>7. \A u \in Checkers : check'[u] = IF u = t THEN new ELSE check[u]
    BY <2>3 DEF AccountInv, AccountTyped
  <2>8. \A d \in Companies : account'[d] = IF d = c THEN acc ELSE account[d]
    BY <2>3 DEF AccountInv, AccountTyped
  <2>9. state' \in [States -> StateRecord]
        /\ \A r \in States : state'[r].status = "open" =>
              state[r].status = "open" /\ state'[r].company = state[r].company
    BY <2>2, <2>3 DEF AccountInv, AccountTyped, StateRecord
  <2>10. AccountTyped'
    BY <2>2, <2>3, <2>4, <2>5, <2>9 DEF AccountInv, AccountTyped
  <2>11. TokensGiven'
    BY <2>2, <2>3, <2>4, <2>8, <2>9 DEF AccountInv, TokensGiven
  <2>12. ASSUME NEW u \in Checkers PROVE Sound(check[u])'
    <3>1. CASE u = t
      BY <2>2, <2>6, <2>7, <3>1 DEF Sound
    <3>2. CASE u # t
      <4>1. check'[u] = check[u] /\ Sound(check[u])
        BY <2>7, <3>2 DEF AccountInv
      <4>2. CASE check[u].company # c
        <5>1. check[u].company \in Companies =>
                account'[check[u].company] = account[check[u].company]
          BY <2>8, <4>2
        <5>2. mixed \subseteq mixed'
          BY <2>3
        <5> QED
          BY <2>3, <4>1, <5>1, <5>2 DEF Sound
      <4>3. CASE check[u].company = c
        <5>1. check[u].pc \in {"list", "update"} /\ check[u].verify => c \in mixed'
          BY <2>3, <4>3 DEF Verifying
        <5> QED
          BY <2>3, <4>1, <4>3, <5>1 DEF Sound
      <4> QED
        BY <4>2, <4>3
    <3> QED
      BY <3>1, <3>2
  <2>13. VerifiedIsOfAccount'
    <3>1. mixed \subseteq mixed'
      BY <2>3
    <3> QED
      BY <2>3, <2>4, <2>8, <3>1 DEF AccountInv, VerifiedIsOfAccount, OrganisationOf
  <2> QED
    BY <2>10, <2>11, <2>12, <2>13 DEF AccountInv
<1> QED
  BY <1>1, <1>2

\* The account keeps its token: what is known of it stays known.
LEMMA MarkStep ==
    ASSUME AccountInv, NEW t \in Checkers, MarkDisconnected(t)
    PROVE  AccountInv'
<1> DEFINE c == check[t].company
<1>1. c \in Companies
  BY DEF MarkDisconnected, AccountInv, Sound
<1>2. /\ connected' = [connected EXCEPT ![c] = FALSE]
      /\ account' = [account EXCEPT ![c].verified = FALSE]
      /\ check' = [check EXCEPT ![t] = Ended(t)]
      /\ UNCHANGED <<state, owner, revoked, mixed>>
  BY DEF MarkDisconnected, Ends, atGoCardless
<1>3. /\ account' \in [Companies -> AccountRecord]
      /\ \A d \in Companies : /\ account'[d].token = account[d].token
                              /\ account'[d].creditor = account[d].creditor
                              /\ account'[d].verified => account[d].verified
  BY <1>1, <1>2 DEF AccountInv, AccountTyped, AccountRecord
<1>4. Ended(t) \in CheckRecord /\ Sound(Ended(t))
  BY EndedSound
<1>5. \A u \in Checkers : check'[u] = IF u = t THEN Ended(t) ELSE check[u]
  BY <1>2 DEF AccountInv, AccountTyped
<1>6. AccountTyped'
  BY <1>2, <1>3, <1>4, <1>5 DEF AccountInv, AccountTyped
<1>7. ASSUME NEW u \in Checkers PROVE Sound(check[u])'
  <2>1. \E k : check'[u] = k /\ Sound(k)
    BY <1>4, <1>5 DEF AccountInv
  <2> QED
    BY <1>2, <1>3, <2>1 DEF Sound
<1> QED
  BY <1>2, <1>3, <1>6, <1>7 DEF AccountInv, TokensGiven, VerifiedIsOfAccount, OrganisationOf

LEMMA UpdateStep ==
    ASSUME AccountInv, NEW t \in Checkers, UpdateAccount(t)
    PROVE  AccountInv'
<1> DEFINE c == check[t].company
           k == check[t].token
           new == [NoCheck EXCEPT !.pc = "connect", !.company = c]
<1>1. check[t] \in CheckRecord /\ Sound(check[t]) /\ check[t].pc = "update"
  BY DEF UpdateAccount, AccountInv, AccountTyped
<1>2. /\ c \in Companies /\ k \in Tokens /\ owner[k] \in Names
      /\ check[t].ok => owner[k] \in Approved
      /\ c \notin mixed => k = account[c].token
  BY <1>1 DEF Sound, AccountInv, AccountTyped
<1>3. /\ account' = [account EXCEPT ![c].creditor = owner[k], ![c].verified = check[t].ok]
      /\ check' = [check EXCEPT ![t] = new]
      /\ UNCHANGED <<connected, state, owner, revoked, mixed>>
  BY DEF UpdateAccount, atGoCardless
<1>4. /\ account' \in [Companies -> AccountRecord]
      /\ \A d \in Companies :
           /\ account'[d].token = account[d].token
           /\ d = c => account'[d].creditor = owner[k] /\ account'[d].verified = check[t].ok
           /\ d # c => account'[d] = account[d]
  BY <1>1, <1>2, <1>3 DEF AccountInv, AccountTyped, AccountRecord, CheckRecord
<1>5. new \in CheckRecord /\ new.pc = "connect" /\ new.company = c
  BY <1>2, NoCheckSound DEF CheckRecord, Pcs
<1> HIDE DEF new
<1>6. Sound(new)
  BY <1>2, <1>5 DEF Sound
<1>7. \A u \in Checkers : check'[u] = IF u = t THEN new ELSE check[u]
  BY <1>3 DEF AccountInv, AccountTyped
<1>8. AccountTyped'
  BY <1>3, <1>4, <1>5, <1>7 DEF AccountInv, AccountTyped
<1>9. ASSUME NEW u \in Checkers PROVE Sound(check[u])'
  <2>1. PICK j : check'[u] = j /\ Sound(j)
    BY <1>6, <1>7 DEF AccountInv
  <2>2. UNCHANGED <<owner, revoked, mixed>>
        /\ \A d \in Companies : account'[d].token = account[d].token
    BY <1>3, <1>4
  <2> QED
    BY <2>1, <2>2 DEF Sound
<1>10. ASSUME NEW d \in Companies, account'[d].token # 0, d \notin mixed'
       PROVE  /\ account'[d].creditor \in {Nobody, owner'[account'[d].token]}
              /\ account'[d].verified => owner'[account'[d].token] \in Approved
  <2>1. CASE d = c
    BY <1>2, <1>3, <1>4, <1>10, <2>1
  <2>2. CASE d # c
    BY <1>3, <1>4, <1>10, <2>2 DEF AccountInv, VerifiedIsOfAccount, OrganisationOf
  <2> QED
    BY <2>1, <2>2
<1>11. VerifiedIsOfAccount'
  BY <1>10 DEF VerifiedIsOfAccount, OrganisationOf
<1>12. TokensGiven'
  <2>1. /\ UNCHANGED <<owner, state>>
        /\ \A d \in Companies : account'[d].token = account[d].token
    BY <1>3, <1>4
  <2> QED
    BY <2>1 DEF AccountInv, TokensGiven
<1> QED
  BY <1>8, <1>9, <1>11, <1>12 DEF AccountInv

LEMMA ConnectStep ==
    ASSUME AccountInv, NEW t \in Checkers, ConnectCompany(t)
    PROVE  AccountInv'
<1>1. Ended(t) \in CheckRecord /\ Sound(Ended(t))
  BY EndedSound
<1>2. \A u \in Checkers : check'[u] = IF u = t THEN Ended(t) ELSE check[u]
  BY DEF ConnectCompany, Ends, AccountInv, AccountTyped
<1>3. AccountTyped'
  BY <1>1 DEF ConnectCompany, Ends, AccountInv, AccountTyped, atGoCardless
<1>4. \A u \in Checkers : Sound(check[u])'
  BY <1>1, <1>2 DEF ConnectCompany, AccountInv, Sound, atGoCardless
<1> QED
  BY <1>3, <1>4 DEF ConnectCompany, AccountInv, TokensGiven, VerifiedIsOfAccount,
                    OrganisationOf, atGoCardless

-----------------------------------------------------------------------------

\* Every step keeps the invariant.
LEMMA AccountStep ==
    AccountInv /\ [AccountNext]_accountVars => AccountInv'
<1> SUFFICES ASSUME AccountInv, [AccountNext]_accountVars PROVE AccountInv'
  OBVIOUS
<1>1. CASE UNCHANGED accountVars
  <2>1. \A t \in Checkers : Sound(check[t])'
    BY <1>1 DEF AccountInv, Sound, accountVars, accountRows, atGoCardless
  <2> QED
    BY <1>1, <2>1 DEF AccountInv, AccountTyped, TokensGiven, VerifiedIsOfAccount,
                      OrganisationOf, accountVars, accountRows, atGoCardless
<1>2. CASE \E c \in Companies, s \in States : BuildAuthorizationUrl(c, s)
  BY <1>2, BuildStep
<1>3. CASE \E t \in Tasks : TaskBegins(t)
  BY <1>3, QuietSteps DEF TaskBegins, Checkers
<1>4. CASE \E j \in Jobs : StartSweep(j)
  BY <1>4, QuietSteps DEF Checkers
<1>5. CASE \E t \in Checkers : CheckSteps(t)
  <2>1. PICK t \in Checkers : CheckSteps(t)
    BY <1>5
  <2>2. CASE \E o \in Organisations : ExchangeCode(t, o)
    BY <2>2, ExchangeStep
  <2>3. CASE StoreAccount(t)
    BY <2>3, StoreStep
  <2>4. CASE MarkDisconnected(t)
    BY <2>4, MarkStep
  <2>5. CASE UpdateAccount(t)
    BY <2>5, UpdateStep
  <2>6. CASE ConnectCompany(t)
    BY <2>6, ConnectStep
  <2>7. CASE \/ FindAccount(t) \/ ListCreditors(t) \/ GoCardlessUnavailable(t)
             \/ SweepNext(t) \/ HandlerCalls(t) \/ FindDisconnected(t)
    BY <2>7, QuietSteps
  <2> QED
    BY <2>1, <2>2, <2>3, <2>4, <2>5, <2>6, <2>7 DEF CheckSteps
<1>6. CASE \E k \in Tokens : RevokeToken(k)
  BY <1>6, RevokeStep
<1> QED
  BY <1>1, <1>2, <1>3, <1>4, <1>5, <1>6 DEF AccountNext

\* In every behaviour a request tries a token that was given, cuts only with
\* one that was refused, and verifies with that of the account unless a
\* reconnection overlapped it.
THEOREM AccountInvariant == AccountSpec => []AccountInv
<1> QED
  BY AccountInitInv, AccountStep, PTL DEF AccountSpec

\* The creditor and the status that are stored are those of the organisation
\* whose token is stored (connectCompanyWithGoCardless resets them,
\* verifyCompanyPaymentAccountStatus writes them).
THEOREM VerifiedAlwaysOfAccount == AccountSpec => []VerifiedIsOfAccount
<1>1. AccountInv => VerifiedIsOfAccount
  BY DEF AccountInv
<1> QED
  BY <1>1, AccountInvariant, PTL

\* No step cuts a connection whose token is accepted, but that of a request
\* that was refused with another token (markCompanyPaymentAccountDisconnected).
THEOREM OnlyRevokedCut == AccountSpec => OnlyRevokedIsCut
<1> DEFINE Cut == \A c \in Companies :
             /\ connected[c] /\ ~connected'[c]
             /\ account[c].token \notin revoked
             => \E t \in Checkers : /\ check[t].pc = "mark"
                                    /\ check[t].company = c
                                    /\ check[t].token # account[c].token
<1>1. AccountInv /\ [AccountNext]_accountVars => [Cut]_accountVars
  <2> SUFFICES ASSUME AccountInv, AccountNext,
                      NEW c \in Companies, connected[c], ~connected'[c],
                      account[c].token \notin revoked
               PROVE  \E t \in Checkers : /\ check[t].pc = "mark"
                                          /\ check[t].company = c
                                          /\ check[t].token # account[c].token
    OBVIOUS
  <2>1. ASSUME NEW t \in Checkers, MarkDisconnected(t)
        PROVE  \E u \in Checkers : /\ check[u].pc = "mark"
                                   /\ check[u].company = c
                                   /\ check[u].token # account[c].token
    <3>1. check[t].pc = "mark" /\ check[t].token \in revoked
      BY <2>1 DEF MarkDisconnected, AccountInv, Sound
    <3>2. check[t].company = c
      BY <2>1 DEF MarkDisconnected, AccountInv, AccountTyped
    <3> QED
      BY <3>1, <3>2
  <2>2. ASSUME NEW t \in Checkers, StoreAccount(t) \/ ConnectCompany(t)
        PROVE  FALSE
    BY <2>2 DEF StoreAccount, ConnectCompany, accountRows, AccountInv, AccountTyped
  <2>3. ASSUME connected' = connected PROVE FALSE
    BY <2>3
  <2>4. ASSUME NEW t \in Checkers, CheckSteps(t)
        PROVE  MarkDisconnected(t) \/ StoreAccount(t) \/ ConnectCompany(t)
               \/ connected' = connected
    BY <2>4 DEF CheckSteps, ExchangeCode, FindAccount, ListCreditors, GoCardlessUnavailable,
                UpdateAccount, SweepNext, HandlerCalls, FindDisconnected, accountRows
  <2>5. CASE \E t \in Checkers : CheckSteps(t)
    BY <2>1, <2>2, <2>3, <2>4, <2>5
  <2>6. CASE ~\E t \in Checkers : CheckSteps(t)
    BY <2>3, <2>6 DEF AccountNext, BuildAuthorizationUrl, TaskBegins, FindState, StartCheck,
                      StartHandling, StartSweep, RevokeToken, accountRows
  <2> QED
    BY <2>5, <2>6
<1> QED
  BY <1>1, AccountInvariant, PTL DEF AccountSpec, OnlyRevokedIsCut
=============================================================================
