------------------------ MODULE InstalmentSyncProofs ------------------------
(***************************************************************************)
(* Proofs about InstalmentSync, for any webhook workers, reconciliations   *)
(* and requests to retry, and any bounds.                                  *)
(***************************************************************************)
EXTENDS InstalmentSync, FiniteSetTheorems, TLAPS

HookRecord == [pc : {"idle", "read", "sync", "complete"}, ev : Nat,
               pay : ProviderStatus, row : Instalment]

RecRecord == [pc : {"idle", "fetch", "sync"}, pay : ProviderStatus,
              row : Instalment]

ReqRecord == [pc : {"idle", "fetch", "history", "settle", "reserve", "call",
                    "rejected"},
              pay : ProviderStatus, row : Instalment,
              outcome : Event \cup {NoEvent}, retries : Nat]

Indices == 1 .. Len(log)

\* The history of the payment is never empty and its times follow one another.
LogOrdered ==
    /\ Len(log) >= 1
    /\ \A i \in Indices : log[i].at >= 1 /\ log[i].at <= clock
    /\ \A i, j \in Indices : i <= j => log[i].at <= log[j].at

\* A worker holds an event of the history; a request that settles an earlier
\* retry read an outcome that came after the reservation.
Placed ==
    /\ \A w \in Workers : hook[w].pc # "idle" => hook[w].ev \in Indices
    /\ \A r \in Requesters :
         req[r].pc = "settle" =>
            /\ req[r].row.manual # 0
            /\ \E i \in Indices : req[r].outcome = log[i]
            /\ req[r].outcome.at >= req[r].row.manual

Shape == TypeOK /\ LogOrdered /\ Placed

-----------------------------------------------------------------------------
(***************************************************************************)
(* What is written to the row                                              *)
(***************************************************************************)

LEMMA IdleTyped ==
    /\ NewInstalment \in Instalment
    /\ IdleHook \in HookRecord
    /\ IdleRec \in RecRecord
    /\ IdleReq \in ReqRecord
BY DEF NewInstalment, Instalment, CollectionStatus, IdleHook, HookRecord, IdleRec,
       RecRecord, IdleReq, ReqRecord, ProviderStatus, NoEvent

LEMMA StatusTyped ==
    ASSUME NEW p \in ProviderStatus, NEW e
    PROVE  /\ MatchPaymentAttemptStatus(p) \in CollectionStatus
           /\ MappedStatus(p, e) \in CollectionStatus
           /\ p = "failed" => MappedStatus(p, e) = "FAILED"
           /\ EndedStatus(p) \in CollectionStatus
BY DEF ProviderStatus, MatchPaymentAttemptStatus, MappedStatus, CollectionStatus,
       EndedStatus

\* What an event, or a reading without event, writes over a row that is
\* unchanged: a row, whose automatic retry is that of a failure, whose last
\* event does not go back and whose reservation is kept or released.
LEMMA SyncedRow ==
    ASSUME NEW row \in Instalment, NEW i \in Instalment, NEW p \in ProviderStatus,
           NEW e \in Event \cup {NoEvent},
           row.status = i.status, row.manual = i.manual, row.last = i.last
    PROVE  LET s == SyncedInstalment(row, i, p, e)
           IN  /\ s \in Instalment
               /\ s.auto => s.status = "FAILED"
               /\ s.last >= row.last
               /\ \/ s.manual = row.manual
                  \/ s.manual = 0 /\ e.at >= row.manual /\ e.action \in Actions
<1> DEFINE s == SyncedInstalment(row, i, p, e)
<1>1. /\ e.at \in Nat /\ e.will \in BOOLEAN
      /\ row.last \in Nat /\ row.manual \in Nat /\ row.status \in CollectionStatus
      /\ i.auto \in BOOLEAN
  <2>1. NoEvent.at \in Nat /\ NoEvent.will \in BOOLEAN
    BY DEF NoEvent
  <2>2. e \in Event => e.at \in Nat /\ e.will \in BOOLEAN
    BY DEF Event
  <2> QED
    BY <2>1, <2>2 DEF Instalment
<1>2. AutomaticRetryScheduled(i, p, e) \in BOOLEAN
  BY <1>1 DEF AutomaticRetryScheduled, StaleEvent
<1>3. s = [status |-> IF CanUpdateStatus(i.status, MappedStatus(p, e))
                      THEN MappedStatus(p, e) ELSE row.status,
           auto   |-> AutomaticRetryScheduled(i, p, e),
           manual |-> IF ReleaseManualRetry(i, p, e) THEN 0 ELSE row.manual,
           last   |-> IF e.at # 0 /\ ~StaleEvent(i, e) THEN e.at ELSE row.last]
  BY DEF SyncedInstalment
<1> HIDE DEF s
<1>4. s \in Instalment
  BY <1>1, <1>2, <1>3, StatusTyped DEF Instalment
<1>5. s.auto => s.status = "FAILED"
  <2> SUFFICES ASSUME s.auto PROVE s.status = "FAILED"
    OBVIOUS
  <2>1. p = "failed"
    BY <1>3 DEF AutomaticRetryScheduled
  <2>2. MappedStatus(p, e) = "FAILED"
    BY <2>1, StatusTyped
  <2> QED
    BY <1>3, <2>2 DEF CanUpdateStatus
<1>6. s.last >= row.last
  BY <1>1, <1>3 DEF StaleEvent
<1>7. \/ s.manual = row.manual
      \/ s.manual = 0 /\ e.at >= row.manual /\ e.action \in Actions
  BY <1>3 DEF ReleaseManualRetry
<1> QED
  BY <1>4, <1>5, <1>6, <1>7 DEF s

-----------------------------------------------------------------------------
(***************************************************************************)
(* The invariant of the shape                                              *)
(***************************************************************************)

LEMMA ShapeInit == Init => Shape
<1> SUFFICES ASSUME Init PROVE Shape
  OBVIOUS
<1> USE DEF Init
<1>1. log \in Seq(Event) /\ Len(log) = 1 /\ log[1].at = 1
  BY DEF Event, Actions
<1>2. TypeOK
  BY <1>1, IdleTyped DEF TypeOK, ProviderStatus, HookRecord, RecRecord, ReqRecord
<1>3. LogOrdered
  BY <1>1 DEF LogOrdered, Indices
<1>4. Placed
  BY DEF Placed, IdleHook, IdleReq
<1> QED
  BY <1>2, <1>3, <1>4 DEF Shape

\* An event is added to the history.
LEMMA EmitEffect ==
    ASSUME Shape, NEW action \in Actions, NEW status \in ProviderStatus,
           NEW will \in BOOLEAN, Emit(action, status, will)
    PROVE  /\ clock' \in Nat /\ clock' = clock + 1
           /\ pay' = status
           /\ log' \in Seq(Event)
           /\ Len(log') = Len(log) + 1
           /\ \A i \in Indices : log'[i] = log[i]
           /\ log'[Len(log) + 1] = [action |-> action, at |-> clock + 1, will |-> will]
           /\ todo' \subseteq Indices'
<1>1. /\ clock \in Nat /\ log \in Seq(Event) /\ Len(log) \in Nat
      /\ todo \subseteq 1 .. Len(log)
  BY DEF Shape, TypeOK
<1> DEFINE e == [action |-> action, at |-> clock + 1, will |-> will]
<1>2. e \in Event
  BY <1>1 DEF Event
<1>3. log' = Append(log, e)
  BY DEF Emit
<1> HIDE DEF e
<1>4. /\ log' \in Seq(Event)
      /\ Len(log') = Len(log) + 1
      /\ \A i \in Indices : log'[i] = log[i]
      /\ log'[Len(log) + 1] = e
  BY <1>1, <1>2, <1>3 DEF Indices
<1>5. todo' \subseteq Indices'
  <2>1. todo' = todo \cup {Len(log) + 1}
    BY DEF Emit
  <2>2. 1 .. Len(log') = (1 .. Len(log)) \cup {Len(log) + 1}
    BY <1>1, <1>4
  <2> QED
    BY <1>1, <2>1, <2>2 DEF Indices
<1>6. clock' = clock + 1 /\ clock' \in Nat /\ pay' = status
  BY <1>1 DEF Emit
<1> QED
  BY <1>4, <1>5, <1>6 DEF e

LEMMA EmitKeepsOrder ==
    ASSUME Shape, NEW action \in Actions, NEW status \in ProviderStatus,
           NEW will \in BOOLEAN, Emit(action, status, will)
    PROVE  LogOrdered' /\ \A i \in Indices : i \in Indices' /\ log'[i] = log[i]
<1>1. /\ clock \in Nat /\ Len(log) \in Nat
      /\ \A i \in Indices : log[i].at \in Nat
  <2>1. log \in Seq(Event) /\ clock \in Nat
    BY DEF Shape, TypeOK
  <2>2. \A i \in Indices : log[i] \in Event
    BY <2>1 DEF Indices
  <2> QED
    BY <2>1, <2>2 DEF Event
<1>2. /\ clock' = clock + 1
      /\ Len(log') = Len(log) + 1
      /\ \A i \in Indices : log'[i] = log[i]
      /\ log'[Len(log) + 1].at = clock + 1
  <2>1. log'[Len(log) + 1] = [action |-> action, at |-> clock + 1, will |-> will]
    BY EmitEffect
  <2> QED
    BY <2>1, EmitEffect
<1>3. \A i \in Indices' : i \in Indices \/ i = Len(log) + 1
  BY <1>1, <1>2 DEF Indices
<1>4. \A i \in Indices : i \in Indices' /\ i < Len(log) + 1 /\ i \in Nat
  BY <1>1, <1>2 DEF Indices
<1>5. /\ \A i \in Indices : log[i].at >= 1 /\ log[i].at <= clock
      /\ \A i, j \in Indices : i <= j => log[i].at <= log[j].at
      /\ Len(log) >= 1
  BY DEF LogOrdered, Shape
<1>6. \A i \in Indices' : log'[i].at >= 1 /\ log'[i].at <= clock'
  BY <1>1, <1>2, <1>3, <1>5
<1>7. \A i, j \in Indices' : i <= j => log'[i].at <= log'[j].at
  BY <1>1, <1>2, <1>3, <1>4, <1>5
<1>8. LogOrdered'
  BY <1>1, <1>2, <1>5, <1>6, <1>7 DEF LogOrdered
<1> QED
  BY <1>2, <1>4, <1>8

\* The provider moves, and a request may end with it.
LEMMA EmitShape ==
    ASSUME Shape, NEW action \in Actions, NEW status \in ProviderStatus,
           NEW will \in BOOLEAN, Emit(action, status, will),
           UNCHANGED <<inst, hook, rec, crashes>>,
           \/ UNCHANGED req
           \/ \E r \in Requesters : req' = [req EXCEPT ![r] = IdleReq]
    PROVE  Shape'
<1>1. TypeOK'
  <2>1. clock' \in Nat /\ pay' \in ProviderStatus /\ log' \in Seq(Event)
    BY EmitEffect
  <2>2. todo' \subseteq 1 .. Len(log')
    BY EmitEffect DEF Indices
  <2>3. req' \in [Requesters -> ReqRecord]
    BY IdleTyped DEF Shape, TypeOK, ReqRecord
  <2> QED
    BY <2>1, <2>2, <2>3 DEF Shape, TypeOK, ReqRecord
<1>2. LogOrdered' /\ \A i \in Indices : i \in Indices' /\ log'[i] = log[i]
  BY EmitKeepsOrder
<1>3. \A r \in Requesters : req'[r].pc = "settle" => req'[r] = req[r]
  BY DEF IdleReq, Shape, TypeOK
<1>4. Placed'
  BY <1>2, <1>3 DEF Placed, Shape
<1> QED
  BY <1>1, <1>2, <1>4 DEF Shape

LEMMA ProviderEmits ==
    ASSUME Provider
    PROVE  /\ \E action \in Actions, status \in ProviderStatus, will \in BOOLEAN :
                /\ Emit(action, status, will)
                /\ pay = "failed" => action = "resubmission_requested"
           /\ UNCHANGED <<inst, hook, rec, req, crashes>>
BY DEF Provider, SubmitPayment, ConfirmPayment, PayOut, FailPayment,
       AutomaticResubmission, ChargeBack, Actions, ProviderStatus

\* The steps that leave the provider alone keep the history and its order.
LEMMA QuietShape ==
    ASSUME Shape, UNCHANGED <<pay, log>>, clock' \in Nat, clock' >= clock,
           crashes' \in Nat, todo' \subseteq todo,
           inst' \in Instalment,
           hook' \in [Workers -> HookRecord], rec' \in [Reconcilers -> RecRecord],
           req' \in [Requesters -> ReqRecord],
           Placed'
    PROVE  Shape'
<1>1. TypeOK'
  BY DEF Shape, TypeOK, HookRecord, RecRecord, ReqRecord
<1>2. LogOrdered'
  <2>1. \A i \in Indices : log[i] \in Event /\ log[i].at \in Nat
    <3>1. log \in Seq(Event)
      BY DEF Shape, TypeOK
    <3>2. \A i \in Indices : log[i] \in Event
      BY <3>1 DEF Indices
    <3> QED
      BY <3>2 DEF Event
  <2> QED
    BY <2>1 DEF Shape, LogOrdered, Indices, TypeOK
<1> QED
  BY <1>1, <1>2 DEF Shape

\* Local states of Shape, and the events they name.
LEMMA Reading ==
    ASSUME Shape
    PROVE  /\ clock \in Nat /\ crashes \in Nat /\ pay \in ProviderStatus
           /\ inst \in Instalment
           /\ hook \in [Workers -> HookRecord] /\ rec \in [Reconcilers -> RecRecord]
           /\ req \in [Requesters -> ReqRecord]
           /\ Len(log) \in Nat /\ Len(log) \in Indices
           /\ \A i \in Indices : log[i] \in Event
           /\ \A i \in Indices : log[i].at <= LatestOutcome.at
           /\ todo \subseteq Indices
<1>1. /\ log \in Seq(Event) /\ Len(log) \in Nat /\ Len(log) >= 1
      /\ todo \subseteq Indices
  BY DEF Shape, TypeOK, LogOrdered, Indices
<1>2. \A i \in Indices : log[i] \in Event /\ i <= Len(log)
  BY <1>1 DEF Indices
<1>3. Len(log) \in Indices
  BY <1>1 DEF Indices
<1>4. \A i \in Indices : log[i].at <= LatestOutcome.at
  BY <1>2, <1>3 DEF Shape, LogOrdered, LatestOutcome
<1> QED
  BY <1>1, <1>2, <1>3, <1>4 DEF Shape, TypeOK, HookRecord, RecRecord, ReqRecord

-----------------------------------------------------------------------------
(***************************************************************************)
(* Webhook workers and reconciliations                                     *)
(***************************************************************************)

LEMMA SyncWrites ==
    ASSUME Shape, NEW w \in Workers, SyncInstalment(w)
    PROVE  /\ hook[w].ev \in Indices
           /\ \/ UNCHANGED inst
              \/ /\ inst' = SyncedInstalment(inst, hook[w].row, hook[w].pay, log[hook[w].ev])
                 /\ Unchanged(hook[w].row)
           /\ hook' \in [Workers -> HookRecord]
           /\ \A v \in Workers : hook'[v].pc # "idle" => hook'[v].ev = hook[v].ev /\ hook[v].pc # "idle"
           /\ UNCHANGED <<clock, pay, log, todo, rec, req, crashes>>
<1>1. hook[w].pc = "sync" /\ hook \in [Workers -> HookRecord] /\ hook[w].ev \in Nat
  BY Reading DEF SyncInstalment, HookRecord
<1>2. hook[w].ev \in Indices
  BY <1>1 DEF Shape, Placed
<1> DEFINE done == [IdleHook EXCEPT !.pc = "complete", !.ev = hook[w].ev]
<1>3. done \in HookRecord /\ IdleHook \in HookRecord /\ IdleHook.pc = "idle"
  BY <1>1, IdleTyped DEF HookRecord, IdleHook
<1>4. done.ev = hook[w].ev
  BY DEF IdleHook
<1>5. hook' = [hook EXCEPT ![w] = done] \/ hook' = [hook EXCEPT ![w] = IdleHook]
  BY DEF SyncInstalment
<1> HIDE DEF done
<1>6. /\ hook' \in [Workers -> HookRecord]
      /\ \A v \in Workers : hook'[v].pc # "idle" =>
                              hook'[v].ev = hook[v].ev /\ hook[v].pc # "idle"
  BY <1>1, <1>3, <1>4, <1>5
<1> QED
  BY <1>2, <1>6 DEF SyncInstalment, provider

\* A reading of the payment, with or without an event, never undoes what the
\* row knows: the flag is that of a failure, the last event does not go back,
\* and a reservation is only released by an event that came after it.
KeepsRow ==
    /\ inst' \in Instalment
    /\ AutomaticRetryIsOfFailure => AutomaticRetryIsOfFailure'
    /\ inst'.last >= inst.last
    /\ \/ inst'.manual = inst.manual
       \/ inst'.manual = 0 /\ LatestOutcome.at >= inst.manual

LEMMA SyncKeepsRow ==
    ASSUME Shape, NEW i \in Instalment, NEW p \in ProviderStatus, NEW e,
           e = NoEvent \/ \E k \in Indices : e = log[k],
           \/ UNCHANGED inst
           \/ Unchanged(i) /\ inst' = SyncedInstalment(inst, i, p, e)
    PROVE  KeepsRow
<1>0. inst \in Instalment /\ inst.last \in Nat /\ inst.manual \in Nat
  BY Reading DEF Instalment
<1>1. CASE UNCHANGED inst
  BY <1>0, <1>1 DEF KeepsRow, AutomaticRetryIsOfFailure
<1>2. CASE Unchanged(i) /\ inst' = SyncedInstalment(inst, i, p, e)
  <2>1. e \in Event \cup {NoEvent}
    BY Reading
  <2>2. /\ inst' \in Instalment
        /\ inst'.auto => inst'.status = "FAILED"
        /\ inst'.last >= inst.last
        /\ \/ inst'.manual = inst.manual
           \/ inst'.manual = 0 /\ e.at >= inst.manual /\ e.action \in Actions
    BY <1>0, <1>2, <2>1, SyncedRow DEF Unchanged
  <2>3. e.action \in Actions => \E k \in Indices : e = log[k]
    BY DEF NoEvent, Actions
  <2>4. \A k \in Indices : log[k].at \in Nat /\ log[k].at <= LatestOutcome.at
    BY Reading DEF Event
  <2>5. LatestOutcome.at \in Nat
    BY <2>4, Reading DEF LatestOutcome
  <2>6. inst'.manual = 0 /\ e.at >= inst.manual /\ e.action \in Actions
          => LatestOutcome.at >= inst.manual
    BY <1>0, <2>3, <2>4, <2>5
  <2> QED
    BY <2>2, <2>6 DEF KeepsRow, AutomaticRetryIsOfFailure
<1> QED
  BY <1>1, <1>2

LEMMA HookKeeps ==
    ASSUME Shape, NEW w \in Workers,
           \/ \E i \in todo : ReceiveEvent(w, i)
           \/ HookStep(w)
           \/ CrashHook(w)
    PROVE  /\ Shape'
           /\ KeepsRow
           /\ UNCHANGED <<clock, pay, log, rec, req>>
<1> USE DEF provider
<1>0. /\ UNCHANGED <<clock, pay, log, rec, req>>
      /\ todo' \subseteq todo
      /\ crashes' \in Nat
  <2>1. clock \in Nat /\ crashes \in Nat
    BY Reading
  <2>2. CASE \E i \in todo : ReceiveEvent(w, i)
    BY <2>1, <2>2 DEF ReceiveEvent
  <2>3. CASE HookStep(w)
    BY <2>1, <2>3 DEF HookStep, ReadInstalment, SyncInstalment, CompleteEvent
  <2>4. CASE CrashHook(w)
    BY <2>1, <2>4 DEF CrashHook
  <2> QED
    BY <2>2, <2>3, <2>4
<1>1. ASSUME KeepsRow, hook' \in [Workers -> HookRecord],
             \A v \in Workers : hook'[v].pc # "idle" => hook'[v].ev \in Indices
      PROVE  Shape'
  <2>1. Placed'
    BY <1>0, <1>1 DEF Placed, Shape, Indices
  <2> QED
    BY <1>0, <1>1, <2>1, QuietShape, Reading DEF KeepsRow
<1>2. UNCHANGED inst => KeepsRow
  BY Reading DEF KeepsRow, AutomaticRetryIsOfFailure, Instalment
<1>3. ASSUME NEW i \in todo, ReceiveEvent(w, i)
      PROVE  Shape' /\ KeepsRow
  <2> DEFINE h == [IdleHook EXCEPT !.pc = "read", !.ev = i, !.pay = pay]
  <2>1. i \in Indices /\ i \in Nat
    BY Reading DEF Indices
  <2>2. h \in HookRecord /\ h.ev = i
    BY <2>1, IdleTyped, Reading DEF HookRecord, IdleHook
  <2>3. hook' = [hook EXCEPT ![w] = h] /\ UNCHANGED inst
    BY <1>3 DEF ReceiveEvent
  <2> HIDE DEF h
  <2>4. /\ hook' \in [Workers -> HookRecord]
        /\ \A v \in Workers : hook'[v].pc # "idle" => hook'[v].ev \in Indices
    BY <2>1, <2>2, <2>3, Reading DEF Shape, Placed
  <2> QED
    BY <1>1, <1>2, <2>3, <2>4
<1>4. CASE ReadInstalment(w)
  <2>1. /\ hook' \in [Workers -> HookRecord] /\ UNCHANGED inst
        /\ \A v \in Workers : hook'[v].pc # "idle" => hook'[v].ev \in Indices
    BY <1>4, Reading DEF ReadInstalment, HookRecord, Shape, Placed
  <2> QED
    BY <1>0, <1>1, <1>2, <2>1
<1>5. CASE SyncInstalment(w)
  <2>1. KeepsRow
    <3>1. hook[w].row \in Instalment /\ hook[w].pay \in ProviderStatus
      BY Reading DEF HookRecord
    <3> QED
      BY <1>5, <3>1, SyncWrites, SyncKeepsRow
  <2>2. /\ hook' \in [Workers -> HookRecord]
        /\ \A v \in Workers : hook'[v].pc # "idle" => hook'[v].ev \in Indices
    BY <1>5, SyncWrites DEF Shape, Placed
  <2> QED
    BY <1>0, <1>1, <2>1, <2>2
<1>6. CASE CompleteEvent(w) \/ CrashHook(w)
  <2>1. hook' = [hook EXCEPT ![w] = IdleHook] /\ UNCHANGED inst
    BY <1>6 DEF CompleteEvent, CrashHook
  <2>2. IdleHook \in HookRecord /\ IdleHook.pc = "idle"
    BY IdleTyped DEF IdleHook
  <2>3. /\ hook' \in [Workers -> HookRecord]
        /\ \A v \in Workers : hook'[v].pc # "idle" => hook'[v].ev \in Indices
    BY <2>1, <2>2, Reading DEF Shape, Placed
  <2> QED
    BY <1>0, <1>1, <1>2, <2>1, <2>3
<1> QED
  BY <1>0, <1>3, <1>4, <1>5, <1>6 DEF HookStep

LEMMA RecKeeps ==
    ASSUME Shape, NEW k \in Reconcilers, RecStep(k)
    PROVE  /\ Shape'
           /\ KeepsRow
           /\ UNCHANGED <<clock, pay, log, hook, req>>
<1> USE DEF provider
<1>0. UNCHANGED <<clock, pay, log, todo, hook, req, crashes>>
  BY DEF RecStep, ReadPlan, FetchForPlan, ReconcileInstalment
<1>1. rec' \in [Reconcilers -> RecRecord]
  BY IdleTyped, Reading
     DEF RecStep, ReadPlan, FetchForPlan, ReconcileInstalment, RecRecord
<1>2. KeepsRow
  <2>1. CASE ReadPlan(k) \/ FetchForPlan(k)
    <3>1. UNCHANGED inst
      BY <2>1 DEF ReadPlan, FetchForPlan
    <3> QED
      BY <3>1, Reading DEF KeepsRow, AutomaticRetryIsOfFailure, Instalment
  <2>2. CASE ReconcileInstalment(k)
    <3>1. rec[k].row \in Instalment /\ rec[k].pay \in ProviderStatus
      BY Reading DEF RecRecord
    <3>2. \/ UNCHANGED inst
          \/ /\ Unchanged(rec[k].row)
             /\ inst' = SyncedInstalment(inst, rec[k].row, rec[k].pay, NoEvent)
      BY <2>2 DEF ReconcileInstalment
    <3> QED
      BY <3>1, <3>2, SyncKeepsRow
  <2> QED
    BY <2>1, <2>2 DEF RecStep
<1>3. Placed'
  BY <1>0 DEF Placed, Shape, Indices
<1> QED
  BY <1>0, <1>1, <1>2, <1>3, QuietShape, Reading DEF KeepsRow

-----------------------------------------------------------------------------
(***************************************************************************)
(* Requests to retry                                                       *)
(***************************************************************************)

\* What a request may write: the end of an earlier retry, a reservation, or
\* the end of its own.
RequestWrites(r) ==
    \/ UNCHANGED inst
    \/ /\ req[r].pc = "settle"
       /\ inst.manual # 0 /\ inst'.manual = 0
       /\ inst'.last >= inst.manual /\ LatestOutcome.at >= inst.manual
    \/ /\ req[r].pc = "reserve"
       /\ inst.manual = 0 /\ inst'.manual = clock + 1 /\ inst'.last = inst.last
    \/ /\ req[r].pc = "rejected" /\ req'[r].pc = "idle"
       /\ inst'.manual \in {0, inst.manual} /\ inst'.last = inst.last

\* A request that leaves the provider alone.
RequestQuiet(r) ==
    \/ RequestRetry(r) \/ FetchForRetry(r) \/ ReadHistory(r) \/ SettlePendingRetry(r)
    \/ ReserveRetry(r) \/ CallRejected(r) \/ ReleaseRejected(r)
    \/ RefuseForMandate(r) \/ CallUncertain(r) \/ CrashReq(r)

LEMMA DecideTyped ==
    ASSUME NEW q
    PROVE  /\ Decide(q) \in ReqRecord
           /\ Decide(q).pc \in {"idle", "reserve"}
           /\ Decide(q).pc = "reserve" => q.pay = "failed"
<1>1. [IdleReq EXCEPT !.pc = "reserve"] \in ReqRecord /\ IdleReq \in ReqRecord
  BY IdleTyped DEF ReqRecord, IdleReq
<1> QED
  BY <1>1 DEF Decide, IdleReq, CanRetryManually

LEMMA HistoryRead ==
    ASSUME Shape, NEW r \in Requesters, ReadHistory(r)
    PROVE  /\ req[r].pc = "history"
           /\ req' \in [Requesters -> ReqRecord]
           /\ \A s \in Requesters \ {r} : req'[s] = req[s]
           /\ \/ /\ req'[r].pc = "settle"
                 /\ req'[r].pay = req[r].pay
                 /\ req'[r].row.manual # 0
                 /\ req'[r].outcome = LatestOutcome
                 /\ req'[r].outcome.at >= req'[r].row.manual
              \/ /\ req'[r].pc \in {"idle", "reserve"}
                 /\ req'[r].pc = "reserve" => req[r].pay = "failed"
<1> DEFINE q == [req[r] EXCEPT !.outcome = LatestOutcome, !.retries = Resubmissions]
           s == IF PendingRetryEnded(q) THEN [q EXCEPT !.pc = "settle"] ELSE Decide(q)
<1>1. Resubmissions \in Nat
  <2>1. IsFiniteSet(1 .. Len(log))
    BY Reading, FS_Interval
  <2>2. IsFiniteSet({i \in 1 .. Len(log) : log[i].action = "resubmission_requested"})
    BY <2>1, FS_Subset
  <2> QED
    BY <2>2, FS_CardinalityType DEF Resubmissions
<1>2. req[r] \in ReqRecord /\ LatestOutcome \in Event
  BY Reading DEF LatestOutcome
<1>3. q \in ReqRecord /\ q.pay = req[r].pay /\ q.row = req[r].row /\ q.outcome = LatestOutcome
  BY <1>1, <1>2 DEF ReqRecord
<1>4. req' = [req EXCEPT ![r] = s] /\ req[r].pc = "history"
  BY DEF ReadHistory
<1> HIDE DEF q
<1>5. s \in ReqRecord
  BY <1>3, DecideTyped DEF ReqRecord
<1>6. CASE PendingRetryEnded(q)
  <2>1. s = [q EXCEPT !.pc = "settle"]
    BY <1>6
  <2>2. s.pc = "settle" /\ s.pay = q.pay /\ s.row = q.row /\ s.outcome = q.outcome
    BY <1>3, <2>1 DEF ReqRecord
  <2>3. q.row.manual # 0 /\ q.outcome.at >= q.row.manual
    BY <1>6 DEF PendingRetryEnded
  <2> HIDE DEF s
  <2> QED
    BY <1>2, <1>3, <1>4, <1>5, <2>2, <2>3, Reading
<1>7. CASE ~PendingRetryEnded(q)
  <2>1. s.pc \in {"idle", "reserve"} /\ (s.pc = "reserve" => req[r].pay = "failed")
    BY <1>3, <1>7, DecideTyped
  <2> HIDE DEF s
  <2> QED
    BY <1>4, <1>5, <2>1, Reading
<1> QED
  BY <1>6, <1>7

LEMMA Settled ==
    ASSUME Shape, NEW r \in Requesters, SettlePendingRetry(r)
    PROVE  /\ req[r].pc = "settle"
           /\ inst' \in Instalment
           /\ AutomaticRetryIsOfFailure => AutomaticRetryIsOfFailure'
           /\ RequestWrites(r)
           /\ req' \in [Requesters -> ReqRecord]
           /\ \A s \in Requesters \ {r} : req'[s] = req[s]
           /\ req'[r].pc \in {"idle", "reserve"}
           /\ req'[r].pc = "reserve" => req[r].pay = "failed" /\ inst'.manual = 0
<1> DEFINE q == req[r]
           settled == [status |-> EndedStatus(q.pay),
                       auto |-> q.pay = "failed" /\ q.outcome.will,
                       manual |-> 0, last |-> q.outcome.at]
<1>1. /\ q.pc = "settle" /\ q \in ReqRecord
      /\ q.row.manual # 0 /\ q.outcome.at >= q.row.manual
      /\ \E i \in Indices : q.outcome = log[i]
  BY Reading DEF SettlePendingRetry, Shape, Placed
<1>2. q.outcome \in Event /\ q.outcome.at <= LatestOutcome.at
  BY <1>1, Reading
<1>3. /\ q.outcome.at \in Nat /\ q.outcome.will \in BOOLEAN
      /\ q.row.manual \in Nat /\ q.pay \in ProviderStatus
      /\ inst \in Instalment /\ LatestOutcome.at \in Nat
  <2>1. LatestOutcome \in Event
    BY Reading DEF LatestOutcome
  <2> QED
    BY <1>1, <1>2, <2>1, Reading DEF Event, ReqRecord, Instalment
<1>4. settled \in Instalment /\ (settled.auto => settled.status = "FAILED")
  BY <1>3, StatusTyped DEF Instalment, EndedStatus
<1>5. CASE inst.manual = q.row.manual /\ inst.status = "PAYMENT_IN_PROGRESS"
  <2> DEFINE d == Decide([q EXCEPT !.row = [settled EXCEPT !.last = q.row.last]])
  <2>1. inst' = settled /\ req' = [req EXCEPT ![r] = d]
    BY <1>5 DEF SettlePendingRetry
  <2>2. settled.manual = 0 /\ settled.last = q.outcome.at
    OBVIOUS
  <2>3. [q EXCEPT !.row = [settled EXCEPT !.last = q.row.last]].pay = q.pay
    BY <1>1 DEF ReqRecord
  <2>4. /\ d \in ReqRecord /\ d.pc \in {"idle", "reserve"}
        /\ d.pc = "reserve" => q.pay = "failed"
    BY <2>3, DecideTyped
  <2> HIDE DEF d, settled
  <2>5. RequestWrites(r)
    BY <1>1, <1>2, <1>3, <1>5, <2>1, <2>2 DEF RequestWrites
  <2>6. AutomaticRetryIsOfFailure'
    BY <1>4, <2>1 DEF AutomaticRetryIsOfFailure
  <2> QED
    BY <1>1, <1>4, <2>1, <2>2, <2>4, <2>5, <2>6, Reading
<1>6. CASE ~(inst.manual = q.row.manual /\ inst.status = "PAYMENT_IN_PROGRESS")
  <2>1. UNCHANGED inst /\ req' = [req EXCEPT ![r] = IdleReq]
    BY <1>6 DEF SettlePendingRetry
  <2>2. IdleReq \in ReqRecord /\ IdleReq.pc = "idle"
    BY IdleTyped DEF IdleReq
  <2> QED
    BY <1>1, <1>3, <2>1, <2>2, Reading DEF RequestWrites, AutomaticRetryIsOfFailure
<1> QED
  BY <1>5, <1>6

LEMMA RequestKeeps ==
    ASSUME Shape, NEW r \in Requesters, RequestQuiet(r)
    PROVE  /\ Shape'
           /\ AutomaticRetryIsOfFailure => AutomaticRetryIsOfFailure'
           /\ RequestWrites(r)
           /\ \A s \in Requesters \ {r} : req'[s] = req[s]
           /\ UNCHANGED <<pay, log, hook, rec>>
<1> USE DEF provider
<1>0. /\ clock \in Nat /\ crashes \in Nat /\ inst \in Instalment
      /\ inst.auto \in BOOLEAN /\ inst.manual \in Nat
      /\ IdleReq \in ReqRecord /\ IdleReq.pc = "idle"
  BY Reading, IdleTyped DEF Instalment, IdleReq
<1>1. ASSUME UNCHANGED <<pay, log, todo, hook, rec>>, clock' \in Nat, clock' >= clock,
             crashes' \in Nat, inst' \in Instalment, req' \in [Requesters -> ReqRecord],
             \A s \in Requesters \ {r} : req'[s] = req[s],
             req'[r].pc # "settle"
      PROVE  Shape'
  <2>1. Placed'
    BY <1>1 DEF Placed, Shape, Indices
  <2> QED
    BY <1>1, <2>1, QuietShape, Reading
<1>2. CASE RequestRetry(r) \/ FetchForRetry(r)
  <2>1. /\ req' \in [Requesters -> ReqRecord]
        /\ \A s \in Requesters \ {r} : req'[s] = req[s]
        /\ req'[r].pc # "settle"
    <3>1. CASE RequestRetry(r)
      <4> DEFINE q == [req[r] EXCEPT !.pc = "fetch", !.row = inst]
      <4>1. q \in ReqRecord /\ q.pc = "fetch"
        BY Reading DEF ReqRecord
      <4>2. req' = [req EXCEPT ![r] = q]
        BY <3>1, Reading DEF RequestRetry
      <4> HIDE DEF q
      <4> QED
        BY <4>1, <4>2, Reading
    <3>2. CASE FetchForRetry(r)
      <4> DEFINE q == [req[r] EXCEPT !.pc = "history", !.pay = pay]
      <4>1. q \in ReqRecord /\ q.pc = "history"
        BY Reading DEF ReqRecord
      <4>2. req' = [req EXCEPT ![r] = q]
        BY <3>2, Reading DEF FetchForRetry
      <4> HIDE DEF q
      <4> QED
        BY <4>1, <4>2, Reading
    <3> QED
      BY <1>2, <3>1, <3>2
  <2>2. UNCHANGED <<clock, pay, log, todo, inst, hook, rec, crashes>>
    BY <1>2 DEF RequestRetry, FetchForRetry
  <2> QED
    BY <1>0, <1>1, <2>1, <2>2 DEF RequestWrites, AutomaticRetryIsOfFailure
<1>3. CASE ReadHistory(r)
  <2>1. UNCHANGED <<clock, pay, log, todo, inst, hook, rec, crashes>>
    BY <1>3 DEF ReadHistory
  <2>2. LatestOutcome = log[Len(log)] /\ Len(log) \in Indices
    BY Reading DEF LatestOutcome
  <2>3. Placed'
    BY <1>3, <2>1, <2>2, HistoryRead DEF Placed, Shape, Indices
  <2>4. Shape'
    BY <1>0, <1>3, <2>1, <2>3, HistoryRead, QuietShape, Reading
  <2> QED
    BY <1>3, <2>1, <2>4, HistoryRead DEF RequestWrites, AutomaticRetryIsOfFailure
<1>4. CASE SettlePendingRetry(r)
  <2>1. UNCHANGED <<clock, pay, log, todo, hook, rec, crashes>>
    BY <1>4 DEF SettlePendingRetry
  <2>2. Shape'
    BY <1>0, <1>1, <1>4, <2>1, Settled
  <2> QED
    BY <1>4, <2>1, <2>2, Settled
<1>5. CASE ReserveRetry(r)
  <2>1. CASE ~inst.auto /\ inst.manual = 0 /\ inst.status = "FAILED"
    <3> DEFINE row == [inst EXCEPT !.status = "PAYMENT_IN_PROGRESS", !.manual = clock + 1]
               call == [IdleReq EXCEPT !.pc = "call"]
    <3>1. /\ inst' = row /\ req' = [req EXCEPT ![r] = call] /\ clock' = clock + 1
          /\ UNCHANGED <<pay, log, todo, hook, rec, crashes>>
          /\ req[r].pc = "reserve"
      BY <1>5, <2>1 DEF ReserveRetry
    <3>2. /\ row \in Instalment /\ row.manual = clock + 1 /\ row.last = inst.last
          /\ row.auto = inst.auto
      <4>1. clock + 1 \in Nat
        BY <1>0
      <4> QED
        BY <1>0, <4>1 DEF Instalment, CollectionStatus
    <3>3. call \in ReqRecord /\ call.pc = "call"
      BY IdleTyped DEF ReqRecord, IdleReq
    <3> HIDE DEF row, call
    <3>4. /\ req' \in [Requesters -> ReqRecord]
          /\ \A s \in Requesters \ {r} : req'[s] = req[s]
          /\ req'[r].pc = "call"
      BY <3>1, <3>3, Reading
    <3>5. clock' \in Nat /\ clock' >= clock /\ crashes' \in Nat
      BY <1>0, <3>1
    <3>6. Shape'
      BY <1>1, <3>1, <3>2, <3>4, <3>5
    <3> QED
      BY <2>1, <3>1, <3>2, <3>4, <3>6 DEF RequestWrites, AutomaticRetryIsOfFailure
  <2>2. CASE ~(~inst.auto /\ inst.manual = 0 /\ inst.status = "FAILED")
    <3>1. req' = [req EXCEPT ![r] = IdleReq]
      BY <1>5, <2>2 DEF ReserveRetry
    <3>2. UNCHANGED <<clock, pay, log, todo, inst, hook, rec, crashes>>
      BY <1>5, <2>2 DEF ReserveRetry
    <3>3. /\ req' \in [Requesters -> ReqRecord]
          /\ \A s \in Requesters \ {r} : req'[s] = req[s]
          /\ req'[r].pc = "idle"
      BY <1>0, <3>1, Reading
    <3> QED
      BY <1>0, <1>1, <3>2, <3>3 DEF RequestWrites, AutomaticRetryIsOfFailure
  <2> QED
    BY <2>1, <2>2
<1>6. CASE RefuseForMandate(r) \/ CallUncertain(r) \/ CrashReq(r)
  <2>1. /\ req' = [req EXCEPT ![r] = IdleReq] /\ crashes' \in Nat
        /\ UNCHANGED <<clock, pay, log, todo, inst, hook, rec>>
    BY <1>0, <1>6 DEF RefuseForMandate, CallUncertain, CrashReq
  <2>2. /\ req' \in [Requesters -> ReqRecord]
        /\ \A s \in Requesters \ {r} : req'[s] = req[s]
        /\ req'[r].pc = "idle"
    BY <1>0, <2>1, Reading
  <2> QED
    BY <1>0, <1>1, <2>1, <2>2 DEF RequestWrites, AutomaticRetryIsOfFailure
<1>7. CASE CallRejected(r)
  <2> DEFINE rejected == [IdleReq EXCEPT !.pc = "rejected"]
  <2>1. /\ req' = [req EXCEPT ![r] = rejected]
        /\ UNCHANGED <<clock, pay, log, todo, inst, hook, rec, crashes>>
    BY <1>7 DEF CallRejected
  <2>2. rejected \in ReqRecord /\ rejected.pc = "rejected"
    BY IdleTyped DEF ReqRecord, IdleReq
  <2> HIDE DEF rejected
  <2>3. /\ req' \in [Requesters -> ReqRecord]
        /\ \A s \in Requesters \ {r} : req'[s] = req[s]
        /\ req'[r].pc = "rejected"
    BY <2>1, <2>2, Reading
  <2> QED
    BY <1>0, <1>1, <2>1, <2>3 DEF RequestWrites, AutomaticRetryIsOfFailure
<1>8. CASE ReleaseRejected(r)
  <2> DEFINE row == [inst EXCEPT !.status = "FAILED", !.manual = 0]
  <2>1. /\ req' = [req EXCEPT ![r] = IdleReq] /\ req[r].pc = "rejected"
        /\ inst' = row \/ inst' = inst
        /\ UNCHANGED <<clock, pay, log, todo, hook, rec, crashes>>
    BY <1>8 DEF ReleaseRejected
  <2>2. /\ row \in Instalment /\ row.manual = 0 /\ row.last = inst.last
        /\ row.status = "FAILED"
    BY <1>0 DEF Instalment, CollectionStatus
  <2> HIDE DEF row
  <2>3. /\ req' \in [Requesters -> ReqRecord]
        /\ \A s \in Requesters \ {r} : req'[s] = req[s]
        /\ req'[r].pc = "idle"
    BY <1>0, <2>1, Reading
  <2>4. /\ inst' \in Instalment
        /\ inst'.manual \in {0, inst.manual} /\ inst'.last = inst.last
        /\ AutomaticRetryIsOfFailure => AutomaticRetryIsOfFailure'
    BY <1>0, <2>1, <2>2 DEF AutomaticRetryIsOfFailure
  <2> QED
    BY <1>0, <1>1, <2>1, <2>3, <2>4 DEF RequestWrites
<1> QED
  BY <1>2, <1>3, <1>4, <1>5, <1>6, <1>7, <1>8 DEF RequestQuiet

-----------------------------------------------------------------------------
(***************************************************************************)
(* Theorems                                                                *)
(***************************************************************************)

\* The steps of a behaviour, by who takes them.
LEMMA Steps ==
    ASSUME Shape, [Next]_vars
    PROVE  \/ /\ \/ Provider
              \/ \E r \in Requesters : CallAccepted(r)
           \/ \E w \in Workers : \/ \E i \in todo : ReceiveEvent(w, i)
                                 \/ HookStep(w)
                                 \/ CrashHook(w)
           \/ \E k \in Reconcilers : RecStep(k)
           \/ \E r \in Requesters : RequestQuiet(r)
           \/ UNCHANGED vars
BY DEF Next, ReqStep, RequestQuiet

\* The provider moves: the row stays, and at most one request ends.
LEMMA Emits ==
    ASSUME Shape, Provider \/ \E r \in Requesters : CallAccepted(r)
    PROVE  /\ \E action \in Actions, status \in ProviderStatus, will \in BOOLEAN :
                /\ Emit(action, status, will)
                /\ pay = "failed" => action = "resubmission_requested"
           /\ UNCHANGED <<inst, hook, rec, crashes>>
           /\ UNCHANGED req \/ \E r \in Requesters : req' = [req EXCEPT ![r] = IdleReq]
<1>1. CASE Provider
  BY <1>1, ProviderEmits
<1>2. CASE \E r \in Requesters : CallAccepted(r)
  BY <1>2 DEF CallAccepted, Actions, ProviderStatus
<1> QED
  BY <1>1, <1>2

LEMMA ShapeStep == Shape /\ [Next]_vars => Shape'
<1> SUFFICES ASSUME Shape, [Next]_vars PROVE Shape'
  OBVIOUS
<1>1. CASE Provider \/ \E r \in Requesters : CallAccepted(r)
  BY <1>1, Emits, EmitShape
<1>2. CASE UNCHANGED vars
  BY <1>2 DEF vars, provider, Shape, TypeOK, LogOrdered, Placed, Indices
<1> QED
  BY <1>1, <1>2, Steps, HookKeeps, RecKeeps, RequestKeeps

\* Every variable keeps the shape of the row, of the history and of the local
\* states of the processes.
THEOREM TypeCorrect == Spec => []TypeOK
<1>1. Shape => TypeOK
  BY DEF Shape
<1> QED
  BY <1>1, ShapeInit, ShapeStep, PTL DEF Spec

LEMMA FailureStep ==
    Shape /\ AutomaticRetryIsOfFailure /\ [Next]_vars => AutomaticRetryIsOfFailure'
<1> SUFFICES ASSUME Shape, AutomaticRetryIsOfFailure, [Next]_vars
             PROVE  AutomaticRetryIsOfFailure'
  OBVIOUS
<1>1. CASE Provider \/ \E r \in Requesters : CallAccepted(r)
  <2>1. UNCHANGED inst
    BY <1>1, Emits
  <2> QED
    BY <2>1 DEF AutomaticRetryIsOfFailure
<1>2. CASE UNCHANGED vars
  BY <1>2 DEF vars, AutomaticRetryIsOfFailure
<1> QED
  BY <1>1, <1>2, Steps, HookKeeps, RecKeeps, RequestKeeps DEF KeepsRow

\* Only a failed collection is said to be retried by GoCardless
\* (syncInstalmentStatus, reconcilePendingRetry, the reservation), although
\* none of the conditional updates compares the flag.
THEOREM AutomaticRetryOfFailure == Spec => []AutomaticRetryIsOfFailure
<1>1. Init => AutomaticRetryIsOfFailure
  BY DEF Init, NewInstalment, AutomaticRetryIsOfFailure
<1> QED
  BY <1>1, FailureStep, ShapeInit, ShapeStep, PTL DEF Spec

LEMMA RowStep ==
    ASSUME Shape, [Next]_vars
    PROVE  \/ UNCHANGED inst
           \/ KeepsRow
           \/ \E r \in Requesters : RequestWrites(r)
<1>1. CASE Provider \/ \E r \in Requesters : CallAccepted(r)
  BY <1>1, Emits
<1>2. CASE UNCHANGED vars
  BY <1>2 DEF vars
<1> QED
  BY <1>1, <1>2, Steps, HookKeeps, RecKeeps, RequestKeeps

\* What the row remembers of the last event is never lost to an older one,
\* except to the settlement of a retry, and then it is not older than the retry.
THEOREM LastEventIsKept == Spec => LastEventKept
<1>1. Shape /\ [Next]_vars =>
        [\/ inst'.last >= inst.last
         \/ inst.manual # 0 /\ inst'.manual = 0 /\ inst'.last >= inst.manual]_vars
  <2> SUFFICES ASSUME Shape, [Next]_vars
               PROVE  \/ inst'.last >= inst.last
                      \/ inst.manual # 0 /\ inst'.manual = 0 /\ inst'.last >= inst.manual
    OBVIOUS
  <2>1. inst.last \in Nat
    BY Reading DEF Instalment
  <2> QED
    BY <2>1, RowStep DEF KeepsRow, RequestWrites
<1> QED
  BY <1>1, ShapeInit, ShapeStep, PTL DEF Spec, LastEventKept

\* A reservation is not replaced, and is only released when the provider said
\* something after it, or refused the call it was made for.
THEOREM ReservationKept == Spec => ReservationIsKept
<1>1. Shape /\ [Next]_vars =>
        [inst.manual # 0 /\ inst'.manual # inst.manual =>
           /\ inst'.manual = 0
           /\ \/ LatestOutcome.at >= inst.manual
              \/ \E r \in Requesters : req[r].pc = "rejected" /\ req'[r].pc = "idle"]_vars
  BY RowStep DEF KeepsRow, RequestWrites
<1> QED
  BY <1>1, ShapeInit, ShapeStep, PTL DEF Spec, ReservationIsKept

-----------------------------------------------------------------------------
(***************************************************************************)
(* One retry at a time                                                     *)
(***************************************************************************)

NoRetryYet == \A i \in Indices : log[i].action # "resubmission_requested"

InFlight(r) == req[r].pc \in {"call", "rejected"}

\* Until the payment is resubmitted for the first time, a failure that was
\* read is still there, and nothing the provider said came after a reservation:
\* only its own request can release it.
OneReserved ==
    NoRetryYet =>
        /\ \A r \in Requesters :
             /\ req[r].pc = "reserve" => pay = "failed"
             /\ req[r].pc \in {"history", "settle"} /\ req[r].pay = "failed" => pay = "failed"
             /\ InFlight(r) => inst.manual # 0
        /\ \A q, r \in Requesters : InFlight(q) /\ InFlight(r) => q = r
        /\ inst.manual # 0 => pay = "failed" /\ LatestOutcome.at < inst.manual

LEMMA NoResubmission == Shape => (Resubmissions = 0 <=> NoRetryYet)
<1> SUFFICES ASSUME Shape PROVE Resubmissions = 0 <=> NoRetryYet
  OBVIOUS
<1> DEFINE S == {i \in 1 .. Len(log) : log[i].action = "resubmission_requested"}
<1>1. IsFiniteSet(1 .. Len(log))
  BY Reading, FS_Interval
<1>2. IsFiniteSet(S)
  BY <1>1, FS_Subset
<1>3. Cardinality(S) = 0 <=> S = {}
  BY <1>2, FS_EmptySet
<1> QED
  BY <1>3 DEF Resubmissions, NoRetryYet, Indices

LEMMA OneReservedStep == Shape /\ OneReserved /\ [Next]_vars => OneReserved'
<1> SUFFICES ASSUME Shape, OneReserved, [Next]_vars, NoRetryYet' PROVE OneReserved'
  BY DEF OneReserved
<1>r. req \in [Requesters -> ReqRecord] /\ LatestOutcome.at \in Nat
  <2>1. LatestOutcome \in Event
    BY Reading DEF LatestOutcome
  <2> QED
    BY <2>1, Reading DEF Event
<1>1. CASE Provider \/ \E r \in Requesters : CallAccepted(r)
  <2>1. PICK action \in Actions, status \in ProviderStatus, will \in BOOLEAN :
          /\ Emit(action, status, will)
          /\ pay = "failed" => action = "resubmission_requested"
    BY <1>1, Emits
  <2>2. /\ Len(log') = Len(log) + 1
        /\ log'[Len(log) + 1] = [action |-> action, at |-> clock + 1, will |-> will]
        /\ \A i \in Indices : i \in Indices' /\ log'[i] = log[i]
    BY <2>1, EmitEffect, EmitKeepsOrder
  <2>3. Len(log) + 1 \in Indices'
    BY <2>2, Reading DEF Indices
  <2>4. action # "resubmission_requested"
    <3>1. log'[Len(log) + 1].action = action
      BY <2>2
    <3> QED
      BY <2>3, <3>1 DEF NoRetryYet
  <2>5. NoRetryYet /\ pay # "failed"
    BY <2>1, <2>2, <2>4 DEF NoRetryYet
  <2>6. /\ UNCHANGED inst
        /\ \A r \in Requesters : req'[r] = req[r] \/ req'[r].pc = "idle"
    BY <1>1, <1>r, Emits DEF IdleReq
  <2>7. /\ inst.manual = 0
        /\ \A r \in Requesters :
             /\ req[r].pc # "reserve" /\ ~InFlight(r)
             /\ ~(req[r].pc \in {"history", "settle"} /\ req[r].pay = "failed")
    BY <2>5 DEF OneReserved
  <2> QED
    BY <2>6, <2>7 DEF OneReserved, InFlight
<1>2. ASSUME UNCHANGED <<pay, log, req>>, KeepsRow
      PROVE  OneReserved'
  <2>1. NoRetryYet
    BY <1>2 DEF NoRetryYet, Indices
  <2>2. inst'.manual = inst.manual
    BY <1>r, <2>1, <1>2, Reading DEF KeepsRow, OneReserved, Instalment
  <2> QED
    BY <1>2, <2>1, <2>2 DEF OneReserved, InFlight, LatestOutcome
<1>3. CASE \/ \E w \in Workers : \/ \E i \in todo : ReceiveEvent(w, i)
                                \/ HookStep(w)
                                \/ CrashHook(w)
           \/ \E k \in Reconcilers : RecStep(k)
  BY <1>2, <1>3, HookKeeps, RecKeeps
<1>4. ASSUME NEW r \in Requesters, RequestQuiet(r)
      PROVE  OneReserved'
  <2>1. /\ UNCHANGED <<pay, log>>
        /\ \A s \in Requesters \ {r} : req'[s] = req[s]
        /\ RequestWrites(r)
    BY <1>4, RequestKeeps
  <2>2. NoRetryYet /\ LatestOutcome' = LatestOutcome
    BY <2>1 DEF NoRetryYet, Indices, LatestOutcome
  <2>3. ASSUME inst'.manual = inst.manual,
               req'[r].pc = "reserve" => pay = "failed",
               req'[r].pc \in {"history", "settle"} /\ req'[r].pay = "failed" => pay = "failed",
               InFlight(r)' => InFlight(r)
        PROVE  OneReserved'
    BY <2>1, <2>2, <2>3 DEF OneReserved, InFlight
  <2>4. CASE RequestRetry(r) \/ FetchForRetry(r)
    <3>1. /\ req'[r].pc \in {"fetch", "history"}
          /\ req'[r].pc = "history" => req'[r].pay = pay
          /\ UNCHANGED inst
      BY <1>r, <2>4 DEF RequestRetry, FetchForRetry, ReqRecord
    <3> QED
      BY <2>3, <3>1 DEF InFlight
  <2>5. CASE ReadHistory(r)
    <3>1. UNCHANGED inst
      BY <2>5 DEF ReadHistory
    <3> QED
      BY <2>2, <2>3, <2>5, <3>1, HistoryRead DEF OneReserved, InFlight
  <2>6. CASE SettlePendingRetry(r)
    <3>1. UNCHANGED inst
      BY <1>r, <2>1, <2>2, <2>6, Settled, Reading
         DEF RequestWrites, OneReserved, Instalment
    <3> QED
      BY <2>2, <2>3, <2>6, <3>1, Settled DEF OneReserved, InFlight
  <2>7. CASE ReserveRetry(r)
    <3>1. req[r].pc = "reserve" /\ pay = "failed"
      BY <2>2, <2>7 DEF ReserveRetry, OneReserved
    <3>2. CASE UNCHANGED inst /\ req'[r].pc = "idle"
      BY <2>3, <3>2 DEF InFlight
    <3>3. CASE inst.manual = 0 /\ inst'.manual = clock + 1 /\ req'[r].pc = "call"
      <4>1. inst'.manual # 0 /\ LatestOutcome.at < inst'.manual
        <5>1. clock \in Nat /\ LatestOutcome.at <= clock
          BY Reading DEF Shape, LogOrdered, LatestOutcome
        <5> QED
          BY <1>r, <3>3, <5>1
      <4>2. \A s \in Requesters : ~InFlight(s)
        BY <2>2, <3>3 DEF OneReserved
      <4>3. \A s \in Requesters : InFlight(s)' => s = r
        BY <2>1, <4>2 DEF InFlight
      <4>4. \A s \in Requesters :
              /\ req'[s].pc \notin {"reserve"} \/ pay' = "failed"
              /\ ~(req'[s].pc \in {"history", "settle"} /\ req'[s].pay = "failed")
                   \/ pay' = "failed"
        BY <2>1, <3>1
      <4> QED
        BY <2>1, <2>2, <3>1, <4>1, <4>3, <4>4 DEF OneReserved
    <3>4. \/ UNCHANGED inst /\ req'[r].pc = "idle"
          \/ inst.manual = 0 /\ inst'.manual = clock + 1 /\ req'[r].pc = "call"
      <4>1. CASE ~inst.auto /\ inst.manual = 0 /\ inst.status = "FAILED"
        <5>1. /\ inst' = [inst EXCEPT !.status = "PAYMENT_IN_PROGRESS", !.manual = clock + 1]
              /\ req' = [req EXCEPT ![r] = [IdleReq EXCEPT !.pc = "call"]]
          BY <2>7, <4>1 DEF ReserveRetry
        <5>2. inst'.manual = clock + 1
          BY <5>1, Reading DEF Instalment
        <5>3. req'[r].pc = "call"
          BY <1>r, <5>1 DEF IdleReq
        <5> QED
          BY <4>1, <5>2, <5>3
      <4>2. CASE ~(~inst.auto /\ inst.manual = 0 /\ inst.status = "FAILED")
        BY <1>r, <2>7, <4>2 DEF ReserveRetry, IdleReq
      <4> QED
        BY <4>1, <4>2
    <3> QED
      BY <3>2, <3>3, <3>4
  <2>8. CASE RefuseForMandate(r) \/ CallUncertain(r) \/ CrashReq(r)
    <3>1. UNCHANGED inst /\ req'[r].pc = "idle"
      BY <1>r, <2>8 DEF RefuseForMandate, CallUncertain, CrashReq, IdleReq
    <3> QED
      BY <2>3, <3>1 DEF InFlight
  <2>9. CASE CallRejected(r)
    <3>1. UNCHANGED inst /\ req'[r].pc = "rejected" /\ InFlight(r)
      BY <1>r, <2>9 DEF CallRejected, IdleReq, InFlight
    <3> QED
      BY <2>3, <3>1
  <2>10. CASE ReleaseRejected(r)
    <3>1. InFlight(r) /\ req'[r].pc = "idle"
      BY <1>r, <2>10 DEF ReleaseRejected, IdleReq, InFlight
    <3>2. \A s \in Requesters : ~InFlight(s)'
      BY <2>1, <2>2, <3>1 DEF OneReserved, InFlight
    <3>3. inst'.manual \in {0, inst.manual}
      BY <2>10, Reading DEF ReleaseRejected, Instalment
    <3> QED
      BY <2>1, <2>2, <3>1, <3>2, <3>3 DEF OneReserved
  <2> QED
    BY <1>4, <2>4, <2>5, <2>6, <2>7, <2>8, <2>9, <2>10 DEF RequestQuiet
<1>5. CASE UNCHANGED vars
  BY <1>5 DEF vars, provider, OneReserved, InFlight, NoRetryYet, Indices, LatestOutcome
<1> QED
  BY <1>1, <1>3, <1>4, <1>5, Steps

\* Two requests to retry the same failed collection never call GoCardless
\* together (prepareManualRetry reserves the row conditionally), whatever
\* webhooks and reconciliations write meanwhile.
THEOREM OneRetry == Spec => []OneRetryAtATime
<1>1. Init => OneReserved
  BY DEF Init, NewInstalment, IdleReq, OneReserved, InFlight
<1>2. Shape /\ OneReserved => OneRetryAtATime
  BY NoResubmission DEF OneReserved, InFlight, OneRetryAtATime
<1> QED
  BY <1>1, <1>2, OneReservedStep, ShapeInit, ShapeStep, PTL DEF Spec
=============================================================================
