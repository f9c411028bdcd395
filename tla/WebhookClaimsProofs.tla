------------------------ MODULE WebhookClaimsProofs -------------------------
(***************************************************************************)
(* Proofs about WebhookClaims, for any number of requests, events and      *)
(* deliveries, any lease and any bounds.  A claim is fenced by its time    *)
(* only, so what has to be shown is that a request inside its lease finds  *)
(* its own time in the table, whatever the others do.                      *)
(***************************************************************************)
EXTENDS WebhookClaims, TLAPS

\* A request in progress stands at an event of its delivery, or after the
\* last one when it is about to answer.
Placed(s) ==
    s.pc # "idle" =>
        /\ s.delivery \in Deliveries
        /\ s.pos \in 1 .. Len(Batch[s.delivery]) + 1
        /\ s.pc = "answer" <=> s.pos = Len(Batch[s.delivery]) + 1

AllPlaced == \A w \in Workers : Placed(worker[w])

\* What a request that met no failure has left behind is completed.
Passed(w) ==
    worker[w].pc # "idle" /\ ~worker[w].failed =>
        \A i \in 1 .. worker[w].pos - 1 :
            row[Batch[worker[w].delivery][i]].state = "completed"

PassedIsCompleted == \A w \in Workers : Passed(w)

\* A claim that is about to be taken over is old, and stays so.
SeenIsOld ==
    \A w \in Workers : worker[w].pc = "steal" => now - worker[w].seen >= Lease

\* A request inside its lease still has its claim in the table.
FreshClaimInTable ==
    \A w \in Workers : \A e \in Events :
        HoldsFresh(w, e) => HasClaim(e, worker[w].stamp)

IInv ==
    /\ TypeOK
    /\ AllPlaced
    /\ PassedIsCompleted
    /\ AckedIsCompleted
    /\ SeenIsOld
    /\ FreshClaimInTable
    /\ FreshClaimsExclude

-----------------------------------------------------------------------------

\* A request at an event goes on to the next event or to the answer, with the
\* failure remembered.
LEMMA AdvanceFields ==
    ASSUME TypeOK, AllPlaced, NEW w \in Workers, NEW b \in BOOLEAN,
           worker[w].pc \notin {"idle", "answer"}
    PROVE  LET a == Advance(w, b) IN
           /\ a \in Worker
           /\ Placed(a)
           /\ a.pc \in {"create", "answer"}
           /\ a.delivery = worker[w].delivery
           /\ a.pos = worker[w].pos + 1
           /\ a.failed = (worker[w].failed \/ b)
<1> DEFINE s == worker[w]
           a == Advance(w, b)
<1>1. /\ s \in Worker
      /\ s.delivery \in Deliveries
      /\ s.pos \in 1 .. Len(Batch[s.delivery])
      /\ Len(Batch[s.delivery]) \in Nat
  BY ClaimsAssumption DEF TypeOK, AllPlaced, Placed, Worker
<1>2. a = [pc |-> IF s.pos < Len(Batch[s.delivery]) THEN "create" ELSE "answer",
           delivery |-> s.delivery, pos |-> s.pos + 1, stamp |-> now,
           seen |-> 0, failed |-> s.failed \/ b]
  BY DEF Advance
<1>3. now \in Nat
  BY DEF TypeOK
<1> HIDE DEF a
<1>4. a \in Worker
  BY <1>1, <1>2, <1>3 DEF Worker, PCs
<1>5. Placed(a)
  <2>1. /\ a.delivery = s.delivery
        /\ a.pos = s.pos + 1
        /\ a.pc = IF s.pos < Len(Batch[s.delivery]) THEN "create" ELSE "answer"
    BY <1>2
  <2>2. \A n \in Nat : \A i \in 1 .. n :
          i + 1 \in 1 .. n + 1 /\ (i < n <=> i + 1 # n + 1)
    OBVIOUS
  <2> QED
    BY <1>1, <2>1, <2>2 DEF Placed
<1> QED
  BY <1>2, <1>4, <1>5 DEF a

\* A write of the table that holds or is lost moves the request on.
LEMMA AdvanceOrGoto ==
    ASSUME TypeOK, NEW v \in Workers,
           StealClaim(v) \/ CompleteEvent(v) \/ ReleaseClaim(v) \/ DatabaseError(v)
    PROVE  \/ worker'[v] = Advance(v, TRUE)
           \/ worker'[v] = Advance(v, FALSE)
           \/ worker'[v].pc \in {"handle", "release"}
<1>1. worker \in [Workers -> Worker]
  BY DEF TypeOK
<1>2. CASE StealClaim(v)
  <2>1. CASE worker' = [worker EXCEPT ![v].pc = "handle", ![v].seen = 0]
    BY <1>1, <2>1 DEF Worker
  <2>2. CASE worker' = [worker EXCEPT ![v] = Advance(v, TRUE)]
    BY <1>1, <2>2
  <2> QED
    BY <1>2, <2>1, <2>2 DEF StealClaim
<1>3. CASE CompleteEvent(v)
  <2>1. CASE worker' = [worker EXCEPT ![v].pc = "release"]
    BY <1>1, <2>1 DEF Worker
  <2>2. CASE worker' = [worker EXCEPT ![v] = Advance(v, FALSE)]
    BY <1>1, <2>2
  <2> QED
    BY <1>3, <2>1, <2>2 DEF CompleteEvent, Goto
<1>4. CASE ReleaseClaim(v) \/ DatabaseError(v)
  <2>1. worker' = [worker EXCEPT ![v] = Advance(v, TRUE)]
    BY <1>4 DEF ReleaseClaim, DatabaseError
  <2> QED
    BY <1>1, <2>1
<1> QED
  BY <1>2, <1>3, <1>4

\* The event a request stands at is one of its delivery.
LEMMA CurrentIsEvent ==
    ASSUME TypeOK, AllPlaced, NEW w \in Workers,
           worker[w].pc \notin {"idle", "answer"}
    PROVE  /\ Current(w) \in Events
           /\ worker[w].delivery \in Deliveries
           /\ worker[w].pos \in 1 .. Len(Batch[worker[w].delivery])
           /\ Current(w) = Batch[worker[w].delivery][worker[w].pos]
BY ClaimsAssumption DEF TypeOK, AllPlaced, Placed, Worker, Current

\* A request that goes on to another step of the same event.
LEMMA GotoFields ==
    ASSUME TypeOK, AllPlaced, NEW w \in Workers, NEW n \in Nat,
           worker[w].pc \notin {"idle", "answer"},
           NEW p \in PCs \ {"idle", "answer"}
    PROVE  /\ [worker[w] EXCEPT !.pc = p] \in Worker
           /\ Placed([worker[w] EXCEPT !.pc = p])
           /\ [worker[w] EXCEPT !.pc = p, !.seen = n] \in Worker
           /\ Placed([worker[w] EXCEPT !.pc = p, !.seen = n])
<1>1. worker[w] \in Worker
  BY DEF TypeOK
<1>2. Placed(worker[w])
  BY DEF AllPlaced
<1> QED
  BY <1>1, <1>2 DEF Worker, Placed

\* Replacing the state of one request.
LEMMA UpdateWorker ==
    ASSUME TypeOK, AllPlaced, NEW w \in Workers, NEW s \in Worker, Placed(s),
           worker' = [worker EXCEPT ![w] = s]
    PROVE  /\ worker' \in [Workers -> Worker]
           /\ AllPlaced'
BY DEF TypeOK, AllPlaced, Placed

LEMMA IdleFields == Idle \in Worker /\ Placed(Idle)
BY DEF Idle, Worker, Placed, PCs

LEMMA TypeInit == Init => TypeOK /\ AllPlaced
BY DEF Init, TypeOK, AllPlaced, Placed, Idle, NoRow, Row, Worker, PCs

\* The type invariant and the place of every request are inductive.
LEMMA TypeStep ==
    TypeOK /\ AllPlaced /\ [Next]_vars => TypeOK' /\ AllPlaced'
<1> SUFFICES ASSUME TypeOK, AllPlaced, [Next]_vars
             PROVE  TypeOK' /\ AllPlaced'
  OBVIOUS
<1> USE DEF Goto
<1>1. CASE Tick
  BY <1>1 DEF Tick, TypeOK, AllPlaced, Placed
<1>2. ASSUME NEW w \in Workers, NEW d \in Deliveries, Receive(w, d)
      PROVE  TypeOK' /\ AllPlaced'
  <2> DEFINE new == [pc |-> IF Batch[d] = <<>> THEN "answer" ELSE "create",
                     delivery |-> d, pos |-> 1, stamp |-> now, seen |-> 0,
                     failed |-> FALSE]
  <2>1. worker' = [worker EXCEPT ![w] = new]
    BY <1>2 DEF Receive
  <2>2. new \in Worker
    BY DEF Worker, PCs, TypeOK
  <2>3. Len(Batch[d]) \in Nat /\ (Batch[d] = <<>> <=> Len(Batch[d]) = 0)
    BY ClaimsAssumption
  <2>4. Placed(new)
    BY <2>3 DEF Placed
  <2> HIDE DEF new
  <2>5. worker' \in [Workers -> Worker] /\ AllPlaced'
    BY <2>1, <2>2, <2>4, UpdateWorker
  <2> QED
    BY <1>2, <2>5 DEF Receive, TypeOK
<1>3. ASSUME NEW w \in Workers, CreateClaim(w)
      PROVE  TypeOK' /\ AllPlaced'
  <2>1. Current(w) \in Events
    BY <1>3, CurrentIsEvent DEF CreateClaim
  <2>2. PICK p \in {"handle", "read"} :
          worker' = [worker EXCEPT ![w] = [worker[w] EXCEPT !.pc = p]]
    BY <1>3 DEF CreateClaim
  <2>3. worker' \in [Workers -> Worker] /\ AllPlaced'
    BY <1>3, <2>2, GotoFields, UpdateWorker DEF CreateClaim, PCs
  <2>4. row' \in [Events -> Row]
    BY <1>3, <2>1 DEF CreateClaim, TypeOK, Row, Worker
  <2> QED
    BY <1>3, <2>3, <2>4 DEF CreateClaim, TypeOK
<1>4. ASSUME NEW w \in Workers, ReadClaim(w)
      PROVE  TypeOK' /\ AllPlaced'
  <2>1. row[Current(w)].claimedAt \in Nat
    BY <1>4, CurrentIsEvent DEF ReadClaim, TypeOK, Row
  <2>2. PICK s : /\ s \in Worker /\ Placed(s)
                 /\ worker' = [worker EXCEPT ![w] = s]
    <3>1. CASE worker' = [worker EXCEPT ![w] =
                 [worker[w] EXCEPT !.pc = "steal",
                                   !.seen = row[Current(w)].claimedAt]]
      BY <1>4, <2>1, <3>1, GotoFields DEF ReadClaim, PCs
    <3>2. CASE worker' = [worker EXCEPT ![w] =
                 Advance(w, row[Current(w)].state # "completed")]
      BY <1>4, <3>2, AdvanceFields DEF ReadClaim
    <3> QED
      BY <1>4, <3>1, <3>2 DEF ReadClaim
  <2>3. worker' \in [Workers -> Worker] /\ AllPlaced'
    BY <2>2, UpdateWorker
  <2> QED
    BY <1>4, <2>3 DEF ReadClaim, TypeOK
<1>5. ASSUME NEW w \in Workers, StealClaim(w)
      PROVE  TypeOK' /\ AllPlaced'
  <2>1. Current(w) \in Events
    BY <1>5, CurrentIsEvent DEF StealClaim
  <2>2. row' \in [Events -> Row]
    <3>1. worker[w].stamp \in Nat /\ row[Current(w)] \in Row
      BY <2>1 DEF TypeOK, Worker
    <3>2. [row[Current(w)] EXCEPT !.claimedAt = worker[w].stamp] \in Row
      BY <3>1 DEF Row
    <3>3. \/ row' = row
          \/ row' = [row EXCEPT ![Current(w)] =
                       [row[Current(w)] EXCEPT !.claimedAt = worker[w].stamp]]
      BY <1>5 DEF StealClaim
    <3> QED
      BY <2>1, <3>2, <3>3 DEF TypeOK
  <2>3. PICK s : /\ s \in Worker /\ Placed(s)
                 /\ worker' = [worker EXCEPT ![w] = s]
    <3>1. CASE HasClaim(Current(w), worker[w].seen)
      <4>1. worker' = [worker EXCEPT ![w] =
                         [worker[w] EXCEPT !.pc = "handle", !.seen = 0]]
        BY <1>5, <3>1 DEF StealClaim, TypeOK
      <4> QED
        BY <1>5, <4>1, GotoFields DEF StealClaim, PCs
    <3>2. CASE ~HasClaim(Current(w), worker[w].seen)
      BY <1>5, <3>2, AdvanceFields DEF StealClaim
    <3> QED
      BY <3>1, <3>2
  <2>4. worker' \in [Workers -> Worker] /\ AllPlaced'
    BY <2>3, UpdateWorker
  <2> QED
    BY <1>5, <2>2, <2>4 DEF StealClaim, TypeOK
<1>6. ASSUME NEW w \in Workers, HandleEvent(w)
      PROVE  TypeOK' /\ AllPlaced'
  <2>1. Current(w) \in Events
    BY <1>6, CurrentIsEvent DEF HandleEvent
  <2>2. worker' = [worker EXCEPT ![w] = [worker[w] EXCEPT !.pc = "complete"]]
    BY <1>6 DEF HandleEvent
  <2>3. worker' \in [Workers -> Worker] /\ AllPlaced'
    BY <1>6, <2>2, GotoFields, UpdateWorker DEF HandleEvent, PCs
  <2> QED
    BY <1>6, <2>1, <2>3 DEF HandleEvent, TypeOK
<1>7. ASSUME NEW w \in Workers, CompleteEvent(w)
      PROVE  TypeOK' /\ AllPlaced'
  <2>1. Current(w) \in Events
    BY <1>7, CurrentIsEvent DEF CompleteEvent
  <2>2. row' \in [Events -> Row]
    <3>1. [row[Current(w)] EXCEPT !.state = "completed"] \in Row
      BY <2>1 DEF TypeOK, Row
    <3>2. \/ row' = row
          \/ row' = [row EXCEPT ![Current(w)] =
                       [row[Current(w)] EXCEPT !.state = "completed"]]
      BY <1>7 DEF CompleteEvent
    <3>3. row \in [Events -> Row]
      BY DEF TypeOK
    <3> QED
      BY <2>1, <3>1, <3>2, <3>3
  <2>3. PICK s : /\ s \in Worker /\ Placed(s)
                 /\ worker' = [worker EXCEPT ![w] = s]
    <3>1. CASE HasClaim(Current(w), worker[w].stamp)
      BY <1>7, <3>1, AdvanceFields DEF CompleteEvent
    <3>2. CASE ~HasClaim(Current(w), worker[w].stamp)
      <4>1. worker' = [worker EXCEPT ![w] =
                         [worker[w] EXCEPT !.pc = "release"]]
        BY <1>7, <3>2 DEF CompleteEvent
      <4> QED
        BY <1>7, <4>1, GotoFields DEF CompleteEvent, PCs
    <3> QED
      BY <3>1, <3>2
  <2>4. worker' \in [Workers -> Worker] /\ AllPlaced'
    BY <2>3, UpdateWorker
  <2> QED
    BY <1>7, <2>2, <2>4 DEF CompleteEvent, TypeOK
<1>8. ASSUME NEW w \in Workers, ReleaseClaim(w)
      PROVE  TypeOK' /\ AllPlaced'
  <2>1. row' \in [Events -> Row]
    BY <1>8 DEF ReleaseClaim, TypeOK, NoRow, Row
  <2>2. worker' \in [Workers -> Worker] /\ AllPlaced'
    BY <1>8, AdvanceFields, UpdateWorker DEF ReleaseClaim
  <2> QED
    BY <1>8, <2>1, <2>2 DEF ReleaseClaim, TypeOK
<1>9. ASSUME NEW w \in Workers, Answer(w)
      PROVE  TypeOK' /\ AllPlaced'
  <2>1. worker[w].delivery \in Deliveries
    BY <1>9 DEF Answer, AllPlaced, Placed
  <2>2. worker' \in [Workers -> Worker] /\ AllPlaced'
    BY <1>9, IdleFields, UpdateWorker DEF Answer
  <2> QED
    BY <1>9, <2>1, <2>2 DEF Answer, TypeOK
<1>10. ASSUME NEW w \in Workers, HandlerError(w)
       PROVE  TypeOK' /\ AllPlaced'
  <2>1. worker' = [worker EXCEPT ![w] = [worker[w] EXCEPT !.pc = "release"]]
    BY <1>10 DEF HandlerError
  <2>2. worker' \in [Workers -> Worker] /\ AllPlaced'
    BY <1>10, <2>1, GotoFields, UpdateWorker DEF HandlerError, PCs
  <2> QED
    BY <1>10, <2>2 DEF HandlerError, Fault, TypeOK
<1>11. ASSUME NEW w \in Workers, DatabaseError(w)
       PROVE  TypeOK' /\ AllPlaced'
  <2>1. worker' \in [Workers -> Worker] /\ AllPlaced'
    BY <1>11, AdvanceFields, UpdateWorker DEF DatabaseError
  <2>2. faults' = faults + 1 /\ UNCHANGED <<now, row, handled, acked>>
    BY <1>11 DEF DatabaseError, Fault
  <2> QED
    BY <2>1, <2>2 DEF TypeOK
<1>12. ASSUME NEW w \in Workers, Crash(w)
       PROVE  TypeOK' /\ AllPlaced'
  <2>1. worker' \in [Workers -> Worker] /\ AllPlaced'
    BY <1>12, IdleFields, UpdateWorker DEF Crash
  <2> QED
    BY <1>12, <2>1 DEF Crash, Fault, TypeOK
<1>13. CASE UNCHANGED vars
  BY <1>13 DEF vars, TypeOK, AllPlaced, Placed
<1> QED
  BY <1>1, <1>2, <1>3, <1>4, <1>5, <1>6, <1>7, <1>8, <1>9, <1>10, <1>11,
     <1>12, <1>13 DEF Next, Step

\* Every variable keeps its type, whatever the requests do to each other.
THEOREM TypeCorrect == Spec => []TypeOK
<1>1. Spec => [](TypeOK /\ AllPlaced)
  BY TypeInit, TypeStep, PTL DEF Spec
<1> QED
  BY <1>1, PTL

-----------------------------------------------------------------------------

\* A request's own step leaves the clock and the other requests alone.
LEMMA OthersKeep ==
    ASSUME TypeOK, NEW w \in Workers,
           \/ \E d \in Deliveries : Receive(w, d)
           \/ Step(w) \/ HandlerError(w) \/ DatabaseError(w) \/ Crash(w)
    PROVE  /\ now' = now
           /\ \A v \in Workers \ {w} : worker'[v] = worker[v]
<1>1. CASE \E d \in Deliveries : Receive(w, d)
  BY <1>1 DEF Receive, TypeOK
<1>2. CASE Step(w)
  BY <1>2 DEF Step, CreateClaim, ReadClaim, StealClaim, HandleEvent,
       CompleteEvent, ReleaseClaim, Answer, Goto, TypeOK
<1>3. CASE HandlerError(w) \/ DatabaseError(w) \/ Crash(w)
  BY <1>3 DEF HandlerError, DatabaseError, Crash, Goto, TypeOK
<1> QED
  BY <1>1, <1>2, <1>3

LEMMA StepChangesOne ==
    ASSUME TypeOK, [Next]_vars, NEW u \in Workers, NEW v \in Workers,
           worker'[u] # worker[u], worker'[v] # worker[v]
    PROVE  u = v
<1>1. ~(Tick \/ UNCHANGED vars)
  BY DEF Tick, vars
<1>2. PICK w \in Workers :
        \/ \E d \in Deliveries : Receive(w, d)
        \/ Step(w) \/ HandlerError(w) \/ DatabaseError(w) \/ Crash(w)
  BY <1>1 DEF Next
<1> QED
  BY <1>2, OthersKeep

LEMMA ClockStep ==
    ASSUME TypeOK, [Next]_vars
    PROVE  now' \in Nat /\ now' >= now
<1>1. CASE Tick
  BY <1>1 DEF Tick, TypeOK
<1>2. CASE ~Tick
  <2>1. now' = now
    BY <1>2, OthersKeep DEF Next, vars
  <2> QED
    BY <2>1 DEF TypeOK
<1> QED
  BY <1>1, <1>2

\* The step formula of ClaimsAreFenced.
FencedStep ==
    \A e \in Events :
        row[e].state # "absent" /\ row'[e] # row[e] =>
            /\ row[e].state = "claimed"
            /\ \/ now - row[e].claimedAt >= Lease
               \/ \E w \in Workers :
                    /\ Holds(w, e)
                    /\ worker[w].stamp = row[e].claimedAt
                    /\ worker'[w] # worker[w]

LEMMA FencingStep ==
    TypeOK /\ AllPlaced /\ SeenIsOld /\ [Next]_vars => FencedStep
<1> SUFFICES ASSUME TypeOK, AllPlaced, SeenIsOld, [Next]_vars,
                    NEW e \in Events, row[e].state # "absent", row'[e] # row[e]
             PROVE  /\ row[e].state = "claimed"
                    /\ \/ now - row[e].claimedAt >= Lease
                       \/ \E w \in Workers :
                            /\ Holds(w, e)
                            /\ worker[w].stamp = row[e].claimedAt
                            /\ worker'[w] # worker[w]
  BY DEF FencedStep
<1>1. PICK w \in Workers :
        CreateClaim(w) \/ StealClaim(w) \/ CompleteEvent(w) \/ ReleaseClaim(w)
  BY DEF Next, Step, vars, Tick, Receive, ReadClaim, HandleEvent, Answer,
         HandlerError, DatabaseError, Crash
<1>2. /\ Current(w) \in Events
      /\ worker[w].pos \in Nat
  BY <1>1, CurrentIsEvent
     DEF CreateClaim, StealClaim, CompleteEvent, ReleaseClaim, TypeOK, Worker
<1>3. CASE CreateClaim(w)
  BY <1>2, <1>3 DEF CreateClaim, TypeOK
<1>4. CASE StealClaim(w)
  <2>1. Current(w) = e /\ HasClaim(e, worker[w].seen)
    BY <1>2, <1>4 DEF StealClaim, TypeOK
  <2> QED
    BY <1>4, <2>1 DEF StealClaim, HasClaim, SeenIsOld
<1>5. CASE CompleteEvent(w)
  <2>1. Current(w) = e /\ HasClaim(e, worker[w].stamp)
    BY <1>2, <1>5 DEF CompleteEvent, TypeOK
  <2>2. worker'[w] = Advance(w, FALSE)
    BY <1>5, <2>1 DEF CompleteEvent, TypeOK
  <2>3. worker'[w].pos # worker[w].pos
    BY <1>2, <2>2 DEF Advance
  <2> QED
    BY <1>5, <2>1, <2>3 DEF CompleteEvent, HasClaim, Holds
<1>6. CASE ReleaseClaim(w)
  <2>1. Current(w) = e /\ HasClaim(e, worker[w].stamp)
    BY <1>2, <1>6 DEF ReleaseClaim, TypeOK
  <2>2. worker'[w] = Advance(w, TRUE)
    BY <1>6 DEF ReleaseClaim, TypeOK
  <2>3. worker'[w].pos # worker[w].pos
    BY <1>2, <2>2 DEF Advance
  <2> QED
    BY <1>6, <2>1, <2>3 DEF ReleaseClaim, HasClaim, Holds
<1> QED
  BY <1>1, <1>3, <1>4, <1>5, <1>6

-----------------------------------------------------------------------------

FreshRow(e) == row[e].state = "claimed" /\ now - row[e].claimedAt < Lease

\* A request that holds a fresh claim after a step held it before and did not
\* touch the table, or acquired it in this step, from a row that was free or
\* old.
LEMMA AcquireStep ==
    ASSUME TypeOK, AllPlaced, SeenIsOld, [Next]_vars,
           NEW v \in Workers, NEW e \in Events, HoldsFresh(v, e)'
    PROVE  \/ /\ HoldsFresh(v, e)
              /\ worker'[v].stamp = worker[v].stamp
              /\ worker'[v] = worker[v] \/ row' = row
           \/ /\ ~FreshRow(e)
              /\ HasClaim(e, worker[v].stamp)'
              /\ worker'[v] # worker[v]
<1> DEFINE Goal == \/ /\ HoldsFresh(v, e)
                      /\ worker'[v].stamp = worker[v].stamp
                      /\ worker'[v] = worker[v] \/ row' = row
                   \/ /\ ~FreshRow(e)
                      /\ HasClaim(e, worker[v].stamp)'
                      /\ worker'[v] # worker[v]
<1> HIDE DEF Goal
<1> USE DEF Goto
<1>1. /\ now \in Nat /\ now' \in Nat /\ now' >= now /\ Lease \in Nat
      /\ worker[v] \in Worker /\ worker[v].stamp \in Nat
  <2>1. now \in Nat /\ now' \in Nat
    BY TypeStep DEF TypeOK
  <2>2. now' >= now
    BY ClockStep
  <2> QED
    BY <2>1, <2>2, ClaimsAssumption DEF TypeOK, Worker
<1>2. ASSUME worker'[v] = worker[v]
      PROVE  Goal
  BY <1>1, <1>2 DEF Goal, HoldsFresh, Holds, Current
<1>3. worker'[v].pc \in {"handle", "complete", "release"}
  BY DEF HoldsFresh, Holds
<1>4. ASSUME CreateClaim(v)
      PROVE  Goal
  <2>1. row[Current(v)].state = "absent"
    BY <1>1, <1>3, <1>4 DEF CreateClaim, TypeOK, Worker
  <2>2. /\ row' = [row EXCEPT ![Current(v)] =
                     [state |-> "claimed", claimedAt |-> worker[v].stamp]]
        /\ worker' = [worker EXCEPT ![v].pc = "handle"]
    BY <1>4, <2>1 DEF CreateClaim
  <2>3. /\ worker'[v] = [worker[v] EXCEPT !.pc = "handle"]
        /\ worker[v].pc = "create"
    BY <1>4, <2>2 DEF CreateClaim, TypeOK
  <2>4. /\ worker'[v].delivery = worker[v].delivery
        /\ worker'[v].pos = worker[v].pos
        /\ worker'[v].stamp = worker[v].stamp
        /\ worker'[v] # worker[v]
    BY <1>1, <2>3 DEF Worker
  <2>5. Current(v) = e
    BY <2>4 DEF HoldsFresh, Holds, Current
  <2> QED
    BY <2>1, <2>2, <2>4, <2>5 DEF Goal, FreshRow, HasClaim, TypeOK
<1>5. ASSUME StealClaim(v)
      PROVE  Goal
  <2>1. HasClaim(Current(v), worker[v].seen)
    <3>1. CASE ~HasClaim(Current(v), worker[v].seen)
      <4>1. worker'[v] = Advance(v, TRUE)
        BY <1>5, <3>1 DEF StealClaim, TypeOK
      <4>2. Advance(v, TRUE).pc \in {"create", "answer"}
        BY <1>5, AdvanceFields DEF StealClaim
      <4> QED
        BY <1>3, <4>1, <4>2
    <3> QED
      BY <3>1
  <2>2. /\ row' = [row EXCEPT ![Current(v)].claimedAt = worker[v].stamp]
        /\ worker'[v] = [worker[v] EXCEPT !.pc = "handle", !.seen = 0]
        /\ worker[v].pc = "steal"
    BY <1>5, <2>1 DEF StealClaim, TypeOK
  <2>3. /\ worker'[v].delivery = worker[v].delivery
        /\ worker'[v].pos = worker[v].pos
        /\ worker'[v].stamp = worker[v].stamp
        /\ worker'[v] # worker[v]
    BY <1>1, <2>2 DEF Worker
  <2>4. Current(v) = e
    BY <2>3 DEF HoldsFresh, Holds, Current
  <2>5. ~FreshRow(e)
    BY <1>1, <2>1, <2>2, <2>4 DEF SeenIsOld, HasClaim, FreshRow, TypeOK, Worker
  <2>6. HasClaim(e, worker[v].stamp)'
    BY <2>1, <2>2, <2>3, <2>4 DEF HasClaim, TypeOK, Row
  <2> QED
    BY <2>3, <2>5, <2>6 DEF Goal
<1>6. ASSUME HandleEvent(v) \/ HandlerError(v)
      PROVE  Goal
  <2>1. PICK p : worker'[v] = [worker[v] EXCEPT !.pc = p]
    BY <1>6 DEF HandleEvent, HandlerError, TypeOK
  <2>2. /\ worker'[v].delivery = worker[v].delivery
        /\ worker'[v].pos = worker[v].pos
        /\ worker'[v].stamp = worker[v].stamp
    BY <1>1, <2>1 DEF Worker
  <2>3. /\ worker[v].pc \in {"handle", "complete", "release"}
        /\ row' = row /\ now' = now
    BY <1>6 DEF HandleEvent, HandlerError
  <2> QED
    BY <1>1, <2>2, <2>3 DEF Goal, HoldsFresh, Holds, Current
<1>7. ASSUME CompleteEvent(v)
      PROVE  Goal
  <2>1. ~HasClaim(Current(v), worker[v].stamp)
    <3>1. CASE HasClaim(Current(v), worker[v].stamp)
      <4>1. worker'[v] = Advance(v, FALSE)
        BY <1>7, <3>1 DEF CompleteEvent, TypeOK
      <4>2. Advance(v, FALSE).pc \in {"create", "answer"}
        BY <1>7, AdvanceFields DEF CompleteEvent
      <4> QED
        BY <1>3, <4>1, <4>2
    <3> QED
      BY <3>1
  <2>2. /\ worker'[v] = [worker[v] EXCEPT !.pc = "release"]
        /\ worker[v].pc = "complete" /\ row' = row /\ now' = now
    BY <1>7, <2>1 DEF CompleteEvent, TypeOK
  <2>3. /\ worker'[v].delivery = worker[v].delivery
        /\ worker'[v].pos = worker[v].pos
        /\ worker'[v].stamp = worker[v].stamp
    BY <1>1, <2>2 DEF Worker
  <2> QED
    BY <1>1, <2>2, <2>3 DEF Goal, HoldsFresh, Holds, Current
<1>8. ASSUME ReadClaim(v) \/ ReleaseClaim(v) \/ DatabaseError(v)
      PROVE  FALSE
  <2>1. \A b \in BOOLEAN : Advance(v, b).pc \in {"create", "answer"}
    BY <1>8, AdvanceFields DEF ReadClaim, ReleaseClaim, DatabaseError
  <2>2. \/ worker'[v].pc = "steal"
        \/ \E b \in BOOLEAN : worker'[v] = Advance(v, b)
    BY <1>1, <1>8 DEF ReadClaim, ReleaseClaim, DatabaseError, TypeOK, Worker
  <2> QED
    BY <1>3, <2>1, <2>2
<1>9. ASSUME (\E d \in Deliveries : Receive(v, d)) \/ Answer(v) \/ Crash(v)
      PROVE  FALSE
  BY <1>3, <1>9 DEF Receive, Answer, Crash, Idle, TypeOK
<1>10. ASSUME NEW w \in Workers, w # v,
              \/ \E d \in Deliveries : Receive(w, d)
              \/ Step(w) \/ HandlerError(w) \/ DatabaseError(w) \/ Crash(w)
       PROVE  worker'[v] = worker[v]
  BY <1>10, OthersKeep
<1>11. Tick \/ UNCHANGED vars => worker'[v] = worker[v]
  BY DEF Tick, vars
<1>12. Goal
  BY <1>2, <1>4, <1>5, <1>6, <1>7, <1>8, <1>9, <1>10, <1>11 DEF Next, Step
<1> QED
  BY <1>12 DEF Goal

\* The lease invariant is inductive: nobody takes a fresh claim away.
LEMMA FreshStep ==
    ASSUME TypeOK, AllPlaced, SeenIsOld, FreshClaimInTable, FreshClaimsExclude,
           [Next]_vars
    PROVE  FreshClaimInTable' /\ FreshClaimsExclude'
<1>1. ASSUME NEW u \in Workers, NEW e \in Events, HoldsFresh(u, e)
      PROVE  HasClaim(e, worker[u].stamp) /\ FreshRow(e)
  BY <1>1 DEF FreshClaimInTable, HoldsFresh, HasClaim, FreshRow
<1>2. ASSUME NEW v \in Workers, NEW e \in Events, HoldsFresh(v, e)'
      PROVE  HasClaim(e, worker[v].stamp)'
  <2>1. CASE ~FreshRow(e) /\ HasClaim(e, worker[v].stamp)'
    BY <2>1
  <2>2. CASE /\ HoldsFresh(v, e)
             /\ worker'[v].stamp = worker[v].stamp
             /\ row' = row
    BY <1>1, <2>2 DEF HasClaim
  <2>3. CASE /\ HoldsFresh(v, e)
             /\ worker'[v] = worker[v]
             /\ row'[e] # row[e]
    <3>1. HasClaim(e, worker[v].stamp) /\ FreshRow(e)
      BY <1>1, <2>3
    <3>2. now - row[e].claimedAt < Lease /\ now \in Int /\ Lease \in Int
          /\ row[e].claimedAt \in Int
      BY <3>1, ClaimsAssumption DEF FreshRow, TypeOK, Row
    <3>3. PICK w \in Workers :
            /\ Holds(w, e)
            /\ worker[w].stamp = row[e].claimedAt
            /\ worker'[w] # worker[w]
      BY <2>3, <3>1, <3>2, FencingStep DEF FencedStep, HasClaim
    <3>4. HoldsFresh(w, e)
      BY <3>2, <3>3 DEF HoldsFresh
    <3>5. w = v
      BY <2>3, <3>4 DEF FreshClaimsExclude
    <3> QED
      BY <2>3, <3>3, <3>5
  <2>4. CASE /\ HoldsFresh(v, e)
             /\ worker'[v] = worker[v]
             /\ row'[e] = row[e]
    BY <1>1, <2>4 DEF HasClaim
  <2> QED
    BY <1>2, <2>1, <2>2, <2>3, <2>4, AcquireStep
<1>3. ASSUME NEW e \in Events, NEW u \in Workers, NEW v \in Workers,
             HoldsFresh(u, e)', HoldsFresh(v, e)'
      PROVE  u = v
  <2>1. CASE HoldsFresh(u, e) /\ HoldsFresh(v, e)
    BY <2>1 DEF FreshClaimsExclude
  <2>2. HoldsFresh(u, e) \/ (~FreshRow(e) /\ worker'[u] # worker[u])
    BY <1>3, AcquireStep
  <2>3. HoldsFresh(v, e) \/ (~FreshRow(e) /\ worker'[v] # worker[v])
    BY <1>3, AcquireStep
  <2>4. CASE worker'[u] # worker[u] /\ worker'[v] # worker[v]
    BY <2>4, StepChangesOne
  <2> QED
    BY <1>1, <2>1, <2>2, <2>3, <2>4
<1> QED
  BY <1>2, <1>3 DEF FreshClaimInTable, FreshClaimsExclude

LEMMA SeenStep ==
    ASSUME TypeOK, AllPlaced, SeenIsOld, [Next]_vars
    PROVE  SeenIsOld'
<1> SUFFICES ASSUME NEW v \in Workers, worker'[v].pc = "steal"
             PROVE  now' - worker'[v].seen >= Lease
  BY DEF SeenIsOld
<1>1. now \in Nat /\ Lease \in Nat /\ worker[v] \in Worker
  BY ClaimsAssumption DEF TypeOK
<1>2. CASE worker'[v] = worker[v]
  <2>1. now' \in Nat /\ now' >= now
    BY <1>1, ClockStep
  <2> QED
    BY <1>1, <1>2, <2>1 DEF SeenIsOld, Worker
<1>3. CASE ReadClaim(v)
  <2>1. Advance(v, row[Current(v)].state # "completed").pc # "steal"
    BY <1>3, AdvanceFields DEF ReadClaim
  <2>2. /\ now - row[Current(v)].claimedAt >= Lease
        /\ worker'[v] = [worker[v] EXCEPT !.pc = "steal",
                                 !.seen = row[Current(v)].claimedAt]
        /\ now' = now
    BY <1>3, <2>1 DEF ReadClaim, TypeOK
  <2> QED
    BY <1>1, <2>2 DEF Worker
<1>4. CASE \/ CreateClaim(v) \/ HandleEvent(v) \/ HandlerError(v)
           \/ Answer(v) \/ Crash(v)
           \/ \E d \in Deliveries : Receive(v, d)
  BY <1>1, <1>4 DEF CreateClaim, HandleEvent, HandlerError, Answer, Crash,
       Receive, Idle, Goto, TypeOK, Worker
<1>5. CASE \/ StealClaim(v) \/ CompleteEvent(v) \/ ReleaseClaim(v)
           \/ DatabaseError(v)
  <2>1. \A b \in BOOLEAN : Advance(v, b).pc # "steal"
    BY <1>5, AdvanceFields
       DEF StealClaim, CompleteEvent, ReleaseClaim, DatabaseError
  <2>2. \/ worker'[v] = Advance(v, TRUE)
        \/ worker'[v] = Advance(v, FALSE)
        \/ worker'[v].pc \in {"handle", "release"}
    BY <1>5, AdvanceOrGoto
  <2> QED
    BY <2>1, <2>2
<1>6. ASSUME NEW w \in Workers, w # v,
             \/ \E d \in Deliveries : Receive(w, d)
             \/ Step(w) \/ HandlerError(w) \/ DatabaseError(w) \/ Crash(w)
      PROVE  worker'[v] = worker[v]
  BY <1>6, OthersKeep
<1>7. Tick \/ UNCHANGED vars => worker'[v] = worker[v]
  BY DEF Tick, vars
<1> QED
  BY <1>2, <1>3, <1>4, <1>5, <1>6, <1>7 DEF Next, Step

\* Completed rows are never changed again.
LEMMA CompletedStays ==
    ASSUME TypeOK, AllPlaced, SeenIsOld, [Next]_vars,
           NEW e \in Events, row[e].state = "completed"
    PROVE  row'[e].state = "completed"
<1>1. CASE row'[e] = row[e]
  BY <1>1
<1>2. CASE row'[e] # row[e]
  BY <1>2, FencingStep DEF FencedStep
<1> QED
  BY <1>1, <1>2

\* A request that passes its event without failure leaves it completed.
LEMMA PassedStep ==
    ASSUME TypeOK, AllPlaced, SeenIsOld, PassedIsCompleted, AckedIsCompleted,
           [Next]_vars
    PROVE  PassedIsCompleted' /\ AckedIsCompleted'
<1> USE DEF Goto
<1>1. \A d \in Deliveries : \A i \in 1 .. Len(Batch[d]) : Batch[d][i] \in Events
  BY ClaimsAssumption
<1>2. ASSUME NEW w \in Workers,
             worker'[w].pc # "idle", ~worker'[w].failed,
             worker[w].pc # "idle", ~worker[w].failed,
             worker'[w].delivery = worker[w].delivery,
             \/ worker'[w].pos = worker[w].pos
             \/ /\ worker'[w].pos = worker[w].pos + 1
                /\ worker[w].pc # "answer"
                /\ row'[Current(w)].state = "completed"
      PROVE  Passed(w)'
  <2> SUFFICES ASSUME NEW i \in 1 .. worker'[w].pos - 1
               PROVE  row'[Batch[worker'[w].delivery][i]].state = "completed"
    BY DEF Passed
  <2>1. /\ worker[w].delivery \in Deliveries
        /\ worker[w].pos \in 1 .. Len(Batch[worker[w].delivery]) + 1
        /\ Len(Batch[worker[w].delivery]) \in Nat
    BY <1>2, ClaimsAssumption DEF AllPlaced, Placed
  <2>2. CASE i \in 1 .. worker[w].pos - 1
    <3>1. row[Batch[worker[w].delivery][i]].state = "completed"
      BY <1>2, <2>2 DEF PassedIsCompleted, Passed
    <3>2. Batch[worker[w].delivery][i] \in Events
      BY <1>1, <2>1, <2>2
    <3> QED
      BY <1>2, <3>1, <3>2, CompletedStays
  <2>3. CASE i \notin 1 .. worker[w].pos - 1
    <3>1. i = worker[w].pos
      BY <1>2, <2>1, <2>3
    <3> QED
      BY <1>2, <2>1, <2>3, <3>1 DEF Current
  <2> QED
    BY <2>2, <2>3
<1>3. ASSUME NEW w \in Workers, worker'[w] = worker[w]
      PROVE  Passed(w)'
  <2>1. CASE worker[w].pc # "idle" /\ ~worker[w].failed
    BY <1>2, <1>3, <2>1
  <2>2. CASE ~(worker[w].pc # "idle" /\ ~worker[w].failed)
    BY <1>3, <2>2 DEF Passed
  <2> QED
    BY <2>1, <2>2
<1>4. ASSUME NEW w \in Workers,
             (\E d \in Deliveries : Receive(w, d)) \/ Answer(w) \/ Crash(w)
      PROVE  Passed(w)'
  BY <1>4 DEF Receive, Answer, Crash, Idle, TypeOK, Passed
<1>5. ASSUME NEW w \in Workers, NEW p,
             worker[w].pc \notin {"idle", "answer"},
             worker'[w] = [worker[w] EXCEPT !.pc = p]
      PROVE  Passed(w)'
  <2>1. /\ worker'[w].delivery = worker[w].delivery
        /\ worker'[w].pos = worker[w].pos
        /\ worker'[w].failed = worker[w].failed
    BY <1>5 DEF TypeOK, Worker
  <2> QED
    BY <1>2, <1>5, <2>1 DEF Passed
<1>6. ASSUME NEW w \in Workers,
             \/ CreateClaim(w) \/ HandleEvent(w) \/ HandlerError(w)
      PROVE  Passed(w)'
  <2>1. \E p : worker'[w] = [worker[w] EXCEPT !.pc = p]
    BY <1>6 DEF CreateClaim, HandleEvent, HandlerError, TypeOK
  <2> QED
    BY <1>5, <1>6, <2>1 DEF CreateClaim, HandleEvent, HandlerError
<1>7. ASSUME NEW w \in Workers, ReadClaim(w)
      PROVE  Passed(w)'
  <2> DEFINE done == row[Current(w)].state = "completed"
  <2>1. CASE worker'[w] = [worker[w] EXCEPT !.pc = "steal",
                             !.seen = row[Current(w)].claimedAt]
    <3>1. /\ worker'[w].delivery = worker[w].delivery
          /\ worker'[w].pos = worker[w].pos
          /\ worker'[w].failed = worker[w].failed
      BY <2>1 DEF TypeOK, Worker
    <3> QED
      BY <1>2, <1>7, <3>1 DEF Passed, ReadClaim
  <2>2. CASE worker'[w] = Advance(w, row[Current(w)].state # "completed")
    <3>1. /\ worker'[w].delivery = worker[w].delivery
          /\ worker'[w].pos = worker[w].pos + 1
          /\ worker'[w].failed = (worker[w].failed \/ ~done)
      BY <2>2 DEF Advance
    <3>2. row' = row /\ worker[w].pc = "read"
      BY <1>7 DEF ReadClaim
    <3> QED
      BY <1>2, <3>1, <3>2 DEF Passed
  <2> QED
    BY <1>7, <2>1, <2>2 DEF ReadClaim, TypeOK
<1>8. ASSUME NEW w \in Workers, worker'[w] = Advance(w, TRUE)
      PROVE  Passed(w)'
  <2>1. worker'[w].failed = (worker[w].failed \/ TRUE)
    BY <1>8 DEF Advance
  <2>2. worker'[w].failed
    BY <2>1
  <2> QED
    BY <2>2 DEF Passed
<1>9. ASSUME NEW w \in Workers, StealClaim(w)
      PROVE  Passed(w)'
  <2>1. CASE HasClaim(Current(w), worker[w].seen)
    <3>1. worker'[w] = [worker[w] EXCEPT !.pc = "handle", !.seen = 0]
      BY <1>9, <2>1 DEF StealClaim, TypeOK
    <3>2. /\ worker'[w].delivery = worker[w].delivery
          /\ worker'[w].pos = worker[w].pos
          /\ worker'[w].failed = worker[w].failed
      BY <3>1 DEF TypeOK, Worker
    <3> QED
      BY <1>2, <1>9, <3>2 DEF Passed, StealClaim
  <2>2. CASE ~HasClaim(Current(w), worker[w].seen)
    BY <1>8, <1>9, <2>2 DEF StealClaim, TypeOK
  <2> QED
    BY <2>1, <2>2
<1>10. ASSUME NEW w \in Workers, CompleteEvent(w)
       PROVE  Passed(w)'
  <2>1. CASE HasClaim(Current(w), worker[w].stamp)
    <3>1. /\ worker'[w].delivery = worker[w].delivery
          /\ worker'[w].pos = worker[w].pos + 1
          /\ worker'[w].failed = (worker[w].failed \/ FALSE)
      BY <1>10, <2>1 DEF CompleteEvent, Advance, TypeOK
    <3>2. Current(w) \in Events /\ worker[w].pc = "complete"
      BY <1>10, CurrentIsEvent DEF CompleteEvent
    <3>3. row'[Current(w)].state = "completed"
      BY <1>10, <2>1, <3>2 DEF CompleteEvent, TypeOK, Row
    <3> QED
      BY <1>2, <3>1, <3>2, <3>3 DEF Passed
  <2>2. CASE ~HasClaim(Current(w), worker[w].stamp)
    BY <1>5, <1>10, <2>2 DEF CompleteEvent, TypeOK
  <2> QED
    BY <2>1, <2>2
<1>11. ASSUME NEW w \in Workers, ReleaseClaim(w) \/ DatabaseError(w)
       PROVE  Passed(w)'
  BY <1>8, <1>11 DEF ReleaseClaim, DatabaseError, TypeOK
<1>12. PassedIsCompleted'
  <2> SUFFICES ASSUME NEW v \in Workers, worker'[v] # worker[v]
               PROVE  Passed(v)'
    BY <1>3 DEF PassedIsCompleted
  <2>1. ~(Tick \/ UNCHANGED vars)
    BY DEF Tick, vars
  <2>2. PICK w \in Workers :
          \/ \E d \in Deliveries : Receive(w, d)
          \/ Step(w) \/ HandlerError(w) \/ DatabaseError(w) \/ Crash(w)
    BY <2>1 DEF Next
  <2>3. w = v
    BY <2>2, OthersKeep
  <2> QED
    BY <1>4, <1>6, <1>7, <1>9, <1>10, <1>11, <2>2, <2>3 DEF Step
<1>13. ASSUME NEW w \in Workers, Answer(w), ~worker[w].failed
       PROVE  \A i \in 1 .. Len(Batch[worker[w].delivery]) :
                  row[Batch[worker[w].delivery][i]].state = "completed"
  <2>1. /\ worker[w].delivery \in Deliveries
        /\ worker[w].pos = Len(Batch[worker[w].delivery]) + 1
        /\ Len(Batch[worker[w].delivery]) \in Nat
    BY <1>13, ClaimsAssumption DEF Answer, AllPlaced, Placed
  <2> QED
    BY <1>13, <2>1 DEF Answer, PassedIsCompleted, Passed
<1>14. ASSUME NEW d \in acked'
       PROVE  d \in Deliveries /\ \A i \in 1 .. Len(Batch[d]) :
                  row[Batch[d][i]].state = "completed"
  <2>1. CASE d \in acked
    BY <2>1 DEF AckedIsCompleted, TypeOK
  <2>2. CASE d \notin acked
    <3>1. PICK w \in Workers : Answer(w)
      BY <1>14, <2>2 DEF Next, Step, vars, Tick, Receive, CreateClaim,
         ReadClaim, StealClaim, HandleEvent, CompleteEvent, ReleaseClaim,
         HandlerError, DatabaseError, Crash
    <3>2. ~worker[w].failed /\ d = worker[w].delivery
      BY <1>14, <2>2, <3>1 DEF Answer
    <3> QED
      BY <1>13, <3>1, <3>2 DEF Answer, AllPlaced, Placed
  <2> QED
    BY <2>1, <2>2
<1>15. AckedIsCompleted'
  BY <1>1, <1>14, CompletedStays DEF AckedIsCompleted
<1> QED
  BY <1>12, <1>15

-----------------------------------------------------------------------------

LEMMA InductiveInit == Init => IInv
<1> SUFFICES ASSUME Init
             PROVE  IInv
  OBVIOUS
<1>1. TypeOK /\ AllPlaced
  BY TypeInit
<1>2. \A w \in Workers : worker[w].pc = "idle"
  BY DEF Init, Idle
<1> QED
  BY <1>1, <1>2 DEF Init, IInv, PassedIsCompleted, Passed, AckedIsCompleted,
     SeenIsOld, FreshClaimInTable, FreshClaimsExclude, HoldsFresh, Holds

LEMMA InductiveStep == IInv /\ [Next]_vars => IInv'
BY TypeStep, PassedStep, SeenStep, FreshStep DEF IInv

LEMMA Inductive == Spec => []IInv
BY InductiveInit, InductiveStep, PTL DEF Spec

\* Two requests are inside the handler of an event only when one of them
\* outlived its lease: the database's unique key and the compare-and-set on
\* claimedAt are enough, with no clock in the database.
THEOREM FreshClaimsExcluded == Spec => []FreshClaimsExclude
<1>1. IInv => FreshClaimsExclude
  BY DEF IInv
<1> QED
  BY <1>1, Inductive, PTL

\* An answer 200 means that every event of the delivery is completed.
THEOREM AckedCompleted == Spec => []AckedIsCompleted
<1>1. IInv => AckedIsCompleted
  BY DEF IInv
<1> QED
  BY <1>1, Inductive, PTL

\* No request completes or deletes a claim that another one took over, and
\* no completed row is ever changed.
THEOREM FencedClaims == Spec => ClaimsAreFenced
<1>1. IInv /\ [Next]_vars => [FencedStep]_vars
  BY FencingStep DEF IInv
<1>2. ClaimsAreFenced <=> [][FencedStep]_vars
  BY PTL DEF ClaimsAreFenced, FencedStep
<1> QED
  BY <1>1, <1>2, Inductive, PTL DEF Spec
-----------------------------------------------------------------------------

\* The handler of an event has succeeded before a request completes the event,
\* and so before the row says so.
HandledFirst ==
    /\ \A w \in Workers : worker[w].pc = "complete" => Current(w) \in handled
    /\ \A e \in Events : row[e].state = "completed" => e \in handled

Completed == {e \in Events : row[e].state = "completed"}

\* What a step does to the table, seen from the set of completed events.
LEMMA CompletedStep ==
    ASSUME TypeOK, AllPlaced, [Next]_vars
    PROVE  \/ Completed' = Completed
           \/ \E w \in Workers :
                /\ worker[w].pc = "complete"
                /\ Current(w) \in Events
                /\ Completed' = Completed \cup {Current(w)}
                /\ UNCHANGED <<handled, acked>>
<1> DEFINE Goal == \/ Completed' = Completed
                   \/ \E w \in Workers :
                        /\ worker[w].pc = "complete"
                        /\ Current(w) \in Events
                        /\ Completed' = Completed \cup {Current(w)}
                        /\ UNCHANGED <<handled, acked>>
<1>1. CASE row' = row
  BY <1>1 DEF Completed
<1>2. ASSUME NEW w \in Workers, CreateClaim(w)
      PROVE  Completed' = Completed
  <2>1. row' = row \/ row[Current(w)].state = "absent"
    BY <1>2 DEF CreateClaim
  <2>2. \A e \in Events : row'[e] = row[e] \/ row'[e].state = "claimed"
    BY <1>2 DEF CreateClaim, TypeOK
  <2>3. \A e \in Events : row'[e] = row[e] \/ row[e].state = "absent"
    BY <1>2, <2>1 DEF CreateClaim, TypeOK
  <2> QED
    BY <2>2, <2>3 DEF Completed
<1>3. ASSUME NEW w \in Workers, StealClaim(w)
      PROVE  Completed' = Completed
  <2>1. \/ row' = row
        \/ row' = [row EXCEPT ![Current(w)] =
                      [row[Current(w)] EXCEPT !.claimedAt = worker[w].stamp]]
    BY <1>3 DEF StealClaim
  <2>2. row[Current(w)] \in Row
    BY <1>3, CurrentIsEvent DEF StealClaim, TypeOK
  <2>3. \A e \in Events : row'[e].state = row[e].state
    BY <2>1, <2>2 DEF TypeOK, Row
  <2> QED
    BY <2>3 DEF Completed
<1>4. ASSUME NEW w \in Workers, CompleteEvent(w)
      PROVE  Goal
  <2>1. Current(w) \in Events /\ worker[w].pc = "complete"
    BY <1>4, CurrentIsEvent DEF CompleteEvent
  <2>2. CASE row' = [row EXCEPT ![Current(w)].state = "completed"]
    <3>1. \A e \in Events : row'[e].state =
             IF e = Current(w) THEN "completed" ELSE row[e].state
      BY <2>2 DEF TypeOK, Row
    <3>2. Completed' = Completed \cup {Current(w)}
      BY <2>1, <3>1 DEF Completed
    <3> QED
      BY <1>4, <2>1, <3>2 DEF CompleteEvent
  <2> QED
    BY <1>1, <1>4, <2>2 DEF CompleteEvent
<1>5. ASSUME NEW w \in Workers, ReleaseClaim(w)
      PROVE  Completed' = Completed
  <2>1. row' = row \/ row[Current(w)].state = "claimed"
    BY <1>5 DEF ReleaseClaim, HasClaim
  <2>2. \A e \in Events : row'[e] = row[e] \/ row'[e].state = "absent"
    BY <1>5 DEF ReleaseClaim, NoRow, TypeOK
  <2>3. \A e \in Events : row'[e] = row[e] \/ row[e].state = "claimed"
    BY <1>5, <2>1 DEF ReleaseClaim, TypeOK
  <2> QED
    BY <2>2, <2>3 DEF Completed
<1> QED
  BY <1>1, <1>2, <1>3, <1>4, <1>5 DEF Next, Step, vars, Tick, Receive,
     ReadClaim, HandleEvent, Answer, HandlerError, DatabaseError, Crash

\* Only a handler that returns adds to the handled events.
LEMMA HandledGrows ==
    ASSUME TypeOK, AllPlaced, [Next]_vars
    PROVE  \/ handled' = handled
           \/ \E w \in Workers :
                /\ HandleEvent(w)
                /\ Current(w) \in Events
BY CurrentIsEvent DEF Next, Step, vars, Tick, Receive, CreateClaim, ReadClaim,
   StealClaim, HandleEvent, CompleteEvent, ReleaseClaim, Answer, HandlerError,
   DatabaseError, Crash

LEMMA HandledStep ==
    ASSUME TypeOK, AllPlaced, HandledFirst, [Next]_vars
    PROVE  HandledFirst'
<1>1. handled \subseteq handled'
  BY HandledGrows DEF HandleEvent
<1>2. ASSUME NEW e \in Events, row'[e].state = "completed"
      PROVE  e \in handled'
  <2>1. e \in Completed'
    BY <1>2 DEF Completed
  <2>2. Completed \subseteq handled
    BY DEF Completed, HandledFirst
  <2> QED
    BY <1>1, <2>1, <2>2, CompletedStep DEF HandledFirst
<1>3. ASSUME NEW v \in Workers, worker'[v].pc = "complete"
      PROVE  Current(v)' \in handled'
  <2>1. CASE worker'[v] = worker[v]
    BY <1>1, <1>3, <2>1 DEF HandledFirst, Current
  <2>2. CASE worker'[v] # worker[v]
    <3>1. ~(Tick \/ UNCHANGED vars)
      BY <2>2 DEF Tick, vars
    <3>2. PICK w \in Workers :
            \/ \E d \in Deliveries : Receive(w, d)
            \/ Step(w) \/ HandlerError(w) \/ DatabaseError(w) \/ Crash(w)
      BY <3>1 DEF Next
    <3>3. w = v
      BY <2>2, <3>2, OthersKeep
    <3>4. worker[v] \in Worker
      BY DEF TypeOK
    <3>5. CASE HandleEvent(v)
      <4>1. worker'[v] = [worker[v] EXCEPT !.pc = "complete"]
        BY <3>5 DEF HandleEvent, Goto, TypeOK
      <4>2. Current(v)' = Current(v)
        BY <3>4, <4>1 DEF Current, Worker
      <4> QED
        BY <3>5, <4>2 DEF HandleEvent
    <3>6. CASE \/ CreateClaim(v) \/ Answer(v) \/ HandlerError(v) \/ Crash(v)
               \/ \E d \in Deliveries : Receive(v, d)
      BY <1>3, <3>4, <3>6 DEF CreateClaim, Answer, HandlerError, Crash,
         Receive, Idle, Goto, TypeOK, Worker
    <3>7. CASE \/ ReadClaim(v) \/ StealClaim(v) \/ CompleteEvent(v)
               \/ ReleaseClaim(v) \/ DatabaseError(v)
      <4>1. \A b \in BOOLEAN : Advance(v, b).pc # "complete"
        BY <3>7, AdvanceFields DEF ReadClaim, StealClaim, CompleteEvent,
           ReleaseClaim, DatabaseError
      <4>2. CASE ReadClaim(v)
        <5>1. \/ worker'[v] = Advance(v, row[Current(v)].state # "completed")
              \/ worker'[v] = [worker[v] EXCEPT !.pc = "steal",
                                  !.seen = row[Current(v)].claimedAt]
          BY <4>2 DEF ReadClaim, TypeOK
        <5> QED
          BY <1>3, <3>4, <4>1, <5>1 DEF Worker
      <4>3. CASE \/ StealClaim(v) \/ CompleteEvent(v) \/ ReleaseClaim(v)
                 \/ DatabaseError(v)
        <5>1. \/ worker'[v] = Advance(v, TRUE)
              \/ worker'[v] = Advance(v, FALSE)
              \/ worker'[v].pc \in {"handle", "release"}
          BY <4>3, AdvanceOrGoto
        <5> QED
          BY <1>3, <4>1, <5>1
      <4> QED
        BY <1>3, <3>7, <4>1, <4>2, <4>3
    <3> QED
      BY <3>2, <3>3, <3>5, <3>6, <3>7 DEF Step
  <2> QED
    BY <2>1, <2>2
<1> QED
  BY <1>2, <1>3 DEF HandledFirst

\* Every step of the endpoint is a step of the abstract inbox, or none.
LEMMA InboxStep ==
    IInv /\ HandledFirst /\ [Next]_vars => [Inbox!Next]_(Inbox!vars)
<1> SUFFICES ASSUME IInv, HandledFirst, [Next]_vars
             PROVE  Inbox!Next \/ UNCHANGED <<handled, Completed, acked>>
  BY DEF Inbox!vars, Completed
<1> USE DEF IInv
<1>1. ASSUME NEW w \in Workers, HandleEvent(w)
      PROVE  Inbox!Next
  <2>1. Current(w) \in Events
    BY <1>1, CurrentIsEvent DEF HandleEvent
  <2>2. Inbox!Handle(Current(w))
    BY <1>1 DEF HandleEvent, Inbox!Handle
  <2> QED
    BY <2>1, <2>2 DEF Inbox!Next
<1>2. ASSUME NEW w \in Workers, Answer(w), ~worker[w].failed
      PROVE  Inbox!Next
  <2> DEFINE d == worker[w].delivery
  <2>1. /\ d \in Deliveries
        /\ worker[w].pos = Len(Batch[d]) + 1
        /\ Batch[d] \in Seq(Events)
        /\ Len(Batch[d]) \in Nat
    BY <1>2, ClaimsAssumption DEF Answer, AllPlaced, Placed
  <2>2. \A i \in 1 .. Len(Batch[d]) : row[Batch[d][i]].state = "completed"
    BY <1>2, <2>1 DEF Answer, PassedIsCompleted, Passed
  <2>3. Inbox!Range(Batch[d]) \subseteq Completed
    BY <2>1, <2>2 DEF Inbox!Range, Completed
  <2>4. Inbox!Acknowledge(d)
    BY <1>2, <2>3 DEF Answer, Inbox!Acknowledge, Completed
  <2> QED
    BY <2>1, <2>4 DEF Inbox!Next
<1>3. ASSUME NEW w \in Workers, worker[w].pc = "complete",
             Current(w) \in Events,
             Completed' = Completed \cup {Current(w)},
             UNCHANGED <<handled, acked>>
      PROVE  Inbox!Next
  <2>1. Inbox!Settle(Current(w))
    BY <1>3 DEF HandledFirst, Inbox!Settle, Completed
  <2> QED
    BY <1>3, <2>1 DEF Inbox!Next, Inbox!Settle
<1>4. CASE Completed' = Completed
  <2>1. CASE handled' # handled
    BY <1>1, <2>1, HandledGrows
  <2>2. CASE acked' # acked
    <3>1. PICK w \in Workers : Answer(w)
      BY <2>2 DEF Next, Step, vars, Tick, Receive, CreateClaim, ReadClaim,
         StealClaim, HandleEvent, CompleteEvent, ReleaseClaim, HandlerError,
         DatabaseError, Crash
    <3> QED
      BY <1>2, <2>2, <3>1 DEF Answer
  <2> QED
    BY <1>4, <2>1, <2>2
<1> QED
  BY <1>3, <1>4, CompletedStep

\* The shared table of claims implements the inbox: an event is settled only
\* after its handler succeeded, no settled event is forgotten, and a delivery
\* is answered 200 only when every event it carries is settled.
THEOREM InboxImplemented == Spec => ImplementsInbox
<1>1. Init => HandledFirst
  BY DEF Init, HandledFirst, Idle, NoRow
<1>2. IInv /\ HandledFirst /\ [Next]_vars => HandledFirst'
  BY HandledStep DEF IInv
<1>3. Init => Inbox!Init
  BY DEF Init, Inbox!Init, NoRow
<1>4. Spec => [](IInv /\ HandledFirst)
  BY <1>1, <1>2, Inductive, PTL DEF Spec
<1>5. Spec => [][Inbox!Next]_(Inbox!vars)
  BY <1>4, InboxStep, PTL DEF Spec
<1> QED
  BY <1>3, <1>5, PTL DEF Spec, ImplementsInbox
=============================================================================
