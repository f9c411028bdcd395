---------------------- MODULE ElectronicInvoicingProofs ----------------------
(***************************************************************************)
(* Proofs about ElectronicInvoicing and its SuperPdpConnection, for any    *)
(* users, invoices, sales and payments, and any bounds.                    *)
(***************************************************************************)
EXTENDS ElectronicInvoicing, SequenceTheorems, TLAPS

Status == {"PENDING", "SUBMITTING", "SUBMITTED", "SETTLED", "FAILED"}

Row == [status : Status, id : Nat]

WorkPcs == {"create", "refuse", "mark", "post", "failed", "save", "sync", "get"}

TokenPcs == {"tokens", "refresh", "storeTokens"}

Pcs == WorkPcs \cup TokenPcs \cup {"idle", "storeGrant", "refused", "profile"}

TaskRecord ==
    [pc : Pcs, then : {"idle", "profile", "post", "get"}, caught : BOOLEAN,
     token : 0..MaxRotations, key : Keys \cup {"none"}, row : Nat,
     seen : Status \cup {"none"}, id : Nat]

ConnRecord ==
    [active : BOOLEAN, refresh : 1..MaxRotations, fresh : BOOLEAN]

\* The rows, the connection and what is counted.
World ==
    /\ conn \in ConnRecord
    /\ granted \in 1..MaxRotations
    /\ conn.refresh <= granted
    /\ tokenLost \in BOOLEAN
    /\ rows \in [Keys -> Seq(Row)]
    /\ posted \in [Keys -> Nat]
    /\ history \in [Keys -> SUBSET {"blind", "overlapped", "refused"}]
    /\ \A k \in Keys : \A i \in 1..Len(rows[k]) : rows[k][i].id <= posted[k]
    /\ \A k \in Invoices \cup Payments : Len(rows[k]) <= 1

\* Where a task is, or goes on when it has its access token.
At(r) == IF r.pc \in TokenPcs THEN r.then ELSE r.pc

\* What a task holds: a key, a row of it, a token SuperPDP has given.
Holds(r) ==
    /\ r.pc = "idle" => r = IdleTask
    /\ r.pc \in TokenPcs => r.then # "idle"
    /\ At(r) \in WorkPcs \/ r.caught => r.key \in Keys
    /\ At(r) \in {"refuse", "sync", "get"} => r.key \in Invoices
    /\ At(r) = "sync" => Len(rows[r.key]) # 0
    /\ r.row # 0 => r.key \in Keys /\ r.row \in 1..Len(rows[r.key])
    /\ At(r) \in {"mark", "post", "failed", "save", "get"} => r.row # 0
    /\ r.caught => r.row # 0 /\ At(r) \in {"post", "failed", "save", "refused"}
    /\ At(r) \in {"post", "failed", "save"} => r.caught
    /\ r.pc = "save" => r.id \in 1..posted[r.key]
    /\ At(r) = "get" => r.seen \in Status
    /\ r.token <= granted
    /\ r.pc \in {"storeGrant", "storeTokens", "refresh"} => r.token # 0

Shape ==
    /\ World
    /\ task \in [Tasks -> TaskRecord]
    /\ \A t \in Tasks : Holds(task[t])

\* Rows, submissions and tokens only become more.
Grew ==
    /\ \A k \in Keys : Len(rows[k]) <= Len(rows'[k]) /\ posted[k] <= posted'[k]
    /\ granted <= granted'

\* As long as no token was lost, either none is being stored and the row has
\* the one SuperPDP accepts, or the only one that is being stored is that one.
TokenKept ==
    ~tokenLost =>
        /\ \/ Storing = {} /\ conn.refresh = granted
           \/ \E t \in Tasks : /\ Storing = {t}
                               /\ task[t].token = granted
                               /\ conn.refresh < granted
        /\ \A t \in Tasks : task[t].pc = "refresh" => task[t].token <= conn.refresh

\* What a submission knows of its key, as long as no other overlapped it.
Alone(k) ==
    "overlapped" \notin history[k] =>
        /\ \A t, u \in Sending(k) : t = u
        /\ Len(rows[k]) <= 1
        /\ \A t \in Sending(k) :
             /\ task[t].pc = "create" => rows[k] = <<>>
             /\ k \in Invoices /\ (task[t].caught \/ task[t].pc = "mark")
                  => rows[k][task[t].row].id = 0

\* What was posted is about to be saved or is known, unless an answer was lost
\* or submissions overlapped; who is about to submit has posted nothing.
Once(k) ==
    history[k] \cap {"blind", "overlapped"} = {} =>
        /\ posted[k] # 0 =>
             /\ posted[k] = 1
             /\ \/ \E t \in Tasks : task[t].pc = "save" /\ task[t].key = k
                \/ rows[k] # <<>> /\ Submitted(k, rows[k][1])
        /\ \A t \in Sending(k) : task[t].pc \notin {"save", "refuse"} => posted[k] = 0

\* A status that was read as FAILED, of an invoice whose number is known.
SeenFailed ==
    \A t \in Tasks : At(task[t]) = "get" /\ task[t].seen = "FAILED"
        => history[task[t].key] \cap {"refused", "overlapped"} # {}

Followed ==
    /\ \A k \in Keys : Alone(k) /\ Once(k)
    /\ SeenFailed
    /\ KnownIsFollowed

-----------------------------------------------------------------------------

\* A row that is written.
LEMMA RowWritten ==
    ASSUME NEW s \in Seq(Row), NEW i \in 1..Len(s), NEW v \in Row
    PROVE  /\ [s EXCEPT ![i] = v] \in Seq(Row)
           /\ Len([s EXCEPT ![i] = v]) = Len(s)
           /\ \A j \in 1..Len(s) : [s EXCEPT ![i] = v][j] = IF j = i THEN v ELSE s[j]
BY ExceptSeq

\* A row that is added.
LEMMA RowAdded ==
    ASSUME NEW s \in Seq(Row), NEW v \in Row
    PROVE  /\ Append(s, v) \in Seq(Row)
           /\ Len(Append(s, v)) = Len(s) + 1
           /\ \A j \in 1..Len(s) : Append(s, v)[j] = s[j]
           /\ Append(s, v)[Len(s) + 1] = v
BY AppendProperties

LEMMA IdleHolds ==
    /\ IdleTask \in TaskRecord
    /\ World => Holds(IdleTask)
<1>1. 0 \in 0..MaxRotations
  BY ConnectionAssumption
<1>2. World => 0 <= granted
  BY ConnectionAssumption DEF World
<1>3. IdleTask \in TaskRecord
  BY <1>1 DEF IdleTask, TaskRecord, Pcs
<1>4. /\ IdleTask.pc = "idle" /\ At(IdleTask) = "idle" /\ IdleTask.row = 0
      /\ ~IdleTask.caught /\ IdleTask.token = 0
  BY DEF IdleTask, At, TokenPcs
<1> QED
  BY <1>2, <1>3, <1>4 DEF Holds, WorkPcs, TokenPcs

\* What the other tasks hold, they still hold when rows, submissions and
\* tokens have become more.
LEMMA HoldsKept ==
    ASSUME World, World', Grew, NEW r \in TaskRecord, Holds(r)
    PROVE  Holds(r)'
<1>1. ASSUME r.key \in Keys
      PROVE  /\ Len(rows[r.key]) \in Nat /\ Len(rows'[r.key]) \in Nat
             /\ Len(rows[r.key]) <= Len(rows'[r.key])
             /\ posted[r.key] \in Nat /\ posted'[r.key] \in Nat
             /\ posted[r.key] <= posted'[r.key]
  BY <1>1 DEF World, Grew
<1>2. r.token <= granted /\ r.token \in Nat => r.token <= granted'
  BY DEF World, Grew
<1>3. r.token \in Nat /\ r.row \in Nat /\ r.id \in Nat
  BY ConnectionAssumption DEF TaskRecord
<1>4. Invoices \subseteq Keys
  BY DEF Keys
<1>5. r.row # 0 => r.row \in 1..Len(rows'[r.key])
  BY <1>1, <1>3 DEF Holds
<1>6. r.pc = "save" => r.id \in 1..posted'[r.key]
  BY <1>1, <1>3 DEF Holds, At, TokenPcs, WorkPcs
<1>7. At(r) = "sync" => Len(rows'[r.key]) # 0
  BY <1>1, <1>4 DEF Holds
<1> QED
  BY <1>2, <1>3, <1>5, <1>6, <1>7 DEF Holds, At

-----------------------------------------------------------------------------

\* A step of the connection.
LEMMA ConnectionWorld ==
    ASSUME World, conn' \in ConnRecord, granted' \in 1..MaxRotations,
           granted <= granted', conn'.refresh <= granted', tokenLost' \in BOOLEAN,
           UNCHANGED Others
    PROVE  World' /\ Grew
<1>1. \A k \in Keys : Len(rows[k]) \in Nat /\ posted[k] \in Nat
  BY DEF World
<1> QED
  BY <1>1 DEF World, Grew, Others

\* A step that writes the rows of one key.
LEMMA RowsWorld ==
    ASSUME World, UNCHANGED <<conn, granted, tokenLost, posted>>,
           history' \in [Keys -> SUBSET {"blind", "overlapped", "refused"}],
           NEW k \in Keys, NEW s \in Seq(Row), rows' = [rows EXCEPT ![k] = s],
           Len(rows[k]) <= Len(s),
           \A i \in 1..Len(s) : s[i].id <= posted[k],
           k \in Invoices \cup Payments => Len(s) <= 1
    PROVE  World' /\ Grew
<1>1. \A j \in Keys : Len(rows[j]) \in Nat /\ posted[j] \in Nat
  BY DEF World
<1>2. \A j \in Keys : rows'[j] = IF j = k THEN s ELSE rows[j]
  BY DEF World
<1>3. rows' \in [Keys -> Seq(Row)]
  BY DEF World
<1>4. granted <= granted'
  BY DEF World
<1>5. \A j \in Keys : \A i \in 1..Len(rows'[j]) : rows'[j][i].id <= posted[j]
  BY <1>2 DEF World
<1>6. \A j \in Invoices \cup Payments : Len(rows'[j]) <= 1
  <2>1. Invoices \cup Payments \subseteq Keys
    BY DEF Keys
  <2> QED
    BY <1>2, <2>1 DEF World
<1>7. Grew
  BY <1>1, <1>2, <1>4 DEF Grew
<1> QED
  BY <1>3, <1>5, <1>6, <1>7 DEF World

\* A status, or a number of a submission, is written to one row.
LEMMA RowWorld ==
    ASSUME World, UNCHANGED <<conn, granted, tokenLost, posted>>,
           history' \in [Keys -> SUBSET {"blind", "overlapped", "refused"}],
           NEW k \in Keys, NEW i \in 1..Len(rows[k]), NEW v \in Row,
           rows' = [rows EXCEPT ![k][i] = v],
           v.id <= posted[k]
    PROVE  World' /\ Grew
<1> DEFINE s == [rows[k] EXCEPT ![i] = v]
<1>1. rows[k] \in Seq(Row)
  BY DEF World
<1>2. /\ s \in Seq(Row) /\ Len(s) = Len(rows[k])
      /\ \A j \in 1..Len(rows[k]) : s[j] = IF j = i THEN v ELSE rows[k][j]
  BY <1>1, RowWritten
<1>3. rows' = [rows EXCEPT ![k] = s]
  OBVIOUS
<1> HIDE DEF s
<1>4. \A j \in 1..Len(s) : s[j].id <= posted[k]
  BY <1>2 DEF World
<1>5. Len(rows[k]) <= Len(s) /\ (k \in Invoices \cup Payments => Len(s) <= 1)
  BY <1>1, <1>2, LenProperties DEF World
<1> QED
  BY <1>2, <1>3, <1>4, <1>5, RowsWorld

LEMMA StatusWorld ==
    ASSUME World, UNCHANGED <<conn, granted, tokenLost, posted>>,
           history' \in [Keys -> SUBSET {"blind", "overlapped", "refused"}],
           NEW k \in Keys, NEW i \in 1..Len(rows[k]), NEW status \in Status,
           rows' = [rows EXCEPT ![k][i].status = status]
    PROVE  World' /\ Grew
<1> DEFINE v == [rows[k][i] EXCEPT !.status = status]
<1>1. rows[k] \in Seq(Row) /\ rows[k][i] \in Row /\ rows[k][i].id <= posted[k]
  BY ElementOfSeq DEF World
<1>2. v \in Row /\ v.id = rows[k][i].id
  BY <1>1 DEF Row
<1>3. rows' = [rows EXCEPT ![k][i] = v]
  OBVIOUS
<1> HIDE DEF v
<1> QED
  BY <1>1, <1>2, <1>3, RowWorld

LEMMA HistoryTyped ==
    ASSUME World, NEW k \in Keys, NEW what \in {"blind", "overlapped", "refused"},
           Happened(k, what)
    PROVE  history' \in [Keys -> SUBSET {"blind", "overlapped", "refused"}]
BY DEF World, Happened

-----------------------------------------------------------------------------

\* One task goes on; the others hold what they held.
LEMMA TaskMoves ==
    ASSUME Shape, World', Grew, NEW t \in Tasks, NEW r \in TaskRecord, Holds(r)',
           task' = [task EXCEPT ![t] = r]
    PROVE  Shape'
<1>1. \A u \in Tasks : task'[u] = IF u = t THEN r ELSE task[u]
  BY DEF Shape
<1>2. ASSUME NEW u \in Tasks, u # t PROVE Holds(task[u])'
  <2>1. task[u] \in TaskRecord /\ Holds(task[u]) /\ task'[u] = task[u]
    BY <1>1, <1>2 DEF Shape
  <2>2. \E x \in TaskRecord : task'[u] = x /\ Holds(x)'
    BY <2>1, HoldsKept DEF Shape
  <2> QED
    BY <2>2 DEF Holds, At
<1>3. Holds(task[t])'
  <2>1. task'[t] = r
    BY <1>1
  <2> QED
    BY <2>1 DEF Holds, At
<1>4. task' \in [Tasks -> TaskRecord]
  BY DEF Shape
<1> QED
  BY <1>2, <1>3, <1>4 DEF Shape

LEMMA TaskEnds ==
    ASSUME Shape, World', Grew, NEW t \in Tasks, Done(t)
    PROVE  Shape'
<1>1. Holds(IdleTask)'
  <2>1. 0 <= granted'
    BY ConnectionAssumption DEF World
  <2>2. /\ IdleTask.pc = "idle" /\ At(IdleTask)' = "idle" /\ IdleTask.row = 0
        /\ ~IdleTask.caught /\ IdleTask.token = 0
    BY DEF IdleTask, At, TokenPcs
  <2> QED
    BY <2>1, <2>2 DEF Holds, WorkPcs, TokenPcs
<1> QED
  BY <1>1, IdleHolds, TaskMoves DEF Done

\* A step that changes no row and no token.
LEMMA QuietWorld ==
    ASSUME World, UNCHANGED <<conn, granted, tokenLost, rows, posted>>,
           history' \in [Keys -> SUBSET {"blind", "overlapped", "refused"}]
    PROVE  World' /\ Grew
<1>1. \A k \in Keys : Len(rows[k]) \in Nat /\ posted[k] \in Nat
  BY DEF World
<1> QED
  BY <1>1 DEF World, Grew

\* A task goes on, and nothing it holds has changed.
LEMMA QuietMove ==
    ASSUME Shape, UNCHANGED <<conn, granted, tokenLost, rows, posted>>,
           history' \in [Keys -> SUBSET {"blind", "overlapped", "refused"}],
           NEW t \in Tasks, NEW r \in TaskRecord, Holds(r),
           task' = [task EXCEPT ![t] = r]
    PROVE  Shape'
<1>1. World' /\ Grew
  BY QuietWorld DEF Shape
<1>2. Holds(r)'
  BY <1>1, HoldsKept DEF Shape
<1> QED
  BY <1>1, <1>2, TaskMoves

LEMMA StartSendShape ==
    ASSUME Shape, NEW t \in Tasks, NEW k \in Keys, StartSend(t, k)
    PROVE  Shape'
<1>1. task[t] = IdleTask /\ task \in [Tasks -> TaskRecord]
  BY DEF Shape, Holds, StartSend, Idle
<1>2. history' \in [Keys -> SUBSET {"blind", "overlapped", "refused"}]
  BY HistoryTyped DEF StartSend, Shape, World
<1>3. UNCHANGED <<conn, granted, tokenLost, rows, posted>>
  BY DEF StartSend
<1>4. rows[k] \in Seq(Row) /\ DOMAIN rows[k] = 1..Len(rows[k]) /\ Len(rows[k]) \in Nat
  BY LenProperties DEF Shape, World
<1>5. PICK i \in IF rows[k] = <<>> THEN {0} ELSE DOMAIN rows[k] :
        LET known == IF i = 0 THEN FALSE ELSE Submitted(k, rows[k][i]) IN
        \/ /\ k \in Invoices
           /\ task' = [task EXCEPT ![t].pc = "refuse", ![t].key = k, ![t].row = i]
        \/ /\ known
           /\ task' = IF k \in Invoices
                      THEN [task EXCEPT ![t].pc = "sync", ![t].key = k] ELSE task
        \/ /\ ~known
           /\ task' = [task EXCEPT ![t].pc = IF i = 0 THEN "create" ELSE "mark",
                                   ![t].key = k, ![t].row = i]
  BY DEF StartSend
<1>6. i \in Nat /\ (i # 0 => i \in 1..Len(rows[k]))
  BY <1>4, <1>5
<1>7. ASSUME NEW p \in {"refuse", "sync", "create", "mark"}, NEW j \in {0, i},
             NEW r \in TaskRecord,
             r.pc = p, r.key = k, r.row = j, ~r.caught, r.token = 0,
             p \in {"refuse", "sync"} => k \in Invoices,
             p = "sync" => Len(rows[k]) # 0,
             p = "mark" => j # 0,
             task' = [task EXCEPT ![t] = r]
      PROVE  Shape'
  <2>1. At(r) = p
    BY <1>7 DEF At, TokenPcs
  <2>2. 0 <= granted
    BY ConnectionAssumption DEF Shape, World
  <2>3. Holds(r)
    BY <1>6, <1>7, <2>1, <2>2 DEF Holds, TokenPcs, WorkPcs
  <2> QED
    BY <1>2, <1>3, <1>7, <2>3, QuietMove
<1>8. CASE task' = task
  <2>1. task' = [task EXCEPT ![t] = IdleTask]
    BY <1>1, <1>8
  <2> QED
    BY <1>2, <1>3, <2>1, IdleHolds, QuietMove DEF Shape
<1>9. ASSUME NEW p \in {"refuse", "create", "mark"},
             p = "refuse" => k \in Invoices,
             p = "mark" => i # 0,
             task' = [task EXCEPT ![t].pc = p, ![t].key = k, ![t].row = i]
      PROVE  Shape'
  <2> DEFINE r == [IdleTask EXCEPT !.pc = p, !.key = k, !.row = i]
  <2>1. r \in TaskRecord
    BY <1>6, IdleHolds DEF TaskRecord, Pcs, WorkPcs
  <2>2. r.pc = p /\ r.key = k /\ r.row = i /\ ~r.caught /\ r.token = 0
    BY DEF IdleTask
  <2>3. task' = [task EXCEPT ![t] = r]
    BY <1>1, <1>9
  <2> QED
    BY <1>7, <1>9, <2>1, <2>2, <2>3
<1>10. ASSUME k \in Invoices, i # 0,
              task' = [task EXCEPT ![t].pc = "sync", ![t].key = k]
       PROVE  Shape'
  <2> DEFINE r == [IdleTask EXCEPT !.pc = "sync", !.key = k]
  <2>1. r \in TaskRecord
    BY IdleHolds DEF TaskRecord, Pcs, WorkPcs
  <2>2. r.pc = "sync" /\ r.key = k /\ r.row = 0 /\ ~r.caught /\ r.token = 0
    BY DEF IdleTask
  <2>3. task' = [task EXCEPT ![t] = r]
    BY <1>1, <1>10
  <2>4. Len(rows[k]) # 0
    BY <1>4, <1>6, <1>10
  <2> QED
    BY <1>7, <1>10, <2>1, <2>2, <2>3, <2>4
<1> QED
  BY <1>5, <1>8, <1>9, <1>10

LEMMA TaskFields ==
    ASSUME Shape, NEW t \in Tasks
    PROVE  /\ task \in [Tasks -> TaskRecord]
           /\ task[t] \in TaskRecord
           /\ Holds(task[t])
           /\ task[t].pc \in Pcs
           /\ task[t].then \in {"idle", "profile", "post", "get"}
           /\ task[t].caught \in BOOLEAN
           /\ task[t].token \in Nat
           /\ task[t].row \in Nat
           /\ task[t].id \in Nat
           /\ granted \in Nat
BY ConnectionAssumption DEF Shape, TaskRecord, World

LEMMA TaskTyped ==
    ASSUME Shape, NEW t \in Tasks
    PROVE  task[t] \in TaskRecord
BY DEF Shape

LEMMA PcNames == {"mark", "failed", "save", "tokens", "refresh"} \subseteq Pcs
BY DEF Pcs, WorkPcs, TokenPcs

\* A task goes on with what it held before the step.
LEMMA TaskMovesOn ==
    ASSUME Shape, World', Grew, NEW t \in Tasks, NEW r \in TaskRecord, Holds(r),
           task' = [task EXCEPT ![t] = r]
    PROVE  Shape'
<1>1. Holds(r)'
  BY HoldsKept DEF Shape
<1> QED
  BY <1>1, TaskMoves

LEMMA StartSyncShape ==
    ASSUME Shape, NEW t \in Tasks, NEW k \in Keys, StartSync(t, k)
    PROVE  Shape'
<1> DEFINE r == [IdleTask EXCEPT !.pc = "sync", !.key = k]
<1>1. r \in TaskRecord
  BY IdleHolds DEF TaskRecord, Pcs, WorkPcs
<1>2. r.pc = "sync" /\ r.key = k /\ r.row = 0 /\ ~r.caught /\ r.token = 0
  BY DEF IdleTask
<1>3. task[t] = IdleTask
  BY DEF Shape, Holds, StartSync, Idle
<1>4. task' = [task EXCEPT ![t] = r]
  BY <1>3 DEF StartSync, Shape
<1>5. k \in Invoices /\ Len(rows[k]) # 0
  <2>1. rows[k] \in Seq(Row) /\ rows[k] # <<>>
    BY DEF StartSync, Shape, World
  <2> QED
    BY <2>1, EmptySeq DEF StartSync
<1> HIDE DEF r
<1>6. Holds(r)
  BY <1>2, <1>5, TaskFields DEF Holds, At, TokenPcs, WorkPcs
<1>7. history' \in [Keys -> SUBSET {"blind", "overlapped", "refused"}]
  BY DEF Shape, World, StartSync
<1> QED
  BY <1>1, <1>4, <1>6, <1>7, QuietMove DEF StartSync

LEMMA SyncShape ==
    ASSUME Shape, NEW t \in Tasks, Sync(t)
    PROVE  Shape'
<1> DEFINE k == task[t].key
<1> DEFINE r == [task[t] EXCEPT !.pc = "tokens", !.then = "get", !.row = 1,
                                !.seen = rows[k][1].status]
<1>1. /\ task[t].pc = "sync" /\ At(task[t]) = "sync" /\ ~task[t].caught
      /\ k \in Invoices /\ k \in Keys /\ Len(rows[k]) # 0
  BY TaskFields DEF Sync, Holds, At, TokenPcs, Keys
<1>2. rows[k] \in Seq(Row) /\ 1 \in 1..Len(rows[k])
  BY <1>1, LenProperties DEF Shape, World
<1>3. rows[k][1].status \in Status
  <2>1. rows[k][1] \in Row
    BY <1>2, ElementOfSeq
  <2> QED
    BY <2>1 DEF Row
<1>4. r \in TaskRecord
  BY <1>3, TaskTyped, PcNames DEF TaskRecord
<1>5. /\ r.pc = "tokens" /\ r.then = "get" /\ r.row = 1 /\ r.seen \in Status
      /\ r.key = k /\ ~r.caught /\ r.token = task[t].token
  BY <1>1, <1>3, TaskFields DEF TaskRecord
<1>6. task[t].token <= granted
  BY TaskFields DEF Holds
<1>7. CASE rows[k][1].id = 0
  BY <1>7, QuietWorld, TaskEnds DEF Sync, Done, Shape, World
<1>8. CASE rows[k][1].id # 0
  <2>1. task' = [task EXCEPT ![t] = r]
    BY <1>8 DEF Sync, TokenThen
  <2> HIDE DEF r
  <2>2. At(r) = "get"
    BY <1>5 DEF At, TokenPcs
  <2>3. Holds(r)
    BY <1>1, <1>2, <1>5, <1>6, <2>2 DEF Holds, TokenPcs
  <2>4. history' \in [Keys -> SUBSET {"blind", "overlapped", "refused"}]
    BY DEF Shape, World, Sync
  <2> QED
    BY <1>4, <2>1, <2>3, <2>4, QuietMove DEF Sync
<1> QED
  BY <1>7, <1>8

LEMMA CreateShape ==
    ASSUME Shape, NEW t \in Tasks, Create(t)
    PROVE  Shape'
<1>1. PICK k : k = task[t].key
  OBVIOUS
<1>2. /\ task[t].pc = "create" /\ At(task[t]) = "create" /\ ~task[t].caught
      /\ k \in Keys
  BY <1>1, TaskFields DEF Create, Holds, At, TokenPcs, WorkPcs
<1>3. rows[k] \in Seq(Row) /\ Len(rows[k]) \in Nat
  BY <1>2, LenProperties DEF Shape, World
<1>4. history' \in [Keys -> SUBSET {"blind", "overlapped", "refused"}]
  BY DEF Create, Shape, World
<1>5. CASE Unique(k) /\ rows[k] # <<>>
  <2>1. World' /\ Grew
    BY <1>1, <1>4, <1>5, QuietWorld DEF Create, Shape
  <2> QED
    BY <1>1, <1>5, <2>1, TaskEnds DEF Create
<1>6. CASE ~(Unique(k) /\ rows[k] # <<>>)
  <2>1. NewRow \in Row /\ NewRow.id = 0
    BY DEF NewRow, Row, Status
  <2>2. PICK n \in Nat : n = Len(rows[k]) + 1 /\ n # 0
    BY <1>3
  <2>3. PICK s \in Seq(Row) : /\ s = Append(rows[k], NewRow)
                              /\ Len(s) = n
                              /\ \A j \in 1..Len(rows[k]) : s[j] = rows[k][j]
                              /\ s[n] = NewRow
    BY <1>3, <2>1, <2>2, RowAdded
  <2> DEFINE new == [task[t] EXCEPT !.pc = "mark", !.row = n]
  <2>4. rows' = [rows EXCEPT ![k] = s] /\ task' = [task EXCEPT ![t] = new]
    BY <1>1, <1>6, <2>2, <2>3 DEF Create
  <2>5. new \in TaskRecord
    BY <2>2, TaskTyped, PcNames DEF TaskRecord
  <2>6. /\ new.pc = "mark" /\ new.row = n /\ new.key = k /\ ~new.caught
        /\ new.token = task[t].token
    BY <1>1, <1>2, <2>2, TaskFields DEF TaskRecord
  <2> HIDE DEF new
  <2>r. PICK r \in TaskRecord : r = new
    BY <2>5
  <2>7. \A j \in 1..Len(s) : s[j].id <= posted[k]
    <3>1. posted[k] \in Nat /\ \A j \in 1..Len(rows[k]) : rows[k][j].id <= posted[k]
      BY <1>2 DEF Shape, World
    <3>2. \A j \in 1..Len(s) : j \in 1..Len(rows[k]) \/ j = n
      BY <1>3, <2>2, <2>3
    <3> QED
      BY <2>1, <2>3, <3>1, <3>2
  <2>8. k \in Invoices \cup Payments => Len(s) <= 1
    <3>1. rows[k] = <<>> => Len(rows[k]) = 0
      OBVIOUS
    <3>2. rows[k] = <<>> => Len(s) <= 1
      BY <2>2, <2>3, <3>1
    <3>3. k \in Invoices \cup Payments => rows[k] = <<>>
      BY <1>6, Zenon DEF Unique
    <3> QED
      BY <3>2, <3>3
  <2>9. Len(rows[k]) <= Len(s)
    BY <1>3, <2>2, <2>3
  <2>10. World' /\ Grew
    BY <1>2, <1>4, <2>3, <2>4, <2>7, <2>8, <2>9, RowsWorld DEF Create, Shape
  <2>11. Len(rows'[k]) = n
    BY <1>2, <2>3, <2>4 DEF Shape, World
  <2>12. task[t].token <= granted'
    BY TaskFields DEF Holds, Create
  <2>13. At(r) = "mark"
    BY <2>6, <2>r DEF At, TokenPcs
  <2>14. r.key \in Keys /\ r.row # 0 /\ r.row \in 1..Len(rows'[r.key])
    BY <1>2, <2>2, <2>6, <2>11, <2>r
  <2>15. Holds(r)'
    BY <2>6, <2>12, <2>13, <2>14, <2>r DEF Holds, TokenPcs, At
  <2> QED
    BY <2>4, <2>r, <2>10, <2>15, TaskMoves
<1> QED
  BY <1>5, <1>6

LEMMA RefuseShape ==
    ASSUME Shape, NEW t \in Tasks, Refuse(t)
    PROVE  Shape'
<1> DEFINE k == task[t].key
           i == task[t].row
<1>1. k \in Keys /\ (i # 0 => i \in 1..Len(rows[k]))
  BY TaskFields DEF Refuse, Holds, At, TokenPcs, WorkPcs
<1>2. history' \in [Keys -> SUBSET {"blind", "overlapped", "refused"}]
  BY <1>1, HistoryTyped DEF Refuse, Shape
<1>3. CASE i # 0
  <2>1. World' /\ Grew
    BY <1>1, <1>2, <1>3, StatusWorld DEF Refuse, Shape, Status
  <2> QED
    BY <2>1, TaskEnds DEF Refuse
<1>4. CASE i = 0 /\ rows[k] = <<>>
  <2> DEFINE v == [NewRow EXCEPT !.status = "FAILED"]
  <2>1. v \in Row /\ v.id = 0
    BY DEF NewRow, Row, Status
  <2>2. rows' = [rows EXCEPT ![k] = <<v>>]
    BY <1>4 DEF Refuse
  <2> HIDE DEF v
  <2>3. PICK s \in Seq(Row) : s = <<v>> /\ Len(s) = 1 /\ s[1] = v
    <3>1. <<v>> \in Seq(Row) /\ Len(<<v>>) = 1 /\ <<v>>[1] = v
      BY <2>1
    <3> QED
      BY <3>1, Zenon
  <2>4. \A j \in 1..Len(s) : s[j].id <= posted[k]
    BY <1>1, <2>1, <2>3 DEF Shape, World
  <2>5. Len(rows[k]) = 0
    BY <1>4
  <2>6. Len(rows[k]) <= Len(s) /\ (k \in Invoices \cup Payments => Len(s) <= 1)
    BY <2>3, <2>5
  <2>7. rows' = [rows EXCEPT ![k] = s]
    BY <2>2, <2>3
  <2>8. UNCHANGED <<conn, granted, tokenLost, posted>>
    BY DEF Refuse
  <2>9. World' /\ Grew
    <3> HIDE DEF k
    <3> QED
      BY <1>1, <1>2, <2>4, <2>6, <2>7, <2>8, RowsWorld DEF Shape
  <2> QED
    BY <2>9, TaskEnds DEF Refuse
<1>5. CASE i = 0 /\ rows[k] # <<>>
  <2>1. World' /\ Grew
    BY <1>2, <1>5, QuietWorld DEF Refuse, Shape
  <2> QED
    BY <2>1, TaskEnds DEF Refuse
<1> QED
  BY <1>3, <1>4, <1>5

LEMMA MarkShape ==
    ASSUME Shape, NEW t \in Tasks, Mark(t)
    PROVE  Shape'
<1>1. PICK k : k = task[t].key
  OBVIOUS
<1>2. PICK i : i = task[t].row
  OBVIOUS
<1>3. /\ At(task[t]) = "mark" /\ k \in Keys /\ i # 0 /\ i \in 1..Len(rows[k])
      /\ task[t].token <= granted
  BY <1>1, <1>2, TaskFields DEF Mark, Holds, At, TokenPcs, WorkPcs
<1>4. history' \in [Keys -> SUBSET {"blind", "overlapped", "refused"}]
  BY DEF Mark, Shape, World
<1>5. rows' = [rows EXCEPT ![k][i].status = "SUBMITTING"]
  BY <1>1, <1>2 DEF Mark
<1>6. World' /\ Grew
  BY <1>3, <1>4, <1>5, StatusWorld DEF Mark, Shape, Status
<1>7. ASSUME NEW r \in TaskRecord, task' = [task EXCEPT ![t] = r],
             r.key = k, r.row = i, r.caught, r.token = task[t].token,
             \/ r.pc = "tokens" /\ r.then = "post"
             \/ r.pc = "failed"
      PROVE  Shape'
  <2>1. At(r) \in {"post", "failed"}
    BY <1>7 DEF At, TokenPcs
  <2>2. Holds(r)
    BY <1>3, <1>7, <2>1 DEF Holds, TokenPcs
  <2> QED
    BY <1>6, <1>7, <2>2, TaskMovesOn
<1>8. ASSUME task' = [task EXCEPT ![t] = [TokenThen(@, "post") EXCEPT !.caught = TRUE]]
      PROVE  Shape'
  <2> DEFINE r == [task[t] EXCEPT !.pc = "tokens", !.then = "post", !.caught = TRUE]
  <2>1. r \in TaskRecord
    BY TaskTyped, PcNames DEF TaskRecord
  <2>2. /\ r.key = k /\ r.row = i /\ r.caught /\ r.token = task[t].token
        /\ r.pc = "tokens" /\ r.then = "post"
    BY <1>1, <1>2, TaskFields DEF TaskRecord
  <2>3. task' = [task EXCEPT ![t] = r]
    BY <1>8 DEF TokenThen
  <2> HIDE DEF r
  <2> QED
    BY <1>7, <2>1, <2>2, <2>3
<1>9. ASSUME task' = [task EXCEPT ![t].pc = "failed", ![t].caught = TRUE]
      PROVE  Shape'
  <2> DEFINE r == [task[t] EXCEPT !.pc = "failed", !.caught = TRUE]
  <2>1. r \in TaskRecord
    BY TaskTyped, PcNames DEF TaskRecord
  <2>2. /\ r.key = k /\ r.row = i /\ r.caught /\ r.token = task[t].token
        /\ r.pc = "failed"
    BY <1>1, <1>2, TaskFields DEF TaskRecord
  <2>3. task' = [task EXCEPT ![t] = r]
    BY <1>9
  <2> HIDE DEF r
  <2> QED
    BY <1>7, <2>1, <2>2, <2>3
<1> QED
  BY <1>8, <1>9 DEF Mark

LEMMA GoesToFailed ==
    ASSUME Shape, World', Grew, NEW t \in Tasks, task[t].caught, Goto(t, "failed")
    PROVE  Shape'
<1> DEFINE r == [task[t] EXCEPT !.pc = "failed"]
<1>1. r \in TaskRecord
  BY TaskFields DEF TaskRecord, Pcs, WorkPcs
<1>2. /\ r.key = task[t].key /\ r.row = task[t].row /\ r.caught
      /\ r.token = task[t].token /\ r.pc = "failed"
  BY TaskFields DEF TaskRecord
<1>3. task' = [task EXCEPT ![t] = r]
  BY DEF Goto
<1>4. /\ task[t].row # 0 /\ task[t].key \in Keys /\ task[t].token <= granted
      /\ task[t].row \in 1..Len(rows[task[t].key])
  BY TaskFields DEF Holds
<1> HIDE DEF r
<1>5. At(r) = "failed"
  BY <1>2 DEF At, TokenPcs
<1>6. Holds(r)
  BY <1>2, <1>4, <1>5 DEF Holds, TokenPcs
<1> QED
  BY <1>1, <1>3, <1>6, TaskMovesOn

LEMMA RejectedShape ==
    ASSUME Shape, World', Grew, NEW t \in Tasks, Rejected(t)
    PROVE  Shape'
BY GoesToFailed, TaskEnds DEF Rejected

LEMMA PostShape ==
    ASSUME Shape, NEW t \in Tasks, Post(t)
    PROVE  Shape'
<1>1. PICK k : k = task[t].key
  OBVIOUS
<1>2. PICK i : i = task[t].row
  OBVIOUS
<1>3. /\ At(task[t]) = "post" /\ task[t].caught /\ k \in Keys
      /\ i # 0 /\ i \in 1..Len(rows[k]) /\ task[t].token <= granted
  BY <1>1, <1>2, TaskFields DEF Post, Holds, At, TokenPcs, WorkPcs
<1>4. history' \in [Keys -> SUBSET {"blind", "overlapped", "refused"}]
  BY <1>1, <1>3, HistoryTyped DEF Post, Shape, World
<1>5. posted[k] \in Nat /\ \A j \in Keys : Len(rows[j]) \in Nat /\ posted[j] \in Nat
  BY <1>3 DEF Shape, World
<1>6. CASE UNCHANGED posted /\ Goto(t, "failed")
  <2>1. World' /\ Grew
    BY <1>4, <1>6, QuietWorld DEF Post, Shape
  <2> QED
    BY <1>3, <1>6, <2>1, GoesToFailed
<1>7. ASSUME posted' = [posted EXCEPT ![k] = @ + 1]
      PROVE  World' /\ Grew
  <2>1. \A j \in Keys : posted'[j] = IF j = k THEN posted[k] + 1 ELSE posted[j]
    BY <1>3, <1>7 DEF Shape, World
  <2>2. posted' \in [Keys -> Nat] /\ \A j \in Keys : posted[j] <= posted'[j]
    <3>1. \A j \in Keys : posted'[j] \in Nat /\ posted[j] <= posted'[j]
      BY <1>5, <2>1
    <3>2. posted' \in [Keys -> Nat]
      <4>1. posted[k] + 1 \in Nat /\ posted \in [Keys -> Nat]
        BY <1>5 DEF Shape, World
      <4> QED
        BY <1>7, <4>1
    <3> QED
      BY <3>1, <3>2
  <2>3. \A j \in Keys : \A n \in 1..Len(rows[j]) : rows[j][n].id <= posted'[j]
    <3> SUFFICES ASSUME NEW j \in Keys, NEW n \in 1..Len(rows[j])
                 PROVE  rows[j][n].id <= posted'[j]
      OBVIOUS
    <3>1. rows[j] \in Seq(Row) /\ rows[j][n].id <= posted[j]
      BY DEF Shape, World
    <3>2. rows[j][n] \in Row
      BY <3>1, ElementOfSeq
    <3>3. rows[j][n].id \in Nat
      BY <3>2 DEF Row
    <3> QED
      BY <1>5, <2>2, <3>1, <3>3
  <2>4. UNCHANGED <<conn, granted, tokenLost, rows>>
    BY DEF Post
  <2>5. World'
    BY <1>4, <2>2, <2>3, <2>4 DEF Shape, World
  <2>6. Grew
    BY <1>5, <2>2, <2>4 DEF Grew, Shape, World
  <2> QED
    BY <2>5, <2>6
<1>8. CASE posted' = [posted EXCEPT ![k] = @ + 1] /\ Goto(t, "failed")
  BY <1>3, <1>7, <1>8, GoesToFailed
<1>9. CASE /\ posted' = [posted EXCEPT ![k] = @ + 1]
           /\ task' = [task EXCEPT ![t].pc = "save", ![t].id = posted[k] + 1]
  <2>1. PICK n \in Nat : n = posted[k] + 1
    BY <1>5
  <2> DEFINE new == [task[t] EXCEPT !.pc = "save", !.id = n]
  <2>2. new \in TaskRecord
    BY TaskTyped, PcNames DEF TaskRecord
  <2>3. /\ new.key = k /\ new.row = i /\ new.caught
        /\ new.token = task[t].token /\ new.pc = "save" /\ new.id = n
    BY <1>1, <1>2, <1>3, TaskFields DEF TaskRecord
  <2>4. task' = [task EXCEPT ![t] = new]
    BY <1>9, <2>1
  <2> HIDE DEF new
  <2>5. PICK r \in TaskRecord : r = new
    BY <2>2
  <2>6. At(r) = "save"
    BY <2>3, <2>5 DEF At, TokenPcs
  <2>7. n \in 1..posted'[k]
    BY <1>3, <1>5, <1>9, <2>1 DEF Shape, World
  <2>8. rows' = rows /\ granted' = granted
    BY DEF Post
  <2>9. Holds(r)'
    BY <1>3, <2>3, <2>5, <2>6, <2>7, <2>8 DEF Holds, TokenPcs, At
  <2> QED
    BY <1>7, <1>9, <2>4, <2>5, <2>9, TaskMoves
<1> QED
  BY <1>1, <1>6, <1>8, <1>9 DEF Post

LEMMA SaveShape ==
    ASSUME Shape, NEW t \in Tasks, Save(t)
    PROVE  Shape'
<1>1. PICK k : k = task[t].key
  OBVIOUS
<1>2. PICK i : i = task[t].row
  OBVIOUS
<1>3. /\ At(task[t]) = "save" /\ k \in Keys /\ i # 0 /\ i \in 1..Len(rows[k])
      /\ task[t].id \in 1..posted[k] /\ i \in Nat
  BY <1>1, <1>2, TaskFields DEF Save, Holds, At, TokenPcs, WorkPcs
<1>4. history' \in [Keys -> SUBSET {"blind", "overlapped", "refused"}]
  BY <1>1, <1>3, HistoryTyped DEF Save, Shape, World
<1>5. posted[k] \in Nat /\ rows[k] \in Seq(Row) /\ Len(rows[k]) \in Nat
  BY <1>3, LenProperties DEF Shape, World
<1>6. PICK v \in Row : /\ v = [status |-> "SUBMITTED", id |-> task[t].id]
                       /\ v.id <= posted[k]
  <2> DEFINE v == [status |-> "SUBMITTED", id |-> task[t].id]
  <2>1. v \in Row /\ v.id <= posted[k]
    BY <1>3, <1>5 DEF Row, Status
  <2> QED
    BY <2>1, Zenon
<1>7. ASSUME rows' = [rows EXCEPT ![k][i] = v] PROVE World' /\ Grew
  BY <1>3, <1>4, <1>6, <1>7, RowWorld DEF Save, Shape
<1>8. CASE rows' = [rows EXCEPT ![k][i] = v] /\ task' = [task EXCEPT ![t] = IdleTask]
  <2>1. Done(t)
    BY <1>8 DEF Done
  <2> QED
    BY <1>7, <1>8, <2>1, TaskEnds
<1>9. ASSUME k \in Invoices, rows' = [rows EXCEPT ![k][i] = v],
             task' = [task EXCEPT ![t] = [IdleTask EXCEPT !.pc = "sync", !.key = k, !.row = i,
                                                          !.caught = SyncIsCaught]]
      PROVE  Shape'
  <2> DEFINE r == [IdleTask EXCEPT !.pc = "sync", !.key = k, !.row = i, !.caught = FALSE]
  <2>1. r \in TaskRecord
    BY <1>3, IdleHolds DEF TaskRecord, Pcs, WorkPcs
  <2>2. r.pc = "sync" /\ r.key = k /\ r.row = i /\ ~r.caught /\ r.token = 0
    BY DEF IdleTask
  <2>3. task' = [task EXCEPT ![t] = r]
    BY <1>9 DEF SyncIsCaught
  <2> HIDE DEF r
  <2>4. At(r) = "sync"
    BY <2>2 DEF At, TokenPcs
  <2>5. Holds(r)
    BY <1>3, <1>5, <1>9, <2>2, <2>4, TaskFields DEF Holds, TokenPcs
  <2> QED
    BY <1>7, <1>9, <2>1, <2>3, <2>5, TaskMovesOn
<1>10. CASE UNCHANGED rows /\ Goto(t, "failed")
  <2>1. World' /\ Grew
    BY <1>4, <1>10, QuietWorld DEF Save, Shape
  <2>2. task[t].caught
    BY <1>3, TaskFields DEF Save, Holds
  <2> QED
    BY <1>10, <2>1, <2>2, GoesToFailed
<1> QED
  BY <1>1, <1>2, <1>6, <1>8, <1>9, <1>10 DEF Save

LEMMA WriteFailedShape ==
    ASSUME Shape, NEW t \in Tasks, WriteFailed(t)
    PROVE  Shape'
<1>1. PICK k : k = task[t].key
  OBVIOUS
<1>2. PICK i : i = task[t].row
  OBVIOUS
<1>3. k \in Keys /\ i \in 1..Len(rows[k])
  BY <1>1, <1>2, TaskFields DEF WriteFailed, Holds, At, TokenPcs, WorkPcs
<1>4. history' \in [Keys -> SUBSET {"blind", "overlapped", "refused"}]
  BY DEF WriteFailed, Shape, World
<1>5. rows' = [rows EXCEPT ![k][i].status = "FAILED"]
  BY <1>1, <1>2 DEF WriteFailed
<1>6. World' /\ Grew
  BY <1>3, <1>4, <1>5, StatusWorld DEF WriteFailed, Shape, Status
<1> QED
  BY <1>6, TaskEnds DEF WriteFailed

LEMMA SyncTransmissionShape ==
    ASSUME Shape, NEW t \in Tasks, SyncTransmission(t)
    PROVE  Shape'
<1>1. PICK k : k = task[t].key
  OBVIOUS
<1>2. PICK i : i = task[t].row
  OBVIOUS
<1>3. k \in Keys /\ i \in 1..Len(rows[k]) /\ task[t].seen \in Status
  BY <1>1, <1>2, TaskFields DEF SyncTransmission, Holds, At, TokenPcs, WorkPcs
<1>4. history' \in [Keys -> SUBSET {"blind", "overlapped", "refused"}]
  BY DEF SyncTransmission, Shape, World
<1>5. ASSUME NEW answer \in Answers \cup {task[t].seen},
             rows' = [rows EXCEPT ![k][i].status = answer], Done(t)
      PROVE  Shape'
  <2>1. answer \in Status
    BY <1>3 DEF Answers, Status
  <2>2. World' /\ Grew
    BY <1>3, <1>4, <1>5, <2>1, StatusWorld DEF SyncTransmission, Shape
  <2> QED
    BY <1>5, <2>2, TaskEnds
<1>6. CASE Rejected(t) /\ UNCHANGED rows
  <2>1. World' /\ Grew
    BY <1>4, <1>6, QuietWorld DEF SyncTransmission, Shape
  <2> QED
    BY <1>6, <2>1, RejectedShape
<1> QED
  BY <1>1, <1>2, <1>5, <1>6 DEF SyncTransmission

LEMMA CrashShape ==
    ASSUME Shape, NEW t \in Tasks, Crash(t)
    PROVE  Shape'
<1>1. task[t].pc = "save" => task[t].key \in Keys
  BY TaskFields DEF Holds, At, TokenPcs, WorkPcs
<1>2. history' \in [Keys -> SUBSET {"blind", "overlapped", "refused"}]
  BY <1>1, HistoryTyped DEF Crash, Shape, World
<1>3. tokenLost' \in BOOLEAN
  BY DEF Crash, Shape, World
<1>4. World' /\ Grew
  <2>1. UNCHANGED <<conn, granted, rows, posted>>
    BY DEF Crash
  <2>2. \A j \in Keys : Len(rows[j]) \in Nat /\ posted[j] \in Nat
    BY DEF Shape, World
  <2> QED
    BY <1>2, <1>3, <2>1, <2>2 DEF World, Grew, Shape
<1> QED
  BY <1>4, TaskEnds DEF Crash

LEMMA SyncPendingTransmissionsShape ==
    ASSUME Shape, SyncPendingTransmissions
    PROVE  Shape'
<1> DEFINE pending == {k \in Invoices : /\ rows[k] # <<>>
                                        /\ rows[k][1].id # 0
                                        /\ rows[k][1].status \in Evolving}
<1> DEFINE new(t) == [IdleTask EXCEPT !.key = t, !.row = 1, !.seen = rows[t][1].status,
                                      !.pc = "tokens", !.then = "get"]
<1>1. World' /\ Grew
  BY QuietWorld DEF SyncPendingTransmissions, Shape, World
<1>2. ASSUME NEW t \in pending
      PROVE  new(t) \in TaskRecord /\ Holds(new(t))
  <2>1. t \in Invoices /\ t \in Keys /\ rows[t] \in Seq(Row) /\ rows[t] # <<>>
    BY DEF Keys, Shape, World
  <2>2. Len(rows[t]) \in Nat /\ Len(rows[t]) # 0
    BY <2>1, EmptySeq, LenProperties
  <2>3. 1 \in 1..Len(rows[t])
    BY <2>2
  <2>4. rows[t][1] \in Row
    BY <2>1, <2>3, ElementOfSeq
  <2>5. rows[t][1].status \in Status
    BY <2>4 DEF Row
  <2>6. new(t) \in TaskRecord
    BY <2>1, <2>5, IdleHolds DEF TaskRecord, Pcs, TokenPcs
  <2>7. /\ new(t).key = t /\ new(t).row = 1 /\ new(t).seen = rows[t][1].status
        /\ new(t).pc = "tokens" /\ new(t).then = "get"
        /\ ~new(t).caught /\ new(t).token = 0
    BY DEF IdleTask
  <2> HIDE DEF new
  <2>8. At(new(t)) = "get"
    BY <2>7 DEF At, TokenPcs
  <2>9. Holds(new(t))
    BY <2>1, <2>3, <2>5, <2>7, <2>8, TaskFields DEF Holds, TokenPcs, Shape, World
  <2> QED
    BY <2>6, <2>9
<1>3. task' = [t \in Tasks |-> IF t \in pending THEN new(t) ELSE task[t]]
  BY DEF SyncPendingTransmissions, TokenThen
<1> HIDE DEF new, pending
<1>4. ASSUME NEW t \in Tasks
      PROVE  /\ task'[t] \in TaskRecord
             /\ \E x \in TaskRecord : task'[t] = x /\ Holds(x)'
  <2>1. \E x \in TaskRecord : task'[t] = x /\ Holds(x)
    BY <1>2, <1>3, TaskFields
  <2> QED
    BY <1>1, <2>1, HoldsKept DEF Shape
<1>5. task' \in [Tasks -> TaskRecord]
  BY <1>3, <1>4
<1>6. ASSUME NEW t \in Tasks PROVE Holds(task[t])'
  BY <1>4 DEF Holds, At
<1> QED
  BY <1>1, <1>5, <1>6 DEF Shape

-----------------------------------------------------------------------------

LEMMA ExchangeCodeShape ==
    ASSUME Shape, NEW t \in Tasks, ExchangeCode(t), UNCHANGED Others
    PROVE  Shape'
<1>1. PICK n \in 1..MaxRotations : n = granted + 1 /\ n # 0
  BY ConnectionAssumption DEF ExchangeCode, Shape, World
<1>2. World' /\ Grew
  <2>1. conn' \in ConnRecord /\ granted' \in 1..MaxRotations
    BY <1>1 DEF ExchangeCode, Shape, World
  <2>2. granted <= granted' /\ conn'.refresh <= granted'
    BY <1>1, ConnectionAssumption DEF ExchangeCode, Shape, World, ConnRecord
  <2>3. tokenLost' \in BOOLEAN
    BY DEF ExchangeCode, Shape, World
  <2> QED
    BY <2>1, <2>2, <2>3, ConnectionWorld DEF Shape
<1> DEFINE new == [IdleTask EXCEPT !.pc = "storeGrant", !.token = n]
<1>3. new \in TaskRecord
  <2>1. n \in 0..MaxRotations
    BY <1>1, ConnectionAssumption
  <2> QED
    BY <2>1, IdleHolds DEF TaskRecord, Pcs
<1>4. new.pc = "storeGrant" /\ new.token = n /\ new.row = 0 /\ ~new.caught
  BY DEF IdleTask
<1>5. task[t] = IdleTask
  BY TaskFields DEF ExchangeCode, Idle, Holds
<1>6. task' = [task EXCEPT ![t] = new]
  BY <1>1, <1>5, TaskFields DEF ExchangeCode
<1> HIDE DEF new
<1>7. PICK r \in TaskRecord : r = new
  BY <1>3
<1>8. At(r) = "storeGrant"
  BY <1>4, <1>7 DEF At, TokenPcs
<1>9. n <= granted'
  BY <1>1 DEF ExchangeCode
<1>10. Holds(r)'
  BY <1>1, <1>4, <1>7, <1>8, <1>9 DEF Holds, TokenPcs, WorkPcs, At
<1> QED
  BY <1>2, <1>6, <1>7, <1>10, TaskMoves

\* A task calls for an access token, to read the profile.
LEMMA VerifyMoves ==
    ASSUME Shape, World', Grew, NEW t \in Tasks,
           task' = [task EXCEPT ![t] = TokenThen(IdleTask, "profile")]
    PROVE  Shape'
<1> DEFINE r == TokenThen(IdleTask, "profile")
<1>1. r \in TaskRecord
  BY IdleHolds DEF TaskRecord, Pcs, TokenPcs, TokenThen
<1>2. r.pc = "tokens" /\ r.then = "profile" /\ r.row = 0 /\ ~r.caught /\ r.token = 0
  BY DEF IdleTask, TokenThen
<1>3. task' = [task EXCEPT ![t] = r]
  OBVIOUS
<1> HIDE DEF r
<1>4. At(r) = "profile"
  BY <1>2 DEF At, TokenPcs
<1>5. Holds(r)
  BY <1>2, <1>4, TaskFields DEF Holds, TokenPcs, WorkPcs
<1> QED
  BY <1>1, <1>3, <1>5, TaskMovesOn

LEMMA StartVerifyShape ==
    ASSUME Shape, NEW t \in Tasks, StartVerify(t), UNCHANGED Others
    PROVE  Shape'
<1>1. World' /\ Grew
  BY QuietWorld DEF StartVerify, Others, Shape, World
<1> QED
  BY <1>1, VerifyMoves DEF StartVerify

LEMMA StoreGrantShape ==
    ASSUME Shape, NEW t \in Tasks, StoreGrant(t), UNCHANGED Others
    PROVE  Shape'
<1>1. task[t].token \in 1..MaxRotations /\ task[t].token <= granted
  BY TaskFields, ConnectionAssumption DEF StoreGrant, Holds, TaskRecord
<1>2. conn' \in ConnRecord /\ conn'.refresh = task[t].token
  BY <1>1 DEF StoreGrant, ConnRecord
<1>3. World' /\ Grew
  BY <1>1, <1>2, TaskFields, ConnectionWorld DEF StoreGrant, Shape, World
<1> QED
  BY <1>3, VerifyMoves DEF StoreGrant

LEMMA SyncProviderConnectionShape ==
    ASSUME Shape, NEW t \in Tasks, SyncProviderConnection(t), UNCHANGED Others
    PROVE  Shape'
<1>1. conn' \in ConnRecord /\ conn'.refresh = conn.refresh
  BY DEF SyncProviderConnection, Shape, World, ConnRecord
<1>2. World' /\ Grew
  BY <1>1, TaskFields, ConnectionWorld DEF SyncProviderConnection, Shape, World
<1> QED
  BY <1>2, TaskEnds DEF SyncProviderConnection

LEMMA GoOnShape ==
    ASSUME Shape, World', Grew, NEW t \in Tasks, task[t].pc \in TokenPcs, GoOn(t)
    PROVE  Shape'
<1> DEFINE r == [task[t] EXCEPT !.pc = task[t].then, !.then = "idle", !.token = 0]
<1>1. task[t].then \in {"profile", "post", "get"} /\ At(task[t]) = task[t].then
  BY TaskFields DEF Holds, At
<1>2. r \in TaskRecord
  <2>1. 0 \in 0..MaxRotations
    BY ConnectionAssumption
  <2>2. task[t].then \in Pcs
    BY <1>1 DEF Pcs, WorkPcs
  <2> QED
    BY <2>1, <2>2, TaskFields DEF TaskRecord
<1>3. /\ r.pc = task[t].then /\ r.token = 0 /\ r.key = task[t].key
      /\ r.row = task[t].row /\ r.caught = task[t].caught /\ r.seen = task[t].seen
  BY TaskFields DEF TaskRecord
<1>4. task' = [task EXCEPT ![t] = r]
  BY DEF GoOn
<1> HIDE DEF r
<1>5. At(r) = At(task[t])
  BY <1>1, <1>3 DEF At, TokenPcs
<1>6. Holds(r)
  BY <1>1, <1>3, <1>5, TaskFields DEF Holds, TokenPcs
<1> QED
  BY <1>2, <1>4, <1>6, TaskMovesOn

LEMMA GetAccessTokenShape ==
    ASSUME Shape, NEW t \in Tasks, GetAccessToken(t), UNCHANGED Others
    PROVE  Shape'
<1>1. World' /\ Grew
  BY QuietWorld DEF GetAccessToken, Others, Shape, World
<1>2. CASE GoOn(t)
  BY <1>1, <1>2, GoOnShape DEF GetAccessToken, TokenPcs
<1>3. CASE task' = [task EXCEPT ![t].pc = "refresh", ![t].token = conn.refresh]
  <2> DEFINE r == [task[t] EXCEPT !.pc = "refresh", !.token = conn.refresh]
  <2>1. /\ conn.refresh \in 1..MaxRotations /\ conn.refresh \in 0..MaxRotations
        /\ conn.refresh <= granted /\ conn.refresh # 0
    BY ConnectionAssumption DEF Shape, World, ConnRecord
  <2>2. r \in TaskRecord
    BY <2>1, TaskTyped, PcNames DEF TaskRecord
  <2>3. /\ r.pc = "refresh" /\ r.token = conn.refresh /\ r.key = task[t].key
        /\ r.row = task[t].row /\ r.caught = task[t].caught
        /\ r.seen = task[t].seen /\ r.then = task[t].then
    BY TaskFields DEF TaskRecord
  <2>4. task' = [task EXCEPT ![t] = r]
    BY <1>3
  <2>5. task[t].pc = "tokens"
    BY DEF GetAccessToken
  <2> HIDE DEF r
  <2>6. At(r) = At(task[t]) /\ At(r) = task[t].then
    BY <2>3, <2>5 DEF At, TokenPcs
  <2>7. Holds(r)
    BY <2>1, <2>3, <2>5, <2>6, TaskFields DEF Holds, TokenPcs
  <2> QED
    BY <1>1, <2>2, <2>4, <2>7, TaskMovesOn
<1> QED
  BY <1>2, <1>3 DEF GetAccessToken

LEMMA RefusedShape ==
    ASSUME Shape, World', Grew, NEW t \in Tasks, task[t].pc \in TokenPcs, Refused(t)
    PROVE  Shape'
<1> DEFINE r == [task[t] EXCEPT !.pc = "refused", !.then = "idle", !.token = 0]
<1>1. r \in TaskRecord
  <2>1. 0 \in 0..MaxRotations
    BY ConnectionAssumption
  <2> QED
    BY <2>1, TaskFields DEF TaskRecord, Pcs
<1>2. /\ r.pc = "refused" /\ r.token = 0 /\ r.key = task[t].key
      /\ r.row = task[t].row /\ r.caught = task[t].caught
  BY TaskFields DEF TaskRecord
<1>3. task' = [task EXCEPT ![t] = r]
  BY DEF Refused
<1> HIDE DEF r
<1>4. At(r) = "refused"
  BY <1>2 DEF At, TokenPcs
<1>5. Holds(r)
  BY <1>2, <1>4, TaskFields DEF Holds, TokenPcs, WorkPcs
<1> QED
  BY <1>1, <1>3, <1>5, TaskMovesOn

LEMMA RefreshShape ==
    ASSUME Shape, NEW t \in Tasks, Refresh(t), UNCHANGED Others
    PROVE  Shape'
<1>1. tokenLost' \in BOOLEAN
  BY DEF Refresh, Shape, World
<1>2. CASE Refused(t) /\ UNCHANGED <<granted, tokenLost>>
  <2>1. World' /\ Grew
    BY <1>2, QuietWorld DEF Refresh, Others, Shape, World
  <2> QED
    BY <1>2, <2>1, RefusedShape DEF Refresh, TokenPcs
<1>3. ASSUME granted < MaxRotations, granted' = granted + 1
      PROVE  World' /\ Grew
  <2>1. conn' \in ConnRecord /\ granted' \in 1..MaxRotations
    BY <1>3, ConnectionAssumption DEF Refresh, Shape, World
  <2>2. granted <= granted' /\ conn'.refresh <= granted'
    BY <1>3, ConnectionAssumption DEF Refresh, Shape, World, ConnRecord
  <2> QED
    BY <1>1, <2>1, <2>2, ConnectionWorld DEF Shape
<1>4. CASE granted < MaxRotations /\ granted' = granted + 1 /\ Refused(t)
  BY <1>3, <1>4, RefusedShape DEF Refresh, TokenPcs
<1>5. CASE /\ granted < MaxRotations /\ granted' = granted + 1
           /\ task' = [task EXCEPT ![t].pc = "storeTokens", ![t].token = granted + 1]
  <2>1. PICK n \in 0..MaxRotations : n = granted + 1 /\ n # 0
    BY <1>5, ConnectionAssumption DEF Shape, World
  <2> DEFINE new == [task[t] EXCEPT !.pc = "storeTokens", !.token = n]
  <2>2. new \in TaskRecord
    BY TaskFields DEF TaskRecord, Pcs, TokenPcs
  <2>3. /\ new.pc = "storeTokens" /\ new.token = n /\ new.key = task[t].key
        /\ new.row = task[t].row /\ new.caught = task[t].caught
        /\ new.seen = task[t].seen /\ new.then = task[t].then
    BY TaskFields DEF TaskRecord
  <2>4. task' = [task EXCEPT ![t] = new]
    BY <1>5, <2>1
  <2>5. task[t].pc = "refresh"
    BY DEF Refresh
  <2> HIDE DEF new
  <2>6. PICK r \in TaskRecord : r = new
    BY <2>2
  <2>7. At(r) = At(task[t]) /\ At(r) = task[t].then
    BY <2>3, <2>5, <2>6 DEF At, TokenPcs
  <2>8. n <= granted' /\ UNCHANGED <<rows, posted>>
    BY <1>5, <2>1 DEF Others
  <2>9. Holds(r)'
    BY <2>1, <2>3, <2>5, <2>6, <2>7, <2>8, TaskFields DEF Holds, TokenPcs, At
  <2> QED
    BY <1>3, <1>5, <2>4, <2>6, <2>9, TaskMoves
<1> QED
  BY <1>2, <1>4, <1>5 DEF Refresh

LEMMA StoreTokensShape ==
    ASSUME Shape, NEW t \in Tasks, StoreTokens(t), UNCHANGED Others
    PROVE  Shape'
<1>1. task[t].token \in 1..MaxRotations /\ task[t].token <= granted
  BY TaskFields, ConnectionAssumption DEF StoreTokens, Holds, TaskRecord
<1>2. conn' \in ConnRecord /\ conn'.refresh = task[t].token
  BY <1>1 DEF StoreTokens, ConnRecord, Rotated
<1>3. World' /\ Grew
  BY <1>1, <1>2, TaskFields, ConnectionWorld DEF StoreTokens, Shape, World
<1> QED
  BY <1>3, GoOnShape DEF StoreTokens, TokenPcs

LEMMA RefreshFailsShape ==
    ASSUME Shape, NEW t \in Tasks, RefreshFails(t), UNCHANGED Others
    PROVE  Shape'
<1>1. conn' \in ConnRecord /\ conn'.refresh = conn.refresh
  BY DEF RefreshFails, Shape, World, ConnRecord
<1>2. World' /\ Grew
  BY <1>1, TaskFields, ConnectionWorld DEF RefreshFails, Shape, World
<1> QED
  BY <1>2, RejectedShape DEF RefreshFails

\* A step of the connection that is no task's.
LEMMA NoTaskShape ==
    ASSUME Shape, World', Grew, UNCHANGED task
    PROVE  Shape'
<1>1. ASSUME NEW t \in Tasks PROVE Holds(task[t])'
  <2>1. \E x \in TaskRecord : task'[t] = x /\ Holds(x)'
    BY TaskFields, HoldsKept DEF Shape
  <2> QED
    BY <2>1 DEF Holds, At
<1> QED
  BY <1>1 DEF Shape

LEMMA AuthorizationShape ==
    ASSUME Shape, BuildAuthorizationUrl \/ TokenGetsOld, UNCHANGED Others
    PROVE  Shape'
<1>1. conn' \in ConnRecord /\ conn'.refresh = conn.refresh
  BY DEF BuildAuthorizationUrl, TokenGetsOld, Shape, World, ConnRecord
<1>2. UNCHANGED <<granted, tokenLost, task>>
  BY DEF BuildAuthorizationUrl, TokenGetsOld
<1>3. granted \in Nat
  BY ConnectionAssumption DEF Shape, World
<1>4. World' /\ Grew
  BY <1>1, <1>2, <1>3, ConnectionWorld DEF Shape, World
<1> QED
  BY <1>2, <1>4, NoTaskShape
-----------------------------------------------------------------------------
(***************************************************************************)
(* Types                                                                   *)
(***************************************************************************)

LEMMA InitShape == Init => Shape
<1> SUFFICES ASSUME Init PROVE Shape
  OBVIOUS
<1>1. World
  <2>1. conn \in ConnRecord /\ conn.refresh = 1 /\ granted = 1 /\ 1 \in 1..MaxRotations
    BY ConnectionAssumption DEF Init, InitConnection, ConnRecord
  <2>2. \A k \in Keys : rows[k] = <<>> /\ posted[k] = 0
    BY DEF Init
  <2>3. \A k \in Keys : Len(rows[k]) = 0
    BY <2>2
  <2>4. Invoices \cup Payments \subseteq Keys
    BY DEF Keys
  <2>5. rows \in [Keys -> Seq(Row)]
    BY EmptySeq DEF Init
  <2>6. posted \in [Keys -> Nat] /\ tokenLost \in BOOLEAN
        /\ history \in [Keys -> SUBSET {"blind", "overlapped", "refused"}]
    BY DEF Init, InitConnection
  <2> QED
    BY <2>1, <2>3, <2>4, <2>5, <2>6 DEF World
<1>2. task \in [Tasks -> TaskRecord] /\ \A t \in Tasks : task[t] = IdleTask
  BY IdleHolds DEF Init, InitConnection
<1>3. \A t \in Tasks : Holds(task[t])
  <2>1. Holds(IdleTask)
    BY <1>1, IdleHolds
  <2> QED
    BY <1>2, <2>1
<1> QED
  BY <1>1, <1>2, <1>3 DEF Shape

LEMMA ConnectionStepsShape ==
    ASSUME Shape, NEW t \in Tasks, ConnectionSteps(t), UNCHANGED Others
    PROVE  Shape'
BY StoreGrantShape, SyncProviderConnectionShape, GetAccessTokenShape, RefreshShape,
   StoreTokensShape, RefreshFailsShape DEF ConnectionSteps

LEMMA NextShape == Shape /\ [Next]_vars => Shape'
<1> SUFFICES ASSUME Shape, [Next]_vars PROVE Shape'
  OBVIOUS
<1>1. ASSUME Begins PROVE Shape'
  <2>1. Users \subseteq Tasks
    BY InvoicingAssumption
  <2> QED
    BY <1>1, <2>1, StartSendShape, StartSyncShape, SyncPendingTransmissionsShape,
       ExchangeCodeShape, StartVerifyShape DEF Begins
<1>2. ASSUME NEW t \in Tasks, TaskSteps(t) PROVE Shape'
  BY <1>2, CreateShape, RefuseShape, MarkShape, PostShape, SaveShape, WriteFailedShape,
     SyncShape, SyncTransmissionShape, CrashShape, ConnectionStepsShape DEF TaskSteps
<1>3. CASE UNCHANGED vars
  <2>1. World' /\ Grew
    BY <1>3, QuietWorld DEF vars, connectionVars, Shape, World
  <2> QED
    BY <1>3, <2>1, NoTaskShape DEF vars, connectionVars
<1> QED
  BY <1>1, <1>2, <1>3, AuthorizationShape DEF Next

LEMMA ShapeAlways == Spec => []Shape
BY InitShape, NextShape, PTL DEF Spec

\* Every variable keeps the shape of the rows and local states the code writes,
\* a transmission and a payment never have two rows, a task writes to a row
\* that exists, and the number in a row is that of an accepted submission.
THEOREM TypeCorrect == Spec => []TypeOK
<1>1. Shape => TypeOK
  <2> SUFFICES ASSUME Shape PROVE TypeOK
    OBVIOUS
  <2>1. ConnectionTypeOK
    BY DEF ConnectionTypeOK, Shape, World, ConnRecord
  <2>2. ASSUME NEW k \in Keys
        PROVE  /\ k \in Invoices \cup Payments => Len(rows[k]) <= 1
               /\ \A i \in DOMAIN rows[k] :
                    /\ rows[k][i].status \in Evolving \cup Answers \cup {"FAILED"}
                    /\ rows[k][i].id \in 0..posted[k]
    <3>1. rows[k] \in Seq(Row) /\ DOMAIN rows[k] = 1..Len(rows[k]) /\ posted[k] \in Nat
      BY LenProperties DEF Shape, World
    <3>2. k \in Invoices \cup Payments => Len(rows[k]) <= 1
      BY DEF Shape, World
    <3>3. ASSUME NEW i \in 1..Len(rows[k])
          PROVE  /\ rows[k][i].status \in Evolving \cup Answers \cup {"FAILED"}
                 /\ rows[k][i].id \in 0..posted[k]
      <4>1. rows[k][i] \in Row
        BY <3>1, ElementOfSeq
      <4>2. rows[k][i].id <= posted[k]
        BY DEF Shape, World
      <4> QED
        BY <3>1, <4>1, <4>2 DEF Row, Status, Evolving, Answers
    <3> QED
      BY <3>1, <3>2, <3>3
  <2>3. ASSUME NEW t \in Tasks, task[t].row # 0
        PROVE  task[t].row \in DOMAIN rows[task[t].key]
    <3>1. task[t].key \in Keys /\ task[t].row \in 1..Len(rows[task[t].key])
      BY <2>3, TaskFields DEF Holds
    <3> QED
      BY <3>1, LenProperties DEF Shape, World
  <2> QED
    BY <2>1, <2>2, <2>3 DEF TypeOK
<1> QED
  BY <1>1, ShapeAlways, PTL

-----------------------------------------------------------------------------
(***************************************************************************)
(* The token                                                               *)
(***************************************************************************)

StorePcs == {"storeTokens", "storeGrant"}

\* No token is given or stored; a task that will refresh has the stored one.
LEMMA TokenQuiet ==
    ASSUME TokenKept, UNCHANGED <<granted, tokenLost>>, conn'.refresh = conn.refresh,
           \A u \in Tasks :
               \/ task'[u] = task[u]
               \/ /\ task[u].pc \notin StorePcs
                  /\ task'[u].pc \notin StorePcs
                  /\ task'[u].pc = "refresh" => task'[u].token <= conn.refresh
    PROVE  TokenKept'
<1>1. Storing' = Storing
  BY DEF Storing, StorePcs
<1>2. \A u \in Storing : task'[u] = task[u]
  BY DEF Storing, StorePcs
<1> SUFFICES ASSUME ~tokenLost'
             PROVE  /\ \/ Storing = {} /\ conn.refresh = granted
                       \/ \E t \in Tasks : /\ Storing = {t}
                                           /\ task'[t].token = granted
                                           /\ conn.refresh < granted
                    /\ \A t \in Tasks : task'[t].pc = "refresh"
                                        => task'[t].token <= conn.refresh
  BY <1>1 DEF TokenKept
<1>3. /\ \/ Storing = {} /\ conn.refresh = granted
         \/ \E t \in Tasks : /\ Storing = {t}
                             /\ task[t].token = granted
                             /\ conn.refresh < granted
      /\ \A t \in Tasks : task[t].pc = "refresh" => task[t].token <= conn.refresh
  BY DEF TokenKept
<1> QED
  BY <1>2, <1>3

\* A task stores the token, the only one that is being stored.
LEMMA TokenStored ==
    ASSUME Shape, TokenKept, UNCHANGED <<granted, tokenLost>>, NEW t \in Storing,
           conn'.refresh = task[t].token, task'[t].pc \notin StorePcs \cup {"refresh"},
           \A u \in Tasks \ {t} : task'[u] = task[u]
    PROVE  TokenKept'
<1> SUFFICES ASSUME ~tokenLost' PROVE TokenKept'
  BY DEF TokenKept
<1>1. /\ Storing = {t} /\ task[t].token = granted /\ conn.refresh < granted
      /\ \A u \in Tasks : task[u].pc = "refresh" => task[u].token <= conn.refresh
  BY DEF TokenKept
<1>2. Storing' = {}
  BY <1>1 DEF Storing, StorePcs
<1>3. conn'.refresh = granted'
  BY <1>1
<1>4. ASSUME NEW u \in Tasks, task'[u].pc = "refresh" PROVE task'[u].token <= granted
  <2>1. task'[u] = task[u]
    BY <1>4
  <2> QED
    BY <1>4, <2>1, TaskFields DEF Holds
<1> QED
  BY <1>2, <1>3, <1>4 DEF TokenKept

\* SuperPDP gives a token while the row has the one it accepts.
LEMMA TokenGiven ==
    ASSUME Shape, TokenKept, tokenLost' = tokenLost, UNCHANGED conn,
           granted' = granted + 1, NEW t \in Tasks,
           ~tokenLost => Storing = {},
           task'[t].pc \in StorePcs, task'[t].token = granted + 1,
           \A u \in Tasks \ {t} : task'[u] = task[u]
    PROVE  TokenKept'
<1> SUFFICES ASSUME ~tokenLost' PROVE TokenKept'
  BY DEF TokenKept
<1>1. /\ Storing = {} /\ conn.refresh = granted
      /\ \A u \in Tasks : task[u].pc = "refresh" => task[u].token <= conn.refresh
  BY DEF TokenKept
<1>2. Storing' = {t}
  BY <1>1 DEF Storing, StorePcs
<1>3. conn'.refresh < granted'
  BY <1>1, ConnectionAssumption DEF Shape, World
<1>4. ASSUME NEW u \in Tasks, task'[u].pc = "refresh" PROVE task'[u].token <= conn.refresh
  BY <1>1, <1>4 DEF StorePcs
<1> QED
  BY <1>2, <1>3, <1>4 DEF TokenKept
\* A task that stores nothing goes on and stores nothing.
LEMMA TokenTaskQuiet ==
    ASSUME Shape, TokenKept, UNCHANGED <<granted, tokenLost>>,
           conn'.refresh = conn.refresh, NEW t \in Tasks,
           task[t].pc \notin StorePcs, task'[t].pc \notin StorePcs \cup {"refresh"},
           \A u \in Tasks \ {t} : task'[u] = task[u]
    PROVE  TokenKept'
BY TokenQuiet

LEMMA DoneFields ==
    ASSUME Shape, NEW t \in Tasks, Done(t)
    PROVE  /\ task'[t].pc = "idle"
           /\ \A u \in Tasks \ {t} : task'[u] = task[u]
BY TaskFields DEF Done, IdleTask

LEMMA GotoFields ==
    ASSUME Shape, NEW t \in Tasks, NEW pc, Goto(t, pc)
    PROVE  /\ task'[t].pc = pc
           /\ \A u \in Tasks \ {t} : task'[u] = task[u]
BY TaskFields DEF Goto, TaskRecord

LEMMA InvoicingToken ==
    ASSUME Shape, TokenKept, NEW t \in Tasks,
           Create(t) \/ Refuse(t) \/ Mark(t) \/ Post(t) \/ Save(t) \/ WriteFailed(t)
             \/ Sync(t) \/ SyncTransmission(t)
    PROVE  TokenKept'
<1>1. UNCHANGED <<conn, granted, tokenLost>>
  BY DEF Create, Refuse, Mark, Post, Save, WriteFailed, Sync, SyncTransmission
<1>2. task[t].pc \notin StorePcs
  BY DEF Create, Refuse, Mark, Post, Save, WriteFailed, Sync, SyncTransmission, StorePcs
<1>3. CASE Done(t)
  BY <1>1, <1>2, <1>3, DoneFields, TokenTaskQuiet DEF StorePcs
<1>4. CASE Goto(t, "failed")
  BY <1>1, <1>2, <1>4, GotoFields, TokenTaskQuiet DEF StorePcs
<1>5. ASSUME NEW r, r.pc \in {"mark", "tokens", "failed", "save", "sync", "idle"},
             task' = [task EXCEPT ![t] = r]
      PROVE  TokenKept'
  BY <1>1, <1>2, <1>5, TokenTaskQuiet, TaskFields DEF StorePcs
<1>6. CASE Create(t)
  <2> DEFINE r == [task[t] EXCEPT !.pc = "mark", !.row = Len(rows[task[t].key]) + 1]
  <2>1. r.pc = "mark"
    BY TaskFields DEF TaskRecord
  <2>2. Done(t) \/ task' = [task EXCEPT ![t] = r]
    BY <1>6 DEF Create
  <2> HIDE DEF r
  <2> QED
    BY <1>3, <1>5, <2>1, <2>2
<1>7. CASE Mark(t)
  <2> DEFINE r == [task[t] EXCEPT !.pc = "tokens", !.then = "post", !.caught = TRUE]
  <2> DEFINE s == [task[t] EXCEPT !.pc = "failed", !.caught = TRUE]
  <2>1. r.pc = "tokens" /\ s.pc = "failed"
    BY TaskFields DEF TaskRecord
  <2>2. task' = [task EXCEPT ![t] = r] \/ task' = [task EXCEPT ![t] = s]
    BY <1>7 DEF Mark, TokenThen
  <2> HIDE DEF r, s
  <2> QED
    BY <1>5, <2>1, <2>2
<1>8. CASE Post(t)
  <2> DEFINE r == [task[t] EXCEPT !.pc = "save", !.id = posted[task[t].key] + 1]
  <2>1. r.pc = "save"
    BY TaskFields DEF TaskRecord
  <2>2. Goto(t, "failed") \/ task' = [task EXCEPT ![t] = r]
    BY <1>8 DEF Post
  <2> HIDE DEF r
  <2> QED
    BY <1>4, <1>5, <2>1, <2>2
<1>9. CASE Save(t)
  <2> DEFINE r == [IdleTask EXCEPT !.pc = "sync", !.key = task[t].key,
                                   !.row = task[t].row, !.caught = SyncIsCaught]
  <2>1. r.pc = "sync" /\ IdleTask.pc = "idle"
    BY DEF IdleTask
  <2>2. \/ task' = [task EXCEPT ![t] = r] \/ task' = [task EXCEPT ![t] = IdleTask]
        \/ Goto(t, "failed")
    BY <1>9 DEF Save
  <2> HIDE DEF r
  <2> QED
    BY <1>4, <1>5, <2>1, <2>2
<1>10. CASE Sync(t)
  <2> DEFINE r == [task[t] EXCEPT !.pc = "tokens", !.then = "get", !.row = 1,
                                  !.seen = rows[task[t].key][1].status]
  <2>1. r.pc = "tokens" /\ IdleTask.pc = "idle"
    BY TaskFields DEF IdleTask, TaskRecord
  <2>2. task' = [task EXCEPT ![t] = r] \/ task' = [task EXCEPT ![t] = IdleTask]
    BY <1>10 DEF Sync, TokenThen
  <2> HIDE DEF r
  <2> QED
    BY <1>5, <2>1, <2>2
<1>11. CASE SyncTransmission(t)
  BY <1>3, <1>4, <1>11 DEF SyncTransmission, Rejected
<1> QED
  BY <1>3, <1>6, <1>7, <1>8, <1>9, <1>10, <1>11 DEF Refuse, WriteFailed

LEMMA ConnectionToken ==
    ASSUME Shape, TokenKept, NEW t \in Tasks, ConnectionSteps(t)
    PROVE  TokenKept'
<1>1. task[t].then \notin StorePcs \cup {"refresh"}
  BY TaskFields DEF StorePcs
<1>2. ASSUME GoOn(t)
      PROVE  /\ task'[t].pc = task[t].then
             /\ \A u \in Tasks \ {t} : task'[u] = task[u]
  BY <1>2, TaskFields DEF GoOn, TaskRecord
<1>3. ASSUME Refused(t)
      PROVE  /\ task'[t].pc = "refused"
             /\ \A u \in Tasks \ {t} : task'[u] = task[u]
  BY <1>3, TaskFields DEF Refused, TaskRecord
<1>4. CASE StoreGrant(t)
  <2>1. t \in Storing /\ conn'.refresh = task[t].token
    BY <1>4 DEF StoreGrant, Storing
  <2>2. task'[t].pc = "tokens" /\ \A u \in Tasks \ {t} : task'[u] = task[u]
    BY <1>4, TaskFields DEF StoreGrant, TokenThen, IdleTask
  <2> QED
    BY <1>4, <2>1, <2>2, TokenStored DEF StoreGrant, StorePcs
<1>5. CASE SyncProviderConnection(t)
  <2>1. conn'.refresh = conn.refresh
    BY <1>5 DEF SyncProviderConnection, Shape, World, ConnRecord
  <2> QED
    BY <1>5, <2>1, DoneFields, TokenTaskQuiet DEF SyncProviderConnection, StorePcs
<1>6. CASE GetAccessToken(t)
  <2>1. CASE GoOn(t)
    BY <1>1, <1>2, <1>6, <2>1, TokenTaskQuiet DEF GetAccessToken, StorePcs
  <2>2. CASE task' = [task EXCEPT ![t].pc = "refresh", ![t].token = conn.refresh]
    <3>1. /\ task'[t].pc = "refresh" /\ task'[t].token = conn.refresh
          /\ \A u \in Tasks \ {t} : task'[u] = task[u]
      BY <2>2, TaskFields DEF TaskRecord
    <3>2. conn.refresh <= conn.refresh
      BY ConnectionAssumption DEF Shape, World, ConnRecord
    <3> QED
      BY <1>6, <3>1, <3>2, TokenQuiet DEF GetAccessToken, StorePcs
  <2> QED
    BY <1>6, <2>1, <2>2 DEF GetAccessToken
<1>7. CASE Refresh(t)
  <2>1. CASE Refused(t) /\ UNCHANGED <<granted, tokenLost>>
    BY <1>3, <1>7, <2>1, TokenTaskQuiet DEF Refresh, StorePcs
  <2>2. CASE tokenLost'
    BY <2>2 DEF TokenKept
  <2>3. CASE /\ task[t].token = granted /\ granted' = granted + 1 /\ UNCHANGED tokenLost
             /\ task' = [task EXCEPT ![t].pc = "storeTokens", ![t].token = granted + 1]
    <3>1. /\ task'[t].pc = "storeTokens" /\ task'[t].token = granted + 1
          /\ \A u \in Tasks \ {t} : task'[u] = task[u]
      BY <2>3, TaskFields DEF TaskRecord
    <3>2. ~tokenLost => Storing = {}
      <4>1. granted \in Nat /\ conn.refresh \in Nat
        BY ConnectionAssumption DEF Shape, World, ConnRecord
      <4>2. ~tokenLost => granted <= conn.refresh
        BY <1>7, <2>3 DEF TokenKept, Refresh
      <4>3. ~tokenLost => ~(conn.refresh < granted)
        BY <4>1, <4>2
      <4> QED
        BY <4>3 DEF TokenKept
    <3> QED
      BY <1>7, <2>3, <3>1, <3>2, TokenGiven DEF Refresh, StorePcs
  <2> QED
    BY <1>7, <2>1, <2>2, <2>3 DEF Refresh
<1>8. CASE StoreTokens(t)
  <2>1. t \in Storing /\ conn'.refresh = task[t].token
    BY <1>8 DEF StoreTokens, Storing, Rotated
  <2> QED
    BY <1>1, <1>2, <1>8, <2>1, TokenStored DEF StoreTokens
<1>9. CASE RefreshFails(t)
  <2>1. conn'.refresh = conn.refresh
    BY <1>9 DEF RefreshFails, Shape, World, ConnRecord
  <2>2. Done(t) \/ Goto(t, "failed")
    BY <1>9 DEF RefreshFails, Rejected
  <2> QED
    BY <1>9, <2>1, <2>2, DoneFields, GotoFields, TokenTaskQuiet DEF RefreshFails, StorePcs
<1> QED
  BY <1>4, <1>5, <1>6, <1>7, <1>8, <1>9 DEF ConnectionSteps

LEMMA CrashToken ==
    ASSUME Shape, TokenKept, NEW t \in Tasks, Crash(t)
    PROVE  TokenKept'
<1>1. CASE t \in Storing
  BY <1>1 DEF Crash, TokenKept
<1>2. CASE t \notin Storing
  <2>1. task[t].pc \notin StorePcs
    BY <1>2 DEF Storing, StorePcs
  <2>2. UNCHANGED <<conn, granted, tokenLost>>
    BY <1>2 DEF Crash, Shape, World
  <2> QED
    BY <2>1, <2>2, DoneFields, TokenTaskQuiet DEF Crash, StorePcs
<1> QED
  BY <1>1, <1>2

LEMMA BeginsToken ==
    ASSUME Shape, TokenKept, Begins
    PROVE  TokenKept'
<1>1. Users \subseteq Tasks /\ Invoices \subseteq Tasks
  BY InvoicingAssumption
<1>2. ASSUME NEW t \in Tasks, task[t].pc = "idle", UNCHANGED <<conn, granted, tokenLost>>,
             task'[t].pc \in {"refuse", "sync", "create", "mark", "tokens", "idle"},
             \A u \in Tasks \ {t} : task'[u] = task[u]
      PROVE  TokenKept'
  BY <1>2, TokenTaskQuiet, TaskFields DEF StorePcs
<1>3. ASSUME NEW t \in Tasks, NEW k \in Keys, StartSend(t, k) PROVE TokenKept'
  <2>1. PICK i, p :
          /\ p \in {"refuse", "create", "mark"}
          /\ \/ task' = [task EXCEPT ![t].pc = p, ![t].key = k, ![t].row = i]
             \/ task' = [task EXCEPT ![t].pc = "sync", ![t].key = k]
             \/ task' = task
    <3>1. PICK i : \/ task' = [task EXCEPT ![t].pc = "refuse", ![t].key = k, ![t].row = i]
                   \/ task' = [task EXCEPT ![t].pc = "sync", ![t].key = k]
                   \/ task' = task
                   \/ task' = [task EXCEPT ![t].pc = IF i = 0 THEN "create" ELSE "mark",
                                           ![t].key = k, ![t].row = i]
      BY <1>3 DEF StartSend
    <3> QED
      BY <3>1
  <2> DEFINE r == [task[t] EXCEPT !.pc = p, !.key = k, !.row = i]
             s == [task[t] EXCEPT !.pc = "sync", !.key = k]
  <2>2. r.pc = p /\ s.pc = "sync" /\ task[t].pc = "idle"
    BY <1>3, TaskFields DEF TaskRecord, StartSend, Idle
  <2>3. \/ task' = [task EXCEPT ![t] = r] \/ task' = [task EXCEPT ![t] = s]
        \/ task' = [task EXCEPT ![t] = task[t]]
    BY <2>1, TaskFields
  <2> HIDE DEF r, s
  <2>4. /\ task'[t].pc \in {"refuse", "sync", "create", "mark", "idle"}
        /\ \A u \in Tasks \ {t} : task'[u] = task[u]
    BY <2>1, <2>2, <2>3, TaskFields
  <2>9. task[t].pc = "idle" /\ UNCHANGED <<conn, granted, tokenLost>>
    BY <1>3 DEF StartSend, Idle
  <2> QED
    BY <1>2, <2>4, <2>9
<1>4. ASSUME NEW t \in Tasks, NEW k \in Keys, StartSync(t, k) PROVE TokenKept'
  <2> DEFINE s == [task[t] EXCEPT !.pc = "sync", !.key = k]
  <2>1. s.pc = "sync" /\ task' = [task EXCEPT ![t] = s]
    BY <1>4, TaskFields DEF TaskRecord, StartSync
  <2> HIDE DEF s
  <2>4. task'[t].pc = "sync" /\ \A u \in Tasks \ {t} : task'[u] = task[u]
    BY <2>1, TaskFields
  <2>9. task[t].pc = "idle" /\ UNCHANGED <<conn, granted, tokenLost>>
    BY <1>4 DEF StartSync, Idle
  <2> QED
    BY <1>2, <2>4, <2>9
<1>5. ASSUME SyncPendingTransmissions PROVE TokenKept'
  <2>1. \A k \in Invoices : task[k].pc = "idle"
    BY <1>5 DEF SyncPendingTransmissions, Sweeping, Idle
  <2>2. PICK pending \in SUBSET Invoices :
          task' = [t \in Tasks |->
                     IF t \in pending
                     THEN TokenThen([IdleTask EXCEPT !.key = t, !.row = 1,
                                                     !.seen = rows[t][1].status], "get")
                     ELSE task[t]]
    BY <1>5 DEF SyncPendingTransmissions
  <2>3. \A t \in Tasks : t \in pending => task'[t].pc = "tokens"
    BY <2>2 DEF TokenThen, IdleTask
  <2>4. \A t \in Tasks : t \notin pending => task'[t] = task[t]
    BY <2>2
  <2> QED
    BY <1>5, <2>1, <2>3, <2>4, TokenQuiet DEF SyncPendingTransmissions, StorePcs
<1>6. ASSUME NEW t \in Tasks, ExchangeCode(t) PROVE TokenKept'
  <2>1. CASE tokenLost'
    BY <2>1 DEF TokenKept
  <2>2. CASE ~tokenLost'
    <3>1. Storing = {} /\ tokenLost' = tokenLost
      BY <1>6, <2>2 DEF ExchangeCode, Shape, World
    <3>2. /\ task'[t].pc = "storeGrant" /\ task'[t].token = granted + 1
          /\ \A u \in Tasks \ {t} : task'[u] = task[u]
      BY <1>6, TaskFields DEF ExchangeCode, TaskRecord
    <3> QED
      BY <1>6, <3>1, <3>2, TokenGiven DEF ExchangeCode, StorePcs
  <2> QED
    BY <2>1, <2>2
<1>7. ASSUME NEW t \in Tasks, StartVerify(t) PROVE TokenKept'
  <2> DEFINE r == TokenThen(IdleTask, "profile")
  <2>1. r.pc = "tokens" /\ task' = [task EXCEPT ![t] = r]
    BY <1>7 DEF TokenThen, IdleTask, StartVerify
  <2> HIDE DEF r
  <2>4. task'[t].pc = "tokens" /\ \A u \in Tasks \ {t} : task'[u] = task[u]
    BY <2>1, TaskFields
  <2>9. task[t].pc = "idle" /\ UNCHANGED <<conn, granted, tokenLost>>
    BY <1>7 DEF StartVerify, Idle
  <2> QED
    BY <1>2, <2>4, <2>9
<1> QED
  BY <1>1, <1>3, <1>4, <1>5, <1>6, <1>7 DEF Begins

LEMMA NextToken == Shape /\ TokenKept /\ [Next]_vars => TokenKept'
<1> SUFFICES ASSUME Shape, TokenKept, [Next]_vars PROVE TokenKept'
  OBVIOUS
<1>1. ASSUME NEW t \in Tasks, TaskSteps(t) PROVE TokenKept'
  BY <1>1, InvoicingToken, ConnectionToken, CrashToken DEF TaskSteps
<1>2. CASE BuildAuthorizationUrl \/ TokenGetsOld
  <2>1. conn'.refresh = conn.refresh
    BY <1>2 DEF BuildAuthorizationUrl, TokenGetsOld, Shape, World, ConnRecord
  <2> QED
    BY <1>2, <2>1, TokenQuiet DEF BuildAuthorizationUrl, TokenGetsOld
<1>3. CASE UNCHANGED vars
  BY <1>3, TokenQuiet DEF vars, connectionVars
<1> QED
  BY <1>1, <1>2, <1>3, BeginsToken DEF Next

\* The refresh token that is stored is the one SuperPDP accepts, unless a token
\* is being stored or one was lost: concurrent refreshes of the same token and
\* refreshes that fail never cost a connection its token.
THEOREM TokenNeverCost == Spec => []TokenSurvives
<1>1. Init => TokenKept
  <2> SUFFICES ASSUME Init PROVE TokenKept
    OBVIOUS
  <2>1. \A t \in Tasks : task[t].pc = "idle"
    BY DEF Init, InitConnection, IdleTask
  <2>2. Storing = {} /\ conn.refresh = granted
    BY <2>1 DEF Storing, Init, InitConnection
  <2> QED
    BY <2>1, <2>2 DEF TokenKept
<1>2. TokenKept => TokenSurvives
  BY DEF TokenKept, TokenSurvives
<1> QED
  BY <1>1, <1>2, ShapeAlways, NextToken, PTL DEF Spec
-----------------------------------------------------------------------------
(***************************************************************************)
(* What was submitted                                                      *)
(***************************************************************************)

SendPcs == {"create", "mark", "refuse"}

\* Nothing of a key changes: no task begins or ends to submit it but one that
\* gives up, before SuperPDP has accepted anything.
LEMMA KeyQuiet ==
    ASSUME NEW k \in Keys, Alone(k), Once(k),
           rows'[k] = rows[k], posted'[k] = posted[k], history'[k] = history[k],
           \A u \in Tasks :
               \/ task'[u] = task[u]
               \/ /\ ~(task[u].pc = "save" /\ task[u].key = k)
                  /\ u \notin Sending(k)'
               \/ /\ task[u].caught /\ task'[u].caught
                  /\ task'[u].key = task[u].key
                  /\ task'[u].row = task[u].row
                  /\ task[u].pc \notin SendPcs \cup {"save"}
                  /\ task'[u].pc \notin SendPcs \cup {"save"}
    PROVE  Alone(k)' /\ Once(k)'
<1>1. ASSUME NEW u \in Sending(k)'
      PROVE  /\ u \in Tasks /\ u \in Sending(k)
             /\ \/ task'[u] = task[u]
                \/ /\ task[u].caught /\ task'[u].caught
                   /\ task'[u].key = task[u].key
                   /\ task'[u].row = task[u].row
                   /\ task[u].pc \notin SendPcs \cup {"save"}
                   /\ task'[u].pc \notin SendPcs \cup {"save"}
  BY <1>1 DEF Sending, SendPcs
<1>2. Alone(k)'
  <2> SUFFICES ASSUME "overlapped" \notin history'[k]
               PROVE  /\ \A t, u \in Sending(k)' : t = u
                      /\ Len(rows'[k]) <= 1
                      /\ \A t \in Sending(k)' :
                           /\ task'[t].pc = "create" => rows'[k] = <<>>
                           /\ k \in Invoices /\ (task'[t].caught \/ task'[t].pc = "mark")
                                => rows'[k][task'[t].row].id = 0
    BY DEF Alone
  <2>1. /\ \A t, u \in Sending(k) : t = u
        /\ Len(rows[k]) <= 1
        /\ \A t \in Sending(k) :
             /\ task[t].pc = "create" => rows[k] = <<>>
             /\ k \in Invoices /\ (task[t].caught \/ task[t].pc = "mark")
                  => rows[k][task[t].row].id = 0
    BY DEF Alone
  <2>2. \A t, u \in Sending(k)' : t = u
    BY <1>1, <2>1
  <2>3. ASSUME NEW t \in Sending(k)'
        PROVE  /\ task'[t].pc = "create" => rows'[k] = <<>>
               /\ k \in Invoices /\ (task'[t].caught \/ task'[t].pc = "mark")
                    => rows'[k][task'[t].row].id = 0
    BY <1>1, <2>1, <2>3 DEF SendPcs
  <2> QED
    BY <2>1, <2>2, <2>3
<1>3. Once(k)'
  <2> SUFFICES ASSUME history'[k] \cap {"blind", "overlapped"} = {}
               PROVE  /\ posted'[k] # 0 =>
                           /\ posted'[k] = 1
                           /\ \/ \E t \in Tasks : task'[t].pc = "save" /\ task'[t].key = k
                              \/ rows'[k] # <<>> /\ Submitted(k, rows'[k][1])
                      /\ \A t \in Sending(k)' :
                           task'[t].pc \notin {"save", "refuse"} => posted'[k] = 0
    BY DEF Once, Submitted
  <2>1. /\ posted[k] # 0 =>
             /\ posted[k] = 1
             /\ \/ \E t \in Tasks : task[t].pc = "save" /\ task[t].key = k
                \/ rows[k] # <<>> /\ Submitted(k, rows[k][1])
        /\ \A t \in Sending(k) : task[t].pc \notin {"save", "refuse"} => posted[k] = 0
    BY DEF Once
  <2>2. ASSUME NEW t \in Tasks, task[t].pc = "save", task[t].key = k
        PROVE  task'[t] = task[t]
    BY <2>2
  <2>3. ASSUME NEW t \in Sending(k)', task'[t].pc \notin {"save", "refuse"}
        PROVE  posted'[k] = 0
    BY <1>1, <2>1, <2>3 DEF SendPcs
  <2> QED
    BY <2>1, <2>2, <2>3
<1> QED
  BY <1>2, <1>3

\* A step of one task, that is about one key.
LEMMA OtherKeys ==
    ASSUME Followed, NEW t \in Tasks, NEW k \in Keys,
           \A u \in Tasks \ {t} : task'[u] = task[u],
           \A j \in Keys \ {k} : /\ rows'[j] = rows[j]
                                 /\ posted'[j] = posted[j]
                                 /\ history'[j] = history[j],
           task[t].pc = "save" => task[t].key = k,
           task'[t].caught \/ task'[t].pc \in SendPcs => task'[t].key = k,
           Alone(k)', Once(k)'
    PROVE  \A j \in Keys : Alone(j)' /\ Once(j)'
<1> SUFFICES ASSUME NEW j \in Keys, j # k PROVE Alone(j)' /\ Once(j)'
  OBVIOUS
<1>1. t \notin Sending(j)'
  BY DEF Sending, SendPcs
<1>2. ~(task[t].pc = "save" /\ task[t].key = j)
  OBVIOUS
<1>3. Alone(j) /\ Once(j)
  BY DEF Followed
<1> QED
  BY <1>1, <1>2, <1>3, KeyQuiet

LEMMA SeenKept ==
    ASSUME Shape, Followed, \A k \in Keys : history[k] \subseteq history'[k],
           \A u \in Tasks :
               \/ task'[u] = task[u]
               \/ task'[u].pc \notin TokenPcs \cup {"get"}
               \/ task'[u].seen # "FAILED"
               \/ /\ At(task[u]) = "get" /\ task'[u].key = task[u].key
                  /\ task'[u].seen = task[u].seen
               \/ history'[task'[u].key] \cap {"refused", "overlapped"} # {}
               \/ task'[u].pc \in TokenPcs /\ task'[u].then # "get"
    PROVE  SeenFailed'
<1> SUFFICES ASSUME NEW u \in Tasks, At(task[u])' = "get", task'[u].seen = "FAILED"
             PROVE  history'[task'[u].key] \cap {"refused", "overlapped"} # {}
  BY DEF SeenFailed
<1>1. task'[u].pc \in TokenPcs \cup {"get"}
      /\ ~(task'[u].pc \in TokenPcs /\ task'[u].then # "get")
  BY DEF At, TokenPcs
<1>2. CASE /\ At(task[u]) = "get" /\ task'[u].key = task[u].key
           /\ task'[u].seen = task[u].seen
  <2>1. history[task[u].key] \cap {"refused", "overlapped"} # {}
    BY <1>2 DEF Followed, SeenFailed
  <2>2. task[u].key \in Keys
    BY <1>2, TaskFields DEF Holds, WorkPcs
  <2> QED
    BY <1>2, <2>1, <2>2
<1>3. CASE task'[u] = task[u]
  <2>1. At(task[u]) = "get"
    BY <1>3 DEF At
  <2> QED
    BY <1>2, <1>3, <2>1
<1> QED
  BY <1>1, <1>2, <1>3

LEMMA KnownKept ==
    ASSUME Shape, Shape', Followed, \A k \in Keys : history[k] \subseteq history'[k],
           NEW k \in Keys, \A j \in Keys \ {k} : rows'[j] = rows[j],
           k \in Invoices =>
             \A i \in 1..Len(rows'[k]) :
               rows'[k][i].id # 0 /\ rows'[k][i].status = "FAILED" =>
                 \/ /\ i \in 1..Len(rows[k])
                    /\ rows[k][i].id # 0 /\ rows[k][i].status = "FAILED"
                 \/ history'[k] \cap {"refused", "overlapped"} # {}
    PROVE  KnownIsFollowed'
<1> SUFFICES ASSUME NEW j \in Invoices, NEW i \in DOMAIN rows'[j],
                    rows'[j][i].id # 0, rows'[j][i].status = "FAILED"
             PROVE  history'[j] \cap {"refused", "overlapped"} # {}
  BY DEF KnownIsFollowed
<1>1. j \in Keys /\ history[j] \subseteq history'[j]
  BY DEF Keys
<1>2. /\ rows[j] \in Seq(Row) /\ DOMAIN rows[j] = 1..Len(rows[j])
      /\ rows'[j] \in Seq(Row) /\ DOMAIN rows'[j] = 1..Len(rows'[j])
  BY <1>1, LenProperties DEF Shape, World
<1>3. CASE i \in 1..Len(rows[j]) /\ rows[j][i].id # 0 /\ rows[j][i].status = "FAILED"
  BY <1>1, <1>2, <1>3 DEF Followed, KnownIsFollowed
<1>4. CASE j = k
  BY <1>2, <1>3, <1>4
<1>5. CASE j # k
  BY <1>1, <1>2, <1>3, <1>5
<1> QED
  BY <1>4, <1>5
\* A step that submits nothing, answers nothing and writes no row.
LEMMA FollowedQuiet ==
    ASSUME Shape, Shape', Followed, UNCHANGED Others,
           \A u \in Tasks :
               \/ task'[u] = task[u]
               \/ /\ \/ /\ task[u].pc # "save"
                        /\ ~task'[u].caught
                        /\ task'[u].pc \notin SendPcs
                     \/ /\ task[u].caught /\ task'[u].caught
                        /\ task'[u].key = task[u].key
                        /\ task'[u].row = task[u].row
                        /\ task[u].pc \notin SendPcs \cup {"save"}
                        /\ task'[u].pc \notin SendPcs \cup {"save"}
                  /\ \/ task'[u].pc \notin TokenPcs \cup {"get"}
                     \/ task'[u].seen # "FAILED"
                     \/ /\ At(task[u]) = "get" /\ task'[u].key = task[u].key
                        /\ task'[u].seen = task[u].seen
                     \/ history[task'[u].key] \cap {"refused", "overlapped"} # {}
                     \/ task'[u].pc \in TokenPcs /\ task'[u].then # "get"
    PROVE  Followed'
<1>1. ASSUME NEW k \in Keys PROVE Alone(k)' /\ Once(k)'
  <2>1. rows'[k] = rows[k] /\ posted'[k] = posted[k] /\ history'[k] = history[k]
    BY DEF Others
  <2>2. ASSUME NEW u \in Tasks, ~task'[u].caught, task'[u].pc \notin SendPcs
        PROVE  u \notin Sending(k)'
    BY <2>2 DEF Sending, SendPcs
  <2>3. Alone(k) /\ Once(k)
    BY DEF Followed
  <2> QED
    BY <2>1, <2>2, <2>3, KeyQuiet
<1>2. SeenFailed'
  BY SeenKept DEF Others
<1>3. KnownIsFollowed'
  BY DEF Others, Followed, KnownIsFollowed
<1> QED
  BY <1>1, <1>2, <1>3 DEF Followed

\* A task that held nothing, or holds no submission, ends or goes on.
LEMMA FollowedTask ==
    ASSUME Shape, Shape', Followed, UNCHANGED Others, NEW t \in Tasks,
           \A u \in Tasks \ {t} : task'[u] = task[u],
           \/ /\ task[t].pc # "save"
              /\ ~task'[t].caught
              /\ task'[t].pc \notin SendPcs
           \/ /\ task[t].caught /\ task'[t].caught
              /\ task'[t].key = task[t].key
              /\ task'[t].row = task[t].row
              /\ task[t].pc \notin SendPcs \cup {"save"}
              /\ task'[t].pc \notin SendPcs \cup {"save"},
           \/ task'[t].pc \notin TokenPcs \cup {"get"}
           \/ task'[t].seen # "FAILED"
           \/ /\ At(task[t]) = "get" /\ task'[t].key = task[t].key
              /\ task'[t].seen = task[t].seen
           \/ history[task'[t].key] \cap {"refused", "overlapped"} # {}
           \/ task'[t].pc \in TokenPcs /\ task'[t].then # "get"
    PROVE  Followed'
BY FollowedQuiet

LEMMA FollowedDone ==
    ASSUME Shape, Shape', Followed, UNCHANGED Others, NEW t \in Tasks,
           Done(t), task[t].pc # "save"
    PROVE  Followed'
<1>1. task'[t].pc = "idle" /\ ~task'[t].caught
  BY TaskFields DEF Done, IdleTask
<1> QED
  BY <1>1, DoneFields, FollowedTask DEF SendPcs, TokenPcs

LEMMA FollowedFailed ==
    ASSUME Shape, Shape', Followed, UNCHANGED Others, NEW t \in Tasks,
           Goto(t, "failed"), task[t].pc \notin SendPcs \cup {"save"}, task[t].caught
    PROVE  Followed'
<1>1. /\ task'[t].caught /\ task'[t].key = task[t].key /\ task'[t].row = task[t].row
  BY TaskFields DEF Goto, TaskRecord
<1> QED
  BY <1>1, GotoFields, FollowedTask DEF SendPcs, TokenPcs

LEMMA ConnectionFollowed ==
    ASSUME Shape, Shape', Followed, UNCHANGED Others, NEW t \in Tasks, ConnectionSteps(t)
    PROVE  Followed'
<1>1. task[t].pc \in {"storeGrant", "profile", "refused"} \cup TokenPcs
  BY DEF ConnectionSteps, StoreGrant, SyncProviderConnection, GetAccessToken, Refresh,
         StoreTokens, RefreshFails, TokenPcs
<1>2. task[t].pc \notin SendPcs \cup {"save"}
  BY <1>1 DEF TokenPcs, SendPcs
<1>3. ASSUME \A u \in Tasks \ {t} : task'[u] = task[u],
             task'[t].pc \notin SendPcs \cup {"save"}, task'[t].key = task[t].key,
             task'[t].row = task[t].row, task'[t].caught = task[t].caught,
             task'[t].seen = task[t].seen,
             \/ task'[t].pc \notin TokenPcs \cup {"get"} \/ At(task[t]) = "get"
             \/ task'[t].pc \in TokenPcs /\ task'[t].then # "get"
      PROVE  Followed'
  BY <1>2, <1>3, TaskFields, FollowedTask
<1>4. ASSUME GoOn(t), task[t].pc \in TokenPcs PROVE Followed'
  <2> DEFINE r == [task[t] EXCEPT !.pc = task[t].then, !.then = "idle", !.token = 0]
  <2>1. task[t].then \in {"profile", "post", "get"} /\ At(task[t]) = task[t].then
    BY <1>4, TaskFields DEF Holds, At
  <2>2. task'[t] = r /\ \A u \in Tasks \ {t} : task'[u] = task[u]
    BY <1>4, TaskFields DEF GoOn
  <2>4. /\ r.pc = task[t].then /\ r.key = task[t].key
        /\ r.row = task[t].row /\ r.caught = task[t].caught /\ r.seen = task[t].seen
    BY TaskFields DEF TaskRecord
  <2> HIDE DEF r
  <2> QED
    BY <1>3, <2>1, <2>2, <2>4 DEF TokenPcs, SendPcs
<1>5. ASSUME Refused(t) PROVE Followed'
  <2> DEFINE r == [task[t] EXCEPT !.pc = "refused", !.then = "idle", !.token = 0]
  <2>1. task'[t] = r /\ \A u \in Tasks \ {t} : task'[u] = task[u]
    BY <1>5, TaskFields DEF Refused
  <2>3. /\ r.pc = "refused" /\ r.key = task[t].key
        /\ r.row = task[t].row /\ r.caught = task[t].caught /\ r.seen = task[t].seen
    BY TaskFields DEF TaskRecord
  <2> HIDE DEF r
  <2> QED
    BY <1>3, <2>1, <2>3 DEF TokenPcs, SendPcs
<1>6. ASSUME NEW p \in {"refresh", "storeTokens"}, NEW n, task[t].pc \in TokenPcs,
             task' = [task EXCEPT ![t].pc = p, ![t].token = n]
      PROVE  Followed'
  <2> DEFINE r == [task[t] EXCEPT !.pc = p, !.token = n]
  <2>1. task'[t] = r /\ \A u \in Tasks \ {t} : task'[u] = task[u]
    BY <1>6, TaskFields
  <2>3. /\ r.pc = p /\ r.key = task[t].key /\ r.then = task[t].then
        /\ r.row = task[t].row /\ r.caught = task[t].caught /\ r.seen = task[t].seen
    BY TaskFields DEF TaskRecord
  <2>5. At(task[t]) = task[t].then
    BY <1>6 DEF At
  <2> HIDE DEF r
  <2> QED
    BY <1>3, <2>1, <2>3, <2>5 DEF TokenPcs, SendPcs
<1>7. CASE StoreGrant(t)
  <2>1. /\ task'[t].pc = "tokens" /\ task'[t].then = "profile" /\ ~task'[t].caught
        /\ \A u \in Tasks \ {t} : task'[u] = task[u]
    BY <1>7, TaskFields DEF StoreGrant, TokenThen, IdleTask
  <2> QED
    BY <1>2, <2>1, FollowedTask DEF TokenPcs, SendPcs
<1>8. CASE SyncProviderConnection(t)
  BY <1>2, <1>8, FollowedDone DEF SyncProviderConnection
<1>9. CASE GetAccessToken(t)
  BY <1>4, <1>6, <1>9 DEF GetAccessToken, TokenPcs
<1>10. CASE Refresh(t)
  BY <1>5, <1>6, <1>10 DEF Refresh, TokenPcs
<1>11. CASE StoreTokens(t)
  BY <1>4, <1>11 DEF StoreTokens, TokenPcs
<1>12. CASE RefreshFails(t)
  BY <1>2, <1>12, FollowedDone, FollowedFailed DEF RefreshFails, Rejected
<1> QED
  BY <1>7, <1>8, <1>9, <1>10, <1>11, <1>12 DEF ConnectionSteps
\* A step of one task, about one key.
LEMMA FollowedKey ==
    ASSUME Shape, Shape', Followed, NEW t \in Tasks, NEW k \in Keys,
           \A u \in Tasks \ {t} : task'[u] = task[u],
           \A j \in Keys \ {k} : /\ rows'[j] = rows[j]
                                 /\ posted'[j] = posted[j]
                                 /\ history'[j] = history[j],
           history[k] \subseteq history'[k],
           task[t].pc = "save" => task[t].key = k,
           task'[t].caught \/ task'[t].pc \in SendPcs => task'[t].key = k,
           \/ task'[t].pc \notin TokenPcs \cup {"get"}
           \/ task'[t].pc \in TokenPcs /\ task'[t].then # "get",
           Alone(k)', Once(k)',
           k \in Invoices =>
             \A i \in 1..Len(rows'[k]) :
               rows'[k][i].id # 0 /\ rows'[k][i].status = "FAILED" =>
                 \/ /\ i \in 1..Len(rows[k])
                    /\ rows[k][i].id # 0 /\ rows[k][i].status = "FAILED"
                 \/ history'[k] \cap {"refused", "overlapped"} # {}
    PROVE  Followed'
<1>1. \A j \in Keys : history[j] \subseteq history'[j]
  OBVIOUS
<1>2. \A j \in Keys : Alone(j)' /\ Once(j)'
  BY OtherKeys
<1>3. SeenFailed'
  BY <1>1, SeenKept
<1>4. KnownIsFollowed'
  BY <1>1, KnownKept
<1> QED
  BY <1>2, <1>3, <1>4 DEF Followed

\* Two submissions ran at the same time.
LEMMA Overlapped ==
    ASSUME NEW k, "overlapped" \in history'[k]
    PROVE  Alone(k)' /\ Once(k)'
BY DEF Alone, Once

\* The only row there is.
LEMMA OnlyRow ==
    ASSUME Shape, NEW k \in Keys, NEW i \in 1..Len(rows[k]), Len(rows[k]) <= 1
    PROVE  i = 1 /\ rows[k] # <<>>
<1>1. rows[k] \in Seq(Row) /\ Len(rows[k]) \in Nat
  BY LenProperties DEF Shape, World
<1>2. i = 1 /\ Len(rows[k]) # 0
  BY <1>1
<1> QED
  BY <1>2

\* A task that submits a key.
LEMMA Sends ==
    ASSUME Shape, NEW t \in Tasks, task[t].pc \in SendPcs \cup {"post", "save", "failed"}
    PROVE  t \in Sending(task[t].key)
BY TaskFields DEF Sending, SendPcs, Holds, At, TokenPcs

LEMMA StartSendFollowed ==
    ASSUME Shape, Shape', Followed, NEW t \in Tasks, NEW k \in Keys, StartSend(t, k)
    PROVE  Followed'
<1>1. task[t] = IdleTask /\ task[t].pc = "idle" /\ ~task[t].caught
  BY TaskFields DEF StartSend, Idle, Holds, IdleTask
<1>2. UNCHANGED <<rows, posted>>
  BY DEF StartSend
<1>3. rows[k] \in Seq(Row) /\ DOMAIN rows[k] = 1..Len(rows[k]) /\ Len(rows[k]) \in Nat
  BY LenProperties DEF Shape, World
<1>4. PICK i \in IF rows[k] = <<>> THEN {0} ELSE DOMAIN rows[k] :
        LET known == IF i = 0 THEN FALSE ELSE Submitted(k, rows[k][i]) IN
        \/ /\ k \in Invoices
           /\ task' = [task EXCEPT ![t].pc = "refuse", ![t].key = k, ![t].row = i]
        \/ /\ known
           /\ task' = IF k \in Invoices
                      THEN [task EXCEPT ![t].pc = "sync", ![t].key = k] ELSE task
        \/ /\ ~known
           /\ task' = [task EXCEPT ![t].pc = IF i = 0 THEN "create" ELSE "mark",
                                   ![t].key = k, ![t].row = i]
  BY DEF StartSend
<1>5. (i = 0 /\ rows[k] = <<>>) \/ i \in 1..Len(rows[k])
  BY <1>3, <1>4
<1>6. /\ \A u \in Tasks \ {t} : task'[u] = task[u]
      /\ ~task'[t].caught
      /\ task'[t].pc \in {"refuse", "sync", "idle", "create", "mark"}
      /\ task'[t].pc \in SendPcs => task'[t].key = k
      /\ task'[t].pc = "create" => i = 0
      /\ task'[t].pc = "mark" => i \in 1..Len(rows[k]) /\ ~Submitted(k, rows[k][i])
                                 /\ task'[t].row = i
  <2>1. CASE task' = [task EXCEPT ![t].pc = "refuse", ![t].key = k, ![t].row = i]
    BY <1>1, <2>1, TaskFields DEF TaskRecord, SendPcs
  <2>2. CASE task' = [task EXCEPT ![t].pc = "sync", ![t].key = k]
    BY <1>1, <2>2, TaskFields DEF TaskRecord, SendPcs
  <2>3. CASE task' = task
    BY <1>1, <2>3, TaskFields DEF SendPcs
  <2>4. CASE i = 0 /\ task' = [task EXCEPT ![t].pc = "create", ![t].key = k, ![t].row = i]
    BY <1>1, <2>4, TaskFields DEF TaskRecord, SendPcs
  <2>5. CASE /\ i # 0 /\ ~Submitted(k, rows[k][i])
             /\ task' = [task EXCEPT ![t].pc = "mark", ![t].key = k, ![t].row = i]
    BY <1>1, <1>5, <2>5, TaskFields DEF TaskRecord, SendPcs
  <2> QED
    BY <1>4, <2>1, <2>2, <2>3, <2>4, <2>5
<1>7. /\ history[k] \subseteq history'[k]
      /\ \A j \in Keys \ {k} : history'[j] = history[j]
      /\ Sending(k) # {} => "overlapped" \in history'[k]
  BY DEF StartSend, Happened, Shape, World
<1>8. CASE Sending(k) # {}
  <2>1. Alone(k)' /\ Once(k)'
    BY <1>7, <1>8, Overlapped
  <2> QED
    BY <1>1, <1>2, <1>6, <1>7, <2>1, FollowedKey DEF TokenPcs
<1>9. CASE Sending(k) = {}
  <2>1. history' = history
    BY <1>9 DEF StartSend
  <2>2. Sending(k)' \subseteq {t}
    <3>1. ASSUME NEW u \in Tasks, u # t, u \in Sending(k)' PROVE u \in Sending(k)
      BY <1>6, <3>1 DEF Sending
    <3>2. Sending(k)' \subseteq Tasks
      BY DEF Sending
    <3> QED
      BY <1>9, <3>1, <3>2
  <2>3. Alone(k)'
    <3> SUFFICES ASSUME "overlapped" \notin history[k]
                 PROVE  /\ \A x, y \in Sending(k)' : x = y
                        /\ Len(rows[k]) <= 1
                        /\ task'[t].pc = "create" => rows[k] = <<>>
                        /\ k \in Invoices /\ (task'[t].caught \/ task'[t].pc = "mark")
                             => rows[k][task'[t].row].id = 0
      BY <1>2, <2>1, <2>2 DEF Alone
    <3>1. Len(rows[k]) <= 1
      BY DEF Followed, Alone
    <3>2. task'[t].pc = "create" => rows[k] = <<>>
      BY <1>5, <1>6
    <3>3. k \in Invoices /\ task'[t].pc = "mark" => rows[k][task'[t].row].id = 0
      BY <1>6 DEF Submitted
    <3> QED
      BY <1>6, <2>2, <3>1, <3>2, <3>3
  <2>4. Once(k)'
    <3> SUFFICES ASSUME history[k] \cap {"blind", "overlapped"} = {}
                 PROVE  /\ posted[k] # 0 =>
                             /\ posted[k] = 1
                             /\ rows[k] # <<>> /\ Submitted(k, rows[k][1])
                        /\ t \in Sending(k)' /\ task'[t].pc \notin {"save", "refuse"}
                             => posted[k] = 0
      BY <1>2, <2>1, <2>2 DEF Once, Submitted
    <3>1. \A u \in Tasks : ~(task[u].pc = "save" /\ task[u].key = k)
      BY <1>9, Sends
    <3>2. posted[k] # 0 => posted[k] = 1 /\ rows[k] # <<>> /\ Submitted(k, rows[k][1])
      BY <3>1 DEF Followed, Once
    <3>3. Len(rows[k]) <= 1
      BY DEF Followed, Alone
    <3>4. ASSUME t \in Sending(k)', task'[t].pc \notin {"save", "refuse"}, posted[k] # 0
          PROVE  FALSE
      <4>1. task'[t].pc \in {"create", "mark"}
        BY <1>6, <3>4 DEF Sending
      <4>2. i \in 1..Len(rows[k]) /\ ~Submitted(k, rows[k][i])
        BY <1>5, <1>6, <3>2, <3>4, <4>1
      <4>3. i = 1
        BY <3>3, <4>2, OnlyRow
      <4> QED
        BY <3>2, <3>4, <4>2, <4>3
    <3> QED
      BY <3>2, <3>4
  <2>5. \A n \in 1..Len(rows'[k]) : rows'[k][n] = rows[k][n] /\ n \in 1..Len(rows[k])
    BY <1>2
  <2> QED
    BY <1>1, <1>2, <1>6, <1>7, <2>3, <2>4, <2>5, FollowedKey DEF TokenPcs
<1> QED
  BY <1>8, <1>9
\* The task that submits a key is the only one, unless submissions overlapped.
LEMMA Sole ==
    ASSUME Followed, NEW t \in Tasks, NEW k \in Keys, t \in Sending(k),
           "overlapped" \notin history[k], \A u \in Tasks \ {t} : task'[u] = task[u]
    PROVE  /\ Sending(k)' \subseteq {t}
           /\ Len(rows[k]) <= 1
           /\ k \in Invoices /\ (task[t].caught \/ task[t].pc = "mark")
                => rows[k][task[t].row].id = 0
<1>1. /\ \A u, v \in Sending(k) : u = v
      /\ Len(rows[k]) <= 1
      /\ k \in Invoices /\ (task[t].caught \/ task[t].pc = "mark")
           => rows[k][task[t].row].id = 0
  BY DEF Followed, Alone
<1>2. ASSUME NEW u \in Tasks, u # t, u \in Sending(k)' PROVE u \in Sending(k)
  BY <1>2 DEF Sending
<1>3. Sending(k)' \subseteq Tasks
  BY DEF Sending
<1> QED
  BY <1>1, <1>2, <1>3

\* The task that submits a key ends.
LEMMA SendEnds ==
    ASSUME Followed, NEW t \in Tasks, NEW k \in Keys, t \in Sending(k), t \notin Sending(k)',
           \A u \in Tasks \ {t} : task'[u] = task[u],
           history[k] \subseteq history'[k],
           "overlapped" \notin history[k] => Len(rows'[k]) <= 1,
           history'[k] \cap {"blind", "overlapped"} = {} /\ posted'[k] # 0
             => posted'[k] = 1 /\ rows'[k] # <<>> /\ Submitted(k, rows'[k][1])
    PROVE  Alone(k)' /\ Once(k)'
<1>1. "overlapped" \notin history'[k] => Sending(k)' = {}
  BY Sole
<1>2. Alone(k)'
  BY <1>1 DEF Alone
<1>3. history'[k] \cap {"blind", "overlapped"} = {} => Sending(k)' = {}
  BY <1>1
<1>4. Once(k)'
  BY <1>3 DEF Once, Submitted
<1> QED
  BY <1>2, <1>4

\* It goes on: it has posted nothing, or is about to save the answer.
LEMMA SendGoesOn ==
    ASSUME Followed, NEW t \in Tasks, NEW k \in Keys, t \in Sending(k),
           \A u \in Tasks \ {t} : task'[u] = task[u],
           history[k] \subseteq history'[k],
           task'[t].pc # "create",
           "overlapped" \notin history[k]
             => /\ Len(rows'[k]) <= 1
                /\ k \in Invoices => rows'[k][task'[t].row].id = 0,
           history'[k] \cap {"blind", "overlapped"} = {} /\ posted'[k] # 0
             => posted'[k] = 1 /\ task'[t].pc = "save" /\ task'[t].key = k
    PROVE  Alone(k)' /\ Once(k)'
<1>1. "overlapped" \notin history'[k] => Sending(k)' \subseteq {t}
  BY Sole
<1>2. Alone(k)'
  BY <1>1 DEF Alone
<1>3. history'[k] \cap {"blind", "overlapped"} = {} => Sending(k)' \subseteq {t}
  BY <1>1
<1>4. Once(k)'
  BY <1>3 DEF Once
<1> QED
  BY <1>2, <1>4

\* Nothing was posted by who is about to post, or has failed.
LEMMA NothingPosted ==
    ASSUME Followed, NEW t \in Tasks, NEW k \in Keys, t \in Sending(k),
           task[t].pc \notin {"save", "refuse"},
           history[k] \cap {"blind", "overlapped"} = {}
    PROVE  posted[k] = 0
BY DEF Followed, Once

\* Writing a status changes no number.
LEMMA StatusWritten ==
    ASSUME Shape, NEW k \in Keys, NEW i \in 1..Len(rows[k]), NEW status \in Status,
           rows' = [rows EXCEPT ![k][i].status = status]
    PROVE  /\ Len(rows'[k]) = Len(rows[k])
           /\ \A j \in Keys \ {k} : rows'[j] = rows[j]
           /\ \A n \in 1..Len(rows[k]) :
                /\ rows'[k][n].id = rows[k][n].id
                /\ rows'[k][n].status = IF n = i THEN status ELSE rows[k][n].status
<1>1. rows[k] \in Seq(Row) /\ rows \in [Keys -> Seq(Row)]
  BY DEF Shape, World
<1>2. PICK s : s = rows[k]
  OBVIOUS
<1>3. PICK v : v = [s[i] EXCEPT !.status = status]
  OBVIOUS
<1>4. s[i] \in Row
  BY <1>1, <1>2, ElementOfSeq
<1>5. v.id = s[i].id /\ v.status = status
  BY <1>3, <1>4 DEF Row
<1>6. rows'[k] = [s EXCEPT ![i] = v] /\ \A j \in Keys \ {k} : rows'[j] = rows[j]
  BY <1>1, <1>2, <1>3
<1>7. s \in Seq(Row) /\ i \in 1..Len(s)
  BY <1>1, <1>2
<1>8. /\ Len([s EXCEPT ![i] = v]) = Len(s)
      /\ \A n \in 1..Len(s) : [s EXCEPT ![i] = v][n] = IF n = i THEN v ELSE s[n]
  BY <1>7, ExceptSeq
<1>9. \A n \in 1..Len(s) : rows'[k][n] = IF n = i THEN v ELSE s[n]
  BY <1>6, <1>8
<1>10. ASSUME NEW n \in 1..Len(s)
       PROVE  /\ rows'[k][n].id = s[n].id
              /\ rows'[k][n].status = IF n = i THEN status ELSE s[n].status
  <2>1. CASE n = i
    <3>1. rows'[k][n] = v
      BY <1>9, <2>1
    <3>2. v.id = s[n].id
      BY <1>5, <2>1
    <3>3. rows'[k][n].id = s[n].id
      BY <3>1, <3>2, Zenon
    <3>4. rows'[k][n].status = status
      BY <1>5, <3>1, Zenon
    <3> QED
      BY <2>1, <3>3, <3>4, Zenon
  <2>2. CASE n # i
    BY <1>9, <2>2
  <2> QED
    BY <2>1, <2>2
<1>11. Len(rows'[k]) = Len(s)
  BY <1>6, <1>8
<1> QED
  BY <1>2, <1>6, <1>10, <1>11

LEMMA CreateFollowed ==
    ASSUME Shape, Shape', Followed, NEW t \in Tasks, Create(t)
    PROVE  Followed'
<1>1. PICK k : k = task[t].key
  OBVIOUS
<1>2. t \in Sending(k) /\ k \in Keys
  <2>1. t \in Sending(task[t].key) /\ task[t].key \in Keys
    BY Sends, TaskFields DEF Create, SendPcs, Holds, At, TokenPcs, WorkPcs
  <2> QED
    BY <1>1, <2>1
<1>3. task[t].pc = "create" /\ ~task[t].caught
  BY TaskFields DEF Create, Holds, At, TokenPcs
<1>4. UNCHANGED <<posted, history>>
  BY DEF Create
<1>5. CASE Unique(k) /\ rows[k] # <<>>
  BY <1>1, <1>3, <1>5, FollowedDone DEF Create, Others
<1>6. CASE ~(Unique(k) /\ rows[k] # <<>>)
  <2>1. PICK n : n = Len(rows[k]) + 1
    OBVIOUS
  <2>2. /\ task' = [task EXCEPT ![t].pc = "mark", ![t].row = n]
        /\ rows' = [rows EXCEPT ![k] = Append(rows[k], NewRow)]
    BY <1>1, <1>6, <2>1 DEF Create
  <2>3. /\ task'[t].pc = "mark" /\ task'[t].row = n
        /\ task'[t].key = k /\ ~task'[t].caught
        /\ \A u \in Tasks \ {t} : task'[u] = task[u]
    BY <1>1, <1>3, <2>2, TaskFields DEF TaskRecord
  <2>4. rows[k] \in Seq(Row) /\ Len(rows[k]) \in Nat /\ NewRow \in Row /\ NewRow.id = 0
    BY <1>2, LenProperties DEF Shape, World, NewRow, Row, Status
  <2>5. /\ Len(rows'[k]) = n
        /\ \A m \in 1..Len(rows[k]) : rows'[k][m] = rows[k][m]
        /\ rows'[k][n] = NewRow
        /\ \A j \in Keys \ {k} : rows'[j] = rows[j]
    <3>1. rows'[k] = Append(rows[k], NewRow) /\ \A j \in Keys \ {k} : rows'[j] = rows[j]
      BY <1>2, <2>2 DEF Shape, World
    <3>2. /\ Len(Append(rows[k], NewRow)) = Len(rows[k]) + 1
          /\ \A m \in 1..Len(rows[k]) : Append(rows[k], NewRow)[m] = rows[k][m]
          /\ Append(rows[k], NewRow)[Len(rows[k]) + 1] = NewRow
      BY <2>4, RowAdded
    <3> QED
      BY <2>1, <3>1, <3>2
  <2>6. "overlapped" \notin history[k] => Len(rows[k]) = 0
    <3>1. "overlapped" \notin history[k] => rows[k] = <<>>
      BY <1>2, <1>3 DEF Followed, Alone
    <3> QED
      BY <3>1
  <2>7. "overlapped" \notin history[k]
          => Len(rows'[k]) <= 1 /\ rows'[k][task'[t].row].id = 0
    BY <2>1, <2>3, <2>4, <2>5, <2>6
  <2>8. history'[k] \cap {"blind", "overlapped"} = {} => posted'[k] = 0
    BY <1>2, <1>3, <1>4, NothingPosted
  <2>9. Alone(k)' /\ Once(k)'
    BY <1>2, <1>4, <2>3, <2>7, <2>8, SendGoesOn
  <2>10. \A m \in 1..Len(rows'[k]) : rows'[k][m].id # 0 =>
           m \in 1..Len(rows[k]) /\ rows'[k][m] = rows[k][m]
    BY <2>1, <2>4, <2>5
  <2> QED
    BY <1>2, <1>3, <1>4, <2>3, <2>5, <2>9, <2>10, FollowedKey DEF TokenPcs
<1> QED
  BY <1>5, <1>6
LEMMA RefuseFollowed ==
    ASSUME Shape, Shape', Followed, NEW t \in Tasks, Refuse(t)
    PROVE  Followed'
<1>1. PICK k : k = task[t].key
  OBVIOUS
<1>2. PICK i : i = task[t].row
  OBVIOUS
<1>3. /\ t \in Sending(k) /\ k \in Keys /\ k \in Invoices
      /\ i # 0 => i \in 1..Len(rows[k])
  <2>1. /\ t \in Sending(task[t].key) /\ task[t].key \in Invoices
        /\ task[t].row # 0 => task[t].row \in 1..Len(rows[task[t].key])
    BY Sends, TaskFields DEF Refuse, SendPcs, Holds, At, TokenPcs
  <2> QED
    BY <1>1, <1>2, <2>1 DEF Keys
<1>4. /\ task'[t].pc = "idle" /\ ~task'[t].caught
      /\ \A u \in Tasks \ {t} : task'[u] = task[u]
  BY DoneFields, TaskFields DEF Refuse, Done, IdleTask
<1>5. t \notin Sending(k)'
  BY <1>4 DEF Sending
<1>6. /\ "refused" \in history'[k] /\ history[k] \subseteq history'[k]
      /\ history'[k] \subseteq history[k] \cup {"refused"}
      /\ \A j \in Keys \ {k} : history'[j] = history[j]
  BY <1>1, <1>3 DEF Refuse, Happened, Shape, World
<1>7. posted' = posted
  BY DEF Refuse
<1>8. "overlapped" \notin history[k] => Len(rows[k]) <= 1
  BY <1>3 DEF Followed, Alone
<1>9. ASSUME history'[k] \cap {"blind", "overlapped"} = {}, posted'[k] # 0
      PROVE  posted'[k] = 1 /\ rows[k] # <<>> /\ rows[k][1].id # 0
  <2>1. history[k] \cap {"blind", "overlapped"} = {} /\ "overlapped" \notin history[k]
    BY <1>6, <1>9
  <2>2. \A u \in Tasks : ~(task[u].pc = "save" /\ task[u].key = k)
    <3> SUFFICES ASSUME NEW u \in Tasks, task[u].pc = "save", task[u].key = k PROVE FALSE
      OBVIOUS
    <3>1. u \in Sending(k)
      BY Sends
    <3>2. u = t
      BY <1>3, <2>1, <3>1 DEF Followed, Alone
    <3> QED
      BY <3>2 DEF Refuse
  <2> QED
    BY <1>3, <1>7, <1>9, <2>1, <2>2 DEF Followed, Once, Submitted
<1>10. /\ \A j \in Keys \ {k} : rows'[j] = rows[j]
       /\ "overlapped" \notin history[k] => Len(rows'[k]) <= 1
       /\ rows[k] # <<>> /\ rows[k][1].id # 0
            => rows'[k] # <<>> /\ rows'[k][1].id # 0
  <2>1. rows[k] \in Seq(Row) /\ rows'[k] \in Seq(Row)
        /\ Len(rows[k]) \in Nat /\ Len(rows'[k]) \in Nat
    BY <1>3, LenProperties DEF Shape, World
  <2>2. CASE i # 0
    <3>1. rows' = [rows EXCEPT ![k][i].status = "FAILED"] /\ i \in 1..Len(rows[k])
      BY <1>1, <1>2, <1>3, <2>2 DEF Refuse
    <3>2. /\ Len(rows'[k]) = Len(rows[k])
          /\ \A j \in Keys \ {k} : rows'[j] = rows[j]
          /\ \A n \in 1..Len(rows[k]) : rows'[k][n].id = rows[k][n].id
      BY <1>3, <3>1, StatusWritten DEF Status
    <3>3. Len(rows'[k]) # 0 /\ 1 \in 1..Len(rows[k])
      BY <2>1, <3>1, <3>2
    <3> QED
      BY <1>8, <3>2, <3>3
  <2>3. CASE i = 0 /\ rows[k] = <<>>
    <3>1. rows' = [rows EXCEPT ![k] = <<[NewRow EXCEPT !.status = "FAILED"]>>]
      BY <1>1, <1>2, <2>3 DEF Refuse
    <3>2. /\ rows'[k] = <<[NewRow EXCEPT !.status = "FAILED"]>>
          /\ \A j \in Keys \ {k} : rows'[j] = rows[j]
      BY <1>3, <3>1 DEF Shape, World
    <3>3. Len(rows'[k]) = 1
      BY <3>2
    <3> QED
      BY <2>3, <3>2, <3>3
  <2>4. CASE i = 0 /\ rows[k] # <<>>
    <3>1. rows' = rows
      BY <1>1, <1>2, <2>4 DEF Refuse
    <3> QED
      BY <1>8, <3>1
  <2> QED
    BY <2>2, <2>3, <2>4
<1>11. history'[k] \cap {"blind", "overlapped"} = {} /\ posted'[k] # 0
         => posted'[k] = 1 /\ rows'[k] # <<>> /\ Submitted(k, rows'[k][1])
  BY <1>3, <1>9, <1>10 DEF Submitted
<1>12. Alone(k)' /\ Once(k)'
  BY <1>3, <1>4, <1>5, <1>6, <1>10, <1>11, SendEnds
<1>13. \A j \in Keys \ {k} : /\ rows'[j] = rows[j]
                             /\ posted'[j] = posted[j]
                             /\ history'[j] = history[j]
  BY <1>6, <1>7, <1>10
<1>14. task[t].pc # "save" /\ task'[t].pc \notin SendPcs \cup TokenPcs \cup {"get"}
  BY <1>4 DEF Refuse, SendPcs, TokenPcs
<1> QED
  BY <1>3, <1>4, <1>6, <1>12, <1>13, <1>14, FollowedKey

LEMMA MarkFollowed ==
    ASSUME Shape, Shape', Followed, NEW t \in Tasks, Mark(t)
    PROVE  Followed'
<1>1. PICK k : k = task[t].key
  OBVIOUS
<1>2. PICK i : i = task[t].row
  OBVIOUS
<1>3. /\ t \in Sending(k) /\ k \in Keys /\ i \in 1..Len(rows[k])
  <2>1. /\ t \in Sending(task[t].key) /\ task[t].key \in Keys
        /\ task[t].row \in 1..Len(rows[task[t].key])
    BY Sends, TaskFields DEF Mark, SendPcs, Holds, At, TokenPcs, WorkPcs
  <2> QED
    BY <1>1, <1>2, <2>1
<1>4. /\ \A u \in Tasks \ {t} : task'[u] = task[u]
      /\ task'[t].key = k /\ task'[t].row = i
      /\ \/ task'[t].pc = "tokens" /\ task'[t].then = "post"
         \/ task'[t].pc = "failed"
  <2>1. ASSUME task' = [task EXCEPT ![t] = [TokenThen(@, "post") EXCEPT !.caught = TRUE]]
        PROVE  /\ \A u \in Tasks \ {t} : task'[u] = task[u]
               /\ task'[t].key = task[t].key /\ task'[t].row = task[t].row
               /\ task'[t].pc = "tokens" /\ task'[t].then = "post"
    BY <2>1, TaskFields DEF TokenThen, TaskRecord
  <2>2. ASSUME task' = [task EXCEPT ![t].pc = "failed", ![t].caught = TRUE]
        PROVE  /\ \A u \in Tasks \ {t} : task'[u] = task[u]
               /\ task'[t].key = task[t].key /\ task'[t].row = task[t].row
               /\ task'[t].pc = "failed"
    BY <2>2, TaskFields DEF TaskRecord
  <2> QED
    BY <1>1, <1>2, <2>1, <2>2 DEF Mark
<1>5. UNCHANGED <<posted, history>> /\ task[t].pc = "mark"
  BY DEF Mark
<1>6. rows' = [rows EXCEPT ![k][i].status = "SUBMITTING"]
  BY <1>1, <1>2 DEF Mark
<1>7. /\ Len(rows'[k]) = Len(rows[k])
      /\ \A j \in Keys \ {k} : rows'[j] = rows[j]
      /\ \A n \in 1..Len(rows[k]) :
           /\ rows'[k][n].id = rows[k][n].id
           /\ rows'[k][n].status = IF n = i THEN "SUBMITTING" ELSE rows[k][n].status
  <2>1. "SUBMITTING" \in Status
    BY DEF Status
  <2> QED
    BY <1>3, <1>6, <2>1, StatusWritten
<1>8. ASSUME "overlapped" \notin history[k]
      PROVE  /\ Len(rows'[k]) <= 1
             /\ k \in Invoices => rows'[k][task'[t].row].id = 0
  <2>1. /\ Len(rows[k]) <= 1
        /\ k \in Invoices => rows[k][task[t].row].id = 0
    BY <1>3, <1>4, <1>5, <1>8, Sole
  <2> QED
    BY <1>2, <1>3, <1>4, <1>7, <2>1
<1>9. history'[k] \cap {"blind", "overlapped"} = {} => posted'[k] = 0
  BY <1>3, <1>5, NothingPosted
<1>10. task'[t].pc # "create" /\ history[k] \subseteq history'[k]
  BY <1>4, <1>5
<1>11. Alone(k)' /\ Once(k)'
  BY <1>3, <1>4, <1>8, <1>9, <1>10, SendGoesOn
<1>12. \A n \in 1..Len(rows'[k]) : rows'[k][n].status = "FAILED" =>
         n \in 1..Len(rows[k]) /\ rows'[k][n].id = rows[k][n].id
         /\ rows[k][n].status = "FAILED"
  BY <1>7
<1>13. /\ \A j \in Keys \ {k} : /\ rows'[j] = rows[j]
                                /\ posted'[j] = posted[j]
                                /\ history'[j] = history[j]
       /\ task[t].pc # "save"
       /\ \/ task'[t].pc \notin TokenPcs \cup {"get"}
          \/ task'[t].pc \in TokenPcs /\ task'[t].then # "get"
  BY <1>4, <1>5, <1>7 DEF TokenPcs
<1> QED
  BY <1>3, <1>4, <1>10, <1>11, <1>12, <1>13, FollowedKey

LEMMA PostFollowed ==
    ASSUME Shape, Shape', Followed, NEW t \in Tasks, Post(t)
    PROVE  Followed'
<1>1. PICK k : k = task[t].key
  OBVIOUS
<1>2. PICK i : i = task[t].row
  OBVIOUS
<1>3. t \in Sending(k) /\ k \in Keys /\ task[t].caught /\ task[t].pc = "post"
  <2>1. /\ t \in Sending(task[t].key) /\ task[t].key \in Keys /\ task[t].caught
        /\ task[t].pc = "post"
    BY Sends, TaskFields DEF Post, Holds, At, TokenPcs, WorkPcs
  <2> QED
    BY <1>1, <2>1
<1>4. CASE Goto(t, "failed") /\ UNCHANGED <<posted, history>>
  BY <1>3, <1>4, FollowedFailed DEF Post, Others, SendPcs
<1>5. CASE /\ posted' = [posted EXCEPT ![k] = @ + 1]
           /\ \/ /\ task' = [task EXCEPT ![t].pc = "save", ![t].id = posted[k] + 1]
                 /\ UNCHANGED history
              \/ /\ Goto(t, "failed")
                 /\ Happened(k, "blind")
  <2>1. /\ \A u \in Tasks \ {t} : task'[u] = task[u]
        /\ task'[t].key = k /\ task'[t].row = i
        /\ \/ task'[t].pc = "save" /\ history' = history
           \/ task'[t].pc = "failed" /\ Happened(k, "blind")
    <3>1. ASSUME task' = [task EXCEPT ![t].pc = "save", ![t].id = posted[k] + 1]
          PROVE  /\ \A u \in Tasks \ {t} : task'[u] = task[u]
                 /\ task'[t].key = task[t].key /\ task'[t].row = task[t].row
                 /\ task'[t].pc = "save"
      BY <3>1, TaskFields DEF TaskRecord
    <3>2. ASSUME Goto(t, "failed")
          PROVE  /\ \A u \in Tasks \ {t} : task'[u] = task[u]
                 /\ task'[t].key = task[t].key /\ task'[t].row = task[t].row
                 /\ task'[t].pc = "failed"
      BY <3>2, TaskFields DEF Goto, TaskRecord
    <3> QED
      BY <1>1, <1>2, <1>5, <3>1, <3>2
  <2>2. /\ history[k] \subseteq history'[k]
        /\ \A j \in Keys \ {k} : history'[j] = history[j]
        /\ task'[t].pc = "failed" => "blind" \in history'[k]
    BY <1>3, <2>1 DEF Happened, Shape, World
  <2>3. /\ rows' = rows /\ \A j \in Keys \ {k} : posted'[j] = posted[j]
        /\ posted'[k] = posted[k] + 1
    BY <1>3, <1>5 DEF Post, Shape, World
  <2>4. "overlapped" \notin history[k]
          => /\ Len(rows'[k]) <= 1
             /\ k \in Invoices => rows'[k][task'[t].row].id = 0
    BY <1>2, <1>3, <2>1, <2>3, Sole
  <2>5. ASSUME history'[k] \cap {"blind", "overlapped"} = {}
        PROVE  posted'[k] = 1 /\ task'[t].pc = "save" /\ task'[t].key = k
    <3>1. posted[k] = 0
      BY <1>3, <2>2, <2>5, NothingPosted
    <3> QED
      BY <2>1, <2>2, <2>3, <2>5, <3>1
  <2>6. task'[t].pc # "create"
    BY <2>1
  <2>7. Alone(k)' /\ Once(k)'
    BY <1>3, <2>1, <2>2, <2>4, <2>5, <2>6, SendGoesOn
  <2>8. /\ \A j \in Keys \ {k} : /\ rows'[j] = rows[j]
                                 /\ posted'[j] = posted[j]
                                 /\ history'[j] = history[j]
        /\ task[t].pc # "save"
        /\ task'[t].pc \notin TokenPcs \cup {"get"}
        /\ \A n \in 1..Len(rows'[k]) : n \in 1..Len(rows[k]) /\ rows'[k][n] = rows[k][n]
    BY <1>3, <2>1, <2>2, <2>3 DEF TokenPcs
  <2> QED
    BY <1>3, <2>1, <2>2, <2>7, <2>8, FollowedKey
<1> QED
  BY <1>1, <1>4, <1>5 DEF Post

\* The answer is written.
LEMMA SavedFollowed ==
    ASSUME Shape, Shape', Followed, NEW t \in Tasks, Save(t), ~Goto(t, "failed")
    PROVE  Followed'
<1>1. PICK k : k = task[t].key
  OBVIOUS
<1>2. PICK i : i = task[t].row
  OBVIOUS
<1>3. /\ t \in Sending(k) /\ k \in Keys /\ i \in 1..Len(rows[k])
      /\ task[t].id \in Nat /\ task[t].id # 0
  <2>1. /\ t \in Sending(task[t].key) /\ task[t].key \in Keys
        /\ task[t].row \in 1..Len(rows[task[t].key])
        /\ task[t].id \in 1..posted[task[t].key]
    BY Sends, TaskFields DEF Save, Holds, At, TokenPcs, WorkPcs
  <2> QED
    BY <1>1, <1>2, <2>1, TaskFields
<1>w. /\ rows' = [rows EXCEPT ![k][i] = [status |-> "SUBMITTED", id |-> task[t].id]]
      /\ task' = [task EXCEPT ![t] =
            IF k \in Invoices
            THEN [IdleTask EXCEPT !.pc = "sync", !.key = k, !.row = i, !.caught = SyncIsCaught]
            ELSE IdleTask]
      /\ UNCHANGED <<posted, history>>
  BY <1>1, <1>2 DEF Save
<1>4. /\ task'[t].pc \in {"idle", "sync"} /\ ~task'[t].caught
      /\ \A u \in Tasks \ {t} : task'[u] = task[u]
  BY <1>w, TaskFields DEF IdleTask, SyncIsCaught
<1>5. t \notin Sending(k)'
  BY <1>4 DEF Sending
<1>6. UNCHANGED <<posted, history>> /\ task[t].pc = "save"
  BY <1>w DEF Save
<1>7. rows[k] \in Seq(Row) /\ rows \in [Keys -> Seq(Row)] /\ Len(rows[k]) \in Nat
  BY <1>3, LenProperties DEF Shape, World
<1>8. PICK v : v = [status |-> "SUBMITTED", id |-> task[t].id]
  OBVIOUS
<1>9. v \in Row /\ v.status = "SUBMITTED" /\ v.id # 0
  BY <1>3, <1>8 DEF Row, Status
<1>10. rows'[k] = [rows[k] EXCEPT ![i] = v] /\ \A j \in Keys \ {k} : rows'[j] = rows[j]
  BY <1>3, <1>7, <1>8, <1>w
<1>11. /\ Len(rows'[k]) = Len(rows[k])
       /\ \A n \in 1..Len(rows[k]) : rows'[k][n] = IF n = i THEN v ELSE rows[k][n]
  BY <1>3, <1>7, <1>9, <1>10, RowWritten
<1>12. "overlapped" \notin history[k] => Len(rows[k]) <= 1
  BY <1>3 DEF Followed, Alone
<1>13. "overlapped" \notin history[k] => i = 1 /\ rows'[k] # <<>>
  <2>1. Len(rows'[k]) # 0
    BY <1>3, <1>7, <1>11
  <2> QED
    BY <1>3, <1>12, <2>1, OnlyRow
<1>14. ASSUME history'[k] \cap {"blind", "overlapped"} = {}, posted'[k] # 0
       PROVE  posted'[k] = 1 /\ rows'[k] # <<>> /\ Submitted(k, rows'[k][1])
  <2>1. posted[k] = 1 /\ i = 1 /\ rows'[k] # <<>>
    BY <1>3, <1>6, <1>13, <1>14 DEF Followed, Once
  <2>2. rows'[k][1] = v
    BY <1>3, <1>11, <2>1
  <2> QED
    BY <1>6, <1>9, <2>1, <2>2 DEF Submitted
<1>15. Alone(k)' /\ Once(k)'
  BY <1>3, <1>4, <1>5, <1>6, <1>11, <1>12, <1>14, SendEnds
<1>16. \A n \in 1..Len(rows'[k]) : rows'[k][n].status = "FAILED" =>
         n \in 1..Len(rows[k]) /\ rows'[k][n] = rows[k][n]
  BY <1>9, <1>11
<1>17. /\ \A j \in Keys \ {k} : /\ rows'[j] = rows[j]
                                /\ posted'[j] = posted[j]
                                /\ history'[j] = history[j]
       /\ history[k] \subseteq history'[k]
       /\ task'[t].pc \notin SendPcs \cup TokenPcs \cup {"get"}
  BY <1>4, <1>6, <1>10 DEF SendPcs, TokenPcs
<1> QED
  BY <1>1, <1>3, <1>4, <1>15, <1>16, <1>17, FollowedKey

\* The answer is lost, for its update fails.
LEMMA SaveFollowed ==
    ASSUME Shape, Shape', Followed, NEW t \in Tasks, Save(t)
    PROVE  Followed'
<1>1. PICK k : k = task[t].key
  OBVIOUS
<1>2. t \in Sending(k) /\ k \in Keys /\ task[t].caught
  <2>1. t \in Sending(task[t].key) /\ task[t].key \in Keys /\ task[t].caught
    BY Sends, TaskFields DEF Save, Holds, At, TokenPcs, WorkPcs
  <2> QED
    BY <1>1, <2>1
<1>3. CASE ~Goto(t, "failed")
  BY <1>3, SavedFollowed
<1>4. CASE Goto(t, "failed")
  <2>1. /\ task'[t].pc = "failed" /\ task'[t].key = k /\ task'[t].row = task[t].row
        /\ \A u \in Tasks \ {t} : task'[u] = task[u]
    BY <1>1, <1>4, TaskFields DEF Goto, TaskRecord
  <2>2. Happened(k, "blind") /\ UNCHANGED <<rows, posted>>
    <3> DEFINE r == [IdleTask EXCEPT !.pc = "sync", !.key = k, !.row = task[t].row,
                                     !.caught = SyncIsCaught]
    <3>1. r.pc # "failed" /\ IdleTask.pc # "failed"
      BY DEF IdleTask
    <3>2. \/ task' = [task EXCEPT ![t] = IF k \in Invoices THEN r ELSE IdleTask]
          \/ Happened(k, "blind") /\ UNCHANGED rows
      BY <1>1 DEF Save
    <3> HIDE DEF r
    <3>3. task' # [task EXCEPT ![t] = IF k \in Invoices THEN r ELSE IdleTask]
      BY <2>1, <3>1, TaskFields
    <3> QED
      BY <3>2, <3>3 DEF Save
  <2>3. /\ history[k] \subseteq history'[k] /\ "blind" \in history'[k]
        /\ \A j \in Keys \ {k} : history'[j] = history[j]
    BY <1>2, <2>2 DEF Happened, Shape, World
  <2>4. "overlapped" \notin history[k]
          => /\ Len(rows'[k]) <= 1
             /\ k \in Invoices => rows'[k][task'[t].row].id = 0
    BY <1>2, <2>1, <2>2, Sole
  <2>5. task'[t].pc # "create" /\ task'[t].pc \notin TokenPcs \cup {"get"}
    BY <2>1 DEF TokenPcs
  <2>6. Alone(k)' /\ Once(k)'
    BY <1>2, <2>1, <2>3, <2>4, <2>5, SendGoesOn
  <2> QED
    BY <1>1, <1>2, <2>1, <2>2, <2>3, <2>5, <2>6, FollowedKey
<1> QED
  BY <1>3, <1>4

LEMMA WriteFailedFollowed ==
    ASSUME Shape, Shape', Followed, NEW t \in Tasks, WriteFailed(t)
    PROVE  Followed'
<1>1. PICK k : k = task[t].key
  OBVIOUS
<1>2. PICK i : i = task[t].row
  OBVIOUS
<1>3. /\ t \in Sending(k) /\ k \in Keys /\ i \in 1..Len(rows[k]) /\ task[t].caught
  <2>1. /\ t \in Sending(task[t].key) /\ task[t].key \in Keys /\ task[t].caught
        /\ task[t].row \in 1..Len(rows[task[t].key])
    BY Sends, TaskFields DEF WriteFailed, Holds, At, TokenPcs, WorkPcs
  <2> QED
    BY <1>1, <1>2, <2>1
<1>4. /\ task'[t].pc = "idle" /\ ~task'[t].caught
      /\ \A u \in Tasks \ {t} : task'[u] = task[u]
  BY DoneFields, TaskFields DEF WriteFailed, Done, IdleTask
<1>5. t \notin Sending(k)'
  BY <1>4 DEF Sending
<1>6. UNCHANGED <<posted, history>> /\ task[t].pc = "failed"
  BY DEF WriteFailed
<1>7. rows' = [rows EXCEPT ![k][i].status = "FAILED"]
  BY <1>1, <1>2 DEF WriteFailed
<1>8. /\ Len(rows'[k]) = Len(rows[k])
      /\ \A j \in Keys \ {k} : rows'[j] = rows[j]
      /\ \A n \in 1..Len(rows[k]) :
           /\ rows'[k][n].id = rows[k][n].id
           /\ rows'[k][n].status = IF n = i THEN "FAILED" ELSE rows[k][n].status
  <2>1. "FAILED" \in Status
    BY DEF Status
  <2> QED
    BY <1>3, <1>7, <2>1, StatusWritten
<1>9. "overlapped" \notin history[k]
        => Len(rows[k]) <= 1 /\ (k \in Invoices => rows[k][i].id = 0)
  BY <1>2, <1>3, <1>4, Sole
<1>10. history'[k] \cap {"blind", "overlapped"} = {} => posted'[k] = 0
  BY <1>3, <1>6, NothingPosted
<1>11. Alone(k)' /\ Once(k)'
  BY <1>3, <1>4, <1>5, <1>6, <1>8, <1>9, <1>10, SendEnds
<1>12. ASSUME k \in Invoices, NEW n \in 1..Len(rows'[k]),
              rows'[k][n].id # 0, rows'[k][n].status = "FAILED"
       PROVE  \/ /\ n \in 1..Len(rows[k])
                 /\ rows[k][n].id # 0 /\ rows[k][n].status = "FAILED"
              \/ history'[k] \cap {"refused", "overlapped"} # {}
  <2>1. n \in 1..Len(rows[k]) /\ rows[k][n].id # 0
    BY <1>8, <1>12
  <2>2. CASE n = i
    BY <1>6, <1>9, <1>12, <2>1, <2>2
  <2>3. CASE n # i
    BY <1>8, <1>12, <2>1, <2>3
  <2> QED
    BY <2>2, <2>3
<1>13. /\ \A j \in Keys \ {k} : /\ rows'[j] = rows[j]
                                /\ posted'[j] = posted[j]
                                /\ history'[j] = history[j]
       /\ history[k] \subseteq history'[k]
       /\ task[t].pc # "save"
       /\ task'[t].pc \notin SendPcs \cup TokenPcs \cup {"get"}
  BY <1>4, <1>6, <1>8 DEF SendPcs, TokenPcs
<1> QED
  BY <1>3, <1>4, <1>11, <1>12, <1>13, FollowedKey

LEMMA SyncFollowed ==
    ASSUME Shape, Shape', Followed, NEW t \in Tasks, Sync(t)
    PROVE  Followed'
<1>1. PICK k : k = task[t].key
  OBVIOUS
<1>2. k \in Invoices /\ Len(rows[k]) # 0 /\ ~task[t].caught /\ task[t].pc = "sync"
  <2>1. /\ task[t].key \in Invoices /\ Len(rows[task[t].key]) # 0 /\ ~task[t].caught
        /\ task[t].pc = "sync"
    BY TaskFields DEF Sync, Holds, At, TokenPcs
  <2> QED
    BY <1>1, <2>1
<1>3. UNCHANGED Others
  BY DEF Sync, Others
<1>4. CASE rows[k][1].id = 0
  BY <1>1, <1>2, <1>3, <1>4, FollowedDone DEF Sync, Done
<1>5. CASE rows[k][1].id # 0
  <2>1. task' = [task EXCEPT ![t] = [@ EXCEPT !.pc = "tokens", !.then = "get", !.row = 1,
                                              !.seen = rows[k][1].status]]
    BY <1>1, <1>5 DEF Sync, TokenThen
  <2>2. /\ task'[t].pc = "tokens" /\ ~task'[t].caught
        /\ task'[t].key = k /\ task'[t].seen = rows[k][1].status
        /\ \A u \in Tasks \ {t} : task'[u] = task[u]
    BY <1>1, <1>2, <2>1, TaskFields DEF TaskRecord
  <2>3. rows[k] \in Seq(Row) /\ DOMAIN rows[k] = 1..Len(rows[k]) /\ Len(rows[k]) \in Nat
    BY <1>2, LenProperties DEF Shape, World, Keys
  <2>4. 1 \in DOMAIN rows[k]
    BY <1>2, <2>3
  <2>5. task'[t].seen # "FAILED" \/ history[task'[t].key] \cap {"refused", "overlapped"} # {}
    BY <1>2, <1>5, <2>2, <2>4 DEF Followed, KnownIsFollowed
  <2> QED
    BY <1>2, <1>3, <2>2, <2>5, FollowedTask DEF SendPcs
<1> QED
  BY <1>4, <1>5

LEMMA SyncTransmissionFollowed ==
    ASSUME Shape, Shape', Followed, NEW t \in Tasks, SyncTransmission(t)
    PROVE  Followed'
<1>1. PICK k : k = task[t].key
  OBVIOUS
<1>2. PICK i : i = task[t].row
  OBVIOUS
<1>3. /\ k \in Keys /\ k \in Invoices /\ i \in 1..Len(rows[k]) /\ task[t].seen \in Status
      /\ ~task[t].caught /\ task[t].pc = "get" /\ At(task[t]) = "get"
  <2>1. /\ task[t].key \in Keys /\ task[t].key \in Invoices /\ task[t].seen \in Status
        /\ task[t].row \in 1..Len(rows[task[t].key])
        /\ ~task[t].caught /\ task[t].pc = "get" /\ At(task[t]) = "get"
    BY TaskFields DEF SyncTransmission, Holds, At, TokenPcs, WorkPcs
  <2> QED
    BY <1>1, <1>2, <2>1
<1>4. UNCHANGED <<posted, history>>
  BY DEF SyncTransmission
<1>5. CASE Rejected(t) /\ UNCHANGED rows
  BY <1>3, <1>4, <1>5, FollowedDone DEF Rejected, Others
<1>6. ASSUME NEW answer \in Answers \cup {task[t].seen},
             rows' = [rows EXCEPT ![k][i].status = answer], Done(t)
      PROVE  Followed'
  <2>1. answer \in Status /\ (answer = "FAILED" => task[t].seen = "FAILED")
    BY <1>3 DEF Answers, Status
  <2>2. /\ Len(rows'[k]) = Len(rows[k])
        /\ \A j \in Keys \ {k} : rows'[j] = rows[j]
        /\ \A n \in 1..Len(rows[k]) :
             /\ rows'[k][n].id = rows[k][n].id
             /\ rows'[k][n].status = IF n = i THEN answer ELSE rows[k][n].status
    BY <1>3, <1>6, <2>1, StatusWritten
  <2>3. task[t].seen = "FAILED" => history[k] \cap {"refused", "overlapped"} # {}
    BY <1>1, <1>3 DEF Followed, SeenFailed
  <2>4. /\ task'[t].pc = "idle" /\ ~task'[t].caught
        /\ \A u \in Tasks \ {t} : task'[u] = task[u]
    BY <1>6, DoneFields, TaskFields DEF Done, IdleTask
  <2>5. t \notin Sending(k) /\ t \notin Sending(k)'
    BY <1>3, <2>4 DEF Sending
  <2>6. Sending(k)' = Sending(k) /\ \A u \in Sending(k) : task'[u] = task[u]
    BY <2>4, <2>5 DEF Sending
  <2>7. Alone(k)'
    <3> SUFFICES ASSUME "overlapped" \notin history[k]
                 PROVE  /\ \A x, y \in Sending(k) : x = y
                        /\ Len(rows'[k]) <= 1
                        /\ \A u \in Sending(k) :
                             /\ task[u].pc = "create" => rows'[k] = <<>>
                             /\ k \in Invoices /\ (task[u].caught \/ task[u].pc = "mark")
                                  => rows'[k][task[u].row].id = 0
      BY <1>4, <2>6 DEF Alone
    <3>1. /\ \A x, y \in Sending(k) : x = y
          /\ Len(rows[k]) <= 1
          /\ \A u \in Sending(k) :
               /\ task[u].pc = "create" => rows[k] = <<>>
               /\ k \in Invoices /\ (task[u].caught \/ task[u].pc = "mark")
                    => rows[k][task[u].row].id = 0
      BY <1>3 DEF Followed, Alone
    <3>2. rows[k] # <<>>
      BY <1>3, <3>1, OnlyRow
    <3>3. ASSUME NEW u \in Sending(k), task[u].caught \/ task[u].pc = "mark"
          PROVE  rows'[k][task[u].row].id = 0
      <4>1. task[u].row \in 1..Len(rows[k])
        BY <3>3, TaskFields DEF Sending, Holds, At, TokenPcs
      <4> QED
        BY <1>3, <2>2, <3>1, <3>3, <4>1
    <3> QED
      BY <2>2, <3>1, <3>2, <3>3
  <2>8. Once(k)'
    <3>1. rows[k] \in Seq(Row) /\ rows'[k] \in Seq(Row) /\ Len(rows[k]) \in Nat
      BY <1>3, LenProperties DEF Shape, World
    <3>2. Len(rows'[k]) # 0 /\ 1 \in 1..Len(rows[k])
      BY <1>3, <2>2, <3>1
    <3>3. rows'[k] # <<>> /\ rows'[k][1].id = rows[k][1].id
      BY <2>2, <3>1, <3>2
    <3>4. \A u \in Tasks : task[u].pc = "save" => task'[u] = task[u]
      BY <1>3, <2>4
    <3>5. history[k] \cap {"blind", "overlapped"} = {} =>
            /\ posted[k] # 0 =>
                 /\ posted[k] = 1
                 /\ \/ \E u \in Tasks : task[u].pc = "save" /\ task[u].key = k
                    \/ rows[k] # <<>> /\ rows[k][1].id # 0
            /\ \A u \in Sending(k) : task[u].pc \notin {"save", "refuse"} => posted[k] = 0
      BY <1>3 DEF Followed, Once, Submitted
    <3>6. history[k] \cap {"blind", "overlapped"} = {} =>
            /\ posted[k] # 0 =>
                 /\ posted[k] = 1
                 /\ \/ \E u \in Tasks : task'[u].pc = "save" /\ task'[u].key = k
                    \/ rows'[k] # <<>> /\ rows'[k][1].id # 0
            /\ \A u \in Sending(k)' : task'[u].pc \notin {"save", "refuse"} => posted[k] = 0
      BY <2>6, <3>3, <3>4, <3>5
    <3> QED
      BY <1>3, <1>4, <3>6 DEF Once, Submitted
  <2>9. ASSUME NEW n \in 1..Len(rows'[k]), rows'[k][n].id # 0, rows'[k][n].status = "FAILED"
        PROVE  \/ /\ n \in 1..Len(rows[k])
                  /\ rows[k][n].id # 0 /\ rows[k][n].status = "FAILED"
               \/ history'[k] \cap {"refused", "overlapped"} # {}
    <3>1. n \in 1..Len(rows[k]) /\ rows[k][n].id # 0
      BY <2>2, <2>9
    <3>2. CASE n = i
      BY <1>4, <2>1, <2>2, <2>3, <2>9, <3>1, <3>2
    <3>3. CASE n # i
      BY <2>2, <2>9, <3>1, <3>3
    <3> QED
      BY <3>2, <3>3
  <2>10. /\ \A j \in Keys \ {k} : /\ rows'[j] = rows[j]
                                  /\ posted'[j] = posted[j]
                                  /\ history'[j] = history[j]
         /\ history[k] \subseteq history'[k]
         /\ task[t].pc # "save"
         /\ task'[t].pc \notin SendPcs \cup TokenPcs \cup {"get"}
    BY <1>3, <1>4, <2>2, <2>4 DEF SendPcs, TokenPcs
  <2> QED
    BY <1>3, <2>4, <2>7, <2>8, <2>9, <2>10, FollowedKey
<1> QED
  BY <1>1, <1>2, <1>5, <1>6 DEF SyncTransmission
LEMMA CrashFollowed ==
    ASSUME Shape, Shape', Followed, NEW t \in Tasks, Crash(t)
    PROVE  Followed'
<1>1. UNCHANGED <<rows, posted>>
  BY DEF Crash
<1>2. CASE task[t].pc # "save"
  BY <1>1, <1>2, FollowedDone DEF Crash, Others
<1>3. CASE task[t].pc = "save"
  <2>1. PICK k : k = task[t].key
    OBVIOUS
  <2>2. t \in Sending(k) /\ k \in Keys
    <3>1. t \in Sending(task[t].key) /\ task[t].key \in Keys
      BY <1>3, Sends, TaskFields DEF Holds, At, TokenPcs, WorkPcs
    <3> QED
      BY <2>1, <3>1
  <2>3. /\ task'[t].pc = "idle" /\ ~task'[t].caught
        /\ \A u \in Tasks \ {t} : task'[u] = task[u]
    BY DoneFields, TaskFields DEF Crash, Done, IdleTask
  <2>4. t \notin Sending(k)'
    BY <2>3 DEF Sending
  <2>5. /\ "blind" \in history'[k] /\ history[k] \subseteq history'[k]
        /\ \A j \in Keys \ {k} : history'[j] = history[j]
    BY <1>3, <2>1, <2>2 DEF Crash, Happened, Shape, World
  <2>6. "overlapped" \notin history[k] => Len(rows'[k]) <= 1
    BY <1>1, <2>2 DEF Followed, Alone
  <2>7. Alone(k)' /\ Once(k)'
    BY <2>2, <2>3, <2>4, <2>5, <2>6, SendEnds
  <2>8. /\ \A j \in Keys \ {k} : /\ rows'[j] = rows[j]
                                 /\ posted'[j] = posted[j]
                                 /\ history'[j] = history[j]
        /\ task'[t].pc \notin SendPcs \cup TokenPcs \cup {"get"}
        /\ \A n \in 1..Len(rows'[k]) : n \in 1..Len(rows[k]) /\ rows'[k][n] = rows[k][n]
    BY <1>1, <2>3, <2>5 DEF SendPcs, TokenPcs
  <2> QED
    BY <2>1, <2>2, <2>3, <2>5, <2>7, <2>8, FollowedKey
<1> QED
  BY <1>2, <1>3

LEMMA SyncPendingTransmissionsFollowed ==
    ASSUME Shape, Shape', Followed, SyncPendingTransmissions
    PROVE  Followed'
<1>1. \A k \in Invoices : task[k].pc = "idle"
  BY DEF SyncPendingTransmissions, Sweeping, Idle
<1>2. PICK pending \in SUBSET Invoices :
        /\ \A k \in pending : rows[k][1].status \in Evolving
        /\ task' = [t \in Tasks |->
                      IF t \in pending
                      THEN TokenThen([IdleTask EXCEPT !.key = t, !.row = 1,
                                                      !.seen = rows[t][1].status], "get")
                      ELSE task[t]]
  BY DEF SyncPendingTransmissions
<1>3. ASSUME NEW t \in Tasks, t \in pending
      PROVE  /\ task'[t].pc = "tokens" /\ ~task'[t].caught
             /\ task'[t].seen \in Evolving
  BY <1>2, <1>3 DEF TokenThen, IdleTask
<1>4. \A t \in Tasks : t \notin pending => task'[t] = task[t]
  BY <1>2
<1>5. "FAILED" \notin Evolving
  BY DEF Evolving
<1>6. UNCHANGED Others
  BY DEF SyncPendingTransmissions, Others
<1>7. ASSUME NEW t \in Tasks, t \in pending
      PROVE  /\ task[t].pc # "save" /\ ~task'[t].caught /\ task'[t].pc \notin SendPcs
             /\ task'[t].seen # "FAILED"
  BY <1>1, <1>3, <1>5, <1>7 DEF SendPcs
<1> QED
  BY <1>4, <1>6, <1>7, FollowedQuiet

LEMMA BeginsFollowed ==
    ASSUME Shape, Shape', Followed, Begins
    PROVE  Followed'
<1>1. Users \subseteq Tasks
  BY InvoicingAssumption
<1>2. ASSUME NEW t \in Tasks, NEW k \in Keys, StartSync(t, k) PROVE Followed'
  <2>1. task[t].pc = "idle" /\ ~task[t].caught
    BY <1>2, TaskFields DEF StartSync, Idle, Holds, IdleTask
  <2>2. /\ task'[t].pc = "sync" /\ ~task'[t].caught
        /\ \A u \in Tasks \ {t} : task'[u] = task[u]
    BY <1>2, <2>1, TaskFields DEF StartSync, TaskRecord
  <2>3. UNCHANGED Others
    BY <1>2 DEF StartSync, Others
  <2> QED
    BY <2>1, <2>2, <2>3, FollowedTask DEF SendPcs, TokenPcs
<1>3. ASSUME NEW t \in Tasks, ExchangeCode(t), UNCHANGED Others PROVE Followed'
  <2>1. task[t].pc = "idle" /\ ~task[t].caught
    BY <1>3, TaskFields DEF ExchangeCode, Idle, Holds, IdleTask
  <2>2. /\ task'[t].pc = "storeGrant" /\ ~task'[t].caught
        /\ \A u \in Tasks \ {t} : task'[u] = task[u]
    BY <1>3, <2>1, TaskFields DEF ExchangeCode, TaskRecord
  <2> QED
    BY <1>3, <2>1, <2>2, FollowedTask DEF SendPcs, TokenPcs
<1>4. ASSUME NEW t \in Tasks, StartVerify(t), UNCHANGED Others PROVE Followed'
  <2>1. /\ task[t].pc = "idle" /\ task'[t].pc = "tokens" /\ task'[t].then = "profile"
        /\ ~task'[t].caught /\ \A u \in Tasks \ {t} : task'[u] = task[u]
    BY <1>4, TaskFields DEF StartVerify, Idle, TokenThen, IdleTask
  <2> QED
    BY <1>4, <2>1, FollowedTask DEF SendPcs, TokenPcs
<1> QED
  BY <1>1, <1>2, <1>3, <1>4, StartSendFollowed, SyncPendingTransmissionsFollowed
  DEF Begins

LEMMA NextFollowed == Shape /\ Shape' /\ Followed /\ [Next]_vars => Followed'
<1> SUFFICES ASSUME Shape, Shape', Followed, [Next]_vars PROVE Followed'
  OBVIOUS
<1>1. ASSUME NEW t \in Tasks, TaskSteps(t) PROVE Followed'
  BY <1>1, CreateFollowed, RefuseFollowed, MarkFollowed, PostFollowed, SaveFollowed,
     WriteFailedFollowed, SyncFollowed, SyncTransmissionFollowed, CrashFollowed,
     ConnectionFollowed DEF TaskSteps
<1>2. ASSUME UNCHANGED task, UNCHANGED Others PROVE Followed'
  BY <1>2, FollowedQuiet
<1>3. CASE (BuildAuthorizationUrl \/ TokenGetsOld) /\ UNCHANGED Others
  BY <1>2, <1>3 DEF BuildAuthorizationUrl, TokenGetsOld
<1>4. CASE UNCHANGED vars
  BY <1>2, <1>4 DEF vars, connectionVars, Others
<1> QED
  BY <1>1, <1>3, <1>4, BeginsFollowed DEF Next

LEMMA InitFollowed == Init => Followed
<1> SUFFICES ASSUME Init PROVE Followed
  OBVIOUS
<1>1. \A t \in Tasks : task[t].pc = "idle" /\ ~task[t].caught
  BY DEF Init, InitConnection, IdleTask
<1>2. \A k \in Keys : rows[k] = <<>> /\ posted[k] = 0
  BY DEF Init
<1>3. \A k \in Keys : Sending(k) = {}
  BY <1>1 DEF Sending
<1>4. \A k \in Keys : Alone(k)
  <2>1. \A k \in Keys : Len(rows[k]) = 0
    BY <1>2
  <2> QED
    BY <1>3, <2>1 DEF Alone
<1>5. \A k \in Keys : Once(k)
  BY <1>2, <1>3 DEF Once
<1>6. SeenFailed
  BY <1>1 DEF SeenFailed, At, TokenPcs
<1>7. KnownIsFollowed
  <2>1. \A k \in Invoices : DOMAIN rows[k] = {}
    BY <1>2 DEF Keys
  <2> QED
    BY <2>1 DEF KnownIsFollowed
<1> QED
  BY <1>4, <1>5, <1>6, <1>7 DEF Followed

LEMMA FollowedAlways == Spec => []Followed
<1>1. Shape /\ Followed /\ [Next]_vars => Followed'
  BY NextShape, NextFollowed
<1> QED
  BY <1>1, InitFollowed, ShapeAlways, PTL DEF Spec

\* A second submission of the same invoice, sale or payment is accepted only
\* after an answer that was lost or during another submission of it.
THEOREM SubmittedOnce == Spec => []PostedAgainOnlyBlind
<1>1. Shape /\ Followed => PostedAgainOnlyBlind
  <2> SUFFICES ASSUME Shape, Followed, NEW k \in Keys, posted[k] > 1,
                      history[k] \cap {"blind", "overlapped"} = {}
               PROVE  FALSE
    BY DEF PostedAgainOnlyBlind
  <2>1. posted[k] \in Nat
    BY DEF Shape, World
  <2>2. posted[k] # 0 => posted[k] = 1
    BY DEF Followed, Once
  <2> QED
    BY <2>1, <2>2
<1> QED
  BY <1>1, ShapeAlways, FollowedAlways, PTL

\* An invoice that SuperPDP holds under a known number is marked FAILED only
\* when the address of the client was removed or submissions overlapped.
THEOREM KnownAlwaysFollowed == Spec => []KnownIsFollowed
BY FollowedAlways, PTL DEF Followed
=============================================================================
