---------------------- MODULE DocumentLifecycleProofs ----------------------
(***************************************************************************)
(* Proofs about DocumentLifecycle, for any requests and clients, any       *)
(* number of sweeps at once, any types of documents created, and any       *)
(* bounds.                                                                 *)
(***************************************************************************)
EXTENDS DocumentLifecycle, FiniteSetTheorems, WellFoundedInduction, TLAPS

Row == [type : DocumentType, number : Nat, version : Nat, last : BOOLEAN,
        status : EstimateStatus, source : Ids \cup {0}, there : BOOLEAN,
        root : Ids \cup {0}, readAt : Ids \cup {0}]

Link == [on : Ids \cup {0}, status : Answers \cup {"PENDING"}]

Req == [pc : {"idle", "create", "convertNumber", "convertCreate", "version",
              "deliver"},
        type : DocumentType, number : Nat, on : Ids \cup {0},
        readAt : Ids \cup {0}]

Client == [pc : {"idle", "answer"}, link : Links \cup {0}, answer : Answers,
           fresh : BOOLEAN]

Cron == [pc : {"idle", "next", "mail", "mark"}, todo : SUBSET Ids, on : Ids \cup {0}]

TypeOK ==
    /\ made \in 0..MaxDocs
    /\ doc \in [Ids -> Row]
    /\ linked \in 0..MaxLinks
    /\ link \in [Links -> Link]
    /\ req \in [Requests -> Req]
    /\ client \in [Clients -> Client]
    /\ cron \in [Sweeps -> Cron]
    /\ reminded \in SUBSET Ids
    /\ reminders \in [Ids -> Nat]
    /\ overlapped \in SUBSET Ids
    /\ accepted \in SUBSET Ids
    /\ mass \in BOOLEAN
    /\ stops \in Nat

\* What is there was created, and a version number is at most the number of
\* documents created.
RowsPlaced ==
    \A d \in Ids : /\ doc[d].there \/ doc[d] = NoRow
                   /\ doc[d].there => d <= made /\ doc[d].version \in 1..made

\* A negotiation that was created and not deleted has its estimate, and the
\* client's answer is for one that was created.
LinksPlaced ==
    /\ \A n \in Links : link[n].on # 0 => n <= linked /\ doc[link[n].on].there
    /\ \A c \in Clients : client[c].pc = "answer" =>
         client[c].link \in 1..linked /\ client[c].fresh

\* A reminder that is being mailed or recorded is about an estimate.
CronPlaced == \A s \in Sweeps : cron[s].pc \in {"mail", "mark"} => cron[s].on \in Ids

\* What a request has read that still holds when it writes.
Sound(q) ==
    /\ q.pc = "version" =>
         /\ q.on \in 1..made
         /\ doc[q.on].there => doc[q.on].type = "ESTIMATE" /\ doc[q.on].status # "DRAFT"
    /\ q.pc \in {"convertNumber", "convertCreate"} =>
         /\ q.on \in 1..made
         /\ q.readAt <= made
         /\ doc[q.on].there => q.on \in accepted
         /\ \A i \in InvoicesOf(q.on) : q.readAt < i
    /\ q.pc = "deliver" => q.on \in Ids

RequestsSound == \A r \in Requests : Sound(req[r])

Shape == TypeOK /\ RowsPlaced /\ LinksPlaced /\ CronPlaced /\ RequestsSound

\* An estimate that is accepted was accepted by one of its negotiations.
AcceptedByLink ==
    \A d \in Ids : doc[d].status = "ACCEPTED" =>
        /\ d \in accepted
        /\ \E m \in 1..linked : link[m].on = d /\ link[m].status = "ACCEPTED"

\* The unique key.
KeyIsUnique ==
    \A d, e \in Ids :
        /\ doc[d].there /\ doc[e].there
        /\ doc[d].type = doc[e].type
        /\ doc[d].number = doc[e].number
        /\ doc[d].version = doc[e].version
        => d = e

\* While only drafts are deleted, the first version of a document is there
\* with its number, and is no draft once it has another.
RootStays ==
    ~mass => \A d \in Ids : doc[d].there =>
        LET f == doc[d].root IN
        /\ f \in Ids
        /\ doc[f].there
        /\ doc[f].version = 1
        /\ doc[f].type = doc[d].type
        /\ doc[f].number = doc[d].number
        /\ f # d => doc[f].status # "DRAFT"

\* The sweeps that are at a step about a document.
At(sweeps, pc, d) == {s \in Sweeps : sweeps[s].pc = pc /\ sweeps[s].on = d}

Limit(d) == IF d \in overlapped THEN Cardinality(Sweeps) ELSE 1

\* Mails of an estimate that did not stop: while it is not recorded, each of
\* them is being recorded; then those that are still to be mailed were
\* checked before, by the sweeps that overlapped.
MailsCounted ==
    \A d \in Ids :
        /\ ~doc[d].there => reminders[d] = 0
        /\ Cardinality(At(cron, "mail", d)) + Cardinality(At(cron, "mark", d)) <= Limit(d)
        /\ d \notin reminded =>
             reminders[d] <= stops + Cardinality(At(cron, "mark", d))
        /\ d \in reminded =>
             reminders[d] + Cardinality(At(cron, "mail", d)) <= stops + Limit(d)

IInv ==
    /\ Shape
    /\ AcceptedByLink
    /\ KeyIsUnique
    /\ RootStays
    /\ InvoiceHasAcceptedEstimate
    /\ SecondInvoiceOnlyByOverlap
    /\ MailsCounted

-----------------------------------------------------------------------------
(***************************************************************************)
(* The greatest element of a bounded set of numbers                        *)
(***************************************************************************)

LEMMA LeastExists ==
    ASSUME NEW T \in SUBSET Nat, T # {}
    PROVE  \E x \in T : \A y \in T : x <= y
<1> DEFINE R == OpToRel(<, Nat)
<1>1. IsWellFoundedOn(R, Nat)
  BY NatLessThanWellFounded
<1>2. \A x, y \in Nat : x < y => <<x, y>> \in R
  BY DEF OpToRel
<1> HIDE DEF R
<1>3. PICK x \in T : \A y \in T : ~(<<y, x>> \in R)
  BY <1>1, WFMin
<1>4. \A y \in T : ~(y < x)
  BY <1>2, <1>3, Zenon
<1> QED
  BY <1>4

LEMMA GreatestIs ==
    ASSUME NEW K \in Nat, NEW V \in SUBSET (0..K), V # {}
    PROVE  /\ Max(V) \in V
           /\ \A v \in V : v <= Max(V)
<1> DEFINE T == {K - v : v \in V}
<1>1. T \in SUBSET Nat /\ T # {}
  <2>1. \A v \in V : K - v \in Nat
    OBVIOUS
  <2>2. PICK v \in V : TRUE
    OBVIOUS
  <2>3. K - v \in T
    OBVIOUS
  <2> QED
    BY <2>1, <2>3
<1>2. PICK x \in T : \A y \in T : x <= y
  BY <1>1, LeastExists
<1>3. PICK m \in V : x = K - m
  BY <1>2
<1>4. \A v \in V : m >= v
  <2> SUFFICES ASSUME NEW v \in V PROVE m >= v
    OBVIOUS
  <2>1. K - m <= K - v
    BY <1>2, <1>3
  <2> QED
    BY <2>1
<1>5. Max(V) \in V /\ \A v \in V : Max(V) >= v
  BY <1>4 DEF Max
<1> QED
  BY <1>5

\* One more than the greatest version.
LEMMA NextIs ==
    ASSUME NEW K \in Nat, NEW V \in SUBSET (0..K), NEW v \in V, v >= 1
    PROVE  /\ Max(V) + 1 \in 2..(K + 1)
           /\ \A w \in V : w < Max(V) + 1
<1>1. Max(V) \in V /\ \A w \in V : w <= Max(V)
  BY GreatestIs
<1> DEFINE m == Max(V)
<1>2. m \in 0..K /\ v \in 0..K /\ v <= m /\ \A w \in V : w \in 0..K /\ w <= m
  BY <1>1
<1> HIDE DEF m
<1>3. m + 1 \in 2..(K + 1) /\ \A w \in V : w < m + 1
  BY <1>2
<1> QED
  BY <1>3 DEF m

\* The next number is a number.
LEMMA NumberIsNat ==
    ASSUME TypeOK, NEW type
    PROVE  DocumentNumber(type) \in Nat
<1> USE DocumentAssumption
<1>1. CASE There(type) = {}
  BY <1>1 DEF DocumentNumber
<1>2. CASE There(type) # {}
  <2>1. There(type) \in SUBSET (0..MaxDocs)
    BY DEF There, Ids
  <2>2. Max(There(type)) \in There(type)
    BY <1>2, <2>1, GreatestIs
  <2>3. Max(There(type)) \in Ids
    BY <2>2 DEF There
  <2> QED
    BY <1>2, <2>3 DEF DocumentNumber, TypeOK, Row
<1> QED
  BY <1>1, <1>2

-----------------------------------------------------------------------------
(***************************************************************************)
(* What a step does to the rows: they keep what they are, one is made, or  *)
(* some are removed                                                        *)
(***************************************************************************)

\* The row is the same document; its status does not become DRAFT again, and
\* becomes ACCEPTED with an answer.
Stays(d) ==
    /\ doc'[d].there = doc[d].there
    /\ doc'[d].type = doc[d].type
    /\ doc'[d].number = doc[d].number
    /\ doc'[d].version = doc[d].version
    /\ doc'[d].source = doc[d].source
    /\ doc'[d].root = doc[d].root
    /\ doc'[d].readAt = doc[d].readAt
    /\ doc'[d].status = "DRAFT" => doc[d].status = "DRAFT"
    /\ doc'[d].status = "ACCEPTED" => doc[d].status = "ACCEPTED" \/ d \in accepted'
    /\ ~doc[d].there => doc'[d] = doc[d]

Keep ==
    /\ made' = made
    /\ \A d \in Ids : Stays(d)
    /\ accepted \subseteq accepted'
    /\ mass' = mass

\* A first version: nothing has its number; the invoice of an estimate has
\* one that was accepted, and no other invoice since it was read.
First(row) ==
    /\ row.version = 1
    /\ row.root = made + 1
    /\ \A d \in SameNumber(row.type, row.number) : doc[d].version # 1
    /\ row.source # 0 =>
         /\ row.source \in 1..made
         /\ doc[row.source].there
         /\ row.source \in accepted
         /\ \A i \in InvoicesOf(row.source) : row.readAt < i

\* One more version of an estimate that is no draft.
NextVersion(row) ==
    \E d \in 1..made :
        /\ doc[d].there
        /\ doc[d].type = "ESTIMATE"
        /\ doc[d].status # "DRAFT"
        /\ row.type = "ESTIMATE"
        /\ row.number = doc[d].number
        /\ row.root = doc[d].root
        /\ row.source = 0
        /\ row.version \in 2..(made + 1)
        /\ \A e \in SameNumber("ESTIMATE", row.number) : doc[e].version < row.version

Make ==
    /\ made < MaxDocs
    /\ made' = made + 1
    /\ \A d \in Ids \ {made + 1} : Stays(d) /\ doc'[d].status = doc[d].status
    /\ doc'[made + 1].there
    /\ doc'[made + 1].status = "DRAFT"
    /\ First(doc'[made + 1]) \/ NextVersion(doc'[made + 1])
    /\ accepted' = accepted
    /\ mass' = mass

Gone(S) ==
    /\ made' = made
    /\ \A d \in S : doc'[d] = NoRow
    /\ \A d \in Ids \ S : doc'[d] = doc[d]
    /\ ~Referenced(S)
    /\ accepted' = accepted \ S
    /\ mass => mass'
    /\ mass' \/ \A d \in S : doc[d].status = "DRAFT"

RowStep == Keep \/ Make \/ \E S \in SUBSET Ids : Gone(S)

\* The steps that neither insert, write nor delete a row.
Quiet == UNCHANGED <<made, doc, accepted, mass>>

LEMMA SameRowsKeep ==
    ASSUME TypeOK, Quiet
    PROVE  Keep
BY DEF Keep, Stays, Quiet

\* A row that is inserted is made, or the request fails.
LEMMA InsertMakes ==
    ASSUME IInv, NEW r \in Requests, NEW row \in Row, NEW next,
           row.status = "DRAFT", row.version = 1, row.root = made + 1,
           row.source # 0 =>
             /\ row.source \in 1..made
             /\ doc[row.source].there
             /\ row.source \in accepted
             /\ \A i \in InvoicesOf(row.source) : row.readAt < i,
           Insert(r, row, next), UNCHANGED <<accepted, mass>>
    PROVE  Quiet \/ Make
<1> USE DocumentAssumption
<1>0. TypeOK
  BY DEF IInv, Shape
<1>1. CASE Taken(row)
  BY <1>0, <1>1 DEF Quiet, Insert
<1>2. CASE ~Taken(row)
  <2> DEFINE k == made + 1
             new == [row EXCEPT !.there = TRUE]
  <2>1. /\ made < MaxDocs /\ made' = k
        /\ doc' = [doc EXCEPT ![k] = new]
    BY <1>2 DEF Insert
  <2>2. k \in Ids
    BY <1>0, <2>1 DEF TypeOK, Ids
  <2>3. doc'[k] = new /\ \A d \in Ids \ {k} : doc'[d] = doc[d]
    BY <1>0, <2>1, <2>2 DEF TypeOK
  <2>4. /\ new.there /\ new.status = "DRAFT" /\ new.version = 1 /\ new.root = k
        /\ new.source = row.source /\ new.readAt = row.readAt
        /\ new.type = row.type /\ new.number = row.number
    BY DEF Row
  <2>5. \A d \in SameNumber(row.type, row.number) : doc[d].version # 1
    BY <1>2 DEF Taken
  <2> HIDE DEF new
  <2>6. First(new)
    BY <2>4, <2>5 DEF First
  <2> QED
    BY <2>1, <2>3, <2>4, <2>6 DEF Make, Stays
<1> QED
  BY <1>1, <1>2

LEMMA CreateMakes ==
    ASSUME IInv, NEW r \in Requests, CreateDocument(r)
    PROVE  Quiet \/ Make
<1> DEFINE row == [NoRow EXCEPT !.type = req[r].type, !.number = req[r].number,
                                !.version = 1, !.last = TRUE, !.root = made + 1]
<1> USE DocumentAssumption
<1>0. TypeOK
  BY DEF IInv, Shape
<1>1. Insert(r, row, IdleReq) /\ UNCHANGED <<accepted, mass>>
  BY DEF CreateDocument, history
<1>2. CASE Taken(row)
  BY <1>0, <1>1, <1>2 DEF Quiet, Insert
<1>3. CASE ~Taken(row)
  <2>1. made + 1 \in Ids
    BY <1>0, <1>1, <1>3 DEF Insert, TypeOK, Ids
  <2>2. row \in Row
    BY <1>0, <2>1 DEF TypeOK, NoRow, Row, Req, DocumentType, EstimateStatus
  <2>3. row.status = "DRAFT" /\ row.version = 1 /\ row.root = made + 1 /\ row.source = 0
    BY DEF NoRow
  <2> HIDE DEF row
  <2> QED
    BY <1>1, <2>2, <2>3, InsertMakes
<1> QED
  BY <1>2, <1>3

LEMMA ConvertMakes ==
    ASSUME IInv, NEW r \in Requests, ConvertEstimateToInvoice(r)
    PROVE  Quiet \/ Make
<1> DEFINE d == req[r].on
           row == [NoRow EXCEPT !.type = "INVOICE", !.number = req[r].number,
                                !.version = 1, !.last = TRUE, !.source = d,
                                !.root = made + 1, !.readAt = req[r].readAt]
<1> USE DocumentAssumption
<1>0. TypeOK /\ Sound(req[r])
  BY DEF IInv, Shape, RequestsSound
<1>1. UNCHANGED <<accepted, mass>> /\ req[r].pc = "convertCreate"
  BY DEF ConvertEstimateToInvoice, history
<1>2. CASE ~doc[d].there
  BY <1>0, <1>1, <1>2 DEF Quiet, ConvertEstimateToInvoice, SourceThere
<1>3. CASE doc[d].there
  <2>1. Insert(r, row, IdleReq)
    BY <1>3 DEF ConvertEstimateToInvoice, SourceThere
  <2>2. CASE Taken(row)
    BY <1>0, <1>1, <2>1, <2>2 DEF Quiet, Insert
  <2>3. CASE ~Taken(row)
    <3>1. made + 1 \in Ids
      BY <1>0, <2>1, <2>3 DEF Insert, TypeOK, Ids
    <3>2. d \in 1..made /\ d \in accepted /\ \A i \in InvoicesOf(d) : req[r].readAt < i
      BY <1>0, <1>1, <1>3 DEF Sound
    <3>3. row \in Row
      BY <1>0, <3>1 DEF TypeOK, NoRow, Row, Req, DocumentType, EstimateStatus
    <3>4. /\ row.status = "DRAFT" /\ row.version = 1 /\ row.root = made + 1
          /\ row.source = d /\ row.readAt = req[r].readAt
      BY DEF NoRow
    <3> HIDE DEF row
    <3> QED
      BY <1>1, <1>3, <2>1, <3>2, <3>3, <3>4, InsertMakes
  <2> QED
    BY <2>2, <2>3
<1> QED
  BY <1>2, <1>3

LEMMA VersionMakes ==
    ASSUME IInv, NEW r \in Requests, CreateNewDocumentVersion(r)
    PROVE  Quiet \/ Make
<1> DEFINE d == req[r].on
           V == {doc[e].version : e \in SameNumber("ESTIMATE", doc[d].number)} \cup {0}
           k == made + 1
           row == [NoRow EXCEPT !.number = doc[d].number, !.version = Max(V) + 1,
                                !.last = TRUE, !.there = TRUE, !.root = doc[d].root]
<1> USE DocumentAssumption
<1>0. TypeOK /\ Sound(req[r]) /\ RowsPlaced
  BY DEF IInv, Shape, RequestsSound
<1>1. UNCHANGED <<accepted, mass>> /\ req[r].pc = "version"
  BY DEF CreateNewDocumentVersion, history
<1>2. CASE ~doc[d].there
  BY <1>0, <1>1, <1>2 DEF Quiet, CreateNewDocumentVersion
<1>3. CASE doc[d].there
  <2>1. /\ made < MaxDocs /\ made' = k
        /\ doc' = [doc EXCEPT ![k] = row, ![d].last = FALSE]
    BY <1>3 DEF CreateNewDocumentVersion
  <2>0. made \in Nat
    BY <1>0 DEF TypeOK
  <2>2. k \in Ids /\ d \in 1..made /\ d \in Ids /\ d # k
    <3>1. d \in 1..made
      BY <1>0, <1>1 DEF Sound
    <3>2. made < MaxDocs
      BY <2>1
    <3> HIDE DEF d
    <3> QED
      BY <2>0, <3>1, <3>2 DEF Ids
  <2>3. doc[d].type = "ESTIMATE" /\ doc[d].status # "DRAFT"
    BY <1>0, <1>1, <1>3 DEF Sound
  <2>4. V \in SUBSET (0..made) /\ V # {}
    BY <1>0 DEF SameNumber, There, RowsPlaced, TypeOK
  <2>6. doc[d].version \in V /\ doc[d].version >= 1
    BY <1>0, <1>3, <2>2, <2>3 DEF SameNumber, There, RowsPlaced
  <2>7. Max(V) + 1 \in 2..(made + 1) /\ \A v \in V : v < Max(V) + 1
    <3> HIDE DEF V
    <3> QED
      BY <2>0, <2>4, <2>6, NextIs
  <2>8. \A e \in SameNumber("ESTIMATE", doc[d].number) : doc[e].version < Max(V) + 1
    BY <2>7
  <2>9. /\ doc'[k] = row
        /\ doc'[d] = [doc[d] EXCEPT !.last = FALSE]
        /\ \A e \in Ids \ {k, d} : doc'[e] = doc[e]
    <3> HIDE DEF row
    <3> QED
      BY <1>0, <2>1, <2>2 DEF TypeOK
  <2>10. \A e \in Ids \ {k} : Stays(e) /\ doc'[e].status = doc[e].status
    <3>1. Stays(d) /\ doc'[d].status = doc[d].status
      <4>1. doc[d] \in Row
        BY <1>0, <2>2 DEF TypeOK
      <4> HIDE DEF row, d, V
      <4>2. doc'[d].there = doc[d].there /\ doc'[d].type = doc[d].type
        BY <2>9, <4>1 DEF Row
      <4>3. doc'[d].number = doc[d].number /\ doc'[d].version = doc[d].version
        BY <2>9, <4>1 DEF Row
      <4>4. doc'[d].source = doc[d].source /\ doc'[d].root = doc[d].root
        BY <2>9, <4>1 DEF Row
      <4>5. doc'[d].readAt = doc[d].readAt /\ doc'[d].status = doc[d].status
        BY <2>9, <4>1 DEF Row
      <4> QED
        BY <1>3, <4>2, <4>3, <4>4, <4>5, Zenon DEF Stays
    <3>2. \A e \in Ids \ {k, d} : Stays(e) /\ doc'[e].status = doc[e].status
      BY <2>9 DEF Stays
    <3> QED
      BY <3>1, <3>2
  <2>11. /\ row.there /\ row.status = "DRAFT" /\ row.type = "ESTIMATE"
         /\ row.number = doc[d].number /\ row.root = doc[d].root
         /\ row.source = 0 /\ row.version = Max(V) + 1
    BY DEF NoRow
  <2> HIDE DEF row, V
  <2>12. NextVersion(row)
    BY <1>3, <2>2, <2>3, <2>7, <2>8, <2>11 DEF NextVersion
  <2> QED
    BY <1>1, <2>1, <2>9, <2>10, <2>11, <2>12 DEF Make
<1> QED
  BY <1>2, <1>3

\* A row that only gets another status, which an answer gives it.
LEMMA StatusStays ==
    ASSUME NEW d \in Ids, NEW s, doc[d] \in Row, doc[d].there,
           doc'[d] = [doc[d] EXCEPT !.status = s],
           s # "DRAFT", s = "ACCEPTED" => d \in accepted'
    PROVE  Stays(d)
<1>1. doc'[d].status = s
  BY DEF Row
<1>2. doc'[d].there = doc[d].there /\ doc'[d].type = doc[d].type
  BY DEF Row
<1>3. doc'[d].number = doc[d].number /\ doc'[d].version = doc[d].version
  BY DEF Row
<1>4. doc'[d].source = doc[d].source /\ doc'[d].root = doc[d].root
  BY DEF Row
<1>5. doc'[d].readAt = doc[d].readAt
  BY DEF Row
<1> QED
  BY <1>1, <1>2, <1>3, <1>4, <1>5, Zenon DEF Stays

LEMMA DeliveredKeeps ==
    ASSUME IInv, NEW r \in Requests, MarkDocumentAsDelivered(r)
    PROVE  Keep
<1> DEFINE d == req[r].on
<1>0. TypeOK /\ Sound(req[r])
  BY DEF IInv, Shape, RequestsSound
<1>1. UNCHANGED <<made, accepted, mass>> /\ req[r].pc = "deliver"
  BY DEF MarkDocumentAsDelivered, history
<1>2. d \in Ids
  BY <1>0, <1>1 DEF Sound
<1>3. CASE ~doc[d].there
  BY <1>0, <1>1, <1>3, SameRowsKeep DEF Quiet, MarkDocumentAsDelivered
<1>4. CASE doc[d].there
  <2>1. doc' = [doc EXCEPT ![d].status = "SENT"]
    BY <1>4 DEF MarkDocumentAsDelivered
  <2>2. doc'[d] = [doc[d] EXCEPT !.status = "SENT"] /\ doc[d] \in Row
    BY <1>0, <1>2, <2>1 DEF TypeOK
  <2>3. \A e \in Ids \ {d} : doc'[e] = doc[e]
    BY <1>0, <1>2, <2>1 DEF TypeOK
  <2> HIDE DEF d
  <2>4. Stays(d)
    BY <1>2, <1>4, <2>2, StatusStays
  <2>5. \A e \in Ids \ {d} : Stays(e)
    BY <2>3 DEF Stays
  <2> QED
    BY <1>1, <2>4, <2>5 DEF Keep
<1> QED
  BY <1>3, <1>4

LEMMA AnswerKeeps ==
    ASSUME IInv, NEW c \in Clients, AnswerNegociation(c)
    PROVE  Keep
<1> DEFINE n == client[c].link
           d == link[n].on
<1> USE DocumentAssumption
<1>0. TypeOK /\ LinksPlaced
  BY DEF IInv, Shape
<1>1. UNCHANGED <<made, mass>> /\ client[c].pc = "answer"
  BY DEF AnswerNegociation
<1>2. n \in Links
  BY <1>0, <1>1 DEF LinksPlaced, TypeOK, Links
<1>3. CASE d = 0
  BY <1>0, <1>1, <1>3, SameRowsKeep DEF Quiet, AnswerNegociation
<1>4. CASE d # 0
  <2> DEFINE s == Answered(client[c].answer)
  <2>1. /\ doc' = [doc EXCEPT ![d].status = s]
        /\ accepted' = accepted \cup (IF client[c].answer = "ACCEPTED" THEN {d} ELSE {})
    BY <1>4 DEF AnswerNegociation
  <2>2. d \in Ids /\ doc[d].there
    BY <1>0, <1>2, <1>4 DEF LinksPlaced, TypeOK, Link
  <2>3. s # "DRAFT" /\ (s = "ACCEPTED" => d \in accepted')
    BY <1>0, <2>1 DEF TypeOK, Client, Answers, Answered
  <2> HIDE DEF s
  <2>4. doc'[d] = [doc[d] EXCEPT !.status = s] /\ doc[d] \in Row
    BY <1>0, <2>1, <2>2 DEF TypeOK
  <2>5. \A e \in Ids \ {d} : doc'[e] = doc[e]
    BY <1>0, <2>1, <2>2 DEF TypeOK
  <2> HIDE DEF d
  <2>6. Stays(d)
    BY <2>2, <2>3, <2>4, StatusStays
  <2>7. \A e \in Ids \ {d} : Stays(e)
    BY <2>5 DEF Stays
  <2> QED
    BY <1>1, <2>1, <2>6, <2>7 DEF Keep
<1> QED
  BY <1>3, <1>4

LEMMA DeletionsGone ==
    ASSUME IInv, Deletions
    PROVE  \E S \in SUBSET (1..made) : Gone(S) /\ Remove(S)
<1> USE DocumentAssumption
<1>0. TypeOK
  BY DEF IInv, Shape
<1>1. ASSUME NEW S \in SUBSET (1..made), Remove(S), ~Referenced(S), made' = made,
             mass => mass', mass' \/ \A d \in S : doc[d].status = "DRAFT"
      PROVE  Gone(S)
  <2>1. S \subseteq Ids
    BY <1>0 DEF TypeOK, Ids
  <2>2. /\ \A d \in S : doc'[d] = NoRow
        /\ \A d \in Ids \ S : doc'[d] = doc[d]
    BY <1>1, <2>1 DEF Remove
  <2> QED
    BY <1>1, <2>2 DEF Gone, Remove
<1>2. CASE \E d \in 1..made : DeleteDraftDocument(d)
  <2>1. PICK d \in 1..made : DeleteDraftDocument(d)
    BY <1>2
  <2>2. /\ Remove({d}) /\ ~Referenced({d}) /\ made' = made /\ mass' = mass
        /\ doc[d].status = "DRAFT"
    BY <2>1 DEF DeleteDraftDocument
  <2>3. Gone({d})
    BY <1>1, <2>2
  <2> QED
    BY <2>2, <2>3
<1>3. CASE \E S \in SUBSET (1..made) : MassDeleteDocuments(S)
  <2>1. PICK S \in SUBSET (1..made) : MassDeleteDocuments(S)
    BY <1>3
  <2>2. Remove(S) /\ ~Referenced(S) /\ made' = made
    BY <2>1 DEF MassDeleteDocuments
  <2>3. (mass => mass') /\ (mass' \/ \A d \in S : doc[d].status = "DRAFT")
    BY <2>1, Zenon DEF MassDeleteDocuments
  <2>4. Gone(S)
    BY <1>1, <2>2, <2>3
  <2> QED
    BY <2>2, <2>4
<1> QED
  BY <1>2, <1>3 DEF Deletions

LEMMA BeginsQuiet ==
    ASSUME Begins
    PROVE  Quiet
<1>1. CASE \E r \in Requests : RequestBegins(r)
  BY <1>1 DEF RequestBegins, StartCreate, StartConvert, StartVersion, SendEstimate,
              rows, history, Quiet
<1>2. CASE \E c \in Clients, n \in 1..linked, answer \in Answers :
             ReadNegociation(c, n, answer)
  BY <1>2 DEF ReadNegociation, rows, history, Quiet
<1>3. CASE \E s \in Sweeps, S \in SUBSET Candidates : S # {} /\ StartReminders(s, S)
  BY <1>3 DEF StartReminders, rows, history, Quiet
<1> QED
  BY <1>1, <1>2, <1>3 DEF Begins

LEMMA CronQuiet ==
    ASSUME NEW s \in Sweeps, CronSteps(s)
    PROVE  Quiet
BY DEF CronSteps, CheckReminder, SendReminder, MarkReminderAsSent, StopReminder, rows,
       history, Quiet

LEMMA RowStepHolds ==
    ASSUME IInv, [Next]_vars
    PROVE  RowStep
<1>0. TypeOK
  BY DEF IInv, Shape
<1>1. Quiet => RowStep
  BY <1>0, SameRowsKeep DEF RowStep
<1>2. CASE Begins
  BY <1>1, <1>2, BeginsQuiet
<1>3. CASE \E r \in Requests : RequestSteps(r)
  <2>1. PICK r \in Requests : RequestSteps(r)
    BY <1>3
  <2>2. CASE CreateDocument(r)
    BY <1>1, <2>2, CreateMakes DEF RowStep
  <2>3. CASE ReadInvoiceNumber(r)
    BY <1>1, <2>3 DEF ReadInvoiceNumber, rows, history, Quiet
  <2>4. CASE ConvertEstimateToInvoice(r)
    BY <1>1, <2>4, ConvertMakes DEF RowStep
  <2>5. CASE CreateNewDocumentVersion(r)
    BY <1>1, <2>5, VersionMakes DEF RowStep
  <2>6. CASE MarkDocumentAsDelivered(r)
    BY <2>6, DeliveredKeeps DEF RowStep
  <2>7. CASE Stop(r)
    BY <1>1, <2>7 DEF Stop, rows, history, Quiet
  <2> QED
    BY <2>1, <2>2, <2>3, <2>4, <2>5, <2>6, <2>7 DEF RequestSteps
<1>4. CASE \E c \in Clients : AnswerNegociation(c)
  BY <1>4, AnswerKeeps DEF RowStep
<1>5. CASE \E s \in Sweeps : CronSteps(s)
  BY <1>1, <1>5, CronQuiet
<1>6. CASE Deletions
  <2>1. PICK S \in SUBSET (1..made) : Gone(S)
    BY <1>6, DeletionsGone
  <2>2. S \in SUBSET Ids
    BY <1>0, DocumentAssumption DEF TypeOK, Ids
  <2> QED
    BY <2>1, <2>2 DEF RowStep
<1>7. CASE UNCHANGED vars
  BY <1>1, <1>7 DEF vars, rows, history, Quiet
<1> QED
  BY <1>2, <1>3, <1>4, <1>5, <1>6, <1>7 DEF Next

-----------------------------------------------------------------------------
(***************************************************************************)
(* Types                                                                   *)
(***************************************************************************)

LEMMA Constants ==
    /\ NoRow \in Row
    /\ NoLink \in Link
    /\ IdleReq \in Req
    /\ IdleClient \in Client
    /\ \A todo \in SUBSET Ids : GoOn(todo) \in Cron
    /\ ~NoRow.there /\ NoRow.status = "DRAFT"
    /\ NoLink.on = 0 /\ NoLink.status = "PENDING"
    /\ IdleReq.pc = "idle" /\ IdleClient.pc = "idle"
    /\ IdleCron \in Cron /\ IdleCron.pc = "idle"
    /\ \A todo : GoOn(todo).pc \in {"idle", "next"}
<1>1. \A todo \in SUBSET Ids : GoOn(todo) \in Cron
  BY DEF GoOn, Cron
<1>2. \A todo : GoOn(todo).pc \in {"idle", "next"}
  BY DEF GoOn
<1>3. IdleCron \in Cron /\ IdleCron.pc = "idle"
  BY DEF IdleCron, Cron
<1> QED
  BY <1>1, <1>2, <1>3 DEF NoRow, Row, NoLink, Link, IdleReq, Req, IdleClient, Client,
                          DocumentType, EstimateStatus, Answers

LEMMA MadeTyped ==
    ASSUME TypeOK, NEW row \in Row, made < MaxDocs, made' = made + 1,
           doc' = [doc EXCEPT ![made + 1] = [row EXCEPT !.there = TRUE]]
    PROVE  made' \in 0..MaxDocs /\ doc' \in [Ids -> Row]
<1>1. made + 1 \in Ids
  BY DocumentAssumption DEF TypeOK, Ids
<1>2. [row EXCEPT !.there = TRUE] \in Row
  BY DEF Row
<1> QED
  BY <1>1, <1>2, DocumentAssumption DEF TypeOK

LEMMA StatusTyped ==
    ASSUME TypeOK, NEW d \in Ids, NEW s \in EstimateStatus
    PROVE  [doc EXCEPT ![d].status = s] \in [Ids -> Row]
<1>1. doc[d] \in Row
  BY DEF TypeOK
<1>2. [doc[d] EXCEPT !.status = s] \in Row
  BY <1>1 DEF Row
<1> QED
  BY <1>2 DEF TypeOK

LEMMA VersionTyped ==
    ASSUME IInv, NEW r \in Requests, CreateNewDocumentVersion(r)
    PROVE  made' \in 0..MaxDocs /\ doc' \in [Ids -> Row]
<1> DEFINE d == req[r].on
           V == {doc[e].version : e \in SameNumber("ESTIMATE", doc[d].number)} \cup {0}
           k == made + 1
           row == [NoRow EXCEPT !.number = doc[d].number, !.version = Max(V) + 1,
                                !.last = TRUE, !.there = TRUE, !.root = doc[d].root]
<1> USE DocumentAssumption
<1>0. TypeOK /\ Sound(req[r]) /\ RowsPlaced /\ NoRow \in Row
  BY Constants DEF IInv, Shape, RequestsSound
<1>1. req[r].pc = "version"
  BY DEF CreateNewDocumentVersion
<1>2. CASE ~doc[d].there
  BY <1>0, <1>2 DEF CreateNewDocumentVersion, TypeOK
<1>3. CASE doc[d].there
  <2>1. made < MaxDocs /\ made' = k /\ doc' = [doc EXCEPT ![k] = row, ![d].last = FALSE]
    BY <1>3 DEF CreateNewDocumentVersion
  <2>2. made \in Nat /\ d \in 1..made /\ d \in Ids
    <3>1. d \in 1..made /\ made \in Nat /\ made <= MaxDocs
      BY <1>0, <1>1 DEF Sound, TypeOK
    <3> HIDE DEF d
    <3> QED
      BY <3>1 DEF Ids
  <2>3. V \in SUBSET (0..made) /\ V # {}
    BY <1>0, <2>2 DEF SameNumber, There, RowsPlaced
  <2>4. Max(V) + 1 \in Nat
    <3> HIDE DEF V
    <3> DEFINE m == Max(V)
    <3>1. m \in V
      BY <2>2, <2>3, GreatestIs
    <3> HIDE DEF m
    <3>2. m + 1 \in Nat
      BY <2>2, <2>3, <3>1
    <3> QED
      BY <3>2 DEF m
  <2> HIDE DEF V
  <2>5. doc[d] \in Row
    BY <1>0, <2>2 DEF TypeOK
  <2>6. row \in Row /\ [doc[d] EXCEPT !.last = FALSE] \in Row
    BY <1>0, <2>4, <2>5 DEF Row
  <2>7. k \in Ids /\ d # k
    <3>1. made < MaxDocs
      BY <2>1
    <3> HIDE DEF d
    <3> QED
      BY <2>2, <3>1 DEF Ids
  <2> HIDE DEF row, d
  <2>8. doc' = [[doc EXCEPT ![k] = row] EXCEPT ![d] = [doc[d] EXCEPT !.last = FALSE]]
    BY <1>0, <2>1, <2>2, <2>7 DEF TypeOK
  <2>9. doc' \in [Ids -> Row]
    BY <1>0, <2>6, <2>7, <2>8 DEF TypeOK
  <2>10. made' \in 0..MaxDocs
    BY <2>1, <2>2
  <2> QED
    BY <2>9, <2>10
<1> QED
  BY <1>2, <1>3

LEMMA RequestTyped ==
    ASSUME TypeOK, NEW r \in Requests, RequestSteps(r) \/ RequestBegins(r), IInv
    PROVE  TypeOK'
<1> USE DocumentAssumption
<1>c. NoRow \in Row /\ IdleReq \in Req
  BY Constants
<1>s. Sound(req[r]) /\ req[r] \in Req
  BY DEF IInv, Shape, RequestsSound, TypeOK
<1>1. CASE \E type \in Created : StartCreate(r, type)
  <2>1. PICK type \in Created : StartCreate(r, type)
    BY <1>1
  <2>2. DocumentNumber(type) \in Nat /\ type \in DocumentType
    BY NumberIsNat DEF DocumentType
  <2>3. [IdleReq EXCEPT !.pc = "create", !.type = type, !.number = DocumentNumber(type)]
          \in Req
    BY <1>c, <2>2 DEF Req
  <2> QED
    BY <2>1, <2>3 DEF StartCreate, TypeOK, rows, history
<1>2. CASE \E d \in 1..made : StartConvert(r, d)
  <2>1. PICK d \in 1..made : StartConvert(r, d)
    BY <1>2
  <2>2. d \in Ids /\ made \in Ids \cup {0}
    BY DEF TypeOK, Ids
  <2>3. [IdleReq EXCEPT !.pc = "convertNumber", !.on = d, !.readAt = made] \in Req
    BY <1>c, <2>2 DEF Req
  <2> QED
    BY <2>1, <2>3 DEF StartConvert, TypeOK, rows, history
<1>3. CASE \E d \in 1..made : StartVersion(r, d)
  <2>1. PICK d \in 1..made : StartVersion(r, d)
    BY <1>3
  <2>2. d \in Ids
    BY DEF TypeOK, Ids
  <2>3. [IdleReq EXCEPT !.pc = "version", !.on = d] \in Req
    BY <1>c, <2>2 DEF Req
  <2> QED
    BY <2>1, <2>3 DEF StartVersion, TypeOK, rows, history
<1>4. CASE \E d \in 1..made : SendEstimate(r, d)
  <2>1. PICK d \in 1..made : SendEstimate(r, d)
    BY <1>4
  <2>2. d \in Ids
    BY DEF TypeOK, Ids
  <2>3. [IdleReq EXCEPT !.pc = "deliver", !.on = d] \in Req
    BY <1>c, <2>2 DEF Req
  <2>4. [on |-> d, status |-> "PENDING"] \in Link
    BY <2>2 DEF Link
  <2>5. linked' \in 0..MaxLinks /\ link' \in [Links -> Link]
    BY <2>1, <2>4 DEF SendEstimate, AddLink, TypeOK, Links
  <2> QED
    BY <2>1, <2>3, <2>5 DEF SendEstimate, TypeOK, rows, history
<1>5. CASE CreateDocument(r)
  <2> DEFINE row == [NoRow EXCEPT !.type = req[r].type, !.number = req[r].number,
                                  !.version = 1, !.last = TRUE, !.root = made + 1]
  <2>1. Insert(r, row, IdleReq)
    BY <1>5 DEF CreateDocument
  <2>2. req' \in [Requests -> Req]
    BY <1>c, <2>1 DEF Insert, TypeOK
  <2>3. made' \in 0..MaxDocs /\ doc' \in [Ids -> Row]
    <3>1. CASE Taken(row)
      BY <2>1, <3>1 DEF Insert, TypeOK
    <3>2. CASE ~Taken(row)
      <4>1. made + 1 \in Ids
        BY <2>1, <3>2 DEF Insert, TypeOK, Ids
      <4>2. row \in Row
        BY <1>c, <1>s, <4>1 DEF Row, Req
      <4> QED
        BY <2>1, <3>2, <4>2, MadeTyped DEF Insert
    <3> QED
      BY <3>1, <3>2
  <2> QED
    BY <1>5, <2>2, <2>3 DEF CreateDocument, TypeOK, history
<1>6. CASE ReadInvoiceNumber(r)
  <2>1. DocumentNumber("INVOICE") \in Nat
    BY NumberIsNat
  <2>2. [req[r] EXCEPT !.pc = "convertCreate", !.number = DocumentNumber("INVOICE")] \in Req
    BY <1>s, <2>1 DEF Req
  <2>3. req' = [req EXCEPT ![r] =
                  [req[r] EXCEPT !.pc = "convertCreate", !.number = DocumentNumber("INVOICE")]]
    BY <1>6 DEF ReadInvoiceNumber, TypeOK
  <2>4. req' \in [Requests -> Req]
    BY <2>2, <2>3 DEF TypeOK
  <2> QED
    BY <1>6, <2>4 DEF ReadInvoiceNumber, TypeOK, rows, history
<1>7. CASE ConvertEstimateToInvoice(r)
  <2> DEFINE d == req[r].on
             row == [NoRow EXCEPT !.type = "INVOICE", !.number = req[r].number,
                                  !.version = 1, !.last = TRUE, !.source = d,
                                  !.root = made + 1, !.readAt = req[r].readAt]
  <2>1. req' \in [Requests -> Req]
    BY <1>c, <1>7 DEF ConvertEstimateToInvoice, Insert, TypeOK
  <2>2. made' \in 0..MaxDocs /\ doc' \in [Ids -> Row]
    <3>1. CASE Taken(row) \/ ~SourceThere(d)
      BY <1>7, <3>1 DEF ConvertEstimateToInvoice, Insert, TypeOK
    <3>2. CASE ~Taken(row) /\ SourceThere(d)
      <4>1. Insert(r, row, IdleReq)
        BY <1>7, <3>2 DEF ConvertEstimateToInvoice
      <4>2. made + 1 \in Ids
        BY <4>1, <3>2 DEF Insert, TypeOK, Ids
      <4>3. row \in Row
        BY <1>c, <1>s, <4>2 DEF Row, Req, DocumentType
      <4> QED
        BY <4>1, <3>2, <4>3, MadeTyped DEF Insert
    <3> QED
      BY <3>1, <3>2
  <2> QED
    BY <1>7, <2>1, <2>2 DEF ConvertEstimateToInvoice, TypeOK, history
<1>8. CASE CreateNewDocumentVersion(r)
  <2>1. req' \in [Requests -> Req]
    BY <1>c, <1>8 DEF CreateNewDocumentVersion, TypeOK
  <2>2. made' \in 0..MaxDocs /\ doc' \in [Ids -> Row]
    BY <1>8, <1>c, <1>s, VersionTyped
  <2> QED
    BY <1>8, <2>1, <2>2 DEF CreateNewDocumentVersion, TypeOK, history
<1>9. CASE MarkDocumentAsDelivered(r)
  <2>1. req[r].on \in Ids
    BY <1>9, <1>s DEF MarkDocumentAsDelivered, Sound
  <2>2. [doc EXCEPT ![req[r].on].status = "SENT"] \in [Ids -> Row]
    BY <2>1, StatusTyped DEF EstimateStatus
  <2>3. doc' \in [Ids -> Row]
    BY <1>9, <2>2 DEF MarkDocumentAsDelivered, TypeOK
  <2> QED
    BY <1>9, <1>c, <2>3 DEF MarkDocumentAsDelivered, TypeOK, history
<1>10. CASE Stop(r)
  BY <1>10, <1>c DEF Stop, TypeOK, rows, history
<1> QED
  BY <1>1, <1>2, <1>3, <1>4, <1>5, <1>6, <1>7, <1>8, <1>9, <1>10
     DEF RequestSteps, RequestBegins

LEMMA ClientTyped ==
    ASSUME TypeOK, LinksPlaced, NEW c \in Clients,
           AnswerNegociation(c) \/ \E n \in 1..linked, answer \in Answers :
                                     ReadNegociation(c, n, answer)
    PROVE  TypeOK'
<1> USE DocumentAssumption
<1>c. IdleClient \in Client
  BY Constants
<1>1. CASE \E n \in 1..linked, answer \in Answers : ReadNegociation(c, n, answer)
  <2>1. PICK n \in 1..linked, answer \in Answers : ReadNegociation(c, n, answer)
    BY <1>1
  <2>2. n \in Links
    BY DEF TypeOK, Links
  <2>3. [pc |-> "answer", link |-> n, answer |-> answer,
         fresh |-> link[n].status = "PENDING"] \in Client
    BY <2>2 DEF Client
  <2> QED
    BY <2>1, <2>3 DEF ReadNegociation, TypeOK, rows, history
<1>2. CASE AnswerNegociation(c)
  <2> DEFINE n == client[c].link
             d == link[n].on
  <2>1. client' \in [Clients -> Client]
    BY <1>2, <1>c DEF AnswerNegociation, TypeOK
  <2>2. n \in Links /\ client[c] \in Client
    <3>1. n \in 1..linked /\ linked \in 0..MaxLinks
      BY <1>2 DEF AnswerNegociation, LinksPlaced, TypeOK
    <3> HIDE DEF n
    <3>2. n \in Links
      BY <3>1 DEF Links
    <3> QED
      BY <3>2 DEF TypeOK
  <2>3. doc' \in [Ids -> Row] /\ link' \in [Links -> Link] /\ accepted' \in SUBSET Ids
    <3>1. CASE d = 0
      BY <1>2, <3>1 DEF AnswerNegociation, TypeOK
    <3>2. CASE d # 0
      <4>1. /\ link' = [link EXCEPT ![n].status = client[c].answer]
            /\ doc' = [doc EXCEPT ![d].status = Answered(client[c].answer)]
            /\ accepted' = accepted \cup
                 (IF client[c].answer = "ACCEPTED" THEN {d} ELSE {})
        BY <1>2, <3>2 DEF AnswerNegociation
      <4>2. d \in Ids /\ link[n] \in Link
        BY <2>2, <3>2 DEF TypeOK, Link
      <4>3. client[c].answer \in Answers
        BY <2>2 DEF Client
      <4>4. Answered(client[c].answer) \in EstimateStatus
        BY <4>3 DEF Answered, Answers, EstimateStatus
      <4>5. doc' \in [Ids -> Row]
        BY <4>1, <4>2, <4>4, StatusTyped
      <4>6. [link[n] EXCEPT !.status = client[c].answer] \in Link
        BY <4>2, <4>3 DEF Link
      <4> HIDE DEF n, d
      <4>7. link' \in [Links -> Link]
        BY <2>2, <4>1, <4>6 DEF TypeOK
      <4> QED
        BY <4>1, <4>2, <4>5, <4>7 DEF TypeOK
    <3> QED
      BY <3>1, <3>2
  <2> QED
    BY <1>2, <2>1, <2>3 DEF AnswerNegociation, TypeOK
<1> QED
  BY <1>1, <1>2

-----------------------------------------------------------------------------
(***************************************************************************)
(* What a step of a sweep does, apart from its links                       *)
(***************************************************************************)

Away(k) == k.pc \in {"idle", "next"}

Skips(s, k) ==
    /\ cron[s].pc # "mark" /\ Away(k)
    /\ UNCHANGED <<reminded, reminders, overlapped, stops>>

Checks(s, k) ==
    /\ Away(cron[s]) /\ k.pc = "mail" /\ k.on \in Ids \ reminded
    /\ overlapped' \in {overlapped, overlapped \cup {k.on}}
    /\ k.on \in overlapped' \/ Reminding(k.on) = {}
    /\ UNCHANGED <<reminded, reminders, stops>>

Mails(s, k) ==
    /\ cron[s].pc = "mail" /\ k.pc = "mark" /\ k.on = cron[s].on
    /\ k.on \in Ids /\ doc[k.on].there
    /\ reminders' = [reminders EXCEPT ![k.on] = @ + 1]
    /\ UNCHANGED <<reminded, overlapped, stops>>

Records(s, k) ==
    /\ cron[s].pc = "mark" /\ cron[s].on \in Ids /\ Away(k)
    /\ \/ doc[cron[s].on].there /\ reminded' = reminded \cup {cron[s].on}
       \/ ~doc[cron[s].on].there /\ reminded' = reminded
    /\ UNCHANGED <<reminders, overlapped, stops>>

Fails(s, k) ==
    /\ cron[s].pc = "mark" /\ Away(k)
    /\ stops' = stops + 1
    /\ UNCHANGED <<reminded, reminders, overlapped>>

SweepStep(s, k) ==
    /\ cron' = [cron EXCEPT ![s] = k]
    /\ Skips(s, k) \/ Checks(s, k) \/ Mails(s, k) \/ Records(s, k) \/ Fails(s, k)

LEMMA StartSteps ==
    ASSUME TypeOK, NEW s \in Sweeps, NEW S \in SUBSET Candidates, StartReminders(s, S)
    PROVE  \E k \in Cron : SweepStep(s, k)
<1> DEFINE k == [IdleCron EXCEPT !.pc = "next", !.todo = S]
<1>1. IdleCron \in Cron /\ S \in SUBSET Ids
  BY Constants DEF Candidates, There
<1>2. k \in Cron /\ Away(k)
  BY <1>1 DEF Cron, Away
<1>3. cron[s].pc # "mark" /\ cron' = [cron EXCEPT ![s] = k]
  BY DEF StartReminders
<1> HIDE DEF k
<1> QED
  BY <1>2, <1>3 DEF StartReminders, SweepStep, Skips, history

LEMMA CronStep ==
    ASSUME TypeOK, CronPlaced, NEW s \in Sweeps, CronSteps(s)
    PROVE  \E k \in Cron : SweepStep(s, k)
<1>g. \A todo \in SUBSET Ids : GoOn(todo) \in Cron /\ Away(GoOn(todo))
  BY Constants DEF Away
<1>t. cron[s] \in Cron /\ cron[s].todo \in SUBSET Ids /\ cron \in [Sweeps -> Cron]
  BY DEF TypeOK, Cron
<1>1. CASE \E d \in cron[s].todo : CheckReminder(s, d)
  <2>1. PICK d \in cron[s].todo : CheckReminder(s, d)
    BY <1>1
  <2> DEFINE left == cron[s].todo \ {d}
  <2>2. d \in Ids /\ left \in SUBSET Ids /\ cron[s].pc = "next"
    BY <1>t, <2>1 DEF CheckReminder
  <2>3. CASE AlreadyReminded(d)
    <3>1. cron' = [cron EXCEPT ![s] = GoOn(left)] /\ Skips(s, GoOn(left))
      BY <1>g, <2>1, <2>2, <2>3 DEF CheckReminder, Skips
    <3> QED
      BY <1>g, <2>2, <3>1 DEF SweepStep
  <2>4. CASE ~AlreadyReminded(d)
    <3> DEFINE k == [pc |-> "mail", todo |-> left, on |-> d]
    <3>1. k \in Cron
      BY <2>2 DEF Cron
    <3>2. cron' = [cron EXCEPT ![s] = k] /\ Checks(s, k)
      BY <2>1, <2>2, <2>4 DEF CheckReminder, Checks, Away, AlreadyReminded
    <3> QED
      BY <3>1, <3>2 DEF SweepStep
  <2> QED
    BY <2>3, <2>4
<1>2. CASE SendReminder(s)
  <2> DEFINE d == cron[s].on
  <2>1. cron[s].pc = "mail" /\ d \in Ids
    BY <1>2 DEF SendReminder, CronPlaced
  <2>2. CASE doc[d].there
    <3> DEFINE k == [cron[s] EXCEPT !.pc = "mark"]
    <3>1. k \in Cron /\ k.pc = "mark" /\ k.on = d
      BY <1>t DEF Cron
    <3>2. cron' = [cron EXCEPT ![s] = k] /\ reminders' = [reminders EXCEPT ![d] = @ + 1]
      BY <1>2, <2>2 DEF SendReminder
    <3>3. Mails(s, k)
      BY <1>2, <2>1, <2>2, <3>1, <3>2 DEF SendReminder, Mails
    <3> QED
      BY <3>1, <3>2, <3>3 DEF SweepStep
  <2>3. CASE ~doc[d].there
    BY <1>2, <1>g, <1>t, <2>1, <2>3 DEF SendReminder, SweepStep, Skips
  <2> QED
    BY <2>2, <2>3
<1>3. CASE MarkReminderAsSent(s)
  <2>1. Records(s, GoOn(cron[s].todo))
    BY <1>3, <1>g, <1>t DEF MarkReminderAsSent, Records, CronPlaced, history
  <2> QED
    BY <1>3, <1>g, <1>t, <2>1 DEF MarkReminderAsSent, SweepStep
<1>4. CASE StopReminder(s)
  <2>1. PICK k \in {GoOn(cron[s].todo), IdleCron} : cron' = [cron EXCEPT ![s] = k]
    BY <1>4 DEF StopReminder
  <2>2. k \in Cron /\ Away(k)
    BY <1>g, <1>t, <2>1, Constants DEF Away
  <2>3. Skips(s, k) \/ Fails(s, k)
    BY <1>4, <2>2 DEF StopReminder, Skips, Fails
  <2> QED
    BY <2>1, <2>2, <2>3 DEF SweepStep
<1> QED
  BY <1>1, <1>2, <1>3, <1>4 DEF CronSteps

LEMMA SweepTyped ==
    ASSUME TypeOK, NEW s \in Sweeps, NEW k \in Cron, SweepStep(s, k)
    PROVE  /\ cron' \in [Sweeps -> Cron]
           /\ reminded' \in SUBSET Ids
           /\ reminders' \in [Ids -> Nat]
           /\ overlapped' \in SUBSET Ids
           /\ stops' \in Nat
<1>1. cron' \in [Sweeps -> Cron]
  BY DEF SweepStep, TypeOK
<1>2. reminders' \in [Ids -> Nat]
  BY DEF SweepStep, Skips, Checks, Mails, Records, Fails, TypeOK
<1>3. stops' \in Nat
  BY DEF SweepStep, Skips, Checks, Mails, Records, Fails, TypeOK
<1>4. reminded' \in SUBSET Ids /\ overlapped' \in SUBSET Ids
  BY DEF SweepStep, Skips, Checks, Mails, Records, Fails, TypeOK
<1> QED
  BY <1>1, <1>2, <1>3, <1>4

LEMMA RemindersTyped ==
    ASSUME TypeOK, CronPlaced, NEW s \in Sweeps,
           CronSteps(s) \/ \E S \in SUBSET Candidates : StartReminders(s, S)
    PROVE  TypeOK'
<1> USE DocumentAssumption
<1>1. CASE \E S \in SUBSET Candidates : StartReminders(s, S)
  <2>1. PICK S \in SUBSET Candidates : StartReminders(s, S)
    BY <1>1
  <2>2. cron' \in [Sweeps -> Cron]
    BY <2>1, StartSteps, SweepTyped
  <2> QED
    BY <2>1, <2>2 DEF StartReminders, TypeOK, rows, history
<1>2. CASE CronSteps(s)
  <2>1. /\ cron' \in [Sweeps -> Cron]
        /\ reminded' \in SUBSET Ids
        /\ reminders' \in [Ids -> Nat]
        /\ overlapped' \in SUBSET Ids
        /\ stops' \in Nat
    BY <1>2, CronStep, SweepTyped
  <2>2. UNCHANGED <<made, doc, req, client, accepted, mass>>
    BY <1>2 DEF CronSteps, CheckReminder, SendReminder, MarkReminderAsSent, StopReminder,
                rows, history
  <2>3. linked' \in 0..MaxLinks /\ link' \in [Links -> Link]
    <3>1. CASE SendReminder(s)
      <4> DEFINE d == cron[s].on
      <4>1. [on |-> d, status |-> "PENDING"] \in Link
        BY <3>1 DEF SendReminder, CronPlaced, Link
      <4>2. (linked < MaxLinks /\ AddLink(d)) \/ UNCHANGED <<linked, link>>
        BY <3>1 DEF SendReminder
      <4> HIDE DEF d
      <4>3. linked' \in 0..MaxLinks
        BY <4>2 DEF AddLink, TypeOK
      <4>4. link' \in [Links -> Link]
        BY <4>1, <4>2 DEF AddLink, TypeOK, Links
      <4> QED
        BY <4>3, <4>4
    <3>2. CASE ~SendReminder(s)
      BY <1>2, <3>2 DEF CronSteps, CheckReminder, MarkReminderAsSent, StopReminder, rows,
                        TypeOK
    <3> QED
      BY <3>1, <3>2
  <2> QED
    BY <2>1, <2>2, <2>3 DEF TypeOK
<1> QED
  BY <1>1, <1>2

LEMMA RemoveTyped ==
    ASSUME TypeOK, NEW S, Remove(S)
    PROVE  /\ doc' \in [Ids -> Row]
           /\ link' \in [Links -> Link]
           /\ reminders' \in [Ids -> Nat]
           /\ accepted' \in SUBSET Ids
<1>1. NoRow \in Row /\ NoLink \in Link
  BY Constants
<1>2. doc' \in [Ids -> Row]
  <2>1. \A d \in Ids : (IF d \in S THEN NoRow ELSE doc[d]) \in Row
    BY <1>1 DEF TypeOK
  <2> QED
    BY <2>1 DEF Remove
<1>3. link' \in [Links -> Link]
  <2>1. \A n \in Links : (IF link[n].on \in S THEN NoLink ELSE link[n]) \in Link
    BY <1>1 DEF TypeOK
  <2> QED
    BY <2>1 DEF Remove
<1> QED
  BY <1>2, <1>3 DEF TypeOK, Remove

LEMMA DeletionsTyped ==
    ASSUME TypeOK, Deletions
    PROVE  TypeOK'
<1>1. CASE \E d \in 1..made : DeleteDraftDocument(d)
  <2>1. PICK d \in 1..made : DeleteDraftDocument(d)
    BY <1>1
  <2>2. /\ Remove({d})
        /\ UNCHANGED <<made, linked, req, client, cron, reminded, overlapped, mass, stops>>
    BY <2>1 DEF DeleteDraftDocument
  <2> QED
    BY <2>2, RemoveTyped DEF TypeOK
<1>2. CASE \E S \in SUBSET (1..made) : MassDeleteDocuments(S)
  <2>1. PICK S \in SUBSET (1..made) : MassDeleteDocuments(S)
    BY <1>2
  <2>2. Remove(S) /\ UNCHANGED <<made, linked, req, client, cron, reminded, overlapped, stops>>
    BY <2>1 DEF MassDeleteDocuments
  <2>3. mass' \in BOOLEAN
    BY <2>1, Zenon DEF MassDeleteDocuments
  <2> QED
    BY <2>2, <2>3, RemoveTyped DEF TypeOK
<1> QED
  BY <1>1, <1>2 DEF Deletions

LEMMA TypesHold ==
    ASSUME IInv, [Next]_vars
    PROVE  TypeOK'
<1>0. TypeOK /\ LinksPlaced /\ CronPlaced
  BY DEF IInv, Shape
<1>1. CASE Begins
  <2>1. CASE \E r \in Requests : RequestBegins(r)
    BY <1>0, <2>1, RequestTyped
  <2>2. CASE \E c \in Clients, n \in 1..linked, answer \in Answers :
               ReadNegociation(c, n, answer)
    BY <1>0, <2>2, ClientTyped
  <2>3. CASE \E s \in Sweeps, S \in SUBSET Candidates : S # {} /\ StartReminders(s, S)
    BY <1>0, <2>3, RemindersTyped
  <2> QED
    BY <1>1, <2>1, <2>2, <2>3 DEF Begins
<1>2. CASE \E r \in Requests : RequestSteps(r)
  BY <1>0, <1>2, RequestTyped
<1>3. CASE \E c \in Clients : AnswerNegociation(c)
  BY <1>0, <1>3, ClientTyped
<1>4. CASE \E s \in Sweeps : CronSteps(s)
  BY <1>0, <1>4, RemindersTyped
<1>5. CASE Deletions
  BY <1>0, <1>5, DeletionsTyped
<1>6. CASE UNCHANGED vars
  BY <1>0, <1>6 DEF TypeOK, vars, rows, history
<1> QED
  BY <1>1, <1>2, <1>3, <1>4, <1>5, <1>6 DEF Next

-----------------------------------------------------------------------------
(***************************************************************************)
(* The rows                                                                *)
(***************************************************************************)

\* A row of the new state that is there: an old one, or the one that is made.
LEMMA OldOrMade ==
    ASSUME IInv, TypeOK', RowStep, NEW d \in Ids, doc'[d].there
    PROVE  \/ doc[d].there /\ Stays(d) /\ d <= made
           \/ Make /\ d = made + 1
<1>0. RowsPlaced /\ ~NoRow.there
  BY Constants DEF IInv, Shape
<1>1. CASE Keep
  BY <1>0, <1>1 DEF Keep, Stays, RowsPlaced
<1>2. CASE Make
  BY <1>0, <1>2 DEF Make, Stays, RowsPlaced
<1>3. CASE \E S \in SUBSET Ids : Gone(S)
  <2>1. PICK S \in SUBSET Ids : Gone(S)
    BY <1>3
  <2>2. d \notin S /\ doc'[d] = doc[d]
    BY <1>0, <2>1 DEF Gone
  <2> QED
    BY <1>0, <2>2 DEF Stays, RowsPlaced
<1> QED
  BY <1>1, <1>2, <1>3 DEF RowStep

LEMMA RowsPlacedStep ==
    ASSUME IInv, TypeOK', RowStep
    PROVE  RowsPlaced'
<1>0. TypeOK /\ RowsPlaced
  BY DEF IInv, Shape
<1>m. made \in Nat /\ made' \in Nat /\ made <= made'
  BY <1>0 DEF TypeOK, RowStep, Keep, Make, Gone
<1> SUFFICES ASSUME NEW d \in Ids
             PROVE  /\ doc'[d].there \/ doc'[d] = NoRow
                    /\ doc'[d].there => d <= made' /\ doc'[d].version \in 1..made'
  BY DEF RowsPlaced
<1>1. doc'[d].there \/ doc'[d] = NoRow
  <2>1. CASE Keep
    BY <1>0, <2>1 DEF Keep, Stays, RowsPlaced
  <2>2. CASE Make
    BY <1>0, <2>2 DEF Make, Stays, RowsPlaced
  <2>3. CASE \E S \in SUBSET Ids : Gone(S)
    BY <1>0, <2>3 DEF Gone, RowsPlaced
  <2> QED
    BY <2>1, <2>2, <2>3 DEF RowStep
<1>2. ASSUME doc'[d].there
      PROVE  d <= made' /\ doc'[d].version \in 1..made'
  <2>1. CASE doc[d].there /\ Stays(d) /\ d <= made
    <3>1. doc[d].version \in 1..made /\ doc'[d].version = doc[d].version
      BY <1>0, <2>1 DEF RowsPlaced, Stays
    <3> QED
      BY <1>m, <2>1, <3>1, DocumentAssumption DEF Ids
  <2>2. CASE Make /\ d = made + 1
    <3>1. doc'[d].version \in 1..(made + 1)
      BY <1>m, <2>2 DEF Make, First, NextVersion
    <3> QED
      BY <1>m, <2>2, <3>1 DEF Make
  <2> QED
    BY <1>2, <2>1, <2>2, OldOrMade
<1> QED
  BY <1>1, <1>2

LEMMA KeyStep ==
    ASSUME IInv, TypeOK', RowStep
    PROVE  KeyIsUnique'
<1>0. TypeOK /\ RowsPlaced /\ KeyIsUnique
  BY DEF IInv, Shape
<1> DEFINE Same(d, e) == /\ doc'[d].type = doc'[e].type
                         /\ doc'[d].number = doc'[e].number
                         /\ doc'[d].version = doc'[e].version
<1>1. ASSUME NEW d \in Ids, NEW e \in Ids, Same(d, e), doc'[d].there, doc'[e].there,
             Make, d = made + 1, doc[e].there, Stays(e)
      PROVE  FALSE
  <2> DEFINE new == doc'[d]
  <2>1. First(new) \/ NextVersion(new)
    BY <1>1 DEF Make
  <2>2. e \in SameNumber(new.type, new.number) /\ doc[e].version = new.version
    BY <1>1 DEF SameNumber, There, Stays
  <2>3. doc[e].version \in Nat
    BY <1>0 DEF TypeOK, Row
  <2> HIDE DEF new
  <2>4. CASE First(new)
    BY <2>2, <2>4 DEF First
  <2>5. CASE NextVersion(new)
    <3>1. new.type = "ESTIMATE" /\ \A x \in SameNumber("ESTIMATE", new.number) :
                                      doc[x].version < new.version
      BY <2>5 DEF NextVersion
    <3> QED
      BY <2>2, <2>3, <3>1
  <2> QED
    BY <2>1, <2>4, <2>5
<1> SUFFICES ASSUME NEW d \in Ids, NEW e \in Ids, Same(d, e), doc'[d].there, doc'[e].there
             PROVE  d = e
  BY DEF KeyIsUnique
<1>2. \/ doc[d].there /\ Stays(d) /\ d <= made
      \/ Make /\ d = made + 1
  BY OldOrMade
<1>3. \/ doc[e].there /\ Stays(e) /\ e <= made
      \/ Make /\ e = made + 1
  BY OldOrMade
<1>4. CASE doc[d].there /\ Stays(d) /\ doc[e].there /\ Stays(e)
  BY <1>0, <1>4 DEF KeyIsUnique, Stays
<1>5. Same(e, d)
  OBVIOUS
<1> HIDE DEF Same
<1> QED
  BY <1>1, <1>2, <1>3, <1>4, <1>5

\* The first version of a document outlives a step that deletes no more than
\* drafts.
LEMMA RootStep ==
    ASSUME IInv, TypeOK', RowStep
    PROVE  RootStays'
<1> DEFINE Founded(d, f) ==
             /\ f \in Ids
             /\ doc[f].there
             /\ doc[f].version = 1
             /\ doc[f].type = doc[d].type
             /\ doc[f].number = doc[d].number
             /\ f # d => doc[f].status # "DRAFT"
<1>0. TypeOK /\ RowsPlaced /\ RootStays
  BY DEF IInv, Shape
<1>m. made \in Nat
  BY <1>0 DEF TypeOK
<1> SUFFICES ASSUME ~mass', NEW d \in Ids, doc'[d].there
             PROVE  Founded(d, doc[d].root)'
  BY DEF RootStays
<1>1. ~mass
  BY DEF RowStep, Keep, Make, Gone
<1>2. \A x \in Ids : doc[x].there => Founded(x, doc[x].root)
  BY <1>0, <1>1 DEF RootStays
<1>3. CASE doc[d].there /\ Stays(d)
  <2> DEFINE f == doc[d].root
  <2>1. doc'[d].root = f /\ Founded(d, f)
    BY <1>2, <1>3 DEF Stays
  <2>2. Stays(f)
    <3>1. CASE Keep
      BY <2>1, <3>1 DEF Keep
    <3>2. CASE Make
      <4>1. f # made + 1
        BY <1>m, <1>0, <2>1 DEF RowsPlaced
      <4> QED
        BY <2>1, <3>2, <4>1 DEF Make
    <3>3. CASE \E S \in SUBSET Ids : Gone(S)
      <4>1. PICK S \in SUBSET Ids : Gone(S)
        BY <3>3
      <4>2. d \notin S
        BY <4>1, Constants DEF Gone
      <4>3. f \notin S
        BY <2>1, <4>1, <4>2 DEF Gone
      <4> QED
        BY <2>1, <4>1, <4>3 DEF Gone, Stays
    <3> QED
      BY <3>1, <3>2, <3>3 DEF RowStep
  <2> HIDE DEF f
  <2> QED
    BY <1>3, <2>1, <2>2 DEF Stays
<1>4. CASE Make /\ d = made + 1
  <2>1. CASE First(doc'[d])
    BY <1>4, <2>1 DEF First
  <2>2. CASE NextVersion(doc'[d])
    <3>1. PICK x \in 1..made :
             /\ doc[x].there
             /\ doc[x].type = "ESTIMATE"
             /\ doc[x].status # "DRAFT"
             /\ doc'[d].type = "ESTIMATE"
             /\ doc'[d].number = doc[x].number
             /\ doc'[d].root = doc[x].root
      BY <2>2 DEF NextVersion
    <3>2. x \in Ids
      BY <1>0, DocumentAssumption DEF TypeOK, Ids
    <3> DEFINE f == doc[x].root
    <3>3. Founded(x, f)
      BY <1>2, <3>1, <3>2
    <3>4. doc[f].status # "DRAFT"
      BY <3>1, <3>3
    <3>5. f # made + 1
      BY <1>m, <1>0, <3>3 DEF RowsPlaced
    <3>6. Stays(f)
      BY <1>4, <3>3, <3>5 DEF Make
    <3> HIDE DEF f
    <3> QED
      BY <3>1, <3>3, <3>4, <3>6 DEF Stays, f
  <2> QED
    BY <1>4, <2>1, <2>2 DEF Make
<1> QED
  BY <1>3, <1>4, OldOrMade

\* An estimate that is there keeps what an invoice relies on.
LEMMA AcceptedStays ==
    ASSUME IInv, NEW d \in Ids, RowStep, doc'[d].there, d <= made
    PROVE  /\ d \in accepted => d \in accepted'
           /\ doc[d].there
<1>0. TypeOK /\ RowsPlaced /\ ~NoRow.there
  BY Constants DEF IInv, Shape
<1>1. CASE Keep
  BY <1>1 DEF Keep, Stays
<1>2. CASE Make
  <2>1. d # made + 1
    BY <1>0, DocumentAssumption DEF TypeOK, Ids
  <2> QED
    BY <1>2, <2>1 DEF Make, Stays
<1>3. CASE \E S \in SUBSET Ids : Gone(S)
  BY <1>0, <1>3 DEF Gone
<1> QED
  BY <1>1, <1>2, <1>3 DEF RowStep

LEMMA OriginStep ==
    ASSUME IInv, TypeOK', RowStep
    PROVE  InvoiceHasAcceptedEstimate'
<1> USE DocumentAssumption
<1>0. TypeOK /\ RowsPlaced /\ InvoiceHasAcceptedEstimate /\ made \in Nat
  BY DEF IInv, Shape, TypeOK
<1> SUFFICES ASSUME NEW i \in Ids, doc'[i].there, doc'[i].type = "INVOICE",
                    doc'[i].source # 0
             PROVE  doc'[doc'[i].source].there /\ doc'[i].source \in accepted'
  BY DEF InvoiceHasAcceptedEstimate, There
<1> DEFINE d == doc'[i].source
<1>1. d \in Ids /\ d <= made /\ doc[d].there /\ d \in accepted
  <2>1. CASE doc[i].there /\ Stays(i)
    <3>1. doc[i].type = "INVOICE" /\ doc[i].source = d
      BY <2>1 DEF Stays
    <3>2. d \in Ids
      BY <1>0, <3>1 DEF TypeOK, Row
    <3>3. doc[d].there /\ d \in accepted
      BY <1>0, <2>1, <3>1 DEF InvoiceHasAcceptedEstimate, There
    <3> HIDE DEF d
    <3> QED
      BY <1>0, <3>2, <3>3 DEF RowsPlaced
  <2>2. CASE Make /\ i = made + 1
    <3>1. First(doc'[i])
      BY <2>2 DEF Make, NextVersion
    <3>2. d \in 1..made /\ doc[d].there /\ d \in accepted
      BY <3>1 DEF First
    <3> HIDE DEF d
    <3> QED
      BY <1>0, <3>2 DEF TypeOK, Ids
  <2> QED
    BY <2>1, <2>2, OldOrMade
<1>2. CASE Keep \/ Make
  <2>1. d # made + 1
    BY <1>0, <1>1 DEF Ids
  <2>2. Stays(d) /\ accepted \subseteq accepted'
    BY <1>1, <1>2, <2>1 DEF Keep, Make
  <2> HIDE DEF d
  <2>3. doc'[d].there /\ d \in accepted'
    BY <1>1, <2>2 DEF Stays
  <2> QED
    BY <2>3 DEF d
<1>3. CASE \E S \in SUBSET Ids : Gone(S)
  <2>1. PICK S \in SUBSET Ids : Gone(S)
    BY <1>3
  <2>2. i \notin S /\ doc'[i] = doc[i]
    BY <2>1, Constants DEF Gone
  <2>3. d \notin S
    BY <2>1, <2>2 DEF Gone, Referenced
  <2> HIDE DEF d
  <2>4. doc'[d].there /\ d \in accepted'
    BY <1>1, <2>1, <2>3 DEF Gone
  <2> QED
    BY <2>4 DEF d
<1> QED
  BY <1>2, <1>3 DEF RowStep

LEMMA SecondStep ==
    ASSUME IInv, TypeOK', RowStep
    PROVE  SecondInvoiceOnlyByOverlap'
<1> USE DocumentAssumption
<1>0. TypeOK /\ RowsPlaced /\ SecondInvoiceOnlyByOverlap /\ made \in Nat
  BY DEF IInv, Shape, TypeOK
<1> SUFFICES ASSUME NEW i \in Ids, NEW j \in Ids, i < j,
                    doc'[i].there, doc'[j].there,
                    doc'[i].type = "INVOICE", doc'[j].type = "INVOICE",
                    doc'[i].source = doc'[j].source, doc'[i].source # 0
             PROVE  doc'[j].readAt < i
  BY DEF SecondInvoiceOnlyByOverlap
<1>1. CASE doc[i].there /\ Stays(i) /\ i <= made
  <2>1. CASE doc[j].there /\ Stays(j)
    BY <1>0, <1>1, <2>1 DEF Stays, SecondInvoiceOnlyByOverlap
  <2>2. CASE Make /\ j = made + 1
    <3>1. First(doc'[j])
      BY <2>2 DEF Make, NextVersion
    <3>2. i \in InvoicesOf(doc'[j].source)
      BY <1>1 DEF Stays, InvoicesOf, There
    <3> QED
      BY <3>1, <3>2 DEF First
  <2> QED
    BY <2>1, <2>2, OldOrMade
<1>2. CASE Make /\ i = made + 1
  <2>1. j <= made + 1
    BY <1>0, OldOrMade DEF Ids
  <2> QED
    BY <1>0, <1>2, <2>1 DEF Ids
<1> QED
  BY <1>1, <1>2, OldOrMade

-----------------------------------------------------------------------------
(***************************************************************************)
(* The negotiations                                                        *)
(***************************************************************************)

\* Nothing about the negotiations, and nothing is accepted.
NoAnswer ==
    /\ UNCHANGED <<linked, link>>
    /\ \A d \in Ids : doc'[d].status = "ACCEPTED" => doc[d].status = "ACCEPTED"
    /\ \A d \in Ids : doc[d].there => doc'[d].there
    /\ accepted' = accepted

NewLink ==
    /\ \E d \in Ids : doc[d].there /\ AddLink(d)
    /\ UNCHANGED <<doc, accepted>>

LinkStep ==
    \/ NoAnswer
    \/ NewLink
    \/ \E c \in Clients : AnswerNegociation(c)
    \/ linked' = linked /\ \E S \in SUBSET Ids : Gone(S) /\ Remove(S)

LEMMA RequestLinks ==
    ASSUME IInv, NEW r \in Requests, RequestSteps(r) \/ RequestBegins(r)
    PROVE  NoAnswer \/ NewLink
<1>0. TypeOK /\ RowsPlaced /\ Sound(req[r])
  BY DEF IInv, Shape, RequestsSound
<1>1. Quiet /\ UNCHANGED <<linked, link>> => NoAnswer
  BY DEF Quiet, NoAnswer
<1>2. Make /\ UNCHANGED <<linked, link>> => NoAnswer
  <2>1. ASSUME Make, NEW d \in Ids
        PROVE  /\ doc'[d].status = "ACCEPTED" => doc[d].status = "ACCEPTED"
               /\ doc[d].there => doc'[d].there
    BY <2>1 DEF Make, Stays
  <2> QED
    BY <2>1 DEF Make, NoAnswer
<1>3. CASE RequestBegins(r)
  <2>1. CASE \E d \in 1..made : SendEstimate(r, d)
    <3>1. PICK d \in 1..made : SendEstimate(r, d)
      BY <2>1
    <3>2. d \in Ids /\ doc[d].there /\ AddLink(d) /\ UNCHANGED <<doc, accepted>>
      BY <3>1 DEF SendEstimate, There, history
    <3> QED
      BY <3>2 DEF NewLink
  <2>2. CASE ~\E d \in 1..made : SendEstimate(r, d)
    BY <1>1, <1>3, <2>2 DEF RequestBegins, StartCreate, StartConvert, StartVersion,
                            Quiet, rows, history
  <2> QED
    BY <2>1, <2>2
<1>4. CASE CreateDocument(r)
  <2>1. UNCHANGED <<linked, link>>
    BY <1>4 DEF CreateDocument
  <2> QED
    BY <1>1, <1>2, <1>4, <2>1, CreateMakes
<1>5. CASE ConvertEstimateToInvoice(r)
  <2>1. UNCHANGED <<linked, link>>
    BY <1>5 DEF ConvertEstimateToInvoice
  <2> QED
    BY <1>1, <1>2, <1>5, <2>1, ConvertMakes
<1>6. CASE CreateNewDocumentVersion(r)
  <2>1. UNCHANGED <<linked, link>>
    BY <1>6 DEF CreateNewDocumentVersion
  <2> QED
    BY <1>1, <1>2, <1>6, <2>1, VersionMakes
<1>7. CASE ReadInvoiceNumber(r) \/ Stop(r)
  BY <1>1, <1>7 DEF ReadInvoiceNumber, Stop, Quiet, rows, history
<1>8. CASE MarkDocumentAsDelivered(r)
  <2> DEFINE e == req[r].on
  <2>1. e \in Ids /\ UNCHANGED <<linked, link, accepted>>
    BY <1>0, <1>8 DEF MarkDocumentAsDelivered, Sound, history
  <2>2. doc' = IF doc[e].there THEN [doc EXCEPT ![e].status = "SENT"] ELSE doc
    BY <1>8 DEF MarkDocumentAsDelivered
  <2> HIDE DEF e
  <2>3. ASSUME NEW d \in Ids
        PROVE  /\ doc'[d].status = "ACCEPTED" => doc[d].status = "ACCEPTED"
               /\ doc[d].there => doc'[d].there
    <3>1. doc[d] \in Row
      BY <1>0 DEF TypeOK
    <3>2. doc'[d] = doc[d] \/ doc'[d] = [doc[d] EXCEPT !.status = "SENT"]
      BY <1>0, <2>1, <2>2 DEF TypeOK
    <3>3. CASE doc'[d] = doc[d]
      BY <3>3
    <3>4. CASE doc'[d] = [doc[d] EXCEPT !.status = "SENT"]
      BY <3>1, <3>4 DEF Row
    <3> QED
      BY <3>2, <3>3, <3>4
  <2> QED
    BY <2>1, <2>3 DEF NoAnswer
<1> QED
  BY <1>3, <1>4, <1>5, <1>6, <1>7, <1>8 DEF RequestSteps

LEMMA CronLinks ==
    ASSUME IInv, NEW s \in Sweeps, CronSteps(s)
    PROVE  NoAnswer \/ NewLink
<1>1. CASE SendReminder(s)
  <2> DEFINE d == cron[s].on
  <2>1. d \in Ids /\ UNCHANGED <<doc, accepted>>
    BY <1>1 DEF IInv, Shape, CronPlaced, SendReminder
  <2>2. UNCHANGED <<linked, link>> \/ (doc[d].there /\ AddLink(d))
    BY <1>1 DEF SendReminder
  <2> HIDE DEF d
  <2> QED
    BY <2>1, <2>2 DEF NoAnswer, NewLink
<1>2. CASE ~SendReminder(s)
  BY <1>2 DEF CronSteps, CheckReminder, MarkReminderAsSent, StopReminder, NoAnswer, rows,
              history
<1> QED
  BY <1>1, <1>2

LEMMA LinkStepHolds ==
    ASSUME IInv, [Next]_vars
    PROVE  LinkStep
<1>0. TypeOK
  BY DEF IInv, Shape
<1>1. CASE Begins
  <2>1. CASE \E r \in Requests : RequestBegins(r)
    BY <2>1, RequestLinks DEF LinkStep
  <2>2. CASE \E c \in Clients, n \in 1..linked, answer \in Answers :
               ReadNegociation(c, n, answer)
    BY <2>2 DEF ReadNegociation, NoAnswer, LinkStep, rows, history
  <2>3. CASE \E s \in Sweeps, S \in SUBSET Candidates : S # {} /\ StartReminders(s, S)
    BY <2>3 DEF StartReminders, NoAnswer, LinkStep, rows, history
  <2> QED
    BY <1>1, <2>1, <2>2, <2>3 DEF Begins
<1>2. CASE \E r \in Requests : RequestSteps(r)
  BY <1>2, RequestLinks DEF LinkStep
<1>3. CASE \E c \in Clients : AnswerNegociation(c)
  BY <1>3 DEF LinkStep
<1>4. CASE \E s \in Sweeps : CronSteps(s)
  BY <1>4, CronLinks DEF LinkStep
<1>5. CASE Deletions
  <2>1. PICK S \in SUBSET (1..made) : Gone(S) /\ Remove(S)
    BY <1>5, DeletionsGone
  <2>2. S \in SUBSET Ids
    BY <1>0, DocumentAssumption DEF TypeOK, Ids
  <2>3. linked' = linked
    BY <1>5 DEF Deletions, DeleteDraftDocument, MassDeleteDocuments
  <2> QED
    BY <2>1, <2>2, <2>3 DEF LinkStep
<1>6. CASE UNCHANGED vars
  BY <1>6 DEF vars, rows, history, NoAnswer, LinkStep
<1> QED
  BY <1>1, <1>2, <1>3, <1>4, <1>5, <1>6 DEF Next

\* A request of the client is over, goes on, or has read a negotiation.
LEMMA ClientStep ==
    ASSUME TypeOK, [Next]_vars, NEW c \in Clients, client'[c].pc = "answer"
    PROVE  \/ client'[c] = client[c]
           \/ client'[c].link \in 1..linked /\ client'[c].fresh
<1>0. IdleClient.pc = "idle"
  BY Constants
<1>1. CASE Begins
  <2>1. CASE \E r \in Requests : RequestBegins(r)
    BY <2>1 DEF RequestBegins, StartCreate, StartConvert, StartVersion, SendEstimate
  <2>2. CASE \E k \in Clients, n \in 1..linked, answer \in Answers :
               ReadNegociation(k, n, answer)
    <3>1. PICK k \in Clients, n \in 1..linked, answer \in Answers :
             ReadNegociation(k, n, answer)
      BY <2>2
    <3> DEFINE new == [pc |-> "answer", link |-> n, answer |-> answer,
                       fresh |-> link[n].status = "PENDING"]
    <3>2. client' = [client EXCEPT ![k] = new] /\ link[n].status = "PENDING"
      BY <3>1 DEF ReadNegociation, Open
    <3>3. new.link = n /\ new.fresh
      BY <3>2
    <3> HIDE DEF new
    <3> QED
      BY <3>2, <3>3 DEF TypeOK
  <2>3. CASE \E s \in Sweeps, S \in SUBSET Candidates : S # {} /\ StartReminders(s, S)
    BY <2>3 DEF StartReminders
  <2> QED
    BY <1>1, <2>1, <2>2, <2>3 DEF Begins
<1>2. CASE \E r \in Requests : RequestSteps(r)
  BY <1>2 DEF RequestSteps, CreateDocument, ReadInvoiceNumber, ConvertEstimateToInvoice,
              CreateNewDocumentVersion, MarkDocumentAsDelivered, Stop
<1>3. CASE \E k \in Clients : AnswerNegociation(k)
  BY <1>0, <1>3 DEF AnswerNegociation, TypeOK
<1>4. CASE \E s \in Sweeps : CronSteps(s)
  BY <1>4 DEF CronSteps, CheckReminder, SendReminder, MarkReminderAsSent, StopReminder
<1>5. CASE Deletions
  BY <1>5 DEF Deletions, DeleteDraftDocument, MassDeleteDocuments
<1>6. CASE UNCHANGED vars
  BY <1>6 DEF vars
<1> QED
  BY <1>1, <1>2, <1>3, <1>4, <1>5, <1>6 DEF Next

\* An answer is written to the negotiation it is for, and to its estimate.
LEMMA AnswerWrites ==
    ASSUME TypeOK, LinksPlaced, NEW c \in Clients, AnswerNegociation(c)
    PROVE  LET n == client[c].link
               d == link[n].on
           IN  /\ linked' = linked
               /\ n \in Links /\ n \in 1..linked /\ client[c].fresh
               /\ \A m \in Links : link'[m].on = link[m].on
               /\ \A m \in Links \ {n} : link'[m] = link[m]
               /\ \A e \in Ids \ {d} : doc'[e] = doc[e]
               /\ d = 0 => doc' = doc /\ link' = link /\ accepted' = accepted
               /\ d # 0 => /\ d \in Ids
                           /\ link'[n].status = client[c].answer
                           /\ doc'[d].status = Answered(client[c].answer)
                           /\ doc'[d].there = doc[d].there
               /\ accepted \subseteq accepted'
               /\ d # 0 /\ client[c].answer = "ACCEPTED" => d \in accepted'
<1> DEFINE n == client[c].link
           d == link[n].on
<1>1. n \in Links /\ n \in 1..linked /\ client[c].fresh
  BY DocumentAssumption DEF AnswerNegociation, LinksPlaced, TypeOK, Links
<1>2. d \in Ids \cup {0} /\ link[n] \in Link /\ linked' = linked
  BY <1>1 DEF TypeOK, Link, AnswerNegociation
<1>3. CASE d = 0
  BY <1>1, <1>2, <1>3 DEF AnswerNegociation
<1>4. CASE d # 0
  <2> DEFINE s == Answered(client[c].answer)
             a == client[c].answer
  <2>1. /\ link' = [link EXCEPT ![n].status = a]
        /\ doc' = [doc EXCEPT ![d].status = s]
        /\ accepted' = accepted \cup (IF a = "ACCEPTED" THEN {d} ELSE {})
    BY <1>4 DEF AnswerNegociation
  <2>2. doc[d] \in Row /\ d \in Ids
    BY <1>2, <1>4 DEF TypeOK
  <2> HIDE DEF n, d, s, a
  <2>3. link'[n] = [link[n] EXCEPT !.status = a] /\ \A m \in Links \ {n} : link'[m] = link[m]
    BY <1>1, <2>1 DEF TypeOK
  <2>4. link'[n].status = a /\ link'[n].on = link[n].on
    BY <1>2, <2>3 DEF Link
  <2>5. doc'[d] = [doc[d] EXCEPT !.status = s] /\ \A e \in Ids \ {d} : doc'[e] = doc[e]
    BY <2>1, <2>2 DEF TypeOK
  <2>6. doc'[d].status = s /\ doc'[d].there = doc[d].there
    BY <2>2, <2>5 DEF Row
  <2>7. accepted \subseteq accepted' /\ (a = "ACCEPTED" => d \in accepted')
    BY <2>1
  <2>8. \A m \in Links : link'[m].on = link[m].on
    BY <2>3, <2>4
  <2> QED
    BY <1>1, <1>2, <1>4, <2>2, <2>3, <2>4, <2>5, <2>6, <2>7, <2>8 DEF n, d, s, a
<1> QED
  BY <1>3, <1>4

LEMMA LinksStep ==
    ASSUME IInv, [Next]_vars, LinkStep, TypeOK'
    PROVE  LinksPlaced'
<1> USE DocumentAssumption
<1>0. TypeOK /\ LinksPlaced /\ linked \in Nat
  BY DEF IInv, Shape, TypeOK
<1>1. linked' \in Nat /\ linked <= linked'
  <2>1. linked' = linked \/ linked' = linked + 1
    BY <1>0, AnswerWrites DEF LinkStep, NoAnswer, NewLink, AddLink
  <2> QED
    BY <1>0, <2>1
<1>2. \A c \in Clients : client'[c].pc = "answer" =>
        client'[c].link \in 1..linked' /\ client'[c].fresh
  <2> SUFFICES ASSUME NEW c \in Clients, client'[c].pc = "answer"
               PROVE  client'[c].link \in 1..linked' /\ client'[c].fresh
    OBVIOUS
  <2>1. client'[c].link \in 1..linked /\ client'[c].fresh
    BY <1>0, ClientStep DEF LinksPlaced
  <2> QED
    BY <1>0, <1>1, <2>1
<1>3. ASSUME NEW n \in Links, link'[n].on # 0
      PROVE  n <= linked' /\ doc'[link'[n].on].there
  <2>0. n \in Nat
    BY DEF Links
  <2>1. CASE NoAnswer
    <3>1. link'[n] = link[n] /\ link[n].on \in Ids
      BY <1>0, <1>3, <2>1 DEF NoAnswer, TypeOK, Link
    <3> QED
      BY <1>0, <1>3, <2>1, <3>1 DEF NoAnswer, LinksPlaced
  <2>2. CASE NewLink
    <3>1. PICK d \in Ids : doc[d].there /\ AddLink(d)
      BY <2>2 DEF NewLink
    <3>2. CASE n = linked + 1
      <4>1. link'[n] = [on |-> d, status |-> "PENDING"] /\ linked' = linked + 1
        BY <1>0, <3>1, <3>2 DEF AddLink, TypeOK
      <4> QED
        BY <1>0, <2>2, <3>1, <3>2, <4>1 DEF NewLink
    <3>3. CASE n # linked + 1
      <4>1. link'[n] = link[n] /\ doc' = doc
        BY <1>0, <2>2, <3>1, <3>3 DEF AddLink, TypeOK, NewLink
      <4> QED
        BY <1>0, <1>1, <1>3, <2>0, <4>1 DEF LinksPlaced
    <3> QED
      BY <3>2, <3>3
  <2>3. CASE \E c \in Clients : AnswerNegociation(c)
    <3>1. PICK c \in Clients : AnswerNegociation(c)
      BY <2>3
    <3> DEFINE e == link[client[c].link].on
    <3>2. /\ link'[n].on = link[n].on /\ linked' = linked
          /\ \A d \in Ids \ {e} : doc'[d] = doc[d]
          /\ e # 0 => e \in Ids /\ doc'[e].there = doc[e].there
      BY <1>0, <3>1, AnswerWrites
    <3>3. link[n].on \in Ids /\ n <= linked /\ doc[link[n].on].there
      BY <1>0, <1>3, <3>2 DEF LinksPlaced, TypeOK, Link
    <3> HIDE DEF e
    <3>4. doc'[link[n].on].there
      <4>1. CASE link[n].on = e
        BY <3>2, <3>3, <4>1, <1>3
      <4>2. CASE link[n].on # e
        BY <3>2, <3>3, <4>2
      <4> QED
        BY <4>1, <4>2
    <3> QED
      BY <3>2, <3>3, <3>4
  <2>4. CASE linked' = linked /\ \E S \in SUBSET Ids : Gone(S) /\ Remove(S)
    <3>1. PICK S \in SUBSET Ids : Gone(S) /\ Remove(S)
      BY <2>4
    <3>2. link[n].on \notin S /\ link'[n] = link[n]
      BY <1>3, <3>1, Constants DEF Remove
    <3>3. link[n].on \in Ids /\ doc'[link[n].on] = doc[link[n].on]
      BY <1>0, <1>3, <3>1, <3>2 DEF Gone, TypeOK, Link
    <3> QED
      BY <1>0, <1>3, <2>4, <3>2, <3>3 DEF LinksPlaced
  <2> QED
    BY <2>1, <2>2, <2>3, <2>4 DEF LinkStep
<1> QED
  BY <1>2, <1>3 DEF LinksPlaced

LEMMA AcceptedStep ==
    ASSUME IInv, LinkStep, TypeOK'
    PROVE  AcceptedByLink'
<1> USE DocumentAssumption
<1>0. TypeOK /\ LinksPlaced /\ AcceptedByLink /\ linked \in Nat /\ linked <= MaxLinks
  BY DEF IInv, Shape, TypeOK
<1> SUFFICES ASSUME NEW d \in Ids, doc'[d].status = "ACCEPTED"
             PROVE  /\ d \in accepted'
                    /\ \E m \in 1..linked' : link'[m].on = d /\ link'[m].status = "ACCEPTED"
  BY DEF AcceptedByLink
<1>l. \A m \in 1..linked : m \in Links
  BY <1>0 DEF Links
<1>1. CASE NoAnswer
  BY <1>0, <1>1 DEF NoAnswer, AcceptedByLink
<1>2. CASE NewLink
  <2>1. PICK m \in 1..linked : link[m].on = d /\ link[m].status = "ACCEPTED"
    BY <1>0, <1>2 DEF NewLink, AcceptedByLink
  <2>2. link'[m] = link[m] /\ linked' = linked + 1
    <3>1. m # linked + 1 /\ m \in Links
      BY <1>0, <1>l
    <3> QED
      BY <1>0, <1>2, <3>1 DEF NewLink, AddLink, TypeOK
  <2>3. m \in 1..linked'
    BY <1>0, <2>2
  <2>4. d \in accepted'
    BY <1>0, <1>2 DEF NewLink, AcceptedByLink
  <2> QED
    BY <2>1, <2>2, <2>3, <2>4
<1>3. CASE \E c \in Clients : AnswerNegociation(c)
  <2>1. PICK c \in Clients : AnswerNegociation(c)
    BY <1>3
  <2> DEFINE n == client[c].link
             e == link[n].on
  <2>2. /\ linked' = linked /\ n \in 1..linked /\ accepted \subseteq accepted'
        /\ \A m \in Links : link'[m].on = link[m].on
        /\ \A m \in Links \ {n} : link'[m] = link[m]
        /\ \A x \in Ids \ {e} : doc'[x] = doc[x]
        /\ e = 0 => doc' = doc /\ link' = link
    BY <1>0, <2>1, AnswerWrites
  <2>3. e # 0 => /\ link'[n].status = client[c].answer
                 /\ doc'[e].status = Answered(client[c].answer)
                 /\ client[c].answer = "ACCEPTED" => e \in accepted'
    BY <1>0, <2>1, AnswerWrites
  <2>4. client[c].answer \in Answers
    BY <1>0 DEF TypeOK, Client
  <2>a. e = link[n].on
    OBVIOUS
  <2> HIDE DEF n, e
  <2>5. CASE d = e
    <3>1. e # 0
      BY <2>5 DEF Ids
    <3>2. client[c].answer = "ACCEPTED"
      BY <2>3, <2>4, <2>5, <3>1 DEF Answered, Answers
    <3> QED
      BY <2>2, <2>3, <2>a, <2>5, <3>1, <3>2, <1>l
  <2>6. CASE d # e
    <3>1. doc[d].status = "ACCEPTED"
      BY <2>2, <2>6
    <3>2. PICK m \in 1..linked : link[m].on = d /\ link[m].status = "ACCEPTED"
      BY <1>0, <3>1 DEF AcceptedByLink
    <3>3. link'[m] = link[m]
      BY <1>l, <2>2, <2>6, <2>a, <3>2
    <3> QED
      BY <1>0, <2>2, <3>1, <3>2, <3>3 DEF AcceptedByLink
  <2> QED
    BY <2>5, <2>6
<1>4. CASE linked' = linked /\ \E S \in SUBSET Ids : Gone(S) /\ Remove(S)
  <2>1. PICK S \in SUBSET Ids : Gone(S) /\ Remove(S)
    BY <1>4
  <2>2. d \notin S /\ doc'[d] = doc[d]
    BY <2>1, Constants DEF Gone
  <2>3. PICK m \in 1..linked : link[m].on = d /\ link[m].status = "ACCEPTED"
    BY <1>0, <2>2 DEF AcceptedByLink
  <2>4. link'[m] = link[m]
    BY <1>l, <2>1, <2>2, <2>3 DEF Remove
  <2>5. d \in accepted'
    BY <1>0, <2>1, <2>2 DEF AcceptedByLink, Gone
  <2> QED
    BY <1>4, <2>3, <2>4, <2>5
<1> QED
  BY <1>1, <1>2, <1>3, <1>4 DEF LinkStep

-----------------------------------------------------------------------------
(***************************************************************************)
(* What the requests and the reminders know                                *)
(***************************************************************************)

\* Sound, of the rows of the next state.
SoundNext(q) ==
    /\ q.pc = "version" =>
         /\ q.on \in 1..made'
         /\ doc'[q.on].there => doc'[q.on].type = "ESTIMATE" /\ doc'[q.on].status # "DRAFT"
    /\ q.pc \in {"convertNumber", "convertCreate"} =>
         /\ q.on \in 1..made'
         /\ q.readAt <= made'
         /\ doc'[q.on].there => q.on \in accepted'
         /\ \A i \in Ids : /\ doc'[i].there
                           /\ doc'[i].type = "INVOICE"
                           /\ doc'[i].source = q.on
                           => q.readAt < i
    /\ q.pc = "deliver" => q.on \in Ids

LEMMA SoundStays ==
    ASSUME IInv, TypeOK', RowStep, NEW q \in Req, Sound(q)
    PROVE  SoundNext(q)
<1> USE DocumentAssumption
<1>0. TypeOK /\ RowsPlaced /\ made \in Nat
  BY DEF IInv, Shape, TypeOK
<1>1. made' \in Nat /\ made <= made'
  BY <1>0 DEF RowStep, Keep, Make, Gone
<1>2. ASSUME q.on \in 1..made
      PROVE  q.on \in 1..made' /\ q.on \in Ids
  <2>1. made <= MaxDocs
    BY <1>0 DEF TypeOK
  <2> QED
    BY <1>0, <1>1, <1>2, <2>1 DEF Ids
<1>3. CASE q.pc = "version"
  <2>1. /\ q.on \in 1..made
        /\ doc[q.on].there => doc[q.on].type = "ESTIMATE" /\ doc[q.on].status # "DRAFT"
    BY <1>3 DEF Sound
  <2>2. ASSUME doc'[q.on].there
        PROVE  doc'[q.on].type = "ESTIMATE" /\ doc'[q.on].status # "DRAFT"
    <3>1. doc[q.on].there /\ Stays(q.on)
      <4>1. ~(q.on = made + 1)
        BY <1>0, <2>1
      <4> QED
        BY <1>2, <2>1, <2>2, <4>1, OldOrMade
    <3> QED
      BY <2>1, <3>1 DEF Stays
  <2> QED
    BY <1>2, <1>3, <2>1, <2>2 DEF SoundNext
<1>4. CASE q.pc \in {"convertNumber", "convertCreate"}
  <2>1. /\ q.on \in 1..made
        /\ q.readAt <= made
        /\ doc[q.on].there => q.on \in accepted
        /\ \A i \in InvoicesOf(q.on) : q.readAt < i
    BY <1>4 DEF Sound
  <2>2. q.readAt \in Nat
    BY DEF Req, Ids
  <2>3. doc'[q.on].there => q.on \in accepted'
    BY <1>0, <1>2, <2>1, AcceptedStays
  <2>4. ASSUME NEW i \in Ids, doc'[i].there, doc'[i].type = "INVOICE",
               doc'[i].source = q.on
        PROVE  q.readAt < i
    <3>1. CASE doc[i].there /\ Stays(i)
      <4>1. i \in InvoicesOf(q.on)
        BY <2>4, <3>1 DEF Stays, InvoicesOf, There
      <4> QED
        BY <2>1, <4>1
    <3>2. CASE i = made + 1
      BY <1>0, <2>1, <2>2, <3>2
    <3> QED
      BY <2>4, <3>1, <3>2, OldOrMade
  <2>5. q.readAt <= made'
    BY <1>0, <1>1, <2>1, <2>2
  <2> QED
    BY <1>2, <1>4, <2>1, <2>3, <2>4, <2>5 DEF SoundNext
<1>5. CASE q.pc \notin {"version", "convertNumber", "convertCreate"}
  BY <1>5 DEF Sound, SoundNext
<1> QED
  BY <1>3, <1>4, <1>5

\* A request goes on, is over, or has just read the rows, which stay.
LEMMA RequestReads ==
    ASSUME IInv, [Next]_vars, NEW r \in Requests
    PROVE  \/ req'[r] = req[r]
           \/ req'[r].pc \in {"idle", "create"}
           \/ Quiet /\ Sound(req'[r])
<1> USE DocumentAssumption
<1>0. TypeOK /\ AcceptedByLink /\ RequestsSound
  BY DEF IInv, Shape
<1>i. IdleReq.pc = "idle"
  BY Constants
<1>1. CASE Begins
  <2>1. CASE \E k \in Requests : RequestBegins(k)
    <3>1. PICK k \in Requests : RequestBegins(k)
      BY <2>1
    <3>2. CASE k # r
      BY <1>0, <3>1, <3>2 DEF RequestBegins, StartCreate, StartConvert, StartVersion,
                              SendEstimate, TypeOK
    <3>3. CASE k = r
      <4>1. CASE \E type \in Created : StartCreate(r, type)
        BY <1>0, <4>1 DEF StartCreate, TypeOK, IdleReq
      <4>2. CASE \E d \in 1..made : StartConvert(r, d)
        <5>1. PICK d \in 1..made : StartConvert(r, d)
          BY <4>2
        <5>2. /\ req'[r].pc = "convertNumber" /\ req'[r].on = d /\ req'[r].readAt = made
              /\ Convertible(d)
          BY <1>0, <5>1 DEF StartConvert, TypeOK, IdleReq
        <5>3. d \in accepted /\ InvoicesOf(d) = {}
          BY <1>0, <5>2 DEF Convertible, AcceptedByLink, There
        <5>4. Sound(req'[r])
          BY <1>0, <5>2, <5>3 DEF Sound, TypeOK
        <5> QED
          BY <5>1, <5>4 DEF StartConvert, Quiet, rows, history
      <4>3. CASE \E d \in 1..made : StartVersion(r, d)
        <5>1. PICK d \in 1..made : StartVersion(r, d)
          BY <4>3
        <5>2. req'[r].pc = "version" /\ req'[r].on = d /\ Replaceable(d)
          BY <1>0, <5>1 DEF StartVersion, TypeOK, IdleReq
        <5>3. Sound(req'[r])
          BY <5>2 DEF Sound, Replaceable, There
        <5> QED
          BY <5>1, <5>3 DEF StartVersion, Quiet, rows, history
      <4>4. CASE \E d \in 1..made : SendEstimate(r, d)
        <5>1. PICK d \in 1..made : SendEstimate(r, d)
          BY <4>4
        <5>2. req'[r].pc = "deliver" /\ req'[r].on = d /\ d \in Ids
          BY <1>0, <5>1 DEF SendEstimate, TypeOK, IdleReq, There
        <5>3. Sound(req'[r])
          BY <5>2 DEF Sound
        <5> QED
          BY <5>1, <5>3 DEF SendEstimate, Quiet, history
      <4> QED
        BY <3>1, <3>3, <4>1, <4>2, <4>3, <4>4 DEF RequestBegins
    <3> QED
      BY <3>2, <3>3
  <2>2. CASE ~\E k \in Requests : RequestBegins(k)
    BY <1>1, <2>2 DEF Begins, ReadNegociation, StartReminders
  <2> QED
    BY <2>1, <2>2
<1>2. CASE \E k \in Requests : RequestSteps(k)
  <2>1. PICK k \in Requests : RequestSteps(k)
    BY <1>2
  <2>2. CASE ReadInvoiceNumber(k)
    <3>1. CASE k # r
      BY <1>0, <2>2, <3>1 DEF ReadInvoiceNumber, TypeOK
    <3>2. CASE k = r
      <4>1. req[r] \in Req
        BY <1>0 DEF TypeOK
      <4>2. req'[r] = [req[r] EXCEPT !.pc = "convertCreate",
                                     !.number = DocumentNumber("INVOICE")]
        BY <1>0, <2>2, <3>2 DEF ReadInvoiceNumber, TypeOK
      <4>3. /\ req'[r].pc = "convertCreate" /\ req'[r].on = req[r].on
            /\ req'[r].readAt = req[r].readAt
        BY <4>1, <4>2 DEF Req
      <4>4. req[r].pc = "convertNumber" /\ Quiet
        BY <2>2, <3>2 DEF ReadInvoiceNumber, Quiet, rows, history
      <4>5. Sound(req[r])
        BY <1>0 DEF RequestsSound
      <4>6. Sound(req'[r])
        BY <4>3, <4>4, <4>5 DEF Sound
      <4> QED
        BY <4>4, <4>6
    <3> QED
      BY <3>1, <3>2
  <2>3. CASE ~ReadInvoiceNumber(k)
    <3>1. req' = [req EXCEPT ![k] = IdleReq]
      BY <2>1, <2>3 DEF RequestSteps, CreateDocument, ConvertEstimateToInvoice, Insert,
                        CreateNewDocumentVersion, MarkDocumentAsDelivered, Stop
    <3> QED
      BY <1>0, <1>i, <3>1 DEF TypeOK
  <2> QED
    BY <2>2, <2>3
<1>3. CASE \E c \in Clients : AnswerNegociation(c)
  BY <1>3 DEF AnswerNegociation
<1>4. CASE \E s \in Sweeps : CronSteps(s)
  BY <1>4 DEF CronSteps, CheckReminder, SendReminder, MarkReminderAsSent, StopReminder
<1>5. CASE Deletions
  BY <1>5 DEF Deletions, DeleteDraftDocument, MassDeleteDocuments
<1>6. CASE UNCHANGED vars
  BY <1>6 DEF vars
<1> QED
  BY <1>1, <1>2, <1>3, <1>4, <1>5, <1>6 DEF Next

LEMMA RequestsStep ==
    ASSUME IInv, [Next]_vars, TypeOK', RowStep
    PROVE  RequestsSound'
<1>1. ASSUME NEW r \in Requests
      PROVE  SoundNext(req'[r])
  <2>1. CASE req'[r] = req[r]
    <3>1. req[r] \in Req /\ Sound(req[r])
      BY DEF IInv, Shape, RequestsSound, TypeOK
    <3>2. SoundNext(req[r])
      BY <3>1, SoundStays
    <3> QED
      BY <2>1, <3>2
  <2>2. CASE req'[r].pc \in {"idle", "create"}
    BY <2>2 DEF SoundNext
  <2>3. CASE Quiet /\ Sound(req'[r])
    BY <2>3 DEF Quiet, Sound, SoundNext, InvoicesOf, There
  <2> QED
    BY <2>1, <2>2, <2>3, RequestReads
<1> QED
  BY <1>1 DEF RequestsSound, Sound, SoundNext, InvoicesOf, There

-----------------------------------------------------------------------------
(***************************************************************************)
(* The reminders                                                           *)
(***************************************************************************)

Here(k, pc, d) == IF k.pc = pc /\ k.on = d THEN 1 ELSE 0

LEMMA AtIsFinite ==
    ASSUME NEW sweeps, NEW pc, NEW d
    PROVE  /\ IsFiniteSet(At(sweeps, pc, d))
           /\ Cardinality(At(sweeps, pc, d)) \in Nat
<1>1. At(sweeps, pc, d) \subseteq Sweeps
  BY DEF At
<1> QED
  BY <1>1, DocumentAssumption, FS_Subset, FS_CardinalityType

\* The sweep that moves leaves the step it was at, and is at the next one.
LEMMA AtMoves ==
    ASSUME NEW sweeps, NEW moved, NEW s \in Sweeps, NEW pc, NEW d,
           \A t \in Sweeps \ {s} : moved[t] = sweeps[t]
    PROVE  Cardinality(At(moved, pc, d)) + Here(sweeps[s], pc, d)
             = Cardinality(At(sweeps, pc, d)) + Here(moved[s], pc, d)
<1> DEFINE A == At(sweeps, pc, d)
           B == At(moved, pc, d)
<1>1. IsFiniteSet(A) /\ Cardinality(A) \in Nat /\ Cardinality(B) \in Nat
  BY AtIsFinite
<1>2. /\ s \in A <=> sweeps[s].pc = pc /\ sweeps[s].on = d
      /\ s \in B <=> moved[s].pc = pc /\ moved[s].on = d
  BY DEF At
<1>3. \A t : t # s => (t \in A <=> t \in B)
  BY DEF At
<1> HIDE DEF A, B
<1>4. CASE s \in A /\ s \notin B
  <2>1. B = A \ {s}
    BY <1>3, <1>4
  <2>2. Cardinality(B) = Cardinality(A) - 1
    BY <1>1, <1>4, <2>1, FS_RemoveElement
  <2> QED
    BY <1>1, <1>2, <1>4, <2>2 DEF Here, A, B
<1>5. CASE s \notin A /\ s \in B
  <2>1. B = A \cup {s}
    BY <1>3, <1>5
  <2>2. Cardinality(B) = Cardinality(A) + 1
    BY <1>1, <1>5, <2>1, FS_AddElement
  <2> QED
    BY <1>1, <1>2, <1>5, <2>2 DEF Here, A, B
<1>6. CASE s \in A <=> s \in B
  <2>1. A = B
    BY <1>3, <1>6
  <2> QED
    BY <1>1, <1>2, <1>6, <2>1 DEF Here, A, B
<1> QED
  BY <1>4, <1>5, <1>6

\* Nobody is at two steps.
LEMMA AtAreApart ==
    ASSUME NEW sweeps, NEW d
    PROVE  Cardinality(At(sweeps, "mail", d)) + Cardinality(At(sweeps, "mark", d))
             <= Cardinality(Sweeps)
<1> DEFINE A == At(sweeps, "mail", d)
           B == At(sweeps, "mark", d)
<1>1. IsFiniteSet(A) /\ IsFiniteSet(B) /\ Cardinality(A) \in Nat /\ Cardinality(B) \in Nat
  BY AtIsFinite
<1>2. A \cap B = {} /\ A \cup B \subseteq Sweeps
  BY DEF At
<1> HIDE DEF A, B
<1>3. Cardinality(A \cup B) = Cardinality(A) + Cardinality(B)
  BY <1>1, <1>2, FS_Union, FS_EmptySet
<1>4. Cardinality(A \cup B) <= Cardinality(Sweeps)
  BY <1>2, DocumentAssumption, FS_Subset
<1> QED
  BY <1>3, <1>4 DEF A, B

LEMMA NobodyReminds ==
    ASSUME NEW d, Reminding(d) = {}
    PROVE  Cardinality(At(cron, "mail", d)) = 0 /\ Cardinality(At(cron, "mark", d)) = 0
<1>1. At(cron, "mail", d) = {} /\ At(cron, "mark", d) = {}
  BY DEF At, Reminding
<1> QED
  BY <1>1, FS_EmptySet

LEMMA LimitIs ==
    ASSUME TypeOK, NEW s \in Sweeps, NEW d
    PROVE  /\ Limit(d) \in Nat
           /\ 1 <= Limit(d)
           /\ d \in overlapped => Limit(d) = Cardinality(Sweeps)
<1>1. Cardinality(Sweeps) \in Nat
  BY DocumentAssumption, FS_CardinalityType
<1>2. Cardinality(Sweeps) # 0
  BY DocumentAssumption, FS_EmptySet
<1> QED
  BY <1>1, <1>2 DEF Limit

LEMMA SweepCounts ==
    ASSUME TypeOK, MailsCounted, NEW s \in Sweeps, NEW k \in Cron, SweepStep(s, k),
           doc' = doc
    PROVE  MailsCounted'
<1> SUFFICES ASSUME NEW d \in Ids
             PROVE  /\ ~doc[d].there => reminders'[d] = 0
                    /\ Cardinality(At(cron', "mail", d)) + Cardinality(At(cron', "mark", d))
                         <= Limit(d)'
                    /\ d \notin reminded' =>
                         reminders'[d] <= stops' + Cardinality(At(cron', "mark", d))
                    /\ d \in reminded' =>
                         reminders'[d] + Cardinality(At(cron', "mail", d))
                           <= stops' + Limit(d)'
  BY DEF MailsCounted
<1> DEFINE a == Cardinality(At(cron, "mail", d))
           b == Cardinality(At(cron, "mark", d))
           a2 == Cardinality(At(cron', "mail", d))
           b2 == Cardinality(At(cron', "mark", d))
           sent == reminders[d]
           sent2 == reminders'[d]
           most == Limit(d)
           most2 == Limit(d)'
<1> SUFFICES /\ ~doc[d].there => sent2 = 0
             /\ a2 + b2 <= most2
             /\ d \notin reminded' => sent2 <= stops' + b2
             /\ d \in reminded' => sent2 + a2 <= stops' + most2
  OBVIOUS
<1>0. cron'[s] = k /\ \A t \in Sweeps \ {s} : cron'[t] = cron[t]
  BY DEF TypeOK, SweepStep
<1>1. /\ a + b <= most
      /\ d \notin reminded => sent <= stops + b
      /\ d \in reminded => sent + a <= stops + most
      /\ ~doc[d].there => sent = 0
  BY DEF MailsCounted
<1>2. /\ a2 + Here(cron[s], "mail", d) = a + Here(k, "mail", d)
      /\ b2 + Here(cron[s], "mark", d) = b + Here(k, "mark", d)
  <2>1. ASSUME NEW pc
        PROVE  Cardinality(At(cron', pc, d)) + Here(cron[s], pc, d)
                 = Cardinality(At(cron, pc, d)) + Here(k, pc, d)
    BY <1>0, AtMoves
  <2> QED
    BY <2>1
<1>3. a \in Nat /\ b \in Nat /\ a2 \in Nat /\ b2 \in Nat
  BY AtIsFinite
<1>4. sent \in Nat /\ stops \in Nat /\ most \in Nat /\ 1 <= most
  BY LimitIs DEF TypeOK
<1>5. /\ UNCHANGED overlapped => most2 = most
      /\ UNCHANGED reminders => sent2 = sent
  BY DEF Limit
<1> HIDE DEF a, b, a2, b2, sent, sent2, most, most2
<1>6. CASE Skips(s, k)
  <2>1. UNCHANGED <<reminded, stops>> /\ most2 = most /\ sent2 = sent
    BY <1>5, <1>6 DEF Skips
  <2>2. a2 <= a /\ b2 = b
    BY <1>2, <1>3, <1>6 DEF Skips, Away, Here
  <2> QED
    BY <1>1, <1>3, <1>4, <2>1, <2>2
<1>7. CASE Checks(s, k)
  <2>1. /\ k.pc = "mail" /\ k.on \notin reminded
        /\ UNCHANGED <<reminded, stops>> /\ sent2 = sent
    BY <1>5, <1>7 DEF Checks
  <2>2. b2 = b /\ a2 = a + (IF k.on = d THEN 1 ELSE 0)
    BY <1>2, <1>3, <1>7 DEF Checks, Away, Here
  <2>3. most2 \in Nat /\ most <= most2
    <3>1. most2 \in {most, Cardinality(Sweeps)} /\ most \in {1, Cardinality(Sweeps)}
      BY <1>7 DEF Checks, Limit, most, most2
    <3>2. Cardinality(Sweeps) \in Nat /\ 1 <= Cardinality(Sweeps)
      BY DocumentAssumption, FS_EmptySet, FS_CardinalityType
    <3>3. overlapped \subseteq overlapped'
      BY <1>7 DEF Checks
    <3>4. d \in overlapped => most2 = most
      BY <3>3 DEF Limit, most, most2
    <3>5. d \notin overlapped => most = 1
      BY DEF Limit, most
    <3> QED
      BY <3>1, <3>2, <3>4, <3>5
  <2>4. CASE d # k.on
    <3>1. a2 = a
      BY <1>3, <2>2, <2>4
    <3> QED
      BY <1>1, <1>3, <1>4, <2>1, <2>2, <2>3, <3>1
  <2>5. CASE d = k.on
    <3>1. a2 + b2 <= most2
      <4>1. CASE Reminding(d) = {}
        <5>1. a = 0 /\ b = 0
          BY <4>1, NobodyReminds DEF a, b
        <5>2. a2 = 1 /\ b2 = 0
          BY <2>2, <2>5, <5>1
        <5> QED
          BY <1>4, <2>3, <5>2
      <4>2. CASE d \in overlapped'
        <5>1. most2 = Cardinality(Sweeps)
          BY <4>2 DEF Limit, most2
        <5> QED
          BY <5>1, AtAreApart DEF a2, b2
      <4> QED
        BY <1>7, <2>5, <4>1, <4>2 DEF Checks
    <3> QED
      BY <1>1, <1>3, <1>4, <2>1, <2>2, <2>3, <2>5, <3>1
  <2> QED
    BY <2>4, <2>5
<1>8. CASE Mails(s, k)
  <2>1. /\ cron[s].pc = "mail" /\ k.pc = "mark" /\ k.on = cron[s].on
        /\ k.on \in Ids /\ doc[k.on].there
        /\ reminders' = [reminders EXCEPT ![k.on] = @ + 1]
        /\ UNCHANGED <<reminded, stops>> /\ most2 = most
    BY <1>5, <1>8 DEF Mails
  <2>2. a2 + (IF k.on = d THEN 1 ELSE 0) = a /\ b2 = b + (IF k.on = d THEN 1 ELSE 0)
    BY <1>2, <1>3, <2>1 DEF Here
  <2>3. sent2 = sent + (IF k.on = d THEN 1 ELSE 0)
    BY <1>4, <2>1 DEF TypeOK, sent, sent2
  <2>4. CASE k.on = d
    <3>1. a2 + 1 = a /\ b2 = b + 1 /\ sent2 = sent + 1 /\ doc[d].there
      BY <2>1, <2>2, <2>3, <2>4
    <3> QED
      BY <1>1, <1>3, <1>4, <2>1, <3>1
  <2>5. CASE k.on # d
    <3>1. a2 = a /\ b2 = b /\ sent2 = sent
      BY <1>3, <1>4, <2>2, <2>3, <2>5
    <3> QED
      BY <1>1, <1>3, <1>4, <2>1, <3>1
  <2> QED
    BY <2>4, <2>5
<1>9. CASE Records(s, k)
  <2>1. a2 = a /\ b2 <= b /\ (d # cron[s].on => b2 = b)
    BY <1>2, <1>3, <1>9 DEF Records, Away, Here
  <2>2. stops' = stops /\ most2 = most /\ sent2 = sent
    BY <1>5, <1>9 DEF Records
  <2>3. \/ d = cron[s].on /\ doc[d].there /\ d \in reminded'
        \/ d = cron[s].on /\ ~doc[d].there /\ (d \in reminded' <=> d \in reminded)
        \/ d # cron[s].on /\ (d \in reminded' <=> d \in reminded)
    BY <1>9 DEF Records
  <2>4. CASE d = cron[s].on /\ doc[d].there /\ d \in reminded'
    <3>1. sent + a <= stops + most
      BY <1>1, <1>3, <1>4
    <3> QED
      BY <1>1, <1>3, <1>4, <2>1, <2>2, <2>4, <3>1
  <2>5. CASE d = cron[s].on /\ ~doc[d].there /\ (d \in reminded' <=> d \in reminded)
    BY <1>1, <1>3, <1>4, <2>1, <2>2, <2>5
  <2>6. CASE d # cron[s].on /\ (d \in reminded' <=> d \in reminded)
    BY <1>1, <1>3, <1>4, <2>1, <2>2, <2>6
  <2> QED
    BY <2>3, <2>4, <2>5, <2>6
<1>10. CASE Fails(s, k)
  <2>1. stops' = stops + 1 /\ reminded' = reminded /\ most2 = most /\ sent2 = sent
    BY <1>5, <1>10 DEF Fails
  <2>2. a2 = a /\ b2 <= b /\ b <= b2 + 1
    BY <1>2, <1>3, <1>10 DEF Fails, Away, Here
  <2> QED
    BY <1>1, <1>3, <1>4, <2>1, <2>2
<1> QED
  BY <1>6, <1>7, <1>8, <1>9, <1>10 DEF SweepStep

LEMMA SweepPlaced ==
    ASSUME TypeOK, CronPlaced, NEW s \in Sweeps, NEW k \in Cron, SweepStep(s, k)
    PROVE  CronPlaced'
<1>1. k.pc \in {"mail", "mark"} => k.on \in Ids
  BY DEF SweepStep, Skips, Checks, Mails, Records, Fails, Away
<1> QED
  BY <1>1 DEF SweepStep, CronPlaced, TypeOK

\* What the reminders mailed is counted, and what they record was mailed.
LEMMA MailStep ==
    ASSUME IInv, [Next]_vars, TypeOK'
    PROVE  CronPlaced' /\ MailsCounted'
<1> USE DocumentAssumption
<1>0. TypeOK /\ CronPlaced /\ MailsCounted
  BY DEF IInv, Shape
<1>1. ASSUME UNCHANGED <<cron, reminded, reminders, overlapped, stops>>,
             \A d \in Ids : doc[d].there => doc'[d].there
      PROVE  CronPlaced' /\ MailsCounted'
  BY <1>0, <1>1 DEF CronPlaced, MailsCounted, Limit
<1>2. CASE Begins
  <2>1. CASE \E s \in Sweeps, S \in SUBSET Candidates : S # {} /\ StartReminders(s, S)
    <3>1. PICK s \in Sweeps, S \in SUBSET Candidates : StartReminders(s, S)
      BY <2>1
    <3>2. doc' = doc /\ \E k \in Cron : SweepStep(s, k)
      BY <1>0, <3>1, StartSteps DEF StartReminders, rows
    <3> QED
      BY <1>0, <3>2, SweepCounts, SweepPlaced
  <2>2. CASE ~\E s \in Sweeps, S \in SUBSET Candidates : S # {} /\ StartReminders(s, S)
    BY <1>1, <1>2, <2>2 DEF Begins, RequestBegins, StartCreate, StartConvert,
                            StartVersion, SendEstimate, ReadNegociation, rows, history
  <2> QED
    BY <2>1, <2>2
<1>3. CASE \E r \in Requests : RequestSteps(r)
  <2>1. UNCHANGED <<cron, reminded, reminders, overlapped, stops>>
    BY <1>3 DEF RequestSteps, CreateDocument, ReadInvoiceNumber,
                ConvertEstimateToInvoice, CreateNewDocumentVersion,
                MarkDocumentAsDelivered, Stop, history
  <2>2. NoAnswer \/ NewLink
    BY <1>3, RequestLinks
  <2> QED
    BY <1>1, <2>1, <2>2 DEF NoAnswer, NewLink
<1>4. CASE \E c \in Clients : AnswerNegociation(c)
  <2>1. UNCHANGED <<cron, reminded, reminders, overlapped, stops>>
    BY <1>4 DEF AnswerNegociation
  <2> QED
    BY <1>1, <1>4, <2>1, AnswerKeeps DEF Keep, Stays
<1>5. CASE \E s \in Sweeps : CronSteps(s)
  <2>1. PICK s \in Sweeps : CronSteps(s)
    BY <1>5
  <2>2. doc' = doc /\ \E k \in Cron : SweepStep(s, k)
    BY <1>0, <2>1, CronQuiet, CronStep DEF Quiet
  <2> QED
    BY <1>0, <2>2, SweepCounts, SweepPlaced
<1>6. CASE Deletions
  <2>1. PICK S \in SUBSET (1..made) : Gone(S) /\ Remove(S)
    BY <1>6, DeletionsGone
  <2>2. UNCHANGED <<cron, reminded, overlapped, stops>>
    BY <1>6 DEF Deletions, DeleteDraftDocument, MassDeleteDocuments
  <2>3. \A d \in Ids : Limit(d)' = Limit(d) /\ Limit(d) \in Nat
    BY <2>2, FS_CardinalityType DEF Limit
  <2>4. ASSUME NEW d \in Ids
        PROVE  /\ reminders'[d] \in {0, reminders[d]}
               /\ ~doc'[d].there => reminders'[d] = 0
    <3>1. CASE d \in S
      BY <2>1, <3>1 DEF Remove
    <3>2. CASE d \notin S
      BY <1>0, <2>1, <3>2 DEF Remove, MailsCounted
    <3> QED
      BY <3>1, <3>2
  <2>5. ASSUME NEW d \in Ids
        PROVE  /\ d \notin reminded =>
                    reminders'[d] <= stops + Cardinality(At(cron, "mark", d))
               /\ d \in reminded =>
                    reminders'[d] + Cardinality(At(cron, "mail", d)) <= stops + Limit(d)
    <3>1. /\ reminders[d] \in Nat /\ stops \in Nat /\ Limit(d) \in Nat
          /\ Cardinality(At(cron, "mail", d)) \in Nat
          /\ Cardinality(At(cron, "mark", d)) \in Nat
      BY <1>0, <2>3, AtIsFinite DEF TypeOK
    <3>2. /\ Cardinality(At(cron, "mail", d)) + Cardinality(At(cron, "mark", d)) <= Limit(d)
          /\ d \notin reminded => reminders[d] <= stops + Cardinality(At(cron, "mark", d))
          /\ d \in reminded =>
               reminders[d] + Cardinality(At(cron, "mail", d)) <= stops + Limit(d)
      BY <1>0 DEF MailsCounted
    <3> QED
      BY <2>4, <3>1, <3>2
  <2>6. CronPlaced'
    BY <1>0, <2>2 DEF CronPlaced
  <2> QED
    BY <1>0, <2>2, <2>3, <2>4, <2>5, <2>6 DEF MailsCounted
<1>7. CASE UNCHANGED vars
  BY <1>1, <1>7 DEF vars, rows, history
<1> QED
  BY <1>2, <1>3, <1>4, <1>5, <1>6, <1>7 DEF Next

-----------------------------------------------------------------------------
(***************************************************************************)
(* The invariant                                                           *)
(***************************************************************************)

LEMMA InitHolds ==
    ASSUME Init
    PROVE  IInv
<1> USE DocumentAssumption
<1>1. doc = [d \in Ids |-> NoRow] /\ \A d \in Ids : doc[d] = NoRow
  BY DEF Init
<1>2. TypeOK
  <2>1. cron \in [Sweeps -> Cron]
    BY Constants DEF Init
  <2>2. /\ doc \in [Ids -> Row] /\ link \in [Links -> Link]
        /\ req \in [Requests -> Req] /\ client \in [Clients -> Client]
    BY Constants DEF Init
  <2>3. made \in 0..MaxDocs /\ linked \in 0..MaxLinks /\ stops \in Nat
    BY SMT DEF Init
  <2>4. reminders \in [Ids -> Nat]
    BY DEF Init
  <2>5. /\ reminded \in SUBSET Ids /\ overlapped \in SUBSET Ids
        /\ accepted \in SUBSET Ids /\ mass \in BOOLEAN
    BY Zenon DEF Init
  <2> QED
    BY <2>1, <2>2, <2>3, <2>4, <2>5 DEF TypeOK
<1>3. RowsPlaced /\ LinksPlaced /\ CronPlaced /\ RequestsSound
  BY <1>1, Constants DEF Init, RowsPlaced, LinksPlaced, CronPlaced, RequestsSound, Sound
<1>4. AcceptedByLink /\ KeyIsUnique /\ RootStays
  BY <1>1, Constants DEF AcceptedByLink, KeyIsUnique, RootStays
<1>5. InvoiceHasAcceptedEstimate /\ SecondInvoiceOnlyByOverlap
  BY <1>1, Constants DEF InvoiceHasAcceptedEstimate, SecondInvoiceOnlyByOverlap, There
<1>6. MailsCounted
  <2>1. \A d \in Ids : At(cron, "mail", d) = {} /\ At(cron, "mark", d) = {}
    BY DEF Init, IdleCron, At
  <2>2. \A d \in Ids : Limit(d) = 1
    BY DEF Init, Limit
  <2> QED
    BY <2>1, <2>2, FS_EmptySet DEF Init, MailsCounted
<1> QED
  BY <1>2, <1>3, <1>4, <1>5, <1>6 DEF IInv, Shape

LEMMA InductiveStep ==
    ASSUME IInv, [Next]_vars
    PROVE  IInv'
<1>1. TypeOK' /\ RowStep /\ LinkStep
  BY TypesHold, RowStepHolds, LinkStepHolds
<1>2. Shape'
  BY <1>1, RowsPlacedStep, LinksStep, MailStep, RequestsStep DEF Shape
<1>3. AcceptedByLink'
  BY <1>1, AcceptedStep
<1>4. KeyIsUnique' /\ RootStays' /\ InvoiceHasAcceptedEstimate'
        /\ SecondInvoiceOnlyByOverlap'
  BY <1>1, KeyStep, RootStep, OriginStep, SecondStep
<1>5. MailsCounted'
  BY <1>1, MailStep
<1> QED
  BY <1>2, <1>3, <1>4, <1>5 DEF IInv

LEMMA Invariant == Spec => []IInv
<1>1. Init => IInv
  BY InitHolds
<1>2. IInv /\ [Next]_vars => IInv'
  BY InductiveStep
<1> QED
  BY <1>1, <1>2, PTL DEF Spec

-----------------------------------------------------------------------------

\* Every row, negotiation, request and reminder has its type.
THEOREM TypeCorrect == Spec => []TypeOK
<1>1. IInv => TypeOK
  BY DEF IInv, Shape
<1> QED
  BY <1>1, Invariant, PTL

\* While only drafts are deleted, the documents of one number are the versions
\* of one (createDocument, createNewDocumentVersion, the unique key): the
\* first versions of two of them have one key, so they are the same row.
THEOREM NumberIsOneLineage == Spec => []OneLineagePerNumber
<1>1. ASSUME IInv, ~mass, NEW d \in Ids, NEW e \in Ids,
             doc[d].there, doc[e].there,
             doc[d].type = doc[e].type, doc[d].number = doc[e].number
      PROVE  doc[d].root = doc[e].root
  BY <1>1 DEF IInv, RootStays, KeyIsUnique
<1>2. IInv => OneLineagePerNumber
  BY <1>1 DEF OneLineagePerNumber
<1> QED
  BY <1>2, Invariant, PTL

\* The invoice that convertEstimateToInvoice makes has an estimate the client
\* accepted, which is not deleted while the invoice is there.
THEOREM InvoiceShowsOrigin == Spec => []InvoiceHasAcceptedEstimate
<1>1. IInv => InvoiceHasAcceptedEstimate
  BY DEF IInv
<1> QED
  BY <1>1, Invariant, PTL

\* Two invoices of one estimate come from conversions that overlapped: the
\* later one had read the estimate before the other was created.
THEOREM SecondInvoiceOverlaps == Spec => []SecondInvoiceOnlyByOverlap
<1>1. IInv => SecondInvoiceOnlyByOverlap
  BY DEF IInv
<1> QED
  BY <1>1, Invariant, PTL

\* An estimate is reminded of once, and once more for each reminder that
\* stopped between its mail and its record (processReminder); once per sweep
\* at most, when sweeps of several processes found it not recorded together.
THEOREM RemindersAreBounded == Spec => []RemindedOncePerStop
<1>1. ASSUME IInv, NEW d \in Ids
      PROVE  reminders[d] <= stops + (IF d \in overlapped THEN Cardinality(Sweeps) ELSE 1)
  <2>1. /\ Cardinality(At(cron, "mail", d)) + Cardinality(At(cron, "mark", d)) <= Limit(d)
        /\ d \notin reminded => reminders[d] <= stops + Cardinality(At(cron, "mark", d))
        /\ d \in reminded =>
             reminders[d] + Cardinality(At(cron, "mail", d)) <= stops + Limit(d)
    BY <1>1 DEF IInv, MailsCounted
  <2>2. /\ reminders[d] \in Nat /\ stops \in Nat /\ Limit(d) \in Nat
        /\ Cardinality(At(cron, "mail", d)) \in Nat
        /\ Cardinality(At(cron, "mark", d)) \in Nat
    BY <1>1, AtIsFinite, DocumentAssumption, FS_CardinalityType
       DEF IInv, Shape, TypeOK, Limit
  <2>3. reminders[d] <= stops + Limit(d)
    BY <2>1, <2>2
  <2> QED
    BY <2>3 DEF Limit
<1>2. IInv => RemindedOncePerStop
  BY <1>1 DEF RemindedOncePerStop
<1> QED
  BY <1>2, Invariant, PTL

\* What an accepted estimate loses its status to: sending it again, another
\* negotiation, or an answer that read its negotiation before it was used.
FinalStep ==
    \A d \in Ids :
        /\ doc[d].status = "ACCEPTED"
        /\ doc'[d].there
        /\ doc'[d].status # "ACCEPTED"
        => \/ doc'[d].status = "SENT"
           \/ \E m, n \in 1..linked : m # n /\ link[m].on = d /\ link[n].on = d
           \/ \E c \in Clients : /\ client[c].pc = "answer"
                                 /\ client[c].fresh
                                 /\ link[client[c].link].status = "ACCEPTED"

\* The steps of a user's request and of the reminders change no status but to
\* SENT, and the new row had none.
LEMMA StatusWritten ==
    ASSUME IInv, [Next]_vars, NEW d \in Ids, doc[d].status = "ACCEPTED", doc'[d].there
    PROVE  \/ doc'[d].status \in {"ACCEPTED", "SENT"}
           \/ \E c \in Clients : AnswerNegociation(c)
<1>0. TypeOK /\ RowsPlaced /\ RequestsSound /\ NoRow.status = "DRAFT" /\ ~NoRow.there
  BY Constants DEF IInv, Shape
<1>1. CASE Quiet
  BY <1>1 DEF Quiet
<1>2. CASE Make
  <2>1. d # made + 1
    BY <1>0, DocumentAssumption DEF RowsPlaced, TypeOK, Ids
  <2> QED
    BY <1>2, <2>1 DEF Make
<1>3. CASE Begins
  BY <1>1, <1>3, BeginsQuiet
<1>4. CASE \E r \in Requests : RequestSteps(r)
  <2>1. PICK r \in Requests : RequestSteps(r)
    BY <1>4
  <2>2. CASE CreateDocument(r)
    BY <1>1, <1>2, <2>2, CreateMakes
  <2>3. CASE ConvertEstimateToInvoice(r)
    BY <1>1, <1>2, <2>3, ConvertMakes
  <2>4. CASE CreateNewDocumentVersion(r)
    BY <1>1, <1>2, <2>4, VersionMakes
  <2>5. CASE ReadInvoiceNumber(r) \/ Stop(r)
    BY <1>1, <2>5 DEF ReadInvoiceNumber, Stop, rows, history, Quiet
  <2>6. CASE MarkDocumentAsDelivered(r)
    <3> DEFINE e == req[r].on
    <3>1. doc' = IF doc[e].there THEN [doc EXCEPT ![e].status = "SENT"] ELSE doc
      BY <2>6 DEF MarkDocumentAsDelivered
    <3> HIDE DEF e
    <3>2. doc'[d] = doc[d] \/ doc'[d] = [doc[d] EXCEPT !.status = "SENT"]
      BY <1>0, <3>1 DEF TypeOK
    <3>3. doc[d] \in Row
      BY <1>0 DEF TypeOK
    <3> QED
      BY <3>2, <3>3 DEF Row
  <2> QED
    BY <2>1, <2>2, <2>3, <2>4, <2>5, <2>6 DEF RequestSteps
<1>5. CASE \E s \in Sweeps : CronSteps(s)
  BY <1>1, <1>5, CronQuiet
<1>6. CASE Deletions
  <2>1. PICK S \in SUBSET (1..made) : Gone(S)
    BY <1>6, DeletionsGone
  <2>2. doc'[d] = doc[d]
    BY <1>0, <2>1 DEF Gone
  <2> QED
    BY <2>2
<1>7. CASE UNCHANGED vars
  BY <1>1, <1>7 DEF vars, rows, history, Quiet
<1> QED
  BY <1>3, <1>4, <1>5, <1>6, <1>7 DEF Next

LEMMA FinalStepHolds ==
    ASSUME IInv, [Next]_vars
    PROVE  FinalStep
<1>0. TypeOK /\ LinksPlaced /\ AcceptedByLink
  BY DEF IInv, Shape
<1> SUFFICES ASSUME NEW d \in Ids, doc[d].status = "ACCEPTED", doc'[d].there,
                    doc'[d].status # "ACCEPTED", doc'[d].status # "SENT"
             PROVE  \/ \E m, n \in 1..linked : m # n /\ link[m].on = d /\ link[n].on = d
                    \/ \E c \in Clients : /\ client[c].pc = "answer"
                                          /\ client[c].fresh
                                          /\ link[client[c].link].status = "ACCEPTED"
  BY DEF FinalStep
<1>1. PICK c \in Clients : AnswerNegociation(c)
  BY StatusWritten
<1> DEFINE n == client[c].link
<1>2. n \in 1..linked /\ client[c].fresh /\ \A e \in Ids \ {link[n].on} : doc'[e] = doc[e]
  BY <1>0, <1>1, AnswerWrites
<1>3. link[n].on = d
  BY <1>2
<1>4. PICK m \in 1..linked : link[m].on = d /\ link[m].status = "ACCEPTED"
  BY <1>0 DEF AcceptedByLink
<1>5. client[c].pc = "answer"
  BY <1>1 DEF AnswerNegociation
<1>6. CASE m = n
  BY <1>2, <1>4, <1>5, <1>6
<1>7. CASE m # n
  BY <1>2, <1>3, <1>4, <1>7
<1> QED
  BY <1>6, <1>7

\* An accepted estimate keeps its status unless the company sends it again,
\* another link to it exists, or its link was opened twice before it was used
\* (setNegociationStatus, renegociateByToken, markDocumentAsDelivered).
THEOREM AcceptedIsFinal == Spec => AcceptanceIsFinal
<1>1. IInv /\ [Next]_vars => [FinalStep]_vars
  BY FinalStepHolds
<1>2. [][FinalStep]_vars => AcceptanceIsFinal
  BY PTL DEF FinalStep, AcceptanceIsFinal
<1> QED
  BY <1>1, <1>2, Invariant, PTL DEF Spec
=============================================================================
