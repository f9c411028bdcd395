---------------------- MODULE ElectronicArchiveProofs ----------------------
(***************************************************************************)
(* Proofs about ElectronicArchive, for any documents, received invoices,   *)
(* files, writers and versions.                                            *)
(***************************************************************************)
EXTENDS ElectronicArchive, TLAPS

Pcs == {"rest", "mark", "find", "make", "head", "put", "evidence", "write",
        "submit", "save", "failed", "upsert", "fetch", "notify"}

Local == [pc : Pcs, record : Records \cup {Nothing}, file : Files \cup {Nothing},
          version : 0..MaxVersions, sends : BOOLEAN, repair : BOOLEAN, first : BOOLEAN]

\* The record and the file a writer has at each point.
Holds(w) ==
    /\ w.pc = "rest" <=> w.record = Nothing
    /\ w.sends => w.record \in Documents
    /\ w.repair => w.sends
    /\ w.pc \in {"mark", "submit", "save"} => w.sends
    /\ w.pc \in {"find", "make"} => w.record \in Documents
    /\ w.pc \in {"upsert", "fetch", "notify"} => w.record \in Received
    /\ w.pc \in {"head", "put", "evidence", "write"} => w.file \in Files
    /\ w.pc \in {"mark", "find", "make", "upsert", "fetch", "head", "put"} => w.version = 0

Shape ==
    /\ ArchiveTypeOK
    /\ work \in [Writers -> Local]
    /\ \A t \in Writers : Holds(work[t])

-----------------------------------------------------------------------------
(***************************************************************************)
(* Types                                                                   *)
(***************************************************************************)

LEMMA InitShape ==
    ASSUME ArchiveInit
    PROVE  Shape
BY ArchiveAssumption
   DEF ArchiveInit, Shape, ArchiveTypeOK, AtRest, NotArchived, Local, Pcs, Holds, Records

LEMMA AtRestShape ==
    /\ AtRest \in Local
    /\ Holds(AtRest)
    /\ AtRest.record = Nothing /\ AtRest.version = 0
    /\ ~AtRest.sends /\ ~AtRest.repair /\ ~AtRest.first
BY ArchiveAssumption DEF Local, Holds, AtRest, Pcs

\* What a writer that takes a record r does, and what it knows of it.
Took(t, r) ==
    /\ r \in Records
    /\ work[t].pc = "rest"
    /\ work' \in [Writers -> Local]
    /\ \A u \in Writers \ {t} : work'[u] = work[u]
    /\ Holds(work'[t])
    /\ work'[t].record = r
    /\ work'[t].pc \in {"mark", "find", "head", "upsert"}
    /\ work'[t].pc = "mark" /\ work'[t].repair => ~known[r]
    /\ work'[t].pc = "find" => r \in Documents /\ ~work'[t].repair
    /\ work'[t].pc = "head" =>
         r \in Documents /\ ~work'[t].repair /\ archived[r].file = Nothing
    /\ work'[t].pc = "upsert" => (work'[t].first <=> ~stored[r])
    /\ past' = IF Handling(r) = {} THEN past
               ELSE [past EXCEPT ![r] = @ \cup {"overlapped"}]
    /\ UNCHANGED <<bucket, archived, legacy, transmissions, inbox>>

LEMMA SendingTakes ==
    ASSUME Shape, NEW t \in Writers, NEW d \in Documents, StartSending(t, d)
    PROVE  Took(t, d)
<1>. DEFINE again == status[d] = "FAILED" /\ ~known[d]
            local == [AtRest EXCEPT !.pc = "mark", !.record = d, !.sends = TRUE,
                                    !.repair = again]
<1>0. again \in BOOLEAN /\ (again => ~known[d])
  OBVIOUS
<1>1. Take(t, d, local) /\ UNCHANGED <<bucket, archived, legacy, transmissions, inbox>>
  BY DEF StartSending
<1>. HIDE DEF again
<1>2. local \in Local /\ Holds(local)
  BY <1>0, AtRestShape, ArchiveAssumption DEF Local, Holds, Pcs, Records
<1>3. local.pc = "mark" /\ local.record = d /\ local.repair = again
  BY <1>0, AtRestShape DEF Local
<1>. HIDE DEF local
<1>. QED BY <1>0, <1>1, <1>2, <1>3 DEF Took, Take, Records, Shape

LEMMA DeliveryTakes ==
    ASSUME Shape, NEW t \in Writers, NEW d \in Documents, StartDelivering(t, d)
    PROVE  Took(t, d)
<1>. DEFINE local == [AtRest EXCEPT !.pc = "find", !.record = d]
<1>1. Take(t, d, local) /\ UNCHANGED <<bucket, archived, legacy, transmissions, inbox>>
  BY DEF StartDelivering
<1>2. local \in Local /\ Holds(local)
  BY AtRestShape, ArchiveAssumption DEF Local, Holds, Pcs, Records
<1>3. local.pc = "find" /\ local.record = d /\ ~local.repair
  BY AtRestShape DEF Local
<1>. HIDE DEF local
<1>. QED BY <1>1, <1>2, <1>3 DEF Took, Take, Records, Shape

LEMMA MigrationTakes ==
    ASSUME Shape, NEW t \in Writers, NEW d \in Documents, Migrate(t, d)
    PROVE  Took(t, d)
<1>. DEFINE local == [AtRest EXCEPT !.pc = "head", !.record = d, !.file = legacy[d]]
<1>1. /\ Take(t, d, local) /\ archived[d].file = Nothing
      /\ UNCHANGED <<bucket, archived, legacy, transmissions, inbox>>
  BY DEF Migrate, IsArchived
<1>2. local \in Local /\ Holds(local)
  <2>1. legacy[d] \in Files
    BY DEF Migrate, Shape, ArchiveTypeOK
  <2>. QED BY <2>1, AtRestShape, ArchiveAssumption DEF Local, Holds, Pcs, Records
<1>3. local.pc = "head" /\ local.record = d /\ ~local.repair
  BY AtRestShape DEF Local
<1>. HIDE DEF local
<1>. QED BY <1>1, <1>2, <1>3 DEF Took, Take, Records, Shape

LEMMA ReceivingTakes ==
    ASSUME Shape, NEW t \in Writers, NEW i \in Received, StartReceiving(t, i)
    PROVE  Took(t, i)
<1>. DEFINE new == ~stored[i]
            local == [AtRest EXCEPT !.pc = "upsert", !.record = i, !.first = new]
<1>0. new \in BOOLEAN /\ (new <=> ~stored[i])
  OBVIOUS
<1>1. Take(t, i, local) /\ UNCHANGED <<bucket, archived, legacy, transmissions, inbox>>
  BY DEF StartReceiving
<1>. HIDE DEF new
<1>2. local \in Local /\ Holds(local)
  BY <1>0, AtRestShape, ArchiveAssumption DEF Local, Holds, Pcs, Records
<1>3. local.pc = "upsert" /\ local.record = i /\ local.first = new
  BY <1>0, AtRestShape DEF Local
<1>. HIDE DEF local
<1>. QED BY <1>0, <1>1, <1>2, <1>3 DEF Took, Take, Records, Shape

LEMMA TookShape ==
    ASSUME Shape, NEW t \in Writers, NEW r \in Records, Took(t, r)
    PROVE  Shape'
<1>1. past' \in [Records -> SUBSET {"overlapped", "interrupted", "resent", "blind", "stopped"}]
  BY DEF Shape, ArchiveTypeOK, Took
<1>2. work' \in [Writers -> Local] /\ \A u \in Writers : Holds(work'[u])
  BY DEF Shape, Took
<1>. QED BY <1>1, <1>2 DEF Shape, ArchiveTypeOK, Took, bucket, transmissions, inbox

\* A writer that goes on, or comes to rest, with the record it has.
Moved(t) ==
    /\ \A u \in Writers \ {t} : work'[u] = work[u]
    /\ \/ work'[t] = AtRest
       \/ /\ work'[t].record = work[t].record
          /\ work'[t].sends = work[t].sends
          /\ work'[t].repair = work[t].repair
          /\ work'[t].first = work[t].first
    /\ \A r \in Records : past[r] \subseteq past'[r]
    /\ \A r \in Records : "overlapped" \in past'[r] => "overlapped" \in past[r]

\* What each step does to the writer and to the history.
LEMMA StepMoves ==
    ASSUME Shape, NEW t \in Writers, ArchiveSteps(t)
    PROVE  /\ Moved(t)
           /\ work'[t] \in Local /\ Holds(work'[t])
           /\ work' \in [Writers -> Local]
           /\ past' \in [Records -> SUBSET {"overlapped", "interrupted", "resent", "blind", "stopped"}]
<1>. DEFINE P == /\ Moved(t)
                 /\ work'[t] \in Local /\ Holds(work'[t])
                 /\ work' \in [Writers -> Local]
                 /\ past' \in [Records -> SUBSET {"overlapped", "interrupted", "resent", "blind", "stopped"}]
<1>. USE DEF Shape, ArchiveTypeOK
<1>0. work[t] \in Local /\ Holds(work[t])
  OBVIOUS
<1>a. ASSUME NEW pc \in Pcs, Move(t, pc), past' = past,
             Holds([work[t] EXCEPT !.pc = pc])
      PROVE  P
  BY <1>0, <1>a DEF Move, Moved, Local
<1>b. ASSUME NEW pc \in Pcs, NEW f \in Files, MoveWith(t, pc, f), past' = past,
             Holds([work[t] EXCEPT !.pc = pc, !.file = f])
      PROVE  P
  BY <1>0, <1>b DEF MoveWith, Moved, Local
<1>c. ASSUME Rest(t), past' = past PROVE P
  BY <1>0, <1>c, AtRestShape DEF Rest, Moved
<1>e. ASSUME NEW pc \in {"submit", "notify", "failed"}, Leave(t, pc),
             Holds([work[t] EXCEPT !.pc = pc, !.file = Nothing, !.version = 0]),
             \/ past' = past
             \/ work[t].record \in Records /\ Note(t, {"interrupted"})
             \/ work[t].record \in Records /\ Note(t, {})
      PROVE  P
  <2>. DEFINE w == [work[t] EXCEPT !.pc = pc, !.file = Nothing, !.version = 0]
  <2>1. work' = [work EXCEPT ![t] = w] /\ w \in Local
    <3>0. pc \in Pcs /\ 0 \in 0..MaxVersions
      BY <1>e, ArchiveAssumption DEF Pcs
    <3>1. w \in Local
      BY <1>0, <3>0 DEF Local
    <3>2. work' = [work EXCEPT ![t] = w]
      BY <1>e DEF Leave
    <3>. QED BY <3>1, <3>2
  <2>2. /\ w.record = work[t].record /\ w.sends = work[t].sends
        /\ w.repair = work[t].repair /\ w.first = work[t].first /\ Holds(w)
    BY <1>0, <1>e DEF Local
  <2>. HIDE DEF w
  <2>3. /\ work'[t] = w /\ work' \in [Writers -> Local]
        /\ \A u \in Writers \ {t} : work'[u] = work[u]
    BY <2>1
  <2>4. CASE past' = past
    BY <2>1, <2>2, <2>3, <2>4 DEF Moved
  <2>5. CASE work[t].record \in Records /\ Note(t, {"interrupted"})
    BY <2>1, <2>2, <2>3, <2>5 DEF Moved, Note
  <2>6. CASE work[t].record \in Records /\ Note(t, {})
    BY <2>1, <2>2, <2>3, <2>6 DEF Moved, Note
  <2>. QED BY <1>e, <2>4, <2>5, <2>6
<1>d. ASSUME NEW pc \in Pcs, Move(t, pc), work[t].record \in Records,
             NEW what \in {"interrupted", "blind"}, Note(t, {what}),
             Holds([work[t] EXCEPT !.pc = pc])
      PROVE  P
  BY <1>0, <1>d DEF Move, Moved, Local, Note
<1>1. CASE MarkSubmitting(t)
  BY <1>0, <1>1, <1>a DEF MarkSubmitting, Holds, Pcs, Local
<1>2. CASE FindArchive(t)
  <2>1. work[t].record \in Documents /\ past' = past
    BY <1>0, <1>2 DEF FindArchive, Holds
  <2>2. ASSUME NEW pc \in {"submit", "failed", "make"}, Move(t, pc),
               pc = "submit" => work[t].sends
        PROVE  P
    BY <1>0, <1>2, <1>a, <2>1, <2>2 DEF FindArchive, Holds, Pcs, Local
  <2>3. ASSUME NEW f \in Files, MoveWith(t, "head", f) PROVE P
    <3>1. Holds([work[t] EXCEPT !.pc = "head", !.file = f])
      BY <1>0, <1>2 DEF FindArchive, Holds, Local
    <3>. QED BY <1>b, <2>1, <2>3, <3>1 DEF Pcs
  <2>4. \/ \E pc \in {"submit", "failed", "make"} :
              Move(t, pc) /\ (pc = "submit" => work[t].sends)
        \/ \E f \in Files : MoveWith(t, "head", f)
        \/ Rest(t)
    BY <1>2, <2>1 DEF FindArchive
  <2>. QED BY <1>c, <2>1, <2>2, <2>3, <2>4
<1>3. CASE MakeFile(t)
  <2>1. work[t].record \in Documents
    BY <1>0, <1>3 DEF MakeFile, Holds
  <2>2. archived[work[t].record].file \in Files \cup {Nothing}
    BY <2>1 DEF Records
  <2>3. CASE Move(t, "failed")
    BY <1>0, <1>3, <1>a, <2>3 DEF MakeFile, Holds, Pcs, Local
  <2>4. ASSUME NEW f \in Files, MoveWith(t, "head", f) PROVE P
    <3>1. Holds([work[t] EXCEPT !.pc = "head", !.file = f])
      BY <1>0, <1>3 DEF MakeFile, Holds, Local
    <3>. QED BY <1>3, <1>b, <2>4, <3>1 DEF MakeFile, Pcs
  <2>5. Move(t, "failed") \/ \E f \in Files : MoveWith(t, "head", f)
    BY <1>3, <2>1, <2>2 DEF MakeFile, IsArchived
  <2>. QED BY <2>3, <2>4, <2>5
<1>4. CASE HeadObject(t)
  <2>1. CASE Leave(t, "failed")
    BY <1>0, <1>4, <1>e, <2>1 DEF HeadObject, Holds, Local
  <2>2. CASE ~Leave(t, "failed")
    <3>1. Holds([work[t] EXCEPT !.pc = "put"]) /\ Holds([work[t] EXCEPT !.pc = "write"])
      BY <1>0, <1>4 DEF HeadObject, Holds, Local
    <3>2. (Move(t, "put") \/ Move(t, "write")) /\ past' = past
      BY <1>4, <2>2 DEF HeadObject
    <3>. QED BY <1>a, <3>1, <3>2 DEF Pcs
  <2>. QED BY <2>1, <2>2
<1>5. CASE PutObject(t)
  <2>0. work[t].record \in Records /\ work[t].file \in Files /\ work[t].pc = "put"
    BY <1>0, <1>5 DEF PutObject, Holds, Local
  <2>. DEFINE v == versions[work[t].record][work[t].file] + 1
  <2>1. CASE Leave(t, "failed") /\ (Note(t, {"interrupted"}) \/ Note(t, {}))
    <3>1. Holds([work[t] EXCEPT !.pc = "failed", !.file = Nothing, !.version = 0])
      BY <1>0, <2>0 DEF Holds, Local
    <3>. QED BY <1>e, <2>0, <2>1, <3>1
  <2>2. CASE Note(t, {"resent"}) /\ UNCHANGED work
    BY <1>0, <2>0, <2>2 DEF Moved, Note
  <2>3. CASE /\ v <= MaxVersions
             /\ work' = [work EXCEPT ![t].pc = AfterUpload, ![t].version = v]
             /\ UNCHANGED past
    <3>1. v \in 0..MaxVersions
      BY <2>0, <2>3
    <3>2. work'[t] = [work[t] EXCEPT !.pc = "evidence", !.version = v]
      BY <2>3 DEF AfterUpload
    <3>. HIDE DEF v
    <3>3. work'[t] \in Local
      BY <1>0, <3>1, <3>2 DEF Pcs, Local
    <3>4. Holds(work'[t])
      BY <1>0, <2>0, <3>2 DEF Holds, Local
    <3>. QED BY <1>0, <2>3, <3>2, <3>3, <3>4 DEF Moved, Local
  <2>. QED BY <1>5, <2>1, <2>2, <2>3 DEF PutObject
<1>6. CASE StoreEvidence(t)
  <2>1. /\ work[t].record \in Records /\ work[t].file \in Files
        /\ Holds([work[t] EXCEPT !.pc = "write"])
        /\ Holds([work[t] EXCEPT !.pc = "failed", !.file = Nothing, !.version = 0])
    BY <1>0, <1>6 DEF StoreEvidence, Holds, Local
  <2>2. CASE Move(t, "write") /\ past' = past
    BY <2>1, <2>2, <1>a DEF Pcs
  <2>3. CASE Leave(t, "failed") /\ Note(t, {"interrupted"})
    BY <2>1, <2>3, <1>e
  <2>. QED BY <1>6, <2>2, <2>3 DEF StoreEvidence
<1>7. CASE WriteArchive(t)
  <2>1. work[t].record \in Records /\ past' = past
    BY <1>0, <1>7 DEF WriteArchive, Holds, Local
  <2>2. ASSUME NEW pc \in {"submit", "notify", "failed"}, Leave(t, pc),
               pc = "submit" => work[t].sends,
               pc = "notify" => work[t].record \in Received
        PROVE  P
    BY <1>0, <1>7, <1>e, <2>1, <2>2 DEF WriteArchive, Holds, Local
  <2>3. \/ \E pc \in {"submit", "notify", "failed"} :
              /\ Leave(t, pc)
              /\ pc = "submit" => work[t].sends
              /\ pc = "notify" => work[t].record \in Received
        \/ Rest(t)
    BY <1>7 DEF WriteArchive
  <2>. QED BY <1>c, <2>1, <2>2, <2>3
<1>8. CASE SubmitDocument(t)
  BY <1>0, <1>8, <1>a, <1>d DEF SubmitDocument, Holds, Pcs, Local
<1>9. CASE SaveNumber(t)
  <2>1. CASE Rest(t) /\ UNCHANGED past
    BY <1>c, <2>1
  <2>2. CASE Move(t, "failed") /\ Note(t, {"blind"})
    <3>1. work[t].record \in Records /\ Holds([work[t] EXCEPT !.pc = "failed"])
      BY <1>0, <1>9 DEF SaveNumber, Holds, Local
    <3>. QED BY <1>d, <2>2, <3>1 DEF Pcs
  <2>. QED BY <1>9, <2>1, <2>2 DEF SaveNumber
<1>10. CASE CatchError(t)
  BY <1>0, <1>10, <1>a, <1>c DEF CatchError, Holds, Pcs, Local, Continues
<1>11. CASE UpsertReceived(t)
  <2>1. /\ Holds([work[t] EXCEPT !.pc = "notify"])
        /\ Holds([work[t] EXCEPT !.pc = "fetch"])
    BY <1>0, <1>11 DEF UpsertReceived, Holds, Local
  <2>2. (Move(t, "notify") \/ Move(t, "fetch")) /\ past' = past
    BY <1>11 DEF UpsertReceived
  <2>. QED BY <1>a, <2>1, <2>2 DEF Pcs
<1>12. CASE FetchOriginal(t)
  <2>1. /\ Holds([work[t] EXCEPT !.pc = "failed"])
        /\ \A f \in Files : Holds([work[t] EXCEPT !.pc = "head", !.file = f])
    BY <1>0, <1>12 DEF FetchOriginal, Holds, Local
  <2>2. (Move(t, "failed") \/ \E f \in Files : MoveWith(t, "head", f)) /\ past' = past
    BY <1>12 DEF FetchOriginal
  <2>. QED BY <1>a, <1>b, <2>1, <2>2 DEF Pcs
<1>13. CASE NotifyCompany(t)
  BY <1>0, <1>13, <1>c DEF NotifyCompany
<1>14. CASE StopWriter(t)
  <2>. DEFINE what == (IF work[t].record \in Received THEN {"stopped"} ELSE {})
                        \cup (IF Unproved(t) THEN {"interrupted"} ELSE {})
                        \cup (IF work[t].pc = "save" THEN {"blind"} ELSE {})
  <2>1. what \in SUBSET {"stopped", "interrupted", "blind"}
    OBVIOUS
  <2>2. Note(t, what) /\ Rest(t) /\ work[t].record \in Records
    BY <1>0, <1>14 DEF StopWriter, Holds, Local
  <2>. HIDE DEF what
  <2>. QED BY <1>0, <2>1, <2>2, AtRestShape DEF Moved, Note, Rest
<1>. QED
  BY <1>1, <1>2, <1>3, <1>4, <1>5, <1>6, <1>7, <1>8, <1>9, <1>10, <1>11, <1>12,
     <1>13, <1>14 DEF ArchiveSteps

\* The rest of the state.
LEMMA StepTypes ==
    ASSUME Shape, NEW t \in Writers, ArchiveSteps(t)
    PROVE  Shape'
<1>. USE DEF Shape, ArchiveTypeOK
<1>0. /\ work[t] \in Local /\ Holds(work[t])
      /\ work' \in [Writers -> Local] /\ (\A u \in Writers : Holds(work'[u]))
      /\ past' \in [Records -> SUBSET {"overlapped", "interrupted", "resent", "blind", "stopped"}]
  BY StepMoves DEF Moved
<1>a. ASSUME UNCHANGED <<bucket, archived, legacy, transmissions, inbox>> PROVE Shape'
  BY <1>0, <1>a DEF bucket, transmissions, inbox
<1>1. CASE MarkSubmitting(t)
  BY <1>0, <1>1 DEF MarkSubmitting, bucket, inbox
<1>2. CASE FindArchive(t)
  BY <1>2, <1>a DEF FindArchive
<1>3. CASE MakeFile(t)
  BY <1>3, <1>a DEF MakeFile
<1>4. CASE HeadObject(t)
  BY <1>4, <1>a DEF HeadObject
<1>5. CASE PutObject(t)
  <2>1. work[t].record \in Records /\ work[t].file \in Files
    BY <1>0, <1>5 DEF PutObject, Holds, Local
  <2>2. versions' \in [Records -> [Files -> 0..MaxVersions]]
    <3>. DEFINE r == work[t].record
                v == versions[r][work[t].file] + 1
                g == [versions[r] EXCEPT ![work[t].file] = v]
    <3>1. CASE v \in 0..MaxVersions
      <4>1. g \in [Files -> 0..MaxVersions]
        BY <2>1, <3>1
      <4>2. versions' \in {versions, [versions EXCEPT ![r] = g]}
        BY <1>5 DEF PutObject
      <4>. HIDE DEF g
      <4>. QED BY <2>1, <4>1, <4>2
    <3>2. CASE v \notin 0..MaxVersions
      BY <1>5, <2>1, <3>2 DEF PutObject
    <3>. QED BY <3>1, <3>2
  <2>. QED BY <1>0, <1>5, <2>2 DEF PutObject, transmissions, inbox
<1>6. CASE StoreEvidence(t)
  <2>1. work[t].record \in Records /\ work[t].file \in Files /\ work[t].version \in 0..MaxVersions
    BY <1>0, <1>6 DEF StoreEvidence, Holds, Local
  <2>2. evidence' \in [Records -> [Files -> 0..MaxVersions]]
    <3>. DEFINE r == work[t].record
                g == [evidence[r] EXCEPT ![work[t].file] = work[t].version]
    <3>1. g \in [Files -> 0..MaxVersions]
      BY <2>1
    <3>2. evidence' \in {evidence, [evidence EXCEPT ![r] = g]}
      BY <1>6 DEF StoreEvidence
    <3>. HIDE DEF g
    <3>. QED BY <2>1, <3>1, <3>2
  <2>. QED BY <1>0, <1>6, <2>2 DEF StoreEvidence, transmissions, inbox
<1>7. CASE WriteArchive(t)
  <2>1. work[t].record \in Records /\ work[t].file \in Files /\ work[t].version \in 0..MaxVersions
    BY <1>0, <1>7 DEF WriteArchive, Holds, Local
  <2>2. archived' \in [Records -> [file : Files \cup {Nothing}, version : 0..MaxVersions]]
    <3>. DEFINE g == [file |-> work[t].file, version |-> work[t].version]
    <3>1. g \in [file : Files \cup {Nothing}, version : 0..MaxVersions]
      BY <2>1
    <3>2. archived' \in {archived, [archived EXCEPT ![work[t].record] = g]}
      BY <1>7 DEF WriteArchive
    <3>. HIDE DEF g
    <3>. QED BY <2>1, <3>1, <3>2
  <2>3. legacy' \in [Documents -> Files \cup {Nothing}] /\ failing' \in [Received -> BOOLEAN]
    <3>1. CASE UNCHANGED <<archived, legacy, failing>>
      BY <3>1
    <3>2. CASE ~UNCHANGED <<archived, legacy, failing>>
      <4>1. legacy' = [d \in Documents |-> IF d = work[t].record THEN Nothing ELSE legacy[d]]
        BY <1>7, <3>2 DEF WriteArchive
      <4>2. failing' = [i \in Received |-> i # work[t].record /\ failing[i]]
        BY <1>7, <3>2 DEF WriteArchive
      <4>. QED BY <4>1, <4>2
    <3>. QED BY <3>1, <3>2
  <2>. QED BY <1>0, <1>7, <2>2, <2>3 DEF WriteArchive, bucket, transmissions
<1>8. CASE SubmitDocument(t)
  BY <1>0, <1>8 DEF SubmitDocument, bucket, inbox
<1>9. CASE SaveNumber(t)
  BY <1>0, <1>9 DEF SaveNumber, bucket, inbox
<1>10. CASE CatchError(t)
  <2>1. status' \in [Documents -> {"PENDING", "SUBMITTING", "SUBMITTED", "FAILED"}]
    BY <1>10 DEF CatchError
  <2>2. failing' \in [Received -> BOOLEAN]
    BY <1>10 DEF CatchError
  <2>. QED BY <1>0, <1>10, <2>1, <2>2 DEF CatchError, bucket
<1>11. CASE UpsertReceived(t)
  BY <1>0, <1>11 DEF UpsertReceived, bucket, transmissions
<1>12. CASE FetchOriginal(t)
  BY <1>12, <1>a DEF FetchOriginal
<1>13. CASE NotifyCompany(t)
  <2>1. notified' \in [Received -> BOOLEAN]
    BY <1>0, <1>13 DEF NotifyCompany, Local
  <2>. QED BY <1>0, <1>13, <2>1 DEF NotifyCompany, bucket, transmissions
<1>14. CASE StopWriter(t)
  BY <1>14, <1>a DEF StopWriter
<1>. QED
  BY <1>1, <1>2, <1>3, <1>4, <1>5, <1>6, <1>7, <1>8, <1>9, <1>10, <1>11, <1>12,
     <1>13, <1>14 DEF ArchiveSteps

LEMMA NextShape ==
    ASSUME Shape, [ArchiveNext]_archiveVars
    PROVE  Shape'
<1>1. ASSUME NEW d \in Documents, RefuseAddress(d) PROVE Shape'
  BY <1>1 DEF Shape, ArchiveTypeOK, RefuseAddress, bucket, inbox
<1>2. ASSUME NEW t \in Writers, NEW d \in Documents,
             StartDelivering(t, d) \/ StartSending(t, d) \/ Migrate(t, d)
      PROVE  Shape'
  BY <1>2, DeliveryTakes, SendingTakes, MigrationTakes, TookShape DEF Records
<1>3. ASSUME NEW t \in Writers, NEW i \in Received, StartReceiving(t, i) PROVE Shape'
  BY <1>3, ReceivingTakes, TookShape DEF Records
<1>4. CASE UNCHANGED archiveVars
  BY <1>4 DEF Shape, ArchiveTypeOK, archiveVars, bucket, transmissions, inbox
<1>. QED BY <1>1, <1>2, <1>3, <1>4, StepTypes DEF ArchiveNext

\* Every variable keeps its type, and every writer what it holds at its point
\* of the code.
THEOREM TypesAreKept == ArchiveSpec => []Shape
<1>1. ArchiveInit => Shape
  BY InitShape
<1>2. Shape /\ [ArchiveNext]_archiveVars => Shape'
  BY NextShape
<1>. QED BY <1>1, <1>2, PTL DEF ArchiveSpec

\* The type invariant of the archive, of its rows and of the transmissions.
THEOREM TypeCorrect == ArchiveSpec => []ArchiveTypeOK
<1>1. Shape => ArchiveTypeOK
  BY DEF Shape
<1>. QED BY <1>1, TypesAreKept, PTL

-----------------------------------------------------------------------------
(***************************************************************************)
(* Who is at work on a record                                              *)
(***************************************************************************)

Overlapped(r) == "overlapped" \in past[r]

\* Unless two writers overlapped on a record, at most one is at work on it.
Exclusive ==
    \A r \in Records : ~Overlapped(r) =>
        \A t, u \in Writers : work[t].record = r /\ work[u].record = r => t = u

LEMMA TookExclusive ==
    ASSUME Shape, Exclusive, NEW t \in Writers, NEW r \in Records, Took(t, r)
    PROVE  Exclusive'
<1>1. CASE Handling(r) = {}
  BY <1>1 DEF Exclusive, Took, Handling, Overlapped
<1>2. CASE Handling(r) # {}
  <2>1. \A q \in Records : past'[q] = IF q = r THEN past[r] \cup {"overlapped"} ELSE past[q]
    BY <1>2 DEF Took, Shape, ArchiveTypeOK
  <2>. QED BY <2>1 DEF Exclusive, Took, Overlapped
<1>. QED BY <1>1, <1>2

LEMMA MovedExclusive ==
    ASSUME Shape, Exclusive, NEW t \in Writers, Moved(t)
    PROVE  Exclusive'
<1>1. work'[t].record \in {work[t].record, Nothing}
  BY AtRestShape DEF Moved
<1>2. \A r \in Records : r # Nothing
  BY ArchiveAssumption
<1>3. \A u \in Writers : work'[u].record \in {work[u].record, Nothing}
  BY <1>1 DEF Moved
<1>4. \A r \in Records : Overlapped(r) => Overlapped(r)'
  BY DEF Moved, Overlapped
<1>. QED BY <1>2, <1>3, <1>4 DEF Exclusive

-----------------------------------------------------------------------------
(***************************************************************************)
(* The bucket                                                              *)
(***************************************************************************)

\* What a row names is in the bucket, in the version the row names if any.
InBucket ==
    \A r \in Records : archived[r].file # Nothing =>
        /\ versions[r][archived[r].file] # 0
        /\ ~Overlapped(r) => archived[r].version \in {0, versions[r][archived[r].file]}

\* What a writer knows of the object it uploads or has found, if it is alone.
Uploads(w) ==
    /\ w.pc \in {"evidence", "write"} => versions[w.record][w.file] # 0
    /\ ~Overlapped(w.record) =>
         /\ w.pc = "put" =>
              versions[w.record][w.file] = 0 \/ "resent" \in past[w.record]
         /\ w.pc \in {"put", "evidence"} => archived[w.record].file # w.file
         /\ w.pc = "evidence" => w.version = versions[w.record][w.file]
         /\ w.pc = "write" => w.version \in {0, versions[w.record][w.file]}

\* The proof of the last version of an object exists, or a writer owes it.
Proved(r, f) ==
    versions[r][f] # 0 /\ past[r] \cap {"interrupted", "overlapped"} = {} =>
        \/ evidence[r][f] = versions[r][f]
        \/ \E t \in Writers : /\ work[t].pc \in {"put", "evidence"}
                              /\ work[t].record = r
                              /\ work[t].file = f

Objects ==
    /\ OneRetainedVersion
    /\ InBucket
    /\ \A t \in Writers : Uploads(work[t])
    /\ \A r \in Records, f \in Files : Proved(r, f)

LEMMA InitObjects ==
    ASSUME ArchiveInit
    PROVE  Exclusive /\ Objects
<1>1. \A t \in Writers : work[t].record = Nothing /\ work[t].pc = "rest"
  BY DEF ArchiveInit, AtRest
<1>2. Exclusive
  BY <1>1, ArchiveAssumption DEF Exclusive
<1>3. \A t \in Writers : Uploads(work[t])
  BY <1>1 DEF Uploads
<1>. QED
  BY <1>2, <1>3
     DEF ArchiveInit, Objects, OneRetainedVersion, InBucket, NotArchived, Proved

LEMMA TookObjects ==
    ASSUME Shape, Objects, NEW t \in Writers, NEW r \in Records, Took(t, r)
    PROVE  Objects'
<1>. USE DEF Took, bucket
<1>1. \A q \in Records : past[q] \subseteq past'[q]
  BY DEF Shape, ArchiveTypeOK
<1>2. \A u \in Writers : Uploads(work[u])'
  <2>1. Uploads(work[t])'
    BY DEF Uploads
  <2>2. \A u \in Writers \ {t} : Uploads(work[u])'
    <3>. TAKE u \in Writers \ {t}
    <3>1. work[u].pc = "rest" \/ work[u].record \in Records
      BY DEF Shape, Local, Holds
    <3>. QED BY <1>1, <3>1 DEF Uploads, Objects, Overlapped
  <2>. QED BY <2>1, <2>2
<1>3. \A q \in Records, f \in Files : Proved(q, f)'
  <2>. TAKE q \in Records, f \in Files
  <2>1. \A u \in Writers : work[u].pc \in {"put", "evidence"} => work'[u] = work[u]
    OBVIOUS
  <2>. QED BY <1>1, <2>1 DEF Proved, Objects
<1>4. OneRetainedVersion'
  BY <1>1 DEF OneRetainedVersion, Objects
<1>5. InBucket'
  BY <1>1 DEF InBucket, Objects, Overlapped
<1>. QED BY <1>2, <1>3, <1>4, <1>5 DEF Objects

\* A step that leaves bucket and rows alone and stays out of the upload.
LEMMA QuietObjects ==
    ASSUME Shape, Objects, NEW t \in Writers, Moved(t), UNCHANGED <<bucket, archived>>,
           work'[t].pc \notin {"put", "evidence", "write"},
           Unproved(t) => "interrupted" \in past'[work[t].record]
    PROVE  Objects'
<1>. USE DEF bucket
<1>1. \A q \in Records : past[q] \subseteq past'[q]
  BY DEF Moved
<1>2. \A u \in Writers : Uploads(work[u])'
  <2>1. Uploads(work[t])'
    BY DEF Uploads
  <2>2. \A u \in Writers \ {t} : Uploads(work[u])'
    <3>. TAKE u \in Writers \ {t}
    <3>1. work[u].pc = "rest" \/ work[u].record \in Records
      BY DEF Shape, Local, Holds
    <3>. QED BY <1>1, <3>1 DEF Uploads, Objects, Overlapped, Moved
  <2>. QED BY <2>1, <2>2
<1>3. \A q \in Records, f \in Files : Proved(q, f)'
  <2>. TAKE q \in Records, f \in Files
  <2>1. \A u \in Writers \ {t} : work'[u] = work[u]
    BY DEF Moved
  <2>. QED BY <1>1, <2>1 DEF Proved, Objects, Unproved
<1>4. OneRetainedVersion'
  BY <1>1 DEF OneRetainedVersion, Objects
<1>5. InBucket'
  BY <1>1 DEF InBucket, Objects, Overlapped
<1>. QED BY <1>2, <1>3, <1>4, <1>5 DEF Objects

\* An upload, and the proof that is owed for it or was lost.
LEMMA PutObjects ==
    ASSUME Shape, Exclusive, Objects, NEW t \in Writers, PutObject(t)
    PROVE  Objects'
<1>. DEFINE r == work[t].record
            f == work[t].file
            v == versions[r][f] + 1
<1>1. r \in Records /\ f \in Files
  BY DEF PutObject, Shape, Holds, Local
<1>2. Moved(t)
  BY StepMoves DEF ArchiveSteps
<1>3. CASE /\ Leave(t, "failed")
           /\ Note(t, IF Unproved(t) THEN {"interrupted"} ELSE {})
           /\ UNCHANGED versions
  <2>1. work'[t].pc = "failed"
    BY <1>3 DEF Leave, Shape, Local
  <2>2. Unproved(t) => "interrupted" \in past'[r]
    BY <1>1, <1>3 DEF Note, Shape, ArchiveTypeOK
  <2>. QED BY <1>2, <1>3, <2>1, <2>2, QuietObjects DEF PutObject, bucket
<1>4. ASSUME versions' = [versions EXCEPT ![r][f] = v],
             \/ /\ work' = [work EXCEPT ![t].pc = "evidence", ![t].version = v]
                /\ UNCHANGED past
             \/ Note(t, {"resent"}) /\ UNCHANGED work
             \/ Leave(t, "failed") /\ Note(t, {"interrupted"})
      PROVE  Objects'
  <2>1. UNCHANGED <<evidence, archived>> /\ work[t].pc = "put"
    BY DEF PutObject
  <2>2. versions[r] \in [Files -> 0..MaxVersions]
    BY <1>1 DEF Shape, ArchiveTypeOK
  <2>3. /\ \A q \in Records, g \in Files :
             versions'[q][g] = IF q = r /\ g = f THEN v ELSE versions[q][g]
        /\ v # 0
    <3>. DEFINE h == [versions[r] EXCEPT ![f] = v]
    <3>1. versions' = [versions EXCEPT ![r] = h]
      BY <1>4
    <3>2. \A g \in Files : h[g] = IF g = f THEN v ELSE versions[r][g]
      BY <1>1, <2>2
    <3>3. v # 0
      BY <1>1, <2>2
    <3>. HIDE DEF h
    <3>. QED BY <1>1, <3>1, <3>2, <3>3 DEF Shape, ArchiveTypeOK
  <2>4. v > 1 => versions[r][f] # 0
    BY <1>1, <2>2
  <2>. HIDE DEF v
  <2>5. \A q \in Records : past[q] \subseteq past'[q]
    BY <1>2 DEF Moved
  <2>6. \A q \in Records : Overlapped(q)' => Overlapped(q)
    BY <1>2 DEF Moved, Overlapped
  <2>7. archived[r].file # f \/ Overlapped(r)
    BY <2>1 DEF Objects, Uploads
  <2>8. OneRetainedVersion'
    <3>. SUFFICES ASSUME NEW q \in Records, NEW g \in Files, versions'[q][g] > 1
                  PROVE  past'[q] \cap {"overlapped", "resent"} # {}
      BY DEF OneRetainedVersion
    <3>1. CASE q = r /\ g = f
      <4>1. versions[r][f] # 0
        BY <1>1, <2>3, <2>4, <3>1
      <4>. QED BY <1>1, <2>1, <2>5, <3>1, <4>1 DEF Objects, Uploads, Overlapped
    <3>2. CASE ~(q = r /\ g = f)
      BY <2>3, <2>5, <3>2 DEF Objects, OneRetainedVersion
    <3>. QED BY <3>1, <3>2
  <2>9. InBucket'
    <3>. SUFFICES ASSUME NEW q \in Records, archived[q].file # Nothing
                  PROVE  /\ versions'[q][archived[q].file] # 0
                         /\ ~Overlapped(q)' =>
                              archived[q].version \in {0, versions'[q][archived[q].file]}
      BY <2>1 DEF InBucket
    <3>1. archived[q].file \in Files
      BY DEF Shape, ArchiveTypeOK
    <3>2. /\ versions[q][archived[q].file] # 0
          /\ ~Overlapped(q) => archived[q].version \in {0, versions[q][archived[q].file]}
      BY DEF Objects, InBucket
    <3>3. Overlapped(q) => Overlapped(q)'
      BY <2>5 DEF Overlapped
    <3>. QED BY <1>1, <2>3, <2>7, <3>1, <3>2, <3>3
  <2>10. \A u \in Writers : Uploads(work[u])'
    <3>. TAKE u \in Writers
    <3>1. CASE u = t
      <4>1. work'[t].record = r /\ Overlapped(r)' => Overlapped(r)
        <5>1. work'[t].record = r
          BY <1>4 DEF Leave, Shape, Local
        <5>. QED BY <1>1, <2>6, <5>1
      <4>2. versions'[r][f] = v
        BY <1>1, <2>3
      <4>3. CASE work' = [work EXCEPT ![t].pc = "evidence", ![t].version = v]
        <5>1. /\ work'[t].pc = "evidence" /\ work'[t].version = v
              /\ work'[t].record = r /\ work'[t].file = f
          BY <4>3 DEF Shape, Local
        <5>. QED BY <1>1, <2>1, <2>3, <2>5, <2>7, <3>1, <4>2, <5>1 DEF Uploads, Overlapped
      <4>4. CASE Note(t, {"resent"}) /\ UNCHANGED work
        <5>1. "resent" \in past'[r]
          BY <1>1, <4>4 DEF Note, Shape, ArchiveTypeOK
        <5>. QED BY <1>1, <2>1, <2>5, <2>7, <3>1, <4>4, <5>1 DEF Uploads, Overlapped
      <4>5. CASE Leave(t, "failed")
        <5>1. work'[t].pc = "failed"
          BY <4>5 DEF Leave, Shape, Local
        <5>. QED BY <3>1, <5>1 DEF Uploads
      <4>. QED BY <1>4, <4>3, <4>4, <4>5
    <3>2. CASE u # t
      <4>1. work'[u] = work[u]
        BY <1>2, <3>2 DEF Moved
      <4>2. CASE work[u].pc \in {"put", "evidence", "write"}
        <5>1. work[u].record \in Records /\ work[u].file \in Files
          BY <4>2 DEF Shape, Holds, Local
        <5>2. work[u].record = r => Overlapped(r)
          BY <3>2, <1>1 DEF Exclusive
        <5>3. /\ Overlapped(work[u].record) => Overlapped(work[u].record)'
              /\ past[work[u].record] \subseteq past'[work[u].record]
          BY <2>5, <4>1, <5>1 DEF Overlapped
        <5>4. Uploads(work[u])
          BY DEF Objects
        <5>. QED BY <2>1, <2>3, <4>1, <4>2, <5>1, <5>2, <5>3, <5>4 DEF Uploads
      <4>3. CASE work[u].pc \notin {"put", "evidence", "write"}
        BY <4>1, <4>3 DEF Uploads
      <4>. QED BY <4>2, <4>3
    <3>. QED BY <3>1, <3>2
  <2>11. \A q \in Records, g \in Files : Proved(q, g)'
    <3>. TAKE q \in Records, g \in Files
    <3>1. CASE q = r /\ g = f
      <4>1. CASE work' = [work EXCEPT ![t].pc = "evidence", ![t].version = v]
        BY <3>1, <4>1 DEF Proved, Shape, Local
      <4>2. CASE UNCHANGED work
        BY <2>1, <3>1, <4>2 DEF Proved
      <4>3. CASE Note(t, {"interrupted"})
        BY <1>1, <3>1, <4>3 DEF Proved, Note, Shape, ArchiveTypeOK
      <4>. QED BY <1>4, <4>1, <4>2, <4>3
    <3>2. CASE ~(q = r /\ g = f)
      <4>1. \A u \in Writers \ {t} : work'[u] = work[u]
        BY <1>2 DEF Moved
      <4>2. Proved(q, g)
        BY DEF Objects
      <4>. QED BY <2>1, <2>3, <2>5, <3>2, <4>1, <4>2 DEF Proved
    <3>. QED BY <3>1, <3>2
  <2>. QED BY <2>8, <2>9, <2>10, <2>11 DEF Objects
<1>. QED BY <1>3, <1>4 DEF PutObject, AfterUpload

\* The others keep what they know as long as no object gets a version, and the
\* row of a record changes only if nobody else is at work on it.
LEMMA OthersUpload ==
    ASSUME Shape, Exclusive, Objects, NEW t \in Writers, Moved(t), UNCHANGED versions,
           work[t].record \in Records,
           \A r \in Records \ {work[t].record} : archived'[r] = archived[r]
    PROVE  \A u \in Writers \ {t} : Uploads(work[u])'
<1>. TAKE u \in Writers \ {t}
<1>1. work'[u] = work[u] /\ Uploads(work[u])
  BY DEF Moved, Objects
<1>2. CASE work[u].record \in Records
  <2>1. /\ Overlapped(work[u].record) => Overlapped(work[u].record)'
        /\ past[work[u].record] \subseteq past'[work[u].record]
    BY <1>1, <1>2 DEF Moved, Overlapped
  <2>2. work[u].record = work[t].record => Overlapped(work[u].record)
    BY <1>2 DEF Exclusive
  <2>. QED BY <1>1, <1>2, <2>1, <2>2 DEF Uploads
<1>3. CASE work[u].record \notin Records
  <2>1. work[u].pc = "rest"
    BY <1>3 DEF Shape, Holds, Local
  <2>. QED BY <1>1, <2>1 DEF Uploads
<1>. QED BY <1>2, <1>3

LEMMA EvidenceObjects ==
    ASSUME Shape, Exclusive, Objects, NEW t \in Writers, StoreEvidence(t)
    PROVE  Objects'
<1>. DEFINE r == work[t].record
            f == work[t].file
            v == work[t].version
<1>1. r \in Records /\ f \in Files /\ v \in Nat
  BY DEF StoreEvidence, Shape, Holds, Local
<1>2. Moved(t)
  BY StepMoves DEF ArchiveSteps
<1>3. CASE Leave(t, "failed") /\ Note(t, {"interrupted"}) /\ UNCHANGED evidence
  <2>1. work'[t].pc = "failed" /\ "interrupted" \in past'[r]
    BY <1>1, <1>3 DEF Leave, Move, Note, Shape, ArchiveTypeOK, Local
  <2>2. UNCHANGED <<bucket, archived>>
    BY <1>3 DEF StoreEvidence, bucket
  <2>. QED BY <1>2, <2>1, <2>2, QuietObjects
<1>4. CASE /\ evidence' = [evidence EXCEPT ![r][f] = v]
           /\ Move(t, "write")
           /\ UNCHANGED past
  <2>0. UNCHANGED <<versions, archived>>
    BY DEF StoreEvidence
  <2>1. versions[r][f] # 0 /\ (~Overlapped(r) => v = versions[r][f])
    BY <1>1 DEF StoreEvidence, Objects, Uploads
  <2>2. \A q \in Records, g \in Files :
            evidence'[q][g] = IF q = r /\ g = f THEN v ELSE evidence[q][g]
    <3>. DEFINE h == [evidence[r] EXCEPT ![f] = v]
    <3>1. evidence' = [evidence EXCEPT ![r] = h]
      BY <1>4
    <3>2. \A g \in Files : h[g] = IF g = f THEN v ELSE evidence[r][g]
      BY <1>1 DEF Shape, ArchiveTypeOK
    <3>. HIDE DEF h
    <3>. QED BY <1>1, <3>1, <3>2 DEF Shape, ArchiveTypeOK
  <2>4. Uploads(work[t])'
    <3>1. work'[t].pc = "write" /\ work'[t].record = r /\ work'[t].file = f /\ work'[t].version = v
      BY <1>4 DEF Move, Shape, Local
    <3>. QED BY <1>4, <2>0, <2>1, <3>1 DEF Uploads, Overlapped
  <2>5. \A u \in Writers : Uploads(work[u])'
    BY <1>1, <1>2, <2>0, <2>4, OthersUpload
  <2>6. \A q \in Records, g \in Files : Proved(q, g)'
    <3>. TAKE q \in Records, g \in Files
    <3>1. CASE q = r /\ g = f
      BY <1>1, <1>4, <2>0, <2>1, <2>2, <3>1 DEF Proved, Overlapped
    <3>2. CASE ~(q = r /\ g = f)
      <4>1. \A u \in Writers \ {t} : work'[u] = work[u]
        BY <1>2 DEF Moved
      <4>. QED BY <1>4, <2>0, <2>2, <3>2, <4>1 DEF Proved, Objects
    <3>. QED BY <3>1, <3>2
  <2>7. OneRetainedVersion' /\ InBucket'
    BY <1>4, <2>0 DEF Objects, OneRetainedVersion, InBucket, Overlapped
  <2>. QED BY <2>5, <2>6, <2>7 DEF Objects
<1>. QED BY <1>3, <1>4 DEF StoreEvidence

LEMMA WriteObjects ==
    ASSUME Shape, Exclusive, Objects, NEW t \in Writers, WriteArchive(t)
    PROVE  Objects'
<1>. DEFINE r == work[t].record
<1>1. r \in Records /\ work[t].file \in Files
  BY DEF WriteArchive, Shape, Holds, Local
<1>2. Moved(t)
  BY StepMoves DEF ArchiveSteps
<1>3. work'[t].pc \in {"submit", "notify", "failed", "rest"}
  BY DEF WriteArchive, Leave, Rest, AtRest, Shape, Local
<1>4. /\ UNCHANGED <<versions, evidence, past>>
      /\ \A q \in Records \ {r} : archived'[q] = archived[q]
  BY DEF WriteArchive, bucket, Shape, ArchiveTypeOK
<1>5. archived'[r] \in {archived[r], [file |-> work[t].file, version |-> work[t].version]}
  BY <1>1 DEF WriteArchive, Shape, ArchiveTypeOK
<1>6. InBucket'
  <2>. SUFFICES ASSUME NEW q \in Records, archived'[q].file # Nothing
                PROVE  /\ versions[q][archived'[q].file] # 0
                       /\ ~Overlapped(q) =>
                            archived'[q].version \in {0, versions[q][archived'[q].file]}
    BY <1>4 DEF InBucket, Overlapped
  <2>1. CASE archived'[q] = archived[q]
    BY <2>1 DEF Objects, InBucket
  <2>2. CASE archived'[q] # archived[q]
    <3>1. q = r /\ archived'[q] = [file |-> work[t].file, version |-> work[t].version]
      BY <1>4, <1>5, <2>2
    <3>. QED BY <3>1 DEF Objects, Uploads, WriteArchive
  <2>. QED BY <2>1, <2>2
<1>7. \A u \in Writers : Uploads(work[u])'
  BY <1>1, <1>2, <1>3, <1>4, OthersUpload DEF Uploads
<1>8. \A q \in Records, f \in Files : Proved(q, f)'
  <2>1. \A u \in Writers : work[u].pc \in {"put", "evidence"} => work'[u] = work[u]
    BY <1>2 DEF Moved, WriteArchive
  <2>. QED BY <1>4, <2>1 DEF Proved, Objects
<1>. QED BY <1>4, <1>6, <1>7, <1>8 DEF Objects, OneRetainedVersion

LEMMA HeadObjects ==
    ASSUME Shape, Exclusive, Objects, NEW t \in Writers, HeadObject(t)
    PROVE  Objects'
<1>. DEFINE r == work[t].record
            f == work[t].file
<1>1. r \in Records /\ f \in Files /\ work[t].version = 0
  BY DEF HeadObject, Shape, Holds, Local
<1>2. Moved(t)
  BY StepMoves DEF ArchiveSteps
<1>3. UNCHANGED <<versions, evidence, archived, past>>
  BY DEF HeadObject, bucket
<1>4. /\ work'[t].record = r /\ work'[t].version = 0
      /\ work'[t].pc # "failed" => work'[t].file = f
      /\ work'[t].pc \in {"put", "write", "failed"}
      /\ work'[t].pc = "put" => versions[r][f] = 0
      /\ work'[t].pc = "write" => versions[r][f] # 0
  BY <1>1 DEF HeadObject, NeedsUpload, Leave, Move, Shape, Local
<1>5. versions[r][f] = 0 => archived[r].file # f
  BY <1>1, ArchiveAssumption DEF Objects, InBucket
<1>7. Uploads(work[t])'
  BY <1>3, <1>4, <1>5 DEF Uploads
<1>8. \A q \in Records, g \in Files : Proved(q, g)'
  <2>1. \A u \in Writers : work[u].pc \in {"put", "evidence"} => work'[u] = work[u]
    BY <1>2 DEF Moved, HeadObject
  <2>. QED BY <1>3, <2>1 DEF Proved, Objects
<1>9. \A u \in Writers : Uploads(work[u])'
  BY <1>1, <1>2, <1>3, <1>7, OthersUpload
<1>. QED BY <1>3, <1>8, <1>9 DEF Objects, OneRetainedVersion, InBucket, Overlapped

LEMMA StepObjects ==
    ASSUME Shape, Exclusive, Objects, NEW t \in Writers, ArchiveSteps(t)
    PROVE  Objects'
<1>0. Moved(t)
  BY StepMoves
<1>a. ASSUME UNCHANGED <<bucket, archived>>, work[t].pc \notin {"put", "evidence"},
             work'[t].pc \notin {"put", "evidence", "write"}
      PROVE  Objects'
  BY <1>0, <1>a, QuietObjects DEF Unproved
<1>. USE DEF Move, MoveWith, Rest, AtRest, Shape, Local
<1>1. CASE MarkSubmitting(t)
  BY <1>1, <1>a DEF MarkSubmitting
<1>2. CASE FindArchive(t)
  BY <1>2, <1>a DEF FindArchive
<1>3. CASE MakeFile(t)
  BY <1>3, <1>a DEF MakeFile
<1>4. CASE HeadObject(t)
  BY <1>4, HeadObjects
<1>5. CASE PutObject(t)
  BY <1>5, PutObjects
<1>6. CASE StoreEvidence(t)
  BY <1>6, EvidenceObjects
<1>7. CASE WriteArchive(t)
  BY <1>7, WriteObjects
<1>8. CASE SubmitDocument(t)
  BY <1>8, <1>a DEF SubmitDocument
<1>9. CASE SaveNumber(t)
  BY <1>9, <1>a DEF SaveNumber
<1>10. CASE CatchError(t)
  BY <1>10, <1>a DEF CatchError
<1>11. CASE UpsertReceived(t)
  BY <1>11, <1>a DEF UpsertReceived
<1>12. CASE FetchOriginal(t)
  BY <1>12, <1>a DEF FetchOriginal
<1>13. CASE NotifyCompany(t)
  BY <1>13, <1>a DEF NotifyCompany
<1>14. CASE StopWriter(t)
  <2>1. work'[t].pc = "rest" /\ UNCHANGED <<bucket, archived>>
    BY <1>14 DEF StopWriter
  <2>2. Unproved(t) => "interrupted" \in past'[work[t].record]
    <3>1. work[t].record \in Records
      BY <1>14 DEF StopWriter, Holds
    <3>. QED BY <1>14, <3>1 DEF StopWriter, Note, ArchiveTypeOK
  <2>. QED BY <1>0, <2>1, <2>2, QuietObjects
<1>. QED
  BY <1>1, <1>2, <1>3, <1>4, <1>5, <1>6, <1>7, <1>8, <1>9, <1>10, <1>11, <1>12,
     <1>13, <1>14 DEF ArchiveSteps

LEMMA NextObjects ==
    ASSUME Shape, Exclusive, Objects, [ArchiveNext]_archiveVars
    PROVE  Exclusive' /\ Objects'
<1>1. ASSUME NEW t \in Writers, NEW r \in Records, Took(t, r)
      PROVE  Exclusive' /\ Objects'
  BY <1>1, TookExclusive, TookObjects
<1>2. ASSUME NEW t \in Writers, NEW d \in Documents,
             StartDelivering(t, d) \/ StartSending(t, d) \/ Migrate(t, d)
      PROVE  Exclusive' /\ Objects'
  BY <1>1, <1>2, DeliveryTakes, SendingTakes, MigrationTakes DEF Records
<1>3. ASSUME NEW t \in Writers, NEW i \in Received, StartReceiving(t, i)
      PROVE  Exclusive' /\ Objects'
  BY <1>1, <1>3, ReceivingTakes DEF Records
<1>4. ASSUME NEW t \in Writers, ArchiveSteps(t) PROVE Exclusive' /\ Objects'
  BY <1>4, StepMoves, MovedExclusive, StepObjects
<1>5. ASSUME UNCHANGED <<bucket, archived, work, past>> PROVE Exclusive' /\ Objects'
  BY <1>5 DEF Exclusive, Objects, OneRetainedVersion, InBucket, Uploads, Proved,
              Overlapped, bucket
<1>. QED
  BY <1>2, <1>3, <1>4, <1>5 DEF ArchiveNext, RefuseAddress, archiveVars

LEMMA ObjectsAreKept == ArchiveSpec => [](Shape /\ Exclusive /\ Objects)
<1>1. ArchiveInit => Shape /\ Exclusive /\ Objects
  BY InitShape, InitObjects
<1>2. Shape /\ Exclusive /\ Objects /\ [ArchiveNext]_archiveVars
      => (Shape /\ Exclusive /\ Objects)'
  BY NextShape, NextObjects
<1>. QED BY <1>1, <1>2, PTL DEF ArchiveSpec

\* An object has one version unless two archivings of its record overlapped, or
\* the client of S3 sent it again: whatever fails or stops, a later archiving finds
\* what is in the bucket.
THEOREM OneVersion == ArchiveSpec => []OneRetainedVersion
<1>1. Objects => OneRetainedVersion
  BY DEF Objects
<1>. QED BY <1>1, ObjectsAreKept, PTL

\* What a row names is in the bucket, with its proof unless an upload was
\* interrupted or overlapped: no writer is left that owes the proof.
THEOREM EvidenceIsThere == ArchiveSpec => []EvidenceUnlessInterrupted
<1>1. Shape /\ Objects => EvidenceUnlessInterrupted
  <2>. SUFFICES ASSUME Shape, Objects, NEW r \in Records, archived[r].file # Nothing
                PROVE  /\ versions[r][archived[r].file] # 0
                       /\ past[r] \cap {"interrupted", "overlapped"} = {} =>
                            /\ evidence[r][archived[r].file] # 0
                            /\ archived[r].version \in {0, evidence[r][archived[r].file]}
    BY DEF EvidenceUnlessInterrupted
  <2>. DEFINE f == archived[r].file
  <2>1. f \in Files /\ archived[r].version \in Nat
    BY DEF Shape, ArchiveTypeOK
  <2>2. versions[r][f] # 0 /\ (~Overlapped(r) => archived[r].version \in {0, versions[r][f]})
    BY DEF Objects, InBucket
  <2>3. ASSUME past[r] \cap {"interrupted", "overlapped"} = {}
        PROVE  evidence[r][f] # 0 /\ archived[r].version \in {0, evidence[r][f]}
    <3>1. ~Overlapped(r)
      BY <2>3 DEF Overlapped
    <3>2. ~\E t \in Writers : /\ work[t].pc \in {"put", "evidence"}
                              /\ work[t].record = r
                              /\ work[t].file = f
      BY <3>1 DEF Objects, Uploads
    <3>3. Proved(r, f)
      BY <2>1 DEF Objects
    <3>4. evidence[r][f] = versions[r][f]
      BY <2>2, <2>3, <3>2, <3>3 DEF Proved
    <3>. QED BY <2>2, <3>1, <3>4
  <2>. QED BY <2>2, <2>3
<1>. QED BY <1>1, ObjectsAreKept, PTL

-----------------------------------------------------------------------------
(***************************************************************************)
(* What is in the archive is kept                                          *)
(***************************************************************************)

\* What a writer alone with its record knows: no other file is archived, unless
\* it repairs a document that has no number and was accepted, if at all, blindly.
Keeping(w) ==
    ~Overlapped(w.record) =>
        /\ w.pc \in {"head", "put", "evidence", "write"} /\ ~w.repair =>
             archived[w.record].file \in {Nothing, w.file}
        /\ w.record \in Received
           /\ w.pc \in {"fetch", "head", "put", "evidence", "write", "failed"} =>
             archived[w.record].file = Nothing
        /\ w.repair /\ w.pc \in {"mark", "find", "make", "head", "put", "evidence", "write"} =>
             ~known[w.record] /\ (accepted[w.record] => "blind" \in past[w.record])

\* The number of what was accepted is lost only with its answer, or with the
\* update of the row.
Answered(d) ==
    accepted[d] /\ ~known[d] /\ ~Overlapped(d) =>
        \/ "blind" \in past[d]
        \/ \E t \in Writers : work[t].pc = "save" /\ work[t].record = d

Kept ==
    /\ \A t \in Writers : Keeping(work[t])
    /\ \A d \in Documents : Answered(d)

LEMMA InitKept ==
    ASSUME ArchiveInit
    PROVE  Kept
BY DEF ArchiveInit, AtRest, Kept, Keeping, Answered

LEMMA TookKept ==
    ASSUME Shape, Kept, NEW t \in Writers, NEW r \in Records, Took(t, r)
    PROVE  Kept'
<1>. USE DEF Took, transmissions
<1>1. \A q \in Records : past[q] \subseteq past'[q]
  BY DEF Shape, ArchiveTypeOK
<1>2. \A u \in Writers : Keeping(work[u])'
  <2>1. Keeping(work[t])'
    <3>1. CASE Handling(r) = {}
      <4>1. ~\E u \in Writers : work[u].record = r
        BY <3>1 DEF Handling
      <4>2. work'[t].pc = "mark" => r \in Documents /\ ~(r \in Received)
        BY ArchiveAssumption DEF Holds
      <4>3. r \in Documents => Answered(r)
        BY DEF Kept
      <4>. QED BY <3>1, <4>1, <4>2, <4>3 DEF Keeping, Answered, Overlapped
    <3>2. CASE Handling(r) # {}
      BY <3>2 DEF Keeping, Overlapped, Shape, ArchiveTypeOK
    <3>. QED BY <3>1, <3>2
  <2>2. \A u \in Writers \ {t} : Keeping(work[u])'
    <3>. TAKE u \in Writers \ {t}
    <3>1. (work[u].pc = "rest" /\ ~work[u].repair) \/ work[u].record \in Records
      BY ArchiveAssumption DEF Shape, Local, Holds, Records
    <3>2. work[u].record \notin Records => work[u].record \notin Received
      BY DEF Records
    <3>. QED BY <1>1, <3>1, <3>2 DEF Keeping, Kept, Overlapped
  <2>. QED BY <2>1, <2>2
<1>3. \A d \in Documents : Answered(d)'
  <2>. TAKE d \in Documents
  <2>1. \A u \in Writers : work[u].pc = "save" => work'[u] = work[u]
    OBVIOUS
  <2>2. d \in Records
    BY DEF Records
  <2>. QED BY <1>1, <2>1, <2>2 DEF Answered, Kept, Overlapped
<1>. QED BY <1>2, <1>3 DEF Kept

\* The rows of a record change only if nobody else is at work on it.
LEMMA OthersKeep ==
    ASSUME Shape, Exclusive, Kept, NEW t \in Writers, Moved(t),
           work[t].record \in Records,
           \A r \in Records \ {work[t].record} : archived'[r] = archived[r],
           \A d \in Documents \ {work[t].record} :
               known'[d] = known[d] /\ accepted'[d] = accepted[d]
    PROVE  \A u \in Writers \ {t} : Keeping(work[u])'
<1>. TAKE u \in Writers \ {t}
<1>1. work'[u] = work[u] /\ Keeping(work[u])
  BY DEF Moved, Kept
<1>2. CASE work[u].record \in Records
  <2>1. Overlapped(work[u].record) => Overlapped(work[u].record)'
    BY <1>1, <1>2 DEF Moved, Overlapped
  <2>2. work[u].record = work[t].record => Overlapped(work[u].record)
    BY <1>2 DEF Exclusive
  <2>3. past[work[u].record] \subseteq past'[work[u].record]
    BY <1>2 DEF Moved
  <2>4. work[u].repair => work[u].record \in Documents
    BY DEF Shape, Holds
  <2>. QED BY <1>1, <1>2, <2>1, <2>2, <2>3, <2>4 DEF Keeping
<1>3. CASE work[u].record \notin Records
  <2>1. work[u].pc = "rest" /\ ~work[u].repair /\ work[u].record \notin Received
    BY <1>3 DEF Shape, Holds, Local, Records
  <2>. QED BY <1>1, <2>1 DEF Keeping
<1>. QED BY <1>2, <1>3

LEMMA StepKept ==
    ASSUME Shape, Exclusive, Kept, NEW t \in Writers, ArchiveSteps(t)
    PROVE  Kept'
<1>. DEFINE r == work[t].record
<1>0. /\ Moved(t) /\ r \in Records /\ work[t] \in Local /\ Holds(work[t])
      /\ work'[t] \in Local /\ Holds(work'[t])
  <2>1. work[t].pc # "rest"
    BY DEF ArchiveSteps, MarkSubmitting, FindArchive, MakeFile, HeadObject, PutObject,
           StoreEvidence, WriteArchive, SubmitDocument, SaveNumber, CatchError,
           UpsertReceived, FetchOriginal, NotifyCompany, StopWriter
  <2>. QED BY <2>1, StepMoves DEF Shape, Holds, Local
<1>1. "overlapped" \in past'[r] => "overlapped" \in past[r]
  BY <1>0 DEF Moved
<1>2. Keeping(work[t])
  BY DEF Kept
<1>k. ASSUME Keeping(work[t])',
             UNCHANGED <<known, accepted>>,
             \A q \in Records \ {r} : archived'[q] = archived[q],
             work[t].pc = "save" => "blind" \in past'[r]
      PROVE  Kept'
  <2>1. \A u \in Writers : Keeping(work[u])'
    BY <1>0, <1>k, OthersKeep
  <2>2. \A d \in Documents : Answered(d)'
    <3>. TAKE d \in Documents
    <3>1. Answered(d) /\ past[d] \subseteq past'[d] /\ (Overlapped(d) => Overlapped(d)')
      BY <1>0 DEF Kept, Moved, Overlapped, Records
    <3>2. \A u \in Writers \ {t} : work'[u] = work[u]
      BY <1>0 DEF Moved
    <3>. QED BY <1>k, <3>1, <3>2 DEF Answered
  <2>. QED BY <2>1, <2>2 DEF Kept
<1>q. ASSUME \/ work'[t].pc \in {"submit", "save", "notify", "rest"}
             \/ work'[t].pc = "failed" /\ (r \in Received => archived'[r].file = Nothing)
      PROVE  Keeping(work[t])'
  <2>1. work'[t].record \in {r, Nothing}
    BY <1>0, AtRestShape DEF Moved
  <2>2. Nothing \notin Received
    BY ArchiveAssumption DEF Records
  <2>. QED BY <1>q, <2>1, <2>2 DEF Keeping
<1>3. \A d \in Documents : d \notin Received
  BY ArchiveAssumption
<1>. HIDE DEF r
<1>m. CASE MarkSubmitting(t)
  <2>1. /\ work'[t] = [work[t] EXCEPT !.pc = IF work[t].repair THEN "make" ELSE "find"]
        /\ work[t].pc = "mark"
        /\ UNCHANGED <<known, accepted, archived, past>>
    BY <1>m DEF MarkSubmitting, Move, Shape
  <2>2. r \notin Received
    BY <1>0, <1>3, <2>1 DEF Holds, r
  <2>3. Keeping(work[t])'
    BY <1>0, <1>2, <2>1, <2>2 DEF Keeping, Overlapped, Local, r
  <2>. QED BY <1>k, <2>1, <2>3
<1>w. ASSUME work'[t].record = r, work'[t].repair = work[t].repair,
             UNCHANGED <<archived, known, accepted, past>>,
             work[t].repair => work[t].pc \in {"mark", "find", "make", "head", "put", "evidence", "write"},
             work'[t].pc \in {"head", "put", "evidence", "write"} /\ ~work[t].repair =>
                 archived[r].file \in {Nothing, work'[t].file} \/ Overlapped(r),
             r \in Received => archived[r].file = Nothing \/ Overlapped(r)
      PROVE  Keeping(work[t])'
  BY <1>2, <1>w DEF Keeping, Overlapped, r
<1>f. CASE FindArchive(t)
  <2>1. /\ r \notin Received /\ work[t].pc = "find"
        /\ UNCHANGED <<known, accepted, archived, past>>
    BY <1>0, <1>3, <1>f DEF FindArchive, Holds, r, transmissions
  <2>2. CASE work'[t].pc \in {"submit", "failed", "rest"}
    BY <1>k, <1>q, <2>1, <2>2
  <2>3. CASE work'[t].pc \notin {"submit", "failed", "rest"}
    <3>1. archived[r].file = Nothing
      BY <1>0, <1>f, <2>3 DEF FindArchive, IsArchived, Move, Rest, AtRest, Shape, Local, r
    <3>2. work'[t].record = r /\ work'[t].repair = work[t].repair
      BY <1>0, <1>f, <2>3 DEF FindArchive, Move, MoveWith, Rest, AtRest, Shape, Local, r
    <3>3. Keeping(work[t])'
      BY <1>w, <2>1, <3>1, <3>2
    <3>. QED BY <1>k, <2>1, <3>3
  <2>. QED BY <2>2, <2>3
<1>g. CASE MakeFile(t)
  <2>1. /\ r \notin Received /\ work[t].pc = "make"
        /\ UNCHANGED <<known, accepted, archived, past>>
    BY <1>0, <1>3, <1>g DEF MakeFile, Holds, r, transmissions
  <2>2. CASE work'[t].pc = "failed"
    BY <1>k, <1>q, <2>1, <2>2
  <2>3. CASE work'[t].pc # "failed"
    <3>1. /\ work'[t].record = r /\ work'[t].repair = work[t].repair
          /\ ~work[t].repair => archived[r].file \in {Nothing, work'[t].file}
      BY <1>0, <1>g, <2>3 DEF MakeFile, IsArchived, Move, MoveWith, Shape, Local, r
    <3>2. Keeping(work[t])'
      BY <1>w, <2>1, <3>1
    <3>. QED BY <1>k, <2>1, <3>2
  <2>. QED BY <2>2, <2>3
<1>h. ASSUME HeadObject(t) \/ PutObject(t) \/ StoreEvidence(t) PROVE Kept'
  <2>1. /\ work[t].pc \in {"head", "put", "evidence"}
        /\ UNCHANGED <<known, accepted, archived>>
        /\ work'[t].pc \in {"put", "evidence", "write", "failed"}
        /\ work'[t].record = r /\ work'[t].repair = work[t].repair
        /\ work'[t].pc # "failed" => work'[t].file = work[t].file
    BY <1>0, <1>h DEF HeadObject, PutObject, StoreEvidence, AfterUpload, Leave, Move, Shape,
                      Local, r, transmissions
  <2>2. past[r] \subseteq past'[r] /\ ("overlapped" \in past'[r] => "overlapped" \in past[r])
    BY <1>0, <1>1 DEF Moved
  <2>3. Keeping(work[t])'
    BY <1>2, <2>1, <2>2 DEF Keeping, Overlapped, r
  <2>. QED BY <1>k, <2>1, <2>3
<1>i. CASE WriteArchive(t)
  <2>1. /\ UNCHANGED <<known, accepted, past>> /\ work[t].pc = "write"
        /\ \A q \in Records \ {r} : archived'[q] = archived[q]
        /\ work'[t].pc \in {"submit", "notify", "rest", "failed"}
        /\ work'[t].pc = "failed" => archived' = archived /\ work'[t].record = r
    BY <1>0, <1>i DEF WriteArchive, Leave, Rest, AtRest, Shape, ArchiveTypeOK, Local, r,
                      transmissions
  <2>2. Keeping(work[t])'
    BY <1>2, <1>q, <2>1 DEF Keeping, Overlapped, r
  <2>. QED BY <1>k, <2>1, <2>2
<1>j. CASE SubmitDocument(t)
  <2>1. /\ work[t].pc = "submit" /\ r \in Documents /\ r \notin Received
        /\ UNCHANGED <<archived, known>>
        /\ \A d \in Documents \ {r} : accepted'[d] = accepted[d]
        /\ work'[t].record = r
    BY <1>0, <1>3, <1>j DEF SubmitDocument, Holds, Move, Shape, ArchiveTypeOK, Local, r
  <2>2. \/ work'[t].pc = "save" /\ past' = past
        \/ work'[t].pc = "failed" /\ "blind" \in past'[r]
        \/ work'[t].pc = "failed" /\ UNCHANGED accepted
    BY <1>0, <1>j DEF SubmitDocument, Note, Move, Shape, ArchiveTypeOK, Local, r
  <2>3. \A u \in Writers : Keeping(work[u])'
    BY <1>0, <1>q, <2>1, <2>2, OthersKeep DEF r
  <2>4. \A d \in Documents : Answered(d)'
    <3>. TAKE d \in Documents
    <3>1. Answered(d) /\ past[d] \subseteq past'[d] /\ (Overlapped(d) => Overlapped(d)')
      BY <1>0 DEF Kept, Moved, Overlapped, Records
    <3>2. \A u \in Writers \ {t} : work'[u] = work[u]
      BY <1>0 DEF Moved
    <3>. QED BY <2>1, <2>2, <3>1, <3>2 DEF Answered
  <2>. QED BY <2>3, <2>4 DEF Kept
<1>l. CASE SaveNumber(t)
  <2>0. CASE Move(t, "failed") /\ Note(t, {"blind"}) /\ UNCHANGED known
    <3>1. /\ work'[t].pc = "failed" /\ r \in Documents /\ r \notin Received
          /\ UNCHANGED <<known, accepted, archived>>
      BY <1>0, <1>3, <1>l, <2>0 DEF SaveNumber, Holds, Move, Shape, Local, r
    <3>2. "blind" \in past'[r]
      BY <1>0, <2>0 DEF Note, Shape, ArchiveTypeOK, r
    <3>3. Keeping(work[t])'
      BY <1>q, <3>1
    <3>. QED BY <1>k, <3>1, <3>2, <3>3
  <2>1. CASE Rest(t) /\ known' = [known EXCEPT ![r] = TRUE] /\ UNCHANGED past
    <3>1. /\ r \in Documents /\ UNCHANGED <<archived, accepted>>
          /\ work'[t].pc = "rest"
      BY <1>0, <1>l, <2>1 DEF SaveNumber, Holds, Rest, AtRest, Shape, r
    <3>2. \A u \in Writers : Keeping(work[u])'
      <4>1. \A d \in Documents \ {r} : known'[d] = known[d]
        BY <2>1 DEF Shape, ArchiveTypeOK
      <4>2. Keeping(work[t])'
        BY <1>q, <3>1 DEF Keeping
      <4>. QED BY <1>0, <2>1, <3>1, <4>1, <4>2, OthersKeep DEF r
    <3>3. \A d \in Documents : Answered(d)'
      <4>. TAKE d \in Documents
      <4>1. Answered(d) /\ (\A u \in Writers \ {t} : work'[u] = work[u])
        BY <1>0 DEF Kept, Moved
      <4>2. known'[d] = IF d = r THEN TRUE ELSE known[d]
        BY <2>1, <3>1 DEF Shape, ArchiveTypeOK
      <4>. QED BY <2>1, <3>1, <4>1, <4>2 DEF Answered, Overlapped, r
    <3>. QED BY <3>2, <3>3 DEF Kept
  <2>. QED BY <1>l, <2>0, <2>1 DEF SaveNumber, r
<1>n. ASSUME CatchError(t) \/ NotifyCompany(t) \/ StopWriter(t) PROVE Kept'
  <2>1. /\ work'[t].pc \in {"notify", "rest"}
        /\ UNCHANGED <<archived, known, accepted>>
        /\ work[t].pc = "save" => "blind" \in past'[r]
    BY <1>0, <1>n DEF CatchError, NotifyCompany, StopWriter, Note, Move, Rest, AtRest,
                      Shape, ArchiveTypeOK, Local, r, transmissions
  <2>2. Keeping(work[t])'
    BY <1>q, <2>1 DEF Keeping
  <2>. QED BY <1>k, <2>1, <2>2
<1>o. ASSUME UpsertReceived(t) \/ FetchOriginal(t) PROVE Kept'
  <2>1. /\ r \in Received /\ ~work[t].repair /\ work[t].pc \in {"upsert", "fetch"}
        /\ UNCHANGED <<archived, known, accepted, past>>
        /\ work'[t].record = r /\ work'[t].repair = work[t].repair
    BY <1>0, <1>3, <1>o DEF UpsertReceived, FetchOriginal, Holds, Move, MoveWith, Shape,
                            Local, r, transmissions
  <2>2. work'[t].pc # "notify" => archived[r].file = Nothing \/ Overlapped(r)
    BY <1>0, <1>2, <1>o, <2>1 DEF UpsertReceived, IsArchived, FetchOriginal, Keeping, Move,
                                  Shape, Local, r
  <2>3. Keeping(work[t])'
    <3>1. CASE work'[t].pc = "notify"
      BY <1>q, <3>1 DEF Keeping
    <3>2. CASE work'[t].pc # "notify"
      BY <1>w, <2>1, <2>2, <3>2
    <3>. QED BY <3>1, <3>2
  <2>. QED BY <1>k, <2>1, <2>3
<1>. QED
  BY <1>m, <1>f, <1>g, <1>h, <1>i, <1>j, <1>l, <1>n, <1>o DEF ArchiveSteps

LEMMA NextKept ==
    ASSUME Shape, Exclusive, Kept, [ArchiveNext]_archiveVars
    PROVE  Kept'
<1>1. ASSUME NEW t \in Writers, NEW d \in Documents,
             StartDelivering(t, d) \/ StartSending(t, d) \/ Migrate(t, d)
      PROVE  Kept'
  BY <1>1, DeliveryTakes, SendingTakes, MigrationTakes, TookKept DEF Records
<1>2. ASSUME NEW t \in Writers, NEW i \in Received, StartReceiving(t, i)
      PROVE  Kept'
  BY <1>2, ReceivingTakes, TookKept DEF Records
<1>3. ASSUME NEW t \in Writers, ArchiveSteps(t) PROVE Kept'
  BY <1>3, StepKept
<1>4. ASSUME UNCHANGED <<archived, known, accepted, work, past>> PROVE Kept'
  BY <1>4 DEF Kept, Keeping, Answered, Overlapped
<1>. QED
  BY <1>1, <1>2, <1>3, <1>4 DEF ArchiveNext, RefuseAddress, archiveVars, transmissions

\* Only the end of an archiving changes what a row names, and a writer alone
\* with the record then writes what was there, or repairs.
LEMMA ReplacedByRepair ==
    ASSUME Shape, Exclusive, Kept, [ArchiveNext]_archiveVars,
           NEW r \in Records, archived[r].file \notin {Nothing, archived'[r].file}
    PROVE  \/ Overlapped(r)
           \/ /\ r \in Documents
              /\ \E t \in Handling(r) : work[t].repair
              /\ ~known[r]
              /\ accepted[r] => "blind" \in past[r]
<1>1. ~UNCHANGED archived
  OBVIOUS
<1>2. PICK t \in Writers : ArchiveSteps(t)
  BY <1>1 DEF ArchiveNext, archiveVars, RefuseAddress, StartDelivering,
              StartSending, Migrate, StartReceiving
<1>3. WriteArchive(t)
  BY <1>1, <1>2 DEF ArchiveSteps, MarkSubmitting, FindArchive, MakeFile, HeadObject,
     PutObject, StoreEvidence, SubmitDocument, SaveNumber, CatchError, UpsertReceived,
     FetchOriginal, NotifyCompany, StopWriter
<1>4. work[t].record = r /\ archived'[r].file = work[t].file /\ work[t].pc = "write"
  <2>1. archived' = [archived EXCEPT ![work[t].record] =
                       [file |-> work[t].file, version |-> work[t].version]]
    BY <1>1, <1>3 DEF WriteArchive
  <2>2. work[t].record = r
    BY <2>1 DEF Shape, ArchiveTypeOK
  <2>. QED BY <1>3, <2>1, <2>2 DEF WriteArchive, Shape, ArchiveTypeOK
<1>5. CASE ~Overlapped(r)
  <2>1. Keeping(work[t])
    BY DEF Kept
  <2>2. work[t].repair
    BY <1>4, <1>5, <2>1 DEF Keeping
  <2>. QED BY <1>4, <1>5, <2>1, <2>2 DEF Keeping, Handling, Shape, Holds
<1>. QED BY <1>5

\* An archived file is replaced by another only to repair a transmission that
\* failed, whose document SuperPDP has only if its answer was lost, or by
\* archivings that overlap.
THEOREM ArchiveNeverLost == ArchiveSpec => ArchiveIsKept
<1>1. ArchiveInit => Shape /\ Exclusive /\ Objects /\ Kept
  BY InitShape, InitObjects, InitKept
<1>2. Shape /\ Exclusive /\ Objects /\ Kept /\ [ArchiveNext]_archiveVars
      => (Shape /\ Exclusive /\ Objects /\ Kept)'
  BY NextShape, NextObjects, NextKept
<1>3. Shape /\ Exclusive /\ Kept /\ [ArchiveNext]_archiveVars
      => [\A r \in Records :
            archived[r].file \notin {Nothing, archived'[r].file} =>
               \/ "overlapped" \in past[r]
               \/ /\ r \in Documents
                  /\ \E t \in Handling(r) : work[t].repair
                  /\ ~known[r]
                  /\ accepted[r] => "blind" \in past[r]]_archiveVars
  BY ReplacedByRepair DEF Overlapped
<1>. QED BY <1>1, <1>2, <1>3, PTL DEF ArchiveSpec, ArchiveIsKept

-----------------------------------------------------------------------------
(***************************************************************************)
(* What is received                                                        *)
(***************************************************************************)

Archiving == {"fetch", "head", "put", "evidence", "write", "failed"}

\* What was told, archived or marked, or will be by a task at work.
Accounted(i) ==
    /\ stored[i] /\ "stopped" \notin past[i] =>
         /\ notified[i] \/ \E t \in Writers : work[t].record = i /\ work[t].first
         /\ \/ archived[i].file # Nothing
            \/ failing[i]
            \/ \E t \in Writers : work[t].record = i /\ work[t].pc \in Archiving
    /\ ~Overlapped(i) => archived[i].file = Nothing \/ ~failing[i]
    /\ \A t \in Writers :
         work[t].record = i /\ work[t].pc = "upsert" /\ ~work[t].first => stored[i]

LEMMA TookAccounted ==
    ASSUME Shape, NEW t \in Writers, NEW r \in Records, Took(t, r),
           NEW i \in Received, Accounted(i)
    PROVE  Accounted(i)'
<1>1. past[i] \subseteq past'[i]
  BY DEF Took, Shape, ArchiveTypeOK, Records
<1>2. i # Nothing
  BY ArchiveAssumption DEF Records
<1>3. work[t].record = Nothing
  BY DEF Took, Shape, Holds
<1>. QED BY <1>1, <1>2, <1>3 DEF Took, Accounted, Overlapped, inbox

LEMMA StepAccounted ==
    ASSUME Shape, Exclusive, Kept, NEW t \in Writers, ArchiveSteps(t),
           NEW i \in Received, Accounted(i)
    PROVE  Accounted(i)'
<1>0. /\ Moved(t) /\ work[t] \in Local /\ Holds(work[t])
      /\ work'[t] \in Local /\ Holds(work'[t])
  BY StepMoves DEF Shape
<1>1. /\ past[i] \subseteq past'[i] /\ ("overlapped" \in past'[i] => "overlapped" \in past[i])
      /\ \A u \in Writers \ {t} : work'[u] = work[u]
  BY <1>0 DEF Moved, Records
<1>2. i \notin Documents /\ i # Nothing
  BY ArchiveAssumption DEF Records
<1>3. ASSUME work[t].record # i, UNCHANGED <<stored[i], failing[i], notified[i], archived[i]>>
      PROVE  Accounted(i)'
  <2>1. work'[t].record # i
    BY <1>0, <1>2, <1>3, AtRestShape DEF Moved
  <2>. QED BY <1>1, <1>3, <2>1 DEF Accounted, Overlapped
<1>4. ASSUME work[t].record = i, UNCHANGED <<stored[i], failing[i], notified[i], archived[i]>>,
             work'[t].record = i, work'[t].first = work[t].first, work'[t].pc # "upsert",
             work[t].pc \in Archiving => work'[t].pc \in Archiving
      PROVE  Accounted(i)'
  BY <1>1, <1>4 DEF Accounted, Overlapped
<1>5. ASSUME UNCHANGED <<stored, failing, notified, archived>>,
             work[t].record \in Documents
      PROVE  Accounted(i)'
  BY <1>2, <1>3, <1>5
<1>6. ASSUME MarkSubmitting(t) \/ FindArchive(t) \/ MakeFile(t) \/ SubmitDocument(t)
             \/ SaveNumber(t)
      PROVE  Accounted(i)'
  BY <1>0, <1>5, <1>6 DEF MarkSubmitting, FindArchive, MakeFile, SubmitDocument, SaveNumber,
                          Holds, inbox
<1>7. ASSUME HeadObject(t) \/ PutObject(t) \/ StoreEvidence(t) \/ FetchOriginal(t)
      PROVE  Accounted(i)'
  <2>1. /\ UNCHANGED <<stored, failing, notified, archived>>
        /\ work[t].pc \in Archiving /\ work'[t].pc \in Archiving \ {"upsert"}
        /\ work'[t].record = work[t].record /\ work'[t].first = work[t].first
    BY <1>7 DEF HeadObject, PutObject, StoreEvidence, FetchOriginal, AfterUpload, Leave, Move,
                MoveWith, Shape, Local, Archiving, inbox
  <2>. QED BY <1>3, <1>4, <2>1 DEF Archiving
<1>8. CASE WriteArchive(t)
  <2>1. CASE work[t].record # i
    <3>1. UNCHANGED <<stored[i], failing[i], notified[i], archived[i]>>
      BY <1>8, <2>1 DEF WriteArchive, Shape, ArchiveTypeOK, Records
    <3>. QED BY <1>3, <2>1, <3>1
  <2>2. CASE work[t].record = i
    <3>1. /\ work[t].pc = "write" /\ ~work[t].sends /\ work[t].file \in Files
          /\ UNCHANGED <<stored, notified>>
      BY <1>0, <1>2, <1>8, <2>2 DEF WriteArchive, Holds
    <3>2. CASE Leave(t, "failed") /\ UNCHANGED <<archived, failing>>
      BY <1>4, <2>2, <3>1, <3>2 DEF Leave, Shape, Local, Archiving
    <3>3. CASE ~(Leave(t, "failed") /\ UNCHANGED <<archived, failing>>)
      <4>1. /\ archived'[i].file # Nothing
            /\ failing'[i] = FALSE
            /\ work'[t].pc = "notify" /\ work'[t].record = i /\ work'[t].first = work[t].first
        BY <1>8, <2>2, <3>1, <3>3, ArchiveAssumption
           DEF WriteArchive, Leave, Shape, ArchiveTypeOK, Local, Records
      <4>. QED BY <1>1, <3>1, <4>1 DEF Accounted
    <3>. QED BY <3>2, <3>3
  <2>. QED BY <2>1, <2>2
<1>9. CASE CatchError(t)
  <2>1. CASE work[t].record # i
    <3>1. UNCHANGED <<stored[i], failing[i], notified[i], archived[i]>>
      BY <1>9, <2>1 DEF CatchError, Shape, ArchiveTypeOK
    <3>. QED BY <1>3, <2>1, <3>1
  <2>2. CASE work[t].record = i
    <3>1. /\ work[t].pc = "failed" /\ UNCHANGED <<stored, notified, archived>>
          /\ failing'[i]
          /\ work'[t].pc = "notify" /\ work'[t].record = i /\ work'[t].first = work[t].first
      <4>1. failing'[i] /\ UNCHANGED <<stored, notified, archived>>
        BY <1>9, <2>2 DEF CatchError
      <4>2. work[t].pc = "failed" /\ Move(t, "notify")
        BY <1>9, <2>2 DEF CatchError, Continues
      <4>. QED BY <2>2, <4>1, <4>2 DEF Move, Shape, Local
    <3>2. ~Overlapped(i) => archived[i].file = Nothing
      BY <2>2, <3>1 DEF Kept, Keeping
    <3>. QED BY <1>1, <3>1, <3>2, <2>2 DEF Accounted, Overlapped
  <2>. QED BY <2>1, <2>2
<1>10. CASE UpsertReceived(t)
  <2>1. CASE work[t].record # i
    BY <1>3, <1>10, <2>1 DEF UpsertReceived, Shape, ArchiveTypeOK
  <2>2. CASE work[t].record = i
    <3>1. /\ work[t].pc = "upsert" /\ UNCHANGED <<failing, notified, archived, past>>
          /\ stored'[i] = TRUE
          /\ work'[t].record = i /\ work'[t].first = work[t].first
          /\ work'[t].pc = IF archived[i].file # Nothing THEN "notify" ELSE "fetch"
      BY <1>10, <2>2 DEF UpsertReceived, IsArchived, Move, Shape, ArchiveTypeOK, Local
    <3>2. work[t].first \/ stored[i]
      BY <2>2, <3>1 DEF Accounted
    <3>. QED BY <1>1, <2>2, <3>1, <3>2 DEF Accounted, Overlapped, Archiving
  <2>. QED BY <2>1, <2>2
<1>11. CASE NotifyCompany(t)
  <2>1. CASE work[t].record # i
    BY <1>3, <1>11, <2>1 DEF NotifyCompany, Shape, ArchiveTypeOK
  <2>2. CASE work[t].record = i
    <3>1. /\ work[t].pc = "notify" /\ UNCHANGED <<stored, failing, archived, past>>
          /\ notified'[i] = (notified[i] \/ work[t].first)
          /\ work'[t].record = Nothing /\ work'[t].pc = "rest"
      BY <1>11, <2>2 DEF NotifyCompany, Rest, AtRest, Shape, ArchiveTypeOK, Local
    <3>. QED BY <1>1, <1>2, <2>2, <3>1 DEF Accounted, Overlapped, Archiving
  <2>. QED BY <2>1, <2>2
<1>12. CASE StopWriter(t)
  <2>1. UNCHANGED <<stored, failing, notified, archived>> /\ work'[t].record = Nothing
    BY <1>12 DEF StopWriter, Rest, AtRest, Shape, inbox
  <2>2. work[t].record = i => "stopped" \in past'[i]
    BY <1>12 DEF StopWriter, Note, Shape, ArchiveTypeOK, Records
  <2>. QED BY <1>1, <1>2, <1>3, <2>1, <2>2 DEF Accounted, Overlapped
<1>. QED BY <1>6, <1>7, <1>8, <1>9, <1>10, <1>11, <1>12 DEF ArchiveSteps

LEMMA NextAccounted ==
    ASSUME Shape, Exclusive, Kept, [ArchiveNext]_archiveVars, NEW i \in Received, Accounted(i)
    PROVE  Accounted(i)'
<1>1. ASSUME NEW t \in Writers, NEW d \in Documents,
             StartDelivering(t, d) \/ StartSending(t, d) \/ Migrate(t, d)
      PROVE  Accounted(i)'
  BY <1>1, DeliveryTakes, SendingTakes, MigrationTakes, TookAccounted DEF Records
<1>2. ASSUME NEW t \in Writers, NEW j \in Received, StartReceiving(t, j)
      PROVE  Accounted(i)'
  BY <1>2, ReceivingTakes, TookAccounted DEF Records
<1>3. ASSUME NEW t \in Writers, ArchiveSteps(t) PROVE Accounted(i)'
  BY <1>3, StepAccounted
<1>4. ASSUME UNCHANGED <<archived, inbox, work, past>> PROVE Accounted(i)'
  BY <1>4 DEF Accounted, Overlapped, inbox
<1>. QED BY <1>1, <1>2, <1>3, <1>4 DEF ArchiveNext, RefuseAddress, archiveVars

\* No received invoice is left unannounced, or with neither an archive nor the
\* error of one, by tasks that all came to their end.
THEOREM ReceivedAccounted == ArchiveSpec => []ReceivedIsAccountedFor
<1>. DEFINE Known == \A i \in Received : Accounted(i)
<1>1. ArchiveInit => Shape /\ Exclusive /\ Objects /\ Kept /\ Known
  <2>1. ArchiveInit => Known
    BY DEF ArchiveInit, AtRest, NotArchived, Accounted
  <2>. QED BY <2>1, InitShape, InitObjects, InitKept
<1>2. Shape /\ Exclusive /\ Objects /\ Kept /\ Known /\ [ArchiveNext]_archiveVars
      => (Shape /\ Exclusive /\ Objects /\ Kept /\ Known)'
  BY NextShape, NextObjects, NextKept, NextAccounted
<1>3. Known => ReceivedIsAccountedFor
  BY DEF Accounted, ReceivedIsAccountedFor, IsArchived, Handling, Overlapped
<1>. QED BY <1>1, <1>2, <1>3, PTL DEF ArchiveSpec
=============================================================================
