-------------------------- MODULE ElectronicArchive --------------------------
(***************************************************************************)
(* The secure archive (S3StorageService) and what is kept in it: the       *)
(* Factur-X of the invoices a company sends (FacturXService), those that   *)
(* were stored in the database before (FacturXArchiveMigrationService) and *)
(* the originals of the invoices it receives                               *)
(* (SuperPdpIncomingInvoicesService).                                      *)
(*                                                                         *)
(* An object is known by its record and its content, for its key is made   *)
(* of both; the bucket keeps every version of it, and a proof beside it.   *)
(* A file is a value: its name, its type and how it is made are not here.  *)
(* What a transmission does besides its file is in ElectronicInvoicing;    *)
(* only what decides between archive and repair is kept of it.             *)
(***************************************************************************)
EXTENDS Naturals

CONSTANTS
    Documents,      \* invoices that are sent
    Received,       \* invoices SuperPDP has received for the company
    Files,          \* contents of files
    Nothing,        \* no file, no record
    Writers,        \* requests, jobs and the migration
    MaxVersions     \* bound on the versions of an object

Records == Documents \cup Received

ASSUME ArchiveAssumption ==
    /\ Documents \cap Received = {}
    /\ Nothing \notin Files \cup Records
    /\ MaxVersions \in Nat

VARIABLES
    versions,   \* versions of the object of each record and content
    evidence,   \* the version its proof names, or 0 without a proof
    archived,   \* the file and the version the row of each record names
    legacy,     \* bytes in the row of each document
    status,     \* status of the transmission of each document
    known,      \* whether that row has the number of SuperPDP
    accepted,   \* whether SuperPDP accepted the document
    stored,     \* whether there is a row for each received invoice
    failing,    \* whether that row carries an error of the archive
    notified,   \* whether the company was told
    work,       \* local state of each writer
    past        \* history: what happened to each record

bucket == <<versions, evidence>>
transmissions == <<status, known, accepted>>
inbox == <<stored, failing, notified>>
archiveVars == <<bucket, archived, legacy, transmissions, inbox, work, past>>

NotArchived == [file |-> Nothing, version |-> 0]

AtRest == [pc |-> "rest", record |-> Nothing, file |-> Nothing, version |-> 0,
           sends |-> FALSE, repair |-> FALSE, first |-> FALSE]

ArchiveInit ==
    /\ versions = [r \in Records |-> [f \in Files |-> 0]]
    /\ evidence = [r \in Records |-> [f \in Files |-> 0]]
    /\ archived = [r \in Records |-> NotArchived]
    /\ legacy \in [Documents -> Files \cup {Nothing}]
    /\ status = [d \in Documents |-> "PENDING"]
    /\ known = [d \in Documents |-> FALSE]
    /\ accepted = [d \in Documents |-> FALSE]
    /\ stored = [i \in Received |-> FALSE]
    /\ failing = [i \in Received |-> FALSE]
    /\ notified = [i \in Received |-> FALSE]
    /\ work = [t \in Writers |-> AtRest]
    /\ past = [r \in Records |-> {}]

Handling(r) == {t \in Writers : work[t].record = r}

\* A writer takes a record; another may be at work on it.
Take(t, r, local) ==
    /\ work[t].pc = "rest"
    /\ work' = [work EXCEPT ![t] = local]
    /\ past' = IF Handling(r) = {} THEN past
               ELSE [past EXCEPT ![r] = @ \cup {"overlapped"}]

Move(t, pc) == work' = [work EXCEPT ![t].pc = pc]
MoveWith(t, pc, file) == work' = [work EXCEPT ![t].pc = pc, ![t].file = file]
Leave(t, pc) ==     \* the archiving ends, done or not
    work' = [work EXCEPT ![t].pc = pc, ![t].file = Nothing, ![t].version = 0]
Rest(t) == work' = [work EXCEPT ![t] = AtRest]
Note(t, what) == past' = [past EXCEPT ![work[t].record] = @ \cup what]

-----------------------------------------------------------------------------
(***************************************************************************)
(* send: the file of a document                                            *)
(***************************************************************************)

\* A client without an address: FAILED, whatever the row is.
RefuseAddress(d) ==
    /\ status' = [status EXCEPT ![d] = "FAILED"]
    /\ UNCHANGED <<bucket, archived, legacy, known, accepted, inbox, work, past>>

\* What has a number at SuperPDP is followed, and not sent.
Follows(d) == known[d]

\* The transmission is read.
StartSending(t, d) ==
    /\ ~Follows(d)
    /\ Take(t, d, [AtRest EXCEPT !.pc = "mark", !.record = d, !.sends = TRUE,
                                 !.repair = (status[d] = "FAILED" /\ ~known[d])])
    /\ UNCHANGED <<bucket, archived, legacy, transmissions, inbox>>

MarkSubmitting(t) ==
    /\ work[t].pc = "mark"
    /\ status' = [status EXCEPT ![work[t].record] = "SUBMITTING"]
    /\ Move(t, IF work[t].repair THEN "make" ELSE "find")
    /\ UNCHANGED <<bucket, archived, legacy, known, accepted, inbox, past>>

\* A mutant: a file is made although there is one in the archive.
IsArchivedNever(r) == FALSE

IsArchived(r) == archived[r].file # Nothing

\* The invoice is delivered to the client: its file is archived, and not sent.
StartDelivering(t, d) ==
    /\ Take(t, d, [AtRest EXCEPT !.pc = "find", !.record = d])
    /\ UNCHANGED <<bucket, archived, legacy, transmissions, inbox>>

\* archive: what is archived is read from the bucket, which may fail; bytes of
\* the row are archived; or a file is made.
FindArchive(t) ==
    LET d == work[t].record IN
    /\ work[t].pc = "find"
    /\ \/ /\ IsArchived(d)
          /\ \/ IF work[t].sends THEN Move(t, "submit") ELSE Rest(t)
             \/ Move(t, "failed")
       \/ /\ ~IsArchived(d)
          /\ IF legacy[d] # Nothing THEN MoveWith(t, "head", legacy[d])
             ELSE Move(t, "make")
    /\ UNCHANGED <<bucket, archived, legacy, transmissions, inbox, past>>

\* generate reads the row again; regenerateForFailedB2BTransmission always
\* makes the file.  The converter may refuse, or return what is no PDF.
MakeFile(t) ==
    LET d == work[t].record IN
    /\ work[t].pc = "make"
    /\ \/ \E f \in IF work[t].repair THEN Files
                   ELSE IF IsArchived(d) THEN {archived[d].file}
                   ELSE IF legacy[d] # Nothing THEN {legacy[d]} ELSE Files :
             MoveWith(t, "head", f)
       \/ Move(t, "failed")
    /\ UNCHANGED <<bucket, archived, legacy, transmissions, inbox, past>>

\* The migration reads a document that has bytes and no archive.
Migrate(t, d) ==
    /\ legacy[d] # Nothing
    /\ ~IsArchived(d)
    /\ Take(t, d, [AtRest EXCEPT !.pc = "head", !.record = d, !.file = legacy[d]])
    /\ UNCHANGED <<bucket, archived, legacy, transmissions, inbox>>

-----------------------------------------------------------------------------
(***************************************************************************)
(* archiveImmutableDocument, and the update of the row that follows        *)
(***************************************************************************)

\* A mutant: what exists is uploaded again.
NeedsUploadAlways(r, f) == TRUE

NeedsUpload(r, f) == versions[r][f] = 0

\* existingArchiveMatches: an object that exists and is the file expected is
\* not uploaded again.
HeadObject(t) ==
    LET r == work[t].record IN
    /\ work[t].pc = "head"
    /\ \/ Move(t, IF NeedsUpload(r, work[t].file) THEN "put" ELSE "write")
       \/ Leave(t, "failed")
    /\ UNCHANGED <<bucket, archived, legacy, transmissions, inbox, past>>

\* A mutant: the row is written first, and the proof never.
AfterUploadRow == "write"

AfterUpload == "evidence"

\* An object was uploaded and its proof was not.
Unproved(t) ==
    \/ work[t].pc = "evidence"
    \/ work[t].pc = "put" /\ versions[work[t].record][work[t].file] # 0

\* The object is uploaded.  When the answer is lost, the client of S3 uploads
\* the object again by itself, which makes another version of it, until it has
\* tried enough.
PutObject(t) ==
    LET r == work[t].record
        v == versions[r][work[t].file] + 1 IN
    /\ work[t].pc = "put"
    /\ \/ /\ v <= MaxVersions
          /\ versions' = [versions EXCEPT ![r][work[t].file] = v]
          /\ \/ /\ work' = [work EXCEPT ![t].pc = AfterUpload, ![t].version = v]
                /\ UNCHANGED past
             \/ Note(t, {"resent"}) /\ UNCHANGED work
             \/ Leave(t, "failed") /\ Note(t, {"interrupted"})
       \/ /\ Leave(t, "failed")
          /\ Note(t, IF Unproved(t) THEN {"interrupted"} ELSE {})
          /\ UNCHANGED versions
    /\ UNCHANGED <<evidence, archived, legacy, transmissions, inbox>>

\* verifyArchivedFacturX, then storeArchiveEvidence: each may fail.
StoreEvidence(t) ==
    LET r == work[t].record IN
    /\ work[t].pc = "evidence"
    /\ \/ /\ evidence' = [evidence EXCEPT ![r][work[t].file] = work[t].version]
          /\ Move(t, "write")
          /\ UNCHANGED past
       \/ /\ Leave(t, "failed")
          /\ Note(t, {"interrupted"})
          /\ UNCHANGED evidence
    /\ UNCHANGED <<versions, archived, legacy, transmissions, inbox>>

\* persistArchive and the like: the row names the object, whatever it named,
\* and gives up its bytes or its error.
WriteArchive(t) ==
    LET r == work[t].record IN
    /\ work[t].pc = "write"
    /\ \/ /\ archived' = [archived EXCEPT ![r] = [file |-> work[t].file,
                                                  version |-> work[t].version]]
          /\ legacy' = [d \in Documents |-> IF d = r THEN Nothing ELSE legacy[d]]
          /\ failing' = [i \in Received |-> i # r /\ failing[i]]
          /\ IF work[t].sends THEN Leave(t, "submit")
             ELSE IF r \in Received THEN Leave(t, "notify")
             ELSE Rest(t)
       \/ Leave(t, "failed") /\ UNCHANGED <<archived, legacy, failing>>
    /\ UNCHANGED <<bucket, transmissions, stored, notified, past>>

-----------------------------------------------------------------------------
(***************************************************************************)
(* send: the end of a transmission                                         *)
(***************************************************************************)

\* SuperPDP accepts, and its answer may be lost; or the sending fails.
SubmitDocument(t) ==
    LET d == work[t].record IN
    /\ work[t].pc = "submit"
    /\ \/ /\ accepted' = [accepted EXCEPT ![d] = TRUE]
          /\ \/ Move(t, "save") /\ UNCHANGED past
             \/ Move(t, "failed") /\ Note(t, {"blind"})
       \/ Move(t, "failed") /\ UNCHANGED <<accepted, past>>
    /\ UNCHANGED <<bucket, archived, legacy, status, known, inbox>>

\* The update is in the try block: where it fails, the number is lost.
SaveNumber(t) ==
    LET d == work[t].record IN
    /\ work[t].pc = "save"
    /\ \/ /\ status' = [status EXCEPT ![d] = "SUBMITTED"]
          /\ known' = [known EXCEPT ![d] = TRUE]
          /\ Rest(t)
          /\ UNCHANGED past
       \/ /\ Move(t, "failed")
          /\ Note(t, {"blind"})
          /\ UNCHANGED <<status, known>>
    /\ UNCHANGED <<bucket, archived, legacy, accepted, inbox>>

\* A mutant: the error of an archive is thrown.
ContinuesNever(r) == FALSE

\* The error of an original is caught where it is archived.
Continues(r) == r \in Received

\* catch: the transmission is FAILED, the migration stops, or the row of what
\* was received carries the error.
CatchError(t) ==
    LET r == work[t].record IN
    /\ work[t].pc = "failed"
    /\ status' = [d \in Documents |->
                    IF d = r /\ work[t].sends THEN "FAILED" ELSE status[d]]
    /\ failing' = [i \in Received |-> i = r \/ failing[i]]
    /\ IF Continues(r) THEN Move(t, "notify") ELSE Rest(t)
    /\ UNCHANGED <<bucket, archived, legacy, known, accepted, stored, notified, past>>

-----------------------------------------------------------------------------
(***************************************************************************)
(* upsertIncoming                                                          *)
(***************************************************************************)

\* An invoice of a page: its row, if any, is read.
StartReceiving(t, i) ==
    /\ Take(t, i, [AtRest EXCEPT !.pc = "upsert", !.record = i, !.first = ~stored[i]])
    /\ UNCHANGED <<bucket, archived, legacy, transmissions, inbox>>

UpsertReceived(t) ==
    LET i == work[t].record IN
    /\ work[t].pc = "upsert"
    /\ stored' = [stored EXCEPT ![i] = TRUE]
    /\ Move(t, IF IsArchived(i) THEN "notify" ELSE "fetch")
    /\ UNCHANGED <<bucket, archived, legacy, transmissions, failing, notified, past>>

\* fetchOriginalInvoice and validateIncomingOriginal.
FetchOriginal(t) ==
    /\ work[t].pc = "fetch"
    /\ \/ \E f \in Files : MoveWith(t, "head", f)
       \/ Move(t, "failed")
    /\ UNCHANGED <<bucket, archived, legacy, transmissions, inbox, past>>

\* The company is told of what had no row; once, by the key of the notice.
NotifyCompany(t) ==
    LET i == work[t].record IN
    /\ work[t].pc = "notify"
    /\ notified' = [notified EXCEPT ![i] = @ \/ work[t].first]
    /\ Rest(t)
    /\ UNCHANGED <<bucket, archived, legacy, transmissions, stored, failing, past>>

-----------------------------------------------------------------------------

\* The process stops, or the database refuses a write outside a try block.
StopWriter(t) ==
    /\ work[t].pc # "rest"
    /\ Note(t, (IF work[t].record \in Received THEN {"stopped"} ELSE {})
                  \cup (IF Unproved(t) THEN {"interrupted"} ELSE {})
                  \cup (IF work[t].pc = "save" THEN {"blind"} ELSE {}))
    /\ Rest(t)
    /\ UNCHANGED <<bucket, archived, legacy, transmissions, inbox>>

ArchiveSteps(t) ==
    \/ MarkSubmitting(t)
    \/ FindArchive(t)
    \/ MakeFile(t)
    \/ HeadObject(t)
    \/ PutObject(t)
    \/ StoreEvidence(t)
    \/ WriteArchive(t)
    \/ SubmitDocument(t)
    \/ SaveNumber(t)
    \/ CatchError(t)
    \/ UpsertReceived(t)
    \/ FetchOriginal(t)
    \/ NotifyCompany(t)
    \/ StopWriter(t)

ArchiveNext ==
    \/ \E d \in Documents : RefuseAddress(d)
    \/ \E t \in Writers, d \in Documents : 
          StartDelivering(t, d) \/ StartSending(t, d) \/ Migrate(t, d)
    \/ \E t \in Writers, i \in Received : StartReceiving(t, i)
    \/ \E t \in Writers : ArchiveSteps(t)

ArchiveSpec == ArchiveInit /\ [][ArchiveNext]_archiveVars

-----------------------------------------------------------------------------
(***************************************************************************)
(* Properties                                                              *)
(***************************************************************************)

\* What the writers rely on: the shape of every variable, and that an object
\* a writer has uploaded or found is in the bucket.
ArchiveTypeOK ==
    /\ versions \in [Records -> [Files -> 0..MaxVersions]]
    /\ evidence \in [Records -> [Files -> 0..MaxVersions]]
    /\ archived \in [Records -> [file : Files \cup {Nothing}, version : 0..MaxVersions]]
    /\ legacy \in [Documents -> Files \cup {Nothing}]
    /\ status \in [Documents -> {"PENDING", "SUBMITTING", "SUBMITTED", "FAILED"}]
    /\ known \in [Documents -> BOOLEAN]
    /\ accepted \in [Documents -> BOOLEAN]
    /\ stored \in [Received -> BOOLEAN]
    /\ failing \in [Received -> BOOLEAN]
    /\ notified \in [Received -> BOOLEAN]
    /\ past \in [Records -> SUBSET {"overlapped", "interrupted", "resent", "blind", "stopped"}]

\* A row that names an archived file has its object in the bucket, and the
\* proof it names is there, of the version it names, unless the upload of the
\* object was interrupted before its proof, or two archivings overlapped: the
\* next archiving finds the object, and never writes the proof it returns.
EvidenceUnlessInterrupted ==
    \A r \in Records :
        LET row == archived[r] IN
        row.file # Nothing =>
            /\ versions[r][row.file] # 0
            /\ past[r] \cap {"interrupted", "overlapped"} = {} =>
                 /\ evidence[r][row.file] # 0
                 /\ row.version \in {0, evidence[r][row.file]}

\* An object is kept in one version, whatever is archived again after a failure,
\* unless two archivings of the record overlapped, or the client of S3 repeated
\* within one archiving an upload whose answer was lost.
OneRetainedVersion ==
    \A r \in Records, f \in Files :
        versions[r][f] > 1 => past[r] \cap {"overlapped", "resent"} # {}

\* What a row names in the archive is replaced by another file only to repair
\* a transmission that failed and whose row has no number, a document SuperPDP
\* has only if its answer or the update of the row was lost; or when two
\* archivings overlapped.
ArchiveIsKept ==
    [][\A r \in Records :
         archived[r].file \notin {Nothing, archived'[r].file} =>
            \/ "overlapped" \in past[r]
            \/ /\ r \in Documents
               /\ \E t \in Handling(r) : work[t].repair
               /\ ~known[r]
               /\ accepted[r] => "blind" \in past[r]]_archiveVars

\* A received invoice no task is at work on was announced, and is archived or
\* carries the error of its archive, not both, unless a task stopped; two
\* tasks at once may leave an error beside an archive.
ReceivedIsAccountedFor ==
    \A i \in Received :
        stored[i] /\ Handling(i) = {} /\ "stopped" \notin past[i] =>
            /\ notified[i]
            /\ IsArchived(i) \/ failing[i]
            /\ "overlapped" \notin past[i] => ~(IsArchived(i) /\ failing[i])
=============================================================================
