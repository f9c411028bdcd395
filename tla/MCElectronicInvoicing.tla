----------------------- MODULE MCElectronicInvoicing -----------------------
(***************************************************************************)
(* What is submitted to SuperPDP, and the archive.  The archive keeps what *)
(* it needs of a transmission to itself, and the file of an invoice that   *)
(* is sent and the original of one that is received have no row in common: *)
(* a step of one commutes with a step of another.  Each behaviour is one   *)
(* of the three, chosen at the start, the others at rest.                  *)
(***************************************************************************)
EXTENDS ElectronicInvoicing, ElectronicArchive, TLC

CONSTANTS u1, u2, invoice, sale, payment, f1, f2

MCUsers == {u1, u2}
MCInvoices == {invoice}
MCSales == {sale}
MCPayments == {payment}
MCTasks == MCUsers \cup MCInvoices
MCFiles == {f1, f2}
MCSymmetry == Permutations(MCUsers) \cup Permutations(MCFiles)

VARIABLE part

MCInit ==
    /\ Init
    /\ ArchiveInit
    /\ \/ part = "issued"
       \/ part \in {"submitted", "received"} /\ \A d \in Documents : legacy[d] = Nothing

MCNext ==
    /\ part' = part
    /\ \/ part = "submitted" /\ Next /\ UNCHANGED archiveVars
       \/ part = "issued" /\ UNCHANGED vars
          /\ \/ \E d \in Documents : RefuseAddress(d)
             \/ \E t \in Writers, d \in Documents :
                   StartDelivering(t, d) \/ StartSending(t, d) \/ Migrate(t, d)
             \/ \E t \in Writers : ArchiveSteps(t)
       \/ part = "received" /\ UNCHANGED vars
          /\ \/ \E t \in Writers, i \in Received : StartReceiving(t, i)
             \/ \E t \in Writers : ArchiveSteps(t)

MCSpec == MCInit /\ [][MCNext]_<<vars, archiveVars, part>>
=============================================================================
