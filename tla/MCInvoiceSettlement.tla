------------------------ MODULE MCInvoiceSettlement -------------------------
(***************************************************************************)
(* Two instalments, or two attempts of one payment.                        *)
(***************************************************************************)
EXTENDS InvoiceSettlement, TLC

CONSTANTS c1, c2, p1, w1, w2, s1, u1

MCCollections == {c1, c2}
MCPayments == {p1}
MCPaymentOf == c1 :> p1 @@ c2 :> p1
MCWorkers == {w1, w2}
MCOneWorker == {w1}
MCSweepers == {s1}
MCUsers == {u1}
MCNobody == {}
MCBothModes == {"INSTALMENTS", "ONE_TIME"}
MCOneTimeOnly == {"ONE_TIME"}
MCNoCrash == [m \in Modes |-> 0]
MCOneCrash == [m \in Modes |-> 1]
MCCrashOfPlan == [m \in Modes |-> IF m = "INSTALMENTS" THEN 1 ELSE 0]

\* A payment is collected or refused; the first may then be charged back.
MCOutcome == [s \in ProviderStatus |->
    IF s = "pending_submission" THEN {"confirmed", "failed"} ELSE {}]
MCMoves == c1 :> [MCOutcome EXCEPT !["confirmed"] = {"charged_back"}]
           @@ c2 :> MCOutcome
=============================================================================
