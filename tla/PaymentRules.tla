---------------------------- MODULE PaymentRules ----------------------------
(***************************************************************************)
(* The decisions of the payment code that touch no state: how a provider   *)
(* status is mapped, which transitions of a collection (instalment or      *)
(* payment attempt) are accepted, what one webhook event or one reading of *)
(* the provider writes to an instalment, and how the statuses of the       *)
(* collections make the status of the invoice.                             *)
(*                                                                         *)
(* Times are naturals; 0 stands for null.                                  *)
(***************************************************************************)
EXTENDS Naturals, FiniteSets

\* GoCardless payment statuses; pending_customer_approval is handled as
\* pending_submission everywhere.
ProviderStatus ==
    {"pending_submission", "submitted", "confirmed", "paid_out", "failed",
     "cancelled", "charged_back"}

\* Status of an instalment or of a payment attempt.  OVERDUE is read in a few
\* places and written nowhere.
CollectionStatus == {"PENDING", "PAYMENT_IN_PROGRESS", "SUCCESS", "FAILED"}

InvoiceStatus == {"PENDING", "PAYMENT_IN_PROGRESS", "PARTIALLY_PAID", "PAID",
                  "REJECTED", "PAID_MANUALLY"}

\* Events the payment handler looks at, besides created.
Actions == {"submitted", "confirmed", "paid_out", "failed",
            "resubmission_requested", "charged_back"}

MatchPaymentAttemptStatus(status) ==
    CASE status = "pending_submission"         -> "PENDING"
      [] status = "submitted"                  -> "PAYMENT_IN_PROGRESS"
      [] status \in {"confirmed", "paid_out"}  -> "SUCCESS"
      [] OTHER                                 -> "FAILED"

\* A mutant: a success is final.
CanUpdateStatusUnlessSuccess(existing, next) ==
    /\ existing # next
    /\ existing # "SUCCESS"
    /\ ~(existing = "PAYMENT_IN_PROGRESS" /\ next = "PENDING")

\* A success is only undone by a failure (a chargeback), and a payment in
\* progress does not become pending again.
CanUpdateStatus(existing, next) ==
    /\ existing # next
    /\ existing = "SUCCESS" => next = "FAILED"
    /\ ~(existing = "PAYMENT_IN_PROGRESS" /\ next = "PENDING")

-----------------------------------------------------------------------------
(***************************************************************************)
(* syncInstalmentStatus: i is the instalment as it was read, paymentStatus *)
(* the status the provider returned, e the event, or NoEvent when the      *)
(* reconciliation calls.                                                   *)
(***************************************************************************)

NoEvent == [action |-> "none", at |-> 0, will |-> FALSE]

\* A mutant: every event is taken for the latest.
StaleNever(i, e) == FALSE

StaleEvent(i, e) == e.at # 0 /\ i.last # 0 /\ e.at < i.last

MappedStatus(paymentStatus, e) ==
    IF e.action = "resubmission_requested" /\ paymentStatus = "pending_submission"
    THEN "PAYMENT_IN_PROGRESS"
    ELSE MatchPaymentAttemptStatus(paymentStatus)

\* A mutant: the flag follows the event whatever the payment has become.
AutomaticRetryOfEvent(i, paymentStatus, e) ==
    IF e.action \notin {"failed", "resubmission_requested"}
    THEN i.auto ELSE e.will

\* Whether GoCardless is going to retry by itself.
AutomaticRetryScheduled(i, paymentStatus, e) ==
    /\ paymentStatus = "failed"
    /\ IF StaleEvent(i, e) \/ e.action \notin {"failed", "resubmission_requested"}
       THEN i.auto
       ELSE e.action = "failed" /\ e.will

\* A mutant: an event from before the reservation releases it.
ReleaseByAnyEvent(i, paymentStatus, e) ==
    /\ i.manual # 0
    /\ paymentStatus # "failed" \/ e.action = "failed"
    /\ e.action \in Actions

\* The event tells the outcome of the retry the user asked for.
ReleaseManualRetry(i, paymentStatus, e) ==
    /\ i.manual # 0
    /\ e.at >= i.manual
    /\ paymentStatus # "failed" \/ e.action = "failed"
    /\ e.action \in Actions

\* Nothing to write: only the invoice is recomputed.
NothingToSync(i, paymentStatus, e) ==
    /\ ~CanUpdateStatus(i.status, MappedStatus(paymentStatus, e))
    /\ i.auto = AutomaticRetryScheduled(i, paymentStatus, e)
    /\ StaleEvent(i, e) \/ e.at = 0 \/ (i.last # 0 /\ e.at <= i.last)
    /\ ~ReleaseManualRetry(i, paymentStatus, e)

\* The columns written over row, from the instalment i as it was read.
SyncedInstalment(row, i, paymentStatus, e) ==
    LET mapped == MappedStatus(paymentStatus, e)
    IN  [status |-> IF CanUpdateStatus(i.status, mapped) THEN mapped ELSE row.status,
         auto   |-> AutomaticRetryScheduled(i, paymentStatus, e),
         manual |-> IF ReleaseManualRetry(i, paymentStatus, e) THEN 0 ELSE row.manual,
         last   |-> IF e.at # 0 /\ ~StaleEvent(i, e) THEN e.at ELSE row.last]

-----------------------------------------------------------------------------

\* getInvoiceStatus, for the set of statuses of the instalments of an invoice.
StatusFromInstalments(S) ==
    IF S = {"SUCCESS"} THEN "PAID"
    ELSE IF "SUCCESS" \in S THEN "PARTIALLY_PAID"
    ELSE IF "PAYMENT_IN_PROGRESS" \in S THEN "PAYMENT_IN_PROGRESS"
    ELSE IF S = {"FAILED"} THEN "REJECTED"
    ELSE "PENDING"

\* getInvoiceStatus, for the set of statuses of the payments of an invoice
\* without instalments.
StatusFromPayments(S) ==
    IF "SUCCESS" \in S THEN "PAID"
    ELSE IF "PAYMENT_IN_PROGRESS" \in S THEN "PAYMENT_IN_PROGRESS"
    ELSE IF S = {"FAILED"} THEN "REJECTED"
    ELSE "PENDING"

\* getPayByBankPaymentStatus, for the set of statuses of the attempts of one
\* payment.
PaymentStatus(S) ==
    IF "SUCCESS" \in S THEN "SUCCESS"
    ELSE IF "PAYMENT_IN_PROGRESS" \in S THEN "PAYMENT_IN_PROGRESS"
    ELSE IF S = {"FAILED"} THEN "FAILED"
    ELSE "PENDING"
=============================================================================
