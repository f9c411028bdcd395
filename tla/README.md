# Onetto: specifications of the back end

Onetto is an invoicing service for French companies: estimates, invoices,
collection of invoices through GoCardless (one-time payments by bank and
instalment plans) or Bridge, Stripe subscriptions, and electronic invoicing and
reporting through SuperPDP. The back end (`src/backend`, NestJS over PostgreSQL
through Prisma) is several stateless processes over one database: everything
concurrent in it is requests, webhooks and cron jobs that read rows, call a
provider, and write rows, with almost no transaction around the three. That is
what these modules model: which reading a write rests on, what happened in
between, and what a request that stops half-way leaves behind.

## 1. The system

Paths are relative to `src/backend/src`; `GC` is
`Adapters/PaymentAdapters/gocardless`.

| Component | State | Operations | Hard behaviours | Correct when |
|---|---|---|---|---|
| Webhook intake `GC/gocardless-webhook.service.ts` | rows of `ProcessedWebhookEvents` (claimedAt, completedAt) | claim, take over after 15 min, dispatch, complete, release, answer 200/503 | concurrent deliveries, handlers that outlive their lease, crashes | claims exclude each other, nobody settles a claim of another, 200 only when all is done, nothing forgotten |
| Payment events `GC/webhook-handlers/gocardless-payment-webhook.handler.ts` | instalment (status, automaticRetryScheduled, manualRetryRequestedAt, lastProviderEventAt), attempt status | read the payment at the provider, read the row, write it if unchanged | events out of order, stale readings, overlap with other writers | rows never contradict themselves and end up saying what the provider says |
| Retry `GC/gocardless-instalment-retry.service.ts` | the same instalment: a reservation | check, reserve, call, release, settle from the history | double click, lost answer, refusal | one retry at a time, a reservation ends when it should and only then |
| Reconciliation `GC/gocardless-reconciliation.service.ts` | lease and dates of a plan; the same rows | read rows, read provider, write like a webhook | overlap with webhooks and retries | repairs, never breaks |
| Invoice status `invoice-payments/invoice-payment-status.service.ts` | `Document.invoiceStatus`, `PayByBankPayment.status` | recompute from instalments (conditional, 3 tries) or from attempts (unconditional), receipts, confirmation | overlapping refreshes, lost refreshes, duplicate mails | one receipt for each time a collection succeeds, one confirmation, the status of its collections in the end |
| Documents `documents/document.service.ts` | documents, versions, numbers, negotiations | create, version, negotiate, convert, send, delete | check-then-write races, several links to one estimate, mails before the status | one lineage per number, an invoice has an accepted estimate, acceptance is final |
| Instalment plans `documents/instalment-plan.utils.ts` | none (pure) | dates and amounts of a plan | rounding, months without the day | amounts add up |
| Payment setup `documents/document.service.ts`, `GC/gocardless-provider.service.ts`, billing request handler | links, public access, flows, plan | send, retry, open the public page, create the schedule once authorised | two senders, clicks at once, expired flows, crashes between provider and row | one live flow, one schedule, a plan for what was delivered |
| Connection to GoCardless `GC/gocardless-oauth.service.ts`, `GC/gocardless-connection-health.service.ts` | account of a company (token, creditor, verification), states of OAuth, `isPaymentAccountConnected` | authorise, connect, check, verify, cut, check all every 15 min | a token replaced or revoked during a call made with it | what is stored is that of the token; only a refused token cuts; a revoked one is noticed |
| Bridge `Adapters/PaymentAdapters/bridge` | links, attempts | apply transaction events | no order, errors swallowed | as for GoCardless |
| Subscription `subscription`, `plan-access` | `UserSubscription`, `ProcessedStripeWebhookEvents` | checkout, upgrade, scheduled changes, sync from Stripe, quotas | stale reading written last, event processed twice | the row follows Stripe |
| Account closure `account-closure`, `companies` | `AccountClosure` with a 5-minute lease, status of companies | close, process, acknowledge; create, close, reactivate a company | late process over a completed one, a call replayed with its key, companies created meanwhile | COMPLETED is final and means the renewal is stopped; nothing active is left |
| Reminders `automatic-reminders-cron` | `ProcessedReminders` | select, mail, record | failure between mail and record, sweeps of two processes, answered meanwhile | one mail per reminder, unless a sweep stops or two overlap |
| Electronic invoicing `electronic-invoicing` | transmissions, reports, connection and tokens | submit, poll, declare, refresh tokens | lost answers, double declaration, concurrent refresh of a rotating token | nothing known is declared again, the token survives, what was accepted is followed |
| Archive `storage/s3-storage.service.ts`, `storage/factur-x-archive-migration.service.ts`, `electronic-invoicing/factur-x.service.ts`, `superpdp-incoming-invoices.service.ts` | objects under retention and their proofs in S3; the archive a document or a received invoice names | archive, make again, migrate, receive, announce | a stop between upload, proof and row; writers of one record that overlap; errors that are caught | what a row names is there, with its proof, once, and is kept; nothing received is forgotten |
| Users, auth, admin, notifications, mail, PDF, web applications | rows behind access checks, files, sessions | CRUD, formatting, I/O | none beyond the above | not modelled |

Interactions: the intake calls the handlers; the payment handler, the
reconciliation and the retry service write the same instalments and attempts and
all end in the invoice status service, which writes the invoice that the
document service also writes, sends mails and calls e-reporting. Sending an
invoice creates its link, its plan and its transmission. Closing an account acts
on companies and on the subscription that the Stripe webhooks mirror. There is no
shared memory and no queue: rows of the database are the only shared state, and
a conditional `updateMany` (or an `update` whose `where` no longer matches) the
only synchronisation.

## 2. Modules

| Module | Models | Kind |
|---|---|---|
| `EventInbox` | what the webhook endpoint promises | abstract specification |
| `WebhookClaims` | `gocardless-webhook.service.ts` | detailed specification, implements `EventInbox` |
| `WebhookClaimsProofs` | proofs about `WebhookClaims` | proofs |
| `PaymentRules` | pure decisions: status mapping, accepted transitions, what an event writes, status of an invoice | operators, used by the next two |
| `InstalmentSync` | one instalment, its payment at the provider, webhooks, reconciliation, retries | specification |
| `InstalmentSyncProofs` | proofs about `InstalmentSync` | proofs |
| `InvoiceSettlement` | the collections of one invoice, attempts included, and its status, receipts, marking by hand | specification |
| `DocumentLifecycle` | estimates and invoices of one company, answers of the client, reminders | specification |
| `DocumentLifecycleProofs` | proofs about `DocumentLifecycle` | proofs |
| `InstalmentSchedule` | amounts and dates of a plan | operators, used by the next one |
| `InstalmentSetup` | one invoice from its draft to its schedule at GoCardless | specification |
| `InstalmentSetupProofs` | proofs about `InstalmentSetup` and `InstalmentSchedule` | proofs |
| `Subscription` | the subscription at Stripe, its row, the requests and events between them | component, composed by the next one |
| `AccountClosure` | closing an account, with its companies and its `Subscription` | specification (composition) |
| `AccountClosureProofs` | proofs about `AccountClosure` and `Subscription` | proofs |
| `SuperPdpConnection` | authorisation and rotating tokens of SuperPDP | component, composed by the next one |
| `ElectronicInvoicing` | submissions and their follow-up over one `SuperPdpConnection` | specification (composition) |
| `ElectronicInvoicingProofs` | proofs about `ElectronicInvoicing` and `SuperPdpConnection` | proofs |
| `ElectronicArchive` | the archive in S3, the files of invoices sent and received | specification |
| `ElectronicArchiveProofs` | proofs about `ElectronicArchive` | proofs |
| `GoCardlessConnection` | the account of each company at GoCardless, its token and its checks | specification |
| `InvoiceAndConnectionProofs` | proofs about `InvoiceSettlement` and, apart, about `GoCardlessConnection` | proofs |
| `MC...` | the instances TLC checks | |

An action is one access to the database or to the provider, with the
computation that follows it up to the next access; the local variables of a
request that are used later are the fields of its record (`worker`, `hook`,
`rec`, `req`, `work`, `client`, `proc`, `task`, `check`), and `pc` says which access comes next. So a value read
by one action may be out of date in the next one, which is the point. A crash
forgets the record. Each record is reset to fixed values as soon as its fields
are not used any more, to keep the state space small.

### WebhookClaims

`row` is the table, at most one row per event (the unique key): `absent`,
`claimed` (completedAt is null) or `completed`, with claimedAt. `Receive` starts a
request (`redirectWebhookToHandler`); for each event of the delivery, in order:
`CreateClaim` (insert), or, on the unique-key error, `ReadClaim` and `StealClaim`;
`HandleEvent` (the handler returned; what it does is the matter of the other
modules); `CompleteEvent` (conditional on the claim); on an error
`ReleaseClaim` (the catch block); then `Answer`. `HandlerError`, `DatabaseError` and
`Crash` fail at any of these points. Time is a counter, the lease `Lease` ticks.
Two claims made in the same tick have the same stamp, as two claims made in the
same millisecond have: the lease separates the claims of one event, so the
fence holds nevertheless.

### InstalmentSync

The provider's payment (`pay`, and `log`, its events) moves on its own. `todo`
are the events no worker has completed; any idle worker may take any of them
(`ReceiveEvent`, which reads the provider first, `ReadInstalment`, `SyncInstalment`,
`CompleteEvent`). A worker whose conditional update matches nothing throws, and
the event stays in `todo`. `ReadPlan`, `FetchForPlan`, `ReconcileInstalment` read in
the other order and carry no event. `RequestRetry` to `ReleaseRejected` are the
retry service: reading, provider, history, the settlement of an earlier retry
(`reconcilePendingRetry`), the reservation, and the call, which the provider
accepts, refuses for good, or never answers. The clock stamps events and
reservations; the model assumes one clock for both, where the code compares
GoCardless's time with the server's.

### InvoiceSettlement

`mode` says whether the invoice is paid by a plan or at once. `col` are its
collections (instalments, or attempts), `payment` the one-time payments, `invoice`
the status of the document. A delivery reads the provider (`Receive`) and then the row (`ReadRow`), which may be
newer; a reconciliation (`Sweepers`) the row (`Sweeping`) and then the provider
(`FetchPayment`). Both write the row if unchanged (`SyncCollection`), and refresh the
invoice:
`ReadInvoice`, `ComputeFromInstalments`, `SwapInvoice` (conditional, `Tries`
times) for a plan; `ReadInvoice`, `ReadAttempts`, `WritePayment`, `ReadPayments`,
`WriteInvoice` (unconditional) for a one-time invoice; then `SendReceipt`,
`SendConfirmation`. Reconciliations recompute once more at the end; the sweep of a
plan is one collection at a time. `CheckMark` and `Mark` are the marking by hand. Receipts and confirmations
are counted as debts: a transition adds one, a mail takes one away.

### DocumentLifecycle

`doc` are the rows, numbered in the order of createdAt (the next number is that of
the document created last, plus one), `link` the negotiations, each with the
token of one mail. A user's request (`req`) creates (`StartCreate` reads the number,
`CreateDocument` inserts), converts (`StartConvert`, `ReadInvoiceNumber`,
`ConvertEstimateToInvoice`), makes a version (`StartVersion`,
`CreateNewDocumentVersion`) or sends (`SendEstimate`: negotiation and mail;
`MarkDocumentAsDelivered`). The unique key (company, number, version) and the foreign
keys of the schema are part of these actions: `Taken`, `SourceThere`, `Referenced`,
and the cascade of `Remove`. The client (`ReadNegociation`, `AnswerNegociation`) may
have read the negotiation before another answer was written: the transaction of
`setNegociationStatus` is read-committed. The cron of the reminders runs in each process
and takes no lock: `Sweeps` of them run at once. Each reads its candidates once
(`StartReminders`), and for each of them looks for a record (`CheckReminder`), creates a
negotiation and mails (`SendReminder`), then records (`MarkReminderAsSent`); where it
fails, the loop goes on with the next one, and where the process stops, the sweep is over
(`StopReminder`). A document with a recorded reminder is not deleted (the foreign key of
`ProcessedReminders` does not cascade: `Referenced`). `mass`, `accepted`,
`reminders`, `overlapped` (estimates that two sweeps had found not recorded at the same
time), `root` and `readAt` are history.

### InstalmentSchedule and InstalmentSetup

`InstalmentSchedule` is the pure file `instalment-plan.utils.ts`; a date is a month
and a day. `InstalmentSetup` follows one invoice. `link` are the billing requests of
GoCardless with their rows, `access` the link whose token opens the public page,
`plan` the instalment plan. A request that sends, retries or renews goes through
`CreateBillingRequest`, `SetAccess`, `CreateOneTimePayment`, `MailInvoice`, then
`MarkInvoiceAsDelivered` (which makes the plan) or `EndRetryInvoicePayment`. The client
opens the page (`OpenPaymentPage` takes the lock on the row of the access, as the
`FOR UPDATE` does, until the transaction ends), then `FindBillingRequest`,
`CreateFlow` (the idempotency key gives back the flow it gave before) and `SaveFlow`.
A delivery of the fulfilled event goes through `ReceiveFulfilled`, `FindMandate`,
`CreateInstalmentSchedule` (idempotent by key), `UpdateCreatedInstalmentPlan`,
`LinkPayments`, or refuses when the dates are past. The provider, the dates and
the payments of the invoice are the environment. The claims of the events are
those of `WebhookClaims`; here an event stays in `events` until it is completed,
and two deliveries of it may run at once, as after an old lease.

### Subscription and AccountClosure

`Subscription` has no specification of its own: its actions are interleaved with
those of `AccountClosure`, its property is `PlanFollowsStripe`. `stripe` is what Stripe
holds, `local` the row, `events` the notifications that are not marked as
processed; a delivery reads Stripe (`Retrieve`), then writes (`SyncSubscription`), then
marks or stops before it does. The requests call Stripe first and write the row
after. `AccountClosure` adds `company`, the row `closure` with its lease, and the
attempts `proc`: `Claim`, `CancelRenewal` and `ConfirmRenewal` (each may fail, and the
call that stops the renewal may be a replay of its idempotency key that changes
nothing), `Survey` of what is left, `Conclude`, `Fail`, `Finish`. What only a person
can verify is an action of `Reviews`, acknowledged by `AcknowledgeReview`. After the
closing a user begins nothing; what had begun goes on.

### SuperPdpConnection and ElectronicInvoicing

A token is the number of its rotation; `granted` is the one SuperPDP accepts,
`conn.refresh` the one that is stored; of the status of the connection only whether it is
ACTIVE is kept, which is what the job asks. `GetAccessToken` finds a fresh access token or
goes through `Refresh` (which SuperPDP may refuse, or answer in vain) and
`StoreTokens` or `RefreshFails`. `ElectronicInvoicing` adds the submissions: rows of
each key (a transmission and a payment have a unique key, a sale has none),
`StartSend`, `Create`, `Mark`, `Post` (accepted, accepted without an answer, refused),
`Save`, `WriteFailed` (the catch block), and the synchronisation of invoices, by a
request or by the job, which follows all of them at once. Each of these calls
gets a token first, so the tasks meet at the connection. The update of `Save` is inside the
try: when it fails the row becomes FAILED and its number is lost (`history` says
"blind", as after a lost answer). An update that is reported as failed is taken not to
have been made. `ExchangeCode` may come at any status of the connection: the code
checks the row of the state only.

### ElectronicArchive

`versions` and `evidence` are the bucket: of each record and content (the key of an
object is made of both) the number of versions and the one its proof names.
`archived` is what the row of a record names, `legacy` the bytes a document may still
have in the database. A writer (`work`) is a delivery to the client
(`StartDelivering`), a transmission (`StartSending`, which reads whether it is a repair,
and `MarkSubmitting`), the migration (`Migrate`) or the receiving of an invoice
(`StartReceiving`, `UpsertReceived`, `FetchOriginal`). `FindArchive` and `MakeFile` are
`archive`, `generate` and `regenerateForFailedB2BTransmission`; `HeadObject`, `PutObject`
and `StoreEvidence` are `archiveImmutableDocument`, `WriteArchive` the update of the row
that follows it, whoever called it. A call may fail before or after it had its effect,
which goes to `CatchError`, and a writer may stop at any point (`StopWriter`). An upload
whose answer is lost is sent again by the client of S3 itself, which the code creates with
its default retries (`storage/s3-storage.service.ts:53`): that makes another version,
and `past` says "resent". The update of the row in `SaveNumber` may fail, which
goes to the catch block too. Of the
transmission only the status and the number are kept, since they decide between
archive and repair; the rest is `ElectronicInvoicing`. That an invoice is delivered before
it is sent is not kept: invoices delivered before there was an archive may be sent.
`past` is history.

### GoCardlessConnection

A token is the number of its grant, `owner` its organisation, `revoked` the tokens
that GoCardless refuses. A callback goes through `FindState`, `ExchangeCode` and
`StoreAccount` (the transaction), then tries the new token as any check does:
`StartCheck` or `FindAccount` reads the account, `ListCreditors` calls with the token
that was read, `MarkDisconnected` cuts the connection, `UpdateAccount` and
`ConnectCompany` are the two writes of a verification. The job (`StartSweep`,
`SweepNext`) checks each company that is connected; an event of an organisation
(`StartHandling`, `HandlerCalls`) whose call is refused cuts a company of this
organisation (`FindDisconnected`: `providerAccountId` is not unique). A state that
expires, and a company that closes, are a callback that does not begin or a
transaction that fails. Whether GoCardless has verified a creditor does not change
during a behaviour. `mixed` is history.

## 3. Runs

All runs disable the deadlock check: the bounded provider, clock and fault
budgets let the system legitimately come to rest.

| Run | Bounds | Shows |
|---|---|---|
| `webhook_claims` | 2 requests, deliveries <e1,e2> and <e2>, lease 1, clock 2, 2 faults | FreshClaimsExclude, AckedIsCompleted, ClaimsAreFenced, ImplementsInbox (refinement of `EventInbox`), EveryDeliveryAcked |
| `instalment_sync` | 2 workers, 1 reconciliation, 3 events of the provider | AutomaticRetryIsOfFailure, Converges |
| `instalment_retries` | 1 worker, 2 retry requests, 4 events, 1 crash or lost call, limit of 1 resubmission | OneRetryAtATime, ReservationIsKept, LastEventKept |
| `invoice_and_connection` | 2 collections (one may be charged back), 2 workers, or 1 and a user, 2 tries, both modes; beside it, 2 companies, 2 organisations, 2 tokens, 2 states, 2 requests and the job, 2 at once | OneReceiptPerSuccess, OneConfirmationPerPayment; VerifiedIsOfAccount, OnlyRevokedIsCut, RevokedIsSeen |
| `invoice_convergence` | a plan of 2 collections (one may be charged back), 1 worker, 1 reconciliation, 1 crash; a one-time invoice without the crash | InvoiceConverges, of the plan |
| `document_lifecycle` | 2 links, 2 users, 2 clients, 2 at work at once: 3 documents beside one sweep and 2 reminders, or 2 documents and two sweeps, 3 reminders, 1 stopped | OneLineagePerNumber, InvoiceHasAcceptedEstimate, SecondInvoiceOnlyByOverlap, RemindedOncePerStop, AcceptanceIsFinal |
| `instalment_setup` | 2 links, 3 flows, 2 senders, 2 clients, 2 deliveries, 2 at work at once, 1 edition, 1 crash, totals 99 to 104 cents, dates around the ends of months | OneLiveFlow, OneSchedule, OpenableLinkHasPayment, PlanFromDelivery, DeliveredIsPayable, ScheduleIsExact, SettledBeforeDone |
| `account_closure` | 1 company, 1 subscription, 2 changes at Stripe, 1 request, 1 delivery, 2 attempts, 2 at work at once | PlanFollowsStripe, ClosedOwnsNothingActive, CompletedIsFinal, RenewalStopped |
| `electronic_invoicing` | 1 invoice, 1 sale, 1 payment (one of them submitted in a behaviour), 2 users and the job, 2 rotations, 2 accepted submissions, 2 tasks at once; beside it, 1 document and 1 received invoice, 2 files, 2 writers, 2 versions of an object | TypeOK, TokenSurvives, PostedAgainOnlyBlind, KnownIsFollowed; EvidenceUnlessInterrupted, OneRetainedVersion, ArchiveIsKept, ReceivedIsAccountedFor |
| `reservation_ends`, `manual_mark`, `success_shows` | small | violations, see section 6 |

Why the bounds are enough. Two requests are what every race here needs: one that
read, one that wrote meanwhile. A third would only wait. In `webhook_claims` the
shared event comes second in one delivery and alone in the other, so that a
request finds it claimed, completed, old or vanished; with a lease of one tick
and a clock of two, a claim is taken over, and taken over again. Three events let
a payment fail and be resubmitted, or be collected and charged back, with
every order of delivery; a fourth is needed for a retry that fails again, whence
the larger bound of `instalment_retries`. Two tries, rather than three, make the
refresh of a plan give up within two concurrent writes. The reconciliation of a
one-time invoice, which nothing repeats, is run in `invoice_convergence`; what it does to
receipts is in the proofs only. Receipts and
confirmations are not bounded; the counters stay small because the provider is.

In `document_lifecycle` three documents are an estimate with either two invoices, two
versions, or two further estimates (which is what mixes numbers), and two links are
what an accepted estimate needs to be answered again. Two sweeps are what sends one
reminder twice with nothing stopped, and three mails are the most one estimate may get
from them with one stop. In `instalment_setup` two
links are a draft that is sent twice, retried or renewed, and three flows let the
known flow and the one the key gives back both expire; the totals cover every
remainder for two and three instalments twice, the dates the last days of a month
before a shorter one and the end of a year. In `account_closure` two changes at
Stripe are the one that stops the renewal and one that competes with it, and two
attempts are the one whose lease gets old and the one that takes over. One
subscription is enough there because the row names only one: a second one is a user
who paid two sessions, which `PlanFollowsStripe` leaves out. In
`electronic_invoicing` submissions of different keys meet only at the connection,
where a synchronisation or a verification already meets them: one key is submitted
in a behaviour, of each of the three kinds. Two rotations are a refresh and the
use of a token it has replaced. Beside the submissions, the run checks the archive:
the two have no row in common in the model, and a behaviour is of one of them, or of the
issued or the received half of the archive. Two writers are what meets on a record, two
files what one replaces by the other, and the second version of an object what must not
exist unless an upload was sent again or two archivings overlapped. The users and the
files are interchangeable, and are symmetric. The types of the other modules that have a
proof are proved and not checked again. `invoice_and_connection` checks two systems that have
no row in common: a behaviour belongs to one of them, the other stays at its initial
state, and the fairness is that of the connection only. There one company may be
connected twice, to either organisation; another company has none, or is connected
to one of them from the start. `MaxBusy` bounds what is under way at once; each
race described here is between two.

## 4. Fairness

- A request that has begun goes on (weak fairness of its next step): Node does
  not abandon a pending promise; crashes are separate actions, not fair, and
  bounded.
- The provider sends what was not answered 200, and an event that no worker
  completed, again (weak fairness of the delivery): GoCardless retries webhooks.
  This is an assumption on the provider: it gives up after several days.
- Time passes (`Tick`).
- A plan is reconciled again and again (the cron of the reconciliation service):
  weak fairness in `InstalmentSync`, strong in `InvoiceSettlement`, where one
  sweeper serves several collections. Nothing of the kind is assumed for
  one-time invoices, which are only reconciled when a user asks.
- In `GoCardlessConnection` the job begins again and again (strong fairness, since
  `MaxBusy` may hold it back), and an outage does not last for ever: the call of the
  job for a company is answered at some time (strong fairness of `ListCreditors`).
- Nothing is assumed of the provider's own moves nor of users.
- `document_lifecycle`, `instalment_setup`, `account_closure` and
  `electronic_invoicing` check safety only, and their specifications assume no
  fairness. What must eventually happen there (a closure that completes, an invoice
  that is followed) depends on people and providers of whom the code assumes
  nothing: section 6 names three states that nothing leaves.

## 5. Proofs

`WebhookClaimsProofs` proves, for every finite or infinite set of workers, events
and deliveries, every batch and every lease of at least one tick
(`ClaimsAssumption`): `TypeCorrect`, `FreshClaimsExcluded`, `AckedCompleted` and
`FencedClaims` (`ClaimsAreFenced`, an action property).

None of the safety invariants is inductive alone. The inductive invariant `IInv`
is the conjunction of TypeOK with

- `AllPlaced`: a request with a delivery is at a position inside its batch
  (`Current` makes sense), with a stamp that is not in the future;
- `PassedIsCompleted`: as long as a request saw no failure, every event it has
  passed is completed, which gives `AckedIsCompleted` at `Answer`;
- `SeenIsOld`: a request about to take over a claim read one that is old, and
  stays old;
- `FreshClaimInTable`: a request whose claim is still fresh finds it in the
  table. Only this makes exclusion inductive: whoever creates or takes over a
  claim meets the row of the fresh holder and fails, because a fresh claim is
  in the row and an old one is not fresh;
- `FreshClaimsExclude` and `AckedIsCompleted` themselves.

Completed rows never change again (`row` is written only from `absent` or
`claimed`), which is what keeps `PassedIsCompleted` and `AckedIsCompleted`. The
proof has one lemma per family of steps (the clock, one worker's step on one
row), then `Inductive`; `ClaimsAreFenced` follows from the invariant and the step.

`InboxImplemented` (`ImplementsInbox`) shows that `WebhookClaims` implements `EventInbox`
as far as safety goes, with the completed rows as `done`: the handler's step is `Handle`,
the completion of a row is `Settle`, the answer 200 is `Acknowledge`, and every other
step stutters. It needs one more invariant, `HandledFirst`: who is about to complete an
event has handled it, and every completed event was handled.

`InstalmentSyncProofs` proves, for any requests, workers and bounds: `TypeCorrect`,
`AutomaticRetryOfFailure`, `LastEventIsKept`, `ReservationKept` and `OneRetry`. The
invariant `Shape` adds to TypeOK that the provider's log is ordered by time
(`LogOrdered`) and that every request that is under way holds an event of that log, not
newer than its end (`Placed`). One lemma says what every write of the row keeps
(`KeepsRow`); each step of a worker, a sweep or a request is shown to satisfy it, and the
two action properties are read off it. `OneRetry` needs `OneReserved`: as long as the
provider took nothing back, whoever is about to call finds its own reservation in
the row, and nothing that was said since can end it.

`InvoiceAndConnectionProofs` proves `TypeCorrect`, `OneReceipt` and `OneConfirmation` of
`InvoiceSettlement`.
The two properties say that a debt never becomes negative; what makes them inductive
is that the debt is at least the number of those who are about to pay it: `Counted`
(`Winners(c)`, the requests that won the write of a collection and did not mail
yet) and `Told` (`Tellers`, those that swapped the status to PAID). Workers, sweepers
and users are any finite sets: the proof adds and removes one element of a finite set
at each step.

Its second half is about `GoCardlessConnection`, which shares no row with the first: it
proves `VerifiedAlwaysOfAccount` and `OnlyRevokedCut`, for any companies, organisations,
requests and jobs. The invariant `AccountInv` says what each request knows that still
holds (`Sound`): the token it tries was given, the one it cuts with was refused, and a
verification has the token of the account unless a reconnection overlapped it; and that
the token of an account was given, so that a new grant changes the organisation of none.

`DocumentLifecycleProofs` proves all that `document_lifecycle` checks, for any requests and
clients, any number of concurrent sweeps, any types created and any bounds:
`NumberIsOneLineage`, `InvoiceShowsOrigin`,
`SecondInvoiceOverlaps`, `RemindersAreBounded` and `AcceptedIsFinal`. What a step does to the
rows is one of three things (`RowStep`): they stay the documents they are (`Keep`), one is
made (`Make`: a first version, or the next one of an estimate that is no draft), or some
are gone (`Gone`). The invariant `IInv` is `Shape` (types, what is there was created, and
what each request has read that still holds when it writes, `Sound`) with

- `KeyIsUnique`: the unique key of the schema, and that a new version is greater than all
  of its number (`GreatestIs`, `NextIs`);
- `RootStays`: while only drafts are deleted, the first version of every document is there
  under its number, and is no draft once it has another version. This is what makes
  `OneLineagePerNumber` inductive: a number that was computed from an older row is refused by
  the key of the first version, which could not be deleted. Two documents of one
  number have first versions with one key;
- `InvoiceHasAcceptedEstimate` and `SecondInvoiceOnlyByOverlap`, which are inductive with
  `Sound`: a conversion that was begun has an accepted estimate, if it is still there, and
  every invoice made of it since is later than the reading;
- `AcceptedByLink`: an accepted estimate has a negotiation that says so. A later answer
  comes from another one, or read this one before it was used (`AcceptedIsFinal`);
- `MailsCounted`: while an estimate has no record, each of its mails was stopped or is
  being recorded by a sweep; once it has one, the mails sent and the sweeps that are still
  to mail it, which had looked before the record, are together at most the stops and one,
  or one per sweep when two had looked together (`overlapped`). The steps of the sweeps are
  counted by `AtMoves`: the one that moves leaves one set and enters another.

`AccountClosureProofs` proves `TypeCorrect`, `ClosedOwnsNothing`, `CompletedFinal`,
`RenewalIsStopped` and `PlanIsStripes` of the composition of the closing and the subscription. Its
invariants are `Shape` (types, and that an attempt exists only once the account is
closed), `NothingLeft` (a company that is still active after the closing is one an
exception of the property names), `LeaseHeld` (as long as no lease got old, at most one
attempt is under way, and a completed closure has none), `NamesExist` (the
subscription the row or a request names has been created) and `RenewalSeen` (an
attempt that has confirmed the renewal is stopped saw it in what Stripe holds, and only
the named exceptions turn it on again).
`PlanIsStripes` (`PlanFollowsStripe`) speaks of a state without events only; `Synchronised`
makes it inductive: with one delivery at a time and one subscription, a state that is about
to be written is that of Stripe now, or the event of a later change waits, which is not
the one the delivery will mark. This is where reading the subscription again
(`Retrieved`), and not the event, counts.

`InstalmentSetupProofs` proves all that `instalment_setup` checks, for any requests,
clients, workers and bounds: `FlowIsOne`, `ScheduleIsOne`, `PaymentIsKnown`,
`PlanIsFromDelivery`, `PlanIsPayable`, `PlanIsExact` and `MandateIsSettled`. It assumes
what the code has (`SetupAssumption`): totals are natural numbers of cents, first dates
are days of the calendar, and no client's request is the absence of one. The invariant
`IInv` is TypeOK with

- `LinksExist` and `LockHeld`: the links that are in use were made, and the client's
  request under way is the one that holds the row of the access;
- `FlowsInOrder`: only the last flow that was made may be live, and the row of the
  link names it or an earlier one. A request that asks for a flow has seen that the one of
  the row is dead; the idempotency key is made of it, so that the provider either
  answers the flow it made for that key or makes the next one. `FlowIsOne` follows;
- `PaymentBeforeMail`: what `PaymentIsKnown` says, of the links of the past too;
- `NothingBeforePlan`, `PlanIsFollowed` and `StatusFollows`: before the plan nobody was given
  a flow; every schedule and every delivery under way is of the link of the plan, and a plan
  without schedule leaves the invoice PENDING, so that a second sending finds no
  way to replace it. They carry `ScheduleIsOne`, `PlanIsFromDelivery` and
  `MandateIsSettled`, which are inductive with them;
- `SendersKnow` and `OneSender`: what a request that sends has read still holds, and
  as long as no two overlapped the access is of its link: this gives `PlanIsPayable`.

`AmountsAddUp`, `AmountsDescend` and `DatesFollow` say of the pure part what `PlanIsExact`
needs, for every total, number of instalments and date of the calendar, where the run has
six totals and the ends of months.

`ElectronicInvoicingProofs` proves all that `electronic_invoicing` checks, for any users,
invoices, sales and payments, any number of rotations and submissions: `TypeCorrect`,
`TokenNeverCost`, `SubmittedOnce` and `KnownAlwaysFollowed`. `Shape` is the type
invariant with what a task holds at each point (`Holds`): a row that exists, a token that
was given, and that who is inside the try block is submitting. `TokenKept` makes the
token's property inductive: as long as none was lost, at most one token is being
stored, it is the last one, and whoever is about to refresh has one that is not newer than
the stored one; two tasks that refresh the same token can then not both be accepted.
`Followed` does it for the submissions, key by key: unless two overlapped, one task
submits a key, whose row has no number yet (`Alone`), and unless an answer or the
update of the row was lost besides, what was posted is about to be saved or has its number (`Once`). A status that was
read as FAILED must be accounted for too (`SeenFailed`), since a synchronisation may write
it back after the row has changed.

`ElectronicArchiveProofs` proves all that `electronic_invoicing` checks of the archive, for
any documents, received invoices, files, writers and versions: `TypeCorrect`, `OneVersion`,
`EvidenceIsThere`, `ArchiveNeverLost` and `ReceivedAccounted`. `Shape` has the types and what a
writer holds at each point; `Exclusive` says that a record no two writers overlapped
on has one at most, so that the others lose nothing when it writes (`OthersUpload`,
`OthersKeep`). `Objects` is about the bucket: who is about to upload found nothing or has
sent it again, the version a row or a writer names is the last one, and the last one
has its proof or a writer that owes it (`Proved`). `Kept` says what a writer knows
of the row it is about to write, and that a number is lost only with its answer or with
the update of the row (`Answered`). `Accounted` says who will still announce a received invoice, and who
will archive it or leave its error.

Only model-checked: the liveness properties (`EveryDeliveryAcked`, `Converges`,
`RevokedIsSeen`, `InvoiceConverges`), whose fairness is out of the prover's reach with
ENABLED. Every invariant and every action property of the passing runs is a theorem.

## 6. Where the code and its documentation disagree

- `reservation_ends` (`GC/gocardless-instalment-retry.service.ts:148`): a
  reconciliation between the reservation and the provider's refusal writes FAILED
  over PAYMENT_IN_PROGRESS, and the refusal then releases nothing. No later event
  is newer than the reservation: the user can never retry this instalment again.
  A call that is lost before it reaches the provider has the same effect, by
  design (comment at 162); the refusal is not meant to.
- `manual_mark` (`documents/document.service.ts:2593`): the check that the invoice
  is pending is outside the transaction that writes, and the write is
  unconditional: a collected invoice becomes PAID_MANUALLY.
- `success_shows` (`gocardless-payment-webhook.handler.ts:408`): a one-time
  invoice stays unpaid when the request stops between the attempt and the
  invoice, because the event that comes again finds the attempt up to date and
  returns before the refresh. Two overlapping refreshes can have the same effect,
  the writes being unconditional.

More behaviours seen while modelling, and forbidden by no run. The refresh
of a plan compares the status of the invoice, not the instalments it was computed
from: a refresh that read an instalment as paid, overtaken by the chargeback of
that instalment whose own refresh finds the status unchanged, still writes
PARTIALLY_PAID; only the next reconciliation corrects it, and without the fairness
of the sweeps TLC refutes `InvoiceConverges` in this way. A late event
whose reading was taken before a chargeback turns the instalment back to SUCCESS
(and sends a second receipt: `OneReceiptPerSuccess` counts by transition, and
`invoice_and_connection` reaches it) until the next reconciliation; and one whose reading
was taken before a failure clears `automaticRetryScheduled`, which nothing sets
again. A retry whose settlement reads a history older than a resubmission it does not know
can take `lastProviderEventAt` back to the outcome of the former one
(`GC/gocardless-instalment-retry.service.ts:460`). It takes seven events of the provider,
beyond the bounds of the runs, and was found while proving; `LastEventKept` says
what remains true.

Those of the documents, of the setup, of the closure and of SuperPDP are the
exceptions their properties name; each is needed, TLC refutes the property without
it.

- Two conversions of one estimate that overlap both create an invoice
  (`documents/document.service.ts:455`; `SecondInvoiceOnlyByOverlap`), and an
  estimate accepted through one link can be rejected through another, or become
  SENT when the sending is recorded after the answer (`:2340`; `AcceptanceIsFinal`).
- The cron of the reminders runs in every process without a lock
  (`automatic-reminders-cron.service.ts:13`), and the unique key of the record is met only
  after the mail (`automatic-reminders.service.ts:195`): two sweeps that overlap mail the
  same reminder, each with a link of its own (`RemindedOncePerStop`).
- Deleting documents that are no drafts (`massDeleteDocuments`) gives their numbers
  to others (`OneLineagePerNumber`).
- Two overlapping sendings of an invoice leave a public page that leads to a
  billing request the plan does not wait for (`DeliveredIsPayable`). An invoice
  that does not come from an estimate can be edited after it was sent
  (`updateDraftDocument`, `:192` checks the others only), which deletes its plan
  and its link with the schedule that GoCardless collects (`PlanFromDelivery`,
  `OneSchedule`).
- When a flow was created and its saving failed, the next calls get the same flow
  for the same idempotency key; once it has expired, every call fails, and the
  client cannot sign any more (`GC/gocardless-provider.service.ts:592`).
- Of an event of the mandate handled twice at once, one may find the dates past when
  the other has created the schedule: the plan then has a schedule and the reason
  why it has none (billing request handler, `:176`).
- Two overlapping synchronisations write the older state of the subscription last,
  and a user who pays two sessions has two subscriptions, of which the row names one
  (`PlanFollowsStripe`). A plan that is to become FREE and is cancelled at Stripe
  before the row is written stays pending, and a pending FREE refuses every new
  checkout.
- A closure attempt whose lease got old writes over a completed one
  (`CompletedIsFinal`); the change of plan an administrator cancels after the
  closing turns the renewal on again, and the next attempt replays the idempotency
  key (`RenewalStopped`); a reactivation that had read its company before the
  closing makes it active (`ClosedOwnsNothingActive`). Closing suspends the
  connection to SuperPDP, and the job only follows invoices of active connections:
  the transmissions whose settlement the procedure waits for are not followed any
  more.
- A company that is connected again while a check of its former token is under way is
  cut when that check is refused, and has to be connected once more; so may be another
  company of the same organisation (`OnlyRevokedIsCut`). A verification that overlaps
  a reconnection writes the creditor and the status of the former organisation over
  the new account (`VerifiedIsOfAccount`,
  `GC/gocardless-oauth.service.ts:420`). The job counts a disconnection only when the
  exception it catches looks like a refused token, and the one it gets never does
  (its message is in French and its status is `upstreamStatusCode`): `disconnected` is
  always 0, and the warning of the health service is never written.
- The upload of an object and its proof are two calls: when the first is answered and
  the second is not made, the next archiving finds the object and names a proof
  that nothing writes any more (`storage/s3-storage.service.ts:163`), and no version of
  it (`EvidenceUnlessInterrupted`). Two archivings of one file that overlap retain
  it twice, and so does one whose upload the client of S3 sends again after a lost answer
  (`:53`), where a comment (`:160`) says that retries are safe (`OneRetainedVersion`).
- The row of a document is made to name the file that was archived last
  (`electronic-invoicing/factur-x.service.ts:275`): when a delivery, a repair or the
  migration overlap, one replaces the archive of the other (`ArchiveIsKept`). Two
  synchronisations that receive an invoice at once may leave an error beside its archive,
  and one that stops after the row was written announces it no more
  (`ReceivedIsAccountedFor`, `superpdp-incoming-invoices.service.ts:283`). Of more than a
  hundred invoices only the first page is read, `has_after` notwithstanding (`:49`).
- An invoice whose submission was accepted but whose answer was lost, or whose row could not
  be updated, is submitted again: the update is inside the try
  (`electronic-invoicing/superpdp-b2b.service.ts:166`, and
  `superpdp-ereporting.service.ts:132` for a declaration), so its failure marks as FAILED
  what was accepted (`PostedAgainOnlyBlind`). Its technical archive is made anew, where a
  comment says it is immutable once SuperPDP has the invoice
  (`electronic-invoicing/factur-x.service.ts:165`). Removing the client's address marks
  as FAILED an invoice SuperPDP holds, which is then not followed
  (`KnownIsFollowed`).

## 7. What is left

Not modelled, and worth modelling next:

1. the remaining handlers of GoCardless: mandates, schedules, the billing request
   that fails (`markPaymentAsFailed`), the binding of an unknown payment to an
   instalment; the lease and the backoff of the reconciliation;
2. invitations with a plan, unpaid invoices and coupons of the subscription.

Not modelled, and not planned: users and authentication, administration,
notifications and mail, the making of PDF and Factur-X, the directory of SuperPDP, and
the web applications (half of the repository), which keep no state whose interleavings
matter, or only format it; and Bridge, whose payments are not created any more
(`bridge-provider.service.ts:135` is commented out), so that its handlers find none.
