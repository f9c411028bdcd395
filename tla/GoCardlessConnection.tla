------------------------ MODULE GoCardlessConnection ------------------------
(***************************************************************************)
(* The account at GoCardless of each company: its authorisation, the token *)
(* that is stored, its verification, and what notices that the token was   *)
(* revoked (GoCardlessOAuthService, GoCardlessConnectionHealthService).    *)
(*                                                                         *)
(* A token is the number of its grant; the organisation of an account is   *)
(* that of its token, for both are written together.  A creditor is named  *)
(* by its organisation.  Several companies may have the same organisation. *)
(* Between the reading of an account and the write that rests on it there  *)
(* is a call to GoCardless, and nothing compares the token again.          *)
(***************************************************************************)
EXTENDS Naturals, FiniteSets

CONSTANTS
    Companies,
    Organisations,  \* merchants at GoCardless
    Approved,       \* those whose creditor GoCardless has verified
    Merchants,      \* the organisations the users of a company may authorise
    Before,         \* a company, with its organisation, that may be connected
    Tasks,          \* requests: callbacks, verifications, checks, webhooks
    Jobs,           \* the jobs that check every connection, every 15 minutes
    MaxTokens,      \* bound on the tokens GoCardless gives
    MaxStates,      \* bound on the authorisations that are asked for
    MaxBusy         \* bound on the tasks and jobs under way at once

\* Where a name is expected: nobody.
Nobody == "nobody"

ASSUME AccountAssumption ==
    /\ Nobody \notin Companies \cup Organisations
    /\ Tasks \cap Jobs = {}
    /\ Merchants \in [Companies -> SUBSET Organisations]
    /\ \A b \in Before : \/ b.company = Nobody
                         \/ /\ b.company \in Companies
                            /\ b.organisation \in Organisations
                            /\ MaxTokens # 0
    /\ MaxTokens \in Nat
    /\ MaxStates \in Nat
    /\ MaxBusy \in Nat

VARIABLES
    connected, \* isPaymentAccountConnected, by company
    account,   \* rows CompanyPaymentAccount; token 0: there is none
    state,     \* rows CompanyPaymentOAuthState
    owner,     \* organisation of each token that was given
    revoked,   \* tokens GoCardless does not accept any more
    check,     \* local state of the tasks and of the jobs
    mixed      \* history: companies reconnected during a verification

atGoCardless == <<owner, revoked>>
accountRows == <<connected, account, state>>
accountVars == <<accountRows, atGoCardless, check, mixed>>

Tokens == 1..MaxTokens
States == 1..MaxStates
Checkers == Tasks \cup Jobs

\* verify: the status is to be written; org: whose event is being handled;
\* ok: the creditor that was read is verified; todo: what a job has to check.
NoCheck == [pc |-> "idle", company |-> Nobody, token |-> 0, state |-> 0,
            verify |-> FALSE, org |-> Nobody, ok |-> FALSE, todo |-> {}]

NoAccount == [token |-> 0, creditor |-> Nobody, verified |-> FALSE]

\* One company may be connected already, with the first token.
AccountInit ==
    /\ \E b \in Before :
         /\ connected = [c \in Companies |-> c = b.company]
         /\ account = [c \in Companies |->
                        IF c = b.company THEN [NoAccount EXCEPT !.token = 1] ELSE NoAccount]
         /\ owner = [k \in Tokens |->
                      IF k = 1 /\ b.company \in Companies THEN b.organisation ELSE Nobody]
    /\ state = [s \in States |-> [status |-> "new", company |-> Nobody]]
    /\ revoked = {}
    /\ check = [t \in Checkers |-> NoCheck]
    /\ mixed = {}

Free(t) == check[t].pc = "idle"

MayBegin(t) ==
    /\ Free(t)
    /\ Cardinality({u \in Checkers : ~Free(u)}) < MaxBusy

Given == {k \in Tokens : owner[k] # Nobody}

\* The organisation of the account of c.
OrganisationOf(c) == owner[account[c].token]

\* A task ends; a job goes on with the next company, whatever went wrong.
Ended(t) == IF t \in Jobs THEN [NoCheck EXCEPT !.pc = "next", !.todo = check[t].todo]
            ELSE NoCheck

Ends(t) == check' = [check EXCEPT ![t] = Ended(t)]

-----------------------------------------------------------------------------
(***************************************************************************)
(* buildAuthorizationUrl and connectCompanyWithGoCardless                  *)
(***************************************************************************)

BuildAuthorizationUrl(c, s) ==
    /\ Merchants[c] # {}
    /\ state[s].status = "new"
    /\ \A r \in States : r < s => state[r].status # "new"
    /\ state' = [state EXCEPT ![s] = [status |-> "open", company |-> c]]
    /\ UNCHANGED <<connected, account, atGoCardless, check, mixed>>

\* The callback: the state is known.  No callback begins any more with a
\* state that has expired, or for a company that was closed.
FindState(t, s) ==
    /\ MayBegin(t)
    /\ state[s].status = "open"
    /\ check' = [check EXCEPT ![t] = [NoCheck EXCEPT !.pc = "exchange", !.state = s,
                                                     !.company = state[s].company]]
    /\ UNCHANGED <<accountRows, atGoCardless, mixed>>

\* The code stands for the organisation the user chose; the exchange may fail.
ExchangeCode(t, o) ==
    /\ check[t].pc = "exchange"
    /\ o \in Merchants[check[t].company]
    /\ \/ /\ \E k \in Tokens :
               /\ k \notin Given
               /\ \A j \in Tokens : j < k => j \in Given
               /\ owner' = [owner EXCEPT ![k] = o]
               /\ check' = [check EXCEPT ![t].pc = "store", ![t].token = k]
          /\ UNCHANGED revoked
       \/ Ends(t) /\ UNCHANGED atGoCardless
    /\ UNCHANGED <<accountRows, mixed>>

\* Verifications of the account of c that have read it.
Verifying(c) ==
    {t \in Checkers : /\ check[t].company = c
                      /\ check[t].verify
                      /\ check[t].pc \in {"list", "update"}}

\* A mutant: the account keeps its creditor and its status.
ConnectedAccountKept(c, k) == [account[c] EXCEPT !.token = k]

\* The upsert of the account: a new token has to be verified again.
ConnectedAccount(c, k) == [NoAccount EXCEPT !.token = k]

\* One transaction; the new token is tried next.  The transaction fails when
\* the state is gone, or the company was closed meanwhile (AccountClosure).
StoreAccount(t) ==
    LET c == check[t].company
        s == check[t].state IN
    /\ check[t].pc = "store"
    /\ \/ /\ state[s].status = "open"
          /\ account' = [account EXCEPT ![c] = ConnectedAccount(c, check[t].token)]
          /\ state' = [state EXCEPT ![s].status = "used"]
          /\ connected' = [connected EXCEPT ![c] = TRUE]
          /\ mixed' = IF Verifying(c) = {} THEN mixed ELSE mixed \cup {c}
          /\ check' = [check EXCEPT ![t] = [NoCheck EXCEPT !.pc = "find", !.company = c]]
       \/ Ends(t) /\ UNCHANGED <<accountRows, mixed>>
    /\ UNCHANGED atGoCardless

-----------------------------------------------------------------------------
(***************************************************************************)
(* assertCompanyAccessActive, verifyCompanyPaymentAccountStatus            *)
(***************************************************************************)

\* The token of the account of c, if there is one, is going to be tried.
Reading(t, c) ==
    IF account[c].token = 0 THEN Ended(t)
    ELSE [check[t] EXCEPT !.pc = "list", !.company = c, !.token = account[c].token]

\* A payment link is about to be created, or a user asks for the status.
StartCheck(t, c, verify) ==
    /\ MayBegin(t)
    /\ account[c].token # 0
    /\ check' = [check EXCEPT ![t] = [Reading(t, c) EXCEPT !.verify = verify]]
    /\ UNCHANGED <<accountRows, atGoCardless, mixed>>

\* The account that was connected is read again, with the token it has now.
FindAccount(t) ==
    /\ check[t].pc = "find"
    /\ check' = [check EXCEPT ![t] = Reading(t, check[t].company)]
    /\ UNCHANGED <<accountRows, atGoCardless, mixed>>

\* A mutant: only a verification knows a revoked token.
InactiveIsOutage(t) == check[t].token \in revoked /\ check[t].verify

\* isInactiveAccessTokenError
Inactive(t) == check[t].token \in revoked

\* creditors.list: the token is refused, or the creditor is read.
ListCreditors(t) ==
    /\ check[t].pc = "list"
    /\ IF Inactive(t)
       THEN check' = [check EXCEPT ![t].pc = "mark"]
       ELSE IF check[t].verify
       THEN check' = [check EXCEPT ![t].pc = "update",
                                   ![t].ok = owner[check[t].token] \in Approved]
       ELSE Ends(t)
    /\ UNCHANGED <<accountRows, atGoCardless, mixed>>

\* A mutant: any error cuts the connection.
AfterOutageCut(t) == [check[t] EXCEPT !.pc = "mark"]

\* What an outage leaves to do.
AfterOutage(t) == Ended(t)

\* Any other error, or no creditor.
GoCardlessUnavailable(t) ==
    /\ check[t].pc \in {"list", "call"}
    /\ check' = [check EXCEPT ![t] = AfterOutage(t)]
    /\ UNCHANGED <<accountRows, atGoCardless, mixed>>

\* markCompanyPaymentAccountDisconnected: both rows, whatever they have become.
MarkDisconnected(t) ==
    LET c == check[t].company IN
    /\ check[t].pc = "mark"
    /\ connected' = [connected EXCEPT ![c] = FALSE]
    /\ account' = [account EXCEPT ![c].verified = FALSE]
    /\ Ends(t)
    /\ UNCHANGED <<state, atGoCardless, mixed>>

\* What was read is written to the account, then the company is connected.
UpdateAccount(t) ==
    LET c == check[t].company IN
    /\ check[t].pc = "update"
    /\ account' = [account EXCEPT ![c].creditor = owner[check[t].token],
                                  ![c].verified = check[t].ok]
    /\ check' = [check EXCEPT ![t] = [NoCheck EXCEPT !.pc = "connect", !.company = c]]
    /\ UNCHANGED <<connected, state, atGoCardless, mixed>>

ConnectCompany(t) ==
    /\ check[t].pc = "connect"
    /\ connected' = [connected EXCEPT ![check[t].company] = TRUE]
    /\ Ends(t)
    /\ UNCHANGED <<account, state, atGoCardless, mixed>>

-----------------------------------------------------------------------------
(***************************************************************************)
(* validateAllActiveCompanyAccounts, and the event of an organisation that *)
(* cannot be handled because the token is refused                          *)
(***************************************************************************)

StartSweep(j) ==
    /\ MayBegin(j)
    /\ check' = [check EXCEPT ![j] = [NoCheck EXCEPT !.pc = "next",
           !.todo = {c \in Companies : account[c].token # 0 /\ connected[c]}]]
    /\ UNCHANGED <<accountRows, atGoCardless, mixed>>

SweepNext(j) ==
    /\ check[j].pc = "next"
    /\ IF check[j].todo = {}
       THEN check' = [check EXCEPT ![j] = NoCheck]
       ELSE \E c \in check[j].todo :
              check' = [check EXCEPT ![j] =
                [Reading(j, c) EXCEPT !.todo = check[j].todo \ {c}]]
    /\ UNCHANGED <<accountRows, atGoCardless, mixed>>

\* The accounts of an organisation: its id is not unique, any is found.
AccountsOf(o) == {c \in Companies : account[c].token # 0 /\ OrganisationOf(c) = o}

\* getClientForProviderAccount
StartHandling(t, c) ==
    /\ MayBegin(t)
    /\ account[c].token # 0
    /\ check' = [check EXCEPT ![t] = [NoCheck EXCEPT !.pc = "call",
                                                     !.org = OrganisationOf(c),
                                                     !.token = account[c].token]]
    /\ UNCHANGED <<accountRows, atGoCardless, mixed>>

\* The handler calls GoCardless.
HandlerCalls(t) ==
    /\ check[t].pc = "call"
    /\ check' = [check EXCEPT ![t] = IF Inactive(t) THEN [@ EXCEPT !.pc = "which"]
                                     ELSE Ended(t)]
    /\ UNCHANGED <<accountRows, atGoCardless, mixed>>

\* markProviderAccountDisconnected: an account of the organisation is found.
FindDisconnected(t) ==
    LET found == AccountsOf(check[t].org) IN
    /\ check[t].pc = "which"
    /\ \/ \E c \in found :
            check' = [check EXCEPT ![t].pc = "mark", ![t].company = c, ![t].org = Nobody]
       \/ found = {} /\ Ends(t)
    /\ UNCHANGED <<accountRows, atGoCardless, mixed>>

-----------------------------------------------------------------------------
(***************************************************************************)
(* GoCardless, and what the connections do                                 *)
(***************************************************************************)

RevokeToken(k) ==
    /\ k \in Given \ revoked
    /\ revoked' = revoked \cup {k}
    /\ UNCHANGED <<accountRows, owner, check, mixed>>

CheckSteps(t) ==
    \/ \E o \in Organisations : ExchangeCode(t, o)
    \/ StoreAccount(t)
    \/ FindAccount(t)
    \/ ListCreditors(t)
    \/ GoCardlessUnavailable(t)
    \/ MarkDisconnected(t)
    \/ UpdateAccount(t)
    \/ ConnectCompany(t)
    \/ SweepNext(t)
    \/ HandlerCalls(t)
    \/ FindDisconnected(t)

TaskBegins(t) ==
    \/ \E s \in States : FindState(t, s)
    \/ \E c \in Companies : \/ \E verify \in BOOLEAN : StartCheck(t, c, verify)
                            \/ StartHandling(t, c)

AccountNext ==
    \/ \E c \in Companies, s \in States : BuildAuthorizationUrl(c, s)
    \/ \E t \in Tasks : TaskBegins(t)
    \/ \E j \in Jobs : StartSweep(j)
    \/ \E t \in Checkers : CheckSteps(t)
    \/ \E k \in Tokens : RevokeToken(k)

\* A request that has begun goes on; the job runs every 15 minutes (in
\* spite of MaxBusy), and the account of a company is not always tried during
\* an outage.
AccountFairness ==
    /\ \A t \in Checkers : WF_accountVars(CheckSteps(t))
    /\ \A j \in Jobs :
         /\ SF_accountVars(StartSweep(j))
         /\ \A c \in Companies :
              SF_accountVars(check[j].company = c /\ ListCreditors(j))

AccountSpec == AccountInit /\ [][AccountNext]_accountVars /\ AccountFairness

-----------------------------------------------------------------------------
(***************************************************************************)
(* Properties                                                              *)
(***************************************************************************)

\* The creditor and the status of an account are those of the organisation
\* whose token is stored, on which the sending of documents relies: a
\* reconnection forgets them, unless a verification of the former account is
\* under way (the end of verifyCompanyPaymentAccountStatus writes what it read).
VerifiedIsOfAccount ==
    \A c \in Companies :
        account[c].token # 0 /\ c \notin mixed =>
            /\ account[c].creditor \in {Nobody, OrganisationOf(c)}
            /\ account[c].verified => OrganisationOf(c) \in Approved

\* A connection whose token is accepted is cut only by a request that tried
\* another one: the token the company had before it was connected again, or
\* that of a company with the same organisation.  No outage cuts it.
OnlyRevokedIsCut ==
    [][\A c \in Companies :
          /\ connected[c] /\ ~connected'[c]
          /\ account[c].token \notin revoked
          => \E t \in Checkers : /\ check[t].pc = "mark"
                                 /\ check[t].company = c
                                 /\ check[t].token # account[c].token]_accountVars

\* A company is not shown as connected for ever by a token that was revoked:
\* a verification that overlaps the revocation connects it again, and the job
\* finds it.
RevokedIsSeen ==
    <>[](\A c \in Companies : connected[c] => account[c].token \notin revoked)
=============================================================================
