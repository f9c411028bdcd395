------------------------- MODULE SuperPdpConnection -------------------------
(***************************************************************************)
(* The connection of a company to SuperPDP: the authorisation and the      *)
(* tokens (SuperPdpOAuthService).  SuperPDP rotates the refresh token: a   *)
(* refresh gives a new one, and the former is refused from then on, as it  *)
(* is after a new authorisation.  A token is the number of its rotation.   *)
(*                                                                         *)
(* getAccessToken is called by every task; the access token is old or not, *)
(* and its value is not looked at.  Of the statuses of a connection only   *)
(* whether it is ACTIVE is kept: the job asks no more.  Crypto, the        *)
(* profile and the states of OAuth are not here.                           *)
(***************************************************************************)
EXTENDS Naturals, FiniteSets

CONSTANTS
    Tasks,         \* requests, jobs and callbacks that use the connection
    MaxRotations   \* bound on the refresh tokens that SuperPDP gives

ASSUME ConnectionAssumption == MaxRotations \in Nat \ {0}

VARIABLES
    conn,      \* the row ElectronicInvoicingConnection
    granted,   \* the refresh token that SuperPDP accepts
    task,      \* local state of the tasks
    tokenLost  \* history: a token was given and not stored, or stored late

connectionVars == <<conn, granted, task, tokenLost>>

\* then: where the task goes on when it has its access token; caught: it is
\* inside the try block of a submission.
IdleTask == [pc |-> "idle", then |-> "idle", caught |-> FALSE, token |-> 0,
             key |-> "none", row |-> 0, seen |-> "none", id |-> 0]

\* The company has been connected once.
InitConnection ==
    /\ conn = [active |-> TRUE, refresh |-> 1, fresh |-> TRUE]
    /\ granted = 1
    /\ task = [t \in Tasks |-> IdleTask]
    /\ tokenLost = FALSE

Idle(t) == task[t].pc = "idle"

Goto(t, pc) == task' = [task EXCEPT ![t].pc = pc]

Done(t) == task' = [task EXCEPT ![t] = IdleTask]

\* An error: the submission catches it, the other tasks only report it.
Rejected(t) == IF task[t].caught THEN Goto(t, "failed") ELSE Done(t)

\* getAccessToken is called.
TokenThen(rec, pc) == [rec EXCEPT !.pc = "tokens", !.then = pc]

\* The task has its access token.
GoOn(t) == task' = [task EXCEPT ![t].pc = task[t].then, ![t].then = "idle",
                                ![t].token = 0]

\* A token was given that no row holds yet.
Storing == {t \in Tasks : task[t].pc = "storeTokens" \/ task[t].pc = "storeGrant"}

-----------------------------------------------------------------------------
(***************************************************************************)
(* buildAuthorizationUrl, completeAuthorization and verifyConnection       *)
(***************************************************************************)

BuildAuthorizationUrl ==
    /\ granted < MaxRotations
    /\ conn' = [conn EXCEPT !.active = FALSE]
    /\ UNCHANGED <<granted, task, tokenLost>>

\* The code is exchanged; the tokens that are being stored are now refused.
\* Several states of OAuth may be valid at once, each for ten minutes, whatever
\* the status has become since they were asked for: a code may come at any time.
ExchangeCode(t) ==
    /\ Idle(t)
    /\ granted < MaxRotations
    /\ granted' = granted + 1
    /\ task' = [task EXCEPT ![t].pc = "storeGrant", ![t].token = granted + 1]
    /\ tokenLost' = (tokenLost \/ Storing # {})
    /\ UNCHANGED conn

StoreGrant(t) ==
    /\ task[t].pc = "storeGrant"
    /\ conn' = [active |-> FALSE, refresh |-> task[t].token, fresh |-> TRUE]
    /\ task' = [task EXCEPT ![t] = TokenThen(IdleTask, "profile")]
    /\ UNCHANGED <<granted, tokenLost>>

StartVerify(t) ==
    /\ Idle(t)
    /\ task' = [task EXCEPT ![t] = TokenThen(IdleTask, "profile")]
    /\ UNCHANGED <<conn, granted, tokenLost>>

\* syncProviderConnection: the profile is read, or not: ACTIVE or
\* ACTION_REQUIRED.
SyncProviderConnection(t) ==
    /\ task[t].pc = "profile"
    /\ \E read \in BOOLEAN : conn' = [conn EXCEPT !.active = read]
    /\ Done(t)
    /\ UNCHANGED <<granted, tokenLost>>

-----------------------------------------------------------------------------
(***************************************************************************)
(* getAccessToken                                                          *)
(***************************************************************************)

GetAccessToken(t) ==
    /\ task[t].pc = "tokens"
    /\ IF conn.fresh
       THEN GoOn(t)
       ELSE task' = [task EXCEPT ![t].pc = "refresh", ![t].token = conn.refresh]
    /\ UNCHANGED <<conn, granted, tokenLost>>

Refused(t) == task' = [task EXCEPT ![t].pc = "refused", ![t].then = "idle",
                                   ![t].token = 0]

\* The answer may be lost, and the call may fail.
Refresh(t) ==
    /\ task[t].pc = "refresh"
    /\ \/ /\ task[t].token = granted
          /\ granted < MaxRotations
          /\ granted' = granted + 1
          /\ \/ /\ task' = [task EXCEPT ![t].pc = "storeTokens", ![t].token = granted + 1]
                /\ UNCHANGED tokenLost
             \/ /\ Refused(t)
                /\ tokenLost' = TRUE
       \/ /\ Refused(t)
          /\ UNCHANGED <<granted, tokenLost>>
    /\ UNCHANGED conn

\* A mutant: the refresh token is kept.
RotatedNever(t) == conn.refresh

Rotated(t) == task[t].token

StoreTokens(t) ==
    /\ task[t].pc = "storeTokens"
    /\ conn' = [active |-> TRUE, refresh |-> Rotated(t), fresh |-> TRUE]
    /\ GoOn(t)
    /\ UNCHANGED <<granted, tokenLost>>

RefreshFails(t) ==
    /\ task[t].pc = "refused"
    /\ conn' = [conn EXCEPT !.active = FALSE]
    /\ Rejected(t)
    /\ UNCHANGED <<granted, tokenLost>>

TokenGetsOld ==
    /\ conn.fresh
    /\ conn' = [conn EXCEPT !.fresh = FALSE]
    /\ UNCHANGED <<granted, task, tokenLost>>

ConnectionSteps(t) ==
    \/ StoreGrant(t)
    \/ SyncProviderConnection(t)
    \/ GetAccessToken(t)
    \/ Refresh(t)
    \/ StoreTokens(t)
    \/ RefreshFails(t)

-----------------------------------------------------------------------------

ConnectionTypeOK ==
    /\ conn \in [active : BOOLEAN, refresh : 1..MaxRotations, fresh : BOOLEAN]
    /\ granted \in 1..MaxRotations
    /\ conn.refresh <= granted

\* The refresh token that is stored is the one SuperPDP accepts, or is about
\* to be: tasks that refresh the same token at the same time, and refreshes
\* that fail, cost a connection its status but never its token.  Only an
\* answer that is lost, a process that stops before it stores the answer, and
\* an authorisation given during a refresh cost the token.
TokenSurvives ==
    ~tokenLost /\ Storing = {} => conn.refresh = granted
=============================================================================
