----------------------- MODULE MCInvoiceAndConnection -----------------------
(***************************************************************************)
(* The settlement of an invoice and the connection to GoCardless have no   *)
(* row in common: a step of one commutes with a step of the other.  Each   *)
(* behaviour is one of either, chosen at the start, the other at rest.     *)
(* That of an invoice has two workers, or one beside a user who marks it.  *)
(***************************************************************************)
EXTENDS MCInvoiceSettlement, GoCardlessConnection

CONSTANTS a1, a2, o1, o2

\* One company that may be connected to two organisations, and another that
\* may share one of them from the start.
MCMerchants == a1 :> {o1, o2} @@ a2 :> {}
MCBefore == {[company |-> Nobody, organisation |-> Nobody],
             [company |-> a2, organisation |-> o1]}

VARIABLE part

MCInit ==
    /\ Init /\ AccountInit
    /\ \/ part \in {"invoice", "marking"} /\ ~\E c \in Companies : connected[c]
       \/ part = "connection" /\ mode = "ONE_TIME"

MCNext ==
    /\ part' = part
    /\ \/ part = "invoice" /\ Next /\ UNCHANGED <<user, accountVars>>
       \/ part = "marking" /\ Next /\ work'[w2] = IdleWork /\ UNCHANGED accountVars
       \/ part = "connection" /\ AccountNext /\ UNCHANGED vars

\* AccountFairness, for the behaviours of the connection.
MCFairness ==
    /\ \A t \in Checkers : WF_accountVars(part = "connection" /\ CheckSteps(t))
    /\ \A j \in Jobs :
         /\ SF_accountVars(part = "connection" /\ StartSweep(j))
         /\ \A c \in Companies :
              SF_accountVars(/\ part = "connection"
                             /\ check[j].company = c
                             /\ ListCreditors(j))

MCSpec == MCInit /\ [][MCNext]_<<vars, accountVars, part>> /\ MCFairness
=============================================================================
