------------------------ MODULE MCDocumentLifecycle ------------------------
(***************************************************************************)
(* Three documents, and one sweep beside the requests; or two documents    *)
(* and two sweeps, that meet each other or one request.                    *)
(***************************************************************************)
EXTENDS DocumentLifecycle, TLC

CONSTANTS r1, r2, c1, c2, s1, s2

MCRequests == {r1, r2}
MCClients == {c1, c2}
MCSweeps == {s1, s2}
MCSymmetry == Permutations(MCRequests) \cup Permutations(MCClients)

VARIABLE part

MCInit == Init /\ part \in {"documents", "reminders"}

AtWork == {r \in Requests : req[r].pc # "idle"} \cup {c \in Clients : client[c].pc # "idle"}

MCNext ==
    /\ Next
    /\ part' = part
    /\ part = "documents" =>
         cron'[s2] = IdleCron /\ SumOfReminders' <= 2 /\ stops' = 0
    /\ part = "reminders" =>
         made' <= 2 /\ Cardinality(AtWork') <= 1

MCSpec == MCInit /\ [][MCNext]_<<vars, part>>
=============================================================================
