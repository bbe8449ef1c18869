----------------------------- MODULE MCImports ------------------------------
(***************************************************************************)
(* The importers in one run.  A behaviour has one subject, posts,          *)
(* delegators or uptime, and the state of the others rests.                *)
(***************************************************************************)
EXTENDS PostImports, DelegatorImport, UptimeRollups

CONSTANTS i1, i2, p, q, rep1, rep2

MCImporters == {i1, i2}
MCReps == {rep1, rep2}
MCTracked == {rep1}
MCAnswers == {{}, {rep1}, {rep1, rep2}}

\* Accounts 1 to 3 above the threshold, one of them below it, one or two with
\* another representative.
MCLedgers == { [a \in 1 .. 3 |-> p], [a \in {1, 3} |-> p],
               [a \in 2 .. 3 |-> q], [a \in 1 .. 3 |-> IF a = 2 THEN q ELSE p] }

VARIABLE subject

MCInit ==
    /\ PostsInit /\ DelegatorInit /\ UptimeInit
    /\ subject \in {"posts", "delegators", "uptime"}
    /\ source = "discord" \/ subject = "posts"
    /\ ledger = [a \in 1 .. 3 |-> p] \/ subject = "delegators"

MCNext ==
    /\ UNCHANGED subject
    /\ \/ subject = "posts" /\ PostsNext /\ UNCHANGED <<delegatorVars, uptimeVars>>
       \/ subject = "delegators" /\ DelegatorsNext /\ UNCHANGED <<postVars, uptimeVars>>
       \/ subject = "uptime" /\ UptimeNext /\ UNCHANGED <<postVars, delegatorVars>>

MCSpec == MCInit /\ [][MCNext]_<<postVars, delegatorVars, uptimeVars, subject>>
=============================================================================
