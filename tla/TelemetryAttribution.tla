------------------------ MODULE TelemetryAttribution ------------------------
(***************************************************************************)
(* Which account a node of a telemetry round is stored under               *)
(* (scripts/import-telemetry.mjs, libs-server/resolve-telemetry-account.mjs). *)
(* The crawler names, for each account it hears votes of, one channel; a   *)
(* node with an interface on that channel is the account's, unless the     *)
(* account's last node is another that is live too.  A node nobody claims  *)
(* keeps the account it was last stored under, so what a round stores      *)
(* decides later rounds.                                                   *)
(***************************************************************************)
EXTENDS Integers, FiniteSets

CONSTANTS Nodes, Accounts,
          History,     \* TELEMETRY_HISTORY_WINDOW_SECONDS, in rounds
          MaxRound,    \* bound on the rounds
          NoAccount

ASSUME AttributionAssumption == NoAccount \notin Accounts /\ History \in Nat

VARIABLES round,        \* the rounds stored so far
          attributed    \* the rows of representatives_telemetry with an account

attributionVars == <<round, attributed>>

AttributionInit == round = 0 /\ attributed = {}

\* history_account_by_node_id for a round at time t: SELECT DISTINCT ON
\* (node_id) ... ORDER BY node_id, timestamp DESC.
HistoryRows(n, t) == {r \in attributed : r.node = n /\ r.at >= t - History}

HistoryAccount(n, t) ==
    IF HistoryRows(n, t) = {} THEN NoAccount
    ELSE (CHOOSE r \in HistoryRows(n, t) :
             \A s \in HistoryRows(n, t) : s.at <= r.at).account

\* As if a match of the crawler were always taken.
NeverRejected(a, n, live, t) == FALSE

\* The account's last node is another one, and it is in this round.
Rejected(a, n, live, t) ==
    \E m \in live \ {n} : HistoryAccount(m, t) = a

\* The account last attributed to the node, if the crawler hears of it.
Fallback(n, crawled, t) ==
    IF HistoryAccount(n, t) \in crawled THEN HistoryAccount(n, t) ELSE NoAccount

\* Of several accounts on a node's channels the first not rejected is taken,
\* in the order of the interfaces; of two on one interface only the first the
\* crawler listed is tried.
Resolve(n, live, carrier, t) ==
    LET peers == {a \in DOMAIN carrier : carrier[a] = n}
        rejected == {a \in peers : Rejected(a, n, live, t)}
    IN  (peers \ rejected)
        \cup (IF peers = {} \/ rejected # {} THEN {Fallback(n, DOMAIN carrier, t)} ELSE {})

ImportRound(live, carrier) ==
    /\ round < MaxRound
    /\ round' = round + 1
    /\ \E account \in [live -> Accounts \cup {NoAccount}] :
         /\ \A n \in live : account[n] \in Resolve(n, live, carrier, round')
         /\ attributed' = attributed \cup
              {[node |-> n, account |-> account[n], at |-> round'] :
                  n \in {m \in live : account[m] # NoAccount}}

AttributionNext ==
    \E live \in SUBSET Nodes \ {{}}, crawled \in SUBSET Accounts :
        \E carrier \in [crawled -> Nodes] : ImportRound(live, carrier)

AttributionSpec == AttributionInit /\ [][AttributionNext]_attributionVars

-----------------------------------------------------------------------------
(***************************************************************************)
(* Properties.                                                             *)
(***************************************************************************)
AttributionTypeOK ==
    \A r, s \in attributed : r.node = s.node /\ r.at = s.at => r = s

\* Two nodes of one round are stored under one account only if each was
\* stored under it before, within the history: a second node, a proxy or a
\* second interface, does not join an account while the account's node is
\* live, whatever else came and went.
SharedOnlyIfHeldBefore ==
    \A r, s \in attributed :
        (r.at = s.at /\ r.account = s.account /\ r.node # s.node) =>
            \E p \in attributed : /\ p.node = r.node /\ p.account = r.account
                                  /\ p.at < r.at /\ p.at >= r.at - History
=============================================================================
