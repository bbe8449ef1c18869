---------------------------- MODULE AccountPages ----------------------------
(***************************************************************************)
(* The portal's account pages and charts (src/core/accounts,               *)
(* src/core/nanodb, src/core/api/reducer.js).  Opening an account asks for *)
(* the account, then for the block that opened it, then for summaries of   *)
(* its sends and changes side by side.  Charts are asked for once: a       *)
(* recorded key in request_history keeps later requests from being made.   *)
(***************************************************************************)
EXTENDS PageRequests

CONSTANTS
    Accounts,
    Listed,     \* the representatives
    Periods     \* of the summaries of confirmed blocks

ASSUME AccountPagesAssumption == Listed \subseteq Accounts

SummaryTypes == {"send", "change"}

\* The charts of an account are each read by a takeLatest of their own, those
\* of the ledger by takeEvery.
AccountCharts == {"balance_history", "stats", "blocks_per_day"}

Charts == (AccountCharts \X Accounts) \cup ({"confirmed_summary"} \X Periods)
          \cup ({"price_history", "accounts_unconfirmed", "blocks_unconfirmed"} \X {None})

VARIABLES
    items,              \* accounts.items
    reps_is_loading,    \* accounts.representatives_is_loading
    request_history,    \* api.request_history
    charts,             \* the charts whose data is held, and those shown as loading
    (* history, read by properties only *)
    visited,            \* the account last opened
    unsummarized,       \* the summaries that failed since it was
    dropped             \* the charts whose request a later one cancelled

accountVars ==
    <<items, reps_is_loading, request_history, charts, visited, unsummarized, dropped>>

\* The flags of an account are up before anything is asked for.
NewAccount == [loading |-> {"account", "open"} \cup SummaryTypes, is_loaded |-> FALSE,
               is_opened |-> FALSE, blocks_summary |-> None]

-----------------------------------------------------------------------------
(* Accounts *)

GetAccount(account) ==
    /\ Dispatch
    /\ TakeLatest("account", {Request("account", "account", account)})
    /\ items' = [items EXCEPT ![account].loading = @ \cup {"account"}]
    /\ visited' = account
    /\ unsummarized' = {}
    /\ UNCHANGED <<reps_is_loading, request_history, charts, dropped>>

\* Mutant: a failed request takes down the flag of the account alone.
ClearedByAccount(reply) ==
    IF reply = "unopened" THEN {"account", "open"} \cup SummaryTypes ELSE {"account"}

\* The flags that the answer to GET_ACCOUNT takes down.
Cleared(reply) ==
    IF reply = "opened" THEN {"account"} ELSE {"account", "open"} \cup SummaryTypes

\* The saga goes on by what is known of the account, whatever was answered now.
AccountAnswer(t, reply) ==
    LET before == items[t.params]
        is_opened == IF reply = "failed" THEN before.is_opened ELSE reply = "opened"
    IN  /\ t.api = "account"
        /\ AnswerAndAsk(t, IF is_opened THEN {"open"} ELSE {})
        /\ items' = [items EXCEPT ![t.params] =
                [before EXCEPT !.loading = (@ \ Cleared(reply))
                                           \cup (IF is_opened THEN {"open"} ELSE {}),
                               !.is_loaded = TRUE,
                               !.is_opened = is_opened]]
        /\ UNCHANGED <<reps_is_loading, request_history, charts, visited,
                       unsummarized, dropped>>

AccountOpenAnswer(t) ==
    /\ t.api = "open"
    /\ AnswerAndAsk(t, SummaryTypes)
    /\ items' = [items EXCEPT ![t.params].loading = (@ \ {"open"}) \cup SummaryTypes]
    /\ UNCHANGED <<reps_is_loading, request_history, charts, visited,
                   unsummarized, dropped>>

\* The rows of the other type are lost: blocks_summary, an Immutable map, is
\* spread.  No case of the reducer takes a failure.
BlocksSummaryAnswer(t, ok) ==
    /\ t.api \in SummaryTypes
    /\ Answered(t)
    /\ items' = IF ok THEN [items EXCEPT ![t.params].loading = @ \ {t.api},
                                         ![t.params].blocks_summary = t.api]
                ELSE items
    /\ unsummarized' = IF ok THEN unsummarized ELSE unsummarized \cup {t.api}
    /\ UNCHANGED <<reps_is_loading, request_history, charts, visited, dropped>>

GetRepresentatives ==
    /\ Dispatch
    /\ TakeEvery({Request("reps", "reps", None)})
    /\ reps_is_loading' = TRUE
    /\ UNCHANGED <<items, request_history, charts, visited, unsummarized, dropped>>

\* The meta of a representative comes along where the index has it.
RepresentativesAnswer(t, ok) ==
    /\ t.api = "reps"
    /\ Answered(t)
    /\ reps_is_loading' = FALSE
    /\ \E indexed \in SUBSET Listed :
        items' = [a \in Accounts |->
                    IF ok /\ a \in Listed
                    THEN [items[a] EXCEPT !.is_loaded = TRUE, !.is_opened = a \in indexed]
                    ELSE items[a]]
    /\ UNCHANGED <<request_history, charts, visited, unsummarized, dropped>>

-----------------------------------------------------------------------------
(* Charts *)

\* The keys of request_history; the unconfirmed blocks have none.
IsRecorded(chart) == chart[1] # "blocks_unconfirmed"

HasFlag(chart) == chart[1] \in {"balance_history", "blocks_per_day"}

InFlight(chart) == Waiting("chart", chart) # {}

LoadChart(chart) ==
    LET wanted == chart \notin request_history
        new == IF wanted THEN {Request(chart[1], "chart", chart)} ELSE {}
    IN  /\ Dispatch
        /\ IF chart[1] \in AccountCharts THEN TakeLatest(chart[1], new) ELSE TakeEvery(new)
        /\ request_history' = IF IsRecorded(chart) THEN request_history \cup {chart}
                              ELSE request_history
        /\ charts' = [charts EXCEPT !.loading =
                        IF wanted /\ HasFlag(chart) THEN @ \cup {chart} ELSE @]
        /\ dropped' = dropped \cup
             {t.params : t \in {t \in tasks : chart[1] \in AccountCharts
                                              /\ t.watcher = chart[1]}}
        /\ UNCHANGED <<items, reps_is_loading, visited, unsummarized>>

\* A chart that failed may be asked for again; of the two flags only that of
\* the balance history goes down then.
ChartAnswer(t, ok) ==
    /\ t.api = "chart"
    /\ Answered(t)
    /\ request_history' = IF ok THEN request_history ELSE request_history \ {t.params}
    /\ charts' = [got |-> IF ok THEN charts.got \cup {t.params} ELSE charts.got,
                  loading |-> IF ok \/ t.params[1] = "balance_history"
                              THEN charts.loading \ {t.params} ELSE charts.loading]
    /\ UNCHANGED <<items, reps_is_loading, visited, unsummarized, dropped>>

-----------------------------------------------------------------------------
(* Specification *)

AccountsInit ==
    /\ items = [a \in Accounts |-> NewAccount]
    /\ reps_is_loading = FALSE
    /\ request_history = {}
    /\ charts = [got |-> {}, loading |-> {}]
    /\ visited = None /\ unsummarized = {} /\ dropped = {}

AccountAsks == GetRepresentatives \/ \E account \in Accounts : GetAccount(account)

AccountAnswers ==
    \E t \in tasks :
        \/ \E reply \in {"opened", "unopened", "failed"} : AccountAnswer(t, reply)
        \/ AccountOpenAnswer(t)
        \/ \E ok \in BOOLEAN : BlocksSummaryAnswer(t, ok) \/ RepresentativesAnswer(t, ok)

ChartAsks == \E chart \in Charts : LoadChart(chart)

ChartAnswers == \E t \in tasks, ok \in BOOLEAN : ChartAnswer(t, ok)

-----------------------------------------------------------------------------
(* Parts of properties, composed where the pages are. *)

\* A chart is asked for once at a time, and no more once it is there.
ChartsAskedOnce ==
    \A chart \in Charts : IsRecorded(chart) =>
        /\ Cardinality(Waiting("chart", chart)) <= 1
        /\ chart \in charts.got => ~ InFlight(chart)

\* Only what is there, or on its way, or was cancelled is not asked for again.
ChartsRetryable ==
    \A chart \in request_history :
        chart \in charts.got \/ InFlight(chart) \/ chart \in dropped

\* The page of the account last opened stops loading, except what failed.
AccountSettles ==
    /\ \A a \in Accounts : []<>(visited = a => items[a].loading \subseteq unsummarized)
    /\ []<>(~ reps_is_loading)
    /\ \A chart \in Charts : []<>(chart \in charts.loading =>
            chart \in dropped \/ chart[1] = "blocks_per_day")
=============================================================================
