---------------------------- MODULE PageRequests ----------------------------
(***************************************************************************)
(* The requests of the portal's pages (src/core/api/sagas.js).  An action  *)
(* of a page starts a saga, which puts "pending" and calls the API, in one *)
(* step; its answer, whenever it comes, puts "fulfilled" or "failed", and  *)
(* the saga may go on to its next request in that step.                    *)
(*                                                                         *)
(* redux-saga is external.  takeLatest cancels the watcher's saga with all *)
(* it forked, and a cancelled request puts nothing any more; takeEvery     *)
(* lets them run side by side.                                             *)
(***************************************************************************)
EXTENDS Integers, FiniteSets

CONSTANTS
    None,
    MaxActions      \* bound: actions of the visitor

ASSUME RequestsAssumption == MaxActions \in Nat

VARIABLES
    tasks,      \* requests not yet answered
    actions     \* how many actions were taken

requestVars == <<tasks, actions>>

Request(watcher, api, params) ==
    [nr |-> actions + 1, watcher |-> watcher, api |-> api, params |-> params]

Waiting(api, params) == {t \in tasks : t.api = api /\ t.params = params}

Dispatch == actions < MaxActions /\ actions' = actions + 1

TakeEvery(new) == tasks' = tasks \cup new

TakeLatest(watcher, new) == tasks' = {t \in tasks : t.watcher # watcher} \cup new

\* An answer, and the requests its saga makes next.
AnswerAndAsk(t, apis) ==
    /\ tasks' = (tasks \ {t}) \cup {[t EXCEPT !.api = api] : api \in apis}
    /\ UNCHANGED actions

Answered(t) == AnswerAndAsk(t, {})

RequestsInit == tasks = {} /\ actions = 0
=============================================================================
