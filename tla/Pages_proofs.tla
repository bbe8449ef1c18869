---------------------------- MODULE Pages_proofs ----------------------------
(***************************************************************************)
(* What the portal's pages show, in whatever order and however late their  *)
(* requests are answered, and what becomes of a key that only the browser  *)
(* has, in any number of tabs: for all filters, views, lists, documents,   *)
(* charts and keys.                                                        *)
(*                                                                         *)
(* A property of a page speaks of what it shows; what it shows next comes  *)
(* from requests made earlier.  The invariant of each page therefore says  *)
(* what the requests still under way were made for.                        *)
(***************************************************************************)
EXTENDS MCPortalPages, FiniteSetTheorems, TLAPS

-----------------------------------------------------------------------------
(* The invariant *)

SubjectOf ==
    [events |-> "events", table |-> "table", posts |-> "posts", doc |-> "docs",
     commit |-> "docs", single |-> "singles", chart |-> "charts", account |-> "accounts",
     open |-> "accounts", send |-> "accounts", change |-> "accounts", reps |-> "accounts"]

\* Requests are of the behaviour's subject.
OnSubject ==
    /\ focus \in Subjects
    /\ \A t \in tasks :
        /\ t = [nr |-> t.nr, watcher |-> t.watcher, api |-> t.api, params |-> t.params]
        /\ t.api \in DOMAIN SubjectOf
        /\ SubjectOf[t.api] = focus

EventsInv ==
    /\ events = [params |-> events.params, rows |-> events.rows,
                 is_loading |-> events.is_loading]
    /\ EventsAreTheLastAsked

\* While no two requests crossed, the one under way is for the view as it is.
TableInv ==
    /\ table = [current_request |-> table.current_request, status |-> table.status,
                result |-> table.result]
    /\ focus # "table" => table.status = None
    /\ focus = "table" =>
        /\ selected \in Views
        /\ views \in [Views -> TableStates]
        /\ "table" \notin crossed =>
            /\ \A t \in tasks : t.params = Shown(selected, views[selected])
            /\ table.status = "completed" => table.result = Shown(selected, views[selected])

Ages == UNION {AgesOf[l] : l \in Lists}

\* The same for a list, whose posts are those of one age.
PostsInv ==
    /\ feed \in [Lists -> [is_pending : BOOLEAN, post_ids : SUBSET Ages]]
    /\ asked_age \in [Lists -> Ages \cup {None}]
    /\ focus # "posts" => \A l \in Lists : feed[l].post_ids = {}
    /\ focus = "posts" =>
        /\ \A t \in tasks : t.params \in [list : Lists, age : Ages]
        /\ \A l \in Lists \ crossed :
            /\ feed[l].post_ids \subseteq {asked_age[l]}
            /\ \A t \in tasks : t.params.list = l => t.params.age = asked_age[l]

\* A watcher has one request: for a document that has no commit yet, or for the
\* commit of one that is there.
DocsInv ==
    /\ docs \in [Paths -> [is_pending : BOOLEAN, content : BOOLEAN, commit : BOOLEAN]]
    /\ CommitsBelongToContent
    /\ focus = "docs" =>
        /\ \A t \in tasks : /\ t.params \in Paths
                            /\ t.watcher = DocWatcher(t.params)
                            /\ t.api = "doc" => ~ docs[t.params].commit
                            /\ t.api = "commit" => docs[t.params].content
        /\ \A t, u \in tasks : t.watcher = u.watcher => t = u

\* A recorded chart is in the history from its request on, and has one request.
ChartsInv ==
    /\ charts = [got |-> charts.got, loading |-> charts.loading]
    /\ focus # "charts" => request_history = {} /\ charts.got = {}
    /\ focus = "charts" =>
        /\ \A t \in tasks : t.params \in Charts /\ t.watcher = t.params[1]
        /\ \A chart \in charts.got : IsRecorded(chart) =>
            chart \in request_history /\ ~ InFlight(chart)
        /\ \A t \in tasks : IsRecorded(t.params) => t.params \in request_history
        /\ \A t, u \in tasks : IsRecorded(t.params) /\ t.params = u.params => t = u
        /\ ChartsRetryable

PagesInv ==
    /\ OnSubject
    /\ EventsInv /\ TableInv /\ PostsInv /\ DocsInv /\ ChartsInv

\* A tab whose key is the stored one, and saved by nobody, knows it.
IdentityInv ==
    /\ identity \in [Tabs -> [method : {"none", "nip07", "local"},
                              pubkey : Keys \cup {ExtensionKey, NoKey},
                              needs_backup : BOOLEAN]]
    /\ storage \in [key : Keys \cup {NoKey}, backed_up : BOOLEAN]
    /\ made \subseteq Keys
    /\ storage.key \in made \cup {NoKey}
    /\ \A tab \in Tabs :
        /\ identity[tab].method = "none" => identity[tab].pubkey = NoKey
        /\ identity[tab].method = "nip07" => identity[tab].pubkey = ExtensionKey
        /\ identity[tab].method = "local" => identity[tab].pubkey \in made
        /\ identity[tab].method = "local" /\ identity[tab].pubkey = storage.key
           /\ ~ storage.backed_up => identity[tab].needs_backup

-----------------------------------------------------------------------------
(* Requests stay on the subject *)

\* What a behaviour about one subject can do.
LEMMA StepsOnSubject ==
    ASSUME OnSubject, MCNext
    PROVE  \/ /\ focus = "events" /\ UNCHANGED <<accountVars, identityVars>>
              /\ \/ \E params \in Filters : GetNetworkEvents(params)
                 \/ \E t \in tasks, ok \in BOOLEAN : NetworkEventsAnswer(t, ok)
           \/ /\ focus = "table" /\ UNCHANGED <<accountVars, identityVars>>
              /\ \/ TablePage
                 \/ \E t \in tasks, ok \in BOOLEAN : DataViewAnswer(t, ok)
           \/ /\ focus = "posts" /\ UNCHANGED <<accountVars, identityVars>>
              /\ \/ PostsPage
                 \/ \E t \in tasks, ok \in BOOLEAN : PostsAnswer(t, ok)
           \/ /\ focus = "docs" /\ UNCHANGED <<accountVars, identityVars>>
              /\ \/ DocsPage
                 \/ \E t \in tasks, ok \in BOOLEAN : DocAnswer(t, ok) \/ CommitAnswer(t, ok)
           \/ /\ focus = "singles" /\ UNCHANGED <<accountVars, identityVars>>
              /\ \/ SinglePages
                 \/ \E t \in tasks, ok \in BOOLEAN : SingleAnswer(t, ok)
           \/ /\ focus = "accounts" /\ UNCHANGED <<browsingVars, identityVars>>
              /\ AccountAsks \/ AccountAnswers
           \/ /\ focus = "charts" /\ UNCHANGED <<browsingVars, identityVars>>
              /\ ChartAsks \/ ChartAnswers
           \/ focus = "identity" /\ IdentityNext /\ UNCHANGED pageVars
<1>1. \A t \in tasks : t.api \in DOMAIN SubjectOf /\ SubjectOf[t.api] = focus
    BY DEF OnSubject
<1>2. CASE Browses /\ UNCHANGED <<accountVars, identityVars>>
    BY <1>2 DEF Browses, NetworkEventsPage
<1>3. CASE BrowsingAnswers /\ UNCHANGED <<accountVars, identityVars>>
    <2>1. PICK t \in tasks, ok \in BOOLEAN :
              \/ NetworkEventsAnswer(t, ok) \/ DataViewAnswer(t, ok) \/ PostsAnswer(t, ok)
              \/ DocAnswer(t, ok) \/ CommitAnswer(t, ok) \/ SingleAnswer(t, ok)
        BY <1>3 DEF BrowsingAnswers
    <2>2. /\ NetworkEventsAnswer(t, ok) => focus = "events"
          /\ DataViewAnswer(t, ok) => focus = "table"
          /\ PostsAnswer(t, ok) => focus = "posts"
          /\ DocAnswer(t, ok) \/ CommitAnswer(t, ok) => focus = "docs"
          /\ SingleAnswer(t, ok) => focus = "singles"
        BY <1>1 DEF NetworkEventsAnswer, DataViewAnswer, PostsAnswer, DocAnswer,
                    CommitAnswer, SingleAnswer, SubjectOf
    <2> QED
        BY <1>3, <2>1, <2>2
<1>4. CASE /\ (focus = "accounts" /\ AccountAsks) \/ (focus = "charts" /\ ChartAsks)
           /\ UNCHANGED <<browsingVars, identityVars>>
    BY <1>4
<1>5. CASE AccountAnswers /\ UNCHANGED <<browsingVars, identityVars>>
    <2>1. PICK t \in tasks : t.api \in {"account", "open", "send", "change", "reps"}
        BY <1>5 DEF AccountAnswers, AccountAnswer, AccountOpenAnswer,
                    BlocksSummaryAnswer, RepresentativesAnswer, SummaryTypes
    <2>2. focus = "accounts"
        BY <1>1, <2>1 DEF SubjectOf
    <2> QED
        BY <1>5, <2>2
<1>6. CASE ChartAnswers /\ UNCHANGED <<browsingVars, identityVars>>
    <2>1. focus = "charts"
        BY <1>1, <1>6 DEF ChartAnswers, ChartAnswer, SubjectOf
    <2> QED
        BY <1>6, <2>1
<1>7. CASE focus = "identity" /\ IdentityNext /\ UNCHANGED pageVars
    BY <1>7
<1> QED
    BY <1>2, <1>3, <1>4, <1>5, <1>6, <1>7 DEF MCNext

\* A new request, and one that goes on.
LEMMA AskedOnSubject ==
    ASSUME NEW watcher, NEW api \in DOMAIN SubjectOf, NEW params
    PROVE  LET t == Request(watcher, api, params)
           IN  /\ t = [nr |-> t.nr, watcher |-> t.watcher, api |-> t.api, params |-> t.params]
               /\ t.watcher = watcher /\ t.api = api /\ t.params = params
    BY DEF Request

LEMMA GoesOn ==
    ASSUME OnSubject, NEW t \in tasks, NEW api
    PROVE  LET u == [t EXCEPT !.api = api]
           IN  /\ u = [nr |-> u.nr, watcher |-> u.watcher, api |-> u.api, params |-> u.params]
               /\ u.watcher = t.watcher /\ u.api = api /\ u.params = t.params
    BY DEF OnSubject

\* A set of requests that adds to those under way only requests of the subject.
LEMMA StillOnSubject ==
    ASSUME OnSubject, UNCHANGED focus, NEW new,
           \A u \in new :
               /\ u = [nr |-> u.nr, watcher |-> u.watcher, api |-> u.api, params |-> u.params]
               /\ u.api \in DOMAIN SubjectOf /\ SubjectOf[u.api] = focus,
           tasks' \subseteq tasks \cup new
    PROVE  OnSubject'
    BY DEF OnSubject

LEMMA TakesOnSubject ==
    ASSUME OnSubject, UNCHANGED focus, NEW watcher, NEW api \in DOMAIN SubjectOf, NEW params,
           SubjectOf[api] = focus,
           \/ TakeEvery({Request(watcher, api, params)})
           \/ TakeLatest(watcher, {Request(watcher, api, params)})
           \/ TakeEvery({})
           \/ TakeLatest(watcher, {})
    PROVE  OnSubject'
<1>1. tasks' \subseteq tasks \cup {Request(watcher, api, params)}
    BY DEF TakeEvery, TakeLatest
<1> QED
    BY <1>1, StillOnSubject, AskedOnSubject

LEMMA AnswersOnSubject ==
    ASSUME OnSubject, UNCHANGED focus, NEW t \in tasks, NEW apis \in SUBSET DOMAIN SubjectOf,
           \A api \in apis : SubjectOf[api] = focus,
           AnswerAndAsk(t, apis)
    PROVE  OnSubject'
<1>1. tasks' \subseteq tasks \cup {[t EXCEPT !.api = api] : api \in apis}
    BY DEF AnswerAndAsk
<1>2. \A u \in {[t EXCEPT !.api = api] : api \in apis} :
          /\ u = [nr |-> u.nr, watcher |-> u.watcher, api |-> u.api, params |-> u.params]
          /\ u.api \in apis
    <2> SUFFICES ASSUME NEW api \in apis
                 PROVE  LET u == [t EXCEPT !.api = api]
                        IN  /\ u = [nr |-> u.nr, watcher |-> u.watcher,
                                    api |-> u.api, params |-> u.params]
                            /\ u.api \in apis
        OBVIOUS
    <2> QED
        BY GoesOn
<1> QED
    BY <1>1, <1>2, StillOnSubject
LEMMA OnSubjectKept ==
    ASSUME OnSubject, MCNext
    PROVE  OnSubject'
<1>0. UNCHANGED focus /\ focus \in Subjects
    BY DEF MCNext, OnSubject
<1>1. CASE /\ focus = "events"
           /\ \/ \E params \in Filters : GetNetworkEvents(params)
              \/ \E t \in tasks, ok \in BOOLEAN : NetworkEventsAnswer(t, ok)
    <2>1. ASSUME NEW params \in Filters, GetNetworkEvents(params)
          PROVE  OnSubject'
        BY <1>0, <1>1, <2>1, TakesOnSubject DEF GetNetworkEvents, SubjectOf
    <2>2. ASSUME NEW t \in tasks, NEW ok \in BOOLEAN, NetworkEventsAnswer(t, ok)
          PROVE  OnSubject'
        BY <1>0, <2>2, AnswersOnSubject DEF NetworkEventsAnswer, Answered
    <2> QED
        BY <1>1, <2>1, <2>2
<1>2. CASE /\ focus = "table"
           /\ TablePage \/ \E t \in tasks, ok \in BOOLEAN : DataViewAnswer(t, ok)
    <2>1. ASSUME NEW watcher, NEW view, NEW state, RequestTable(watcher, view, state)
          PROVE  OnSubject'
        <3>1. \/ TakeLatest(watcher, {})
              \/ TakeLatest(watcher, {Request(watcher, "table", Shown(view, state))})
            BY <2>1 DEF RequestTable, WatchTable, Wanted
        <3> QED
            BY <1>0, <1>2, <3>1, TakesOnSubject DEF SubjectOf
    <2>2. CASE DataViewRenamed
        BY <1>0, <1>2, <2>2, TakesOnSubject DEF DataViewRenamed, WatchTable, SubjectOf
    <2>3. ASSUME NEW t \in tasks, NEW ok \in BOOLEAN, DataViewAnswer(t, ok)
          PROVE  OnSubject'
        BY <1>0, <2>3, AnswersOnSubject DEF DataViewAnswer, Answered
    <2> QED
        BY <1>2, <2>1, <2>2, <2>3 DEF TablePage, SetSelectedDataView, DataViewChanged
<1>3. CASE /\ focus = "posts"
           /\ PostsPage \/ \E t \in tasks, ok \in BOOLEAN : PostsAnswer(t, ok)
    <2>1. ASSUME NEW list, NEW age, GetPosts(list, age)
          PROVE  OnSubject'
        BY <1>0, <1>3, <2>1, TakesOnSubject DEF GetPosts, SubjectOf
    <2>2. ASSUME NEW t \in tasks, NEW ok \in BOOLEAN, PostsAnswer(t, ok)
          PROVE  OnSubject'
        BY <1>0, <2>2, AnswersOnSubject DEF PostsAnswer, Answered
    <2> QED
        BY <1>3, <2>1, <2>2 DEF PostsPage
<1>4. CASE /\ focus = "docs"
           /\ \/ DocsPage
              \/ \E t \in tasks, ok \in BOOLEAN : DocAnswer(t, ok) \/ CommitAnswer(t, ok)
    <2>1. ASSUME NEW path, GetDoc(path)
          PROVE  OnSubject'
        BY <1>0, <1>4, <2>1, TakesOnSubject DEF GetDoc, SubjectOf
    <2>2. ASSUME NEW t \in tasks, NEW ok \in BOOLEAN, DocAnswer(t, ok)
          PROVE  OnSubject'
        <3>1. AnswerAndAsk(t, {"commit"}) \/ AnswerAndAsk(t, {})
            BY <2>2 DEF DocAnswer
        <3>2. {"commit"} \subseteq DOMAIN SubjectOf /\ SubjectOf["commit"] = focus
            BY <1>4 DEF SubjectOf
        <3> QED
            BY <1>0, <3>1, <3>2, AnswersOnSubject
    <2>3. ASSUME NEW t \in tasks, NEW ok \in BOOLEAN, CommitAnswer(t, ok)
          PROVE  OnSubject'
        BY <1>0, <2>3, AnswersOnSubject DEF CommitAnswer, Answered
    <2> QED
        BY <1>4, <2>1, <2>2, <2>3 DEF DocsPage
<1>5. CASE /\ focus = "singles"
           /\ SinglePages \/ \E t \in tasks, ok \in BOOLEAN : SingleAnswer(t, ok)
    <2>1. ASSUME NEW s, GetSingle(s)
          PROVE  OnSubject'
        BY <1>0, <1>5, <2>1, TakesOnSubject DEF GetSingle, SubjectOf
    <2>2. ASSUME NEW t \in tasks, NEW ok \in BOOLEAN, SingleAnswer(t, ok)
          PROVE  OnSubject'
        BY <1>0, <2>2, AnswersOnSubject DEF SingleAnswer, Answered
    <2> QED
        BY <1>5, <2>1, <2>2 DEF SinglePages
<1>6. CASE focus = "accounts" /\ (AccountAsks \/ AccountAnswers)
    <2>0. /\ {"account", "open", "send", "change", "reps"} \subseteq DOMAIN SubjectOf
          /\ \A api \in {"account", "open", "send", "change", "reps"} : SubjectOf[api] = focus
        BY <1>6 DEF SubjectOf
    <2>1. CASE AccountAsks
        BY <1>0, <2>0, <2>1, TakesOnSubject DEF AccountAsks, GetRepresentatives, GetAccount
    <2>2. CASE AccountAnswers
        <3>1. PICK t \in tasks :
                  \E apis \in SUBSET {"account", "open", "send", "change", "reps"} :
                      AnswerAndAsk(t, apis)
            <4>1. ASSUME NEW t \in tasks, NEW reply, AccountAnswer(t, reply)
                  PROVE  \E apis \in SUBSET {"account", "open", "send", "change", "reps"} :
                             AnswerAndAsk(t, apis)
                BY <4>1 DEF AccountAnswer
            <4>2. ASSUME NEW t \in tasks, AccountOpenAnswer(t)
                  PROVE  \E apis \in SUBSET {"account", "open", "send", "change", "reps"} :
                             AnswerAndAsk(t, apis)
                BY <4>2 DEF AccountOpenAnswer, SummaryTypes
            <4>3. ASSUME NEW t \in tasks, NEW ok \in BOOLEAN,
                         BlocksSummaryAnswer(t, ok) \/ RepresentativesAnswer(t, ok)
                  PROVE  \E apis \in SUBSET {"account", "open", "send", "change", "reps"} :
                             AnswerAndAsk(t, apis)
                BY <4>3 DEF BlocksSummaryAnswer, RepresentativesAnswer, Answered
            <4> QED
                BY <2>2, <4>1, <4>2, <4>3 DEF AccountAnswers
        <3> QED
            BY <1>0, <2>0, <3>1, AnswersOnSubject
    <2> QED
        BY <1>6, <2>1, <2>2
<1>7. CASE focus = "charts" /\ (ChartAsks \/ ChartAnswers)
    <2>1. ASSUME NEW chart \in Charts, LoadChart(chart)
          PROVE  OnSubject'
        <3>1. \/ TakeEvery({}) \/ TakeLatest(chart[1], {})
              \/ TakeEvery({Request(chart[1], "chart", chart)})
              \/ TakeLatest(chart[1], {Request(chart[1], "chart", chart)})
            BY <2>1 DEF LoadChart
        <3>2. "chart" \in DOMAIN SubjectOf /\ SubjectOf["chart"] = focus
            BY <1>7 DEF SubjectOf
        <3> QED
            BY <1>0, <3>1, <3>2, TakesOnSubject
    <2>2. ASSUME NEW t \in tasks, NEW ok \in BOOLEAN, ChartAnswer(t, ok)
          PROVE  OnSubject'
        BY <1>0, <2>2, AnswersOnSubject DEF ChartAnswer, Answered
    <2> QED
        BY <1>7, <2>1, <2>2 DEF ChartAsks, ChartAnswers
<1>8. CASE focus = "identity" /\ IdentityNext /\ UNCHANGED pageVars
    BY <1>0, <1>8 DEF OnSubject, pageVars, requestVars
<1> QED
    BY <1>1, <1>2, <1>3, <1>4, <1>5, <1>6, <1>7, <1>8, StepsOnSubject

-----------------------------------------------------------------------------
(* The other pages rest *)

\* What no step of another subject changes.
LEMMA EventsRest ==
    ASSUME OnSubject, MCNext, focus # "events"
    PROVE  UNCHANGED events
<1>1. focus = "table" /\ TablePage => UNCHANGED events
    BY DEF TablePage, SetSelectedDataView, DataViewChanged, DataViewRenamed
<1>2. focus = "posts" /\ PostsPage => UNCHANGED events
    BY DEF PostsPage, GetPosts
<1>3. DocsPage \/ SinglePages => UNCHANGED events
    BY DEF DocsPage, GetDoc, SinglePages, GetSingle
<1>4. \A t \in tasks, ok \in BOOLEAN :
          DataViewAnswer(t, ok) \/ PostsAnswer(t, ok) \/ DocAnswer(t, ok)
          \/ CommitAnswer(t, ok) \/ SingleAnswer(t, ok) => UNCHANGED events
    BY DEF DataViewAnswer, PostsAnswer, DocAnswer, CommitAnswer, SingleAnswer
<1> QED
    BY <1>1, <1>2, <1>3, <1>4, StepsOnSubject DEF browsingVars, pageVars

LEMMA TableRests ==
    ASSUME OnSubject, MCNext, focus # "table"
    PROVE  UNCHANGED table
<1>1. (\E params \in Filters : GetNetworkEvents(params)) => UNCHANGED table
    BY DEF GetNetworkEvents
<1>2. PostsPage \/ DocsPage \/ SinglePages => UNCHANGED table
    BY DEF PostsPage, GetPosts, DocsPage, GetDoc, SinglePages, GetSingle
<1>3. \A t \in tasks, ok \in BOOLEAN :
          NetworkEventsAnswer(t, ok) \/ PostsAnswer(t, ok) \/ DocAnswer(t, ok)
          \/ CommitAnswer(t, ok) \/ SingleAnswer(t, ok) => UNCHANGED table
    BY DEF NetworkEventsAnswer, PostsAnswer, DocAnswer, CommitAnswer, SingleAnswer
<1> QED
    BY <1>1, <1>2, <1>3, StepsOnSubject DEF browsingVars, pageVars

LEMMA PostsRest ==
    ASSUME OnSubject, MCNext, focus # "posts"
    PROVE  UNCHANGED <<feed, asked_age>>
<1>1. (\E params \in Filters : GetNetworkEvents(params)) => UNCHANGED <<feed, asked_age>>
    BY DEF GetNetworkEvents, history
<1>2. TablePage => UNCHANGED <<feed, asked_age>>
    BY DEF TablePage, SetSelectedDataView, DataViewChanged, DataViewRenamed, RequestTable
<1>3. DocsPage \/ SinglePages => UNCHANGED <<feed, asked_age>>
    BY DEF DocsPage, GetDoc, SinglePages, GetSingle, history
<1>4. \A t \in tasks, ok \in BOOLEAN :
          NetworkEventsAnswer(t, ok) \/ DataViewAnswer(t, ok) \/ DocAnswer(t, ok)
          \/ CommitAnswer(t, ok) \/ SingleAnswer(t, ok) => UNCHANGED <<feed, asked_age>>
    BY DEF NetworkEventsAnswer, DataViewAnswer, DocAnswer, CommitAnswer, SingleAnswer, history
<1> QED
    BY <1>1, <1>2, <1>3, <1>4, StepsOnSubject DEF browsingVars, history, pageVars

LEMMA DocsRest ==
    ASSUME OnSubject, MCNext, focus # "docs"
    PROVE  UNCHANGED docs
<1>1. (\E params \in Filters : GetNetworkEvents(params)) => UNCHANGED docs
    BY DEF GetNetworkEvents
<1>2. TablePage => UNCHANGED docs
    BY DEF TablePage, SetSelectedDataView, DataViewChanged, DataViewRenamed
<1>3. PostsPage \/ SinglePages => UNCHANGED docs
    BY DEF PostsPage, GetPosts, SinglePages, GetSingle
<1>4. \A t \in tasks, ok \in BOOLEAN :
          NetworkEventsAnswer(t, ok) \/ DataViewAnswer(t, ok) \/ PostsAnswer(t, ok)
          \/ SingleAnswer(t, ok) => UNCHANGED docs
    BY DEF NetworkEventsAnswer, DataViewAnswer, PostsAnswer, SingleAnswer
<1> QED
    BY <1>1, <1>2, <1>3, <1>4, StepsOnSubject DEF browsingVars, pageVars

LEMMA ChartsRest ==
    ASSUME OnSubject, MCNext, focus # "charts"
    PROVE  UNCHANGED <<request_history, charts>>
<1>1. AccountAsks => UNCHANGED <<request_history, charts>>
    BY DEF AccountAsks, GetAccount, GetRepresentatives
<1>2. AccountAnswers => UNCHANGED <<request_history, charts>>
    BY DEF AccountAnswers, AccountAnswer, AccountOpenAnswer, BlocksSummaryAnswer,
           RepresentativesAnswer
<1> QED
    BY <1>1, <1>2, StepsOnSubject DEF accountVars, pageVars
-----------------------------------------------------------------------------
(* Each page *)

LEMMA EventsKept ==
    ASSUME OnSubject, EventsInv, MCNext
    PROVE  EventsInv'
<1>1. CASE focus # "events"
    BY <1>1, EventsRest DEF EventsInv, EventsAreTheLastAsked
<1>2. CASE focus = "events"
    <2>1. ASSUME NEW params \in Filters, GetNetworkEvents(params)
          PROVE  EventsInv'
        BY <2>1 DEF GetNetworkEvents, EventsInv, EventsAreTheLastAsked
    <2>2. ASSUME NEW t \in tasks, NEW ok \in BOOLEAN, NetworkEventsAnswer(t, ok)
          PROVE  EventsInv'
        BY <2>2 DEF NetworkEventsAnswer, IsCurrentRequest, EventsInv, EventsAreTheLastAsked
    <2> QED
        BY <1>2, <2>1, <2>2, StepsOnSubject
<1> QED
    BY <1>1, <1>2

\* A request of one watcher leaves none of the other's, or the two crossed.
LEMMA TableAsked ==
    ASSUME OnSubject, TableInv, focus = "table", UNCHANGED focus,
           NEW watcher, NEW view \in Views, NEW state \in TableStates,
           RequestTable(watcher, view, state),
           selected' = view, views' \in [Views -> TableStates], views'[view] = state
    PROVE  TableInv'
<1>1. table' = [current_request |-> view, status |-> "pending", result |-> None]
    BY DEF RequestTable, AskedFor
<1>2. \A t \in tasks : t.api = "table"
    BY DEF OnSubject, SubjectOf
<1>3. ASSUME "table" \notin crossed', NEW t \in tasks'
      PROVE  t.params = Shown(view, state)
    <2>1. \A u \in tasks : u.watcher = watcher
        BY <1>2, <1>3 DEF RequestTable
    <2>2. t \in Wanted(watcher, view, state)
        BY <2>1 DEF RequestTable, WatchTable, TakeLatest
    <2> QED
        BY <2>2 DEF Wanted, Request
<1> QED
    BY <1>1, <1>3 DEF TableInv

LEMMA TableKept ==
    ASSUME OnSubject, TableInv, MCNext
    PROVE  TableInv'
<1>0. UNCHANGED focus
    BY DEF MCNext
<1>1. CASE focus # "table"
    BY <1>0, <1>1, TableRests DEF TableInv
<1>2. CASE focus = "table"
    <2>1. ASSUME NEW view \in Views, SetSelectedDataView(view)
          PROVE  TableInv'
        BY <1>0, <1>2, <2>1, TableAsked DEF SetSelectedDataView, TableInv
    <2>2. ASSUME NEW state \in TableStates, DataViewChanged(state)
          PROVE  TableInv'
        <3>1. /\ selected' = selected /\ selected \in Views
              /\ views' \in [Views -> TableStates] /\ views'[selected] = state
            BY <1>2, <2>2 DEF DataViewChanged, TableInv
        <3> QED
            BY <1>0, <1>2, <2>2, <3>1, TableAsked DEF DataViewChanged
    <2>3. CASE DataViewRenamed
        <3>1. tasks' \subseteq tasks
            BY <2>3 DEF DataViewRenamed, WatchTable, TakeLatest
        <3> QED
            BY <1>0, <1>2, <2>3, <3>1 DEF DataViewRenamed, TableInv
    <2>4. ASSUME NEW t \in tasks, NEW ok \in BOOLEAN, DataViewAnswer(t, ok)
          PROVE  TableInv'
        <3>1. tasks' \subseteq tasks
            BY <2>4 DEF DataViewAnswer, Answered, AnswerAndAsk
        <3>2. UNCHANGED <<views, selected, crossed>>
            BY <2>4 DEF DataViewAnswer, history
        <3>3. /\ table' = [current_request |-> table'.current_request,
                           status |-> table'.status, result |-> table'.result]
              /\ table'.status = "completed" => table'.result = t.params
            BY <2>4 DEF DataViewAnswer, TableInv
        <3> QED
            BY <1>0, <1>2, <3>1, <3>2, <3>3 DEF TableInv
    <2> QED
        BY <1>2, <2>1, <2>2, <2>3, <2>4, StepsOnSubject DEF TablePage
<1> QED
    BY <1>1, <1>2

LEMMA PostsKept ==
    ASSUME OnSubject, PostsInv, MCNext
    PROVE  PostsInv'
<1>0. UNCHANGED focus
    BY DEF MCNext
<1>1. CASE focus # "posts"
    BY <1>0, <1>1, PostsRest DEF PostsInv
<1>2. CASE focus = "posts"
    <2>0. \A t \in tasks : t.api = "posts"
        BY <1>2 DEF OnSubject, SubjectOf
    <2>1. ASSUME NEW list \in Lists, NEW age \in AgesOf[list], GetPosts(list, age)
          PROVE  PostsInv'
        <3>1. age \in Ages
            BY DEF Ages
        <3>2. /\ feed' \in [Lists -> [is_pending : BOOLEAN, post_ids : SUBSET Ages]]
              /\ asked_age' \in [Lists -> Ages \cup {None}]
            BY <2>1, <3>1 DEF GetPosts, PostsInv
        <3>3. \A t \in tasks' : t \in tasks \/ t.params = PostsFor(list, age)
            BY <2>1 DEF GetPosts, TakeEvery, Request
        <3>4. \A t \in tasks' : t.params \in [list : Lists, age : Ages]
            BY <1>2, <3>1, <3>3 DEF PostsInv, PostsFor
        <3>5. ASSUME NEW l \in Lists, l \notin crossed'
              PROVE  /\ feed'[l].post_ids \subseteq {asked_age'[l]}
                     /\ \A t \in tasks' : t.params.list = l => t.params.age = asked_age'[l]
            <4>1. CASE l = list
                <5>1. \A t \in tasks : t.params.list # l
                    BY <2>0, <2>1, <3>5, <4>1 DEF GetPosts
                <5>2. feed'[l].post_ids = {} /\ asked_age'[l] = age
                    BY <2>1, <4>1 DEF GetPosts, PostsInv
                <5> QED
                    BY <3>3, <5>1, <5>2 DEF PostsFor
            <4>2. CASE l # list
                <5>1. l \notin crossed /\ feed'[l] = feed[l] /\ asked_age'[l] = asked_age[l]
                    BY <2>1, <3>5, <4>2 DEF GetPosts, PostsInv
                <5> QED
                    BY <1>2, <3>3, <4>2, <5>1 DEF PostsInv, PostsFor
            <4> QED
                BY <4>1, <4>2
        <3> QED
            BY <1>0, <1>2, <3>2, <3>4, <3>5 DEF PostsInv
    <2>2. ASSUME NEW t \in tasks, NEW ok \in BOOLEAN, PostsAnswer(t, ok)
          PROVE  PostsInv'
        <3>1. t.params \in [list : Lists, age : Ages]
            BY <1>2 DEF PostsInv
        <3>2. tasks' \subseteq tasks
            BY <2>2 DEF PostsAnswer, Answered, AnswerAndAsk
        <3>3. UNCHANGED <<crossed, asked_age>>
            BY <2>2 DEF PostsAnswer, history
        <3>4. /\ feed' \in [Lists -> [is_pending : BOOLEAN, post_ids : SUBSET Ages]]
              /\ \A l \in Lists : l # t.params.list => feed'[l] = feed[l]
              /\ feed'[t.params.list].post_ids \subseteq
                     feed[t.params.list].post_ids \cup {t.params.age}
            <4>1. /\ t.params.list \in Lists /\ t.params.age \in Ages
                  /\ feed \in [Lists -> [is_pending : BOOLEAN, post_ids : SUBSET Ages]]
                BY <3>1 DEF PostsInv
            <4>2. PICK ids \in SUBSET Ages :
                      /\ feed' = [feed EXCEPT ![t.params.list].is_pending = FALSE,
                                              ![t.params.list].post_ids = ids]
                      /\ ids \subseteq feed[t.params.list].post_ids \cup {t.params.age}
                <5>1. feed[t.params.list].post_ids \cup {t.params.age} \in SUBSET Ages
                    BY <4>1
                <5>2. CASE ok
                    <6>1. feed' = [feed EXCEPT ![t.params.list].is_pending = FALSE,
                                               ![t.params.list].post_ids =
                                                   feed[t.params.list].post_ids
                                                   \cup {t.params.age}]
                        BY <2>2, <5>2 DEF PostsAnswer
                    <6> QED
                        BY <5>1, <6>1, Zenon
                <5>3. CASE ~ ok
                    <6>1. feed' = [feed EXCEPT ![t.params.list].is_pending = FALSE,
                                               ![t.params.list].post_ids =
                                                   feed[t.params.list].post_ids]
                        BY <2>2, <5>3 DEF PostsAnswer
                    <6>2. feed[t.params.list].post_ids \in SUBSET Ages
                        BY <5>1
                    <6>3. feed[t.params.list].post_ids \subseteq
                              feed[t.params.list].post_ids \cup {t.params.age}
                        OBVIOUS
                    <6> QED
                        BY <6>1, <6>2, <6>3, Zenon
                <5> QED
                    BY <5>2, <5>3
            <4>3. /\ feed' \in [Lists -> [is_pending : BOOLEAN, post_ids : SUBSET Ages]]
                  /\ \A l \in Lists : l # t.params.list => feed'[l] = feed[l]
                  /\ feed'[t.params.list].post_ids = ids
                <5>1. PICK list \in Lists : list = t.params.list
                    BY <4>1
                <5>2. feed' = [feed EXCEPT ![list].is_pending = FALSE,
                                           ![list].post_ids = ids]
                    BY <4>2, <5>1
                <5> QED
                    BY <4>1, <5>1, <5>2
            <4> QED
                BY <4>2, <4>3
        <3>5. \A l \in Lists \ crossed : feed'[l].post_ids \subseteq {asked_age[l]}
            BY <1>2, <3>4 DEF PostsInv
        <3> QED
            BY <1>0, <1>2, <3>2, <3>3, <3>4, <3>5 DEF PostsInv
    <2> QED
        BY <1>2, <2>1, <2>2, StepsOnSubject DEF PostsPage
<1> QED
    BY <1>1, <1>2

LEMMA DocsKept ==
    ASSUME OnSubject, DocsInv, MCNext
    PROVE  DocsInv'
<1>0. UNCHANGED focus
    BY DEF MCNext
<1>1. CASE focus # "docs"
    BY <1>0, <1>1, DocsRest DEF DocsInv, CommitsBelongToContent
<1>2. CASE focus = "docs"
    <2>1. ASSUME NEW path \in Paths, GetDoc(path)
          PROVE  DocsInv'
        <3>1. /\ docs' \in [Paths -> [is_pending : BOOLEAN, content : BOOLEAN,
                                      commit : BOOLEAN]]
              /\ docs'[path] = NewDoc
              /\ \A p \in Paths : p # path => docs'[p] = docs[p]
            BY <2>1 DEF GetDoc, DocsInv, NewDoc
        <3>2. PICK new : /\ new.watcher = DocWatcher(path) /\ new.api = "doc"
                         /\ new.params = path
                         /\ tasks' = {t \in tasks : t.watcher # DocWatcher(path)} \cup {new}
            BY <2>1 DEF GetDoc, TakeLatest, Request
        <3>3. \A t \in tasks' : t = new \/ (t \in tasks /\ t.watcher # DocWatcher(path))
            BY <3>2
        <3>4. \A t \in tasks' : t # new => t.params # path
            BY <1>2, <3>3 DEF DocsInv
        <3>5. \A t \in tasks' : /\ t.params \in Paths
                                /\ t.watcher = DocWatcher(t.params)
                                /\ t.api = "doc" => ~ docs'[t.params].commit
                                /\ t.api = "commit" => docs'[t.params].content
            BY <1>2, <3>1, <3>2, <3>3, <3>4 DEF DocsInv, NewDoc
        <3>6. \A t, u \in tasks' : t.watcher = u.watcher => t = u
            BY <1>2, <3>2, <3>3 DEF DocsInv
        <3>7. CommitsBelongToContent'
            BY <3>1 DEF DocsInv, CommitsBelongToContent, NewDoc
        <3> QED
            BY <1>0, <3>1, <3>5, <3>6, <3>7 DEF DocsInv
    <2>2. ASSUME NEW t \in tasks, NEW ok \in BOOLEAN, DocAnswer(t, ok)
          PROVE  DocsInv'
        <3>1. /\ t.params \in Paths /\ t.watcher = DocWatcher(t.params)
              /\ ~ docs[t.params].commit
            BY <1>2, <2>2 DEF DocAnswer, DocsInv
        <3>2. /\ docs' \in [Paths -> [is_pending : BOOLEAN, content : BOOLEAN,
                                      commit : BOOLEAN]]
              /\ docs'[t.params].content = ok /\ ~ docs'[t.params].commit
              /\ \A p \in Paths : p # t.params => docs'[p] = docs[p]
            BY <2>2, <3>1 DEF DocAnswer, DocsInv
        <3>3. \A u \in tasks' :
                  \/ u \in tasks /\ u # t
                  \/ ok /\ u.watcher = t.watcher /\ u.api = "commit" /\ u.params = t.params
            BY <2>2 DEF DocAnswer, AnswerAndAsk, OnSubject
        <3>4. \A u, v \in tasks' : u \notin tasks /\ v \notin tasks => u = v
            BY <2>2 DEF DocAnswer, AnswerAndAsk
        <3>5. \A u \in tasks : u # t => u.params # t.params /\ u.watcher # t.watcher
            BY <1>2 DEF DocsInv
        <3>6. \A u \in tasks' : /\ u.params \in Paths
                                /\ u.watcher = DocWatcher(u.params)
                                /\ u.api = "doc" => ~ docs'[u.params].commit
                                /\ u.api = "commit" => docs'[u.params].content
            <4>1. ASSUME NEW u \in tasks, u # t
                  PROVE  /\ u.params \in Paths /\ u.watcher = DocWatcher(u.params)
                         /\ docs'[u.params] = docs[u.params]
                         /\ u.api = "doc" => ~ docs[u.params].commit
                         /\ u.api = "commit" => docs[u.params].content
                BY <1>2, <3>2, <3>5, <4>1 DEF DocsInv
            <4> QED
                BY <3>1, <3>2, <3>3, <4>1
        <3>7. ASSUME NEW u \in tasks', NEW v \in tasks', u.watcher = v.watcher
              PROVE  u = v
            <4>1. CASE u \in tasks /\ u # t
                <5>1. v \in tasks
                    BY <3>3, <3>5, <3>7, <4>1
                <5> QED
                    BY <1>2, <3>7, <4>1, <5>1 DEF DocsInv
            <4>2. CASE v \in tasks /\ v # t
                <5>1. u \in tasks
                    BY <3>3, <3>5, <3>7, <4>2
                <5> QED
                    BY <1>2, <3>7, <4>2, <5>1 DEF DocsInv
            <4>3. CASE ~ (u \in tasks /\ u # t) /\ ~ (v \in tasks /\ v # t)
                <5>1. u \in {[t EXCEPT !.api = "commit"]} /\ v \in {[t EXCEPT !.api = "commit"]}
                    BY <2>2, <4>3 DEF DocAnswer, AnswerAndAsk
                <5> QED
                    BY <5>1
            <4> QED
                BY <4>1, <4>2, <4>3
        <3>8. CommitsBelongToContent'
            BY <3>2 DEF DocsInv, CommitsBelongToContent
        <3> QED
            BY <1>0, <3>2, <3>6, <3>7, <3>8 DEF DocsInv
    <2>3. ASSUME NEW t \in tasks, NEW ok \in BOOLEAN, CommitAnswer(t, ok)
          PROVE  DocsInv'
        <3>1. t.params \in Paths /\ docs[t.params].content
            BY <1>2, <2>3 DEF CommitAnswer, DocsInv
        <3>2. /\ docs' \in [Paths -> [is_pending : BOOLEAN, content : BOOLEAN,
                                      commit : BOOLEAN]]
              /\ \A p \in Paths : docs'[p].content = docs[p].content
              /\ \A p \in Paths : p # t.params => docs'[p] = docs[p]
            BY <2>3, <3>1 DEF CommitAnswer, DocsInv
        <3>3. tasks' = tasks \ {t}
            BY <2>3 DEF CommitAnswer, Answered, AnswerAndAsk
        <3>4. \A u \in tasks' : u.params # t.params
            BY <1>2, <3>3 DEF DocsInv
        <3>5. CommitsBelongToContent'
            BY <3>1, <3>2 DEF DocsInv, CommitsBelongToContent
        <3> QED
            BY <1>0, <1>2, <3>2, <3>3, <3>4, <3>5 DEF DocsInv
    <2> QED
        BY <1>2, <2>1, <2>2, <2>3, StepsOnSubject DEF DocsPage
<1> QED
    BY <1>1, <1>2

LEMMA ChartsKept ==
    ASSUME OnSubject, ChartsInv, MCNext
    PROVE  ChartsInv'
<1>0. UNCHANGED focus
    BY DEF MCNext
<1>1. CASE focus # "charts"
    BY <1>0, <1>1, ChartsRest DEF ChartsInv
<1>2. CASE focus = "charts"
    <2>0. \A t \in tasks : t.api = "chart"
        BY <1>2 DEF OnSubject, SubjectOf
    <2>1. ASSUME NEW chart \in Charts, LoadChart(chart)
          PROVE  ChartsInv'
        <3> DEFINE r == Request(chart[1], "chart", chart)
        <3>0. r.watcher = chart[1] /\ r.api = "chart" /\ r.params = chart
            BY DEF Request
        <3> HIDE DEF r
        <3>1. \A t \in tasks' : t \in tasks \/ (t = r /\ chart \notin request_history)
            BY <2>1 DEF LoadChart, TakeEvery, TakeLatest, r
        <3>2. \A t \in tasks : t \in tasks' \/ t.params \in dropped'
            BY <1>2, <2>1 DEF LoadChart, TakeEvery, TakeLatest, ChartsInv
        <3>3. /\ dropped \subseteq dropped' /\ charts'.got = charts.got
              /\ charts' = [got |-> charts'.got, loading |-> charts'.loading]
            BY <2>1 DEF LoadChart, ChartsInv
        <3>4. /\ request_history \subseteq request_history'
              /\ request_history' \subseteq request_history \cup {chart}
              /\ IsRecorded(chart) => chart \in request_history'
              /\ ~ IsRecorded(chart) => request_history' = request_history
            BY <2>1 DEF LoadChart
        <3>5. \A t \in tasks' : t.params \in Charts /\ t.watcher = t.params[1]
                                /\ t.api = "chart"
            BY <1>2, <2>0, <3>0, <3>1 DEF ChartsInv
        <3>6. \A t \in tasks' : IsRecorded(t.params) => t.params \in request_history'
            BY <1>2, <3>0, <3>1, <3>4 DEF ChartsInv
        <3>7. ASSUME NEW c \in charts.got, IsRecorded(c)
              PROVE  c \in request_history' /\ ~ InFlight(c)'
            <4>1. c \in request_history /\ ~ InFlight(c)
                BY <1>2, <3>7 DEF ChartsInv
            <4> QED
                BY <3>0, <3>1, <3>4, <4>1 DEF InFlight, Waiting
        <3>8. \A t, u \in tasks' : IsRecorded(t.params) /\ t.params = u.params => t = u
            BY <1>2, <3>0, <3>1 DEF ChartsInv
        <3>9. ASSUME NEW c \in request_history'
              PROVE  c \in charts'.got \/ InFlight(c)' \/ c \in dropped'
            <4>1. CASE c \in request_history
                <5>1. CASE InFlight(c)
                    <6>1. PICK t \in tasks : t.params = c /\ t.api = "chart"
                        BY <5>1 DEF InFlight, Waiting
                    <6> QED
                        BY <3>2, <6>1 DEF InFlight, Waiting
                <5> QED
                    BY <1>2, <3>3, <4>1, <5>1 DEF ChartsInv, ChartsRetryable
            <4>2. CASE c \notin request_history
                <5>1. c = chart /\ r \in tasks'
                    BY <2>1, <3>4, <4>2 DEF LoadChart, TakeEvery, TakeLatest, r
                <5> QED
                    BY <3>0, <5>1 DEF InFlight, Waiting
            <4> QED
                BY <4>1, <4>2
        <3> QED
            BY <1>0, <1>2, <3>3, <3>5, <3>6, <3>7, <3>8, <3>9 DEF ChartsInv, ChartsRetryable
    <2>2. ASSUME NEW t \in tasks, NEW ok \in BOOLEAN, ChartAnswer(t, ok)
          PROVE  ChartsInv'
        <3>1. tasks' = tasks \ {t}
            BY <2>2 DEF ChartAnswer, Answered, AnswerAndAsk
        <3>2. /\ charts' = [got |-> charts'.got, loading |-> charts'.loading]
              /\ charts'.got = IF ok THEN charts.got \cup {t.params} ELSE charts.got
              /\ request_history' = IF ok THEN request_history
                                    ELSE request_history \ {t.params}
              /\ UNCHANGED dropped
            BY <2>2 DEF ChartAnswer
        <3>3. ASSUME NEW u \in tasks', IsRecorded(u.params)
              PROVE  u.params # t.params /\ u.params \in request_history'
            BY <1>2, <3>1, <3>2, <3>3 DEF ChartsInv
        <3>4. ASSUME NEW c \in charts'.got, IsRecorded(c)
              PROVE  c \in request_history' /\ ~ InFlight(c)'
            <4>1. CASE c = t.params
                <5>1. ok
                    BY <1>2, <2>0, <3>2, <3>4, <4>1 DEF ChartsInv, InFlight, Waiting
                <5> QED
                    BY <1>2, <3>2, <3>3, <3>4, <4>1, <5>1 DEF ChartsInv, InFlight, Waiting
            <4>2. CASE c # t.params
                BY <1>2, <3>1, <3>2, <3>4, <4>2 DEF ChartsInv, InFlight, Waiting
            <4> QED
                BY <4>1, <4>2
        <3>5. ASSUME NEW c \in request_history'
              PROVE  c \in charts'.got \/ InFlight(c)' \/ c \in dropped'
            <4>1. CASE c = t.params
                BY <3>2, <3>5, <4>1
            <4>2. CASE c # t.params
                BY <1>2, <3>1, <3>2, <3>5, <4>2
                DEF ChartsInv, ChartsRetryable, InFlight, Waiting
            <4> QED
                BY <4>1, <4>2
        <3> QED
            BY <1>0, <1>2, <3>1, <3>2, <3>3, <3>4, <3>5 DEF ChartsInv, ChartsRetryable
    <2> QED
        BY <1>2, <2>1, <2>2, StepsOnSubject DEF ChartAsks, ChartAnswers
<1> QED
    BY <1>1, <1>2

-----------------------------------------------------------------------------
(* Theorems *)

LEMMA PagesStart ==
    ASSUME MCInit
    PROVE  PagesInv
<1>1. OnSubject /\ tasks = {}
    BY DEF MCInit, RequestsInit, OnSubject
<1>2. EventsInv
    BY DEF MCInit, BrowsingInit, EventsInv, EventsAreTheLastAsked
<1>3. TableInv
    BY <1>1, PagesAssumption DEF MCInit, BrowsingInit, TableInv
<1>4. PostsInv
    BY <1>1 DEF MCInit, BrowsingInit, PostsInv
<1>5. DocsInv
    BY <1>1 DEF MCInit, BrowsingInit, DocsInv, CommitsBelongToContent, NewDoc
<1>6. ChartsInv
    BY <1>1 DEF MCInit, AccountsInit, ChartsInv, ChartsRetryable
<1> QED
    BY <1>1, <1>2, <1>3, <1>4, <1>5, <1>6 DEF PagesInv

LEMMA PagesGoOn ==
    ASSUME PagesInv, [MCNext]_MCVars
    PROVE  PagesInv'
<1>1. CASE MCNext
    BY <1>1, OnSubjectKept, EventsKept, TableKept, PostsKept, DocsKept, ChartsKept
    DEF PagesInv
<1>2. CASE UNCHANGED MCVars
    <2>1. UNCHANGED <<browsingVars, accountVars, requestVars, focus>>
        BY <1>2 DEF MCVars, pageVars
    <2>2. OnSubject'
        BY <2>1 DEF PagesInv, OnSubject, requestVars
    <2>3. EventsInv'
        BY <2>1 DEF PagesInv, EventsInv, EventsAreTheLastAsked, browsingVars
    <2>4. TableInv'
        BY <2>1 DEF PagesInv, TableInv, browsingVars, history, requestVars
    <2>5. PostsInv'
        BY <2>1 DEF PagesInv, PostsInv, browsingVars, history, requestVars
    <2>6. DocsInv'
        BY <2>1 DEF PagesInv, DocsInv, CommitsBelongToContent, browsingVars, requestVars
    <2>7. ChartsInv'
        BY <2>1 DEF PagesInv, ChartsInv, ChartsRetryable, InFlight, Waiting, accountVars,
                    requestVars
    <2> QED
        BY <2>2, <2>3, <2>4, <2>5, <2>6, <2>7 DEF PagesInv
<1> QED
    BY <1>1, <1>2

\* Requests of a chart are one or none.
LEMMA AskedOnce ==
    ASSUME OnSubject, ChartsInv
    PROVE  ChartsAskedOnce
<1> SUFFICES ASSUME NEW chart \in Charts, IsRecorded(chart)
             PROVE  /\ Cardinality(Waiting("chart", chart)) <= 1
                    /\ chart \in charts.got => ~ InFlight(chart)
    BY DEF ChartsAskedOnce
<1>1. CASE focus # "charts"
    <2>1. Waiting("chart", chart) = {} /\ charts.got = {}
        BY <1>1 DEF OnSubject, SubjectOf, ChartsInv, Waiting
    <2> QED
        BY <2>1, FS_EmptySet
<1>2. CASE focus = "charts"
    <2>1. chart \in charts.got => ~ InFlight(chart)
        BY <1>2 DEF ChartsInv
    <2>2. \A t, u \in Waiting("chart", chart) : t = u
        BY <1>2 DEF ChartsInv, Waiting
    <2>3. CASE Waiting("chart", chart) = {}
        BY <2>1, <2>3, FS_EmptySet
    <2>4. CASE Waiting("chart", chart) # {}
        <3>1. PICK t : Waiting("chart", chart) = {t}
            BY <2>2, <2>4
        <3> QED
            BY <2>1, <3>1, FS_Singleton
    <2> QED
        BY <2>3, <2>4
<1> QED
    BY <1>1, <1>2

\* What a page shows belongs to what was last asked of it, however its requests
\* are ordered, but where two for a table or a list crossed; a commit stands
\* below a document that is there; and a chart has one request at a time, none
\* once it is there, and can be asked for again if it failed.
THEOREM PagesShowWhatWasAsked == MCSpec => []ShownIsAsked
<1>1. PagesInv => ShownIsAsked
    <2> SUFFICES ASSUME PagesInv
                 PROVE  ShownIsAsked
        OBVIOUS
    <2>1. EventsAreTheLastAsked /\ CommitsBelongToContent
        BY DEF PagesInv, EventsInv, DocsInv
    <2>2. TableShowsItsView
        BY PagesAssumption DEF PagesInv, TableInv, TableShowsItsView
    <2>3. ListsShowOneAge
        BY DEF PagesInv, PostsInv, ListsShowOneAge
    <2>4. ChartsAskedOnce
        BY AskedOnce DEF PagesInv
    <2>5. ChartsRetryable
        BY DEF PagesInv, ChartsInv, ChartsRetryable
    <2> QED
        BY <2>1, <2>2, <2>3, <2>4, <2>5 DEF ShownIsAsked
<1> QED
    BY PagesStart, PagesGoOn, <1>1, PTL DEF MCSpec

\* The inductive invariant of the tabs: the start.
LEMMA IdentityStarts ==
    ASSUME MCInit
    PROVE  IdentityInv
    BY DEF MCInit, IdentityInit, NoIdentity, IdentityInv

\* A key made or imported in one tab is new, so no other tab has it.
LEMMA IdentityKept ==
    ASSUME IdentityInv, IdentityNext
    PROVE  IdentityInv'
<1>1. ASSUME NEW tab \in Tabs, NEW key \in Keys, NEW backed_up \in BOOLEAN,
             SaveLocal(tab, key, backed_up)
      PROVE  IdentityInv'
    <2>1. /\ identity' = [identity EXCEPT ![tab] =
                 [method |-> "local", pubkey |-> key, needs_backup |-> ~ backed_up]]
          /\ storage' = [key |-> key, backed_up |-> backed_up]
          /\ key \notin made /\ made' = made \cup {key}
        BY <1>1 DEF SaveLocal, Set
    <2>2. \A other \in Tabs : other # tab => identity'[other] = identity[other]
        BY <2>1 DEF IdentityInv
    <2>3. identity'[tab] = [method |-> "local", pubkey |-> key, needs_backup |-> ~ backed_up]
        BY <2>1 DEF IdentityInv
    <2>4. identity' \in [Tabs -> [method : {"none", "nip07", "local"},
                                  pubkey : Keys \cup {ExtensionKey, NoKey},
                                  needs_backup : BOOLEAN]]
        BY <2>1 DEF IdentityInv
    <2>5. /\ storage' \in [key : Keys \cup {NoKey}, backed_up : BOOLEAN]
          /\ made' \subseteq Keys /\ storage'.key \in made' \cup {NoKey}
        BY <2>1 DEF IdentityInv
    <2>6. ASSUME NEW other \in Tabs
          PROVE  /\ identity'[other].method = "none" => identity'[other].pubkey = NoKey
                 /\ identity'[other].method = "nip07" => identity'[other].pubkey = ExtensionKey
                 /\ identity'[other].method = "local" => identity'[other].pubkey \in made'
                 /\ identity'[other].method = "local"
                    /\ identity'[other].pubkey = storage'.key
                    /\ ~ storage'.backed_up => identity'[other].needs_backup
        <3>1. CASE other = tab
            <4>1. /\ identity'[other].method = "local" /\ identity'[other].pubkey = key
                  /\ identity'[other].needs_backup = ~ backed_up
                BY <2>3, <3>1
            <4>2. storage'.key = key /\ storage'.backed_up = backed_up
                BY <2>1
            <4>3. ~ storage'.backed_up => identity'[other].needs_backup
                <5>1. CASE backed_up = TRUE
                    BY <4>2, <5>1
                <5>2. CASE backed_up = FALSE
                    BY <4>1, <5>2
                <5> QED
                    BY <5>1, <5>2
            <4>4. identity'[other].pubkey \in made'
                BY <2>1, <4>1
            <4> QED
                BY <4>1, <4>3, <4>4
        <3>2. CASE other # tab
            <4>1. identity'[other] = identity[other] /\ storage'.key = key
                BY <2>1, <2>2, <3>2
            <4>2. identity[other].method = "local" => identity[other].pubkey \in made
                BY DEF IdentityInv
            <4>3. ~ (identity[other].method = "local" /\ identity[other].pubkey = key)
                BY <2>1, <4>2
            <4> QED
                BY <2>1, <4>1, <4>2, <4>3 DEF IdentityInv
        <3> QED
            BY <3>1, <3>2
    <2> QED
        BY <2>4, <2>5, <2>6 DEF IdentityInv
<1>2. ASSUME NEW tab \in Tabs, MarkBackedUp(tab)
      PROVE  IdentityInv'
    BY <1>2 DEF MarkBackedUp, IdentityInv
<1>3. ASSUME NEW tab \in Tabs, Reload(tab)
      PROVE  IdentityInv'
    BY <1>3 DEF Reload, NoIdentity, IdentityInv
<1>4. ASSUME NEW tab \in Tabs, ReadLocal(tab)
      PROVE  IdentityInv'
    <2>1. CASE storage.key = NoKey
        BY <1>4, <2>1 DEF ReadLocal, IdentityInv
    <2>2. CASE storage.key # NoKey
        <3> DEFINE new == [method |-> "local", pubkey |-> storage.key,
                           needs_backup |-> ~ storage.backed_up]
        <3>1. storage.key \in made /\ storage.key \in Keys /\ storage.backed_up \in BOOLEAN
            BY <2>2 DEF IdentityInv
        <3>2. identity' = [identity EXCEPT ![tab] = new] /\ UNCHANGED <<storage, made>>
            BY <1>4, <2>2 DEF ReadLocal, Set
        <3>3. new \in [method : {"none", "nip07", "local"},
                       pubkey : Keys \cup {ExtensionKey, NoKey}, needs_backup : BOOLEAN]
            BY <3>1
        <3>4. new.method = "local" /\ new.pubkey = storage.key
              /\ new.needs_backup = ~ storage.backed_up
            OBVIOUS
        <3> HIDE DEF new
        <3>5. /\ identity' \in [Tabs -> [method : {"none", "nip07", "local"},
                                         pubkey : Keys \cup {ExtensionKey, NoKey},
                                         needs_backup : BOOLEAN]]
              /\ identity'[tab] = new
              /\ \A other \in Tabs : other # tab => identity'[other] = identity[other]
            BY <3>2, <3>3 DEF IdentityInv
        <3> QED
            BY <3>1, <3>2, <3>4, <3>5 DEF IdentityInv
    <2> QED
        BY <2>1, <2>2
<1>5. ASSUME NEW tab \in Tabs, ExtensionAnswers(tab)
      PROVE  IdentityInv'
    BY <1>5 DEF ExtensionAnswers, Set, IdentityInv
<1>6. ASSUME NEW tab \in Tabs,
             Inject(tab) \/ FindExtension(tab) \/ LookAgain(tab) \/ ExtensionFails(tab)
      PROVE  IdentityInv'
    BY <1>6 DEF Inject, FindExtension, LookAgain, ExtensionFails, IdentityInv
<1> QED
    BY <1>1, <1>2, <1>3, <1>4, <1>5, <1>6 DEF IdentityNext, StartUp, CreateKey, ImportKey

LEMMA IdentityGoesOn ==
    ASSUME IdentityInv, [MCNext]_MCVars
    PROVE  IdentityInv'
<1>1. IdentityNext \/ UNCHANGED identityVars
    BY DEF MCNext, MCVars
<1>2. CASE UNCHANGED identityVars
    BY <1>2 DEF identityVars, IdentityInv
<1> QED
    BY <1>1, <1>2, IdentityKept

\* No tab drops the stored key it posts with before it was saved elsewhere:
\* whatever other tabs do, only a tab without a key, or with one it has
\* reason to hold saved, replaces what is stored.
THEOREM StoredKeysSurvive == MCSpec => UnsavedKeysSurvive
<1>1. IdentityInv /\ [MCNext]_MCVars => [\A tab \in Tabs : KeepsItsUnsavedKey(tab)]_MCVars
    <2> SUFFICES ASSUME IdentityInv, MCNext, NEW tab \in Tabs
                 PROVE  KeepsItsUnsavedKey(tab)
        BY DEF MCVars
    <2> SUFFICES ASSUME identity[tab].pubkey = storage.key, storage.key # NoKey,
                        ~ storage.backed_up, identity'[tab] # identity[tab]
                 PROVE  storage'.key = storage.key
        BY DEF KeepsItsUnsavedKey
    <2>1. IdentityNext
        BY DEF MCNext, identityVars
    <2>2. identity[tab].method = "local" /\ identity[tab].needs_backup
        BY IdentityAssumption DEF IdentityInv
    <2>3. ASSUME NEW other \in Tabs, NEW key \in Keys,
                 CreateKey(other, key) \/ ImportKey(other, key)
          PROVE  other # tab
        BY <2>2, <2>3 DEF CreateKey, ImportKey
    <2>4. ASSUME NEW other \in Tabs, NEW key \in Keys,
                 CreateKey(other, key) \/ ImportKey(other, key)
          PROVE  FALSE
        BY <2>3, <2>4 DEF CreateKey, ImportKey, SaveLocal, Set, IdentityInv
    <2>5. ASSUME NEW other \in Tabs, ~ MarkBackedUp(other),
                 Inject(other) \/ StartUp(other) \/ Reload(other)
          PROVE  UNCHANGED storage
        BY <2>5 DEF Inject, StartUp, FindExtension, LookAgain, ExtensionAnswers,
                    ExtensionFails, ReadLocal, Reload
    <2>6. ASSUME NEW other \in Tabs, MarkBackedUp(other)
          PROVE  storage'.key = storage.key
        BY <2>6 DEF MarkBackedUp, IdentityInv
    <2> QED
        BY <2>1, <2>4, <2>5, <2>6 DEF IdentityNext
<1> QED
    BY IdentityStarts, IdentityGoesOn, <1>1, PTL DEF MCSpec, UnsavedKeysSurvive
=============================================================================
