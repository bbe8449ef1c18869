---------------------------- MODULE BrowsingPages ---------------------------
(***************************************************************************)
(* The portal's pages that show what the API returned for their filters:   *)
(* network events, the table of representatives and its views, the lists   *)
(* of posts, documents, and the stores that hold one answer.  Rows are     *)
(* known by the request they answer.                                       *)
(***************************************************************************)
EXTENDS PageRequests

CONSTANTS
    Filters,        \* of the network events page
    Views,          \* data views
    DefaultView,
    TableStates,    \* what a view's table shows: columns, sort, filter
    NoColumns,      \* the table state with no columns
    AgesOf,         \* the ages each list of posts is asked for
    Paths,          \* of documents
    LabelPaths,     \* those of label pages
    Single,         \* stores that hold one answer
    SingleLatest,   \* those read by takeLatest
    Flagged         \* those with a flag while they load

ASSUME PagesAssumption ==
    /\ DefaultView \in Views /\ None # "completed"
    /\ NoColumns \in TableStates
    /\ LabelPaths \subseteq Paths
    /\ SingleLatest \subseteq Single /\ Flagged \subseteq Single

Lists == DOMAIN AgesOf

VARIABLES
    events,         \* network_events
    views,          \* data_views: the table state of each view
    selected,       \* app.selected_data_view_id
    table,          \* data_view_request
    feed,           \* postlists
    docs,
    singles,
    (* history, read by properties only *)
    crossed,        \* the table or list was asked while an earlier request ran
    abandoned,      \* what the table waits for was not asked, or was cancelled
    asked_age,      \* the age each list was last asked for
    opened          \* the path each watcher of documents was last asked for

history == <<crossed, abandoned, asked_age, opened>>
browsingVars == <<events, views, selected, table, feed, docs, singles, history>>

-----------------------------------------------------------------------------
(* Network events *)

GetNetworkEvents(params) ==
    /\ Dispatch
    /\ TakeLatest("events", {Request("events", "events", params)})
    /\ events' = [events EXCEPT !.params = params, !.is_loading = TRUE]
    /\ UNCHANGED <<views, selected, table, feed, docs, singles, history>>

IsCurrentRequest(params) == events.params = params

NetworkEventsAnswer(t, ok) ==
    /\ t.api = "events"
    /\ Answered(t)
    /\ events' = IF IsCurrentRequest(t.params)
                 THEN [events EXCEPT !.rows = IF ok THEN t.params ELSE None,
                                     !.is_loading = FALSE]
                 ELSE events
    /\ UNCHANGED <<views, selected, table, feed, docs, singles, history>>

-----------------------------------------------------------------------------
(* The table: selecting a view and changing one are two watchers, each with  *)
(* its own latest request.                                                   *)

AskedFor(view) == [current_request |-> view, status |-> "pending", result |-> None]

Shown(view, state) == [view |-> view, state |-> state]

\* handle_data_view_request: a table without columns is not asked for.
Wanted(watcher, view, state) ==
    IF state = NoColumns THEN {} ELSE {Request(watcher, "table", Shown(view, state))}

\* Mutant: every change is answered, in whatever order.
WatchTableEvery(watcher, new) == TakeEvery(new)

WatchTable(watcher, new) == TakeLatest(watcher, new)

RequestTable(watcher, view, state) ==
    /\ table' = AskedFor(view)
    /\ WatchTable(watcher, Wanted(watcher, view, state))
    /\ crossed' = IF \E t \in tasks : t.api = "table" /\ t.watcher # watcher
                  THEN crossed \cup {"table"} ELSE crossed \ {"table"}
    /\ abandoned' = (state = NoColumns)
    /\ UNCHANGED <<asked_age, opened>>

SetSelectedDataView(view) ==
    /\ Dispatch
    /\ selected' = view
    /\ RequestTable("set_selected", view, views[view])
    /\ UNCHANGED <<events, views, feed, docs, singles>>

DataViewChanged(state) ==
    /\ Dispatch
    /\ views' = [views EXCEPT ![selected] = state]
    /\ RequestTable("changed", selected, state)
    /\ UNCHANGED <<events, selected, feed, docs, singles>>

\* A change of the view but not of its table (view_state_changed is false):
\* nothing is asked, and still the watcher's last request is cancelled.
DataViewRenamed ==
    /\ Dispatch
    /\ WatchTable("changed", {})
    /\ abandoned' = (abandoned \/ \E t \in tasks : t.watcher = "changed")
    /\ UNCHANGED <<events, views, selected, table, feed, docs, singles,
                   crossed, asked_age, opened>>

\* Nothing compares the answer with current_request.
DataViewAnswer(t, ok) ==
    /\ t.api = "table"
    /\ Answered(t)
    /\ table' = IF ok THEN [table EXCEPT !.status = "completed", !.result = t.params]
                ELSE [table EXCEPT !.status = "error"]
    /\ UNCHANGED <<events, views, selected, feed, docs, singles, history>>

-----------------------------------------------------------------------------
(* Lists of posts *)

PostsFor(list, age) == [list |-> list, age |-> age]

GetPosts(list, age) ==
    /\ Dispatch
    /\ TakeEvery({Request("posts", "posts", PostsFor(list, age))})
    /\ feed' = [feed EXCEPT ![list] = [is_pending |-> TRUE, post_ids |-> {}]]
    /\ asked_age' = [asked_age EXCEPT ![list] = age]
    /\ crossed' = IF \E t \in tasks : t.api = "posts" /\ t.params.list = list
                  THEN crossed \cup {list} ELSE crossed \ {list}
    /\ UNCHANGED <<events, views, selected, table, docs, singles, abandoned, opened>>

\* mergeList adds the answer's posts to those the list has.
PostsAnswer(t, ok) ==
    /\ t.api = "posts"
    /\ Answered(t)
    /\ feed' = [feed EXCEPT ![t.params.list].is_pending = FALSE,
                            ![t.params.list].post_ids =
                                IF ok THEN @ \cup {t.params.age} ELSE @]
    /\ UNCHANGED <<events, views, selected, table, docs, singles, history>>

-----------------------------------------------------------------------------
(* Documents, and after them their last commit *)

NewDoc == [is_pending |-> TRUE, content |-> FALSE, commit |-> FALSE]

DocWatchers == {"doc", "label_doc"}

DocWatcher(path) == IF path \in LabelPaths THEN "label_doc" ELSE "doc"

GetDoc(path) ==
    /\ Dispatch
    /\ TakeLatest(DocWatcher(path), {Request(DocWatcher(path), "doc", path)})
    /\ docs' = [docs EXCEPT ![path] = NewDoc]
    /\ opened' = [opened EXCEPT ![DocWatcher(path)] = path]
    /\ UNCHANGED <<events, views, selected, table, feed, singles,
                   crossed, abandoned, asked_age>>

DocAnswer(t, ok) ==
    /\ t.api = "doc"
    /\ AnswerAndAsk(t, IF ok THEN {"commit"} ELSE {})
    /\ docs' = [docs EXCEPT ![t.params].is_pending = FALSE, ![t.params].content = ok]
    /\ UNCHANGED <<events, views, selected, table, feed, singles, history>>

CommitAnswer(t, ok) ==
    /\ t.api = "commit"
    /\ Answered(t)
    /\ docs' = [docs EXCEPT ![t.params].commit = @ \/ ok]
    /\ UNCHANGED <<events, views, selected, table, feed, singles, history>>

-----------------------------------------------------------------------------
(* Stores of one answer *)

GetSingle(s) ==
    /\ Dispatch
    /\ IF s \in SingleLatest THEN TakeLatest(s, {Request(s, "single", s)})
       ELSE TakeEvery({Request(s, "single", s)})
    /\ singles' = [singles EXCEPT ![s].is_pending = s \in Flagged]
    /\ UNCHANGED <<events, views, selected, table, feed, docs, history>>

SingleAnswer(t, ok) ==
    /\ t.api = "single"
    /\ Answered(t)
    /\ singles' = [singles EXCEPT ![t.params].is_pending = FALSE,
                                  ![t.params].has_data = @ \/ ok]
    /\ UNCHANGED <<events, views, selected, table, feed, docs, history>>

-----------------------------------------------------------------------------
(* Specification *)

BrowsingInit ==
    /\ events = [params |-> None, rows |-> None, is_loading |-> FALSE]
    /\ views \in [Views -> TableStates \ {NoColumns}]
    /\ selected = DefaultView
    /\ table = [current_request |-> None, status |-> None, result |-> None]
    /\ feed = [l \in Lists |-> [is_pending |-> TRUE, post_ids |-> {}]]
    /\ docs = [p \in Paths |-> NewDoc]
    /\ singles = [s \in Single |-> [is_pending |-> FALSE, has_data |-> FALSE]]
    /\ crossed = {} /\ abandoned = FALSE
    /\ asked_age = [l \in Lists |-> None]
    /\ opened = [w \in DocWatchers |-> None]

NetworkEventsPage == \E params \in Filters : GetNetworkEvents(params)

TablePage ==
    \/ \E view \in Views : SetSelectedDataView(view)
    \/ \E state \in TableStates : DataViewChanged(state)
    \/ DataViewRenamed

PostsPage == \E list \in Lists : \E age \in AgesOf[list] : GetPosts(list, age)

DocsPage == \E path \in Paths : GetDoc(path)

SinglePages == \E s \in Single : GetSingle(s)

BrowsingAnswers ==
    \E t \in tasks, ok \in BOOLEAN :
        \/ NetworkEventsAnswer(t, ok) \/ DataViewAnswer(t, ok) \/ PostsAnswer(t, ok)
        \/ DocAnswer(t, ok) \/ CommitAnswer(t, ok) \/ SingleAnswer(t, ok)

-----------------------------------------------------------------------------
(* Parts of properties, composed where the pages are. *)

\* The page of network events, once loaded, has what it was last asked for.
EventsAreTheLastAsked ==
    ~ events.is_loading => events.rows \in {None, events.params}

\* The table shows the selected view as that view now is.
TableShowsItsView ==
    table.status = "completed" /\ "table" \notin crossed
        => table.result = Shown(selected, views[selected])

\* A list that waits for nothing has posts of the age last asked for alone.
ListsShowOneAge ==
    \A l \in Lists \ crossed :
        (\A t \in tasks : t.api = "posts" => t.params.list # l)
            => feed[l].post_ids \subseteq {asked_age[l]}

\* Nobody is named as author of a document that is not there.
CommitsBelongToContent == \A p \in Paths : docs[p].commit => docs[p].content

\* Whatever a page waits for comes to an end.
BrowsingSettles ==
    /\ []<>(~ events.is_loading)
    /\ []<>(table.status # "pending" \/ abandoned)
    /\ \A l \in Lists : []<>(asked_age[l] # None => ~ feed[l].is_pending)
    /\ \A w \in DocWatchers, p \in Paths : []<>(opened[w] = p => ~ docs[p].is_pending)
    /\ \A s \in Single : []<>(~ singles[s].is_pending)
=============================================================================
