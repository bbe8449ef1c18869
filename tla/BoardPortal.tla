----------------------------- MODULE BoardPortal -----------------------------
(***************************************************************************)
(* The portal's subscriptions (src/core/task-board/sagas.js): the board's  *)
(* filters first, and after their end of stored events those of every      *)
(* issue on the board, made again whenever the set of issues changes.      *)
(*                                                                         *)
(* Two rules of redux-saga, which is external, decide what is heard.  A    *)
(* call of a saga returns when the saga and all it has forked have ended.  *)
(* An event channel keeps no message nobody is waiting for.                *)
(***************************************************************************)
EXTENDS TaskBoardState

CONSTANTS
    Board,          \* the board the portal shows
    MaxTime         \* bound: the clock stops here

ASSUME PortalAssumption == Board \in Boards /\ MaxTime \in Nat

VARIABLES
    now,
    relays,         \* the events the relays hold between them
    store,          \* task_board.events
    viewed_at,      \* when the selector last derived the board
    is_loaded,
    board_sub,      \* run_subscription of the board's filters
    issue_sub,      \* run_subscription of the issues' filters, by follow_issues
    following       \* follow_issues was forked

portalVars == <<now, relays, store, viewed_at, is_loaded, board_sub, issue_sub, following>>

-----------------------------------------------------------------------------
(* The board as the store has it *)

\* Object.keys(state.tasks): hidden tasks too, uncounted and deleted ones not.
IssueIds(S, at) ==
    LET live == LiveEvents(S)
        Ids(r) == {t.id : t \in TasksOf(live, r, Board)}
    IN  UNION {Ids(r) : r \in {Roles(live, Board, at, <<>>)}}

-----------------------------------------------------------------------------
(* Filters *)

\* build_board_filters
InBoardFilters(e) ==
    \/ e.kind = "announcement" /\ e.pubkey = Owner[Board] /\ e.d = Board
    \/ /\ e.kind \in StatusKinds \cup {"issue", "claim", "pledge", "key_properties"}
       /\ Board \in {e.a[i] : i \in DOMAIN e.a}
    \/ e.kind \in {"vouch_set", "block_set", "account_attestation", "pledge_attestation"}

\* build_issue_filters: deletions only of issues, statuses by their root too.
InIssueFilters(e, ids) ==
    \/ e.kind \in LabelKinds \cup StatusKinds \cup {"deletion_request"}
       /\ (e.ids \cup {e.issue}) \cap ids # {}
    \/ e.kind = "comment" /\ e.issue \in ids

-----------------------------------------------------------------------------
(* Subscriptions *)

Closed == [open |-> FALSE, ids |-> {}, sent |-> {}, buffer |-> {}, eose |-> FALSE]
Opened(ids) == [Closed EXCEPT !.open = TRUE, !.ids = ids]

\* Mutant: the new subscription asks only for what was not sent before.
ReopenedSince(ids) == [Opened(ids) EXCEPT !.sent = issue_sub.sent]

Reopened(ids) == Opened(ids)

\* Mutant: a board without issues waits for an end of stored events.
NeverLoadsEmpty(ids) == FALSE

LoadsEmpty(ids) == ids = {}

\* Events reach the store, and wake follow_issues if it runs; sub is what its
\* subscription is by then.  at_eose: this was the last batch before its end
\* of stored events, which a subscription cancelled meanwhile does not report.
Put(E, sub, runs, at_eose) ==
    LET S  == store \cup E
        at == IF E = {} THEN viewed_at ELSE now
    IN  /\ store' = S
        /\ viewed_at' = at
        /\ \E ids \in {IssueIds(S, at)} :
             /\ issue_sub' = IF ~ runs \/ ids = sub.ids THEN sub
                             ELSE IF ids = {} THEN Closed ELSE Reopened(ids)
             /\ is_loaded' = (\/ is_loaded
                              \/ runs /\ LoadsEmpty(ids)
                              \/ at_eose /\ ids = sub.ids)

Sent(sub, e) == [sub EXCEPT !.sent = @ \cup {e}, !.buffer = @ \cup {e}]
Flushed(sub) == [sub EXCEPT !.buffer = {}]
Ended(sub) == [Flushed(sub) EXCEPT !.eose = TRUE]

SendBoard(e) ==
    /\ e \in relays \ board_sub.sent /\ InBoardFilters(e)
    /\ board_sub' = Sent(board_sub, e)
    /\ UNCHANGED <<now, relays, store, viewed_at, is_loaded, issue_sub, following>>

SendIssue(e) ==
    /\ issue_sub.open
    /\ e \in relays \ issue_sub.sent /\ InIssueFilters(e, issue_sub.ids)
    /\ issue_sub' = Sent(issue_sub, e)
    /\ UNCHANGED <<now, relays, store, viewed_at, is_loaded, board_sub, following>>

\* The batch timer.  Once end of stored events was reported the loop of the
\* board's subscription is in its call of on_eose, which forked follow_issues
\* and so does not return: what the channel emits is lost.
FlushBoard ==
    /\ board_sub.buffer # {}
    /\ board_sub' = Flushed(board_sub)
    /\ IF board_sub.eose
       THEN UNCHANGED <<store, viewed_at, is_loaded, issue_sub>>
       ELSE Put(board_sub.buffer, issue_sub, FALSE, FALSE)
    /\ UNCHANGED <<now, relays, following>>

FlushIssue ==
    /\ issue_sub.buffer # {}
    /\ Put(issue_sub.buffer, Flushed(issue_sub), TRUE, FALSE)
    /\ UNCHANGED <<now, relays, board_sub, following>>

\* Every filter has reached end of stored events, or 8 seconds have passed: a
\* slow relay's stored events may still be to come.
EoseBoard ==
    /\ ~ board_sub.eose
    /\ board_sub' = Ended(board_sub)
    /\ following' = TRUE
    /\ Put(board_sub.buffer, issue_sub, TRUE, FALSE)
    /\ UNCHANGED <<now, relays>>

EoseIssue ==
    /\ issue_sub.open /\ ~ issue_sub.eose
    /\ Put(issue_sub.buffer, Ended(issue_sub), TRUE, TRUE)
    /\ UNCHANGED <<now, relays, board_sub, following>>

-----------------------------------------------------------------------------
(* Specification *)

\* Just after TASK_BOARD_INIT.
PortalInit ==
    /\ now = 0
    /\ store = {}
    /\ viewed_at = 0
    /\ is_loaded = FALSE
    /\ board_sub = Opened({})
    /\ issue_sub = Closed
    /\ following = FALSE

\* A relay accepts an event of somebody else.
Accept(e) ==
    /\ e \in Events \ relays
    /\ relays' = relays \cup {e}
    /\ UNCHANGED <<now, store, viewed_at, is_loaded, board_sub, issue_sub, following>>

Tick ==
    /\ now < MaxTime
    /\ now' = now + 1
    /\ UNCHANGED <<relays, store, viewed_at, is_loaded, board_sub, issue_sub, following>>

Listen ==
    \/ \E e \in relays : SendBoard(e) \/ SendIssue(e)
    \/ FlushBoard \/ FlushIssue
    \/ EoseBoard \/ EoseIssue

\* Timers run, and the relays send what they hold.
PortalFairness ==
    /\ WF_portalVars(\E e \in relays : SendBoard(e))
    /\ WF_portalVars(\E e \in relays : SendIssue(e))
    /\ WF_portalVars(FlushBoard) /\ WF_portalVars(FlushIssue)
    /\ WF_portalVars(EoseBoard) /\ WF_portalVars(EoseIssue)

PortalTypeOK ==
    /\ now \in 0..MaxTime /\ viewed_at \in 0..now
    /\ store \subseteq relays
    /\ board_sub.buffer \subseteq board_sub.sent
    /\ issue_sub.buffer \subseteq issue_sub.sent
    /\ following <=> board_sub.eose
    /\ issue_sub.open <=> issue_sub.ids # {}
    /\ following => issue_sub.ids = IssueIds(store, viewed_at)
    /\ is_loaded => following

-----------------------------------------------------------------------------
(* Properties *)

\* The page stops saying "Loading from relays", however often the issues'
\* subscription is cancelled and made again before its end of stored events.
BoardLoads == <>is_loaded

\* A label, a status, a deletion or a comment that a relay holds about an issue
\* on the board arrives, also when the subscription that had fetched it was
\* cancelled with the batch it was in.
IssueEventsArrive ==
    \A e \in Events :
        <>[](e \in relays /\ InIssueFilters(e, issue_sub.ids)) => <>(e \in store)

\* "Follows the issue set: whenever new issues arrive, re-subscribe to the
\* events that reference them." (sagas.js:137-138): an issue that a relay
\* accepts while the board is open gets onto the board.
NewIssuesArrive ==
    \A e \in Events :
        e.kind = "issue" /\ InBoardFilters(e) =>
            [](is_loaded /\ e \notin relays => [](e \in relays => <>(e \in store)))
=============================================================================
