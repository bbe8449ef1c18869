---------------------------- MODULE BoardClient -----------------------------
(***************************************************************************)
(* A board client: the portal's task_board reducer and its memoized        *)
(* selector (src/core/task-board), reading a board from relays it does not *)
(* trust.  Relays hand over the events they hold in any order, more than   *)
(* once or never; the client keeps one event per id and derives the board  *)
(* again whenever its events change, and only then.                        *)
(*                                                                         *)
(* The list the view is scanned from has some order, here that of first    *)
(* arrival: over all behaviours, every order of every set of events.       *)
(***************************************************************************)
EXTENDS TaskBoardState

CONSTANTS
    Board,                  \* the board the client shows
    Scenarios,              \* the event sets the relays may hold
    MaxTime                 \* bound: the clock stops here

ASSUME ClientAssumption ==
    /\ Board \in Boards
    /\ Scenarios \subseteq SUBSET Events
    /\ MaxTime \in Nat

VARIABLES
    published,      \* what the relays hold between them
    log,            \* the client's events, in order of first arrival
    board,          \* the board the selector last derived
    viewed_at,      \* when it did
    now

vars == <<published, log, board, viewed_at, now>>

Init ==
    /\ published \in Scenarios
    /\ log = <<>>
    /\ board = BoardOf(<<>>, Board, 0)
    /\ viewed_at = 0
    /\ now = 0

\* add_events keeps an id already held in its place; the selector recomputes
\* in either case.
Receive(e) ==
    /\ e \in published
    /\ log' = IF e \in Range(log) THEN log ELSE Append(log, e)
    /\ board' = BoardOf(log', Board, now)
    /\ viewed_at' = now
    /\ UNCHANGED <<published, now>>

Tick ==
    /\ now < MaxTime
    /\ now' = now + 1
    /\ UNCHANGED <<published, log, board, viewed_at>>

Next == (\E e \in Events : Receive(e)) \/ Tick

Spec == Init /\ [][Next]_vars

-----------------------------------------------------------------------------
(* Properties *)

\* A board with superseded_by reduced to whether there is one.
Shown(b) ==
    [b EXCEPT !.tasks =
        {[t EXCEPT !.superseded_by = IF @ = NoEvent THEN "no" ELSE "yes"] : t \in @}]

\* "Every client is expected to derive the same board from the same events":
\* whatever order a client got its events in, it shows the board that the set
\* of them declares, the newest of everything chosen by (created_at, id).
\* Which of several superseding issues is named is excepted: see
\* SameBoardEitherWay.
SameEventsSameBoard ==
    Shown(board) = Shown(DeclaredBoard(Range(log), Board, viewed_at))

\* The same promise with nothing excepted: a client that got these events in
\* the opposite order derives the very same board.
SameBoardEitherWay == board = BoardOf(Reverse(log), Board, viewed_at)

Arrived == Range(log') \ Range(log)

\* What only stewards and its author decide about a task.
Decided(t) == <<t.is_hidden, t.superseded_by, t.status, t.priority, t.state>>

\* What a key that is no steward signs, be it a status, a label, a deletion, an
\* issue that supersedes or an announcement, moves no steward and decides
\* nothing about anyone else's task, short of moving the trust; and a key
\* outside the web of trust moves neither the trust nor a comment count.
StrangersMoveNothing ==
    [][ \A e \in Arrived :
          viewed_at = now /\ e.pubkey \notin board.stewards =>
             /\ board'.stewards = board.stewards
             /\ e.pubkey \notin board.trusted => board'.trusted = board.trusted
             /\ board'.trusted = board.trusted =>
                  \A t \in board.tasks :
                    t.pubkey # e.pubkey =>
                      \E u \in TaskById(board', t.id) :
                         /\ Decided(u) = Decided(t)
                         /\ e.pubkey \notin board.trusted =>
                               u.comment_count = t.comment_count ]_vars

\* The steward set changes only with an announcement its owner signed: no
\* deletion request, the owner's own included, empties or rewinds it.
OnlyAnnouncementsMoveStewards ==
    [][ board'.stewards # board.stewards =>
          \E e \in Arrived :
             e.kind = "announcement" /\ e.pubkey = Owner[Board] ]_vars

\* A pledge adds to what a task has pledged only if a verdict on that very
\* event is already held: republishing a pledge with a larger amount does not.
PledgesWaitForTheirVerdict ==
    [][ \A e \in Arrived :
          e.kind = "pledge" =>
             \A t \in board.tasks, u \in board'.tasks :
                t.id = u.id /\ u.pledged + u.paid > t.pledged + t.paid =>
                   \E v \in Range(log) : /\ v.kind = "pledge_attestation"
                                         /\ v.pubkey \in board.stewards
                                         /\ e.id \in v.ids ]_vars

\* Nobody is shown to hold a task on a claim signed a whole lifetime before,
\* whatever expiration the claim itself asks for.
ClaimsLapse ==
    \A t \in board.tasks : \A p \in t.active_claimants :
        \E c \in Range(log) : /\ c.kind = "claim" /\ c.pubkey = p /\ c.issue = t.id
                              /\ c.created_at + ClaimLifetime > viewed_at
=============================================================================
