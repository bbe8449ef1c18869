--------------------------- MODULE TaskBoardState ---------------------------
(***************************************************************************)
(* The default view: the pure function from a client's events to the board *)
(* (common/task-board/build-task-board-state.mjs).                         *)
(*                                                                         *)
(* Whatever the reducer picks one of, it picks with a scan over the        *)
(* client's event list.  The board is therefore defined over an order,     *)
(* the client's list, by which Pick and LastOf scan: BoardOf gives them    *)
(* the client's own order of arrival, DeclaredBoard gives them none.       *)
(***************************************************************************)
EXTENDS TrustGraph, SequencesExt

CONSTANTS
    ClaimLifetime,          \* CLAIM_LIFETIME_SECONDS
    UnvouchedPow,           \* TASK_UNVOUCHED_POW_DIFFICULTY
    PromotionAmount         \* TASK_PLEDGE_PROMOTION_RAW

ASSUME StateAssumption == {ClaimLifetime, UnvouchedPow, PromotionAmount} \subseteq Nat

Priorities == {"critical", "high", "medium", "low", "unprioritized"}
States == {"blocked", "paused", "actionable"}

IsAllowedLabel(e) ==
    \/ e.kind = "priority_label" /\ e.value \in Priorities
    \/ e.kind = "state_label" /\ e.value \in States

-----------------------------------------------------------------------------
(* A client's scan of its own list, and the choice with nothing to scan by,  *)
(* which is an empty list.                                                   *)

NewestInOrder(order, T) ==
    LET scan[i \in 0..Len(order)] ==
            IF i = 0 THEN NoEvent
            ELSE IF order[i] \in T THEN KeepNewest(scan[i - 1], order[i])
            ELSE scan[i - 1]
    IN  scan[Len(order)]

LastInOrder(order, T) ==
    LET places == {i \in DOMAIN order : order[i] \in T}
    IN  IF places = {} THEN NoEvent ELSE order[Max(places)]

Pick(order, T) == IF order = <<>> THEN Newest(T) ELSE NewestInOrder(order, T)
LastOf(order, T) == IF order = <<>> THEN Newest(T) ELSE LastInOrder(order, T)

-----------------------------------------------------------------------------
(* Who may do what.  r stands for the roles derived from the live events:   *)
(* the trust graph of TrustGraph.                                           *)

Counts(r, e) == HasStanding(r, e.pubkey) \/ GetEventPow(e) >= UnvouchedPow

IsHidden(r, t) == t.pubkey \notin r.stewards \cup r.trusted

\* The issues that are tasks of board b.
TasksOf(live, r, b) ==
    {e \in live : e.kind = "issue" /\ e.a # <<>> /\ Head(e.a) = b /\ Counts(r, e)}

\* The tasks that take t out of the columns.  (The mutated form lets any
\* visible issue replace any other.)
SupersedersOfAny(r, tasks, t) == {s \in tasks : t.id \in s.ids /\ ~ IsHidden(r, s)}

Superseders(r, tasks, t) ==
    { s \in tasks : /\ t.id \in s.ids /\ ~ IsHidden(r, s)
                    /\ s.pubkey = t.pubkey \/ s.pubkey \in r.stewards }

StatusEvents(live, r, t) ==
    { e \in live : /\ e.kind \in StatusKinds /\ e.issue = t.id
                   /\ e.pubkey \in r.stewards \cup {t.pubkey} }

LabelEvents(live, r, t, kind) ==
    { e \in live : /\ e.kind = kind /\ e.pubkey \in r.stewards
                   /\ t.id \in e.ids /\ IsAllowedLabel(e) }

\* Anyone may claim, and anyone may pledge.
ClaimEvents(live, b, t) ==
    {e \in live : e.kind = "claim" /\ e.issue = t.id /\ e.a # <<>> /\ Head(e.a) = b}

PledgeEvents(live, b, t) ==
    {e \in live : e.kind = "pledge" /\ e.issue = t.id /\ e.a # <<>> /\ Head(e.a) = b}

\* Only these comments count and touch a task, "so others cannot reorder the
\* board".
CommentEvents(live, r, t) ==
    { e \in live : /\ e.kind = "comment" /\ e.issue = t.id /\ Counts(r, e)
                   /\ e.pubkey \in r.stewards \cup r.trusted \cup {t.pubkey} }

-----------------------------------------------------------------------------
(* One task *)

ByKey(T, p) == {e \in T : e.pubkey = p}

IsActiveClaim(c, now) ==
    c # NoEvent /\ c.value = "active" /\ ExpirationOf(c, ClaimLifetime) > now

\* A verdict on the pledge's address, whichever event it judged.
VerdictOnAddress(pledge, verdict, now) ==
    IF \/ verdict = NoEvent
       \/ verdict.value \notin PledgeValues
       \/ verdict.value # "paid" /\ ExpirationOf(verdict, AttestationLifetime) <= now
    THEN "pending" ELSE verdict.value

\* The verdict that stands on a pledge: a steward's newest on its address, if
\* it judged this very event and, unless paid, has not lapsed.
VerdictOn(pledge, verdict, now) ==
    IF \/ verdict = NoEvent
       \/ pledge.id \notin verdict.ids
       \/ verdict.value \notin PledgeValues
       \/ verdict.value # "paid" /\ ExpirationOf(verdict, AttestationLifetime) <= now
    THEN "pending" ELSE verdict.value

ColumnOf(status, claimants, state, priority, pledged) ==
    IF status = "status_draft" THEN "draft"
    ELSE IF status # "status_open" THEN "closed"
    ELSE IF claimants # {} THEN "in_progress"
    ELSE IF state \in {"blocked", "paused"} THEN "blocked"
    ELSE IF priority = "none" /\ pledged < PromotionAmount THEN "triage"
    ELSE "needs_taker"

ActiveClaimants(live, b, t, now, order) ==
    {p \in Pubkeys : IsActiveClaim(Pick(order, ByKey(ClaimEvents(live, b, t), p)), now)}

StandingPledges(live, b, t, order) ==
    {Pick(order, ByKey(PledgeEvents(live, b, t), p)) : p \in Pubkeys} \ {NoEvent}

\* The pledges on t on which the verdict v stands.
Judged(live, r, b, now, t, order, v) ==
    { p \in StandingPledges(live, b, t, order) :
        v = VerdictOn(p, Pick(order, Verdicts(live, r.stewards, p.pubkey, t.id)), now) }

Total(P) == MapThenSumSet(LAMBDA p : p.amount, P)

Touching(live, r, b, t) ==
    {t} \cup StatusEvents(live, r, t) \cup ClaimEvents(live, b, t)
        \cup CommentEvents(live, r, t) \cup UNION {LabelEvents(live, r, t, k) : k \in LabelKinds}

Task(live, tasks, r, b, now, t, order) ==
    LET status   == Pick(order, StatusEvents(live, r, t))
        priority == Pick(order, LabelEvents(live, r, t, "priority_label"))
        state    == Pick(order, LabelEvents(live, r, t, "state_label"))
        active   == ActiveClaimants(live, b, t, now, order)
        backed   == Total(Judged(live, r, b, now, t, order, "backed"))
        names    == [ status   |-> IF status = NoEvent THEN "status_open" ELSE status.kind,
                      priority |-> IF priority = NoEvent THEN "none" ELSE priority.value,
                      state    |-> IF state = NoEvent THEN "none" ELSE state.value ]
    IN  [ id |-> t.id, pubkey |-> t.pubkey, is_hidden |-> IsHidden(r, t),
          superseded_by |-> LastOf(order, Superseders(r, tasks, t)),
          status |-> names.status, priority |-> names.priority, state |-> names.state,
          active_claimants |-> active,
          pledged |-> backed, paid |-> Total(Judged(live, r, b, now, t, order, "paid")),
          comment_count |-> Cardinality(CommentEvents(live, r, t)),
          latest_activity_at |-> Max({e.created_at : e \in Touching(live, r, b, t)}),
          column |-> ColumnOf(names.status, active, names.state, names.priority, backed) ]

-----------------------------------------------------------------------------
(* The whole board *)

StewardsFrom(live, b, order) ==
    LET announcement == Pick(order, AnnouncementsOf(live, b))
    IN  {Owner[b]} \cup (IF announcement = NoEvent THEN {} ELSE announcement.keys)

\* Each key's follow set of a kind, and the stewards' newest attestations and
\* verdicts.
FollowSets(live, kind, order) ==
    [p \in Pubkeys |-> Pick(order, {e \in live : e.kind = kind /\ e.pubkey = p})]

NewestAttestations(live, stewards, order) ==
    {Pick(order, Attestations(live, stewards, k)) : k \in Pubkeys} \ {NoEvent}

NewestVerdicts(live, stewards, order) ==
    {Pick(order, Verdicts(live, stewards, e.target, e.issue)) :
        e \in {f \in live : f.kind = "pledge_attestation"}} \ {NoEvent}

Roles(live, b, now, order) ==
    LET stewards == StewardsFrom(live, b, order)
    IN  BuildTrustGraph(stewards,
                        FollowSets(live, "vouch_set", order),
                        FollowSets(live, "block_set", order),
                        SelectEstablished(NewestAttestations(live, stewards, order), stewards, now),
                        SelectEarnedVouches(NewestVerdicts(live, stewards, order), stewards))

\* A key's latest properties event states relations to other keys; one is
\* confirmed when the other key states the counterpart role back.
Counterpart == [acts_for |-> "delegates_to", delegates_to |-> "acts_for"]

PropertiesOf(live, b, order) ==
    [p \in Pubkeys |->
        Pick(order, {e \in live : e.kind = "key_properties" /\ e.d = b /\ e.pubkey = p})]

StatesRelation(properties, p, role, other) ==
    /\ properties[p] # NoEvent
    /\ properties[p].value = role /\ other \in properties[p].keys

KeyRelations(live, b, order) ==
    LET properties == PropertiesOf(live, b, order) IN
    { r \in [pubkey : Pubkeys, role : DOMAIN Counterpart, other : Pubkeys,
             confirmed : BOOLEAN] :
        /\ StatesRelation(properties, r.pubkey, r.role, r.other)
        /\ r.confirmed = StatesRelation(properties, r.other, Counterpart[r.role], r.pubkey) }

BoardFrom(live, b, now, order) ==
    LET r == Roles(live, b, now, order)
        T == TasksOf(live, r, b)
    IN  [ stewards |-> r.stewards, trusted |-> r.trusted, blocked |-> r.blocked,
          established |-> r.established,
          relations |-> KeyRelations(live, b, order),
          tasks |-> {Task(live, T, r, b, now, t, order) : t \in T} ]

\* The task of a board with an id; the set holds at most one.
TaskById(board, id) == {t \in board.tasks : t.id = id}

\* build_task_board_state on a client's events, and on a set with no order.
BoardOf(log, b, now) == BoardFrom(LiveEvents(Range(log)), b, now, log)

DeclaredBoard(S, b, now) == BoardFrom(LiveEvents(S), b, now, <<>>)
=============================================================================
