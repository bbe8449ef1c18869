---------------------------- MODULE ClaimRenewal ----------------------------
(***************************************************************************)
(* What one visitor publishes about a task: the portal's publish sagas     *)
(* (src/core/task-board/sagas.js), the buttons of a task's page that start *)
(* them, and the command line client (scripts/task-board.mjs) run with the *)
(* same key.  Whoever holds a claim renews it with any other action.       *)
(***************************************************************************)
EXTENDS BoardPortal

CONSTANTS
    Me,             \* the visitor's key
    Topic,          \* the id of the task whose page is open
    OwnIds,         \* ids of what the visitor signs, by kind
    ButtonKeys,     \* the publish keys whose buttons the visitor may press
    Agent,          \* what the command line client may be asked to do
    Held,           \* what the relays may hold at first
    MaxRuns,        \* bound: runs of the command line client
    MaxLost         \* bound: answers of the relays that get lost

\* The events the visitor signs.
OwnKinds == {"issue", "status_open", "comment", "claim"}

OwnEvents ==
    [ id : Nat, kind : OwnKinds, pubkey : {Me}, created_at : Nat, zero_bits : Nat,
      nonce : Nat, a : {<<>>, <<Board>>}, d : {NoEvent}, issue : {0, Topic}, ids : {{}},
      keys : {{}}, target : {Me}, value : {"none", "active", "released"}, amount : {0},
      expiration : Nat ]

\* The visitor's key is used here alone: others publish no claim of it, and
\* nobody a comment or a deletion.
ASSUME RenewalAssumption ==
    /\ Me \in Pubkeys /\ {MaxRuns, MaxLost} \subseteq Nat
    /\ ButtonKeys \subseteq {"claim", "status", "comment", "issue"}
    /\ Agent \subseteq {"claim", "release", "status"}
    /\ OwnIds \in [OwnKinds -> SUBSET Nat]
    /\ NoEvent \notin OwnEvents
    /\ \A e \in Events : e.pubkey = Me =>
          e.kind \notin {"claim", "comment", "deletion_request"}
    /\ \A S \in Held :
          /\ IsFiniteSet(S) /\ NoEvent \notin S
          /\ \A e \in S : /\ e.id \in Nat /\ e.created_at \in Nat
                          /\ e.pubkey = Me => e.kind \notin {"comment", "deletion_request"}
          /\ \A e, f \in S : e.id = f.id => e = f

VARIABLES
    sagas,          \* publish sagas that have not ended
    agent,          \* the command line client
    history         \* what was asked and what went wrong, for the properties

pageVars == <<sagas, agent, history>>
vars == <<portalVars, pageVars>>

-----------------------------------------------------------------------------
(* Building and ordering *)

Own(kind, value, at) ==
    [ id |-> 0, kind |-> kind, pubkey |-> Me, created_at |-> at, zero_bits |-> 0,
      nonce |-> 0, a |-> IF kind = "comment" THEN <<>> ELSE <<Board>>,
      d |-> NoEvent, issue |-> IF kind = "issue" THEN 0 ELSE Topic, ids |-> {},
      keys |-> {}, target |-> Me, value |-> value, amount |-> 0,
      expiration |-> IF kind = "claim" THEN at + ClaimLifetime ELSE 0 ]

\* Mutant: a claim is dated when it is built, whatever it replaces.
DatedNow(template, previous) == template

\* order_claim_after: claims of one second are ranked by id, so a claim is
\* dated after the one it replaces.
OrderAfter(template, previous) ==
    IF previous = NoEvent \/ previous.created_at < template.created_at
    THEN template
    ELSE [template EXCEPT !.created_at = previous.created_at + 1,
                          !.expiration = previous.created_at + 1 + ClaimLifetime]

OwnClaim(S) ==
    Newest({e \in LiveEvents(S) : e.kind = "claim" /\ e.pubkey = Me /\ e.issue = Topic})

OnBoard(S, at) == Topic \in IssueIds(S, at)

Claiming(S, at) == OnBoard(S, at) /\ IsActiveClaim(OwnClaim(S), at)

NeedsPow(S, at, kind) ==
    /\ kind \in {"issue", "comment"}
    /\ ~ HasStanding(Roles(LiveEvents(S), Board, at, <<>>), Me)

UnusedIds(kind) ==
    OwnIds[kind] \ {e.id : e \in relays \cup {s.event : s \in sagas}}

Signed(template, id) == [template EXCEPT !.id = id]

\* A relay keeps the newest event of an address and refuses an older one.
Takes(e) == e.kind = "claim" => KeepNewest(OwnClaim(relays), e) = e

-----------------------------------------------------------------------------
(* The task's page *)

\* task_board.publishing: a key is pending while its saga runs.
Pending == {s.key : s \in sagas}

\* Mutant: the claim button, too, waits for its own publish alone.
EnabledByOwnKey(key) == key \notin Pending

\* The claim button and Save wait for whatever is pending on the task; a
\* comment waits for a comment (as a vouch, left out, for a vouch).
Enabled(key) ==
    IF key \in {"claim", "status"} THEN Pending = {} ELSE key \notin Pending

\* What the button builds: the claim button turns the shown claim around.
Template(key) ==
    CASE key = "claim"   -> Own("claim", IF Claiming(store, viewed_at)
                                         THEN "released" ELSE "active", now)
      [] key = "status"  -> Own("status_open", "none", now)
      [] key = "comment" -> Own("comment", "none", now)
      [] key = "issue"   -> Own("issue", "none", now)

-----------------------------------------------------------------------------
(* publish, sign_and_publish and renew_claim: a saga waits for the proof of  *)
(* work, the signer and the relays, and again for the renewal.               *)

Saga(key, phase, event, published) ==
    [key |-> key, phase |-> phase, event |-> event, published |-> published]

Becomes(s, t) == sagas' = (sagas \ {s}) \cup {t}

GoesOn(s, phase, event) == Becomes(s, Saga(s.key, phase, event, s.published))

OrderedAfter(template, S) ==
    IF template.kind = "claim" THEN OrderAfter(template, OwnClaim(S)) ELSE template

\* Up to the saga's first wait.
Press(key) ==
    /\ key \in ButtonKeys \ history.done
    /\ key = "issue" \/ OnBoard(store, viewed_at)
    /\ Enabled(key)
    /\ LET template == OrderedAfter(Template(key), store)
           phase == IF NeedsPow(store, viewed_at, template.kind) THEN "mining" ELSE "signing"
       IN  sagas' = sagas \cup {Saga(key, phase, template, NoEvent)}
    /\ history' = [history EXCEPT
         !.crossed = @ \cup Pending,
         !.unaware = \/ @ \/ agent.phase # "off"
                     \/ Pending = {} /\ OwnClaim(store) # OwnClaim(relays)]
    /\ UNCHANGED <<portalVars, agent>>

\* Mined events are dated when the proof is found.
Mined(s) ==
    /\ s.phase = "mining"
    /\ GoesOn(s, "signing", [s.event EXCEPT !.created_at = now, !.zero_bits = UnvouchedPow,
                                            !.nonce = UnvouchedPow])
    /\ UNCHANGED <<portalVars, agent, history>>

Sign(s) ==
    /\ s.phase \in {"signing", "renewal signing"}
    /\ \E id \in UnusedIds(s.event.kind) :
         GoesOn(s, IF s.phase = "signing" THEN "sent" ELSE "renewal sent",
                [s.event EXCEPT !.id = id])
    /\ UNCHANGED <<portalVars, agent, history>>

RelaysTake(e) ==
    /\ Takes(e)
    /\ relays' = relays \cup {e}
    /\ UNCHANGED <<now, store, viewed_at, is_loaded, board_sub, issue_sub, following>>

\* At least one relay accepts it.
Stored(s) ==
    /\ s.phase \in {"sent", "renewal sent"}
    /\ RelaysTake(s.event)
    /\ GoesOn(s, IF s.phase = "sent" THEN "stored" ELSE "renewal stored", s.event)
    /\ history' = [history EXCEPT
         !.chosen = IF s.key = "claim" THEN s.event.value ELSE @]
    /\ UNCHANGED agent

\* Mutant: follow_issues is not woken by what the visitor publishes.
FulfilUnfollowed(s, events) ==
    /\ Put(events, issue_sub, FALSE, FALSE)
    /\ sagas' = sagas \ {s}
    /\ history' = [history EXCEPT !.done = @ \cup ({s.key} \cap {"comment", "issue"})]
    /\ UNCHANGED <<now, relays, board_sub, following, agent>>

\* publish_fulfilled of the key, after that of a renewal if there was one.
Fulfil(s, events) ==
    /\ Put(events, issue_sub, following, FALSE)
    /\ sagas' = sagas \ {s}
    /\ history' = [history EXCEPT !.done = @ \cup ({s.key} \cap {"comment", "issue"})]
    /\ UNCHANGED <<now, relays, board_sub, following, agent>>

\* The relays' answer: an action on a task the visitor claims renews the claim
\* before anything is reported.
Answered(s) ==
    /\ s.phase = "stored"
    /\ IF s.key \in {"claim", "issue"} \/ ~ Claiming(store, viewed_at)
       THEN Fulfil(s, {s.event})
       ELSE /\ Becomes(s, Saga(s.key, "renewal signing",
                               OrderedAfter(Own("claim", "active", now), store), s.event))
            /\ UNCHANGED <<portalVars, agent, history>>

Renewed(s) ==
    /\ s.phase = "renewal stored"
    /\ Fulfil(s, {s.published, s.event})

\* publish_failed: the text stays in the form, to be sent again.
Failed(s) ==
    /\ sagas' = sagas \ {s}
    /\ UNCHANGED <<portalVars, agent>>

\* The signer declines, or no relay accepts the event.
Fails(s) ==
    /\ s.phase \in {"signing", "sent"}
    /\ Failed(s)
    /\ UNCHANGED history

\* A relay stored the event, and its answer does not come.
AnswerLost(s) ==
    /\ s.phase = "stored"
    /\ history.lost < MaxLost
    /\ Failed(s)
    /\ history' = [history EXCEPT !.lost = @ + 1]

\* Mutant: a failed renewal fails the publish.
RenewalFailsPublish(s) ==
    /\ s.phase \in {"renewal signing", "renewal sent", "renewal stored"}
    /\ Failed(s)
    /\ UNCHANGED history

\* Reported under a key of its own.
RenewalFails(s) ==
    /\ s.phase \in {"renewal signing", "renewal sent", "renewal stored"}
    /\ Fulfil(s, {s.published})

SagaStep(s) ==
    \/ Mined(s)
    \/ Sign(s)
    \/ Stored(s)
    \/ Answered(s)
    \/ Renewed(s)
    \/ Fails(s)
    \/ AnswerLost(s)
    \/ RenewalFails(s)

-----------------------------------------------------------------------------
(* The command line client: one run loads the board, publishes, and renews  *)
(* the claim it loaded.                                                     *)

NoAgent == [phase |-> "off", task |-> "none", board |-> {}, at |-> 0]

AgentLoads(task) ==
    /\ agent.phase = "off" /\ history.runs < MaxRuns
    /\ OnBoard(relays, now)
    /\ agent' = [phase |-> "loaded", task |-> task, board |-> relays, at |-> now]
    /\ history' = [history EXCEPT !.runs = @ + 1, !.unaware = (@ \/ sagas # {})]
    /\ UNCHANGED <<portalVars, sagas>>

AgentTemplate ==
    CASE agent.task = "claim"   -> Own("claim", "active", now)
      [] agent.task = "release" -> Own("claim", "released", now)
      [] agent.task = "status"  -> Own("status_open", "none", now)

Renews == agent.task = "status" /\ Claiming(agent.board, agent.at)

AgentPublishes ==
    /\ agent.phase = "loaded"
    /\ \E id \in UnusedIds(AgentTemplate.kind) :
         LET e == [OrderedAfter(AgentTemplate, agent.board) EXCEPT !.id = id] IN
         /\ RelaysTake(e)
         /\ history' = [history EXCEPT !.chosen = IF e.kind = "claim" THEN e.value ELSE @]
    /\ agent' = IF Renews THEN [agent EXCEPT !.phase = "published"] ELSE NoAgent
    /\ UNCHANGED sagas

AgentRenews ==
    /\ agent.phase = "published"
    /\ \E id \in UnusedIds("claim") :
         RelaysTake([OrderedAfter(Own("claim", "active", now), agent.board) EXCEPT !.id = id])
    /\ agent' = NoAgent
    /\ UNCHANGED <<sagas, history>>

\* No relay accepts what it signed, and it exits.
AgentExits ==
    /\ agent.phase # "off"
    /\ agent' = NoAgent
    /\ UNCHANGED <<portalVars, sagas, history>>

AgentStep ==
    \/ \E task \in Agent : AgentLoads(task)
    \/ AgentPublishes
    \/ AgentRenews
    \/ AgentExits

-----------------------------------------------------------------------------
(* Specification *)

\* What the visitor chose last is what the relays have of it at first.
Standing(c) == IF c = NoEvent THEN "none" ELSE c.value

FreshHistory == [done |-> {}, chosen |-> Standing(OwnClaim(relays)), crossed |-> {},
                 unaware |-> FALSE, lost |-> 0, runs |-> 0]

PageInit ==
    /\ sagas = {}
    /\ agent = NoAgent
    /\ history = FreshHistory

PageStep ==
    \/ \E key \in ButtonKeys : Press(key)
    \/ \E s \in sagas : SagaStep(s)
    \/ AgentStep

Init == PortalInit /\ relays \in Held /\ PageInit

Next ==
    \/ (Listen \/ Tick \/ \E e \in Events : Accept(e)) /\ UNCHANGED pageVars
    \/ PageStep

Spec == Init /\ [][Next]_vars /\ PortalFairness

-----------------------------------------------------------------------------
(* Properties *)

\* One saga per pending key, waiting with its own key's events.
TypeOK ==
    /\ PortalTypeOK
    /\ \A s, t \in sagas : s.key = t.key => s = t
    /\ \A s \in sagas : s.event \in OwnEvents
    /\ history.lost \in 0..MaxLost /\ history.runs \in 0..MaxRuns

\* No relay refuses what the visitor decides about a claim, nor its renewal,
\* for a claim of the same second or one dated ahead: order_claim_after, with
\* pages that wait for each other's publishes.  Save when a comment was sent
\* with another publish under way, or by a client that did not have every claim
\* of its key: one the other client published or, the answer lost, its own.
ClaimsAreTaken ==
    history.crossed = {} /\ ~ history.unaware =>
        /\ \A s \in sagas : s.phase \in {"sent", "renewal sent"} => Takes(s.event)
        /\ agent.phase = "published" =>
             Takes(OrderedAfter(Own("claim", "active", now), agent.board))

StandsAsChosen ==
    OwnClaim(relays) # NoEvent => OwnClaim(relays).value = history.chosen

\* "Any action renews the claimant's claim, so a claim change waits for it"
\* (task-detail.js:116): no renewal undoes a claim change, save when a comment
\* was sent with that change under way, or by a client that did not have it: the
\* other client made it, or its own answer was lost.
RenewalsKeepTheChoice ==
    "claim" \notin history.crossed /\ ~ history.unaware => StandsAsChosen

\* "Renew before reporting done, so the UI cannot start a claim change that
\* races the renewal" (sagas.js:270): of one page's publishes, each from a page
\* that has every claim of its key, none makes a renewal undo a claim change.
NoRaceWithRenewal == ~ history.unaware => StandsAsChosen

\* "A failed renewal must not report the published event as failed, or a retry
\* would duplicate it": one comment, sent again for as long as it is reported
\* failed, is published twice only if an answer was lost.
CommentedOnce ==
    Cardinality({e \in relays : e.kind = "comment" /\ e.pubkey = Me}) <= 1 + history.lost
=============================================================================
