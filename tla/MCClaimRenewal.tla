--------------------------- MODULE MCClaimRenewal ---------------------------
(***************************************************************************)
(* Instances of ClaimRenewal: a visitor who opens the board while others   *)
(* publish, and one who acts on a task of a board that is loaded.          *)
(***************************************************************************)
EXTENDS ClaimRenewal

CONSTANTS owner, visitor, nano

MCPubkeys == {owner, visitor}
MCOwner == [b \in {nano} |-> owner]

Blank == [ id |-> 0, kind |-> "issue", pubkey |-> owner, created_at |-> 0,
           zero_bits |-> 0, nonce |-> 0, a |-> <<nano>>, d |-> NoEvent, issue |-> 0,
           ids |-> {}, keys |-> {}, target |-> owner, value |-> "", amount |-> 0,
           expiration |-> 0 ]

Issue == [Blank EXCEPT !.id = 1, !.pubkey = visitor, !.zero_bits = 1, !.nonce = 1]
Other == [Blank EXCEPT !.id = 2]
Label == [Blank EXCEPT !.id = 3, !.kind = "priority_label", !.a = <<>>, !.ids = {1},
                       !.value = "high"]
Retraction == [Blank EXCEPT !.id = 4, !.kind = "deletion_request", !.a = <<>>, !.ids = {2}]

MCEvents == {Issue, Other, Label, Retraction}

MCHeld == {{}, {Issue}, {Other, Retraction}}

MCOwnIds == [issue |-> {24}, status_open |-> {21}, comment |-> {22, 23},
             claim |-> {4, 12}]

VARIABLE focus

\* The board has been read, the page of Issue is open, and the visitor may
\* have claimed it.
Claimed == [Own("claim", "active", 0) EXCEPT !.id = 5]

Loaded(claims) ==
    /\ now = 0
    /\ relays = {Issue} \cup claims /\ store = relays /\ viewed_at = 0
    /\ is_loaded = TRUE /\ following = TRUE
    /\ board_sub = [Opened({}) EXCEPT !.eose = TRUE, !.sent = relays]
    /\ issue_sub = [Opened({1}) EXCEPT !.eose = TRUE]

MCInit ==
    \/ focus = "watch" /\ Init
    \/ focus = "act" /\ (\E claims \in SUBSET {Claimed} : Loaded(claims)) /\ PageInit

MCNext ==
    /\ UNCHANGED focus
    /\ \/ focus = "watch" /\ Listen /\ UNCHANGED pageVars
       \/ focus = "watch" /\ (\E e \in Events : Accept(e)) /\ UNCHANGED pageVars
       \/ focus = "watch" /\ (Press("issue") \/ \E s \in sagas : SagaStep(s))
       \/ focus = "act" /\ Tick /\ UNCHANGED pageVars
       \/ focus = "act" /\ ~ history.unaware
                        /\ (\/ \E key \in ButtonKeys \ {"issue"} : Press(key)
                            \/ \E s \in sagas : SagaStep(s)
                            \/ history.done = {} /\ history.lost = 0 /\ AgentStep)

\* PortalFairness where the portal listens.
MCFairness ==
    /\ WF_portalVars(focus = "watch" /\ \E e \in relays : SendBoard(e))
    /\ WF_portalVars(focus = "watch" /\ \E e \in relays : SendIssue(e))
    /\ WF_portalVars(focus = "watch" /\ FlushBoard)
    /\ WF_portalVars(focus = "watch" /\ FlushIssue)
    /\ WF_portalVars(focus = "watch" /\ EoseBoard)
    /\ WF_portalVars(focus = "watch" /\ EoseIssue)

MCSpec == MCInit /\ [][MCNext]_<<vars, focus>> /\ MCFairness
=============================================================================
