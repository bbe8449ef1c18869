--------------------------- MODULE MCBoardClient ----------------------------
(***************************************************************************)
(* What the relays may hold, one scenario per rule of the default view.    *)
(* Every scenario is received in every order, in part and in whole.        *)
(***************************************************************************)
EXTENDS BoardClient

CONSTANTS owner, steward, author, stranger, nano

MCPubkeys == {owner, steward, author, stranger}
MCBoards == {nano}
MCOwner == [b \in {nano} |-> owner]

Blank == [ id |-> 0, kind |-> "profile", pubkey |-> owner, created_at |-> 1,
           zero_bits |-> 0, nonce |-> 0, a |-> <<nano>>, d |-> NoEvent, issue |-> 0,
           ids |-> {}, keys |-> {}, target |-> owner, value |-> "", amount |-> 0,
           expiration |-> 0 ]
By(key, id, kind) == [Blank EXCEPT !.pubkey = key, !.id = id, !.kind = kind]
About(key, id, kind, issue) == [By(key, id, kind) EXCEPT !.issue = issue]

\* The steward's appointment, its withdrawal in the same second, and vouches.
Appoint == [By(owner, 2, "announcement") EXCEPT !.d = nano, !.keys = {steward}]
Dismiss == [By(owner, 1, "announcement") EXCEPT !.d = nano]
OwnerVouches == [By(owner, 3, "vouch_set") EXCEPT !.keys = {author}]
OwnerDoubts == [By(owner, 4, "vouch_set") EXCEPT !.keys = {stranger}]
AuthorVouches == [By(author, 5, "vouch_set") EXCEPT !.keys = {stranger}]
Attested == [By(steward, 6, "account_attestation") EXCEPT
                !.keys = {stranger}, !.target = stranger, !.value = "established",
                !.expiration = 2]
NotAttested == [By(owner, 7, "account_attestation") EXCEPT
                !.keys = {stranger}, !.target = stranger, !.value = "not_established"]
Blocks == [By(steward, 8, "block_set") EXCEPT !.keys = {stranger}]

\* Tasks: a mined one and another by the author, a steward's, one mined by a
\* stranger and one not, and the author's attempt to supersede the stranger's.
Old == [By(author, 10, "issue") EXCEPT !.zero_bits = 1, !.nonce = 1]
New == [By(author, 11, "issue") EXCEPT !.ids = {10}]
Steward == [By(steward, 12, "issue") EXCEPT !.ids = {10}]
Mined == [By(stranger, 13, "issue") EXCEPT !.zero_bits = 2, !.nonce = 1, !.ids = {10}]
Overtake == [By(author, 15, "issue") EXCEPT !.ids = {13}]
Unmined == [Mined EXCEPT !.id = 14, !.nonce = 0]

\* Statuses and labels, two of them in one second.
Resolved == About(steward, 20, "status_resolved", 10)
Reopened == About(author, 21, "status_open", 10)
ClosedByStranger == [About(stranger, 22, "status_closed", 10) EXCEPT !.created_at = 2]
High == [By(steward, 23, "priority_label") EXCEPT !.ids = {10}, !.value = "high"]
Low == [By(owner, 24, "priority_label") EXCEPT !.ids = {10, 11}, !.value = "low"]
Blocked == [By(owner, 25, "state_label") EXCEPT !.ids = {10}, !.value = "blocked"]
StrangerLabel == [By(stranger, 26, "priority_label") EXCEPT
                    !.ids = {10}, !.value = "critical", !.created_at = 2]

\* Claims: one asks for ten lifetimes, and is released in the same second.
Claim == [About(stranger, 30, "claim", 10) EXCEPT !.value = "active", !.expiration = 20]
Release == [About(stranger, 31, "claim", 10) EXCEPT !.value = "released"]
Renewal == [About(stranger, 32, "claim", 10) EXCEPT !.value = "active", !.created_at = 2]
AuthorClaim == [About(author, 33, "claim", 10) EXCEPT !.value = "active", !.expiration = 2]

\* A pledge, the verdict on it, and the pledge republished with more.
Pledge == [About(stranger, 40, "pledge", 10) EXCEPT !.amount = 2]
PledgeMore == [About(stranger, 41, "pledge", 10) EXCEPT !.amount = 5, !.created_at = 2]
Backed == [About(steward, 42, "pledge_attestation", 10) EXCEPT
             !.target = stranger, !.ids = {40}, !.value = "backed", !.created_at = 2]
Paid == [About(owner, 43, "pledge_attestation", 10) EXCEPT
             !.target = stranger, !.ids = {41}, !.value = "paid", !.keys = {author},
             !.created_at = 2]

\* Retractions: of one's own task and vouch set, of the announcement, and of
\* what is not one's own.
RetractTask == [By(author, 50, "deletion_request") EXCEPT !.ids = {10, 21}]
RetractAll == [By(owner, 51, "deletion_request") EXCEPT !.ids = {1, 2, 3}]
RetractOthers == [By(stranger, 52, "deletion_request") EXCEPT !.ids = {2, 3, 10, 20}]

\* Comments and key relations.
StrangerComment == [About(stranger, 60, "comment", 10) EXCEPT !.zero_bits = 3, !.nonce = 3]
AuthorComment == [About(author, 61, "comment", 10) EXCEPT !.created_at = 3]
ActsFor == [By(stranger, 62, "key_properties") EXCEPT
              !.d = nano, !.value = "acts_for", !.keys = {author, steward}]
Delegates == [By(author, 63, "key_properties") EXCEPT
              !.d = nano, !.value = "delegates_to", !.keys = {stranger}]

MCScenarios ==
    { {Appoint, OwnerVouches, AuthorVouches, Attested, NotAttested, Unmined},
      {Appoint, OwnerVouches, OwnerDoubts, Blocks, Overtake, Mined},
      {Appoint, Dismiss, Old, Resolved, Reopened},
      {Appoint, Old, High, Low, Blocked},
      {Old, Claim, Release, Renewal, AuthorClaim},
      {Appoint, Old, Pledge, PledgeMore, Backed, Paid},
      {Appoint, OwnerVouches, Old, Resolved, RetractTask, RetractAll},
      {Old, Mined, ClosedByStranger, StrangerLabel, StrangerComment, RetractOthers},
      {OwnerVouches, AuthorComment, ActsFor, Delegates, Old} }

SupersedeScenario == {{OwnerVouches, Appoint, Old, New, Steward}}

MCEvents == UNION (MCScenarios \cup SupersedeScenario)
=============================================================================
