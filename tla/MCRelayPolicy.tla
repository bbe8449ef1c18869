--------------------------- MODULE MCRelayPolicy ----------------------------
(***************************************************************************)
(* Catalogues of events for the relay's runs, on one board.  The trust     *)
(* runs have no client addresses, so every event comes from the operator   *)
(* and only its order, commits and crashes matter; the rate runs give two  *)
(* events of strangers to two addresses and a clock.                       *)
(***************************************************************************)
EXTENDS RelayPolicy

CONSTANTS owner, steward, member, newcomer, board, ip1, ip2

MCPubkeys == {owner, steward, member, newcomer}
MCBoards == {board}
MCIps == {ip1, ip2}
MCOwner == [b \in {board} |-> owner]

Blank == [ id |-> 0, kind |-> "profile", pubkey |-> owner, created_at |-> 1,
           zero_bits |-> 0, nonce |-> 0, a |-> <<>>, d |-> NoEvent, issue |-> 0,
           ids |-> {}, keys |-> {}, target |-> owner, value |-> "", amount |-> 0,
           expiration |-> 0 ]

\* The announcement that appoints the steward and the one of the same second,
\* with a lower id, that appoints nobody.
Appoint == [Blank EXCEPT !.id = 2, !.kind = "announcement", !.d = board, !.keys = {steward}]
Dismiss == [Blank EXCEPT !.id = 1, !.kind = "announcement", !.d = board]

\* The steward vouches for a member, who vouches for the newcomer; the owner
\* vouches for the member too, and later no longer does.
StewardVouches == [Blank EXCEPT !.id = 3, !.kind = "vouch_set", !.pubkey = steward,
                                !.keys = {member, steward}]
MemberVouches == [Blank EXCEPT !.id = 4, !.kind = "vouch_set", !.pubkey = member,
                               !.keys = {newcomer}]
OwnerVouches == [Blank EXCEPT !.id = 6, !.kind = "vouch_set", !.keys = {member}]
OwnerVouchesNoMore == [Blank EXCEPT !.id = 5, !.kind = "vouch_set", !.keys = {newcomer},
                                    !.created_at = 2]

\* The newcomer's account is attested established, until it lapses or the
\* owner says otherwise, and by another steward not to be.
Established == [Blank EXCEPT !.id = 7, !.kind = "account_attestation",
                   !.keys = {newcomer}, !.target = newcomer, !.value = "established",
                   !.expiration = 1]
NotEstablished == [Blank EXCEPT !.id = 8, !.kind = "account_attestation", !.pubkey = steward,
                   !.keys = {newcomer}, !.target = newcomer, !.value = "not_established"]
Lapsed == [Established EXCEPT !.id = 18, !.value = "not_established", !.created_at = 2]
StewardBlocks == [Blank EXCEPT !.id = 9, !.kind = "block_set", !.pubkey = steward,
                               !.keys = {newcomer}]

\* A forged announcement by a key that wants to be a steward, and mined issues.
Usurp == [Blank EXCEPT !.id = 10, !.kind = "announcement", !.pubkey = member,
                       !.d = board, !.keys = {member}, !.created_at = 3]
Filed == [Blank EXCEPT !.id = 11, !.kind = "issue", !.pubkey = newcomer, !.a = <<board>>,
                       !.zero_bits = 1, !.nonce = 1]

\* The owner's verdict that a pledge on the issue was paid to the member.
Paid == [Blank EXCEPT !.id = 12, !.kind = "pledge_attestation", !.issue = 11,
             !.ids = {99}, !.keys = {member}, !.target = owner, !.value = "paid"]

\* The owner takes its vouch set back.
Retract == [Blank EXCEPT !.id = 13, !.kind = "deletion_request", !.ids = {6}]

\* The owner asks for its announcements to be deleted, which nobody does.
RetractAnnouncements == [Blank EXCEPT !.id = 19, !.kind = "deletion_request",
                                      !.ids = {1, 2}]

VouchEvents == {Appoint, Dismiss, StewardVouches, MemberVouches, OwnerVouches,
                OwnerVouchesNoMore, Usurp, RetractAnnouncements, Filed}
StandingEvents == {Appoint, MemberVouches, Established, NotEstablished,
                   Lapsed, StewardBlocks, Paid}
RetractEvents == {OwnerVouches, MemberVouches, Filed, Retract}

\* Writes of a stranger, and one of a steward.
Comment == [Filed EXCEPT !.id = 15, !.kind = "comment", !.a = <<>>, !.issue = 11]
OwnerComment == [Comment EXCEPT !.id = 16, !.pubkey = owner, !.zero_bits = 0]
UnminedIssue == [Filed EXCEPT !.id = 17, !.nonce = 0]
RateEvents == {Filed, OwnerComment, UnminedIssue}

WriteEvents == VouchEvents \cup StandingEvents \cup RateEvents
=============================================================================
