------------------------ MODULE MCCommunityMessages ------------------------
(***************************************************************************)
(* Instances of CommunityMessages.  Each initial state has the requests of *)
(* one scenario; the scenarios about notes leave the labels at rest and    *)
(* those about labels leave rebuilds, hides and pages at rest, since the   *)
(* two share only the message log and the keys.                            *)
(***************************************************************************)
EXTENDS CommunityMessages, TLC

CONSTANTS a, k, b1, b2, reader, NoRow

VARIABLE focus

MCKeys == {a, k}
MCBlocks == {b1, b2}
MCBlockAccount == [b \in MCBlocks |-> IF b = b1 THEN a ELSE k]

Note(digest, key, block, issued_at, note) ==
    [operation |-> "SET_BLOCK_META", digest |-> digest, key |-> key,
     block |-> block, issued_at |-> issued_at, note |-> note]

Meta(digest, key, issued_at, alias, tags) ==
    [operation |-> "SET_ACCOUNT_META", digest |-> digest, key |-> key,
     issued_at |-> issued_at, alias |-> alias, tags |-> tags]

Send(m, attempt) ==
    [kind |-> "message", message |-> m, issued_at |-> m.issued_at, attempt |-> attempt]

LinkOf(key, account, issued_at) ==
    [kind |-> "link", key |-> key, account |-> account, issued_at |-> issued_at]

Revoke(key, signer, issued_at) ==
    [kind |-> "revoke", key |-> key, signer |-> signer, issued_at |-> issued_at]

Register(key, username, issued_at) ==
    [kind |-> "register", key |-> key, username |-> username, issued_at |-> issued_at]

First == Note(1, a, b1, 0, "first")
Tied == Note(2, k, b1, 0, "tied")
Later == Note(3, a, b1, 1, "later")
Erased == Note(4, a, b1, 1, "")
OnOwn == Note(5, k, b2, 0, "own")
Ahead == Note(8, k, b1, 2, "ahead")

\* A retry, a tie within a second, a cleared note, a note by a linked key, and
\* one by a key that may be revoked by then.
PageInboxes == { {Send(First, 1), Send(Erased, 1)} }

NoteInboxes ==
    PageInboxes \cup
    { {Send(First, 1), Send(First, 2), Send(Later, 1)},
      {LinkOf(k, a, 0), Send(Tied, 1), Send(First, 1), Revoke(k, a, 1)},
      {LinkOf(k, a, 0), Send(OnOwn, 1)},
      {LinkOf(k, a, 0), Revoke(k, a, 0), Send(Ahead, 1)} }

KeyInboxes ==
    { {Register(k, "u", 0), Register(k, "v", 1), Register(a, "u", 1)},
      {LinkOf(k, a, 0), LinkOf(k, a, 1), Revoke(k, a, 0), Revoke(k, k, 1)} }

LabelInboxes == { {Send(Meta(6, a, 0, "me", {"type/exchange"}), 1)} }

LinkedInboxes == { {LinkOf(k, a, 0), Send(Meta(7, k, 0, "nick", {}), 1)} }

MCInboxes == NoteInboxes \cup KeyInboxes \cup LabelInboxes \cup LinkedInboxes

MCSources == <<"nano.to", "nanolooker">>
MCTrust == "signed-message" :> 100 @@ "nano.to" :> 50 @@ "nanolooker" :> 40
MCTags == {"type/exchange", "type/burn"}

Entry(account, label_type, value, expires_at) ==
    [account |-> account, label_type |-> label_type, value |-> value,
     expires_at |-> expires_at]

MCLists ==
    "nano.to" :> {{Entry(a, "alias", "shop", 1)}, {Entry(k, "alias", "kay", NoRow)}}
    @@ "nanolooker" :> {{Entry(a, "tag", "type/burn", NoRow)}}

Focus ==
    IF inbox \in LabelInboxes THEN {"labels"}
    ELSE IF inbox \in LinkedInboxes THEN {"linked"}
    ELSE IF inbox \in KeyInboxes THEN {"keys"}
    ELSE IF inbox \in PageInboxes THEN {"rebuild", "page"}
    ELSE {"rebuild"}

Syncing == {"labels", "linked"}

MCInit ==
    /\ Init
    /\ accounts = [key \in Keys |-> IF key = a THEN None ELSE NoAlias]
    /\ focus \in Focus
    /\ listed = IF focus \notin Syncing THEN [s \in SourceSet |-> {}]
                ELSE "nano.to" :> {Entry(a, "alias", "shop", 1)}
                     @@ "nanolooker" :> {Entry(a, "tag", "type/burn", NoRow)}

MCNext ==
    /\ UNCHANGED focus
    /\ \/ KeysNext /\ UNCHANGED <<noteVars, labelVars>>
       \/ \E h \in handlers : NoteStep(h) /\ UNCHANGED labelVars
       \/ focus = "rebuild" /\ (RebuildStep \/ HideStep) /\ UNCHANGED labelVars
       \/ focus = "page" /\ (PageStep \/ HideStep) /\ UNCHANGED labelVars
       \/ focus = "labels" /\ LabelsNext
       \/ focus = "linked" /\ LabelStep
          /\ UNCHANGED <<clock, inbox, account_keys, users, noteVars>>

MCLabelFairness ==
    LET Rest == UNCHANGED <<clock, inbox, account_keys, users, noteVars, focus>>
    IN  /\ WF_vars(focus \in Syncing /\ SyncStart /\ Rest)
        /\ WF_vars(focus \in Syncing /\ SyncStep /\ Rest)
        /\ WF_vars((\E j \in jobs : JobStep(j)) /\ Rest)

MCSpec == MCInit /\ [][MCNext]_<<vars, focus>> /\ PageFairness /\ MCLabelFairness

=============================================================================
