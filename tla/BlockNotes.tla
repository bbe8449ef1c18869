----------------------------- MODULE BlockNotes -----------------------------
(***************************************************************************)
(* Signed messages and the notes on blocks: routes/auth/message.mjs,       *)
(* process-set-block-meta.mjs, scripts/rebuild-blocks-meta.mjs,            *)
(* scripts/hide-block-note.mjs and the page that shows a note,             *)
(* routes/blocks.mjs, over PostgreSQL at READ COMMITTED: a statement sees  *)
(* what is committed when it starts, and a write waits for a transaction   *)
(* that has written the same row.                                          *)
(***************************************************************************)
EXTENDS AccountKeys

CONSTANTS
    Blocks,
    BlockAccount,  \* the account that published each block
    Readers,       \* requests for a block page in flight at once
    Cleared,       \* the empty note
    MAX_REBUILDS,  \* bound: runs of the rebuild script
    MAX_HIDES      \* bound: runs of the hide script

\* The messages clients send; the digest is a hash of all a message says.
Sent == {r.message : r \in {r \in Requests : r.kind = "message"}}

SentNotes == {m \in Sent : m.operation = "SET_BLOCK_META"}

ASSUME NotesAssumption ==
    /\ BlockAccount \in [Blocks -> Keys]
    /\ MAX_REBUILDS \in Nat
    /\ MAX_HIDES \in Nat
    /\ \A r \in Requests : r.kind = "message" => r.issued_at = r.message.issued_at
    /\ \A m \in Sent : m.key \in Keys /\ m.digest \in Int /\ m.issued_at \in Int
    /\ \A m, n \in Sent : m.digest = n.digest => m = n
    /\ \A m \in SentNotes : m.block \in Blocks
    /\ None \notin Sent
    /\ None \notin [account : Keys, note : {m.note : m \in SentNotes}, digest : Int,
                    issued_at : Int, hidden : BOOLEAN]

VARIABLES
    messages,     \* table nano_community_messages
    blocks_meta,  \* table blocks_meta, as committed
    rebuild,      \* the rebuild script and its transaction
    cache,        \* the API's response cache: the note it answers with
    pages,        \* per reader: the block and the note it selected
    hides,        \* runs of the hide script so far
    history       \* what happened, for the properties only

noteVars == <<messages, blocks_meta, rebuild, cache, pages, hides, history>>

Notes == {m \in messages : m.operation = "SET_BLOCK_META"}

\* Mutant: the digest does not break a tie of one second.
NewerThanByTime(m, stored) == m.issued_at > stored.issued_at

NewerThan(m, stored) ==
    \/ m.issued_at > stored.issued_at
    \/ m.issued_at = stored.issued_at /\ m.digest > stored.digest

(***************************************************************************)
(* The message route                                                       *)
(***************************************************************************)

Message(h) == h.request.message

ResolveAccount(h) ==
    /\ At(h, "message", "verified")
    /\ handlers' = (handlers \ {h}) \cup
         {[h EXCEPT !.phase = "resolved", !.account = ActsFor(Message(h).key)]}
    /\ UNCHANGED <<clock, inbox, account_keys, users, noteVars>>

\* The node may also be down, or not have confirmed the block: 503 or 400.
RefuseNote(h) ==
    /\ At(h, "message", "resolved")
    /\ Message(h).operation = "SET_BLOCK_META"
    /\ Finish(h)
    /\ UNCHANGED <<clock, inbox, account_keys, users, noteVars>>

StoreMessage(h) ==
    /\ At(h, "message", "resolved")
    /\ LET m == Message(h) IN
         /\ m.operation = "SET_BLOCK_META" => BlockAccount[m.block] = h.account
         /\ messages' = messages \cup {m}
         /\ IF m \in messages THEN Finish(h) ELSE GoOn(h, "stored", None)
    /\ UNCHANGED <<clock, inbox, account_keys, users,
                   blocks_meta, rebuild, cache, pages, hides, history>>

(* process_set_block_meta *)

Content(row) == IF row = None THEN None ELSE row.digest

Row(m, account, hidden) ==
    [account |-> account, note |-> m.note, digest |-> m.digest,
     issued_at |-> m.issued_at, hidden |-> hidden]

\* INSERT ... ON CONFLICT MERGE: the hide columns are not among the merged.
Merged(m, account, stored) ==
    Row(m, account, IF stored = None THEN FALSE ELSE stored.hidden)

\* The select and the comparison; a note that is not newer is not applied.
ReadStored(h) ==
    /\ At(h, "message", "stored")
    /\ Message(h).operation = "SET_BLOCK_META"
    /\ LET m == Message(h)
           stored == blocks_meta[m.block]
       IN  IF stored = None \/ NewerThan(m, stored)
           THEN GoOn(h, "compared", stored)
           ELSE GoOn(h, "applied", stored)
    /\ UNCHANGED <<clock, inbox, account_keys, users, noteVars>>

\* A row the rebuild's transaction has written is locked until it ends.
Locked(b) == b \in rebuild.written

UpsertNote(h) ==
    /\ At(h, "message", "compared")
    /\ LET m == Message(h)
           stored == blocks_meta[m.block]
       IN  /\ ~Locked(m.block)
           /\ blocks_meta' = [blocks_meta EXCEPT
                ![m.block] = Merged(m, h.account, stored)]
           /\ history' = [history EXCEPT
                !.raced = IF Content(stored) = Content(h.saw)
                          THEN @ ELSE @ \cup {m.block},
                !.live = @ \cup {m.block}]
    /\ GoOn(h, "applied", None)
    /\ UNCHANGED <<clock, inbox, account_keys, users,
                   messages, rebuild, cache, pages, hides>>

\* cache.del and the answer.
Invalidate(h) ==
    /\ At(h, "message", "applied")
    /\ cache' = [cache EXCEPT ![Message(h).block] = None]
    /\ Finish(h)
    /\ UNCHANGED <<clock, inbox, account_keys, users,
                   messages, blocks_meta, rebuild, pages, hides, history>>

\* "message stored but not applied": a statement failed, or the server died.
ApplyFails(h) ==
    /\ \E phase \in {"stored", "compared"} : At(h, "message", phase)
    /\ Message(h).operation = "SET_BLOCK_META"
    /\ history' = [history EXCEPT !.failed = @ \cup {Message(h)}]
    /\ Finish(h)
    /\ UNCHANGED <<clock, inbox, account_keys, users,
                   messages, blocks_meta, rebuild, cache, pages, hides>>

NoteStep(h) ==
    \/ ResolveAccount(h)
    \/ RefuseNote(h)
    \/ StoreMessage(h)
    \/ ReadStored(h)
    \/ UpsertNote(h)
    \/ Invalidate(h)
    \/ ApplyFails(h)

(***************************************************************************)
(* The rebuild script: one transaction                                     *)
(***************************************************************************)

NoRebuild ==
    [phase |-> "off", previous |-> {}, log |-> {}, todo |-> {},
     mine |-> [b \in Blocks |-> None], written |-> {}, saw |-> None,
     rejected |-> {}, raced |-> {}]

\* What the transaction's own statements see.
Sees(b) == IF b \in rebuild.written THEN rebuild.mine[b] ELSE blocks_meta[b]

\* previous: only the rows it will restore a hide to.
RebuildStart ==
    /\ rebuild.phase = "off"
    /\ history.rebuilds < MAX_REBUILDS
    /\ rebuild' = [NoRebuild EXCEPT
         !.phase = "selected",
         !.previous = {b \in Blocks : blocks_meta[b] # None /\ blocks_meta[b].hidden}]
    /\ history' = [history EXCEPT !.rebuilds = @ + 1, !.hid = {}]
    /\ UNCHANGED <<keyVars, messages, blocks_meta, cache, pages, hides>>

\* Mutant: the rows are not deleted before the log is replayed.
RebuildDeleteNothing ==
    /\ rebuild.phase = "selected"
    /\ rebuild' = [rebuild EXCEPT !.phase = "deleted"]
    /\ history' = [history EXCEPT !.live = {}]
    /\ UNCHANGED <<keyVars, messages, blocks_meta, cache, pages, hides>>

RebuildDelete ==
    /\ rebuild.phase = "selected"
    /\ rebuild' = [rebuild EXCEPT
         !.phase = "deleted",
         !.written = {b \in Blocks : blocks_meta[b] # None}]
    /\ history' = [history EXCEPT !.live = {}]
    /\ UNCHANGED <<keyVars, messages, blocks_meta, cache, pages, hides>>

RebuildReadLog ==
    /\ rebuild.phase = "deleted"
    /\ rebuild' = [rebuild EXCEPT !.phase = "replaying", !.log = Notes, !.todo = Notes]
    /\ UNCHANGED <<keyVars, messages, blocks_meta, cache, pages, hides, history>>

\* ORDER BY created_at, message_digest
NextToReplay(m) ==
    /\ m \in rebuild.todo
    /\ \A other \in rebuild.todo \ {m} : NewerThan(other, m)

ReplayRead(m) ==
    /\ rebuild.phase = "replaying"
    /\ NextToReplay(m)
    /\ LET stored == Sees(m.block)
       IN  rebuild' =
             IF SignedFor(m.key, m.issued_at) # BlockAccount[m.block]
             THEN [rebuild EXCEPT !.todo = @ \ {m}, !.rejected = @ \cup {m}]
             ELSE IF stored = None \/ NewerThan(m, stored)
             THEN [rebuild EXCEPT !.phase = "writing", !.saw = stored]
             ELSE [rebuild EXCEPT !.todo = @ \ {m}]
    /\ UNCHANGED <<keyVars, messages, blocks_meta, cache, pages, hides, history>>

ReplayWrite(m) ==
    /\ rebuild.phase = "writing"
    /\ NextToReplay(m)
    /\ LET b == m.block IN
         rebuild' = [rebuild EXCEPT
           !.phase = "replaying",
           !.todo = @ \ {m},
           !.mine[b] = Merged(m, BlockAccount[b], Sees(b)),
           !.written = @ \cup {b},
           !.raced = IF Content(Sees(b)) = Content(rebuild.saw)
                     THEN @ ELSE @ \cup {b},
           !.saw = None]
    /\ UNCHANGED <<keyVars, messages, blocks_meta, cache, pages, hides, history>>

\* Mutant: the hidden notes are not hidden again.
RebuildRestoreNothing ==
    /\ rebuild.phase = "replaying"
    /\ rebuild.todo = {}
    /\ rebuild' = [rebuild EXCEPT !.phase = "restored"]
    /\ UNCHANGED <<keyVars, messages, blocks_meta, cache, pages, hides, history>>

\* A hide on a block without a row is dropped.
RebuildRestore ==
    /\ rebuild.phase = "replaying"
    /\ rebuild.todo = {}
    /\ LET restored == {b \in rebuild.previous : Sees(b) # None} IN
         rebuild' = [rebuild EXCEPT
           !.phase = "restored",
           !.mine = [b \in Blocks |->
             IF b \in restored THEN [Sees(b) EXCEPT !.hidden = TRUE] ELSE @[b]],
           !.written = @ \cup restored]
    /\ UNCHANGED <<keyVars, messages, blocks_meta, cache, pages, hides, history>>

RebuildCommit ==
    /\ rebuild.phase = "restored"
    /\ blocks_meta' = [b \in Blocks |-> Sees(b)]
    /\ rebuild' = NoRebuild
    /\ history' = [history EXCEPT
         !.failed = @ \ rebuild.log,
         !.raced = rebuild.raced \cup (@ \cap history.live),
         !.dropped = {m.block : m \in rebuild.rejected}]
    /\ UNCHANGED <<keyVars, messages, cache, pages, hides>>

\* A dry run, an outage of the node, a failed statement, or a crash.
RebuildRollback ==
    /\ rebuild.phase # "off"
    /\ rebuild' = NoRebuild
    /\ UNCHANGED <<keyVars, messages, blocks_meta, cache, pages, hides, history>>

RebuildStep ==
    \/ RebuildStart
    \/ RebuildDelete
    \/ RebuildReadLog
    \/ \E m \in rebuild.todo : ReplayRead(m) \/ ReplayWrite(m)
    \/ RebuildRestore
    \/ RebuildCommit
    \/ RebuildRollback

(***************************************************************************)
(* The hide script and the block page                                      *)
(***************************************************************************)

\* An update that waited for a rebuild finds its row deleted and changes
\* nothing, which is as if it had not run.
HideNote(b, hidden) ==
    /\ hides < MAX_HIDES
    /\ blocks_meta[b] # None
    /\ blocks_meta[b].hidden # hidden
    /\ ~Locked(b)
    /\ hides' = hides + 1
    /\ blocks_meta' = [blocks_meta EXCEPT ![b].hidden = hidden]
    /\ history' = [history EXCEPT
         !.hid = IF rebuild.phase = "selected" THEN @ \cup {b} ELSE @]
    /\ UNCHANGED <<keyVars, messages, rebuild, cache, pages>>

\* The note the page's query returns, if any.
Shown(b) ==
    LET row == blocks_meta[b]
    IN  IF row = None \/ row.hidden \/ row.note = Cleared
        THEN {} ELSE {row.digest}

PageSelect(p, b) ==
    /\ pages[p] = None
    /\ cache[b] = None
    /\ pages' = [pages EXCEPT ![p] = [block |-> b, shown |-> Shown(b)]]
    /\ UNCHANGED <<keyVars, messages, blocks_meta, rebuild, cache, hides, history>>

PageRespond(p) ==
    /\ pages[p] # None
    /\ cache' = [cache EXCEPT ![pages[p].block] = pages[p].shown]
    /\ pages' = [pages EXCEPT ![p] = None]
    /\ UNCHANGED <<keyVars, messages, blocks_meta, rebuild, hides, history>>

\* Mutant: responses are cached without a time to live.
CacheKeeps(b) == FALSE /\ UNCHANGED <<keyVars, noteVars>>

\* 30 seconds after it was set.
CacheExpire(b) ==
    /\ cache[b] # None
    /\ cache' = [cache EXCEPT ![b] = None]
    /\ UNCHANGED <<keyVars, messages, blocks_meta, rebuild, pages, hides, history>>

HideStep == \E b \in Blocks, hidden \in BOOLEAN : HideNote(b, hidden)

PageStep ==
    \/ \E p \in Readers, b \in Blocks : PageSelect(p, b)
    \/ \E p \in Readers : PageRespond(p)
    \/ \E b \in Blocks : CacheExpire(b)

(* Specification *)

NotesInit ==
    /\ messages = {}
    /\ blocks_meta = [b \in Blocks |-> None]
    /\ rebuild = NoRebuild
    /\ cache = [b \in Blocks |-> None]
    /\ pages = [p \in Readers |-> None]
    /\ hides = 0
    /\ history = [failed |-> {}, raced |-> {}, dropped |-> {}, live |-> {},
                  hid |-> {}, rebuilds |-> 0]

NotesNext ==
    \/ \E h \in handlers : NoteStep(h)
    \/ RebuildStep
    \/ HideStep
    \/ PageStep

\* A page's request ends and a cache entry expires by a timer.  Nothing else
\* need ever happen: a handler may hang at any await.
PageFairness ==
    /\ \A p \in Readers : WF_<<keyVars, noteVars>>(PageRespond(p))
    /\ \A b \in Blocks : WF_<<keyVars, noteVars>>(CacheExpire(b))

NotesTypeOK ==
    /\ \A b \in Blocks : blocks_meta[b] # None =>
         /\ \E m \in Notes : m.block = b /\ m.digest = blocks_meta[b].digest
         /\ blocks_meta[b].hidden \in BOOLEAN
    /\ rebuild.todo \subseteq rebuild.log /\ rebuild.log \subseteq Notes
    /\ rebuild.written \subseteq Blocks
    /\ rebuild.phase = "off" => rebuild = NoRebuild
    /\ \A p \in Readers : pages[p] # None => pages[p].block \in Blocks
    /\ hides \in 0 .. MAX_HIDES

(***************************************************************************)
(* Properties                                                              *)
(***************************************************************************)

NotesOn(b) == {m \in Notes : m.block = b}

\* The latest of a set of notes, of one second the highest digest; or None.
NewestOf(M) ==
    IF M = {} THEN None
    ELSE CHOOSE m \in M : \A other \in M :
           \/ other.issued_at < m.issued_at
           \/ other.issued_at = m.issued_at /\ other.digest <= m.digest

Applying(b) ==
    \E h \in handlers :
      /\ \E phase \in {"stored", "compared"} : At(h, "message", phase)
      /\ Message(h).operation = "SET_BLOCK_META"
      /\ Message(h).block = b

Revoked(k) == account_keys[k] # None /\ account_keys[k].revoked_at # None

\* The times a signature can bear.
Times == (0 - WINDOW) .. (MAX_CLOCK + WINDOW)

\* A second revocation that looked before the first was written.
RevokesAgain(h, k) ==
    At(h, "revoke", "checked") /\ h.request.key = k /\ h.saw.revoked_at = None

(* Once a key's link is revoked, what its signatures stand for is settled, *)
(* each by the time it bears: the account's if the link was in force then, *)
(* else the key's own.  Linking again or revoking again changes it for no  *)
(* time, save that a revocation which looked before the first was written  *)
(* moves the end of the link to its own second.  And the message route     *)
(* stores for the account no note the key dated more than the window after *)
(* the revocation, although it may have resolved the key before it.  What  *)
(* the key dates before the revocation stays the account's to rebuilds and *)
(* labels, even sent after it: time is as the signer says.  register.mjs,  *)
(* revoke.mjs:43-72, message.mjs:64-69, resolve-signer-account.mjs:17.     *)
RevocationStands ==
    [][\A k \in Keys : Revoked(k) =>
         /\ \A t \in Times : SignedFor(k, t)' # SignedFor(k, t) =>
              /\ account_keys[k].revoked_at <= t /\ t < clock
              /\ \E h \in handlers \ handlers' : RevokesAgain(h, k)
         /\ \A m \in Notes' \ Notes :
              m.key = k /\ BlockAccount[m.block] # k =>
                m.issued_at <= account_keys[k].revoked_at + WINDOW]_<<keyVars, noteVars>>

(* The stored note of a block is the newest the message log has for it,    *)
(* whatever order messages were taken up, stored and applied in, and       *)
(* however rebuilds ran beside them; save while one is being applied, and  *)
(* after: a write that passed another between its select and its upsert,   *)
(* an application that failed, or a rebuild that refused a signer.  A      *)
(* rebuild repairs the first two.  process-set-block-meta.mjs:73-75,       *)
(* schema.postgres.sql:212-214 (a cleared note is kept).                   *)
NotesAreNewest ==
    \A b \in Blocks :
      (/\ ~Applying(b)
       /\ b \notin history.raced \cup history.dropped
       /\ history.failed \cap NotesOn(b) = {})
      => Content(blocks_meta[b]) = Content(NewestOf(NotesOn(b)))

\* What the log declares, each signature attributed as of its time.
Declared(b) ==
    NewestOf({m \in NotesOn(b) : SignedFor(m.key, m.issued_at) = BlockAccount[b]})

(* A rebuild that nothing overtook makes each note what the log declares:  *)
(* no message on the block came after its log was read, none was applied   *)
(* since it deleted the rows, and no link changed what it had attributed.  *)
RebuildGivesDeclared ==
    [][RebuildCommit => \A b \in Blocks :
         (/\ NotesOn(b) \subseteq rebuild.log
          /\ b \notin rebuild.raced \cup history.live
          /\ \A m \in NotesOn(b) : m \in rebuild.rejected <=>
               SignedFor(m.key, m.issued_at) # BlockAccount[b])
         => Content(blocks_meta'[b]) = Content(Declared(b))]_<<blocks_meta, rebuild>>

(* "The hide columns are operator moderation state and survive a rebuild." *)
(* schema.postgres.sql:214-215: a rebuild neither unhides nor hides a note *)
(* its block keeps, save for a block hidden or unhidden between the        *)
(* script's select of the previous rows and its delete.                    *)
HidesSurviveOutsideTheGap ==
    [][RebuildCommit => \A b \in Blocks \ history.hid :
         blocks_meta[b] # None /\ blocks_meta'[b] # None
         => blocks_meta'[b].hidden = blocks_meta[b].hidden]_<<blocks_meta, rebuild>>

(* Once a note rests, the page stops answering with what it was before,    *)
(* hidden notes included: "the block API stops returning it once its       *)
(* 30-second response cache expires", hide-block-note.mjs:11-12.           *)
PagesCatchUp ==
    \A b \in Blocks : <>[](cache[b] \in {None, Shown(b)})

=============================================================================
