--------------------------- MODULE AccountLabels ---------------------------
(***************************************************************************)
(* Aliases and tags of accounts: libs-server/account-labels.  Claims come  *)
(* from directories, fetched by a daily script, and from signed messages;  *)
(* accounts.alias and accounts_tags are what an account's claims resolve   *)
(* to, written by whoever touched the claims, without a transaction.       *)
(***************************************************************************)
EXTENDS BlockNotes, Sequences

CONSTANTS
    Sources,       \* DIRECTORY_SOURCES, in order
    TRUST,         \* ACCOUNT_LABEL_SOURCE_TRUST
    TAGS,          \* ACCOUNT_TAG_VOCABULARY
    Lists,         \* what each directory may list, besides nothing: sets of lists
    BATCH_SIZE,
    MAX_RELISTS,   \* bound: changes of the directories
    MAX_FAILURES   \* bound: failures of statements and of the script

ASSUME LabelsAssumption ==
    /\ Sources \in Seq(STRING) /\ Sources # <<>>
    /\ \A i \in DOMAIN Sources : \A list \in Lists[Sources[i]] :
         \A e \in list : e.account \in Keys
    /\ TRUST \in [DOMAIN TRUST -> Nat]
    /\ BATCH_SIZE \in Nat \ {0}
    /\ MAX_RELISTS \in Nat /\ MAX_FAILURES \in Nat

VARIABLES
    listed,          \* what each directory lists now
    account_labels,  \* table account_labels
    accounts,        \* table accounts: the alias of a row, or no row
    accounts_tags,   \* table accounts_tags
    changelog,       \* table accounts_changelog
    sync,            \* the sync script
    jobs,            \* calls of materialize_account_labels in progress
    relists, failures

labelVars == <<listed, account_labels, accounts, accounts_tags, changelog,
               sync, jobs, relists, failures>>

NoAlias == "none"

NoSync == [phase |-> "off", queue |-> <<>>, now |-> 0,
           list |-> {}, todo |-> {}, touched |-> {}]

(***************************************************************************)
(* Claims and what they resolve to                                         *)
(***************************************************************************)

Claim(account, source, label_type, value, observed_at, expires_at) ==
    [account |-> account, source |-> source, label_type |-> label_type,
     value |-> value, observed_at |-> observed_at, expires_at |-> expires_at]

Live(claim, now) ==
    /\ claim.source \in DOMAIN TRUST
    /\ claim.expires_at = None \/ claim.expires_at > now

Outranks(a, b) ==
    \/ TRUST[a.source] > TRUST[b.source]
    \/ TRUST[a.source] = TRUST[b.source] /\ a.observed_at > b.observed_at

AliasClaims(claims, now) ==
    {c \in claims : Live(c, now) /\ c.label_type = "alias"}

\* A tie goes to the claim scanned first, in no given order.
AliasesOf(claims, now) ==
    LET A == AliasClaims(claims, now)
    IN  IF A = {} THEN {NoAlias}
        ELSE {c.value : c \in {c \in A : \A other \in A : ~Outranks(other, c)}}

TagsOf(claims, now) ==
    {c.value : c \in {c \in claims :
       Live(c, now) /\ c.label_type = "tag" /\ c.value \in TAGS}}

\* load_signed_message_claims
SignedClaims(account) ==
    LET mine == {m \in messages :
          m.operation = "SET_ACCOUNT_META" /\ SignedFor(m.key, m.issued_at) = account}
    IN  {Claim(account, "signed-message", "alias", m.alias, m.issued_at, None) :
           m \in {m \in mine : m.alias # NoAlias}}
        \cup
        UNION {{Claim(account, "signed-message", "tag", t, m.issued_at, None) :
                  t \in m.tags} : m \in mine}

StoredClaims(account) == {c \in account_labels : c.account = account}

(***************************************************************************)
(* materialize_account_labels                                              *)
(***************************************************************************)

Job(by, account, now) ==
    [by |-> by, account |-> account, now |-> now, phase |-> "start",
     claims |-> {}, alias |-> NoAlias, tags |-> {}, saw |-> None, had |-> {}]

Replace(j, k) == jobs' = (jobs \ {j}) \cup {k}

ReadStoredClaims(j) ==
    /\ j.phase = "start"
    /\ Replace(j, [j EXCEPT !.phase = "stored", !.claims = StoredClaims(j.account)])
    /\ UNCHANGED <<listed, account_labels, accounts, accounts_tags, changelog,
                   sync, relists, failures, handlers>>

\* Reads the signed claims and resolves them all.
ReadSignedClaims(j) ==
    /\ j.phase = "stored"
    /\ LET claims == j.claims \cup SignedClaims(j.account) IN
         \E alias \in AliasesOf(claims, j.now) :
           Replace(j, [j EXCEPT !.phase = "resolved", !.claims = {},
                                !.alias = alias, !.tags = TagsOf(claims, j.now)])
    /\ UNCHANGED <<listed, account_labels, accounts, accounts_tags, changelog,
                   sync, relists, failures, handlers>>

AliasOf(row) == IF row = None THEN NoAlias ELSE row

ReadAlias(j) ==
    /\ j.phase = "resolved"
    /\ LET row == accounts[j.account] IN
         Replace(j, [j EXCEPT !.saw = row,
           !.phase = IF AliasOf(row) = j.alias THEN "alias_logged" ELSE "alias_read"])
    /\ UNCHANGED <<listed, account_labels, accounts, accounts_tags, changelog,
                   sync, relists, failures, handlers>>

\* The insert of a row another has inserted meanwhile throws: JobFails.
WriteAlias(j) ==
    /\ j.phase = "alias_read"
    /\ j.saw = None => accounts[j.account] = None
    /\ accounts' = [accounts EXCEPT ![j.account] = j.alias]
    /\ Replace(j, [j EXCEPT
         !.phase = IF AliasOf(j.saw) = NoAlias THEN "alias_logged" ELSE "alias_written"])
    /\ UNCHANGED <<listed, account_labels, accounts_tags, changelog,
                   sync, relists, failures, handlers>>

LogChange(j) ==
    /\ j.phase = "alias_written"
    /\ changelog' = changelog \cup
         {[account |-> j.account, previous |-> j.saw, new |-> j.alias, at |-> j.now]}
    /\ Replace(j, [j EXCEPT !.phase = "alias_logged"])
    /\ UNCHANGED <<listed, account_labels, accounts, accounts_tags,
                   sync, relists, failures, handlers>>

ReadTags(j) ==
    /\ j.phase = "alias_logged"
    /\ Replace(j, [j EXCEPT !.phase = "tags_read", !.saw = None,
                            !.had = accounts_tags[j.account]])
    /\ UNCHANGED <<listed, account_labels, accounts, accounts_tags, changelog,
                   sync, relists, failures, handlers>>

RemoveTags(j) ==
    /\ j.phase = "tags_read"
    /\ accounts_tags' = [accounts_tags EXCEPT ![j.account] = @ \ (j.had \ j.tags)]
    /\ Replace(j, [j EXCEPT !.phase = "tags_removed"])
    /\ UNCHANGED <<listed, account_labels, accounts, changelog,
                   sync, relists, failures, handlers>>

\* The caller's part: the route answers, the script takes its next account.
Return(j) ==
    /\ jobs' = jobs \ {j}
    /\ IF j.by = None
       THEN /\ sync' = [sync EXCEPT !.touched = @ \ {j.account}]
            /\ UNCHANGED handlers
       ELSE /\ handlers' = {h \in handlers : h.request # j.by}
            /\ UNCHANGED sync

AddTags(j) ==
    /\ j.phase = "tags_removed"
    /\ accounts_tags' = [accounts_tags EXCEPT ![j.account] = @ \cup (j.tags \ j.had)]
    /\ Return(j)
    /\ UNCHANGED <<listed, account_labels, accounts, changelog, relists, failures>>

\* The source being synced is given up, with the accounts it had left.
NextSource ==
    LET queue == Tail(sync.queue)
    IN  [NoSync EXCEPT !.phase = IF queue = <<>> THEN "off" ELSE "fetch",
                       !.queue = queue, !.now = sync.now]

Throw(j) ==
    /\ jobs' = jobs \ {j}
    /\ IF j.by = None
       THEN sync' = NextSource /\ UNCHANGED handlers
       ELSE /\ handlers' = {h \in handlers : h.request # j.by}
            /\ UNCHANGED sync
    /\ UNCHANGED <<listed, account_labels, accounts, accounts_tags, changelog, relists>>

\* Two jobs saw no row, and this one inserts second.
InsertConflict(j) ==
    /\ j.phase = "alias_read"
    /\ j.saw = None /\ accounts[j.account] # None
    /\ Throw(j)
    /\ UNCHANGED failures

JobFails(j) ==
    /\ failures < MAX_FAILURES
    /\ failures' = failures + 1
    /\ Throw(j)

JobStep(j) ==
    \/ ReadStoredClaims(j)
    \/ ReadSignedClaims(j)
    \/ ReadAlias(j)
    \/ WriteAlias(j)
    \/ LogChange(j)
    \/ ReadTags(j)
    \/ RemoveTags(j)
    \/ AddTags(j)
    \/ InsertConflict(j)

\* Mutant: the route answers without waiting for the labels.
ApplyMetaUnawaited(h) ==
    /\ At(h, "message", "stored")
    /\ Message(h).operation = "SET_ACCOUNT_META"
    /\ Finish(h)
    /\ jobs' = jobs \cup {Job(h.request, h.account, clock)}
    /\ UNCHANGED <<listed, account_labels, accounts, accounts_tags, changelog,
                   sync, relists, failures>>

\* The message route: process_set_account_meta, the message being stored.
ApplyMeta(h) ==
    /\ At(h, "message", "stored")
    /\ Message(h).operation = "SET_ACCOUNT_META"
    /\ GoOn(h, "materializing", None)
    /\ jobs' = jobs \cup {Job(h.request, h.account, clock)}
    /\ UNCHANGED <<listed, account_labels, accounts, accounts_tags, changelog,
                   sync, relists, failures>>

(***************************************************************************)
(* sync_account_label_sources                                              *)
(***************************************************************************)

\* now is taken once, when the script starts.
SyncStart ==
    /\ sync.phase = "off"
    /\ sync' = [NoSync EXCEPT !.phase = "fetch", !.queue = Sources, !.now = clock]
    /\ UNCHANGED <<listed, account_labels, accounts, accounts_tags, changelog,
                   jobs, relists, failures, handlers>>

\* A directory that answers with nothing valid counts as failed.
SyncFetch ==
    /\ sync.phase = "fetch"
    /\ LET list == listed[Head(sync.queue)] IN
         sync' = IF list = {} THEN NextSource
                 ELSE [sync EXCEPT !.phase = "upsert", !.list = list, !.todo = list]
    /\ UNCHANGED <<listed, account_labels, accounts, accounts_tags, changelog,
                   jobs, relists, failures, handlers>>

SameKey(c, entry) ==
    /\ c.account = entry.account /\ c.source = Head(sync.queue)
    /\ c.label_type = entry.label_type /\ c.value = entry.value

Batches ==
    LET size == IF Cardinality(sync.todo) < BATCH_SIZE
                THEN Cardinality(sync.todo) ELSE BATCH_SIZE
    IN  {B \in SUBSET sync.todo : Cardinality(B) = size}

SyncUpsert(batch) ==
    /\ sync.phase = "upsert"
    /\ batch # {}
    /\ account_labels' =
         {c \in account_labels : \A e \in batch : ~SameKey(c, e)}
         \cup
         {Claim(e.account, Head(sync.queue), e.label_type, e.value,
                sync.now, e.expires_at) : e \in batch}
    /\ sync' = [sync EXCEPT !.todo = @ \ batch]
    /\ UNCHANGED <<listed, accounts, accounts_tags, changelog,
                   jobs, relists, failures, handlers>>

\* Mutant: the sweep takes what is older of every source.
SweptOfAnySource == {c \in account_labels : c.observed_at < sync.now}

Swept ==
    {c \in account_labels : c.source = Head(sync.queue) /\ c.observed_at < sync.now}

\* Mutant: only the accounts of swept claims are resolved again.
SyncSweepTouchesSwept ==
    /\ sync.phase = "upsert"
    /\ sync.todo = {}
    /\ account_labels' = account_labels \ Swept
    /\ sync' = [sync EXCEPT !.phase = "materialize",
         !.touched = {c.account : c \in Swept}]
    /\ UNCHANGED <<listed, accounts, accounts_tags, changelog,
                   jobs, relists, failures, handlers>>

SyncSweep ==
    /\ sync.phase = "upsert"
    /\ sync.todo = {}
    /\ account_labels' = account_labels \ Swept
    /\ sync' = [sync EXCEPT !.phase = "materialize",
         !.touched = {c.account : c \in sync.list \cup Swept}]
    /\ UNCHANGED <<listed, accounts, accounts_tags, changelog,
                   jobs, relists, failures, handlers>>

SyncJob == {j \in jobs : j.by = None}

SyncMaterialize(account) ==
    /\ sync.phase = "materialize"
    /\ account \in sync.touched
    /\ SyncJob = {}
    /\ jobs' = jobs \cup {Job(None, account, sync.now)}
    /\ UNCHANGED <<listed, account_labels, accounts, accounts_tags, changelog,
                   sync, relists, failures, handlers>>

SyncSourceDone ==
    /\ sync.phase = "materialize"
    /\ sync.touched = {}
    /\ sync' = NextSource
    /\ UNCHANGED <<listed, account_labels, accounts, accounts_tags, changelog,
                   jobs, relists, failures, handlers>>

SyncStep ==
    \/ SyncFetch
    \/ \E batch \in Batches : SyncUpsert(batch)
    \/ SyncSweep
    \/ \E account \in sync.touched : SyncMaterialize(account)
    \/ SyncSourceDone

\* A fetch or a statement fails: the source keeps what it has.
SyncSourceFails ==
    /\ sync.phase \in {"fetch", "upsert"}
    /\ failures < MAX_FAILURES
    /\ failures' = failures + 1
    /\ sync' = NextSource
    /\ UNCHANGED <<listed, account_labels, accounts, accounts_tags, changelog,
                   jobs, relists, handlers>>

SyncDies ==
    /\ sync.phase # "off"
    /\ failures < MAX_FAILURES
    /\ failures' = failures + 1
    /\ sync' = NoSync
    /\ jobs' = jobs \ SyncJob
    /\ UNCHANGED <<listed, account_labels, accounts, accounts_tags, changelog,
                   relists, handlers>>

\* A directory changes what it lists: seen, and so taken, at the next fetch.
Relist(s, list) ==
    /\ sync.phase = "fetch" /\ s = Head(sync.queue)
    /\ relists < MAX_RELISTS
    /\ list # listed[s]
    /\ relists' = relists + 1
    /\ listed' = [listed EXCEPT ![s] = list]
    /\ UNCHANGED <<account_labels, accounts, accounts_tags, changelog,
                   sync, jobs, failures, handlers>>

(* Specification *)

SourceSet == {Sources[i] : i \in DOMAIN Sources}

LabelsInit ==
    /\ listed \in [SourceSet -> {{}} \cup UNION {Lists[s] : s \in SourceSet}]
    /\ \A s \in SourceSet : listed[s] \in {{}} \cup Lists[s]
    /\ account_labels = {}
    /\ accounts \in [Keys -> {None, NoAlias}]
    /\ accounts_tags = [a \in Keys |-> {}]
    /\ changelog = {}
    /\ sync = NoSync
    /\ jobs = {}
    /\ relists = 0 /\ failures = 0

LabelStep ==
    \/ \E j \in jobs : JobStep(j)
    \/ \E h \in handlers : ApplyMeta(h)
    \/ SyncStart
    \/ SyncStep

LabelTrouble ==
    \/ \E j \in jobs : JobFails(j)
    \/ SyncSourceFails
    \/ SyncDies
    \/ \E s \in SourceSet : \E list \in {{}} \cup Lists[s] : Relist(s, list)

LabelsNext ==
    /\ LabelStep \/ LabelTrouble
    /\ UNCHANGED <<clock, inbox, account_keys, users, noteVars>>

=============================================================================
