------------------------- MODULE CommunityMessages -------------------------
(***************************************************************************)
(* The API's signed requests together: keys and usernames, block notes and *)
(* account labels, over one message log and one set of keys.               *)
(***************************************************************************)
EXTENDS AccountLabels

vars == <<keyVars, noteVars, labelVars>>

Init == KeysInit /\ NotesInit /\ LabelsInit

Next ==
    \/ KeysNext /\ UNCHANGED <<noteVars, labelVars>>
    \/ NotesNext /\ UNCHANGED labelVars
    \/ LabelsNext

(***************************************************************************)
(* Fairness.  The cron runs the sync script every day and its statements   *)
(* and those of a call in progress return; a directory that is asked again *)
(* and again answers now and then, but a failure at any step is possible   *)
(* MAX_FAILURES times.  Requests need never come, and clocks need not run. *)
(***************************************************************************)
LabelFairness ==
    /\ WF_vars(SyncStart /\ UNCHANGED <<clock, inbox, account_keys, users, noteVars>>)
    /\ WF_vars(SyncStep /\ UNCHANGED <<clock, inbox, account_keys, users, noteVars>>)
    /\ WF_vars((\E j \in jobs : JobStep(j))
               /\ UNCHANGED <<clock, inbox, account_keys, users, noteVars>>)

Spec == Init /\ [][Next]_vars /\ PageFairness /\ LabelFairness

TypeOK ==
    /\ KeysTypeOK
    /\ NotesTypeOK
    /\ \A c \in account_labels :
         /\ c.account \in Keys /\ c.source \in SourceSet
         /\ c.observed_at \in 0 .. clock
    /\ sync.todo \subseteq sync.list /\ sync.touched \subseteq Keys
    /\ Cardinality(SyncJob) <= 1
    /\ \A j \in jobs \ SyncJob :
         \E h \in handlers : h.request = j.by /\ h.phase = "materializing"
    /\ failures \in 0 .. MAX_FAILURES /\ relists \in 0 .. MAX_RELISTS

(***************************************************************************)
(* Properties of the labels                                                *)
(***************************************************************************)

(* A directory's claim is removed only by a sync of that directory, which  *)
(* fetched a list that has entries, and not this one: an empty answer, a   *)
(* failure between the batches, another source or an earlier run sweep     *)
(* nothing they should not.  sync-account-label-sources.mjs:16, :30, :57.  *)
SweepsOnlyUnlisted ==
    [][\A c \in account_labels :
         \/ \E d \in account_labels' :
              /\ d.account = c.account /\ d.source = c.source
              /\ d.label_type = c.label_type /\ d.value = c.value
         \/ /\ sync.queue # <<>> /\ c.source = Head(sync.queue)
            /\ sync.list # {}
            /\ \A e \in sync.list : ~SameKey(c, e)]_account_labels

Listed(account) ==
    \E s \in SourceSet : \E e \in listed[s] : e.account = account

Settled(account) ==
    LET claims == StoredClaims(account) \cup SignedClaims(account)
    IN  /\ AliasOf(accounts[account]) \in AliasesOf(claims, clock)
        /\ accounts_tags[account] = TagsOf(claims, clock)

(* An account that a directory keeps listing ends up with the alias and    *)
(* the tags its claims resolve to, although the script and the message     *)
(* route may have written it at once from different claims, claims expire, *)
(* and calls fail: the next sync resolves it again.                        *)
ListedAccountsSettle ==
    \A account \in Keys : <>[]Listed(account) => <>[]Settled(account)

=============================================================================
