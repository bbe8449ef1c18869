---------------------------- MODULE SignerIdentity --------------------------
(***************************************************************************)
(* The key a visitor posts with (src/core/nostr-identity).  Each tab keeps *)
(* its own identity; the local key and whether it was saved elsewhere are  *)
(* in localStorage, which the tabs share.  At start-up a tab asks a signer *)
(* extension, if there is one by then, and falls back on the stored key.   *)
(*                                                                         *)
(* The extension is external: it is injected at any time, and answers,     *)
(* declines or stays silent.  Stored keys are usable.                      *)
(***************************************************************************)
EXTENDS Integers

CONSTANTS
    Tabs,
    Keys,           \* bound: the local keys made or imported, each once
    ExtensionKey,
    NoKey,
    MaxReloads      \* bound: loads of pages

ASSUME IdentityAssumption ==
    /\ ExtensionKey \notin Keys /\ NoKey \notin Keys \cup {ExtensionKey}
    /\ MaxReloads \in Nat

VARIABLES
    identity,       \* of each tab: method, pubkey, needs_backup
    step,           \* of each tab's start-up
    storage,        \* nostr_local_secret_key, nostr_local_key_backed_up
    injected,       \* the tabs with window.nostr
    made,           \* the local keys so far
    reloads

identityVars == <<identity, step, storage, injected, made, reloads>>

NoIdentity == [method |-> "none", pubkey |-> NoKey, needs_backup |-> FALSE]

Set(tab, method, pubkey, needs_backup) ==
    identity' = [identity EXCEPT ![tab] =
        [method |-> method, pubkey |-> pubkey, needs_backup |-> needs_backup]]

At(tab, from, to) == step[tab] = from /\ step' = [step EXCEPT ![tab] = to]

-----------------------------------------------------------------------------
(* Start-up: the extension is looked for at once and after 800 ms. *)

Inject(tab) ==
    /\ tab \notin injected
    /\ injected' = injected \cup {tab}
    /\ UNCHANGED <<identity, step, storage, made, reloads>>

FindExtension(tab) ==
    /\ tab \in injected
    /\ At(tab, "first", "asking") \/ At(tab, "second", "asking")
    /\ UNCHANGED <<identity, storage, injected, made, reloads>>

LookAgain(tab) ==
    /\ tab \notin injected
    /\ At(tab, "first", "second") \/ At(tab, "second", "local")
    /\ UNCHANGED <<identity, storage, injected, made, reloads>>

ExtensionAnswers(tab) ==
    /\ At(tab, "asking", "done")
    /\ Set(tab, "nip07", ExtensionKey, FALSE)
    /\ UNCHANGED <<storage, injected, made, reloads>>

\* It declined, or NIP07_TIMEOUT_MS passed.
ExtensionFails(tab) ==
    /\ At(tab, "asking", "local")
    /\ UNCHANGED <<identity, storage, injected, made, reloads>>

\* Mutant: a stored key is taken as saved.
ReadLocalSaved(tab) ==
    /\ At(tab, "local", "done")
    /\ IF storage.key = NoKey THEN UNCHANGED identity ELSE Set(tab, "local", storage.key, FALSE)
    /\ UNCHANGED <<storage, injected, made, reloads>>

ReadLocal(tab) ==
    /\ At(tab, "local", "done")
    /\ IF storage.key = NoKey THEN UNCHANGED identity
       ELSE Set(tab, "local", storage.key, ~ storage.backed_up)
    /\ UNCHANGED <<storage, injected, made, reloads>>

-----------------------------------------------------------------------------
(* What the account page offers (task-account.js), start-up over or not. *)

SaveLocal(tab, key, backed_up) ==
    /\ key \notin made
    /\ made' = made \cup {key}
    /\ storage' = [key |-> key, backed_up |-> backed_up]
    /\ Set(tab, "local", key, ~ backed_up)
    /\ UNCHANGED <<step, injected, reloads>>

CreateKey(tab, key) == identity[tab].pubkey = NoKey /\ SaveLocal(tab, key, FALSE)

ImportKey(tab, key) ==
    /\ \/ identity[tab].pubkey = NoKey
       \/ identity[tab].method = "local" /\ ~ identity[tab].needs_backup
    /\ SaveLocal(tab, key, TRUE)

\* The visitor copied the key, read from storage when the page was shown.
MarkBackedUp(tab) ==
    /\ identity[tab].method = "local" /\ identity[tab].needs_backup
    /\ identity' = [identity EXCEPT ![tab].needs_backup = FALSE]
    /\ storage' = [storage EXCEPT !.backed_up = TRUE]
    /\ UNCHANGED <<step, injected, made, reloads>>

Reload(tab) ==
    /\ reloads < MaxReloads
    /\ reloads' = reloads + 1
    /\ identity' = [identity EXCEPT ![tab] = NoIdentity]
    /\ step' = [step EXCEPT ![tab] = "first"]
    /\ injected' = injected \ {tab}
    /\ UNCHANGED <<storage, made>>

-----------------------------------------------------------------------------
(* Specification *)

IdentityInit ==
    /\ identity = [tab \in Tabs |-> NoIdentity]
    /\ step = [tab \in Tabs |-> "first"]
    /\ storage = [key |-> NoKey, backed_up |-> FALSE]
    /\ injected = {} /\ made = {} /\ reloads = 0

StartUp(tab) ==
    FindExtension(tab) \/ LookAgain(tab) \/ ExtensionAnswers(tab) \/ ExtensionFails(tab)
    \/ ReadLocal(tab)

IdentityNext ==
    \E tab \in Tabs :
        \/ Inject(tab) \/ StartUp(tab) \/ MarkBackedUp(tab) \/ Reload(tab)
        \/ \E key \in Keys : CreateKey(tab, key) \/ ImportKey(tab, key)

-----------------------------------------------------------------------------
(* Parts of properties, composed where the pages are. *)

\* A tab that posts with the stored key, not saved elsewhere, does not lose it,
\* whatever other tabs and reloads did before.  Saved is what storage says: a tab
\* that still shows an older key marks whichever key is stored as backed up.
KeepsItsUnsavedKey(tab) ==
    ( /\ identity[tab].pubkey = storage.key /\ storage.key # NoKey
      /\ ~ storage.backed_up
      /\ identity'[tab] # identity[tab] )
        => storage'.key = storage.key

\* Every start-up comes to an end, whatever the extension does.
StartUpEnds(tab) == []<>(step[tab] = "done")
=============================================================================
