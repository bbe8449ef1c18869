---------------------------- MODULE AccountKeys ----------------------------
(***************************************************************************)
(* Keys, accounts and usernames of the API: routes/auth/register.mjs,      *)
(* routes/auth/revoke.mjs and the attribution of a signature to an account.*)
(* Every key has an account of its own, named here by the key.  A route is *)
(* a handler that runs between its awaits; the database serves one         *)
(* statement at a time.                                                    *)
(***************************************************************************)
EXTENDS Integers, FiniteSets

CONSTANTS
    Keys,       \* public keys, and the accounts that are theirs
    Inboxes,    \* each member is a set of requests clients send
    WINDOW,     \* COMMUNITY_WINDOW_SECONDS
    MAX_CLOCK,  \* bound: where the clock stops
    None        \* no row, or nothing read yet

ASSUME KeysAssumption ==
    /\ WINDOW \in Nat
    /\ MAX_CLOCK \in Nat
    /\ None \notin Int /\ None \notin UNION Inboxes
    /\ None \notin [account : Keys, created_at : Int, revoked_at : {None} \cup Int]
    /\ \A r \in UNION Inboxes :
         /\ r.issued_at \in Int
         /\ r.kind # "message" => r.key \in Keys
         /\ r.kind = "link" => r.account \in Keys

VARIABLES
    clock,
    inbox,         \* requests sent and not yet taken up
    handlers,      \* requests being handled
    account_keys,  \* table account_keys, by public_key
    users          \* table users, by public_key

keyVars == <<clock, inbox, handlers, account_keys, users>>

Requests == UNION Inboxes

(* Handlers *)

\* verify_community_request: issued_at within the window of server time.
Verified(r) ==
    /\ clock - r.issued_at <= WINDOW
    /\ r.issued_at - clock <= WINDOW

Receive(r) ==
    /\ r \in inbox
    /\ Verified(r)
    /\ inbox' = inbox \ {r}
    /\ handlers' = handlers \cup
         {[request |-> r, phase |-> "verified", account |-> None, saw |-> None]}
    /\ UNCHANGED <<clock, account_keys, users>>

GoOn(h, phase, saw) ==
    handlers' = (handlers \ {h}) \cup {[h EXCEPT !.phase = phase, !.saw = saw]}

Finish(h) == handlers' = handlers \ {h}

At(h, kind, phase) == h.request.kind = kind /\ h.phase = phase

(* Links *)

Link(account, created_at) ==
    [account |-> account, created_at |-> created_at, revoked_at |-> None]

\* The unique index on public_key decides, whatever the select before it saw.
\* created_at is rounded, so it may be a second ahead of the clock.
LinkKey(h) ==
    /\ At(h, "link", "verified")
    /\ LET key == h.request.key
           account == h.request.account
       IN  IF account_keys[key] = None /\ account # key
           THEN \E created_at \in {clock, clock + 1} :
                  account_keys' =
                    [account_keys EXCEPT ![key] = Link(account, created_at)]
           ELSE UNCHANGED account_keys
    /\ Finish(h)
    /\ UNCHANGED <<clock, inbox, users>>

InForce(k) == account_keys[k] # None /\ account_keys[k].revoked_at = None

\* The select and the checks of the route; a request they refuse ends here.
RevokeRead(h) ==
    /\ At(h, "revoke", "verified")
    /\ LET key == h.request.key IN
         IF InForce(key) /\ h.request.signer \in {key, account_keys[key].account}
         THEN GoOn(h, "checked", account_keys[key])
         ELSE Finish(h)
    /\ UNCHANGED <<clock, inbox, account_keys, users>>

RevokeWrite(h) ==
    /\ At(h, "revoke", "checked")
    /\ account_keys' = [account_keys EXCEPT ![h.request.key].revoked_at = clock]
    /\ Finish(h)
    /\ UNCHANGED <<clock, inbox, users>>

(* Usernames *)

RegisterCheckName(h) ==
    /\ At(h, "register", "verified")
    /\ IF \E k \in Keys \ {h.request.key} :
             users[k] # None /\ users[k].username = h.request.username
       THEN Finish(h)
       ELSE GoOn(h, "name_free", None)
    /\ UNCHANGED <<clock, inbox, account_keys, users>>

\* Mutant: a registration is upserted whatever is stored.
NoNewerRegistration(h) == FALSE

NewerRegistrationExists(h) ==
    LET existing == users[h.request.key]
    IN  existing # None /\ existing.issued_at >= h.request.issued_at

RegisterCheckNewer(h) ==
    /\ At(h, "register", "name_free")
    /\ IF NewerRegistrationExists(h)
       THEN Finish(h)
       ELSE GoOn(h, "newest", users[h.request.key])
    /\ UNCHANGED <<clock, inbox, account_keys, users>>

RegisterWrite(h) ==
    /\ At(h, "register", "newest")
    /\ users' = [users EXCEPT ![h.request.key] =
         [username |-> h.request.username, issued_at |-> h.request.issued_at]]
    /\ Finish(h)
    /\ UNCHANGED <<clock, inbox, account_keys>>

(* Attribution *)

\* Mutant: a link acts whether or not it was revoked.
ActsForLinked(key) ==
    IF account_keys[key] # None THEN account_keys[key].account ELSE key

\* The message route, at the moment it reads account_keys.
ActsFor(key) == IF InForce(key) THEN account_keys[key].account ELSE key

\* resolve_signer_account: the link in force when the key signed.
LinkedWhenSigned(key, issued_at) ==
    LET link == account_keys[key]
    IN  /\ link # None
        /\ link.created_at <= issued_at + WINDOW
        /\ link.revoked_at = None \/ link.revoked_at > issued_at

SignedFor(key, issued_at) ==
    IF LinkedWhenSigned(key, issued_at) THEN account_keys[key].account ELSE key

(* Specification *)

Tick ==
    /\ clock < MAX_CLOCK
    /\ clock' = clock + 1
    /\ UNCHANGED <<inbox, handlers, account_keys, users>>

KeysInit ==
    /\ clock = 0
    /\ inbox \in Inboxes
    /\ handlers = {}
    /\ account_keys = [k \in Keys |-> None]
    /\ users = [k \in Keys |-> None]

KeysStep(h) ==
    \/ LinkKey(h)
    \/ RevokeRead(h)
    \/ RevokeWrite(h)
    \/ RegisterCheckName(h)
    \/ RegisterCheckNewer(h)
    \/ RegisterWrite(h)

KeysNext ==
    \/ Tick
    \/ \E r \in inbox : Receive(r)
    \/ \E h \in handlers : KeysStep(h)

KeysTypeOK ==
    /\ clock \in 0 .. MAX_CLOCK
    /\ inbox \subseteq Requests
    /\ \A h \in handlers : h.request \in Requests \ inbox
    /\ \A k \in Keys : account_keys[k] # None =>
         /\ account_keys[k].account \in Keys \ {k}
         /\ account_keys[k].created_at \in 0 .. clock + 1
         /\ account_keys[k].revoked_at \in {None} \cup 0 .. clock
    /\ \A k \in Keys : users[k] # None => users[k].issued_at \in Int

(***************************************************************************)
(* Properties                                                              *)
(***************************************************************************)

(* A registration is replaced by one not newer only if it was written      *)
(* after the other's handler had looked: "a registration older than the    *)
(* stored one is refused so a captured registration cannot restore a       *)
(* previous username", register.mjs, as far as its separate select and     *)
(* upsert allow.                                                           *)
OlderRegistrationOnlyOvertakes ==
    [][\A k \in Keys :
         /\ users[k] # None
         /\ users'[k] # users[k]
         /\ users'[k].issued_at <= users[k].issued_at
         => \E h \in handlers \ handlers' :
              h.request.key = k /\ h.saw # users[k]]_users

=============================================================================
