---------------------------- MODULE RelayPolicy -----------------------------
(***************************************************************************)
(* The community relay's write policy                                      *)
(* (libs-server/task-board-relay-policy.mjs, run by                        *)
(* server/strfry/task-board-write-policy.mjs).  The policy is one process  *)
(* that strfry asks about every incoming event; it keeps in memory the     *)
(* newest event of each slot its rules read, and seeds that memory from    *)
(* strfry's database whenever it starts.                                   *)
(*                                                                         *)
(* strfry is external: it queues what the policy accepts, commits it to    *)
(* its database in its own time, keeps only the newest event of a          *)
(* replaceable slot, applies deletion requests to what it stored, and      *)
(* loses what is queued when it crashes.                                   *)
(***************************************************************************)
EXTENDS TrustGraph

CONSTANTS
    Ips,                    \* client addresses
    PerPubkey, PerIp,       \* rate_limits.per_pubkey, rate_limits.per_ip
    UntrustedIssuesPerDay,  \* rate_limits.untrusted_issues_per_day
    PowDifficulty,          \* pow_difficulty
    MinuteWindow,           \* RATE_LIMIT_WINDOW_SECONDS
    DayWindow,              \* ISSUE_WINDOW_SECONDS
    MaxTime,                \* bound: the clock stops here
    MaxRestarts             \* bound: crashes of strfry with its plugin

ASSUME RelayAssumption ==
    /\ {PerPubkey, PerIp, UntrustedIssuesPerDay, PowDifficulty} \subseteq Nat
    /\ {MinuteWindow, DayWindow} \subseteq Nat \ {0}
    /\ {MaxTime, MaxRestarts} \subseteq Nat

VARIABLES
    (* the policy's memory *)
    phase,          \* "seeding" until the scan is replayed, then "serving"
    to_seed,        \* scanned events not yet replayed
    board_pubkeys, issue_ids, announcements, vouch_sets, block_sets,
    account_labels, pledge_labels,
    rate_windows,   \* [start, count] per key; count 0 is an absent window
    (* strfry *)
    stored,         \* the database
    queued,         \* accepted, not yet committed
    (* the world *)
    now, restarts,
    (* history, read by properties only *)
    recorded,       \* events replayed or accepted since the last restart
    committed,      \* events strfry ever committed, kept or not
    granted,        \* client writes accepted per rate key, this window
    refused         \* keys refused an issue by the daily limit, this day

memory == <<board_pubkeys, issue_ids, announcements, vouch_sets, block_sets,
            account_labels, pledge_labels>>
strfry == <<stored, queued>>
history == <<recorded, committed, granted, refused>>
vars == <<phase, to_seed, memory, rate_windows, strfry, now, restarts, history>>

RateKeys == ({"issues", "pubkey"} \X Pubkeys) \cup ({"ip"} \X Ips)
NoWindow == [start |-> 0, count |-> 0]
WindowOf(key) == IF key[1] = "issues" THEN DayWindow ELSE MinuteWindow
LimitOf(key) ==
    IF key[1] = "issues" THEN UntrustedIssuesPerDay
    ELSE IF key[1] = "pubkey" THEN PerPubkey ELSE PerIp

-----------------------------------------------------------------------------
(* What the policy derives from its memory *)

Present(f) == {f[k] : k \in DOMAIN f} \ {NoEvent}

\* get_stewards
Stewards ==
    UNION { {Owner[b]} \cup
            (IF announcements[b] = NoEvent THEN {} ELSE announcements[b].keys)
          : b \in Boards }

\* get_trust
Trust ==
    BuildTrustGraph(Stewards, vouch_sets, block_sets,
                    SelectEstablished(Present(account_labels), Stewards, now),
                    SelectEarnedVouches(Present(pledge_labels), Stewards))

-----------------------------------------------------------------------------
(* record_accepted_event: one slot per map, each holding the newest *)

\* A slot that takes whatever came last.
OverwriteSlot(map, slot, matches, e) ==
    IF matches THEN [map EXCEPT ![slot] = e] ELSE map

SlotUpdate(map, slot, matches, e) ==
    IF matches THEN [map EXCEPT ![slot] = KeepNewest(@, e)] ELSE map

Record(e) ==
    /\ board_pubkeys' = board_pubkeys \cup {e.pubkey}
    /\ issue_ids' = IF e.kind = "issue" /\ e.a # <<>> /\ Head(e.a) \in Boards
                    THEN issue_ids \cup {e.id} ELSE issue_ids
    /\ announcements' = SlotUpdate(announcements, e.d, e.kind = "announcement", e)
    /\ account_labels' = SlotUpdate(account_labels, <<e.pubkey, e.target>>,
                                    e.kind = "account_attestation", e)
    /\ pledge_labels' = SlotUpdate(pledge_labels, <<e.pubkey, e.target, e.issue>>,
                                   e.kind = "pledge_attestation", e)
    /\ block_sets' = SlotUpdate(block_sets, e.pubkey, e.kind = "block_set", e)
    /\ vouch_sets' = SlotUpdate(vouch_sets, e.pubkey,
                                e.kind = "vouch_set", e)
    /\ recorded' = recorded \cup {e}

\* create_relay_policy_state
EmptyMap(slots) == [s \in slots |-> NoEvent]
AccountSlots == Pubkeys \X Pubkeys
PledgeSlots == Pubkeys \X Pubkeys \X {e.issue : e \in Events}
NoWindows == [k \in RateKeys |-> NoWindow]
NoneGranted == [k \in RateKeys |-> 0]

-----------------------------------------------------------------------------
(* check_kind_rules *)

HasBoardAddress(e) == \E i \in DOMAIN e.a : e.a[i] \in Boards
ReferencesKnownIssue(e) == ({e.issue} \cup e.ids) \cap issue_ids # {}
IsBoardBound(e) == HasBoardAddress(e) \/ ReferencesKnownIssue(e)

\* An announcement check that forgets whose board it is.
AnyoneAnnounces(e) == e.d \in Boards

OwnerAnnounces(e) == e.d \in Boards /\ Owner[e.d] = e.pubkey

KindRules(e) ==
    \/ e.kind = "issue" /\ HasBoardAddress(e)
    \/ e.kind \in StatusKinds /\ IsBoardBound(e)
    \/ /\ e.kind = "account_attestation"
       /\ e.pubkey \in Stewards
       /\ e.keys = {e.target} /\ e.value \in AccountValues
    \/ /\ e.kind = "pledge_attestation"
       /\ e.pubkey \in Stewards
       /\ e.issue \in issue_ids
       /\ Cardinality(e.ids) = 1 /\ e.value \in PledgeValues
    \/ e.kind \in LabelKinds /\ ReferencesKnownIssue(e)
    \/ e.kind = "comment" /\ e.issue \in issue_ids
    \/ e.kind = "pledge" /\ HasBoardAddress(e) /\ e.issue \in issue_ids
    \/ e.kind = "claim" /\ IsBoardBound(e)
    \/ /\ e.kind = "key_properties"
       /\ e.d \in Boards /\ \E i \in DOMAIN e.a : e.a[i] = e.d
    \/ e.kind = "announcement" /\ OwnerAnnounces(e)
    \/ e.kind = "vouch_set" /\ IsVoucher(Trust, e.pubkey)
    \/ e.kind = "block_set" /\ e.pubkey \in Stewards
    \/ e.kind = "nano_identity"
    \/ e.kind \in {"profile", "deletion_request"} /\ e.pubkey \in board_pubkeys

\* Issues and comments of a key with no standing need proof of work.
WorkRules(e) ==
    \/ e.kind \notin {"issue", "comment"}
    \/ GetEventPow(e) >= PowDifficulty
    \/ HasStanding(Trust, e.pubkey)

-----------------------------------------------------------------------------
(* Rate limits: fixed windows aligned to the clock.  A count past its limit  *)
(* by one is as good as any higher count, and is where it is capped.         *)

\* A window that starts at its first request instead of on the clock.
ConsumeFromFirstRequest(windows, key) ==
    LET w == windows[key]
    IN  [windows EXCEPT ![key] =
            IF w.count = 0 \/ w.start + WindowOf(key) <= now
            THEN [start |-> now, count |-> 1]
            ELSE [start |-> w.start, count |-> Lesser(w.count + 1, LimitOf(key) + 1)]]

ConsumeRateLimit(windows, key) ==
    LET w == windows[key]
        start == now - (now % WindowOf(key))
    IN  [windows EXCEPT ![key] =
            IF w.count = 0 \/ w.start # start
            THEN [start |-> start, count |-> 1]
            ELSE [start |-> w.start, count |-> Lesser(w.count + 1, LimitOf(key) + 1)]]

Within(windows, key) == windows[key].count <= LimitOf(key)

IsQuotaIssue(e) ==
    e.kind = "issue" /\ e.pubkey \notin Stewards \cup Trust.trusted

IssueKey(e) == <<"issues", e.pubkey>>
PubkeyKey(e) == <<"pubkey", e.pubkey>>

\* The keys the request is metered under, after the daily issue quota.
MinuteKeys(e, ip) ==
    {<<"ip", ip>>} \cup (IF e.pubkey \in Stewards THEN {} ELSE {PubkeyKey(e)})

AfterIssueQuota(e) ==
    IF IsQuotaIssue(e) THEN ConsumeRateLimit(rate_windows, IssueKey(e)) ELSE rate_windows

\* Both minute limits are consumed, whichever of them refuses.
AfterMinuteLimits(e, ip) ==
    LET quota == AfterIssueQuota(e)
        byPubkey == IF e.pubkey \in Stewards THEN quota
                    ELSE ConsumeRateLimit(quota, PubkeyKey(e))
    IN  ConsumeRateLimit(byPubkey, <<"ip", ip>>)

QuotaExceeded(e) == IsQuotaIssue(e) /\ ~ Within(AfterIssueQuota(e), IssueKey(e))

SlowDown(e, ip) ==
    \E k \in MinuteKeys(e, ip) : ~ Within(AfterMinuteLimits(e, ip), k)

-----------------------------------------------------------------------------
(* strfry's database *)

\* Kinds of which strfry keeps one event per author and address.
Replaceable == {"announcement", "vouch_set", "block_set", "claim", "pledge",
                "key_properties", "nano_identity", "profile"}

SameSlot(e, f) ==
    e.kind = f.kind /\ e.pubkey = f.pubkey /\ e.d = f.d /\ e.issue = f.issue

Store(db, e) ==
    IF \E r \in db : /\ r.kind = "deletion_request" /\ r.pubkey = e.pubkey
                     /\ e.id \in r.ids
    THEN db
    ELSE IF e.kind = "deletion_request"
    THEN {e} \cup { f \in db : f.kind = "deletion_request" \/ f.pubkey # e.pubkey
                                 \/ f.id \notin e.ids }
    ELSE IF e.kind \notin Replaceable THEN db \cup {e}
    ELSE LET rivals == {f \in db : SameSlot(f, e)}
         IN  IF \E f \in rivals : IsNewer(f, e) THEN db ELSE (db \ rivals) \cup {e}

-----------------------------------------------------------------------------
(* Actions *)

Init ==
    /\ phase = "seeding" /\ to_seed = {}
    /\ board_pubkeys = {} /\ issue_ids = {}
    /\ announcements = EmptyMap(Boards)
    /\ vouch_sets = EmptyMap(Pubkeys) /\ block_sets = EmptyMap(Pubkeys)
    /\ account_labels = EmptyMap(AccountSlots)
    /\ pledge_labels = EmptyMap(PledgeSlots)
    /\ rate_windows = NoWindows
    /\ stored = {} /\ queued = {}
    /\ now = 0 /\ restarts = 0
    /\ recorded = {} /\ committed = {}
    /\ granted = NoneGranted /\ refused = {}

\* seed_relay_policy_state: replay one scanned event.
SeedEvent(e) ==
    /\ phase = "seeding" /\ e \in to_seed
    /\ Record(e)
    /\ to_seed' = to_seed \ {e}
    /\ UNCHANGED <<phase, rate_windows, strfry, now, restarts, committed, granted, refused>>

\* Serving before the scan is replayed.
FinishSeedingEarly ==
    /\ phase = "seeding"
    /\ phase' = "serving"
    /\ UNCHANGED <<to_seed, memory, rate_windows, strfry, now, restarts, history>>

FinishSeeding ==
    /\ phase = "seeding" /\ to_seed = {}
    /\ phase' = "serving"
    /\ UNCHANGED <<to_seed, memory, rate_windows, strfry, now, restarts, history>>

Accept(e) ==
    /\ Record(e)
    /\ queued' = queued \cup {e}
    /\ UNCHANGED <<phase, to_seed, stored, now, restarts, committed, refused>>

\* Import, Stream and Sync skip the limits.
AcceptFromOperator(e) ==
    /\ phase = "serving" /\ KindRules(e) /\ WorkRules(e)
    /\ Accept(e)
    /\ UNCHANGED <<rate_windows, granted>>

AcceptFromClient(e, ip) ==
    /\ phase = "serving" /\ KindRules(e) /\ WorkRules(e)
    /\ ~ QuotaExceeded(e) /\ ~ SlowDown(e, ip)
    /\ rate_windows' = AfterMinuteLimits(e, ip)
    /\ Accept(e)
    /\ LET keys == MinuteKeys(e, ip) \cup (IF IsQuotaIssue(e) THEN {IssueKey(e)} ELSE {})
       IN  granted' = [k \in RateKeys |-> IF k \in keys THEN granted[k] + 1 ELSE granted[k]]

\* A refused request has still been counted.
RefuseByQuota(e) ==
    /\ phase = "serving" /\ KindRules(e) /\ WorkRules(e)
    /\ QuotaExceeded(e)
    /\ rate_windows' = AfterIssueQuota(e)
    /\ refused' = refused \cup {e.pubkey}
    /\ UNCHANGED <<phase, to_seed, memory, strfry, now, restarts, recorded, committed, granted>>

RefuseSlowDown(e, ip) ==
    /\ phase = "serving" /\ KindRules(e) /\ WorkRules(e)
    /\ ~ QuotaExceeded(e) /\ SlowDown(e, ip)
    /\ rate_windows' = AfterMinuteLimits(e, ip)
    /\ UNCHANGED <<phase, to_seed, memory, strfry, now, restarts, history>>

\* Pruning that takes every window for a minute window.
PruneAllByTheMinute ==
    /\ phase = "serving"
    /\ rate_windows' = [k \in RateKeys |->
            IF rate_windows[k].start + MinuteWindow <= now
            THEN NoWindow ELSE rate_windows[k]]
    /\ UNCHANGED <<phase, to_seed, memory, strfry, now, restarts, history>>

\* Every 1000th request, in the code; here after any.
PruneRateWindows ==
    /\ phase = "serving"
    /\ rate_windows' = [k \in RateKeys |->
            IF rate_windows[k].start + WindowOf(k) <= now
            THEN NoWindow ELSE rate_windows[k]]
    /\ UNCHANGED <<phase, to_seed, memory, strfry, now, restarts, history>>

Commit(e) ==
    /\ e \in queued
    /\ stored' = Store(stored, e)
    /\ queued' = queued \ {e}
    /\ committed' = committed \cup {e}
    /\ UNCHANGED <<phase, to_seed, memory, rate_windows, now, restarts,
                   recorded, granted, refused>>

\* strfry dies with its plugin: the queue is lost, and the policy starts over
\* from a scan of the database.
Restart ==
    /\ restarts < MaxRestarts
    /\ restarts' = restarts + 1
    /\ phase' = "seeding" /\ to_seed' = stored
    /\ board_pubkeys' = {} /\ issue_ids' = {}
    /\ announcements' = EmptyMap(Boards)
    /\ vouch_sets' = EmptyMap(Pubkeys) /\ block_sets' = EmptyMap(Pubkeys)
    /\ account_labels' = EmptyMap(AccountSlots)
    /\ pledge_labels' = EmptyMap(PledgeSlots)
    /\ rate_windows' = NoWindows
    /\ recorded' = {} /\ granted' = NoneGranted /\ refused' = {}
    /\ queued' = {}
    /\ UNCHANGED <<stored, now, committed>>

Tick ==
    /\ now < MaxTime
    /\ now' = now + 1
    /\ granted' = [k \in RateKeys |-> IF now' % WindowOf(k) = 0 THEN 0 ELSE granted[k]]
    /\ refused' = IF now' % DayWindow = 0 THEN {} ELSE refused
    /\ UNCHANGED <<phase, to_seed, memory, rate_windows, strfry, restarts, recorded, committed>>

Next ==
    \/ \E e \in Events :
        \/ SeedEvent(e)
        \/ AcceptFromOperator(e)
        \/ RefuseByQuota(e)
        \/ Commit(e)
        \/ \E ip \in Ips : AcceptFromClient(e, ip) \/ RefuseSlowDown(e, ip)
    \/ FinishSeeding
    \/ PruneRateWindows
    \/ Restart
    \/ Tick

Spec == Init /\ [][Next]_vars

-----------------------------------------------------------------------------
(* Properties *)

MemoryTypeOK ==
    /\ board_pubkeys \subseteq Pubkeys
    /\ issue_ids \subseteq {e.id : e \in Events}
    /\ announcements \in [Boards -> Events \cup {NoEvent}]
    /\ vouch_sets \in [Pubkeys -> Events \cup {NoEvent}]
    /\ block_sets \in [Pubkeys -> Events \cup {NoEvent}]
    /\ account_labels \in [AccountSlots -> Events \cup {NoEvent}]
    /\ pledge_labels \in [PledgeSlots -> Events \cup {NoEvent}]

WindowsTypeOK(windows) ==
    /\ windows \in [RateKeys -> [start : Nat, count : Nat]]
    /\ \A k \in RateKeys : /\ windows[k].count <= LimitOf(k) + 1
                            /\ windows[k].start <= now
                            /\ windows[k].start % WindowOf(k) = 0

\* The policy's memory is well formed; in particular every window in use is
\* aligned to the clock and has begun.
TypeOK ==
    /\ phase \in {"seeding", "serving"}
    /\ to_seed \subseteq Events /\ stored \subseteq Events /\ queued \subseteq Events
    /\ recorded \subseteq Events /\ committed \subseteq Events
    /\ MemoryTypeOK
    /\ WindowsTypeOK(rate_windows)
    /\ now \in Nat /\ restarts \in Nat
    /\ granted \in [RateKeys -> Nat]
    /\ refused \subseteq Pubkeys

NoDeletion(S) == \A e \in S : e.kind # "deletion_request"

\* No event of S is taken back by a deletion request of S.  A request for an
\* announcement, or for someone else's event, takes nothing back.
NothingRetracted(S) == \A e \in S : e.kind = "deletion_request" \/ e \in LiveEvents(S)

\* The trust the policy judges writes by, kept one newest event per slot, is
\* the trust a board client derives from the whole set of events the policy
\* has recorded, in whatever order it got them ("so both derive the same
\* trusted set from the same vouch events").  A policy that serves several
\* boards takes the stewards of all of them together.  It does not hold once
\* an author takes back an event: see TrustMatchesBoardAlways.
TrustMatchesBoard ==
    NothingRetracted(recorded) => Trust = TrustOf(recorded, Boards, now)

\* The same claim with nothing excepted, as the comments make it.  The policy
\* never applies a deletion request to its memory, and the board does.
TrustMatchesBoardAlways == Trust = TrustOf(recorded, Boards, now)

\* A policy that serves knows everything the relay ever committed or has
\* queued: a restart, and strfry dropping what newer events replaced, take
\* away no trust, no known issue and no known key.
RestartForgetsNothing ==
    LET held == committed \cup queued
    IN  phase = "serving" /\ NoDeletion(held) =>
            /\ Trust = TrustOf(held, Boards, now)
            /\ issue_ids = { e.id : e \in { f \in held : /\ f.kind = "issue"
                                                        /\ Head(f.a) \in Boards } }
            /\ board_pubkeys = {e.pubkey : e \in held}

\* No key writes itself into standing: while the policy serves, a step that
\* gives a key standing records an event some other key signed.
StandingIsNeverSelfGranted ==
    [][ phase = "serving" =>
          \A e \in recorded' \ recorded :
             HasStanding(Trust, e.pubkey) \/ ~ HasStanding(Trust, e.pubkey)' ]_vars

\* Within one window and one run of the policy, no more client writes are
\* accepted under a rate key than its limit, whatever is refused, pruned or
\* replayed in between.
WindowLimitsHold == \A k \in RateKeys : granted[k] <= LimitOf(k)

\* The protocol's wording of the daily limit: a key that is refused an issue
\* has filed its ten.  The policy counts the issue before the minute limits
\* are checked, so a write told to slow down, and each of its retries, spends
\* one of the ten.
QuotaCountsFiledIssues ==
    \A p \in refused : granted[<<"issues", p>>] >= UntrustedIssuesPerDay
=============================================================================
