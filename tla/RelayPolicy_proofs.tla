------------------------- MODULE RelayPolicy_proofs -------------------------
(***************************************************************************)
(* Theorems about the relay's write policy, for every set of keys, boards  *)
(* and events, every limit and every number of restarts.                   *)
(*                                                                         *)
(* The first part is about rates.  The second: the trust the relay judges  *)
(* writes by is that of everything it has recorded.  Its invariant has two *)
(* halves.  Admission: what the policy holds passed its own rules, so that *)
(* a slot is not taken by an event the board would not read (an            *)
(* announcement by a key that is not the owner, a verdict that is neither  *)
(* established nor not).  Slots: each slot of the memory holds the newest  *)
(* of the recorded events that belong in it.                               *)
(*                                                                         *)
(* The third part follows strfry, which keeps the newest of a slot only:   *)
(* what a restarted policy and a late reader lack has a newer event there. *)
(* The last is about who may give a key its standing.                      *)
(***************************************************************************)
EXTENDS RelayPolicy, TaskBoardEvents_proofs

-----------------------------------------------------------------------------
(* Arithmetic of windows aligned to the clock *)

\* The window n falls in has begun, and starts at a multiple of its length.
LEMMA WindowStart ==
    ASSUME NEW n \in Nat, NEW w \in Nat, w > 0
    PROVE  /\ n % w \in 0..(w - 1)
           /\ n - (n % w) \in Nat
           /\ n - (n % w) <= n
           /\ (n - (n % w)) % w = 0
<1>1. n % w \in 0..(w - 1) /\ n - (n % w) \in Nat
    BY SMT
<1>2. (n - (n % w)) % w = 0
    BY SMT
<1>3. n - (n % w) <= n
    BY <1>1, SMT
<1> QED
    BY <1>1, <1>2, <1>3

\* It is the only such start the clock is within a window of.
LEMMA WindowStartUnique ==
    ASSUME NEW n \in Nat, NEW w \in Nat, w > 0, NEW s \in Nat,
           s % w = 0, s <= n, n < s + w
    PROVE  s = n - (n % w)
    BY SMT

\* Until the clock reaches a multiple of the length, the window stays.
LEMMA WindowStays ==
    ASSUME NEW n \in Nat, NEW w \in Nat, w > 0, (n + 1) % w # 0
    PROVE  (n + 1) - ((n + 1) % w) = n - (n % w)
<1> DEFINE s == (n + 1) - ((n + 1) % w)
<1>1. /\ (n + 1) % w \in 0..(w - 1) /\ s \in Nat /\ s % w = 0
    BY WindowStart, n + 1 \in Nat
<1>2. s <= n /\ n < s + w
    BY <1>1
<1> HIDE DEF s
<1>3. s = n - (n % w)
    BY <1>1, <1>2, WindowStartUnique
<1> QED
    BY <1>3 DEF s

-----------------------------------------------------------------------------
(* Type correctness *)

\* A limit and a window length for every rate key.
LEMMA RateKeyTypes ==
    ASSUME NEW k \in RateKeys
    PROVE  LimitOf(k) \in Nat /\ WindowOf(k) \in Nat /\ WindowOf(k) > 0
    BY RelayAssumption DEF LimitOf, WindowOf

\* The rate keys of an event belong to its author.
LEMMA EventKeys ==
    ASSUME NEW e \in Events
    PROVE  /\ IssueKey(e) \in RateKeys /\ PubkeyKey(e) \in RateKeys
           /\ \A ip \in Ips : <<"ip", ip>> \in RateKeys
    BY EventsAssumption DEF IssueKey, PubkeyKey, RateKeys

\* consume_rate_limit leaves the windows well formed, whatever it answers.
LEMMA ConsumeType ==
    ASSUME NEW windows, WindowsTypeOK(windows), now \in Nat, NEW key \in RateKeys
    PROVE  WindowsTypeOK(ConsumeRateLimit(windows, key))
<1> DEFINE after == ConsumeRateLimit(windows, key)
           limit == LimitOf(key)
           start == now - (now % WindowOf(key))
<1>1. limit \in Nat /\ WindowOf(key) \in Nat /\ WindowOf(key) > 0
    BY RateKeyTypes
<1>2. start \in Nat /\ start <= now /\ start % WindowOf(key) = 0
    BY <1>1, WindowStart
<1>3. /\ windows \in [RateKeys -> [start : Nat, count : Nat]]
      /\ windows[key].start \in Nat /\ windows[key].count \in Nat
      /\ windows[key].count <= limit + 1
      /\ windows[key].start <= now
      /\ windows[key].start % WindowOf(key) = 0
    BY DEF WindowsTypeOK
<1> DEFINE counted == Lesser(windows[key].count + 1, limit + 1)
<1>4. counted \in Nat /\ counted <= limit + 1
    BY <1>1, <1>3 DEF Lesser
<1>5. CASE windows[key].count = 0 \/ windows[key].start # start
    <2>1. after = [windows EXCEPT ![key] = [start |-> start, count |-> 1]]
        BY <1>5 DEF ConsumeRateLimit
    <2> HIDE DEF start, limit
    <2>2. after \in [RateKeys -> [start : Nat, count : Nat]]
        BY <1>2, <1>3, <2>1
    <2>3. ASSUME NEW k \in RateKeys
          PROVE  /\ after[k].count <= LimitOf(k) + 1
                 /\ after[k].start <= now
                 /\ after[k].start % WindowOf(k) = 0
        <3>1. CASE k = key
            <4>1. after[k].start = start /\ after[k].count = 1
                BY <1>3, <2>1, <3>1
            <4> QED
                BY <1>1, <1>2, <3>1, <4>1 DEF limit
        <3>2. CASE k # key
            BY <1>3, <2>1, <3>2 DEF WindowsTypeOK
        <3> QED
            BY <3>1, <3>2
    <2> QED
        BY <2>2, <2>3 DEF WindowsTypeOK
<1>6. CASE ~ (windows[key].count = 0 \/ windows[key].start # start)
    <2>1. after = [windows EXCEPT ![key] = [start |-> windows[key].start,
                                                count |-> counted]]
        BY <1>6 DEF ConsumeRateLimit
    <2> HIDE DEF start, limit, counted
    <2>2. after \in [RateKeys -> [start : Nat, count : Nat]]
        BY <1>3, <1>4, <2>1
    <2>3. ASSUME NEW k \in RateKeys
          PROVE  /\ after[k].count <= LimitOf(k) + 1
                 /\ after[k].start <= now
                 /\ after[k].start % WindowOf(k) = 0
        <3>1. CASE k = key
            <4>1. after[k].start = windows[key].start /\ after[k].count = counted
                BY <1>3, <2>1, <3>1
            <4> QED
                BY <1>3, <1>4, <3>1, <4>1 DEF limit
        <3>2. CASE k # key
            BY <1>3, <2>1, <3>2 DEF WindowsTypeOK
        <3> QED
            BY <3>1, <3>2
    <2> QED
        BY <2>2, <2>3 DEF WindowsTypeOK
<1> QED
    BY <1>5, <1>6

\* keep_newest puts an event in a slot and nothing else.
LEMMA SlotUpdateType ==
    ASSUME NEW slots, NEW map \in [slots -> Events \cup {NoEvent}], NEW slot,
           NEW matches \in BOOLEAN, NEW e \in Events
    PROVE  SlotUpdate(map, slot, matches, e) \in [slots -> Events \cup {NoEvent}]
    BY DEF SlotUpdate, KeepNewest

\* record_accepted_event keeps the memory well formed.
LEMMA RecordType ==
    ASSUME MemoryTypeOK, recorded \subseteq Events, NEW e \in Events, Record(e)
    PROVE  MemoryTypeOK' /\ recorded' \subseteq Events
<1>1. e.pubkey \in Pubkeys
    BY EventsAssumption
<1>2. board_pubkeys' \subseteq Pubkeys /\ recorded' \subseteq Events
    BY <1>1 DEF Record, MemoryTypeOK
<1>3. issue_ids' \subseteq {f.id : f \in Events}
    BY DEF Record, MemoryTypeOK
<1>4. /\ announcements' \in [Boards -> Events \cup {NoEvent}]
      /\ vouch_sets' \in [Pubkeys -> Events \cup {NoEvent}]
      /\ block_sets' \in [Pubkeys -> Events \cup {NoEvent}]
      /\ account_labels' \in [AccountSlots -> Events \cup {NoEvent}]
      /\ pledge_labels' \in [PledgeSlots -> Events \cup {NoEvent}]
    BY SlotUpdateType DEF Record, MemoryTypeOK
<1> QED
    BY <1>2, <1>3, <1>4 DEF MemoryTypeOK

\* The windows left by the daily quota and the minute limits of one request.
LEMMA QuotaType ==
    ASSUME TypeOK, NEW e \in Events
    PROVE  WindowsTypeOK(AfterIssueQuota(e))
    BY ConsumeType, EventKeys DEF AfterIssueQuota, TypeOK

\* Nor do the three limits of one request, taken together, upset the windows.
LEMMA LimitsType ==
    ASSUME TypeOK, NEW e \in Events, NEW ip \in Ips
    PROVE  WindowsTypeOK(AfterMinuteLimits(e, ip))
<1> DEFINE byPubkey == IF e.pubkey \in Stewards THEN AfterIssueQuota(e)
                       ELSE ConsumeRateLimit(AfterIssueQuota(e), PubkeyKey(e))
<1>1. now \in Nat
    BY DEF TypeOK
<1>2. WindowsTypeOK(byPubkey)
    BY <1>1, QuotaType, ConsumeType, EventKeys
<1>3. AfterMinuteLimits(e, ip) = ConsumeRateLimit(byPubkey, <<"ip", ip>>)
    BY DEF AfterMinuteLimits
<1> HIDE DEF byPubkey
<1> QED
    BY <1>1, <1>2, <1>3, ConsumeType, EventKeys

\* No windows at all, as create_relay_policy_state leaves them, are well formed.
LEMMA NoWindowsType == now \in Nat => WindowsTypeOK(NoWindows)
<1> SUFFICES ASSUME now \in Nat PROVE WindowsTypeOK(NoWindows)
    OBVIOUS
<1>1. NoWindows \in [RateKeys -> [start : Nat, count : Nat]]
    BY DEF NoWindows, NoWindow
<1>2. ASSUME NEW k \in RateKeys
      PROVE  /\ NoWindows[k].count <= LimitOf(k) + 1
             /\ NoWindows[k].start <= now
             /\ NoWindows[k].start % WindowOf(k) = 0
    <2>1. NoWindows[k].start = 0 /\ NoWindows[k].count = 0
        BY DEF NoWindows, NoWindow
    <2>2. 0 % WindowOf(k) = 0
        BY RateKeyTypes, SMT
    <2> QED
        BY <2>1, <2>2, RateKeyTypes
<1> QED
    BY <1>1, <1>2 DEF WindowsTypeOK

\* strfry stores nothing it was not given.
LEMMA StoreType ==
    ASSUME NEW db \in SUBSET Events, NEW e \in Events
    PROVE  Store(db, e) \subseteq db \cup {e}
    BY DEF Store

\* The policy starts well formed.
LEMMA InitTypeOK == Init => TypeOK
<1> SUFFICES ASSUME Init PROVE TypeOK
    OBVIOUS
<1>1. MemoryTypeOK
    BY DEF Init, MemoryTypeOK, EmptyMap
<1>2. WindowsTypeOK(rate_windows)
    BY NoWindowsType DEF Init
<1>3. granted \in [RateKeys -> Nat]
    BY DEF Init, NoneGranted
<1> QED
    BY <1>1, <1>2, <1>3 DEF Init, TypeOK

\* And every step of the policy, of strfry and of the clock keeps it so.
LEMMA NextTypeOK == TypeOK /\ [Next]_vars => TypeOK'
<1> SUFFICES ASSUME TypeOK, [Next]_vars PROVE TypeOK'
    OBVIOUS
<1> USE DEF TypeOK
<1>1. ASSUME NEW e \in Events, SeedEvent(e) PROVE TypeOK'
    <2>1. MemoryTypeOK' /\ recorded' \subseteq Events
        BY <1>1, RecordType DEF SeedEvent
    <2>2. WindowsTypeOK(rate_windows)'
        BY <1>1 DEF SeedEvent, WindowsTypeOK
    <2> QED
        BY <1>1, <2>1, <2>2 DEF SeedEvent, strfry
<1>2. ASSUME NEW e \in Events, AcceptFromOperator(e) PROVE TypeOK'
    <2>1. MemoryTypeOK' /\ recorded' \subseteq Events
        BY <1>2, RecordType DEF AcceptFromOperator, Accept
    <2>2. WindowsTypeOK(rate_windows)'
        BY <1>2 DEF AcceptFromOperator, Accept, WindowsTypeOK
    <2> QED
        BY <1>2, <2>1, <2>2 DEF AcceptFromOperator, Accept
<1>3. ASSUME NEW e \in Events, NEW ip \in Ips, AcceptFromClient(e, ip) PROVE TypeOK'
    <2>1. MemoryTypeOK' /\ recorded' \subseteq Events
        BY <1>3, RecordType DEF AcceptFromClient, Accept
    <2>2. WindowsTypeOK(rate_windows)'
        <3>1. WindowsTypeOK(AfterMinuteLimits(e, ip))
            BY LimitsType
        <3>2. rate_windows' = AfterMinuteLimits(e, ip) /\ now' = now
            BY <1>3 DEF AcceptFromClient, Accept
        <3> QED
            BY <3>1, <3>2 DEF WindowsTypeOK
    <2>3. granted' \in [RateKeys -> Nat]
        BY <1>3 DEF AcceptFromClient
    <2> QED
        BY <1>3, <2>1, <2>2, <2>3 DEF AcceptFromClient, Accept
<1>4. ASSUME NEW e \in Events, RefuseByQuota(e) PROVE TypeOK'
    <2>1. WindowsTypeOK(AfterIssueQuota(e))
        BY QuotaType
    <2>2. WindowsTypeOK(rate_windows)'
        BY <1>4, <2>1 DEF RefuseByQuota, WindowsTypeOK
    <2>3. refused' \subseteq Pubkeys
        BY <1>4, EventsAssumption DEF RefuseByQuota
    <2> QED
        BY <1>4, <2>2, <2>3 DEF RefuseByQuota, memory, strfry, MemoryTypeOK
<1>5. ASSUME NEW e \in Events, NEW ip \in Ips, RefuseSlowDown(e, ip) PROVE TypeOK'
    <2>1. WindowsTypeOK(AfterMinuteLimits(e, ip))
        BY LimitsType
    <2>2. WindowsTypeOK(rate_windows)'
        BY <1>5, <2>1 DEF RefuseSlowDown, WindowsTypeOK
    <2> QED
        BY <1>5, <2>2 DEF RefuseSlowDown, memory, strfry, history, MemoryTypeOK
<1>6. ASSUME NEW e \in Events, Commit(e) PROVE TypeOK'
    <2>1. WindowsTypeOK(rate_windows)' /\ MemoryTypeOK'
        BY <1>6 DEF Commit, memory, WindowsTypeOK, MemoryTypeOK
    <2>2. stored' \subseteq Events
        BY <1>6, StoreType DEF Commit
    <2> QED
        BY <1>6, <2>1, <2>2 DEF Commit
<1>7. ASSUME FinishSeeding PROVE TypeOK'
    BY <1>7 DEF FinishSeeding, memory, strfry, history, WindowsTypeOK, MemoryTypeOK
<1>8. ASSUME PruneRateWindows PROVE TypeOK'
    <2>1. rate_windows' = [k \in RateKeys |->
                             IF rate_windows[k].start + WindowOf(k) <= now
                             THEN NoWindow ELSE rate_windows[k]]
        BY <1>8 DEF PruneRateWindows
    <2>2. now' = now /\ WindowsTypeOK(NoWindows)
        BY <1>8, NoWindowsType DEF PruneRateWindows
    <2>3. \A k \in RateKeys : /\ NoWindow.count <= LimitOf(k) + 1
                              /\ NoWindow.start <= now
                              /\ NoWindow.start % WindowOf(k) = 0
        BY <2>2 DEF WindowsTypeOK, NoWindows
    <2>4. WindowsTypeOK(rate_windows)'
        BY <2>1, <2>2, <2>3 DEF WindowsTypeOK, NoWindow
    <2> QED
        BY <1>8, <2>4 DEF PruneRateWindows, memory, strfry, history, MemoryTypeOK
<1>9. ASSUME Restart PROVE TypeOK'
    <2>1. MemoryTypeOK'
        BY <1>9 DEF Restart, MemoryTypeOK, EmptyMap
    <2>2. WindowsTypeOK(rate_windows)'
        BY <1>9, NoWindowsType DEF Restart, WindowsTypeOK
    <2>3. granted' \in [RateKeys -> Nat] /\ restarts' \in Nat
        BY <1>9 DEF Restart, NoneGranted
    <2> QED
        BY <1>9, <2>1, <2>2, <2>3 DEF Restart
<1>10. ASSUME Tick PROVE TypeOK'
    <2>1. MemoryTypeOK'
        BY <1>10 DEF Tick, memory, MemoryTypeOK
    <2>2. WindowsTypeOK(rate_windows)'
        BY <1>10 DEF Tick, WindowsTypeOK
    <2>3. granted' \in [RateKeys -> Nat] /\ refused' \subseteq Pubkeys
        BY <1>10 DEF Tick
    <2> QED
        BY <1>10, <2>1, <2>2, <2>3 DEF Tick, strfry
<1>11. CASE UNCHANGED vars
    BY <1>11 DEF vars, memory, strfry, history, WindowsTypeOK, MemoryTypeOK
<1> QED
    BY <1>1, <1>2, <1>3, <1>4, <1>5, <1>6, <1>7, <1>8, <1>9, <1>10, <1>11 DEF Next

\* The policy's memory is well formed at all times: create_relay_policy_state,
\* evaluate_relay_event, prune_rate_windows and seed_relay_policy_state.
THEOREM TypeCorrect == Spec => []TypeOK
<1> QED
    BY InitTypeOK, NextTypeOK, PTL DEF Spec

-----------------------------------------------------------------------------
(* Rate limits.  A key's count may exceed what it was granted, since refused *)
(* requests are counted too, but as long as it was granted anything its      *)
(* window is the clock's current one and its count covers the grants.        *)

StartOf(k) == now - (now % WindowOf(k))

Covers(window, n, k) ==
    n = 0 \/ (window.start = StartOf(k) /\ window.count >= n)

GrantsCovered ==
    \A k \in RateKeys : /\ Covers(rate_windows[k], granted[k], k)
                        /\ granted[k] <= LimitOf(k)

\* One key's window after one more request.
Counted(window, k) ==
    IF window.count = 0 \/ window.start # StartOf(k)
    THEN [start |-> StartOf(k), count |-> 1]
    ELSE [start |-> window.start, count |-> Lesser(window.count + 1, LimitOf(k) + 1)]

\* consume_rate_limit rewrites the window of its own key only.
LEMMA ConsumeOne ==
    ASSUME NEW windows, WindowsTypeOK(windows), NEW key \in RateKeys
    PROVE  \A k \in RateKeys :
              ConsumeRateLimit(windows, key)[k] =
                 IF k = key THEN Counted(windows[key], key) ELSE windows[k]
    BY DEF ConsumeRateLimit, Counted, StartOf, WindowsTypeOK

\* The keys one accepted client request is granted under.
GrantKeys(e, ip) ==
    MinuteKeys(e, ip) \cup (IF IsQuotaIssue(e) THEN {IssueKey(e)} ELSE {})

\* The keys a write is granted under are rate keys.
LEMMA GrantKeyTypes ==
    ASSUME NEW e \in Events, NEW ip \in Ips
    PROVE  /\ GrantKeys(e, ip) \subseteq RateKeys
           /\ IssueKey(e) # PubkeyKey(e)
           /\ IssueKey(e) # <<"ip", ip>> /\ PubkeyKey(e) # <<"ip", ip>>
    BY EventKeys DEF GrantKeys, MinuteKeys, IssueKey, PubkeyKey

\* The three consume_rate_limit calls of one request count it once under each
\* of its keys and touch no other key's window.
LEMMA LimitsMeter ==
    ASSUME TypeOK, NEW e \in Events, NEW ip \in Ips, NEW k \in RateKeys
    PROVE  /\ AfterIssueQuota(e)[k] =
                 IF IsQuotaIssue(e) /\ k = IssueKey(e)
                 THEN Counted(rate_windows[k], k) ELSE rate_windows[k]
           /\ AfterMinuteLimits(e, ip)[k] =
                 IF k \in GrantKeys(e, ip)
                 THEN Counted(rate_windows[k], k) ELSE rate_windows[k]
<1>1. WindowsTypeOK(rate_windows) /\ now \in Nat
    BY DEF TypeOK
<1>2. AfterIssueQuota(e)[k] = IF IsQuotaIssue(e) /\ k = IssueKey(e)
                              THEN Counted(rate_windows[k], k) ELSE rate_windows[k]
    BY <1>1, ConsumeOne, EventKeys DEF AfterIssueQuota
<1> DEFINE byPubkey == IF e.pubkey \in Stewards THEN AfterIssueQuota(e)
                       ELSE ConsumeRateLimit(AfterIssueQuota(e), PubkeyKey(e))
<1>3. WindowsTypeOK(AfterIssueQuota(e)) /\ WindowsTypeOK(byPubkey)
    BY <1>1, QuotaType, ConsumeType, EventKeys
<1>4. byPubkey[k] = IF e.pubkey \notin Stewards /\ k = PubkeyKey(e)
                    THEN Counted(AfterIssueQuota(e)[k], k) ELSE AfterIssueQuota(e)[k]
    BY <1>3, ConsumeOne, EventKeys
<1>5. AfterMinuteLimits(e, ip) = ConsumeRateLimit(byPubkey, <<"ip", ip>>)
    BY DEF AfterMinuteLimits
<1> HIDE DEF byPubkey
<1>6. AfterMinuteLimits(e, ip)[k] =
         IF k = <<"ip", ip>> THEN Counted(byPubkey[k], k) ELSE byPubkey[k]
    BY <1>3, <1>5, ConsumeOne, EventKeys
<1>7. k \in GrantKeys(e, ip) <=>
         \/ k = <<"ip", ip>>
         \/ e.pubkey \notin Stewards /\ k = PubkeyKey(e)
         \/ IsQuotaIssue(e) /\ k = IssueKey(e)
    BY DEF GrantKeys, MinuteKeys
<1> QED
    BY <1>2, <1>4, <1>6, <1>7, GrantKeyTypes

\* Counting a request keeps earlier grants covered, and covers one more if the
\* count is still within the limit.
LEMMA CountedCovers ==
    ASSUME TypeOK, NEW k \in RateKeys, NEW n \in Nat, Covers(rate_windows[k], n, k)
    PROVE  /\ n <= LimitOf(k) => Covers(Counted(rate_windows[k], k), n, k)
           /\ Counted(rate_windows[k], k).count <= LimitOf(k) =>
                 /\ Covers(Counted(rate_windows[k], k), n + 1, k)
                 /\ n + 1 <= LimitOf(k)
<1> DEFINE w == rate_windows[k]
<1>1. /\ w.start \in Nat /\ w.count \in Nat /\ w.count <= LimitOf(k) + 1
      /\ LimitOf(k) \in Nat
    BY RateKeyTypes DEF TypeOK, WindowsTypeOK
<1>2. CASE w.count = 0 \/ w.start # StartOf(k)
    <2>1. Counted(w, k).start = StartOf(k) /\ Counted(w, k).count = 1
        BY <1>2 DEF Counted
    <2>2. n = 0
        BY <1>1, <1>2 DEF Covers
    <2> QED
        BY <1>1, <2>1, <2>2 DEF Covers
<1>3. CASE ~ (w.count = 0 \/ w.start # StartOf(k))
    <2>1. /\ Counted(w, k).start = StartOf(k)
          /\ Counted(w, k).count = Lesser(w.count + 1, LimitOf(k) + 1)
        BY <1>3 DEF Counted
    <2>2. n <= w.count
        BY <1>1, <1>3 DEF Covers
    <2> QED
        BY <1>1, <2>1, <2>2 DEF Covers, Lesser
<1> QED
    BY <1>2, <1>3

\* Before the first write nothing is granted.
LEMMA InitCovered == Init => GrantsCovered
    BY RateKeyTypes DEF Init, GrantsCovered, Covers, NoneGranted

\* Grants stay covered by the count of the window they were made in, through
\* pruning, refusals and the turn of a window.
LEMMA NextCovered == TypeOK /\ GrantsCovered /\ [Next]_vars => GrantsCovered'
<1> SUFFICES ASSUME TypeOK, GrantsCovered, [Next]_vars,
                    NEW k \in RateKeys
             PROVE  /\ Covers(rate_windows[k], granted[k], k)'
                    /\ granted'[k] <= LimitOf(k)
    BY DEF GrantsCovered
<1>1. /\ Covers(rate_windows[k], granted[k], k)
      /\ granted[k] \in Nat /\ granted[k] <= LimitOf(k) /\ LimitOf(k) \in Nat
      /\ now \in Nat /\ WindowOf(k) \in Nat /\ WindowOf(k) > 0
    BY RateKeyTypes DEF TypeOK, GrantsCovered
<1>2. ASSUME now' = now, rate_windows'[k] = rate_windows[k], granted'[k] = granted[k]
      PROVE  /\ Covers(rate_windows[k], granted[k], k)'
             /\ granted'[k] <= LimitOf(k)
    BY <1>1, <1>2 DEF Covers, StartOf
<1>3. ASSUME now' = now, granted'[k] = granted[k],
             rate_windows'[k] = Counted(rate_windows[k], k)
      PROVE  /\ Covers(rate_windows[k], granted[k], k)'
             /\ granted'[k] <= LimitOf(k)
    <2>1. Covers(Counted(rate_windows[k], k), granted[k], k)
        BY <1>1, CountedCovers
    <2> QED
        BY <1>1, <1>3, <2>1 DEF Covers, StartOf
<1>4. CASE UNCHANGED <<now, rate_windows, granted>>
    BY <1>2, <1>4
<1>5. ASSUME NEW e \in Events, NEW ip \in Ips, AcceptFromClient(e, ip)
      PROVE  /\ Covers(rate_windows[k], granted[k], k)'
             /\ granted'[k] <= LimitOf(k)
    <2>1. /\ now' = now
          /\ rate_windows' = AfterMinuteLimits(e, ip)
          /\ granted'[k] = IF k \in GrantKeys(e, ip) THEN granted[k] + 1 ELSE granted[k]
        BY <1>5 DEF AcceptFromClient, Accept, GrantKeys
    <2>2. CASE k \notin GrantKeys(e, ip)
        BY <1>2, <2>1, <2>2, LimitsMeter
    <2>3. CASE k \in GrantKeys(e, ip)
        <3>1. rate_windows'[k] = Counted(rate_windows[k], k)
            BY <2>1, <2>3, LimitsMeter
        <3>2. Counted(rate_windows[k], k).count <= LimitOf(k)
            <4>1. CASE k \in MinuteKeys(e, ip)
                BY <1>5, <2>1, <3>1, <4>1 DEF AcceptFromClient, SlowDown, Within
            <4>2. CASE k \notin MinuteKeys(e, ip)
                <5>1. IsQuotaIssue(e) /\ k = IssueKey(e)
                    BY <2>3, <4>2 DEF GrantKeys
                <5> QED
                    BY <1>5, <5>1, LimitsMeter DEF AcceptFromClient, QuotaExceeded, Within
            <4> QED
                BY <4>1, <4>2
        <3>3. /\ Covers(Counted(rate_windows[k], k), granted[k] + 1, k)
              /\ granted[k] + 1 <= LimitOf(k)
            BY <1>1, <3>2, CountedCovers
        <3> QED
            BY <2>1, <2>3, <3>1, <3>3 DEF Covers, StartOf
    <2> QED
        BY <2>2, <2>3
<1>6. ASSUME NEW e \in Events, RefuseByQuota(e)
      PROVE  /\ Covers(rate_windows[k], granted[k], k)'
             /\ granted'[k] <= LimitOf(k)
    <2>1. /\ now' = now /\ granted' = granted
          /\ rate_windows' = AfterIssueQuota(e)
        BY <1>6 DEF RefuseByQuota
    <2>2. rate_windows'[k] \in {rate_windows[k], Counted(rate_windows[k], k)}
        <3>1. WindowsTypeOK(rate_windows)
            BY DEF TypeOK
        <3> QED
            BY <2>1, <3>1, ConsumeOne, EventKeys DEF AfterIssueQuota
    <2> QED
        BY <1>2, <1>3, <2>1, <2>2
<1>7. ASSUME NEW e \in Events, NEW ip \in Ips, RefuseSlowDown(e, ip)
      PROVE  /\ Covers(rate_windows[k], granted[k], k)'
             /\ granted'[k] <= LimitOf(k)
    <2>1. /\ now' = now /\ granted' = granted
          /\ rate_windows' = AfterMinuteLimits(e, ip)
        BY <1>7 DEF RefuseSlowDown, history
    <2>2. rate_windows'[k] \in {rate_windows[k], Counted(rate_windows[k], k)}
        BY <2>1, LimitsMeter
    <2> QED
        BY <1>2, <1>3, <2>1, <2>2
<1>8. CASE PruneRateWindows
    <2>1. /\ now' = now /\ granted' = granted
          /\ rate_windows'[k] = IF rate_windows[k].start + WindowOf(k) <= now
                                THEN NoWindow ELSE rate_windows[k]
        BY <1>8 DEF PruneRateWindows, history
    <2>2. CASE rate_windows[k].start + WindowOf(k) <= now
        <3>1. now % WindowOf(k) \in 0..(WindowOf(k) - 1)
            BY <1>1, WindowStart
        <3>2. StartOf(k) \in Nat /\ ~ (StartOf(k) + WindowOf(k) <= now)
            BY <1>1, <3>1, WindowStart DEF StartOf
        <3>3. granted[k] = 0
            BY <1>1, <2>2, <3>2 DEF Covers
        <3> QED
            BY <1>1, <2>1, <3>3 DEF Covers
    <2>3. CASE ~ (rate_windows[k].start + WindowOf(k) <= now)
        BY <1>2, <2>1, <2>3
    <2> QED
        BY <2>2, <2>3
<1>9. CASE Restart
    BY <1>1, <1>9 DEF Restart, NoneGranted, Covers
<1>10. CASE Tick
    <2>1. /\ now' = now + 1 /\ rate_windows' = rate_windows
          /\ granted'[k] = IF (now + 1) % WindowOf(k) = 0 THEN 0 ELSE granted[k]
        BY <1>10 DEF Tick
    <2>2. CASE (now + 1) % WindowOf(k) = 0
        BY <1>1, <2>1, <2>2 DEF Covers
    <2>3. CASE (now + 1) % WindowOf(k) # 0
        <3>1. StartOf(k)' = StartOf(k)
            BY <1>1, <2>1, <2>3, WindowStays DEF StartOf
        <3> QED
            BY <1>1, <2>1, <2>3, <3>1 DEF Covers
    <2> QED
        BY <2>2, <2>3
<1>11. ASSUME NEW e \in Events,
              SeedEvent(e) \/ AcceptFromOperator(e) \/ Commit(e)
       PROVE  UNCHANGED <<now, rate_windows, granted>>
    BY <1>11 DEF SeedEvent, AcceptFromOperator, Accept, Commit
<1>12. ASSUME FinishSeeding \/ UNCHANGED vars
       PROVE  UNCHANGED <<now, rate_windows, granted>>
    BY <1>12 DEF FinishSeeding, vars, history
<1> QED
    BY <1>4, <1>5, <1>6, <1>7, <1>8, <1>9, <1>10, <1>11, <1>12 DEF Next

\* consume_rate_limit and prune_rate_windows: within one window of the clock no
\* key is granted more client writes than its limit, for every limit and every
\* length of window.
THEOREM LimitsHold == Spec => []WindowLimitsHold
<1>1. GrantsCovered => WindowLimitsHold
    BY DEF GrantsCovered, WindowLimitsHold
<1> QED
    BY <1>1, InitTypeOK, NextTypeOK, InitCovered, NextCovered, PTL DEF Spec

-----------------------------------------------------------------------------
(* Admission *)

Admissible(e) ==
    /\ e.kind = "announcement" => e.d \in Boards /\ e.pubkey = Owner[e.d]
    /\ e.kind = "account_attestation" => e.value \in AccountValues
    /\ e.kind = "issue" => HasBoardAddress(e)

AllAdmissible ==
    \A e \in stored \cup queued \cup to_seed \cup recorded : Admissible(e)

\* check_kind_rules admits nothing a slot could not hold.
LEMMA AdmittedAreAdmissible ==
    ASSUME NEW e, KindRules(e)
    PROVE  Admissible(e)
    BY DEF KindRules, Admissible, OwnerAnnounces, StatusKinds, LabelKinds

\* What is stored, queued or recorded was admitted by check_kind_rules, before
\* this run of the policy or an earlier one: "every stored event was accepted".
LEMMA AdmissionInvariant == TypeOK /\ AllAdmissible /\ [Next]_vars => AllAdmissible'
<1> SUFFICES ASSUME TypeOK, AllAdmissible, [Next]_vars PROVE AllAdmissible'
    OBVIOUS
<1> DEFINE held == stored \cup queued \cup to_seed \cup recorded
<1>1. ASSUME held' \subseteq held PROVE AllAdmissible'
    BY <1>1 DEF AllAdmissible, Admissible
<1>2. ASSUME NEW e \in Events, held' \subseteq held \cup {e}, KindRules(e)
      PROVE  AllAdmissible'
    BY <1>2, AdmittedAreAdmissible DEF AllAdmissible, Admissible
<1>3. ASSUME NEW e \in Events, SeedEvent(e) PROVE held' \subseteq held
    BY <1>3 DEF SeedEvent, Record, strfry
<1>4. ASSUME NEW e \in Events, AcceptFromOperator(e)
      PROVE  held' \subseteq held \cup {e} /\ KindRules(e)
    BY <1>4 DEF AcceptFromOperator, Accept, Record
<1>5. ASSUME NEW e \in Events, NEW ip \in Ips, AcceptFromClient(e, ip)
      PROVE  held' \subseteq held \cup {e} /\ KindRules(e)
    BY <1>5 DEF AcceptFromClient, Accept, Record
<1>6. ASSUME NEW e \in Events, Commit(e) PROVE held' \subseteq held
    <2>1. Store(stored, e) \subseteq stored \cup {e}
        BY StoreType DEF TypeOK
    <2> QED
        BY <1>6, <2>1 DEF Commit
<1>7. ASSUME Restart PROVE held' \subseteq held
    BY <1>7 DEF Restart
<1>8. ASSUME NEW e \in Events, NEW ip \in Ips, RefuseSlowDown(e, ip)
      PROVE  held' \subseteq held
    BY <1>8 DEF RefuseSlowDown, strfry, history
<1>9. ASSUME NEW e \in Events, RefuseByQuota(e) PROVE held' \subseteq held
    BY <1>9 DEF RefuseByQuota, strfry
<1>10. ASSUME FinishSeeding \/ PruneRateWindows \/ Tick \/ UNCHANGED vars
       PROVE  held' \subseteq held
    BY <1>10 DEF FinishSeeding, PruneRateWindows, Tick, vars, strfry, history
<1> HIDE DEF held
<1> QED
    BY <1>1, <1>2, <1>3, <1>4, <1>5, <1>6, <1>7, <1>8, <1>9, <1>10 DEF Next

-----------------------------------------------------------------------------
(* Slots *)

OfBoard(S, b) == {e \in S : e.kind = "announcement" /\ e.d = b}
OfKey(S, kind, p) == {e \in S : e.kind = kind /\ e.pubkey = p}
OfAccount(S, slot) ==
    {e \in S : e.kind = "account_attestation" /\ <<e.pubkey, e.target>> = slot}
OfPledge(S, slot) ==
    {e \in S : e.kind = "pledge_attestation" /\ <<e.pubkey, e.target, e.issue>> = slot}

SlotsHoldNewest ==
    /\ \A b \in Boards : HoldsNewest(announcements[b], OfBoard(recorded, b))
    /\ \A p \in Pubkeys : HoldsNewest(vouch_sets[p], OfKey(recorded, "vouch_set", p))
    /\ \A p \in Pubkeys : HoldsNewest(block_sets[p], OfKey(recorded, "block_set", p))
    /\ \A s \in AccountSlots : HoldsNewest(account_labels[s], OfAccount(recorded, s))
    /\ \A s \in PledgeSlots : HoldsNewest(pledge_labels[s], OfPledge(recorded, s))

\* One slot of one map, whether or not the event belongs in it.
LEMMA SlotUpdateHolds ==
    ASSUME NEW slots, NEW map \in [slots -> Events \cup {NoEvent}],
           NEW slot, NEW matches \in BOOLEAN, NEW e \in Events,
           NEW s \in slots, NEW S \in SUBSET Events, HoldsNewest(map[s], S),
           NEW T, T = IF matches /\ s = slot THEN S \cup {e} ELSE S
    PROVE  HoldsNewest(SlotUpdate(map, slot, matches, e)[s], T)
<1>1. CASE matches /\ s = slot
    <2>1. SlotUpdate(map, slot, matches, e)[s] = KeepNewest(map[s], e)
        BY <1>1 DEF SlotUpdate
    <2> QED
        BY <1>1, <2>1, KeepNewestStep
<1>2. CASE ~ (matches /\ s = slot)
    <2>1. SlotUpdate(map, slot, matches, e)[s] = map[s]
        BY <1>2 DEF SlotUpdate
    <2> QED
        BY <1>2, <2>1
<1> QED
    BY <1>1, <1>2

\* record_accepted_event puts an event through every map, and leaves each slot
\* with the newest.
LEMMA RecordHolds ==
    ASSUME TypeOK, SlotsHoldNewest, NEW e \in Events, Record(e)
    PROVE  SlotsHoldNewest'
<1> DEFINE after == recorded \cup {e}
<1>1. recorded' = after /\ recorded \in SUBSET Events
    BY DEF Record, TypeOK
<1>2. ASSUME NEW b \in Boards
      PROVE  HoldsNewest(announcements'[b], OfBoard(after, b))
    <2>1. OfBoard(after, b) = IF e.kind = "announcement" /\ b = e.d
                              THEN OfBoard(recorded, b) \cup {e}
                              ELSE OfBoard(recorded, b)
        BY DEF OfBoard
    <2>2. OfBoard(recorded, b) \in SUBSET Events
        BY <1>1 DEF OfBoard
    <2>3. announcements' = SlotUpdate(announcements, e.d, e.kind = "announcement", e)
        BY DEF Record
    <2>4. /\ announcements \in [Boards -> Events \cup {NoEvent}]
          /\ HoldsNewest(announcements[b], OfBoard(recorded, b))
        BY DEF SlotsHoldNewest, TypeOK, MemoryTypeOK
    <2> QED
        BY <2>1, <2>2, <2>3, <2>4, SlotUpdateHolds
<1>3. ASSUME NEW p \in Pubkeys
      PROVE  HoldsNewest(vouch_sets'[p], OfKey(after, "vouch_set", p))
    <2>1. OfKey(after, "vouch_set", p) = IF e.kind = "vouch_set" /\ p = e.pubkey
                                         THEN OfKey(recorded, "vouch_set", p) \cup {e}
                                         ELSE OfKey(recorded, "vouch_set", p)
        BY DEF OfKey
    <2>2. OfKey(recorded, "vouch_set", p) \in SUBSET Events
        BY <1>1 DEF OfKey
    <2>3. vouch_sets' = SlotUpdate(vouch_sets, e.pubkey, e.kind = "vouch_set", e)
        BY DEF Record
    <2>4. /\ vouch_sets \in [Pubkeys -> Events \cup {NoEvent}]
          /\ HoldsNewest(vouch_sets[p], OfKey(recorded, "vouch_set", p))
        BY DEF SlotsHoldNewest, TypeOK, MemoryTypeOK
    <2> QED
        BY <2>1, <2>2, <2>3, <2>4, SlotUpdateHolds
<1>4. ASSUME NEW p \in Pubkeys
      PROVE  HoldsNewest(block_sets'[p], OfKey(after, "block_set", p))
    <2>1. OfKey(after, "block_set", p) = IF e.kind = "block_set" /\ p = e.pubkey
                                         THEN OfKey(recorded, "block_set", p) \cup {e}
                                         ELSE OfKey(recorded, "block_set", p)
        BY DEF OfKey
    <2>2. OfKey(recorded, "block_set", p) \in SUBSET Events
        BY <1>1 DEF OfKey
    <2>3. block_sets' = SlotUpdate(block_sets, e.pubkey, e.kind = "block_set", e)
        BY DEF Record
    <2>4. /\ block_sets \in [Pubkeys -> Events \cup {NoEvent}]
          /\ HoldsNewest(block_sets[p], OfKey(recorded, "block_set", p))
        BY DEF SlotsHoldNewest, TypeOK, MemoryTypeOK
    <2> QED
        BY <2>1, <2>2, <2>3, <2>4, SlotUpdateHolds
<1>5. ASSUME NEW s \in AccountSlots
      PROVE  HoldsNewest(account_labels'[s], OfAccount(after, s))
    <2> DEFINE slot == <<e.pubkey, e.target>>
    <2>1. OfAccount(after, s) = IF e.kind = "account_attestation" /\ s = slot
                                THEN OfAccount(recorded, s) \cup {e}
                                ELSE OfAccount(recorded, s)
        BY DEF OfAccount
    <2>2. OfAccount(recorded, s) \in SUBSET Events
        BY <1>1 DEF OfAccount
    <2>3. account_labels' = SlotUpdate(account_labels, slot,
                                       e.kind = "account_attestation", e)
        BY DEF Record
    <2>4. /\ account_labels \in [AccountSlots -> Events \cup {NoEvent}]
          /\ HoldsNewest(account_labels[s], OfAccount(recorded, s))
        BY DEF SlotsHoldNewest, TypeOK, MemoryTypeOK
    <2> HIDE DEF slot
    <2> QED
        BY <2>1, <2>2, <2>3, <2>4, SlotUpdateHolds
<1>6. ASSUME NEW s \in PledgeSlots
      PROVE  HoldsNewest(pledge_labels'[s], OfPledge(after, s))
    <2> DEFINE slot == <<e.pubkey, e.target, e.issue>>
    <2>1. OfPledge(after, s) = IF e.kind = "pledge_attestation" /\ s = slot
                               THEN OfPledge(recorded, s) \cup {e}
                               ELSE OfPledge(recorded, s)
        BY DEF OfPledge
    <2>2. OfPledge(recorded, s) \in SUBSET Events
        BY <1>1 DEF OfPledge
    <2>3. pledge_labels' = SlotUpdate(pledge_labels, slot,
                                      e.kind = "pledge_attestation", e)
        BY DEF Record
    <2>4. /\ pledge_labels \in [PledgeSlots -> Events \cup {NoEvent}]
          /\ HoldsNewest(pledge_labels[s], OfPledge(recorded, s))
        BY DEF SlotsHoldNewest, TypeOK, MemoryTypeOK
    <2> HIDE DEF slot
    <2> QED
        BY <2>1, <2>2, <2>3, <2>4, SlotUpdateHolds
<1> QED
    BY <1>1, <1>2, <1>3, <1>4, <1>5, <1>6 DEF SlotsHoldNewest, HoldsNewest, IsNewestIn,
       OfBoard, OfKey, OfAccount, OfPledge

\* Empty slots hold the newest of nothing.
LEMMA EmptyHolds ==
    ASSUME recorded = {},
           announcements = EmptyMap(Boards),
           vouch_sets = EmptyMap(Pubkeys), block_sets = EmptyMap(Pubkeys),
           account_labels = EmptyMap(AccountSlots),
           pledge_labels = EmptyMap(PledgeSlots)
    PROVE  SlotsHoldNewest
    BY DEF SlotsHoldNewest, HoldsNewest, EmptyMap, OfBoard, OfKey, OfAccount, OfPledge

\* Each slot holds the newest recorded event that belongs in it: seeding and
\* accepting put an event through every map, and a restart empties them all.
LEMMA SlotsInvariant == TypeOK /\ SlotsHoldNewest /\ [Next]_vars => SlotsHoldNewest'
<1> SUFFICES ASSUME TypeOK, SlotsHoldNewest, [Next]_vars PROVE SlotsHoldNewest'
    OBVIOUS
<1>1. ASSUME UNCHANGED <<memory, recorded>> PROVE SlotsHoldNewest'
    BY <1>1 DEF SlotsHoldNewest, memory, HoldsNewest, IsNewestIn,
       OfBoard, OfKey, OfAccount, OfPledge
<1>2. ASSUME NEW e \in Events, NEW ip \in Ips, AcceptFromClient(e, ip)
      PROVE  SlotsHoldNewest'
    BY <1>2, RecordHolds DEF AcceptFromClient, Accept
<1>3. ASSUME NEW e \in Events, SeedEvent(e) \/ AcceptFromOperator(e)
      PROVE  SlotsHoldNewest'
    BY <1>3, RecordHolds DEF SeedEvent, AcceptFromOperator, Accept
<1>4. ASSUME Restart PROVE SlotsHoldNewest'
    BY <1>4, EmptyHolds DEF Restart, SlotsHoldNewest, HoldsNewest, EmptyMap,
       OfBoard, OfKey, OfAccount, OfPledge
<1>5. ASSUME NEW e \in Events, NEW ip \in Ips, RefuseSlowDown(e, ip)
      PROVE  UNCHANGED <<memory, recorded>>
    BY <1>5 DEF RefuseSlowDown, history
<1>6. ASSUME NEW e \in Events, RefuseByQuota(e) \/ Commit(e)
      PROVE  UNCHANGED <<memory, recorded>>
    BY <1>6 DEF RefuseByQuota, Commit
<1>7. ASSUME FinishSeeding \/ PruneRateWindows \/ Tick \/ UNCHANGED vars
      PROVE  UNCHANGED <<memory, recorded>>
    BY <1>7 DEF FinishSeeding, PruneRateWindows, Tick, vars, history
<1> QED
    BY <1>1, <1>2, <1>3, <1>4, <1>5, <1>6, <1>7 DEF Next

-----------------------------------------------------------------------------
(* From slots to trust *)

\* A is a part of B that still has, for each event of B, that event or a newer
\* one: the two then have the same newest event.
LEMMA SameNewest ==
    ASSUME NEW B \in SUBSET Events, NEW A \in SUBSET B,
           \A f \in B : \E g \in A : g = f \/ IsNewer(g, f)
    PROVE  \A e : IsNewestIn(e, A) <=> IsNewestIn(e, B)
<1>1. ASSUME NEW e, IsNewestIn(e, B) PROVE IsNewestIn(e, A)
    <2>1. PICK g \in A : g = e \/ IsNewer(g, e)
        BY <1>1 DEF IsNewestIn
    <2>2. e = g
        BY <1>1, <2>1, NewerAsymmetric DEF IsNewestIn
    <2> QED
        BY <1>1, <2>1, <2>2 DEF IsNewestIn
<1>2. ASSUME NEW e, IsNewestIn(e, A) PROVE IsNewestIn(e, B)
    <2>1. ASSUME NEW f \in B PROVE f = e \/ IsNewer(e, f)
        <3>1. PICK g \in A : g = f \/ IsNewer(g, f)
            OBVIOUS
        <3>2. g = e \/ IsNewer(e, g)
            BY <1>2, <3>1 DEF IsNewestIn
        <3> QED
            BY <1>2, <3>1, <3>2, NewerTransitive DEF IsNewestIn
    <2> QED
        BY <1>2, <2>1 DEF IsNewestIn
<1> QED
    BY <1>1, <1>2

\* get_stewards, and the steward set of the recorded announcements.
LEMMA StewardsAgree ==
    ASSUME TypeOK, AllAdmissible, SlotsHoldNewest
    PROVE  Stewards = StewardsOf(recorded, Boards)
<1>1. ASSUME NEW b \in Boards PROVE announcements[b] = Newest(AnnouncementsOf(recorded, b))
    <2>1. AnnouncementsOf(recorded, b) = OfBoard(recorded, b)
        BY DEF AnnouncementsOf, OfBoard, AllAdmissible, Admissible
    <2>2. OfBoard(recorded, b) \in SUBSET Events
        BY DEF OfBoard, TypeOK
    <2> QED
        BY <2>1, <2>2, HoldsNewestIsNewest DEF SlotsHoldNewest
<1> QED
    BY <1>1 DEF Stewards, StewardsOf

\* The vouch and block sets, and select_trust_sets of what was recorded.
LEMMA TrustSetsAgree ==
    ASSUME TypeOK, SlotsHoldNewest
    PROVE  /\ vouch_sets = SelectTrustSets(recorded, "vouch_set")
           /\ block_sets = SelectTrustSets(recorded, "block_set")
<1>1. ASSUME NEW p \in Pubkeys, NEW kind
      PROVE  OfKey(recorded, kind, p) \in SUBSET Events
    BY DEF OfKey, TypeOK
<1>2. ASSUME NEW p \in Pubkeys
      PROVE  /\ vouch_sets[p] = Newest(OfKey(recorded, "vouch_set", p))
             /\ block_sets[p] = Newest(OfKey(recorded, "block_set", p))
    BY <1>1, HoldsNewestIsNewest DEF SlotsHoldNewest
<1> QED
    BY <1>2 DEF SelectTrustSets, OfKey, TypeOK, MemoryTypeOK

\* The newest attestation of a key by any steward is found among the newest
\* of each steward, which is all the policy keeps.
LEMMA AttestationsAgree ==
    ASSUME TypeOK, AllAdmissible, SlotsHoldNewest, NEW stewards, NEW k \in Pubkeys
    PROVE  \A e : IsNewestIn(e, Attestations(Present(account_labels), stewards, k))
                     <=> IsNewestIn(e, Attestations(recorded, stewards, k))
<1> DEFINE A == Attestations(Present(account_labels), stewards, k)
           B == Attestations(recorded, stewards, k)
<1>1. DOMAIN account_labels = AccountSlots /\ recorded \in SUBSET Events
    BY DEF TypeOK, MemoryTypeOK
<1>2. Present(account_labels) \subseteq recorded
    BY <1>1 DEF Present, SlotsHoldNewest, HoldsNewest, IsNewestIn, OfAccount
<1>3. A \subseteq B /\ B \subseteq Events
    BY <1>1, <1>2 DEF Attestations
<1>4. ASSUME NEW f \in B PROVE \E g \in A : g = f \/ IsNewer(g, f)
    <2> DEFINE slot == <<f.pubkey, f.target>>
               g == account_labels[slot]
    <2>1. f \in recorded /\ f \in Events /\ f.kind = "account_attestation"
        BY <1>1 DEF Attestations
    <2>2. slot \in AccountSlots
        BY <2>1, EventsAssumption DEF AccountSlots
    <2>3. f \in OfAccount(recorded, slot)
        BY <2>1 DEF OfAccount
    <2>4. IsNewestIn(g, OfAccount(recorded, slot))
        BY <2>2, <2>3 DEF SlotsHoldNewest, HoldsNewest
    <2>5. g \in recorded /\ g.kind = "account_attestation" /\ <<g.pubkey, g.target>> = slot
        BY <2>4 DEF IsNewestIn, OfAccount
    <2>6. g.pubkey = f.pubkey /\ g.target = k /\ f.pubkey \in stewards
        BY <2>5 DEF Attestations
    <2>7. g \in Present(account_labels)
        BY <1>1, <2>2, <2>5, EventsAssumption DEF Present
    <2>8. g.value \in AccountValues
        BY <2>5 DEF AllAdmissible, Admissible
    <2>9. g \in A
        BY <2>5, <2>6, <2>7, <2>8 DEF Attestations
    <2> QED
        BY <2>3, <2>4, <2>9 DEF IsNewestIn
<1> HIDE DEF A, B
<1>5. \A e : IsNewestIn(e, A) <=> IsNewestIn(e, B)
    BY <1>3, <1>4, SameNewest
<1> QED
    BY <1>5 DEF A, B

\* The same for the verdicts on a pledge.
LEMMA VerdictsAgree ==
    ASSUME TypeOK, SlotsHoldNewest, NEW stewards, NEW pledger, NEW issue
    PROVE  \A e : IsNewestIn(e, Verdicts(Present(pledge_labels), stewards, pledger, issue))
                     <=> IsNewestIn(e, Verdicts(recorded, stewards, pledger, issue))
<1> DEFINE A == Verdicts(Present(pledge_labels), stewards, pledger, issue)
           B == Verdicts(recorded, stewards, pledger, issue)
<1>1. DOMAIN pledge_labels = PledgeSlots /\ recorded \in SUBSET Events
    BY DEF TypeOK, MemoryTypeOK
<1>2. Present(pledge_labels) \subseteq recorded
    BY <1>1 DEF Present, SlotsHoldNewest, HoldsNewest, IsNewestIn, OfPledge
<1>3. A \subseteq B /\ B \subseteq Events
    BY <1>1, <1>2 DEF Verdicts
<1>4. ASSUME NEW f \in B PROVE \E g \in A : g = f \/ IsNewer(g, f)
    <2> DEFINE slot == <<f.pubkey, f.target, f.issue>>
               g == pledge_labels[slot]
    <2>1. f \in recorded /\ f \in Events /\ f.kind = "pledge_attestation"
        BY <1>1 DEF Verdicts
    <2>2. slot \in PledgeSlots
        BY <2>1, EventsAssumption DEF PledgeSlots
    <2>3. f \in OfPledge(recorded, slot)
        BY <2>1 DEF OfPledge
    <2>4. IsNewestIn(g, OfPledge(recorded, slot))
        BY <2>2, <2>3 DEF SlotsHoldNewest, HoldsNewest
    <2>5. /\ g \in recorded /\ g.kind = "pledge_attestation"
          /\ <<g.pubkey, g.target, g.issue>> = slot
        BY <2>4 DEF IsNewestIn, OfPledge
    <2>6. /\ g.pubkey = f.pubkey /\ g.target = pledger /\ g.issue = issue
          /\ f.pubkey \in stewards
        BY <2>5 DEF Verdicts
    <2>7. g \in Present(pledge_labels)
        BY <1>1, <2>2, <2>5, EventsAssumption DEF Present
    <2>8. g \in A
        BY <2>5, <2>6, <2>7 DEF Verdicts
    <2> QED
        BY <2>3, <2>4, <2>8 DEF IsNewestIn
<1> HIDE DEF A, B
<1>5. \A e : IsNewestIn(e, A) <=> IsNewestIn(e, B)
    BY <1>3, <1>4, SameNewest
<1> QED
    BY <1>5 DEF A, B

\* select_established and select_earned_vouches give the same answer on the
\* slots as on everything recorded.
LEMMA SelectionsAgree ==
    ASSUME TypeOK, AllAdmissible, SlotsHoldNewest, NEW stewards
    PROVE  /\ SelectEstablished(Present(account_labels), stewards, now)
                = SelectEstablished(recorded, stewards, now)
           /\ SelectEarnedVouches(Present(pledge_labels), stewards)
                = SelectEarnedVouches(recorded, stewards)
<1>1. ASSUME NEW S, NEW T, NEW k,
             \A e : IsNewestIn(e, Attestations(S, stewards, k))
                       <=> IsNewestIn(e, Attestations(T, stewards, k))
      PROVE  (\E e \in S : /\ IsNewestIn(e, Attestations(S, stewards, k))
                           /\ e.value = "established"
                           /\ ExpirationOf(e, AttestationLifetime) > now)
             => \E e \in T : /\ IsNewestIn(e, Attestations(T, stewards, k))
                             /\ e.value = "established"
                             /\ ExpirationOf(e, AttestationLifetime) > now
    <2>1. \A e : IsNewestIn(e, Attestations(T, stewards, k)) => e \in T
        BY DEF IsNewestIn, Attestations
    <2> QED
        BY <1>1, <2>1
<1>2. SelectEstablished(Present(account_labels), stewards, now)
         = SelectEstablished(recorded, stewards, now)
    BY <1>1, AttestationsAgree DEF SelectEstablished
<1>3. SelectEarnedVouches(Present(pledge_labels), stewards)
         = SelectEarnedVouches(recorded, stewards)
    <2> DEFINE Paid(S, v, k) ==
                  \E e \in S : /\ IsNewestIn(e, Verdicts(S, stewards, v, e.issue))
                               /\ e.value = "paid" /\ e.keys = {k}
    <2>1. ASSUME NEW v, NEW k
          PROVE  Paid(Present(pledge_labels), v, k) <=> Paid(recorded, v, k)
        <3>1. \A i : \A e :
                 IsNewestIn(e, Verdicts(Present(pledge_labels), stewards, v, i))
                    <=> IsNewestIn(e, Verdicts(recorded, stewards, v, i))
            BY VerdictsAgree
        <3>2. \A S : \A e : IsNewestIn(e, Verdicts(S, stewards, v, e.issue)) => e \in S
            BY DEF IsNewestIn, Verdicts
        <3> QED
            BY <3>1, <3>2
    <2>2. \A S : SelectEarnedVouches(S, stewards)
                    = [v \in Pubkeys |-> {k \in Pubkeys \ {v} : Paid(S, v, k)}]
        BY DEF SelectEarnedVouches
    <2> HIDE DEF Paid
    <2> QED
        BY <2>1, <2>2
<1> QED
    BY <1>2, <1>3

\* Nothing the trust is derived from is a deletion request.
LEMMA TrustIgnoresRequests ==
    ASSUME NEW S, NothingRetracted(S), NEW stewards
    PROVE  /\ StewardsOf(LiveEvents(S), Boards) = StewardsOf(S, Boards)
           /\ \A kind \in {"vouch_set", "block_set"} :
                 SelectTrustSets(LiveEvents(S), kind) = SelectTrustSets(S, kind)
           /\ SelectEstablished(LiveEvents(S), stewards, now)
                 = SelectEstablished(S, stewards, now)
           /\ SelectEarnedVouches(LiveEvents(S), stewards)
                 = SelectEarnedVouches(S, stewards)
<1> DEFINE live == LiveEvents(S)
<1>1. live = {e \in S : e.kind # "deletion_request"}
    BY DEF NothingRetracted, LiveEvents
<1> HIDE DEF live
<1>2. \A b : AnnouncementsOf(live, b) = AnnouncementsOf(S, b)
    BY <1>1 DEF AnnouncementsOf
<1>3. \A kind \in {"vouch_set", "block_set"} : \A p :
         {e \in live : e.kind = kind /\ e.pubkey = p} = {e \in S : e.kind = kind /\ e.pubkey = p}
    BY <1>1
<1>4. \A k : Attestations(live, stewards, k) = Attestations(S, stewards, k)
    BY <1>1 DEF Attestations
<1>5. \A p, i : Verdicts(live, stewards, p, i) = Verdicts(S, stewards, p, i)
    BY <1>1 DEF Verdicts
<1>6. \A e, k : IsNewestIn(e, Attestations(S, stewards, k)) => (e \in live <=> e \in S)
    BY <1>1 DEF IsNewestIn, Attestations
<1>7. \A e, p, i : IsNewestIn(e, Verdicts(S, stewards, p, i)) => (e \in live <=> e \in S)
    BY <1>1 DEF IsNewestIn, Verdicts
<1>8. StewardsOf(live, Boards) = StewardsOf(S, Boards)
    BY <1>2 DEF StewardsOf
<1>9. \A kind \in {"vouch_set", "block_set"} :
         SelectTrustSets(live, kind) = SelectTrustSets(S, kind)
    <2> DEFINE Sets(T, kind) == [p \in Pubkeys |->
                                   Newest({e \in T : e.kind = kind /\ e.pubkey = p})]
    <2> SUFFICES ASSUME NEW kind \in {"vouch_set", "block_set"}
                 PROVE  Sets(live, kind) = Sets(S, kind)
        BY DEF SelectTrustSets
    <2>1. ASSUME NEW p \in Pubkeys
          PROVE  Newest({e \in live : e.kind = kind /\ e.pubkey = p})
                    = Newest({e \in S : e.kind = kind /\ e.pubkey = p})
        <3>1. {e \in live : e.kind = kind /\ e.pubkey = p}
                 = {e \in S : e.kind = kind /\ e.pubkey = p}
            BY <1>3
        <3> QED
            BY <3>1
    <2> QED
        BY <2>1
<1>10. SelectEstablished(live, stewards, now) = SelectEstablished(S, stewards, now)
    BY <1>4, <1>6 DEF SelectEstablished
<1>11. SelectEarnedVouches(live, stewards) = SelectEarnedVouches(S, stewards)
    BY <1>5, <1>7 DEF SelectEarnedVouches
<1> QED
    BY <1>8, <1>9, <1>10, <1>11 DEF live

\* The slots determine the trust: with nothing retracted it is the board's.
LEMMA SlotsGiveTrust ==
    ASSUME TypeOK, AllAdmissible, SlotsHoldNewest
    PROVE  TrustMatchesBoard
<1> SUFFICES ASSUME NothingRetracted(recorded)
             PROVE  Trust = TrustOf(recorded, Boards, now)
    BY DEF TrustMatchesBoard
<1>1. /\ StewardsOf(LiveEvents(recorded), Boards) = Stewards
      /\ SelectTrustSets(LiveEvents(recorded), "vouch_set") = vouch_sets
      /\ SelectTrustSets(LiveEvents(recorded), "block_set") = block_sets
    BY TrustIgnoresRequests, StewardsAgree, TrustSetsAgree
<1>2. /\ SelectEstablished(LiveEvents(recorded), Stewards, now)
            = SelectEstablished(Present(account_labels), Stewards, now)
      /\ SelectEarnedVouches(LiveEvents(recorded), Stewards)
            = SelectEarnedVouches(Present(pledge_labels), Stewards)
    BY TrustIgnoresRequests, SelectionsAgree
<1> QED
    BY <1>1, <1>2 DEF Trust, TrustOf

\* Both parts of the invariant hold of the state the policy starts in.
LEMMA InitInvariant == Init => AllAdmissible /\ SlotsHoldNewest
    BY EmptyHolds DEF Init, AllAdmissible

\* get_trust, seed_relay_policy_state and record_accepted_event: the policy
\* that keeps one event per slot judges writes by the trust that
\* build_task_board_state derives from every event the policy has recorded.
THEOREM PolicyDerivesTheBoardsTrust == Spec => []TrustMatchesBoard
<1> DEFINE Inv == TypeOK /\ AllAdmissible /\ SlotsHoldNewest
<1>1. Init => Inv
    BY InitTypeOK, InitInvariant
<1>2. Inv /\ [Next]_vars => Inv'
    BY NextTypeOK, AdmissionInvariant, SlotsInvariant
<1>3. Inv => TrustMatchesBoard
    BY SlotsGiveTrust
<1> QED
    BY <1>1, <1>2, <1>3, PTL DEF Spec

-----------------------------------------------------------------------------
(* What a restart brings back *)

Supersedes(g, f) == f.kind \in Replaceable /\ SameSlot(g, f) /\ IsNewer(g, f)

\* A is a part of B, and what B has more was replaced by something of A.
KeepsNewestOf(A, B) ==
    /\ A \subseteq B
    /\ \A f \in B : f \in A \/ \E g \in A : Supersedes(g, f)

BoardIssues(S) == {e \in S : e.kind = "issue" /\ e.a # <<>> /\ Head(e.a) \in Boards}

\* The known keys and issues are those of what was recorded.
KnownAreRecorded ==
    /\ board_pubkeys = {e.pubkey : e \in recorded}
    /\ issue_ids = {e.id : e \in BoardIssues(recorded)}

\* strfry has the newest of whatever it committed.  The policy replays what it
\* has, and from then on records all that is queued.
SeedingOK == phase = "seeding" => queued = {} /\ recorded \cup to_seed = stored

ServingOK ==
    LET held == committed \cup queued
    IN  phase = "serving" /\ NoDeletion(held) => KeepsNewestOf(recorded, held)

StoredOK ==
    /\ stored \subseteq committed
    /\ NoDeletion(committed) => KeepsNewestOf(stored, committed)

RestartInv == KnownAreRecorded /\ StoredOK /\ SeedingOK /\ ServingOK

\* SameSlot is an equivalence, and within it the order is that of events.
LEMMA SupersedesTransitive ==
    ASSUME NEW e \in Events, NEW f \in Events, NEW g \in Events,
           Supersedes(e, f), Supersedes(f, g)
    PROVE  Supersedes(e, g)
    BY NewerTransitive DEF Supersedes, SameSlot

LEMMA KeepsReflexive == ASSUME NEW A PROVE KeepsNewestOf(A, A)
    BY DEF KeepsNewestOf

LEMMA KeepsWithOneMore ==
    ASSUME NEW A, NEW B, KeepsNewestOf(A, B), NEW e
    PROVE  KeepsNewestOf(A \cup {e}, B \cup {e})
    BY DEF KeepsNewestOf

\* strfry's write drops only what the written event replaces, or the event
\* itself for one that replaces it, as long as it has no deletion request.
LEMMA StoreKeepsNewest ==
    ASSUME NEW B \in SUBSET Events, NEW A, KeepsNewestOf(A, B), NEW e \in Events,
           NoDeletion(B \cup {e})
    PROVE  KeepsNewestOf(Store(A, e), B \cup {e})
<1> DEFINE after == Store(A, e)
           rivals == {f \in A : SameSlot(f, e)}
<1>1. A \subseteq B /\ A \subseteq Events
    BY DEF KeepsNewestOf
<1>2. after = IF e.kind \notin Replaceable THEN A \cup {e}
              ELSE IF \E f \in rivals : IsNewer(f, e) THEN A ELSE (A \ rivals) \cup {e}
    BY <1>1 DEF Store, NoDeletion
<1> HIDE DEF after
<1>3. CASE e.kind \notin Replaceable
    BY <1>2, <1>3, KeepsWithOneMore DEF after
<1>4. CASE e.kind \in Replaceable /\ \E f \in rivals : IsNewer(f, e)
    <2>1. after = A /\ \E f \in A : Supersedes(f, e)
        BY <1>2, <1>4 DEF Supersedes
    <2> QED
        BY <2>1, <1>1 DEF KeepsNewestOf, after
<1>5. CASE e.kind \in Replaceable /\ \A f \in rivals : ~ IsNewer(f, e)
    <2>1. after = (A \ rivals) \cup {e}
        BY <1>2, <1>5
    <2>2. ASSUME NEW f \in rivals PROVE f = e \/ Supersedes(e, f)
        BY <1>1, <1>5, NewerTotal DEF Supersedes, SameSlot
    <2>3. ASSUME NEW f \in B PROVE f \in after \/ \E g \in after : Supersedes(g, f)
        <3>1. CASE f \in A
            BY <2>1, <2>2, <3>1
        <3>2. CASE f \notin A
            <4>1. PICK g \in A : Supersedes(g, f)
                BY <3>2 DEF KeepsNewestOf
            <4>2. CASE g \in rivals
                BY <1>1, <2>1, <2>2, <4>1, <4>2, SupersedesTransitive
            <4>3. CASE g \notin rivals
                BY <2>1, <4>1, <4>3
            <4> QED
                BY <4>2, <4>3
        <3> QED
            BY <3>1, <3>2
    <2>4. after \subseteq B \cup {e} /\ e \in after
        BY <1>1, <2>1
    <2> HIDE DEF rivals
    <2> QED
        BY <2>3, <2>4 DEF KeepsNewestOf, after
<1> QED
    BY <1>3, <1>4, <1>5

\* record_accepted_event takes up the event's key, and its id if it is an
\* issue of a board.
LEMMA RecordKnows ==
    ASSUME KnownAreRecorded, NEW e, Record(e) PROVE KnownAreRecorded'
<1>1. BoardIssues(recorded \cup {e}) =
          IF e.kind = "issue" /\ e.a # <<>> /\ Head(e.a) \in Boards
          THEN BoardIssues(recorded) \cup {e} ELSE BoardIssues(recorded)
    BY DEF BoardIssues
<1>2. /\ recorded' = recorded \cup {e} /\ board_pubkeys' = board_pubkeys \cup {e.pubkey}
      /\ issue_ids' = IF e.kind = "issue" /\ e.a # <<>> /\ Head(e.a) \in Boards
                      THEN issue_ids \cup {e.id} ELSE issue_ids
    BY DEF Record
<1>3. BoardIssues(recorded)' = BoardIssues(recorded')
    BY DEF BoardIssues
<1> QED
    BY <1>1, <1>2, <1>3 DEF KnownAreRecorded

LEMMA RestartInit == Init => RestartInv
    BY DEF Init, RestartInv, KnownAreRecorded, BoardIssues, StoredOK, SeedingOK, ServingOK,
       KeepsNewestOf

\* Steps that accept an event record and queue it.
LEMMA AcceptRemembers ==
    ASSUME TypeOK, RestartInv, NEW e \in Events, phase = "serving", Accept(e)
    PROVE  RestartInv'
<1>1. KnownAreRecorded'
    BY RecordKnows DEF Accept, RestartInv
<1>2. /\ UNCHANGED <<stored, committed, phase>>
      /\ queued' = queued \cup {e} /\ recorded' = recorded \cup {e}
    BY DEF Accept, Record
<1>3. StoredOK' /\ SeedingOK'
    BY <1>2 DEF RestartInv, StoredOK, SeedingOK, KeepsNewestOf
<1>4. ServingOK'
    <2> DEFINE held == committed \cup queued
    <2> SUFFICES ASSUME NoDeletion(held \cup {e})
                 PROVE  KeepsNewestOf(recorded \cup {e}, held \cup {e})
        <3>1. (committed \cup queued)' = held \cup {e}
            BY <1>2
        <3> QED
            BY <1>2, <3>1 DEF ServingOK, KeepsNewestOf, NoDeletion
    <2>1. KeepsNewestOf(recorded, held)
        BY DEF NoDeletion, RestartInv, ServingOK
    <2> QED
        BY <2>1, KeepsWithOneMore
<1> QED
    BY <1>1, <1>3, <1>4 DEF RestartInv

\* Replaying the scan moves an event from what is left of it to what is
\* recorded; at its end the policy has recorded what strfry stored.
LEMMA SeedingRemembers ==
    ASSUME RestartInv, (\E e \in Events : SeedEvent(e)) \/ FinishSeeding
    PROVE  RestartInv'
<1>1. ASSUME NEW e \in Events, SeedEvent(e) PROVE RestartInv'
    <2>1. KnownAreRecorded'
        BY <1>1, RecordKnows DEF SeedEvent, RestartInv
    <2>2. /\ UNCHANGED <<stored, committed, queued, phase>> /\ phase = "seeding"
          /\ recorded' = recorded \cup {e} /\ to_seed' = to_seed \ {e} /\ e \in to_seed
        BY <1>1 DEF SeedEvent, Record, strfry
    <2> QED
        BY <2>1, <2>2 DEF RestartInv, StoredOK, SeedingOK, ServingOK, KeepsNewestOf
<1>2. ASSUME FinishSeeding PROVE RestartInv'
    <2>1. /\ UNCHANGED <<memory, stored, committed, queued, recorded>>
          /\ queued = {} /\ recorded = stored /\ phase' = "serving"
        BY <1>2 DEF FinishSeeding, strfry, history, RestartInv, SeedingOK
    <2>2. KnownAreRecorded' /\ StoredOK' /\ SeedingOK'
        BY <2>1 DEF RestartInv, KnownAreRecorded, BoardIssues, memory, StoredOK, SeedingOK,
           KeepsNewestOf
    <2>3. ServingOK'
        BY <2>1 DEF RestartInv, StoredOK, ServingOK, KeepsNewestOf
    <2> QED
        BY <2>2, <2>3 DEF RestartInv
<1> QED
    BY <1>1, <1>2

\* strfry commits one event of its queue.
LEMMA CommitRemembers ==
    ASSUME TypeOK, RestartInv, NEW e \in Events, Commit(e) PROVE RestartInv'
<1>1. /\ UNCHANGED <<memory, phase, to_seed, recorded>>
      /\ stored' = Store(stored, e) /\ queued' = queued \ {e} /\ e \in queued
      /\ committed' = committed \cup {e}
    BY DEF Commit
<1>2. KnownAreRecorded'
    BY <1>1 DEF RestartInv, KnownAreRecorded, BoardIssues, memory
<1>3. stored \in SUBSET Events /\ committed \in SUBSET Events
    BY DEF TypeOK
<1>4. StoredOK'
    <2>1. Store(stored, e) \subseteq stored \cup {e}
        BY <1>3, StoreType
    <2>2. NoDeletion(committed \cup {e})
             => KeepsNewestOf(Store(stored, e), committed \cup {e})
        BY <1>3, StoreKeepsNewest DEF RestartInv, StoredOK, NoDeletion
    <2> QED
        BY <1>1, <2>1, <2>2 DEF RestartInv, StoredOK, KeepsNewestOf
<1>5. SeedingOK'
    BY <1>1 DEF RestartInv, SeedingOK
<1>6. ServingOK'
    <2>1. (committed \cup queued)' = committed \cup queued
        BY <1>1
    <2> QED
        BY <1>1, <2>1 DEF RestartInv, ServingOK, KeepsNewestOf, NoDeletion
<1> QED
    BY <1>2, <1>4, <1>5, <1>6 DEF RestartInv

\* strfry dies with its plugin: nothing is recorded until its database is
\* replayed.
LEMMA CrashRemembers == ASSUME RestartInv, Restart PROVE RestartInv'
    BY DEF Restart, RestartInv, KnownAreRecorded, BoardIssues, StoredOK, SeedingOK, ServingOK,
       KeepsNewestOf, NoDeletion

\* Whatever happens, the policy records what covers all the relay holds.
LEMMA RestartInvariant == TypeOK /\ RestartInv /\ [Next]_vars => RestartInv'
<1> SUFFICES ASSUME TypeOK, RestartInv, [Next]_vars PROVE RestartInv'
    OBVIOUS
<1>1. ASSUME UNCHANGED <<phase, to_seed, memory, strfry, recorded, committed>>
      PROVE  RestartInv'
    BY <1>1 DEF RestartInv, KnownAreRecorded, BoardIssues, StoredOK, SeedingOK, ServingOK,
       KeepsNewestOf, NoDeletion, memory, strfry
<1>2. ASSUME NEW e \in Events, NEW ip \in Ips, AcceptFromClient(e, ip) PROVE RestartInv'
    BY <1>2, AcceptRemembers DEF AcceptFromClient
<1>3. ASSUME NEW e \in Events, AcceptFromOperator(e) PROVE RestartInv'
    BY <1>3, AcceptRemembers DEF AcceptFromOperator
<1>4. ASSUME NEW e \in Events, NEW ip \in Ips, RefuseSlowDown(e, ip) PROVE RestartInv'
    BY <1>1, <1>4 DEF RefuseSlowDown, history
<1>5. ASSUME NEW e \in Events, RefuseByQuota(e) PROVE RestartInv'
    BY <1>1, <1>5 DEF RefuseByQuota
<1>6. ASSUME PruneRateWindows \/ Tick \/ UNCHANGED vars PROVE RestartInv'
    BY <1>1, <1>6 DEF PruneRateWindows, Tick, vars, history
<1> QED
    BY <1>2, <1>3, <1>4, <1>5, <1>6, SeedingRemembers, CommitRemembers, CrashRemembers DEF Next

\* What replaced an event is found wherever the event was: the newest of a slot
\* is the same in what the policy recorded as in all the relay holds.
LEMMA HeldHasTheNewest ==
    ASSUME NEW B \in SUBSET Events, NEW A \in SUBSET B, NEW x, HoldsNewest(x, A),
           \A f \in B : f \in A \/ \E g \in A : IsNewer(g, f)
    PROVE  x = Newest(B)
<1>1. \A e : IsNewestIn(e, A) <=> IsNewestIn(e, B)
    BY SameNewest
<1>2. A = {} <=> B = {}
    OBVIOUS
<1>3. HoldsNewest(x, B)
    BY <1>1, <1>2 DEF HoldsNewest
<1> QED
    BY <1>3, HoldsNewestIsNewest

\* Stewards and trust sets are read from replaceable events, attestations and
\* verdicts from events strfry never drops.
LEMMA HeldGivesTheSame ==
    ASSUME TypeOK, AllAdmissible, SlotsHoldNewest, NEW held \in SUBSET Events,
           KeepsNewestOf(recorded, held), NoDeletion(held), NEW stewards
    PROVE  /\ StewardsOf(held, Boards) = StewardsOf(recorded, Boards)
           /\ SelectTrustSets(held, "vouch_set") = SelectTrustSets(recorded, "vouch_set")
           /\ SelectTrustSets(held, "block_set") = SelectTrustSets(recorded, "block_set")
           /\ SelectEstablished(held, stewards, now)
                = SelectEstablished(recorded, stewards, now)
           /\ SelectEarnedVouches(held, stewards) = SelectEarnedVouches(recorded, stewards)
<1>1. recorded \subseteq held /\ recorded \in SUBSET Events
    BY DEF KeepsNewestOf
<1>2. ASSUME NEW b \in Boards
      PROVE  Newest(AnnouncementsOf(held, b)) = Newest(AnnouncementsOf(recorded, b))
    <2> DEFINE A == AnnouncementsOf(recorded, b)
               B == AnnouncementsOf(held, b)
    <2>1. A = OfBoard(recorded, b)
        BY DEF AnnouncementsOf, OfBoard, AllAdmissible, Admissible
    <2>2. HoldsNewest(announcements[b], A)
        BY <2>1 DEF SlotsHoldNewest
    <2>3. B \in SUBSET Events /\ A \in SUBSET B
        BY <1>1 DEF AnnouncementsOf
    <2>4. \A f \in B : f \in A \/ \E g \in A : IsNewer(g, f)
        BY DEF AnnouncementsOf, KeepsNewestOf, Supersedes, SameSlot
    <2>5. A \in SUBSET Events
        BY <2>3
    <2> HIDE DEF A, B
    <2>6. announcements[b] = Newest(A) /\ announcements[b] = Newest(B)
        BY <2>2, <2>3, <2>4, <2>5, HeldHasTheNewest, HoldsNewestIsNewest
    <2> QED
        BY <2>6 DEF A, B
<1>3. StewardsOf(held, Boards) = StewardsOf(recorded, Boards)
    BY <1>2 DEF StewardsOf
<1>4. ASSUME NEW kind \in {"vouch_set", "block_set"}, NEW p \in Pubkeys, NEW x,
             HoldsNewest(x, OfKey(recorded, kind, p))
      PROVE  Newest(OfKey(held, kind, p)) = Newest(OfKey(recorded, kind, p))
    <2> DEFINE A == OfKey(recorded, kind, p)
               B == OfKey(held, kind, p)
    <2>1. B \in SUBSET Events /\ A \in SUBSET B /\ A \in SUBSET Events
        BY <1>1 DEF OfKey
    <2>2. \A f \in B : f \in A \/ \E g \in A : IsNewer(g, f)
        BY DEF OfKey, KeepsNewestOf, Supersedes, SameSlot
    <2>3. HoldsNewest(x, A)
        BY <1>4
    <2> HIDE DEF A, B
    <2>4. x = Newest(A) /\ x = Newest(B)
        BY <2>1, <2>2, <2>3, HeldHasTheNewest, HoldsNewestIsNewest
    <2> QED
        BY <2>4 DEF A, B
<1>5. /\ SelectTrustSets(held, "vouch_set") = SelectTrustSets(recorded, "vouch_set")
      /\ SelectTrustSets(held, "block_set") = SelectTrustSets(recorded, "block_set")
    <2>1. \A p \in Pubkeys :
             /\ Newest(OfKey(held, "vouch_set", p)) = Newest(OfKey(recorded, "vouch_set", p))
             /\ Newest(OfKey(held, "block_set", p)) = Newest(OfKey(recorded, "block_set", p))
        BY <1>4 DEF SlotsHoldNewest
    <2>2. \A S, kind : SelectTrustSets(S, kind) = [p \in Pubkeys |-> Newest(OfKey(S, kind, p))]
        BY DEF SelectTrustSets, OfKey
    <2> QED
        BY <2>1, <2>2
<1>6. \A e \in held : e.kind \notin Replaceable => e \in recorded
    BY DEF KeepsNewestOf, Supersedes
<1>7. \A k : Attestations(held, stewards, k) = Attestations(recorded, stewards, k)
    BY <1>1, <1>6 DEF Attestations, Replaceable
<1>8. \A p, i : Verdicts(held, stewards, p, i) = Verdicts(recorded, stewards, p, i)
    BY <1>1, <1>6 DEF Verdicts, Replaceable
<1>9. \A e, k : IsNewestIn(e, Attestations(recorded, stewards, k))
                   => e \in recorded /\ e \in held
    BY <1>1 DEF IsNewestIn, Attestations
<1>10. \A e, p, i : IsNewestIn(e, Verdicts(recorded, stewards, p, i))
                   => e \in recorded /\ e \in held
    BY <1>1 DEF IsNewestIn, Verdicts
<1>11. SelectEstablished(held, stewards, now) = SelectEstablished(recorded, stewards, now)
    BY <1>7, <1>9 DEF SelectEstablished
<1>12. SelectEarnedVouches(held, stewards) = SelectEarnedVouches(recorded, stewards)
    BY <1>8, <1>10 DEF SelectEarnedVouches
<1> QED
    BY <1>3, <1>5, <1>11, <1>12

\* With no deletion request, every event is live and none is taken back.
LEMMA NothingTakenBack ==
    ASSUME NEW S, NoDeletion(S) PROVE LiveEvents(S) = S /\ NothingRetracted(S)
    BY DEF NoDeletion, LiveEvents, NothingRetracted

\* What the policy has recorded gives it the trust, issues and keys of all that
\* was ever committed or is queued.
LEMMA RecordedIsEnough ==
    ASSUME TypeOK, AllAdmissible, SlotsHoldNewest, RestartInv
    PROVE  RestartForgetsNothing
<1> DEFINE held == committed \cup queued
<1> SUFFICES ASSUME phase = "serving", NoDeletion(held)
             PROVE  /\ Trust = TrustOf(held, Boards, now)
                    /\ issue_ids = {e.id : e \in {f \in held : /\ f.kind = "issue"
                                                              /\ Head(f.a) \in Boards}}
                    /\ board_pubkeys = {e.pubkey : e \in held}
    BY DEF RestartForgetsNothing
<1>1. KeepsNewestOf(recorded, held) /\ held \in SUBSET Events
    BY DEF RestartInv, ServingOK, TypeOK
<1>2. recorded \subseteq held /\ NoDeletion(recorded)
    BY <1>1 DEF KeepsNewestOf, NoDeletion
<1> HIDE DEF held
<1>3. Trust = TrustOf(held, Boards, now)
    <2>1. Trust = TrustOf(recorded, Boards, now)
        BY <1>2, SlotsGiveTrust, NothingTakenBack DEF TrustMatchesBoard
    <2>2. LiveEvents(held) = held /\ LiveEvents(recorded) = recorded
        BY <1>2, NothingTakenBack
    <2>3. \A stewards :
             /\ StewardsOf(held, Boards) = StewardsOf(recorded, Boards)
             /\ SelectTrustSets(held, "vouch_set") = SelectTrustSets(recorded, "vouch_set")
             /\ SelectTrustSets(held, "block_set") = SelectTrustSets(recorded, "block_set")
             /\ SelectEstablished(held, stewards, now)
                  = SelectEstablished(recorded, stewards, now)
             /\ SelectEarnedVouches(held, stewards) = SelectEarnedVouches(recorded, stewards)
        BY <1>1, HeldGivesTheSame
    <2> QED
        BY <2>1, <2>2, <2>3 DEF TrustOf
<1>4. \A e \in held : e.kind = "issue" => e \in recorded
    BY <1>1 DEF KeepsNewestOf, Supersedes, Replaceable
<1>5. {f \in held : f.kind = "issue" /\ Head(f.a) \in Boards} = BoardIssues(recorded)
    <2>1. \A e \in recorded : e.kind = "issue" => e.a # <<>>
        BY DEF AllAdmissible, Admissible, HasBoardAddress
    <2> QED
        BY <1>2, <1>4, <2>1 DEF BoardIssues
<1>6. board_pubkeys = {e.pubkey : e \in held}
    BY <1>1 DEF RestartInv, KnownAreRecorded, KeepsNewestOf, Supersedes, SameSlot
<1> QED
    BY <1>3, <1>5, <1>6 DEF RestartInv, KnownAreRecorded

\* seed_relay_policy_state: whatever strfry dropped for something newer and
\* whatever was queued when it died, a policy that serves has the trust, the
\* issues and the keys of all the relay ever committed and still has queued.
THEOREM RestartsForgetNothing == Spec => []RestartForgetsNothing
<1> DEFINE Inv == TypeOK /\ AllAdmissible /\ SlotsHoldNewest /\ RestartInv
<1>1. Init => Inv
    BY InitTypeOK, InitInvariant, RestartInit
<1>2. Inv /\ [Next]_vars => Inv'
    BY NextTypeOK, AdmissionInvariant, SlotsInvariant, RestartInvariant
<1>3. Inv => RestartForgetsNothing
    BY RecordedIsEnough
<1> QED
    BY <1>1, <1>2, <1>3, PTL DEF Spec

-----------------------------------------------------------------------------
(* What the relay's readers derive *)

\* Every part of S has a newest event.
HasNewest(S) == \A T \in SUBSET S : T # {} => \E e \in T : IsNewestIn(e, T)

LEMMA OneMoreHasNewest ==
    ASSUME NEW S \in SUBSET Events, HasNewest(S), NEW e \in Events
    PROVE  HasNewest(S \cup {e})
<1> SUFFICES ASSUME NEW T \in SUBSET (S \cup {e}), T # {}
             PROVE  \E x \in T : IsNewestIn(x, T)
    BY DEF HasNewest
<1>1. CASE T \ {e} = {}
    BY <1>1 DEF IsNewestIn
<1>2. CASE T \ {e} # {}
    <2>1. PICK x \in T \ {e} : IsNewestIn(x, T \ {e})
        BY <1>2 DEF HasNewest
    <2>2. CASE e \notin T \/ IsNewer(x, e)
        BY <2>1, <2>2 DEF IsNewestIn
    <2>3. CASE e \in T /\ ~ IsNewer(x, e)
        <3>1. IsNewer(e, x)
            BY <2>1, <2>3, NewerTotal
        <3>2. \A f \in T : f = e \/ IsNewer(e, f)
            BY <2>1, <3>1, NewerTransitive DEF IsNewestIn
        <3> QED
            BY <2>3, <3>2 DEF IsNewestIn
    <2> QED
        BY <2>2, <2>3
<1> QED
    BY <1>1, <1>2

\* A part that has a newer event for each it lacks has the same newest one.
LEMMA PartHasTheNewest ==
    ASSUME NEW B \in SUBSET Events, NEW A \in SUBSET B, HasNewest(B),
           \A f \in B : f \in A \/ \E g \in A : IsNewer(g, f)
    PROVE  Newest(A) = Newest(B)
<1>1. CASE B = {}
    BY <1>1
<1>2. CASE B # {}
    <2>1. PICK e \in B : IsNewestIn(e, B)
        BY <1>2 DEF HasNewest
    <2>2. IsNewestIn(e, A)
        BY <2>1, SameNewest
    <2>3. HoldsNewest(e, A)
        BY <2>2 DEF HoldsNewest, IsNewestIn
    <2> QED
        BY <2>3, HeldHasTheNewest, HoldsNewestIsNewest
<1> QED
    BY <1>1, <1>2

LEMMA PartsHaveNewest ==
    ASSUME NEW B, HasNewest(B), NEW A \in SUBSET B
    PROVE  HasNewest(A)
    BY DEF HasNewest

\* What strfry dropped was read by nothing that a newer event does not tell.
LEMMA NothingToMiss ==
    ASSUME NEW B \in SUBSET Events, NEW A, KeepsNewestOf(A, B), NoDeletion(B), HasNewest(B),
           NEW boards, NEW n
    PROVE  TrustOf(A, boards, n) = TrustOf(B, boards, n)
<1>1. A \subseteq B /\ NoDeletion(A)
    BY DEF KeepsNewestOf, NoDeletion
<1>2. LiveEvents(A) = A /\ LiveEvents(B) = B
    BY <1>1, NothingTakenBack
<1>3. \A f \in B : f \in A \/ \E g \in A : /\ f.kind \in Replaceable /\ SameSlot(g, f)
                                           /\ IsNewer(g, f)
    BY DEF KeepsNewestOf, Supersedes
<1>4. ASSUME NEW b
      PROVE  Newest(AnnouncementsOf(A, b)) = Newest(AnnouncementsOf(B, b))
    <2>1. /\ AnnouncementsOf(B, b) \in SUBSET Events
          /\ AnnouncementsOf(A, b) \in SUBSET AnnouncementsOf(B, b)
          /\ AnnouncementsOf(B, b) \in SUBSET B
        BY <1>1 DEF AnnouncementsOf
    <2>2. \A f \in AnnouncementsOf(B, b) :
             f \in AnnouncementsOf(A, b) \/ \E g \in AnnouncementsOf(A, b) : IsNewer(g, f)
        BY <1>3 DEF AnnouncementsOf, SameSlot
    <2>3. HasNewest(AnnouncementsOf(B, b))
        BY <2>1, PartsHaveNewest
    <2> QED
        BY <2>1, <2>2, <2>3, PartHasTheNewest
<1>5. StewardsOf(A, boards) = StewardsOf(B, boards)
    BY <1>4 DEF StewardsOf
<1>6. ASSUME NEW kind, NEW p
      PROVE  Newest(OfKey(A, kind, p)) = Newest(OfKey(B, kind, p))
    <2>1. /\ OfKey(B, kind, p) \in SUBSET Events /\ OfKey(A, kind, p) \in SUBSET OfKey(B, kind, p)
          /\ OfKey(B, kind, p) \in SUBSET B
        BY <1>1 DEF OfKey
    <2>2. \A f \in OfKey(B, kind, p) :
             f \in OfKey(A, kind, p) \/ \E g \in OfKey(A, kind, p) : IsNewer(g, f)
        BY <1>3 DEF OfKey, SameSlot
    <2>3. HasNewest(OfKey(B, kind, p))
        BY <2>1, PartsHaveNewest
    <2> QED
        BY <2>1, <2>2, <2>3, PartHasTheNewest
<1>7. \A kind : SelectTrustSets(A, kind) = SelectTrustSets(B, kind)
    <2>1. \A S, kind : SelectTrustSets(S, kind) = [p \in Pubkeys |-> Newest(OfKey(S, kind, p))]
        BY DEF SelectTrustSets, OfKey
    <2> QED
        BY <1>6, <2>1
<1>8. \A e \in B : e.kind \notin Replaceable => e \in A
    BY <1>3
<1>9. ASSUME NEW stewards
      PROVE  /\ SelectEstablished(A, stewards, n) = SelectEstablished(B, stewards, n)
             /\ SelectEarnedVouches(A, stewards) = SelectEarnedVouches(B, stewards)
    <2>1. \A k : Attestations(A, stewards, k) = Attestations(B, stewards, k)
        BY <1>1, <1>8 DEF Attestations, Replaceable
    <2>2. \A p, i : Verdicts(A, stewards, p, i) = Verdicts(B, stewards, p, i)
        BY <1>1, <1>8 DEF Verdicts, Replaceable
    <2>3. \A e, k : IsNewestIn(e, Attestations(A, stewards, k)) => e \in A /\ e \in B
        BY <1>1 DEF IsNewestIn, Attestations
    <2>4. \A e, p, i : IsNewestIn(e, Verdicts(A, stewards, p, i)) => e \in A /\ e \in B
        BY <1>1 DEF IsNewestIn, Verdicts
    <2>5. SelectEstablished(A, stewards, n) = SelectEstablished(B, stewards, n)
        BY <2>1, <2>3 DEF SelectEstablished
    <2>6. SelectEarnedVouches(A, stewards) = SelectEarnedVouches(B, stewards)
        BY <2>2, <2>4 DEF SelectEarnedVouches
    <2> QED
        BY <2>5, <2>6
<1> QED
    BY <1>2, <1>5, <1>7, <1>9 DEF TrustOf

\* A client that reads the relay late, when newer events have replaced others,
\* derives the trust of all there ever was, for whichever boards it asks.
ReadersMissNothing ==
    NoDeletion(committed) =>
        \A boards \in SUBSET Boards :
            TrustOf(stored, boards, now) = TrustOf(committed, boards, now)

\* A policy that serves, with nothing left to commit, judges writes by the
\* trust its readers derive.
ReadersAgreeWithThePolicy ==
    phase = "serving" /\ queued = {} /\ NoDeletion(committed) =>
        Trust = TrustOf(stored, Boards, now)

LEMMA CommittedHasNewest ==
    ASSUME TypeOK, HasNewest(committed), [Next]_vars
    PROVE  HasNewest(committed)'
<1>1. committed' = committed \/ \E e \in Events : committed' = committed \cup {e}
    BY DEF Next, SeedEvent, Accept, AcceptFromOperator, AcceptFromClient, RefuseByQuota,
           RefuseSlowDown, PruneRateWindows, FinishSeeding, Commit, Restart, Tick, vars, history
<1>2. committed \in SUBSET Events
    BY DEF TypeOK
<1> QED
    BY <1>1, <1>2, OneMoreHasNewest DEF HasNewest

\* The relay and the board clients that read it: strfry drops what newer events
\* replaced, loses its queue and starts over, and readers still derive the trust
\* of all it ever committed, which is the policy's once nothing is queued.
THEOREM ReadersDeriveTheSame == Spec => [](ReadersMissNothing /\ ReadersAgreeWithThePolicy)
<1> DEFINE Inv == /\ TypeOK /\ AllAdmissible /\ SlotsHoldNewest /\ RestartInv
                  /\ HasNewest(committed)
<1>1. Init => Inv
    BY InitTypeOK, InitInvariant, RestartInit DEF Init, HasNewest
<1>2. Inv /\ [Next]_vars => Inv'
    BY NextTypeOK, AdmissionInvariant, SlotsInvariant, RestartInvariant, CommittedHasNewest
<1>3. Inv => ReadersMissNothing /\ ReadersAgreeWithThePolicy
    <2> SUFFICES ASSUME Inv, NoDeletion(committed)
                 PROVE  /\ \A boards \in SUBSET Boards :
                             TrustOf(stored, boards, now) = TrustOf(committed, boards, now)
                        /\ phase = "serving" /\ queued = {} =>
                             Trust = TrustOf(stored, Boards, now)
        BY DEF ReadersMissNothing, ReadersAgreeWithThePolicy
    <2>1. committed \in SUBSET Events /\ KeepsNewestOf(stored, committed)
        BY DEF TypeOK, RestartInv, StoredOK
    <2>2. \A boards : TrustOf(stored, boards, now) = TrustOf(committed, boards, now)
        BY <2>1, NothingToMiss
    <2>3. queued = {} => committed \cup queued = committed
        OBVIOUS
    <2>4. RestartForgetsNothing
        BY RecordedIsEnough
    <2>5. phase = "serving" /\ queued = {} => Trust = TrustOf(committed, Boards, now)
        BY <2>3, <2>4 DEF RestartForgetsNothing
    <2> QED
        BY <2>2, <2>5
<1> QED
    BY <1>1, <1>2, <1>3, PTL DEF Spec

-----------------------------------------------------------------------------
(* Nobody gives itself standing *)

\* An event that changes what the trust is read from was signed by a key that
\* has standing already; any other leaves the trust as it was.
LEMMA AcceptedAndStanding ==
    ASSUME NEW e \in Events, KindRules(e), Record(e), UNCHANGED now
    PROVE  HasStanding(Trust, e.pubkey) \/ Trust' = Trust
<1>1. Trust.stewards = Stewards
    BY DEF Trust, BuildTrustGraph
<1>2. CASE e.kind = "announcement"
    BY <1>1, <1>2 DEF KindRules, OwnerAnnounces, Stewards, HasStanding, StatusKinds, LabelKinds
<1>3. CASE e.kind = "vouch_set"
    <2>1. IsVoucher(Trust, e.pubkey)
        BY <1>3 DEF KindRules, StatusKinds, LabelKinds
    <2>2. Trust.step1 \subseteq Trust.trusted
        BY DEF Trust, BuildTrustGraph
    <2> QED
        BY <2>1, <2>2 DEF IsVoucher, HasStanding
<1>4. CASE e.kind \in {"block_set", "account_attestation", "pledge_attestation"}
    <2>1. e.pubkey \in Stewards
        BY <1>4 DEF KindRules, StatusKinds, LabelKinds
    <2> QED
        BY <1>1, <2>1 DEF HasStanding
<1>5. CASE e.kind \notin {"announcement", "vouch_set", "block_set", "account_attestation",
                          "pledge_attestation"}
    <2>1. UNCHANGED <<announcements, vouch_sets, block_sets, account_labels, pledge_labels, now>>
        BY <1>5 DEF Record, SlotUpdate
    <2>2. Stewards' = Stewards
        BY <2>1 DEF Stewards
    <2> QED
        BY <2>1, <2>2 DEF Trust, Present
<1> QED
    BY <1>2, <1>3, <1>4, <1>5

\* check_kind_rules: while the policy serves, no write it accepts gives the key
\* that signed it a standing it did not have.
THEOREM NoneStandsByItsOwnWord == Spec => StandingIsNeverSelfGranted
<1> DEFINE Fair == phase = "serving" =>
                     \A e \in recorded' \ recorded :
                        HasStanding(Trust, e.pubkey) \/ ~ HasStanding(Trust, e.pubkey)'
<1>1. ASSUME NEW e \in Events, KindRules(e), Record(e), UNCHANGED now PROVE Fair
    <2>1. \A f \in recorded' \ recorded : f = e
        BY <1>1 DEF Record
    <2> QED
        BY <1>1, <2>1, AcceptedAndStanding DEF HasStanding
<1>2. ASSUME recorded' \subseteq recorded \/ phase # "serving" PROVE Fair
    BY <1>2
<1>3. ASSUME NEW e \in Events, SeedEvent(e) \/ RefuseByQuota(e) \/ Commit(e) PROVE Fair
    BY <1>2, <1>3 DEF SeedEvent, RefuseByQuota, Commit
<1>4. ASSUME NEW e \in Events, NEW ip \in Ips, RefuseSlowDown(e, ip) PROVE Fair
    BY <1>2, <1>4 DEF RefuseSlowDown, history
<1>5. ASSUME NEW e \in Events, NEW ip \in Ips, AcceptFromClient(e, ip) PROVE Fair
    BY <1>1, <1>5 DEF AcceptFromClient, Accept
<1>6. ASSUME NEW e \in Events, AcceptFromOperator(e) PROVE Fair
    BY <1>1, <1>6 DEF AcceptFromOperator, Accept
<1>7. ASSUME FinishSeeding \/ PruneRateWindows \/ Restart \/ Tick \/ UNCHANGED vars PROVE Fair
    BY <1>2, <1>7 DEF FinishSeeding, PruneRateWindows, Restart, Tick, vars, history
<1> HIDE DEF Fair
<1>8. [Next]_vars => [Fair]_vars
    BY <1>3, <1>4, <1>5, <1>6, <1>7 DEF Next
<1> QED
    <2>1. Spec => [][Fair]_vars
        BY <1>8, PTL DEF Spec
    <2> QED
        BY <2>1, PTL DEF StandingIsNeverSelfGranted, Fair
=============================================================================
