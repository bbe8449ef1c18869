-------------------------- MODULE NetworkData_proofs -------------------------
(***************************************************************************)
(* Proofs about the jobs MCNetworkData runs: the feed of network events,   *)
(* the archive, the attribution of nodes and the site's events.            *)
(*                                                                         *)
(* The feed of network events implements EventFeed, and the changes it     *)
(* tells of a representative are a chain, whatever snapshots are missing   *)
(* or late, whichever runs die and however many windows one catches up.    *)
(* Both rest on when events are dated: a window starts no earlier than the *)
(* windows before it, and at most two of the full ones start together.  So *)
(* what a window has to tell is newer than all that was told, but for what *)
(* the window just before it told, and that is still so.                   *)
(***************************************************************************)
EXTENDS MCNetworkData, WellFoundedInduction, TLAPS

-----------------------------------------------------------------------------
(* What is told, among the events E, of one condition and of one field *)

ToldKeys(E, a, type, phase) ==
    {e.key : e \in {x \in E : x.account = a /\ x.type = type /\ x.phase = phase}}

\* The last word is that the condition is open under this key, or is not.
AgreesWith(E, a, type, key) ==
    /\ ToldKeys(E, a, type, "ended") \subseteq ToldKeys(E, a, type, "began")
    /\ ToldKeys(E, a, type, "began") \ ToldKeys(E, a, type, "ended") = {key} \ {Null}

\* The last start of a window ending at t.
LastStart(t) == t - Settle + 2

\* No condition began later than the last start, and if then, it is open.
BeganBefore(E, a, type, key, t) ==
    \A k \in ToldKeys(E, a, type, "began") :
        /\ k.at \in Int /\ k.at <= LastStart(t)
        /\ k.at = LastStart(t) => key = k

ChangesIn(E, r, f) == {e \in E : e.account = r /\ e.type = f}

\* Their order, and the value held now.
Chained(C, value) ==
    \A e \in C :
        LET later == {d \in C : d.observed_at > e.observed_at}
        IN  IF later = {} THEN value = e.key.what
            ELSE \E d \in later : /\ d.previous = e.key.what
                                  /\ \A c \in later : d.observed_at <= c.observed_at

\* What the rows of a snapshot say of a field.
ValuesAt(T, t, a, f) ==
    {IF f = "peer_address" THEN r.peer_address ELSE r.node_id : r \in RowsOf(T, t, a)}

\* No change was later than the last start, and if then, the snapshot there had
\* its value alone.
ChangedBefore(T, C, r, f, t) ==
    /\ \A e \in C : /\ e.observed_at \in Int /\ e.observed_at <= LastStart(t)
                    /\ e.key.at = e.observed_at
                    /\ e.observed_at = LastStart(t) =>
                         /\ e.observed_at \in DOMAIN T
                         /\ ValuesAt(T, e.observed_at, r, f) = {e.key.what}
    /\ \A e, d \in C : e.observed_at = d.observed_at => e = d

\* The changes of a field when the windows up to t are done, and the value held.
FieldSays(T, C, value, r, f, t) ==
    /\ Chained(C, value) /\ ChangedBefore(T, C, r, f, t)
    /\ value = Null => C = {}

\* What events and states say of each other when the windows up to t are done,
\* and of the telemetry T.
SaysOf(T, E, states, t, is_first_run) ==
    /\ \A a \in Reps, c \in Conditions :
          /\ AgreesWith(E, a, c, states[a].open[c])
          /\ BeganBefore(E, a, c, states[a].open[c], t)
    /\ \A r \in Reps, f \in Fields :
          /\ FieldSays(T, ChangesIn(E, r, f), states[r].settled[f], r, f, t)
          /\ is_first_run => ChangesIn(E, r, f) = {}

-----------------------------------------------------------------------------
(* The invariant *)

Stored == {x.event : x \in network_events}

Passed == IF watermark = Null THEN 0 ELSE watermark

TimesOK ==
    /\ now \in 1 .. MaxTime /\ probed_at \in 0 .. now
    /\ DOMAIN telemetry \subseteq 1 .. MaxTime
    /\ \A t \in DOMAIN telemetry : telemetry[t] \in Rounds
    /\ watermark # Null => watermark \in 1 .. MaxTime

\* A detector's events are of its conditions and fields, a probe's of its own.
KindsOK(events) ==
    \A e \in events : e.type \in Conditions \/ (e.type \in Fields /\ e.phase = "occurred")

\* What is known of the representatives is dated by snapshots.
StatesOK(states) == \A r \in Reps : IsStateOf(states[r])

\* An event of the detector is of a representative and dated by a snapshot, and
\* but for how it ended, its identity says all of it.
IsTelling(e) ==
    /\ e.account \in Reps /\ e.observed_at \in DOMAIN telemetry
    /\ \/ e.phase = "began" /\ e.type \in Conditions /\ e = Began(e.account, e.type, e.key)
       \/ e.phase = "ended" /\ e.type \in Conditions
       \/ e.phase = "occurred" /\ e.type \in Fields /\ e.key.at = e.observed_at

EndedOnce(events) ==
    \A e, d \in events : e.phase = "ended" /\ EventId(e) = EventId(d) => e = d

\* So far a run has told everything once and of snapshots.
TellsRightly(run) ==
    /\ StatesOK(run.states)
    /\ \A e \in run.events : IsTelling(e)
    /\ EndedOnce(run.events)

DetectorOK ==
    /\ detector.step \in {"idle", "listed", "writing"}
    /\ detector.step = "listed" =>
         /\ detector.targets # {} /\ detector.targets \subseteq DOMAIN telemetry
         /\ \A t \in detector.targets : t > Passed
    /\ SaysOf(telemetry, Stored, detector_states, Passed, watermark = Null)
    /\ detector.step = "writing" =>
         /\ detector.watermark \in 1 .. MaxTime
         /\ KindsOK(detector.events)
         /\ SaysOf(telemetry, Stored \cup detector.events, detector.states, detector.watermark, FALSE)

ProbeOK ==
    /\ probe.step \in {"idle", "probing", "writing"}
    /\ \A a \in Reps :
         /\ AgreesWith(Stored, a, RpcType, probe_states[a])
         /\ \A k \in ToldKeys(Stored, a, RpcType, "began") :
               /\ k.at \in Nat /\ k.at <= probed_at
               /\ probe.step # "idle" => k.at < probed_at
    /\ probe.step = "writing" =>
         /\ \A e \in probe.events : e.type = RpcType
         /\ \A a \in Reps :
              /\ AgreesWith(Stored \cup probe.events, a, RpcType, probe.states[a])
              /\ \A k \in ToldKeys(probe.events, a, RpcType, "began") :
                    k.at \in Nat /\ k.at <= probed_at

FeedInv == TimesOK /\ DetectorOK /\ ProbeOK

-----------------------------------------------------------------------------
(* Numbers *)

LEMMA LeastIs ==
    ASSUME NEW S, S \subseteq Nat, S # {}
    PROVE  Min(S) \in S /\ \A y \in S : Min(S) <= y
<1> DEFINE less == {ss \in Nat \X Nat : ss[1] < ss[2]}
<1>1. IsWellFoundedOn(less, Nat)
    BY NatLessThanWellFounded, Zenon DEF OpToRel
<1> HIDE DEF less
<1>2. PICK x \in S : \A y \in S : <<y, x>> \notin less
    BY <1>1, WFMin, Zenon
<1>3. ASSUME NEW y \in S
      PROVE  x <= y
    <2>1. x \in Nat /\ y \in Nat
        OBVIOUS
    <2>2. y < x => <<y, x>> \in less
        BY <2>1 DEF less
    <2> QED
        BY <1>2, <2>1, <2>2
<1> QED
    BY <1>3 DEF Min

LEMMA GreatestIs ==
    ASSUME NEW n \in Nat, NEW S \in SUBSET (0 .. n), S # {}
    PROVE  Max(S) \in S /\ \A y \in S : y <= Max(S)
<1> DEFINE below == {n - i : i \in S}
<1>1. below \subseteq Nat /\ below # {}
    <2>1. \A i \in S : n - i \in Nat
        OBVIOUS
    <2> QED
        BY <2>1
<1>2. Min(below) \in below /\ \A c \in below : Min(below) <= c
    <2> HIDE DEF below
    <2> QED
        BY <1>1, LeastIs
<1>3. PICK i \in S : Min(below) = n - i
    BY <1>2
<1>4. \A j \in S : i >= j
    <2> SUFFICES ASSUME NEW j \in S
                 PROVE  i >= j
        OBVIOUS
    <2>1. n - i <= n - j
        BY <1>2, <1>3
    <2> QED
        BY <2>1
<1> QED
    BY <1>4 DEF Max

LEMMA CountUp ==
    ASSUME NEW n \in Nat, NEW S, 0 \in S, \A i \in 0 .. n - 1 : i \in S => i + 1 \in S
    PROVE  0 .. n \subseteq S
<1> DEFINE bad == (0 .. n) \ S
<1>1. CASE bad # {}
    <2>1. bad \subseteq Nat
        OBVIOUS
    <2>2. Min(bad) \in bad /\ \A i \in bad : Min(bad) <= i
        <3> HIDE DEF bad
        <3> QED
            BY <1>1, <2>1, LeastIs
    <2>3. Min(bad) - 1 \in 0 .. n - 1 /\ Min(bad) - 1 \notin bad
        BY <2>2
    <2>4. (Min(bad) - 1) + 1 = Min(bad)
        BY <2>2
    <2> QED
        BY <2>2, <2>3, <2>4
<1> QED
    BY <1>1

-----------------------------------------------------------------------------
(* One window *)

\* A window summarizes representatives only.
LEMMA AccountsAreReps ==
    ASSUME TimesOK, NEW w \in SUBSET DOMAIN telemetry
    PROVE  Summarized(telemetry, w) \subseteq Reps
<1>1. \A t \in w : \A r \in telemetry[t] : r.account \in Reps
    BY NetworkAssumption DEF TimesOK
<1> QED
    BY <1>1 DEF Summarized

\* A full window begins within MaxGap of its open end.
LEMMA WindowStarts ==
    ASSUME TimesOK, NEW e \in 1 .. MaxTime, IsFull(telemetry, e)
    PROVE  LET w == Window(telemetry, e)
           IN  /\ Min(w) \in w /\ Min(w) \in 1 .. MaxTime /\ Min(w) \in DOMAIN telemetry
               /\ e - Settle < Min(w) /\ Min(w) <= LastStart(e)
<1> DEFINE w == Window(telemetry, e)
<1>0. Settle \in Nat /\ MaxGap \in Nat /\ MaxGap <= 2 /\ MaxTime \in Nat
    BY WindowAssumption, NetworkAssumption
<1>1. w \subseteq DOMAIN telemetry /\ w \subseteq 1 .. MaxTime
      /\ \A t \in w : e - Settle < t
    BY DEF Window, TimesOK
<1>2. PICK u \in w : u <= (e - Settle) + MaxGap
    BY DEF IsFull
<1>3. Min(w) \in w /\ \A y \in w : Min(w) <= y
    <2>1. w \subseteq Nat /\ w # {}
        BY <1>0, <1>1, <1>2
    <2> HIDE DEF w
    <2> QED
        BY <2>1, LeastIs
<1>4. Min(w) <= u
    BY <1>2, <1>3
<1> HIDE DEF w
<1>5. Min(w) <= e - Settle + 2
    <2>1. Min(w) \in Int /\ u \in Int /\ e \in Int
        BY <1>0, <1>1, <1>2, <1>3
    <2> QED
        BY <1>0, <1>2, <1>4, <2>1
<1>6. /\ Min(w) \in w /\ Min(w) \in 1 .. MaxTime /\ Min(w) \in DOMAIN telemetry
      /\ e - Settle < Min(w) /\ Min(w) <= LastStart(e)
    BY <1>1, <1>3, <1>5 DEF LastStart
<1> QED
    BY <1>6 DEF w

LEMMA SettledIs ==
    ASSUME NEW values
    PROVE  /\ SettledValue(values) \in {Null} \cup UNION values
           /\ SettledValue(values) # Null => values = {{SettledValue(values)}}
<1>1. CASE \E v \in UNION values : values = {{v}}
    <2>1. PICK v : values = {{v}}
        BY <1>1
    <2>2. UNION values = {v}
        BY <2>1
    <2>3. SettledValue(values) = v
        BY <1>1, <2>2 DEF SettledValue
    <2> QED
        BY <2>1, <2>2, <2>3
<1>2. CASE ~ \E v \in UNION values : values = {{v}}
    BY <1>2 DEF SettledValue
<1> QED
    BY <1>1, <1>2

\* A settled value is that of every snapshot of the window.
LEMMA SummarySays ==
    ASSUME TimesOK, NEW e \in 1 .. MaxTime, NEW a
    PROVE  LET w == Window(telemetry, e)
               S == Summary(telemetry, w, a)
           IN  /\ S.window_start = Min(w)
               /\ S.version \in {Null} \cup {r.version : r \in UNION Rounds}
               /\ \A f \in Fields : S[f] # Null => \A t \in w : ValuesAt(telemetry, t, a, f) = {S[f]}
<1> DEFINE w == Window(telemetry, e)
           S == Summary(telemetry, w, a)
           rows == [t \in w |-> RowsOf(telemetry, t, a)]
<1>1. /\ S.window_start = Min(w)
      /\ S.peer_address = SettledValue({{r.peer_address : r \in rows[t]} : t \in w})
      /\ S.node_id = SettledValue({{r.node_id : r \in rows[t]} : t \in w})
      /\ S.version = SettledValue({{r.version : r \in rows[t]} : t \in w})
    BY DEF Summary
<1>2. \A t \in w : rows[t] = RowsOf(telemetry, t, a) /\ rows[t] \subseteq UNION Rounds
    BY DEF Window, TimesOK, RowsOf
<1> HIDE DEF rows, S
<1>3. S.version \in {Null} \cup {r.version : r \in UNION Rounds}
    <2>1. UNION {{r.version : r \in rows[t]} : t \in w} \subseteq
              {r.version : r \in UNION Rounds}
        BY <1>2
    <2>2. S.version \in {Null} \cup UNION {{r.version : r \in rows[t]} : t \in w}
        BY <1>1, SettledIs
    <2> QED
        BY <2>1, <2>2
<1>4. S.peer_address # Null => \A t \in w : ValuesAt(telemetry, t, a, "peer_address") = {S.peer_address}
    <2> SUFFICES ASSUME S.peer_address # Null, NEW t \in w
                 PROVE  ValuesAt(telemetry, t, a, "peer_address") = {S.peer_address}
        OBVIOUS
    <2>1. {{r.peer_address : r \in rows[u]} : u \in w} = {{S.peer_address}}
        BY <1>1, SettledIs
    <2>2. {r.peer_address : r \in rows[t]} = {S.peer_address}
        BY <2>1
    <2> QED
        BY <1>2, <2>2 DEF ValuesAt
<1>5. S.node_id # Null => \A t \in w : ValuesAt(telemetry, t, a, "node_id") = {S.node_id}
    <2> SUFFICES ASSUME S.node_id # Null, NEW t \in w
                 PROVE  ValuesAt(telemetry, t, a, "node_id") = {S.node_id}
        OBVIOUS
    <2>1. {{r.node_id : r \in rows[u]} : u \in w} = {{S.node_id}}
        BY <1>1, SettledIs
    <2>2. {r.node_id : r \in rows[t]} = {S.node_id}
        BY <2>1
    <2> QED
        BY <1>2, <2>2 DEF ValuesAt
<1> QED
    BY <1>1, <1>3, <1>4, <1>5 DEF S, Fields

\* What a window tells of a condition.
LEMMA ConditionMoves ==
    ASSUME NEW E, NEW a, NEW c, NEW key, NEW t \in Int,
           AgreesWith(E, a, c, key), BeganBefore(E, a, c, key, t),
           NEW e \in Int, t < e, NEW s \in Int, e - Settle < s, s <= LastStart(e),
           NEW what, Key(s, what) # Null, NEW N, NEW after,
           \/ /\ key = Null /\ after = Key(s, what)
              /\ ToldKeys(N, a, c, "began") = {after} /\ ToldKeys(N, a, c, "ended") = {}
           \/ /\ key # Null /\ after = Null
              /\ ToldKeys(N, a, c, "began") = {} /\ ToldKeys(N, a, c, "ended") = {key}
           \/ /\ after = key
              /\ ToldKeys(N, a, c, "began") = {} /\ ToldKeys(N, a, c, "ended") = {}
    PROVE  AgreesWith(E \cup N, a, c, after) /\ BeganBefore(E \cup N, a, c, after, e)
<1> DEFINE B == ToldKeys(E, a, c, "began")
           D == ToldKeys(E, a, c, "ended")
<1>0. Settle \in Nat
    BY WindowAssumption
<1>1. \A phase : ToldKeys(E \cup N, a, c, phase) = ToldKeys(E, a, c, phase)
                                                  \cup ToldKeys(N, a, c, phase)
    BY DEF ToldKeys
<1>2. D \subseteq B /\ B \ D = {key} \ {Null}
    BY DEF AgreesWith
<1>3. \A k \in B : /\ k.at \in Int /\ k.at <= LastStart(t)
                   /\ k.at = LastStart(t) => key = k
    BY DEF BeganBefore
<1>4. LastStart(t) < LastStart(e) /\ LastStart(t) <= s
    BY <1>0 DEF LastStart
<1>5. Key(s, what).at = s
    BY DEF Key
<1> HIDE DEF B, D
<1>6. CASE /\ key = Null /\ after = Key(s, what)
           /\ ToldKeys(N, a, c, "began") = {after} /\ ToldKeys(N, a, c, "ended") = {}
    <2>1. after \notin B
        <3>1. ASSUME after \in B
              PROVE  FALSE
            <4>1. s <= LastStart(t)
                BY <1>3, <1>5, <1>6, <3>1
            <4>2. s = LastStart(t)
                BY <1>0, <1>4, <4>1 DEF LastStart
            <4>3. key = after
                BY <1>3, <1>5, <1>6, <3>1, <4>2
            <4> QED
                BY <1>6, <4>3
        <3> QED
            BY <3>1
    <2>2. AgreesWith(E \cup N, a, c, after)
        BY <1>1, <1>2, <1>6, <2>1 DEF AgreesWith, B, D
    <2>3. \A k \in B : k.at <= LastStart(e) /\ k.at # LastStart(e)
        BY <1>0, <1>3, <1>4 DEF LastStart
    <2>4. BeganBefore(E \cup N, a, c, after, e)
        BY <1>1, <1>3, <1>5, <1>6, <2>3 DEF BeganBefore, B
    <2> QED
        BY <2>2, <2>4
<1>7. CASE /\ key # Null /\ after = Null
           /\ ToldKeys(N, a, c, "began") = {} /\ ToldKeys(N, a, c, "ended") = {key}
    <2>1. AgreesWith(E \cup N, a, c, after)
        BY <1>1, <1>2, <1>7 DEF AgreesWith, B, D
    <2>2. \A k \in B : k.at <= LastStart(e) /\ k.at # LastStart(e)
        BY <1>0, <1>3, <1>4 DEF LastStart
    <2>3. BeganBefore(E \cup N, a, c, after, e)
        BY <1>1, <1>3, <1>7, <2>2 DEF BeganBefore, B
    <2> QED
        BY <2>1, <2>3
<1>8. CASE /\ after = key
           /\ ToldKeys(N, a, c, "began") = {} /\ ToldKeys(N, a, c, "ended") = {}
    <2>1. AgreesWith(E \cup N, a, c, after)
        BY <1>1, <1>2, <1>8 DEF AgreesWith, B, D
    <2>2. \A k \in B : k.at <= LastStart(e) /\ k.at # LastStart(e)
        BY <1>0, <1>3, <1>4 DEF LastStart
    <2>3. BeganBefore(E \cup N, a, c, after, e)
        BY <1>1, <1>3, <1>8, <2>2 DEF BeganBefore, B
    <2> QED
        BY <2>1, <2>3
<1> QED
    BY <1>6, <1>7, <1>8

\* One change, from the value held to that of the snapshot at s.
IsChange(T, D, value, after, r, f, s) ==
    \E n : /\ D = {n} /\ n.previous = value /\ n.observed_at = s
           /\ n.key.at = s /\ n.key.what = after
           /\ after # Null /\ value # after
           /\ s \in DOMAIN T /\ ValuesAt(T, s, r, f) = {after}

\* What a window tells of a field: nothing, or a change from the value held.
LEMMA FieldMoves ==
    ASSUME NEW T, NEW C, NEW r, NEW f, NEW value, NEW t \in Int,
           FieldSays(T, C, value, r, f, t),
           NEW e \in Int, t < e, NEW s \in Int, e - Settle < s, s <= LastStart(e),
           NEW D, NEW after,
           \/ D = {} /\ after = value
           \/ D = {} /\ C = {}
           \/ IsChange(T, D, value, after, r, f, s)
    PROVE  FieldSays(T, C \cup D, after, r, f, e)
<1>0. Settle \in Nat
    BY WindowAssumption
<1>a. Chained(C, value) /\ ChangedBefore(T, C, r, f, t) /\ (value = Null => C = {})
    BY DEF FieldSays
<1>1. LastStart(t) < LastStart(e) /\ LastStart(t) <= s /\ LastStart(t) \in Int
      /\ LastStart(e) \in Int
    BY <1>0 DEF LastStart
<1>2. \A c \in C : /\ c.observed_at \in Int /\ c.observed_at <= LastStart(t)
                   /\ c.key.at = c.observed_at
                   /\ c.observed_at = LastStart(t) =>
                        /\ c.observed_at \in DOMAIN T
                        /\ ValuesAt(T, c.observed_at, r, f) = {c.key.what}
    BY <1>a DEF ChangedBefore
<1>3. \A c \in C : c.observed_at < LastStart(e)
    BY <1>1, <1>2
<1>4. CASE D = {} /\ after = value
    BY <1>a, <1>1, <1>2, <1>3, <1>4 DEF FieldSays, ChangedBefore
<1>5. CASE D = {} /\ C = {}
    BY <1>5 DEF FieldSays, Chained, ChangedBefore
<1>6. ASSUME NEW n, D = {n}, n.previous = value, n.observed_at = s,
             n.key.at = s, n.key.what = after, after # Null, value # after,
             s \in DOMAIN T, ValuesAt(T, s, r, f) = {after}
      PROVE  Chained(C \cup D, after) /\ ChangedBefore(T, C \cup D, r, f, e)
    <2>1. ASSUME NEW c \in C
          PROVE  c.observed_at < s
        <3>1. ASSUME c.observed_at = s
              PROVE  FALSE
            <4>1. c.observed_at = LastStart(t)
                BY <1>1, <1>2, <3>1
            <4>2. c.key.what = after
                BY <1>2, <1>6, <3>1, <4>1
            <4>3. {d \in C : d.observed_at > c.observed_at} = {}
                BY <1>1, <1>2, <4>1
            <4>4. value = c.key.what
                BY <1>a, <4>3 DEF Chained
            <4> QED
                BY <1>6, <4>2, <4>4
        <3> QED
            BY <1>1, <1>2, <3>1
    <2>2. ChangedBefore(T, C \cup D, r, f, e)
        <3>1. \A c \in C \cup D :
                  /\ c.observed_at \in Int /\ c.observed_at <= LastStart(e)
                  /\ c.key.at = c.observed_at
                  /\ c.observed_at = LastStart(e) =>
                       /\ c.observed_at \in DOMAIN T
                       /\ ValuesAt(T, c.observed_at, r, f) = {c.key.what}
            BY <1>1, <1>2, <1>3, <1>6
        <3>2. \A c, d \in C \cup D : c.observed_at = d.observed_at => c = d
            <4>1. \A c, d \in C : c.observed_at = d.observed_at => c = d
                BY <1>a DEF ChangedBefore
            <4>2. \A c \in C : c.observed_at # n.observed_at
                BY <1>2, <1>6, <2>1
            <4> QED
                BY <1>6, <4>1, <4>2
        <3> QED
            BY <3>1, <3>2 DEF ChangedBefore
    <2>3. ASSUME NEW c \in C \cup D
          PROVE  LET later == {d \in C \cup D : d.observed_at > c.observed_at}
                 IN  IF later = {} THEN after = c.key.what
                     ELSE \E d \in later : /\ d.previous = c.key.what
                                           /\ \A b \in later : d.observed_at <= b.observed_at
        <3> DEFINE later == {d \in C \cup D : d.observed_at > c.observed_at}
                   before == {d \in C : d.observed_at > c.observed_at}
        <3>1. CASE c = n
            <4>1. later = {}
                BY <1>2, <1>6, <2>1, <3>1
            <4> QED
                BY <1>6, <3>1, <4>1
        <3>2. CASE c # n
            <4>1. c \in C /\ c.observed_at < s
                BY <1>6, <2>1, <3>2
            <4>2. later = before \cup {n}
                BY <1>6, <4>1
            <4>3. CASE before = {}
                <5>1. value = c.key.what
                    BY <1>a, <4>1, <4>3 DEF Chained
                <5>2. later = {n}
                    BY <4>2, <4>3
                <5>3. n \in later /\ n.previous = c.key.what
                      /\ \A b \in later : n.observed_at <= b.observed_at
                    BY <1>6, <5>1, <5>2
                <5> QED
                    BY <5>3
            <4>4. CASE before # {}
                <5>1. PICK d \in before : /\ d.previous = c.key.what
                                          /\ \A b \in before : d.observed_at <= b.observed_at
                    BY <1>a, <4>1, <4>4 DEF Chained
                <5>2. d.observed_at <= n.observed_at
                    BY <1>2, <1>6, <2>1, <5>1
                <5>3. d \in later /\ \A b \in later : d.observed_at <= b.observed_at
                    BY <4>2, <5>1, <5>2
                <5> QED
                    BY <5>1, <5>3
            <4> QED
                BY <4>3, <4>4
        <3> QED
            BY <3>1, <3>2
    <2>4. Chained(C \cup D, after)
        BY <2>3 DEF Chained
    <2> QED
        BY <2>2, <2>4
<1>7. CASE IsChange(T, D, value, after, r, f, s)
    BY <1>6, <1>7 DEF IsChange, FieldSays
<1> QED
    BY <1>4, <1>5, <1>7

-----------------------------------------------------------------------------
(* A run *)

\* Nothing told, and later times.
LEMMA TimePasses ==
    ASSUME NEW T, NEW E, NEW states, NEW t \in Int, NEW u \in Int, t <= u, NEW first,
           SaysOf(T, E, states, t, first)
    PROVE  SaysOf(T, E, states, u, first)
<1>0. Settle \in Nat
    BY WindowAssumption
<1>1. LastStart(t) <= LastStart(u) /\ LastStart(t) \in Int /\ LastStart(u) \in Int
      /\ (LastStart(t) = LastStart(u) => t = u)
    BY <1>0 DEF LastStart
<1>2. ASSUME NEW a \in Reps, NEW c \in Conditions
      PROVE  BeganBefore(E, a, c, states[a].open[c], u)
    BY <1>1 DEF SaysOf, BeganBefore
<1>3. ASSUME NEW r \in Reps, NEW f \in Fields
      PROVE  FieldSays(T, ChangesIn(E, r, f), states[r].settled[f], r, f, u)
    <2>1. FieldSays(T, ChangesIn(E, r, f), states[r].settled[f], r, f, t)
        BY DEF SaysOf
    <2> QED
        BY <1>1, <2>1 DEF FieldSays, ChangedBefore
<1> QED
    BY <1>2, <1>3 DEF SaysOf

\* The events of a window, of all its representatives.
WindowEvents(accounts, states, S, majority, first) ==
    UNION {EventsOfWindow(a, states[a], S[a], majority, first) : a \in accounts}

\* A window tells of each condition what AfterWindow does to it.
LEMMA WindowTells ==
    ASSUME NEW accounts, NEW states, NEW S, NEW majority, NEW first, NEW a, NEW c \in Conditions
    PROVE  LET N == WindowEvents(accounts, states, S, majority, first)
           IN  /\ a \notin accounts \/ ~ Opens(c, states[a], S[a], majority)
                      => ToldKeys(N, a, c, "began") = {}
               /\ a \notin accounts \/ ~ Closes(c, states[a], S[a], majority)
                      => ToldKeys(N, a, c, "ended") = {}
               /\ a \in accounts /\ Opens(c, states[a], S[a], majority)
                      => ToldKeys(N, a, c, "began") = {OpenKey(c, S[a])}
               /\ a \in accounts /\ Closes(c, states[a], S[a], majority)
                      => ToldKeys(N, a, c, "ended") = {states[a].open[c]}
<1> DEFINE Of(b) == EventsOfWindow(b, states[b], S[b], majority, first)
           N == UNION {Of(b) : b \in accounts}
<1>1. \A b : \A x \in Of(b) : x.account = b
    BY DEF EventsOfWindow, Began, Ended, Changed, Event
<1>2. \A phase : ToldKeys(N, a, c, phase) =
          IF a \in accounts THEN ToldKeys(Of(a), a, c, phase) ELSE {}
    <2> HIDE DEF Of
    <2>1. \A x \in N : x.account = a => a \in accounts /\ x \in Of(a)
        BY <1>1
    <2>2. a \in accounts => Of(a) \subseteq N
        OBVIOUS
    <2> HIDE DEF N
    <2> QED
        BY <2>1, <2>2 DEF ToldKeys
<1>3. \A x \in Of(a) : x.type = c /\ x.phase = "began" =>
          Opens(c, states[a], S[a], majority) /\ x = Began(a, c, OpenKey(c, S[a]))
    BY DEF EventsOfWindow, Began, Ended, Changed, Event
<1>4. \A x \in Of(a) : x.type = c /\ x.phase = "ended" =>
          /\ Closes(c, states[a], S[a], majority)
          /\ x = Ended(a, c, states[a].open[c], S[a].window_start)
    BY DEF EventsOfWindow, Began, Ended, Changed, Event
<1>5. Opens(c, states[a], S[a], majority) => Began(a, c, OpenKey(c, S[a])) \in Of(a)
    BY DEF EventsOfWindow
<1>6. Closes(c, states[a], S[a], majority) =>
          Ended(a, c, states[a].open[c], S[a].window_start) \in Of(a)
    BY DEF EventsOfWindow
<1>7. \A key : /\ Began(a, c, key).account = a /\ Began(a, c, key).type = c
               /\ Began(a, c, key).phase = "began" /\ Began(a, c, key).key = key
    BY DEF Began, Event
<1>8. \A key, at : /\ Ended(a, c, key, at).account = a /\ Ended(a, c, key, at).type = c
                   /\ Ended(a, c, key, at).phase = "ended" /\ Ended(a, c, key, at).key = key
    BY DEF Ended, Event
<1> HIDE DEF Of, N
<1>9. ToldKeys(Of(a), a, c, "began") =
          IF Opens(c, states[a], S[a], majority) THEN {OpenKey(c, S[a])} ELSE {}
    BY <1>3, <1>5, <1>7 DEF ToldKeys
<1>10. ToldKeys(Of(a), a, c, "ended") =
          IF Closes(c, states[a], S[a], majority) THEN {states[a].open[c]} ELSE {}
    BY <1>4, <1>6, <1>8 DEF ToldKeys
<1> QED
    BY <1>2, <1>9, <1>10 DEF N, Of, WindowEvents

\* And of each field.
LEMMA WindowChanges ==
    ASSUME NEW accounts, NEW states, NEW S, NEW majority, NEW first, NEW a, NEW f \in Fields
    PROVE  LET N == WindowEvents(accounts, states, S, majority, first)
               changes == /\ a \in accounts /\ ~ first
                          /\ Null \notin {S[a][f], states[a].settled[f]}
                          /\ S[a][f] # states[a].settled[f]
           IN  ChangesIn(N, a, f) =
                   IF changes THEN {Changed(a, f, states[a].settled[f], S[a][f],
                                            S[a].window_start)}
                   ELSE {}
<1> DEFINE Of(b) == EventsOfWindow(b, states[b], S[b], majority, first)
           N == UNION {Of(b) : b \in accounts}
           changes == /\ a \in accounts /\ ~ first
                      /\ Null \notin {S[a][f], states[a].settled[f]}
                      /\ S[a][f] # states[a].settled[f]
           n == Changed(a, f, states[a].settled[f], S[a][f], S[a].window_start)
<1>1. \A b : \A x \in Of(b) : x.account = b
    BY DEF EventsOfWindow, Began, Ended, Changed, Event
<1>2. \A x \in Of(a) : x.type = f => (a \in accounts => changes) /\ x = n
    BY DEF EventsOfWindow, Began, Ended, Changed, Event, Conditions, Fields
<1>3. changes => n \in Of(a)
    BY DEF EventsOfWindow
<1>4. n.account = a /\ n.type = f
    BY DEF Changed, Event
<1>5. ChangesIn(N, a, f) = IF a \in accounts THEN {x \in Of(a) : x.type = f} ELSE {}
    <2> HIDE DEF Of
    <2>1. \A x \in N : x.account = a => a \in accounts /\ x \in Of(a)
        BY <1>1
    <2>2. a \in accounts => \A x \in Of(a) : x \in N /\ x.account = a
        BY <1>1
    <2> HIDE DEF N
    <2> QED
        BY <2>1, <2>2 DEF ChangesIn
<1>6. ChangesIn(N, a, f) = IF changes THEN {n} ELSE {}
    <2> HIDE DEF Of, N, n
    <2>1. changes => a \in accounts
        OBVIOUS
    <2> HIDE DEF changes
    <2> QED
        BY <1>2, <1>3, <1>4, <1>5, <2>1
<1> QED
    BY <1>6 DEF N, Of, n, changes, WindowEvents

LEMMA WindowKinds ==
    ASSUME NEW a, NEW state, NEW summary, NEW majority, NEW first
    PROVE  KindsOK(EventsOfWindow(a, state, summary, majority, first))
    BY DEF KindsOK, EventsOfWindow, Began, Ended, Changed, Event

\* One window after those up to t.
LEMMA WindowSays ==
    ASSUME TimesOK, NEW t \in Nat, NEW e \in 1 .. MaxTime, t < e, NEW E, NEW x, NEW majority,
           NEW first \in BOOLEAN, SaysOf(telemetry, E \cup x.events, x.states, t, first), KindsOK(x.events)
    PROVE  LET y == EvaluateWindow(x, e, majority, first)
           IN  SaysOf(telemetry, E \cup y.events, y.states, e, first) /\ KindsOK(y.events)
<1>0. t \in Int /\ e \in Int
    BY NetworkAssumption
<1>1. CASE ~ IsFull(telemetry, e)
    <2>1. EvaluateWindow(x, e, majority, first) = x
        BY <1>1 DEF EvaluateWindow
    <2> QED
        BY <1>0, <2>1, TimePasses
<1>2. CASE IsFull(telemetry, e)
    <2> DEFINE w == Window(telemetry, e)
               s == Min(w)
               accounts == Summarized(telemetry, w)
               S == [a \in accounts |-> Summary(telemetry, w, a)]
               N == WindowEvents(accounts, x.states, S, majority, first)
               states == [a \in Reps |-> IF a \in accounts
                                         THEN AfterWindow(x.states[a], S[a], majority)
                                         ELSE x.states[a]]
    <2>1. /\ EvaluateWindow(x, e, majority, first).states = states
          /\ EvaluateWindow(x, e, majority, first).events = x.events \cup N
        BY <1>2 DEF EvaluateWindow, WindowEvents
    <2>2. /\ s \in w /\ s \in 1 .. MaxTime /\ s \in DOMAIN telemetry
          /\ e - Settle < s /\ s <= LastStart(e) /\ s \in Int
        BY <1>2, WindowStarts, NetworkAssumption
    <2>3. \A a \in accounts : S[a] = Summary(telemetry, w, a)
        OBVIOUS
    <2>4. \A a \in accounts :
              /\ S[a].window_start = s
              /\ S[a].version \in {Null} \cup {r.version : r \in UNION Rounds}
              /\ \A f \in Fields : S[a][f] # Null => \A u \in w : ValuesAt(telemetry, u, a, f) = {S[a][f]}
        BY <2>3, SummarySays
    <2>5. KindsOK(x.events \cup N)
        <3>1. \A a \in accounts :
                  KindsOK(EventsOfWindow(a, x.states[a], S[a], majority, first))
            BY WindowKinds
        <3> HIDE DEF S, accounts
        <3> QED
            BY <3>1 DEF KindsOK, WindowEvents
    <2>6. ASSUME NEW a \in Reps, NEW c \in Conditions
          PROVE  /\ AgreesWith((E \cup x.events) \cup N, a, c, states[a].open[c])
                 /\ BeganBefore((E \cup x.events) \cup N, a, c, states[a].open[c], e)
        <3> DEFINE key == x.states[a].open[c]
                   after == states[a].open[c]
                   what == IF c = "version_outdated" THEN S[a].version ELSE Null
        <3>1. AgreesWith(E \cup x.events, a, c, key)
              /\ BeganBefore(E \cup x.events, a, c, key, t)
            BY DEF SaysOf
        <3>2. a \in accounts => OpenKey(c, S[a]) = Key(s, what)
            BY <2>4 DEF OpenKey
        <3>3. a \in accounts => Key(s, what) # Null
            <4>1. a \in accounts => what \in {Null} \cup {r.version : r \in UNION Rounds}
                BY <2>4
            <4>2. s \in 0 .. MaxTime
                BY <2>2, NetworkAssumption
            <4> HIDE DEF s, what
            <4> QED
                BY <4>1, <4>2, NullAssumption DEF Key
        <3>4. a \notin accounts => after = key
            OBVIOUS
        <3>5. a \in accounts =>
                  after = IF Opens(c, x.states[a], S[a], majority) THEN OpenKey(c, S[a])
                          ELSE IF Closes(c, x.states[a], S[a], majority) THEN Null
                          ELSE key
            BY DEF AfterWindow
        <3>6. /\ Opens(c, x.states[a], S[a], majority) => key = Null
              /\ Closes(c, x.states[a], S[a], majority) => key # Null
            BY DEF Opens, Closes
        <3>7. /\ a \notin accounts \/ ~ Opens(c, x.states[a], S[a], majority)
                     => ToldKeys(N, a, c, "began") = {}
              /\ a \notin accounts \/ ~ Closes(c, x.states[a], S[a], majority)
                     => ToldKeys(N, a, c, "ended") = {}
              /\ a \in accounts /\ Opens(c, x.states[a], S[a], majority)
                     => ToldKeys(N, a, c, "began") = {OpenKey(c, S[a])}
              /\ a \in accounts /\ Closes(c, x.states[a], S[a], majority)
                     => ToldKeys(N, a, c, "ended") = {key}
            <4> HIDE DEF S, accounts
            <4> QED
                BY WindowTells
        <3> HIDE DEF N, S, accounts, w, s, states, key, after, what
        <3>8. CASE a \in accounts
            <4>1. \/ /\ key = Null /\ after = Key(s, what)
                     /\ ToldKeys(N, a, c, "began") = {after} /\ ToldKeys(N, a, c, "ended") = {}
                  \/ /\ key # Null /\ after = Null
                     /\ ToldKeys(N, a, c, "began") = {} /\ ToldKeys(N, a, c, "ended") = {key}
                  \/ /\ after = key
                     /\ ToldKeys(N, a, c, "began") = {} /\ ToldKeys(N, a, c, "ended") = {}
                BY <3>2, <3>5, <3>6, <3>7, <3>8
            <4>2. AgreesWith((E \cup x.events) \cup N, a, c, after)
                  /\ BeganBefore((E \cup x.events) \cup N, a, c, after, e)
                BY <1>0, <2>2, <3>1, <3>3, <3>8, <4>1, ConditionMoves
            <4> QED
                BY <4>2 DEF after
        <3>9. CASE a \notin accounts
            <4>1. /\ after = key
                  /\ ToldKeys(N, a, c, "began") = {} /\ ToldKeys(N, a, c, "ended") = {}
                BY <3>4, <3>7, <3>9
            <4>2. Key(s, Null) # Null
                BY <2>2, NullAssumption, NetworkAssumption DEF Key
            <4>3. AgreesWith((E \cup x.events) \cup N, a, c, after)
                  /\ BeganBefore((E \cup x.events) \cup N, a, c, after, e)
                BY <1>0, <2>2, <3>1, <4>1, <4>2, ConditionMoves
            <4> QED
                BY <4>3 DEF after
        <3> QED
            BY <3>8, <3>9
    <2>7. ASSUME NEW a \in Reps, NEW f \in Fields
          PROVE  LET C == ChangesIn((E \cup x.events) \cup N, a, f)
                 IN  /\ FieldSays(telemetry, C, states[a].settled[f], a, f, e)
                     /\ first => C = {}
        <3> DEFINE C == ChangesIn(E \cup x.events, a, f)
                   D == ChangesIn(N, a, f)
                   value == x.states[a].settled[f]
                   after == states[a].settled[f]
                   n == Changed(a, f, value, S[a][f], S[a].window_start)
                   changes == /\ a \in accounts /\ ~ first
                              /\ Null \notin {S[a][f], value} /\ S[a][f] # value
        <3>1. ChangesIn((E \cup x.events) \cup N, a, f) = C \cup D
            BY DEF ChangesIn
        <3>2. /\ FieldSays(telemetry, C, value, a, f, t)
              /\ value = Null \/ first => C = {}
            BY DEF SaysOf, FieldSays
        <3>3. D = IF changes THEN {n} ELSE {}
            <4> HIDE DEF S, accounts
            <4> QED
                BY WindowChanges
        <3>4. a \notin accounts => after = value
            OBVIOUS
        <3>5. a \in accounts => after = IF S[a][f] = Null THEN value ELSE S[a][f]
            BY DEF AfterWindow, SettleFields
        <3>6. a \in accounts =>
                  /\ n.previous = value /\ n.observed_at = s /\ n.key.at = s
                  /\ n.key.what = S[a][f]
            BY <2>4 DEF Changed, Event, Key
        <3>7. a \in accounts /\ S[a][f] # Null => ValuesAt(telemetry, s, a, f) = {S[a][f]}
            BY <2>2, <2>4
        <3> HIDE DEF N, S, accounts, w, s, states, value, after, n, C, D
        <3>8. \/ D = {} /\ after = value
              \/ D = {} /\ C = {}
              \/ IsChange(telemetry, D, value, after, a, f, s)
            <4>1. CASE changes
                <5>1. D = {n} /\ after = S[a][f] /\ after # Null /\ value # after
                    BY <3>3, <3>5, <4>1
                <5> QED
                    BY <2>2, <3>6, <3>7, <4>1, <5>1 DEF IsChange
            <4>2. CASE ~ changes
                BY <3>2, <3>3, <3>4, <3>5, <4>2
            <4> QED
                BY <4>1, <4>2
        <3> HIDE DEF changes
        <3>9. FieldSays(telemetry, C \cup D, after, a, f, e)
            BY <1>0, <2>2, <3>2, <3>8, FieldMoves
        <3>10. first => C \cup D = {}
            BY <3>2, <3>3 DEF changes
        <3> QED
            BY <3>1, <3>9, <3>10 DEF after
    <2>8. E \cup (x.events \cup N) = (E \cup x.events) \cup N
        OBVIOUS
    <2> HIDE DEF N, states
    <2>9. SaysOf(telemetry, E \cup (x.events \cup N), states, e, first)
        BY <2>6, <2>7, <2>8 DEF SaysOf
    <2> QED
        BY <2>1, <2>5, <2>9
<1> QED
    BY <1>1, <1>2

\* Every event of a window is of the window's start; what it ends was open.
LEMMA WindowTellings ==
    ASSUME NEW a \in Reps, NEW state, NEW summary, NEW majority, NEW first,
           summary.window_start \in DOMAIN telemetry,
           NEW e \in EventsOfWindow(a, state, summary, majority, first)
    PROVE  /\ IsTelling(e) /\ e.account = a
           /\ e.phase = "ended" =>
                /\ e = Ended(a, e.type, state.open[e.type], summary.window_start)
                /\ state.open[e.type] # Null
<1>1. CASE \E c \in Conditions : e = Began(a, c, OpenKey(c, summary))
    BY <1>1 DEF IsTelling, Began, Event, OpenKey, Key
<1>2. CASE \E c \in Conditions : /\ Closes(c, state, summary, majority)
                                 /\ e = Ended(a, c, state.open[c], summary.window_start)
    BY <1>2 DEF IsTelling, Closes, Ended, Event
<1>3. CASE \E f \in Fields :
               e = Changed(a, f, state.settled[f], summary[f], summary.window_start)
    BY <1>3 DEF IsTelling, Changed, Event, Key
<1> QED
    BY <1>1, <1>2, <1>3 DEF EventsOfWindow

\* So a window after those up to t tells rightly too.
LEMMA WindowTellsRightly ==
    ASSUME TimesOK, NEW t \in Nat, NEW e \in 1 .. MaxTime, t < e, NEW E, NEW x, NEW majority,
           NEW first \in BOOLEAN, SaysOf(telemetry, E \cup x.events, x.states, t, first),
           TellsRightly(x)
    PROVE  TellsRightly(EvaluateWindow(x, e, majority, first))
<1>1. CASE ~ IsFull(telemetry, e)
    BY <1>1 DEF EvaluateWindow
<1>2. CASE IsFull(telemetry, e)
    <2> DEFINE w == Window(telemetry, e)
               s == Min(w)
               accounts == Summarized(telemetry, w)
               S == [a \in accounts |-> Summary(telemetry, w, a)]
               N == WindowEvents(accounts, x.states, S, majority, first)
               states == [a \in Reps |-> IF a \in accounts
                                         THEN AfterWindow(x.states[a], S[a], majority)
                                         ELSE x.states[a]]
    <2>1. /\ EvaluateWindow(x, e, majority, first).states = states
          /\ EvaluateWindow(x, e, majority, first).events = x.events \cup N
        BY <1>2 DEF EvaluateWindow, WindowEvents
    <2>2. s \in DOMAIN telemetry
        BY <1>2, WindowStarts
    <2>3. accounts \subseteq Reps
        BY AccountsAreReps DEF Window
    <2>4. \A a \in accounts : S[a].window_start = s
        BY DEF Summary
    <2> HIDE DEF w, s, accounts, S
    <2>5. StatesOK(states)
        <3> SUFFICES ASSUME NEW a \in Reps
                     PROVE  IsStateOf(states[a])
            BY DEF StatesOK
        <3>1. IsStateOf(x.states[a])
            BY DEF TellsRightly, StatesOK
        <3>2. CASE a \in accounts
            <4>1. states[a] = AfterWindow(x.states[a], S[a], majority)
                BY <3>2
            <4>2. \A c : OpenKey(c, S[a]).at = s
                BY <2>4, <3>2 DEF OpenKey, Key
            <4> QED
                BY <2>2, <3>1, <4>1, <4>2 DEF IsStateOf, AfterWindow, SettleFields
        <3> QED
            BY <3>1, <3>2
    <2>6. ASSUME NEW d \in N
          PROVE  /\ IsTelling(d) /\ d.account \in Reps
                 /\ d.phase = "ended" =>
                      /\ d = Ended(d.account, d.type, x.states[d.account].open[d.type], s)
                      /\ x.states[d.account].open[d.type] # Null
        <3>1. PICK a \in accounts : d \in EventsOfWindow(a, x.states[a], S[a], majority, first)
            BY DEF WindowEvents
        <3>2. a \in Reps /\ S[a].window_start = s
            BY <2>3, <2>4
        <3>3. S[a].window_start \in DOMAIN telemetry
            BY <2>2, <3>2
        <3>4. PICK state, summary : state = x.states[a] /\ summary = S[a]
            OBVIOUS
        <3>5. /\ IsTelling(d) /\ d.account = a
              /\ d.phase = "ended" =>
                   /\ d = Ended(a, d.type, state.open[d.type], summary.window_start)
                   /\ state.open[d.type] # Null
            BY <3>1, <3>2, <3>3, <3>4, WindowTellings
        <3> QED
            BY <3>2, <3>4, <3>5
    <2> HIDE DEF N, states
    <2>7. ASSUME NEW d \in N, d.phase = "ended", NEW g \in x.events, EventId(g) = EventId(d)
          PROVE  FALSE
        <3> DEFINE k == x.states[d.account].open[d.type]
        <3>1. d.type \in Conditions /\ d.account \in Reps /\ k # Null /\ d.key = k
            BY <2>6, <2>7 DEF IsTelling, Ended, Event
        <3>2. AgreesWith(E \cup x.events, d.account, d.type, k)
            BY <3>1 DEF SaysOf
        <3>3. /\ g.account = d.account /\ g.type = d.type /\ g.phase = "ended" /\ g.key = k
            BY <2>7, <3>1 DEF EventId
        <3>4. k \in ToldKeys(E \cup x.events, d.account, d.type, "ended")
            BY <3>3 DEF ToldKeys
        <3> HIDE DEF k
        <3> QED
            BY <3>1, <3>2, <3>4 DEF AgreesWith
    <2>8. \A d, g : EventId(d) = EventId(g) =>
              d.account = g.account /\ d.type = g.type /\ d.phase = g.phase
        BY DEF EventId
    <2>9. ASSUME NEW d \in x.events \cup N, NEW g \in x.events \cup N,
                 d.phase = "ended", EventId(d) = EventId(g)
          PROVE  d = g
        <3>1. CASE d \in N /\ g \in N
            BY <2>6, <2>8, <2>9, <3>1
        <3>2. CASE d \in x.events /\ g \in x.events
            BY <2>9, <3>2 DEF TellsRightly, EndedOnce
        <3>3. CASE d \in N /\ g \in x.events
            BY <2>7, <2>9, <3>3
        <3>4. CASE g \in N /\ d \in x.events
            BY <2>7, <2>8, <2>9, <3>4
        <3> QED
            BY <3>1, <3>2, <3>3, <3>4
    <2>10. EndedOnce(x.events \cup N)
        BY <2>9 DEF EndedOnce
    <2> QED
        BY <2>1, <2>5, <2>6, <2>10 DEF TellsRightly
<1> QED
    BY <1>1, <1>2

\* The results of a run, target after target.
IsRun(through, targets, majorities, first) ==
    /\ through[0] = [evaluated |-> 0, states |-> detector_states, events |-> {}]
    /\ \A t \in 1 .. MaxTime :
          through[t] = IF t \in targets
                       THEN EvaluateWindow(through[t - 1], t, majorities[t], first)
                       ELSE through[t - 1]

\* The recursion of EvaluateRun has them.
LEMMA RunSteps ==
    ASSUME NEW targets \in SUBSET (1 .. MaxTime), targets # {}, NEW majorities, NEW first
    PROVE  \E through : /\ IsRun(through, targets, majorities, first)
                        /\ EvaluateRun(targets, majorities, first) = through[Max(targets)]
<1> DEFINE base == [evaluated |-> 0, states |-> detector_states, events |-> {}]
           Step(x, t) == IF t \in targets
                         THEN EvaluateWindow(x, t, majorities[t], first) ELSE x
           IsUpTo(g, n) == g[0] = base /\ \A i \in 1 .. n : g[i] = Step(g[i - 1], i)
           reached == {n \in 0 .. MaxTime : \E g : IsUpTo(g, n)}
           Is(g) == g = [t \in 0 .. MaxTime |->
                           IF t = 0 THEN base
                           ELSE IF t \in targets
                                THEN EvaluateWindow(g[t - 1], t, majorities[t], first)
                                ELSE g[t - 1]]
<1>0. MaxTime \in Nat
    BY NetworkAssumption
<1>1. 0 \in reached
    <2>1. IsUpTo([i \in {0} |-> base], 0)
        OBVIOUS
    <2> HIDE DEF IsUpTo
    <2> QED
        BY <1>0, <2>1
<1>2. ASSUME NEW n \in 0 .. MaxTime - 1, n \in reached
      PROVE  n + 1 \in reached
    <2> HIDE DEF Step, base
    <2>1. PICK g : IsUpTo(g, n)
        BY <1>2
    <2> DEFINE h == [i \in 0 .. MaxTime |-> IF i <= n THEN g[i] ELSE Step(g[n], n + 1)]
    <2>2. h[0] = base
        BY <1>0, <2>1
    <2>3. ASSUME NEW i \in 1 .. n + 1
          PROVE  h[i] = Step(h[i - 1], i)
        <3>1. i \in 0 .. MaxTime /\ i - 1 \in 0 .. n /\ h[i - 1] = g[i - 1]
            BY <1>0
        <3>2. CASE i = n + 1
            BY <3>1, <3>2
        <3>3. CASE i # n + 1
            <4>1. i \in 1 .. n /\ h[i] = g[i]
                BY <3>1, <3>3
            <4>2. g[i] = Step(g[i - 1], i)
                BY <2>1, <4>1
            <4> QED
                BY <3>1, <4>1, <4>2
        <3> QED
            BY <3>2, <3>3
    <2>4. IsUpTo(h, n + 1)
        <3> HIDE DEF h
        <3> QED
            BY <2>2, <2>3
    <2> HIDE DEF IsUpTo
    <2> QED
        BY <1>0, <2>4
<1>3. MaxTime \in reached
    <2> HIDE DEF reached
    <2>1. 0 .. MaxTime \subseteq reached
        BY <1>0, <1>1, <1>2, CountUp
    <2> QED
        BY <1>0, <2>1
<1>4. PICK g : IsUpTo(g, MaxTime)
    BY <1>3
<1> DEFINE f == [t \in 0 .. MaxTime |-> g[t]]
<1>5. Is(f)
    <2>1. ASSUME NEW t \in 0 .. MaxTime
          PROVE  f[t] = IF t = 0 THEN base
                        ELSE IF t \in targets
                             THEN EvaluateWindow(f[t - 1], t, majorities[t], first)
                             ELSE f[t - 1]
        <3>1. CASE t = 0
            BY <1>4, <3>1
        <3>2. CASE t # 0
            <4>1. t \in 1 .. MaxTime /\ f[t] = g[t] /\ f[t - 1] = g[t - 1]
                BY <1>0, <3>2
            <4>2. g[t] = Step(g[t - 1], t)
                BY <1>4, <4>1
            <4> QED
                BY <3>2, <4>1, <4>2
        <3> QED
            BY <3>1, <3>2
    <2> HIDE DEF base
    <2> QED
        BY <2>1
<1> HIDE DEF Is, f
<1>6. Is(CHOOSE h : Is(h))
    BY <1>5, Zenon
<1>7. PICK h : h = (CHOOSE k : Is(k))
    OBVIOUS
<1>8. EvaluateRun(targets, majorities, first) = h[Max(targets)]
    BY <1>7 DEF EvaluateRun, Is, base
<1>9. Is(h)
    BY <1>6, <1>7
<1>10. IsRun(h, targets, majorities, first)
    <2>1. h[0] = base
        <3> HIDE DEF base
        <3> QED
            BY <1>0, <1>9 DEF Is
    <2>2. ASSUME NEW t \in 1 .. MaxTime
          PROVE  h[t] = IF t \in targets
                        THEN EvaluateWindow(h[t - 1], t, majorities[t], first)
                        ELSE h[t - 1]
        <3> HIDE DEF base
        <3> QED
            BY <1>0, <1>9 DEF Is
    <2> QED
        BY <2>1, <2>2 DEF IsRun
<1> QED
    BY <1>8, <1>10

\* And leaves what the windows up to its last target say.
LEMMA RunSays ==
    ASSUME TimesOK, NEW targets \in SUBSET (1 .. MaxTime), targets # {},
           \A t \in targets : t > Passed,
           NEW majorities, NEW first \in BOOLEAN, NEW E,
           SaysOf(telemetry, E, detector_states, Passed, first)
    PROVE  LET result == EvaluateRun(targets, majorities, first)
           IN  /\ SaysOf(telemetry, E \cup result.events, result.states, Max(targets), first)
               /\ KindsOK(result.events)
               /\ StatesOK(detector_states) => TellsRightly(result)
<1> DEFINE Base == [evaluated |-> 0, states |-> detector_states, events |-> {}]
           W(t) == IF t > Passed THEN t ELSE Passed
           Fine(x, t) == /\ SaysOf(telemetry, E \cup x.events, x.states, t, first)
                         /\ KindsOK(x.events)
                         /\ StatesOK(detector_states) => TellsRightly(x)
<1>0. MaxTime \in Nat /\ Passed \in Nat
    BY NetworkAssumption DEF Passed, TimesOK
<1>1. PICK through : /\ IsRun(through, targets, majorities, first)
                     /\ EvaluateRun(targets, majorities, first) = through[Max(targets)]
    BY RunSteps
<1> DEFINE fine == {t \in 0 .. MaxTime : Fine(through[t], W(t))}
<1>2. 0 \in fine
    <2>1. W(0) = Passed
        BY <1>0
    <2>2. /\ Base.states = detector_states /\ E \cup Base.events = E /\ KindsOK(Base.events)
          /\ StatesOK(detector_states) => TellsRightly(Base)
        BY DEF KindsOK, TellsRightly, EndedOnce
    <2>3. through[0] = Base
        BY <1>1 DEF IsRun
    <2> HIDE DEF Base, W
    <2>4. Fine(through[0], W(0))
        BY <2>1, <2>2, <2>3
    <2> HIDE DEF Fine
    <2> QED
        BY <1>0, <2>4
<1>3. ASSUME NEW i \in 0 .. MaxTime - 1, i \in fine
      PROVE  i + 1 \in fine
    <2>1. i + 1 \in 1 .. MaxTime /\ i + 1 \in 0 .. MaxTime /\ (i + 1) - 1 = i
        BY <1>0
    <2>2. W(i) \in Nat /\ W(i + 1) \in Nat /\ W(i) <= W(i + 1)
        BY <1>0
    <2> HIDE DEF W
    <2>3. /\ SaysOf(telemetry, E \cup through[i].events, through[i].states, W(i), first)
          /\ KindsOK(through[i].events)
          /\ StatesOK(detector_states) => TellsRightly(through[i])
        BY <1>3
    <2>4. CASE i + 1 \in targets
        <3>1. W(i) < i + 1 /\ W(i + 1) = i + 1
            BY <1>0, <2>4 DEF W
        <3>2. through[i + 1] = EvaluateWindow(through[i], i + 1, majorities[i + 1], first)
            BY <1>1, <2>1, <2>4 DEF IsRun
        <3>3. PICK e \in 1 .. MaxTime : e = i + 1
            BY <2>1
        <3>4. PICK x, t, majority : x = through[i] /\ t = W(i) /\ majority = majorities[i + 1]
            OBVIOUS
        <3>5. /\ t \in Nat /\ t < e /\ SaysOf(telemetry, E \cup x.events, x.states, t, first)
              /\ KindsOK(x.events)
              /\ StatesOK(detector_states) => TellsRightly(x)
            BY <2>2, <2>3, <3>1, <3>3, <3>4
        <3>6. PICK y : y = EvaluateWindow(x, e, majority, first)
            OBVIOUS
        <3>7. SaysOf(telemetry, E \cup y.events, y.states, e, first) /\ KindsOK(y.events)
            BY <3>5, <3>6, WindowSays
        <3>8. StatesOK(detector_states) => TellsRightly(y)
            BY <3>5, <3>6, WindowTellsRightly
        <3> QED
            BY <2>1, <3>1, <3>2, <3>3, <3>4, <3>6, <3>7, <3>8
    <2>5. CASE i + 1 \notin targets
        <3>1. through[i + 1] = through[i]
            BY <1>1, <2>1, <2>5 DEF IsRun
        <3>2. SaysOf(telemetry, E \cup through[i].events, through[i].states, W(i + 1), first)
            BY <2>2, <2>3, TimePasses
        <3> QED
            BY <2>1, <2>3, <3>1, <3>2
    <2> QED
        BY <2>4, <2>5
<1>4. Max(targets) \in targets
    <2>1. targets \in SUBSET (0 .. MaxTime)
        BY <1>0
    <2> QED
        BY <1>0, <2>1, GreatestIs
<1>5. Max(targets) \in fine
    <2> HIDE DEF fine
    <2>1. 0 .. MaxTime \subseteq fine
        BY <1>0, <1>2, <1>3, CountUp
    <2>2. 1 .. MaxTime \subseteq 0 .. MaxTime
        BY <1>0
    <2> QED
        BY <1>4, <2>1, <2>2
<1>6. W(Max(targets)) = Max(targets)
    BY <1>4
<1> HIDE DEF W
<1> QED
    BY <1>1, <1>5, <1>6

-----------------------------------------------------------------------------
(* What is kept of a run's events *)

\* Telemetry that arrives changes nothing that was said.
LEMMA TelemetryGrows ==
    ASSUME NEW T, NEW U, \A t \in DOMAIN T : t \in DOMAIN U /\ U[t] = T[t],
           NEW E, NEW states, NEW t, NEW first, SaysOf(T, E, states, t, first)
    PROVE  SaysOf(U, E, states, t, first)
<1>1. \A u \in DOMAIN T : \A r, f : ValuesAt(U, u, r, f) = ValuesAt(T, u, r, f)
    BY DEF ValuesAt, RowsOf
<1>2. ASSUME NEW r \in Reps, NEW f \in Fields
      PROVE  FieldSays(U, ChangesIn(E, r, f), states[r].settled[f], r, f, t)
    <2>1. FieldSays(T, ChangesIn(E, r, f), states[r].settled[f], r, f, t)
        BY DEF SaysOf
    <2> QED
        BY <1>1, <2>1 DEF FieldSays, ChangedBefore
<1> QED
    BY <1>2 DEF SaysOf

\* Every event inserted is stored under its id, by now or before.
LEMMA InsertedIs ==
    ASSUME NEW events, NEW at, network_events' = Inserted(events, at)
    PROVE  /\ Stored \subseteq Stored' /\ Stored' \subseteq Stored \cup events
           /\ \A e \in Stored \cup events : \E d \in Stored' : EventId(d) = EventId(e)
<1> DEFINE new == {x \in events : \A y \in network_events : EventId(y.event) # EventId(x)}
<1>1. Stored' = Stored \cup new
    <2>1. Stored' = {x.event : x \in network_events'}
        BY DEF Stored
    <2>2. network_events' = network_events \cup {[event |-> e, recorded_at |-> at] : e \in new}
        BY DEF Inserted
    <2> HIDE DEF new
    <2> DEFINE row(e) == [event |-> e, recorded_at |-> at]
    <2>3. \A e : row(e).event = e
        OBVIOUS
    <2>4. network_events' = network_events \cup {row(e) : e \in new}
        BY <2>2
    <2> HIDE DEF row
    <2> QED
        BY <2>1, <2>3, <2>4 DEF Stored
<1>2. \A e \in events : e \notin new => \E d \in Stored : EventId(d) = EventId(e)
    BY DEF Stored
<1> QED
    BY <1>1, <1>2

\* Ids tell what is told.
LEMMA SameTold ==
    ASSUME NEW E, NEW F, F \subseteq E,
           \A e \in E : \E d \in F : EventId(d) = EventId(e)
    PROVE  \A a, type, phase : ToldKeys(F, a, type, phase) = ToldKeys(E, a, type, phase)
<1>1. \A e, d : EventId(d) = EventId(e) =>
          d.account = e.account /\ d.type = e.type /\ d.phase = e.phase /\ d.key = e.key
    BY DEF EventId
<1> QED
    BY <1>1 DEF ToldKeys

\* And which changes, when no two are of one time.
LEMMA SameChanges ==
    ASSUME NEW T, NEW E, NEW F, F \subseteq E,
           \A e \in E : \E d \in F : EventId(d) = EventId(e),
           NEW r, NEW f, NEW t, ChangedBefore(T, ChangesIn(E, r, f), r, f, t)
    PROVE  ChangesIn(F, r, f) = ChangesIn(E, r, f)
<1>1. ASSUME NEW e \in ChangesIn(E, r, f)
      PROVE  e \in ChangesIn(F, r, f)
    <2>1. PICK d \in F : EventId(d) = EventId(e)
        BY DEF ChangesIn
    <2>2. d.account = e.account /\ d.type = e.type /\ d.key = e.key
        BY <2>1 DEF EventId
    <2>3. d \in ChangesIn(E, r, f)
        BY <2>2 DEF ChangesIn
    <2>4. d.observed_at = e.observed_at
        BY <2>2, <2>3 DEF ChangedBefore
    <2>5. d = e
        BY <2>3, <2>4 DEF ChangedBefore
    <2> QED
        BY <2>2, <2>5 DEF ChangesIn
<1> QED
    BY <1>1 DEF ChangesIn

LEMMA SameSays ==
    ASSUME NEW T, NEW E, NEW F, F \subseteq E,
           \A e \in E : \E d \in F : EventId(d) = EventId(e),
           NEW states, NEW t, NEW first, SaysOf(T, E, states, t, first)
    PROVE  SaysOf(T, F, states, t, first)
<1>1. \A a, type, phase : ToldKeys(F, a, type, phase) = ToldKeys(E, a, type, phase)
    BY SameTold
<1>2. \A r \in Reps, f \in Fields : ChangesIn(F, r, f) = ChangesIn(E, r, f)
    BY SameChanges DEF SaysOf, FieldSays
<1> QED
    BY <1>1, <1>2 DEF SaysOf, AgreesWith, BeganBefore

\* A probe's events are none of the detector's conditions and fields.
LEMMA ProbeTells ==
    ASSUME NEW T, NEW E, NEW F, E \subseteq F, \A e \in F \ E : e.type = RpcType,
           NEW states, NEW t, NEW first, SaysOf(T, E, states, t, first)
    PROVE  SaysOf(T, F, states, t, first)
<1>1. RpcType \notin Conditions \cup Fields
    BY DEF RpcType, Conditions, Fields
<1>2. ASSUME NEW a, NEW c \in Conditions, NEW phase
      PROVE  ToldKeys(F, a, c, phase) = ToldKeys(E, a, c, phase)
    BY <1>1 DEF ToldKeys
<1>3. ASSUME NEW r, NEW f \in Fields
      PROVE  ChangesIn(F, r, f) = ChangesIn(E, r, f)
    BY <1>1 DEF ChangesIn
<1> QED
    BY <1>2, <1>3 DEF SaysOf, AgreesWith, BeganBefore

\* Nor the detector's of the probe's.
LEMMA DetectorTells ==
    ASSUME NEW E, NEW F, E \subseteq F, KindsOK(F \ E), NEW a, NEW phase
    PROVE  ToldKeys(F, a, RpcType, phase) = ToldKeys(E, a, RpcType, phase)
<1>1. RpcType \notin Conditions \cup Fields
    BY DEF RpcType, Conditions, Fields
<1> QED
    BY <1>1 DEF ToldKeys, KindsOK

-----------------------------------------------------------------------------
(* The invariant, step by step *)

\* Neither feed nor states nor runs change.
LEMMA FeedRests ==
    ASSUME FeedInv, TimesOK',
           \A t \in DOMAIN telemetry : t \in DOMAIN telemetry' /\ telemetry'[t] = telemetry[t],
           UNCHANGED <<watermark, detector_states, probe_states, network_events, detector,
                       probe, probed_at>>
    PROVE  FeedInv'
<1>1. \A E, states, t, first : SaysOf(telemetry, E, states, t, first)
                                   => SaysOf(telemetry', E, states, t, first)
    BY TelemetryGrows
<1>2. Stored' = Stored /\ Passed' = Passed
    BY DEF Stored, Passed
<1>3. DetectorOK'
    BY <1>1, <1>2 DEF FeedInv, DetectorOK
<1>4. ProbeOK'
    BY <1>2 DEF FeedInv, ProbeOK
<1> QED
    BY <1>3, <1>4 DEF FeedInv

LEMMA TickKeeps ==
    ASSUME FeedInv, Tick
    PROVE  FeedInv'
<1>1. TimesOK'
    BY NetworkAssumption DEF FeedInv, TimesOK, Tick
<1> QED
    BY <1>1, FeedRests DEF Tick

LEMMA ImportKeeps ==
    ASSUME FeedInv, NEW t \in 1 .. MaxTime, NEW rows \in Rounds, ImportTelemetry(t, rows)
    PROVE  FeedInv'
<1>1. /\ DOMAIN telemetry' = DOMAIN telemetry \cup {t} /\ telemetry'[t] = rows
      /\ \A u \in DOMAIN telemetry : telemetry'[u] = telemetry[u]
    BY DEF ImportTelemetry
<1>2. TimesOK'
    BY <1>1 DEF FeedInv, TimesOK, ImportTelemetry
<1> QED
    BY <1>1, <1>2, FeedRests DEF ImportTelemetry

\* Only the detector's run changes.
LEMMA DetectorRuns ==
    ASSUME FeedInv,
           UNCHANGED <<now, telemetry, watermark, detector_states, probe_states,
                       network_events, probe, probed_at>>,
           detector'.step \in {"idle", "listed", "writing"},
           detector'.step = "listed" =>
             /\ detector'.targets # {} /\ detector'.targets \subseteq DOMAIN telemetry
             /\ \A t \in detector'.targets : t > Passed,
           detector'.step = "writing" =>
             /\ detector'.watermark \in 1 .. MaxTime
             /\ KindsOK(detector'.events)
             /\ SaysOf(telemetry, Stored \cup detector'.events, detector'.states,
                       detector'.watermark, FALSE)
    PROVE  FeedInv'
<1>1. Stored' = Stored /\ Passed' = Passed
    BY DEF Stored, Passed
<1>2. TimesOK'
    BY DEF FeedInv, TimesOK
<1>3. DetectorOK'
    BY <1>1 DEF FeedInv, DetectorOK
<1>4. ProbeOK'
    BY <1>1 DEF FeedInv, ProbeOK
<1> QED
    BY <1>2, <1>3, <1>4 DEF FeedInv

LEMMA ListKeeps ==
    ASSUME FeedInv, ListSnapshots
    PROVE  FeedInv'
<1>1. \A t \in Targets : t \in DOMAIN telemetry /\ (watermark = Null \/ t > watermark)
    BY DEF Targets
<1>2. \A t \in Targets : t > Passed
    BY <1>1 DEF FeedInv, TimesOK, Passed
<1>3. detector'.step = "listed" /\ detector'.targets = Targets /\ Targets # {}
    BY DEF ListSnapshots
<1> QED
    BY <1>1, <1>2, <1>3, DetectorRuns DEF ListSnapshots

LEMMA EvaluateKeeps ==
    ASSUME FeedInv, Evaluate
    PROVE  FeedInv'
<1>1. /\ detector.targets # {} /\ detector.targets \subseteq DOMAIN telemetry
      /\ \A t \in detector.targets : t > Passed
      /\ SaysOf(telemetry, Stored, detector_states, Passed, watermark = Null)
    BY DEF FeedInv, DetectorOK, Evaluate
<1>2. PICK majorities \in MajoritiesOf(detector.targets) :
          detector' = LET result == EvaluateRun(detector.targets, majorities, watermark = Null)
                      IN  IF Writes(watermark = Null, result.evaluated)
                          THEN [ step |-> "writing", states |-> result.states,
                                 events |-> result.events,
                                 watermark |-> Max(detector.targets), recorded_at |-> now ]
                          ELSE NoRun
    BY DEF Evaluate
<1>3. PICK result : result = EvaluateRun(detector.targets, majorities, watermark = Null)
    OBVIOUS
<1>4. detector.targets \in SUBSET (1 .. MaxTime)
    BY <1>1 DEF FeedInv, TimesOK
<1>5. /\ SaysOf(telemetry, Stored \cup result.events, result.states, Max(detector.targets),
                watermark = Null)
      /\ KindsOK(result.events)
    <2>1. PICK first \in BOOLEAN : first = (watermark = Null)
        OBVIOUS
    <2>2. PICK targets \in SUBSET (1 .. MaxTime) : targets = detector.targets
        BY <1>4
    <2>3. SaysOf(telemetry, Stored, detector_states, Passed, first)
        BY <1>1, <2>1
    <2>4. result = EvaluateRun(targets, majorities, first)
        BY <1>3, <2>1, <2>2
    <2>5. SaysOf(telemetry, Stored \cup result.events, result.states, Max(targets), first)
          /\ KindsOK(result.events)
        BY <1>1, <2>2, <2>3, <2>4, RunSays DEF FeedInv
    <2> QED
        BY <2>1, <2>2, <2>5
<1>6. SaysOf(telemetry, Stored \cup result.events, result.states, Max(detector.targets), FALSE)
    BY <1>5 DEF SaysOf
<1>7. Max(detector.targets) \in 1 .. MaxTime
    <2>1. detector.targets \in SUBSET (0 .. MaxTime) /\ MaxTime \in Nat
        BY <1>4, NetworkAssumption
    <2>2. Max(detector.targets) \in detector.targets
        BY <1>1, <2>1, GreatestIs
    <2> QED
        BY <1>4, <2>2
<1>8. CASE Writes(watermark = Null, result.evaluated)
    <2>1. /\ detector'.step = "writing" /\ detector'.states = result.states
          /\ detector'.events = result.events
          /\ detector'.watermark = Max(detector.targets)
        BY <1>2, <1>3, <1>8
    <2> QED
        BY <1>5, <1>6, <1>7, <2>1, DetectorRuns DEF Evaluate
<1>9. CASE ~ Writes(watermark = Null, result.evaluated)
    <2>1. detector'.step = "idle"
        BY <1>2, <1>3, <1>9 DEF NoRun
    <2> QED
        BY <2>1, DetectorRuns DEF Evaluate
<1> QED
    BY <1>8, <1>9

LEMMA CommitKeeps ==
    ASSUME FeedInv, DetectorCommits
    PROVE  FeedInv'
<1>1. /\ detector.watermark \in 1 .. MaxTime /\ KindsOK(detector.events)
      /\ SaysOf(telemetry, Stored \cup detector.events, detector.states, detector.watermark,
                FALSE)
    BY DEF FeedInv, DetectorOK, DetectorCommits
<1>2. /\ Stored \subseteq Stored' /\ Stored' \subseteq Stored \cup detector.events
      /\ \A e \in Stored \cup detector.events : \E d \in Stored' : EventId(d) = EventId(e)
    <2>1. network_events' = Inserted(detector.events, detector.recorded_at)
        BY DEF DetectorCommits
    <2> QED
        BY <2>1, InsertedIs
<1>3. watermark' = detector.watermark /\ watermark' # Null /\ Passed' = watermark'
    BY <1>1, NetworkAssumption, NullAssumption DEF DetectorCommits, Passed
<1>4. TimesOK'
    BY <1>1, <1>3 DEF FeedInv, TimesOK, DetectorCommits
<1>5. DetectorOK'
    <2>1. PICK F : F = Stored'
        OBVIOUS
    <2>2. SaysOf(telemetry, F, detector.states, detector.watermark, FALSE)
        BY <1>1, <1>2, <2>1, SameSays
    <2>3. (watermark = Null)' = FALSE
        BY <1>3
    <2>4. /\ telemetry' = telemetry /\ detector_states' = detector.states
          /\ detector'.step = "idle"
        BY DEF DetectorCommits, NoRun
    <2> QED
        BY <1>3, <2>1, <2>2, <2>3, <2>4 DEF DetectorOK
<1>6. ProbeOK'
    <2>1. PICK F : F = Stored'
        OBVIOUS
    <2>2. KindsOK(F \ Stored) /\ Stored \subseteq F
        BY <1>1, <1>2, <2>1 DEF KindsOK
    <2>3. \A a, phase : ToldKeys(F, a, RpcType, phase) = ToldKeys(Stored, a, RpcType, phase)
        BY <2>2, DetectorTells
    <2>4. KindsOK((F \cup probe.events) \ (Stored \cup probe.events))
        BY <2>2 DEF KindsOK
    <2>5. \A a, phase : ToldKeys(F \cup probe.events, a, RpcType, phase) =
                            ToldKeys(Stored \cup probe.events, a, RpcType, phase)
        BY <2>2, <2>4, DetectorTells
    <2>6. probe' = probe /\ probe_states' = probe_states /\ probed_at' = probed_at
        BY DEF DetectorCommits
    <2>7. ASSUME NEW a \in Reps
          PROVE  /\ AgreesWith(F, a, RpcType, probe_states[a])
                 /\ \A k \in ToldKeys(F, a, RpcType, "began") :
                       /\ k.at \in Nat /\ k.at <= probed_at
                       /\ probe.step # "idle" => k.at < probed_at
        BY <2>3 DEF FeedInv, ProbeOK, AgreesWith
    <2>8. ASSUME NEW a \in Reps, probe.step = "writing"
          PROVE  AgreesWith(F \cup probe.events, a, RpcType, probe.states[a])
        BY <2>5, <2>8 DEF FeedInv, ProbeOK, AgreesWith
    <2>9. /\ probe.step \in {"idle", "probing", "writing"}
          /\ probe.step = "writing" =>
               /\ \A e \in probe.events : e.type = RpcType
               /\ \A a \in Reps : \A k \in ToldKeys(probe.events, a, RpcType, "began") :
                     k.at \in Nat /\ k.at <= probed_at
        BY DEF FeedInv, ProbeOK
    <2> QED
        BY <2>1, <2>6, <2>7, <2>8, <2>9 DEF ProbeOK
<1> QED
    BY <1>4, <1>5, <1>6 DEF FeedInv

LEMMA DetectorFailureKeeps ==
    ASSUME FeedInv, DetectorFails
    PROVE  FeedInv'
<1>1. detector'.step = "idle"
    BY DEF DetectorFails, NoRun
<1> QED
    BY <1>1, DetectorRuns DEF DetectorFails

\* Only the probe's run changes.
LEMMA ProbeRuns ==
    ASSUME FeedInv,
           UNCHANGED <<now, telemetry, watermark, detector_states, probe_states,
                       network_events, detector>>,
           probed_at' \in probed_at .. now,
           probe'.step \in {"idle", "probing", "writing"},
           probe'.step # "idle" => probe.step # "idle" \/ probed_at < probed_at',
           probe'.step = "writing" =>
             /\ \A e \in probe'.events : e.type = RpcType
             /\ \A a \in Reps :
                  /\ AgreesWith(Stored \cup probe'.events, a, RpcType, probe'.states[a])
                  /\ \A k \in ToldKeys(probe'.events, a, RpcType, "began") :
                        k.at \in Nat /\ k.at <= probed_at'
    PROVE  FeedInv'
<1>0. now \in Nat /\ probed_at \in Nat /\ probed_at' \in Nat
    BY NetworkAssumption DEF FeedInv, TimesOK
<1>1. Stored' = Stored /\ Passed' = Passed
    BY DEF Stored, Passed
<1>2. TimesOK'
    BY <1>0 DEF FeedInv, TimesOK
<1>3. DetectorOK'
    BY <1>1 DEF FeedInv, DetectorOK
<1>4. ASSUME NEW a \in Reps, NEW k \in ToldKeys(Stored, a, RpcType, "began")
      PROVE  k.at \in Nat /\ k.at <= probed_at' /\ (probe'.step # "idle" => k.at < probed_at')
    <2>1. k.at \in Nat /\ k.at <= probed_at /\ (probe.step # "idle" => k.at < probed_at)
        BY DEF FeedInv, ProbeOK
    <2> QED
        BY <1>0, <2>1
<1>5. ProbeOK'
    BY <1>1, <1>4 DEF FeedInv, ProbeOK
<1> QED
    BY <1>2, <1>3, <1>5 DEF FeedInv

LEMMA StartKeeps ==
    ASSUME FeedInv, StartProbe
    PROVE  FeedInv'
<1>1. probe'.step = "probing" /\ probed_at' = now /\ probed_at < now
    BY DEF StartProbe
<1>2. now \in Nat /\ probed_at \in Nat
    BY NetworkAssumption DEF FeedInv, TimesOK
<1>3. probed_at' \in probed_at .. now
    BY <1>1, <1>2
<1> QED
    BY <1>1, <1>3, ProbeRuns DEF StartProbe

LEMMA AnswersKeep ==
    ASSUME FeedInv, AnswersArrive
    PROVE  FeedInv'
<1>1. PICK enabled \in [probe.accounts ->
                  {IsRpcControlEnabled(results) : results \in SUBSET RpcResults \ {{}}}] :
         LET opened == {a \in probe.accounts : enabled[a] = TRUE /\ probe_states[a] = Null}
             closed == {a \in probe.accounts : enabled[a] = FALSE /\ probe_states[a] # Null}
         IN  probe' = [ step |-> "writing", recorded_at |-> now,
                        states |-> [a \in Reps |->
                                      IF a \in opened THEN Key(probed_at, Null)
                                      ELSE IF a \in closed THEN Null
                                      ELSE probe_states[a]],
                        events |-> {Began(a, RpcType, Key(probed_at, Null)) : a \in opened}
                                   \cup {Ended(a, RpcType, probe_states[a], probed_at) :
                                            a \in closed} ]
    BY DEF AnswersArrive
<1> DEFINE opened == {a \in probe.accounts : enabled[a] = TRUE /\ probe_states[a] = Null}
           closed == {a \in probe.accounts : enabled[a] = FALSE /\ probe_states[a] # Null}
           key == Key(probed_at, Null)
           began == {Began(a, RpcType, key) : a \in opened}
           ended == {Ended(a, RpcType, probe_states[a], probed_at) : a \in closed}
           N == began \cup ended
<1>2. /\ probe'.step = "writing" /\ probe'.events = N
      /\ \A a \in Reps : probe'.states[a] = IF a \in opened THEN key
                                            ELSE IF a \in closed THEN Null
                                            ELSE probe_states[a]
    BY <1>1
<1>3. /\ \A a \in opened : probe_states[a] = Null
      /\ \A a \in closed : probe_states[a] # Null
    OBVIOUS
<1>4. key # Null /\ key.at = probed_at /\ probed_at \in Nat /\ now \in Nat /\ probed_at <= now
    <2>1. probed_at \in 0 .. MaxTime /\ probed_at \in Nat /\ now \in Nat /\ probed_at <= now
        BY NetworkAssumption DEF FeedInv, TimesOK
    <2> QED
        BY <2>1, NullAssumption DEF Key
<1> HIDE DEF opened, closed, key
<1>5. \A e \in N : e.type = RpcType
    BY DEF Began, Ended, Event
<1>6. ASSUME NEW a
      PROVE  /\ ToldKeys(N, a, RpcType, "began") = IF a \in opened THEN {key} ELSE {}
             /\ ToldKeys(N, a, RpcType, "ended") = IF a \in closed THEN {probe_states[a]} ELSE {}
    <2>1. \A e \in N : e.account = a /\ e.phase = "began" => a \in opened /\ e.key = key
        BY DEF Began, Ended, Event
    <2>2. a \in opened => \E e \in N : /\ e.account = a /\ e.type = RpcType
                                       /\ e.phase = "began" /\ e.key = key
        <3>1. a \in opened => Began(a, RpcType, key) \in N
            OBVIOUS
        <3>2. /\ Began(a, RpcType, key).account = a /\ Began(a, RpcType, key).type = RpcType
              /\ Began(a, RpcType, key).phase = "began" /\ Began(a, RpcType, key).key = key
            BY DEF Began, Event
        <3> HIDE DEF N
        <3> QED
            BY <3>1, <3>2
    <2>3. \A e \in N : e.account = a /\ e.phase = "ended" =>
              a \in closed /\ e.key = probe_states[a]
        BY DEF Began, Ended, Event
    <2>4. a \in closed => \E e \in N : /\ e.account = a /\ e.type = RpcType
                                       /\ e.phase = "ended" /\ e.key = probe_states[a]
        <3> DEFINE end == Ended(a, RpcType, probe_states[a], probed_at)
        <3>1. a \in closed => end \in N
            OBVIOUS
        <3>2. /\ end.account = a /\ end.type = RpcType
              /\ end.phase = "ended" /\ end.key = probe_states[a]
            BY DEF Ended, Event
        <3> HIDE DEF N, end
        <3> QED
            BY <3>1, <3>2
    <2> HIDE DEF N
    <2> QED
        BY <2>1, <2>2, <2>3, <2>4 DEF ToldKeys
<1> HIDE DEF N
<1>7. ASSUME NEW a \in Reps
      PROVE  AgreesWith(Stored \cup N, a, RpcType, probe'.states[a])
    <2>1. \A phase : ToldKeys(Stored \cup N, a, RpcType, phase) =
              ToldKeys(Stored, a, RpcType, phase) \cup ToldKeys(N, a, RpcType, phase)
        BY DEF ToldKeys
    <2>2. AgreesWith(Stored, a, RpcType, probe_states[a])
        BY DEF FeedInv, ProbeOK
    <2>3. key \notin ToldKeys(Stored, a, RpcType, "began")
        <3>1. probe.step # "idle"
            BY DEF AnswersArrive
        <3> QED
            BY <1>4, <3>1 DEF FeedInv, ProbeOK
    <2>4. PICK B, D : /\ B = ToldKeys(Stored, a, RpcType, "began")
                      /\ D = ToldKeys(Stored, a, RpcType, "ended")
        OBVIOUS
    <2>5. PICK old, new : old = probe_states[a] /\ new = probe'.states[a]
        OBVIOUS
    <2>6. D \subseteq B /\ B \ D = {old} \ {Null} /\ key \notin B
        BY <2>2, <2>3, <2>4, <2>5 DEF AgreesWith
    <2>7. CASE a \in opened
        <3>1. old = Null /\ new = key /\ a \notin closed
            BY <1>2, <1>3, <2>5, <2>7
        <3>2. /\ ToldKeys(Stored \cup N, a, RpcType, "began") = B \cup {key}
              /\ ToldKeys(Stored \cup N, a, RpcType, "ended") = D
            BY <1>6, <2>1, <2>4, <2>7, <3>1
        <3>3. D \subseteq B \cup {key} /\ (B \cup {key}) \ D = {new} \ {Null}
            BY <1>4, <2>6, <3>1
        <3> QED
            BY <2>5, <3>2, <3>3 DEF AgreesWith
    <2>8. CASE a \in closed
        <3>1. old # Null /\ new = Null /\ a \notin opened
            BY <1>2, <1>3, <2>5, <2>8
        <3>2. /\ ToldKeys(Stored \cup N, a, RpcType, "began") = B
              /\ ToldKeys(Stored \cup N, a, RpcType, "ended") = D \cup {old}
            BY <1>6, <2>1, <2>4, <2>5, <2>8, <3>1
        <3>3. D \cup {old} \subseteq B /\ B \ (D \cup {old}) = {new} \ {Null}
            BY <2>6, <3>1
        <3> QED
            BY <2>5, <3>2, <3>3 DEF AgreesWith
    <2>9. CASE a \notin opened /\ a \notin closed
        <3>1. new = old
            BY <1>2, <2>5, <2>9
        <3>2. /\ ToldKeys(Stored \cup N, a, RpcType, "began") = B
              /\ ToldKeys(Stored \cup N, a, RpcType, "ended") = D
            BY <1>6, <2>1, <2>4, <2>9
        <3> QED
            BY <2>5, <2>6, <3>1, <3>2 DEF AgreesWith
    <2> QED
        BY <2>7, <2>8, <2>9
<1>8. \A a \in Reps : \A k \in ToldKeys(N, a, RpcType, "began") :
          k.at \in Nat /\ k.at <= probed_at
    BY <1>4, <1>6
<1>9. probed_at' = probed_at /\ probed_at' \in probed_at .. now /\ probe.step # "idle"
    BY <1>4 DEF AnswersArrive
<1> QED
    BY <1>2, <1>5, <1>7, <1>8, <1>9, ProbeRuns DEF AnswersArrive

LEMMA ProbeCommitKeeps ==
    ASSUME FeedInv, ProbeCommits
    PROVE  FeedInv'
<1>1. /\ \A e \in probe.events : e.type = RpcType
      /\ \A a \in Reps :
           /\ AgreesWith(Stored \cup probe.events, a, RpcType, probe.states[a])
           /\ \A k \in ToldKeys(probe.events, a, RpcType, "began") :
                 k.at \in Nat /\ k.at <= probed_at
    BY DEF FeedInv, ProbeOK, ProbeCommits
<1>2. /\ Stored \subseteq Stored' /\ Stored' \subseteq Stored \cup probe.events
      /\ \A e \in Stored \cup probe.events : \E d \in Stored' : EventId(d) = EventId(e)
    <2>1. network_events' = Inserted(probe.events, probe.recorded_at)
        BY DEF ProbeCommits
    <2> QED
        BY <2>1, InsertedIs
<1>3. PICK F : F = Stored'
    OBVIOUS
<1>4. Passed' = Passed
    BY DEF ProbeCommits, Passed
<1>5. TimesOK'
    BY DEF FeedInv, TimesOK, ProbeCommits
<1>6. DetectorOK'
    <2>1. /\ telemetry' = telemetry /\ detector_states' = detector_states
          /\ detector' = detector /\ watermark' = watermark
        BY DEF ProbeCommits
    <2>2. SaysOf(telemetry, F, detector_states, Passed, watermark = Null)
        <3>1. PICK first : first = (watermark = Null)
            OBVIOUS
        <3>2. SaysOf(telemetry, Stored, detector_states, Passed, first)
            BY <3>1 DEF FeedInv, DetectorOK
        <3>3. SaysOf(telemetry, F, detector_states, Passed, first)
            BY <1>1, <1>2, <1>3, <3>2, ProbeTells
        <3> QED
            BY <3>1, <3>3
    <2>3. ASSUME detector.step = "writing"
          PROVE  SaysOf(telemetry, F \cup detector.events, detector.states,
                        detector.watermark, FALSE)
        <3>1. SaysOf(telemetry, Stored \cup detector.events, detector.states,
                     detector.watermark, FALSE)
            BY <2>3 DEF FeedInv, DetectorOK
        <3>2. /\ Stored \cup detector.events \subseteq F \cup detector.events
              /\ \A e \in (F \cup detector.events) \ (Stored \cup detector.events) :
                    e.type = RpcType
            BY <1>1, <1>2, <1>3
        <3> QED
            BY <3>1, <3>2, ProbeTells
    <2> QED
        BY <1>3, <1>4, <2>1, <2>2, <2>3 DEF FeedInv, DetectorOK
<1>7. ProbeOK'
    <2>1. probe'.step = "idle" /\ probe_states' = probe.states /\ probed_at' = probed_at
        BY DEF ProbeCommits, NoRun
    <2>2. \A a, phase : ToldKeys(F, a, RpcType, phase) =
                            ToldKeys(Stored \cup probe.events, a, RpcType, phase)
        BY <1>2, <1>3, SameTold
    <2>3. ASSUME NEW a \in Reps
          PROVE  AgreesWith(F, a, RpcType, probe.states[a])
        BY <1>1, <2>2 DEF AgreesWith
    <2>4. ASSUME NEW a \in Reps, NEW k \in ToldKeys(F, a, RpcType, "began")
          PROVE  k.at \in Nat /\ k.at <= probed_at
        <3>1. k \in ToldKeys(Stored, a, RpcType, "began")
                \/ k \in ToldKeys(probe.events, a, RpcType, "began")
            BY <2>2 DEF ToldKeys
        <3> QED
            BY <1>1, <3>1 DEF FeedInv, ProbeOK
    <2> QED
        BY <1>3, <2>1, <2>3, <2>4 DEF ProbeOK
<1> QED
    BY <1>5, <1>6, <1>7 DEF FeedInv

LEMMA ProbeFailureKeeps ==
    ASSUME FeedInv, ProbeFails
    PROVE  FeedInv'
<1>1. probe'.step = "idle" /\ probed_at' = probed_at
    BY DEF ProbeFails, NoRun
<1>2. probed_at' \in probed_at .. now
    BY <1>1, NetworkAssumption DEF FeedInv, TimesOK
<1> QED
    BY <1>1, <1>2, ProbeRuns DEF ProbeFails

LEMMA FeedStarts ==
    ASSUME EventsInit
    PROVE  FeedInv
<1>1. Stored = {} /\ Passed = 0
    BY DEF EventsInit, Stored, Passed
<1>2. TimesOK
    BY NetworkAssumption DEF EventsInit, TimesOK
<1>3. /\ \A a \in Reps, c \in Conditions : detector_states[a].open[c] = Null
      /\ \A a \in Reps, f \in Fields : detector_states[a].settled[f] = Null
      /\ \A a \in Reps : probe_states[a] = Null
    BY DEF EventsInit, NothingKnown
<1>4. \A a, type, phase : ToldKeys({}, a, type, phase) = {} /\ ChangesIn({}, a, type) = {}
    BY DEF ToldKeys, ChangesIn
<1>5. SaysOf(telemetry, {}, detector_states, 0, watermark = Null)
    BY <1>3, <1>4 DEF SaysOf, AgreesWith, BeganBefore, FieldSays, Chained, ChangedBefore
<1>6. DetectorOK
    BY <1>1, <1>5 DEF DetectorOK, EventsInit, NoRun
<1>7. ProbeOK
    BY <1>1, <1>3, <1>4 DEF ProbeOK, EventsInit, NoRun, AgreesWith
<1> QED
    BY <1>2, <1>6, <1>7 DEF FeedInv

LEMMA FeedKept ==
    ASSUME FeedInv, [EventsNext]_eventVars
    PROVE  FeedInv'
<1>1. CASE Tick
    BY <1>1, TickKeeps
<1>2. CASE \E t \in 1 .. MaxTime, rows \in Rounds : ImportTelemetry(t, rows)
    BY <1>2, ImportKeeps
<1>3. CASE DetectorNext
    BY <1>3, ListKeeps, EvaluateKeeps, CommitKeeps, DetectorFailureKeeps DEF DetectorNext
<1>4. CASE ProbeNext
    BY <1>4, StartKeeps, AnswersKeep, ProbeCommitKeeps, ProbeFailureKeeps DEF ProbeNext
<1>5. CASE UNCHANGED eventVars
    <2>1. TimesOK'
        BY <1>5 DEF FeedInv, TimesOK, eventVars
    <2> QED
        BY <1>5, <2>1, FeedRests DEF eventVars
<1> QED
    BY <1>1, <1>2, <1>3, <1>4, <1>5 DEF EventsNext

-----------------------------------------------------------------------------
(* The feed keeps what EventFeed promises *)

AllAgree == \A s \in Reps \X (Conditions \cup {RpcType}) : Feed!Agrees(s)

LEMMA FeedAgrees ==
    ASSUME FeedInv, NEW s \in Reps \X (Conditions \cup {RpcType})
    PROVE  Feed!Agrees(s)
<1>1. PICK a \in Reps, c \in Conditions \cup {RpcType} : s = <<a, c>>
    OBVIOUS
<1>2. ASSUME NEW phase \in {"began", "ended"}
      PROVE  Feed!Told(s, phase) = ToldKeys(Stored, a, c, phase)
    <2> DEFINE row(x) == [subject |-> <<x.event.account, x.event.type>>,
                          phase |-> x.event.phase, key |-> x.event.key]
               parts == {y \in network_events : y.event.phase # "occurred"}
    <2>1. /\ \A x : /\ row(x).subject = <<x.event.account, x.event.type>>
                    /\ row(x).phase = x.event.phase /\ row(x).key = x.event.key
          /\ Told = {row(x) : x \in parts}
        BY DEF Told
    <2> HIDE DEF row
    <2>2. \A x : row(x).subject = s <=> x.event.account = a /\ x.event.type = c
        BY <1>1, <2>1
    <2>3. Feed!Told(s, phase) = {e.key : e \in {f \in Told : f.subject = s /\ f.phase = phase}}
        BY DEF Feed!Told
    <2>4. ASSUME NEW k \in Feed!Told(s, phase)
          PROVE  k \in ToldKeys(Stored, a, c, phase)
        <3>1. PICK e \in Told : e.subject = s /\ e.phase = phase /\ e.key = k
            BY <2>3
        <3>2. PICK x \in network_events : e = row(x)
            BY <2>1
        <3>3. x.event \in Stored
            BY DEF Stored
        <3> QED
            BY <2>1, <2>2, <3>1, <3>2, <3>3 DEF ToldKeys
    <2>5. ASSUME NEW k \in ToldKeys(Stored, a, c, phase)
          PROVE  k \in Feed!Told(s, phase)
        <3>1. PICK x \in network_events : /\ x.event.account = a /\ x.event.type = c
                                          /\ x.event.phase = phase /\ x.event.key = k
            BY DEF ToldKeys, Stored
        <3>2. row(x) \in Told /\ row(x).subject = s /\ row(x).phase = phase /\ row(x).key = k
            BY <2>1, <2>2, <3>1
        <3> QED
            BY <2>3, <3>2
    <2> QED
        BY <2>4, <2>5
<1>3. Open[s] = IF c = RpcType THEN probe_states[a] ELSE detector_states[a].open[c]
    BY <1>1 DEF Open
<1>4. AgreesWith(Stored, a, c, Open[s])
    <2>1. CASE c = RpcType
        BY <1>3, <2>1 DEF FeedInv, ProbeOK
    <2>2. CASE c # RpcType
        BY <1>3, <2>2 DEF FeedInv, DetectorOK, SaysOf
    <2> QED
        BY <2>1, <2>2
<1> QED
    BY <1>2, <1>4 DEF Feed!Agrees, AgreesWith

LEMMA ChangesAreChained ==
    ASSUME FeedInv
    PROVE  ChangesChain
<1>1. ASSUME NEW r, NEW f
      PROVE  ChangesOf(r, f) = ChangesIn(Stored, r, f)
    BY DEF ChangesOf, ChangesIn, Stored
<1>2. \A r \in Reps, f \in Fields :
          Chained(ChangesIn(Stored, r, f), detector_states[r].settled[f])
    BY DEF FeedInv, DetectorOK, SaysOf, FieldSays
<1> QED
    BY <1>1, <1>2 DEF ChangesChain, Chained

LEMMA Tells ==
    ASSUME AllAgree', [EventsNext]_eventVars
    PROVE  Feed!Tell
<1>1. network_events \subseteq network_events'
    BY DEF EventsNext, eventVars, Tick, ImportTelemetry, DetectorNext, ListSnapshots, Evaluate,
           DetectorCommits, DetectorFails, ProbeNext, StartProbe, AnswersArrive, ProbeCommits,
           ProbeFails, Inserted
<1>2. Told \subseteq Told'
    BY <1>1 DEF Told
<1> QED
    BY <1>2 DEF Feed!Tell, AllAgree

\* Every condition of every representative is told began once and ended once,
\* under one key, and the last thing told agrees with the detector's state.
THEOREM ConditionsToldOnce == EventsSpec => ConditionsAreTold
<1>1. EventsInit => Feed!Init
    BY DEF EventsInit, Feed!Init, Open, Told, NothingKnown
<1>2. EventsInit => FeedInv
    BY FeedStarts
<1>3. FeedInv /\ [EventsNext]_eventVars => FeedInv'
    BY FeedKept
<1>4. FeedInv => AllAgree
    BY FeedAgrees DEF AllAgree
<1>5. AllAgree' /\ [EventsNext]_eventVars => [Feed!Tell]_<<Open, Told>>
    BY Tells
<1> QED
    BY <1>1, <1>2, <1>3, <1>4, <1>5, PTL DEF EventsSpec, ConditionsAreTold, Feed!Spec

\* The changes told of a field of a representative follow each other, up to the
\* value the detector holds.
THEOREM ChangesFollow == EventsSpec => []ChangesChain
<1>1. EventsInit => FeedInv
    BY FeedStarts
<1>2. FeedInv /\ [EventsNext]_eventVars => FeedInv'
    BY FeedKept
<1>3. FeedInv => ChangesChain
    BY ChangesAreChained
<1> QED
    BY <1>1, <1>2, <1>3, PTL DEF EventsSpec

-----------------------------------------------------------------------------
(***************************************************************************)
(* The archive.  No watermark passes a row by, as long as a transaction    *)
(* stays open for less than the overlap.  A row is dated no earlier than   *)
(* MaxWrite before it arrives, so it is newer than what is live by then    *)
(* less the overlap; and a watermark is the time of a row that is archived *)
(* or 0.  A run that has read rows and not written them is the hard part:  *)
(* what arrives meanwhile must be newer than everything it has read, for   *)
(* the watermark moves up to that.                                         *)
(***************************************************************************)
IsWriting(run) == run.recorded_at \in 1 .. now /\ now <= run.recorded_at + MaxWrite

\* Rows and snapshots are dated when they were written, or a little earlier.
ClockInv ==
    /\ now \in 1 .. MaxTime
    /\ DOMAIN telemetry \subseteq 1 .. now
    /\ late \subseteq DOMAIN telemetry
    /\ \A x \in network_events : x.recorded_at \in 1 .. now
    /\ \A run \in {detector, probe} : run.step = "writing" => IsWriting(run)

\* What the archive should have and does not.
Missing(table) == Live(table) \ (archive[table] \cup LateRows(table))

TableOK(table) ==
    /\ archive[table] \subseteq Live(table)
    /\ marks[table] \in {Null, 0} \cup {TimeOf(table, r) : r \in archive[table]}
    /\ MaxWrite < Overlap =>
         \A r \in Missing(table) : TimeOf(table, r) > Bootstrap(table) - OverlapOf(table)

\* What a run has read of a table, and what it has not.
HasRead(table, rows) ==
    /\ marks[table] # Null
    /\ rows \subseteq Live(table)
    /\ MaxWrite < Overlap =>
         \A r \in Missing(table) \ rows, s \in rows :
            TimeOf(table, r) > TimeOf(table, s) - OverlapOf(table)

ArchiveInv ==
    /\ DOMAIN archive = Tables /\ DOMAIN marks = Tables
    /\ \A table \in Tables : TableOK(table)
    /\ archiving.step \in {"idle", "watermark", "copied"}
    /\ archiving.step # "idle" => archiving.at \in DOMAIN DELTA_RUN_ORDER
    /\ archiving.step = "copied" => HasRead(DELTA_RUN_ORDER[archiving.at], archiving.rows)

LEMMA ClockStarts ==
    ASSUME EventsInit
    PROVE  ClockInv
    BY NetworkAssumption DEF EventsInit, ClockInv, NoRun

LEMMA ClockKept ==
    ASSUME ClockInv, [EventsNext]_eventVars
    PROVE  ClockInv'
<1>0. MaxTime \in Nat /\ MaxWrite \in Nat /\ now \in Nat
    BY NetworkAssumption DEF ClockInv
<1>1. CASE Tick
    <2>1. /\ now' = now + 1 /\ now' \in 1 .. MaxTime
          /\ UNCHANGED <<telemetry, late, network_events, detector, probe>>
        BY <1>0, <1>1 DEF ClockInv, Tick
    <2>2. ASSUME NEW run \in {detector, probe}, run.step = "writing"
          PROVE  run.recorded_at \in 1 .. now' /\ now' <= run.recorded_at + MaxWrite
        <3>1. now < run.recorded_at + MaxWrite /\ IsWriting(run)
            BY <1>1, <2>2 DEF Tick, ClockInv
        <3> QED
            BY <1>0, <2>1, <3>1 DEF IsWriting
    <2> QED
        BY <1>0, <2>1, <2>2 DEF ClockInv, IsWriting
<1>2. CASE \E t \in 1 .. MaxTime, rows \in Rounds : ImportTelemetry(t, rows)
    <2>1. PICK t \in 1 .. MaxTime, rows \in Rounds : ImportTelemetry(t, rows)
        BY <1>2
    <2>2. /\ DOMAIN telemetry' = DOMAIN telemetry \cup {t} /\ t <= now
          /\ late' \subseteq late \cup {t}
          /\ UNCHANGED <<now, network_events, detector, probe>>
        BY <2>1 DEF ImportTelemetry
    <2> QED
        BY <2>2 DEF ClockInv, IsWriting
<1>3. CASE ListSnapshots \/ DetectorFails \/ StartProbe \/ ProbeFails \/ UNCHANGED eventVars
    <2>1. UNCHANGED <<now, telemetry, late, network_events>>
        BY <1>3 DEF ListSnapshots, DetectorFails, StartProbe, ProbeFails, eventVars
    <2>2. /\ detector' = detector \/ detector'.step # "writing"
          /\ probe' = probe \/ probe'.step # "writing"
        BY <1>3 DEF ListSnapshots, DetectorFails, StartProbe, ProbeFails, eventVars, NoRun
    <2> QED
        BY <2>1, <2>2 DEF ClockInv, IsWriting
<1>4. CASE Evaluate
    <2>1. /\ UNCHANGED <<now, telemetry, late, network_events, probe>>
          /\ detector'.step = "writing" => detector'.recorded_at = now
        BY <1>4 DEF Evaluate, NoRun
    <2> QED
        BY <1>0, <2>1 DEF ClockInv, IsWriting
<1>5. CASE AnswersArrive
    <2>1. /\ UNCHANGED <<now, telemetry, late, network_events, detector>>
          /\ probe'.step = "writing" => probe'.recorded_at = now
        BY <1>5 DEF AnswersArrive
    <2> QED
        BY <1>0, <2>1 DEF ClockInv, IsWriting
<1>6. CASE DetectorCommits \/ ProbeCommits
    <2>1. PICK run \in {detector, probe} :
              run.step = "writing" /\ network_events' = Inserted(run.events, run.recorded_at)
        BY <1>6 DEF DetectorCommits, ProbeCommits
    <2>2. /\ UNCHANGED <<now, telemetry, late>>
          /\ detector' = detector \/ detector'.step # "writing"
          /\ probe' = probe \/ probe'.step # "writing"
        BY <1>6 DEF DetectorCommits, ProbeCommits, NoRun
    <2>3. \A x \in network_events' : x \in network_events \/ x.recorded_at = run.recorded_at
        BY <2>1 DEF Inserted
    <2>4. run.recorded_at \in 1 .. now
        BY <2>1 DEF ClockInv, IsWriting
    <2>5. \A x \in network_events' : x.recorded_at \in 1 .. now'
        BY <2>2, <2>3, <2>4 DEF ClockInv
    <2> QED
        BY <2>2, <2>5 DEF ClockInv, IsWriting
<1> QED
    BY <1>1, <1>2, <1>3, <1>4, <1>5, <1>6 DEF EventsNext, DetectorNext, ProbeNext

LEMMA LiveTimes ==
    ASSUME ClockInv, NEW table \in Tables
    PROVE  \A r \in Live(table) : TimeOf(table, r) \in 1 .. now
    BY DEF ClockInv, Live, TimeOf

LEMMA Overlaps ==
    ASSUME NEW table \in Tables
    PROVE  OverlapOf(table) \in Nat
    BY OverlapAssumption DEF OverlapOf

LEMMA LatestIs ==
    ASSUME NEW table, NEW rows, NEW floor \in 0 .. MaxTime,
           \A r \in rows : TimeOf(table, r) \in 0 .. MaxTime
    PROVE  LET latest == Latest(table, rows, floor)
           IN  /\ latest \in 0 .. MaxTime
               /\ latest \in {floor} \cup {TimeOf(table, r) : r \in rows}
               /\ floor <= latest /\ \A r \in rows : TimeOf(table, r) <= latest
<1> DEFINE times == {floor} \cup {TimeOf(table, r) : r \in rows}
<1>1. times \in SUBSET (0 .. MaxTime) /\ times # {} /\ MaxTime \in Nat
    BY NetworkAssumption
<1>2. Max(times) \in times /\ \A t \in times : t <= Max(times)
    <2> HIDE DEF times
    <2> QED
        BY <1>1, GreatestIs
<1>3. Latest(table, rows, floor) = Max(times)
    BY DEF Latest
<1>4. floor \in times /\ \A r \in rows : TimeOf(table, r) \in times
    OBVIOUS
<1> QED
    BY <1>1, <1>2, <1>3, <1>4

\* The watermark a run starts from is the time of an archived row, or 0.
LEMMA BootstrapIs ==
    ASSUME ClockInv, NEW table \in Tables, archive[table] \subseteq Live(table),
           marks[table] \in {Null, 0} \cup {TimeOf(table, r) : r \in archive[table]}
    PROVE  /\ Bootstrap(table) \in 0 .. MaxTime /\ Bootstrap(table) # Null
           /\ Bootstrap(table) \in {0} \cup {TimeOf(table, r) : r \in archive[table]}
           /\ marks[table] = Null =>
                \A r \in archive[table] : TimeOf(table, r) <= Bootstrap(table)
<1>1. \A r \in archive[table] : TimeOf(table, r) \in 0 .. MaxTime
    <2>1. now \in 1 .. MaxTime /\ MaxTime \in Nat
        BY NetworkAssumption DEF ClockInv
    <2>2. \A r \in Live(table) : TimeOf(table, r) \in 1 .. now
        BY LiveTimes
    <2> QED
        BY <2>1, <2>2
<1>2. 0 \in 0 .. MaxTime /\ Null \notin 0 .. MaxTime
    BY NetworkAssumption, NullAssumption
<1>3. CASE marks[table] = Null
    <2>1. Bootstrap(table) = Latest(table, archive[table], 0)
        BY <1>3 DEF Bootstrap
    <2> QED
        BY <1>1, <1>2, <2>1, LatestIs
<1>4. CASE marks[table] # Null
    <2>1. Bootstrap(table) = marks[table]
        BY <1>4 DEF Bootstrap
    <2> QED
        BY <1>1, <1>2, <1>4, <2>1
<1> QED
    BY <1>3, <1>4

\* What arrives is newer than what is live, less the overlap, or late.
LEMMA RowsArrive ==
    ASSUME ClockInv, [EventsNext]_eventVars, NEW table \in Tables
    PROVE  /\ Live(table) \subseteq Live(table)'
           /\ LateRows(table) \subseteq LateRows(table)'
           /\ MaxWrite < Overlap =>
                \A r \in Live(table)' \ (Live(table) \cup LateRows(table)') :
                 /\ TimeOf(table, r) \in 1 .. MaxTime
                 /\ \A s \in Live(table) : TimeOf(table, r) > TimeOf(table, s) - OverlapOf(table)
<1>0. MaxTime \in Nat /\ MaxWrite \in Nat /\ Overlap \in Nat /\ now \in 1 .. MaxTime
    BY NetworkAssumption, OverlapAssumption DEF ClockInv
<1>1. CASE UNCHANGED <<telemetry, late, network_events>>
    BY <1>1 DEF Live, LateRows
<1>2. CASE \E t \in 1 .. MaxTime, rows \in Rounds : ImportTelemetry(t, rows)
    <2>1. PICK t \in 1 .. MaxTime, rows \in Rounds : ImportTelemetry(t, rows)
        BY <1>2
    <2>2. /\ DOMAIN telemetry' = DOMAIN telemetry \cup {t}
          /\ late' = IF \E u \in DOMAIN telemetry : u > t THEN late \cup {t} ELSE late
          /\ t \notin DOMAIN telemetry /\ network_events' = network_events
        BY <2>1 DEF ImportTelemetry
    <2>3. CASE table = "network_events"
        BY <2>2, <2>3 DEF Live, LateRows
    <2>4. CASE table # "network_events"
        <3> DEFINE row(u) == [timestamp |-> u]
        <3>1. /\ Live(table) = {row(u) : u \in DOMAIN telemetry}
              /\ Live(table)' = {row(u) : u \in DOMAIN telemetry \cup {t}}
              /\ \A r : TimeOf(table, r) = r.timestamp
              /\ OverlapOf(table) = 0 /\ table = "representatives_telemetry"
            BY <2>2, <2>4 DEF Live, TimeOf, OverlapOf, Tables, DELTA_RUN_ORDER
        <3>2. \A u : row(u).timestamp = u
            OBVIOUS
        <3> HIDE DEF row
        <3>3. Live(table) \subseteq Live(table)'
            BY <3>1
        <3>4. LateRows(table) \subseteq LateRows(table)'
            BY <2>2, <3>1, <3>3 DEF LateRows
        <3>5. ASSUME NEW r \in Live(table)' \ (Live(table) \cup LateRows(table)')
              PROVE  /\ TimeOf(table, r) \in 1 .. MaxTime
                     /\ \A s \in Live(table) :
                           TimeOf(table, r) > TimeOf(table, s) - OverlapOf(table)
            <4>1. r = row(t) /\ r.timestamp = t /\ TimeOf(table, r) = t
                BY <3>1, <3>2
            <4>2. t \notin late'
                BY <3>1, <4>1 DEF LateRows
            <4>3. \A u \in DOMAIN telemetry : u \in 1 .. now /\ t > u
                BY <1>0, <2>2, <4>2 DEF ClockInv
            <4> QED
                BY <1>0, <3>1, <3>2, <4>1, <4>3
        <3> QED
            BY <3>3, <3>4, <3>5
    <2> QED
        BY <2>3, <2>4
<1>3. CASE DetectorCommits \/ ProbeCommits
    <2>1. PICK run \in {detector, probe} :
              run.step = "writing" /\ network_events' = Inserted(run.events, run.recorded_at)
        BY <1>3 DEF DetectorCommits, ProbeCommits
    <2>2. telemetry' = telemetry /\ late' = late
        BY <1>3 DEF DetectorCommits, ProbeCommits
    <2>3. CASE table = "network_events"
        <3>1. /\ Live(table) = network_events /\ Live(table)' = network_events'
              /\ \A r : TimeOf(table, r) = r.recorded_at
              /\ OverlapOf(table) = Overlap
              /\ LateRows(table) = {}
            BY <2>3 DEF Live, TimeOf, OverlapOf, LateRows
        <3>2. network_events \subseteq network_events'
            BY <2>1 DEF Inserted
        <3>3. ASSUME MaxWrite < Overlap, NEW r \in network_events' \ network_events
              PROVE  /\ r.recorded_at \in 1 .. MaxTime
                     /\ \A s \in network_events : r.recorded_at > s.recorded_at - Overlap
            <4>1. r.recorded_at = run.recorded_at
                BY <2>1 DEF Inserted
            <4>2. run.recorded_at \in 1 .. now /\ now <= run.recorded_at + MaxWrite
                BY <2>1 DEF ClockInv, IsWriting
            <4>3. \A s \in network_events : s.recorded_at \in 1 .. now
                BY DEF ClockInv
            <4> QED
                BY <1>0, <3>3, <4>1, <4>2, <4>3
        <3> QED
            BY <3>1, <3>2, <3>3
    <2>4. CASE table # "network_events"
        BY <2>2, <2>4 DEF Live, LateRows
    <2> QED
        BY <2>3, <2>4
<1> QED
    BY <1>1, <1>2, <1>3 DEF EventsNext, DetectorNext, ProbeNext, Tick, ListSnapshots, Evaluate,
       DetectorFails, StartProbe, AnswersArrive, ProbeFails, eventVars

\* Rows that arrive leave the watermarks and a run that goes on right.
LEMMA ArrivalsKeep ==
    ASSUME ClockInv, ClockInv', ArchiveInv, [EventsNext]_eventVars, UNCHANGED archiveVars
    PROVE  ArchiveInv'
<1>1. archive' = archive /\ marks' = marks /\ archiving' = archiving
    BY DEF archiveVars
<1>2. \A table : Bootstrap(table)' = Bootstrap(table)
    BY <1>1 DEF Bootstrap, Latest
<1>3. ASSUME NEW table \in Tables
      PROVE  /\ Live(table) \subseteq Live(table)'
             /\ MaxWrite < Overlap => \A r \in Missing(table)' :
                   \/ r \in Missing(table)
                   \/ /\ TimeOf(table, r) \in 1 .. MaxTime
                      /\ \A s \in Live(table) :
                            TimeOf(table, r) > TimeOf(table, s) - OverlapOf(table)
    <2>1. /\ Live(table) \subseteq Live(table)'
          /\ LateRows(table) \subseteq LateRows(table)'
          /\ MaxWrite < Overlap =>
               \A r \in Live(table)' \ (Live(table) \cup LateRows(table)') :
                /\ TimeOf(table, r) \in 1 .. MaxTime
                /\ \A s \in Live(table) : TimeOf(table, r) > TimeOf(table, s) - OverlapOf(table)
        BY <1>3, RowsArrive
    <2> QED
        BY <1>1, <2>1 DEF Missing
<1>4. ASSUME NEW table \in Tables
      PROVE  TableOK(table)'
    <2>1. TableOK(table) /\ OverlapOf(table) \in Nat
        BY Overlaps DEF ArchiveInv
    <2>2. archive[table] \subseteq Live(table)'
        BY <1>3, <2>1 DEF TableOK
    <2>3. Bootstrap(table) \in {0} \cup {TimeOf(table, r) : r \in archive[table]}
        BY <2>1, BootstrapIs DEF TableOK
    <2>4. ASSUME MaxWrite < Overlap, NEW r \in Missing(table)'
          PROVE  TimeOf(table, r) > Bootstrap(table) - OverlapOf(table)
        <3>1. CASE r \in Missing(table)
            BY <2>1, <2>4, <3>1 DEF TableOK
        <3>2. CASE r \notin Missing(table)
            <4>1. /\ TimeOf(table, r) \in 1 .. MaxTime
                  /\ \A s \in archive[table] :
                        TimeOf(table, r) > TimeOf(table, s) - OverlapOf(table)
                BY <1>3, <2>1, <2>4, <3>2 DEF TableOK
            <4>2. CASE Bootstrap(table) = 0
                BY <2>1, <4>1, <4>2, NetworkAssumption
            <4> QED
                BY <2>3, <4>1, <4>2
        <3> QED
            BY <3>1, <3>2
    <2>5. \A r : TimeOf(table, r)' = TimeOf(table, r)
        BY DEF TimeOf
    <2>6. marks'[table] \in {Null, 0} \cup {TimeOf(table, r) : r \in archive'[table]}
        BY <1>1, <2>1 DEF TableOK
    <2> QED
        BY <1>1, <1>2, <2>2, <2>4, <2>6 DEF TableOK
<1>5. ASSUME archiving.step = "copied"
      PROVE  HasRead(DELTA_RUN_ORDER[archiving.at], archiving.rows)'
    <2>1. PICK table \in Tables : table = DELTA_RUN_ORDER[archiving.at]
        BY <1>5 DEF ArchiveInv, Tables
    <2>2. HasRead(table, archiving.rows)
        BY <1>5, <2>1 DEF ArchiveInv
    <2>3. HasRead(table, archiving.rows)'
        BY <1>1, <1>3, <2>2 DEF HasRead
    <2> QED
        BY <1>1, <2>1, <2>3
<1> QED
    BY <1>1, <1>4, <1>5 DEF ArchiveInv

\* The live database stays as it is while the archive moves.
LEMMA ArchiveLooks ==
    ASSUME ArchiveNext
    PROVE  UNCHANGED <<now, telemetry, late, watermark, detector_states, probe_states,
                       network_events, detector, probe, probed_at>>
    BY DEF ArchiveNext, eventVars

\* A table the step leaves alone.
LEMMA OtherTable ==
    ASSUME NEW table, TableOK(table), UNCHANGED <<now, telemetry, late, network_events>>,
           archive'[table] = archive[table], marks'[table] = marks[table]
    PROVE  TableOK(table)'
<1>1. Live(table)' = Live(table) /\ LateRows(table)' = LateRows(table)
    BY DEF Live, LateRows
<1>2. Missing(table)' = Missing(table) /\ Bootstrap(table)' = Bootstrap(table)
    BY <1>1 DEF Missing, Bootstrap, Latest
<1> QED
    BY <1>1, <1>2 DEF TableOK

LEMMA BulkCopyKeeps ==
    ASSUME ClockInv, ArchiveInv, UNCHANGED <<now, telemetry, late, network_events>>,
           NEW until \in 1 .. now, BulkCopy(until)
    PROVE  ArchiveInv'
<1> DEFINE T == "representatives_telemetry"
           copied == {r \in Live(T) : r.timestamp <= until}
<1>0. now \in 1 .. MaxTime /\ MaxTime \in Nat
    BY NetworkAssumption DEF ClockInv
<1>1. /\ T \in Tables /\ marks[T] = Null /\ OverlapOf(T) = 0
      /\ \A r : TimeOf(T, r) = r.timestamp
    BY DEF BulkCopy, Tables, DELTA_RUN_ORDER, OverlapOf, TimeOf
<1>2. /\ DOMAIN archive' = Tables /\ archive'[T] = archive[T] \cup copied
      /\ \A table \in Tables : table # T => archive'[table] = archive[table]
      /\ marks' = marks /\ archiving' = archiving /\ archiving.step = "idle"
    BY <1>1 DEF BulkCopy, ArchiveInv
<1>3. Live(T)' = Live(T) /\ LateRows(T)' = LateRows(T)
    BY DEF Live, LateRows
<1>4. TableOK(T)
    BY <1>1 DEF ArchiveInv
<1> HIDE DEF T
<1>5. \A r \in Live(T) : r.timestamp \in 1 .. now
    BY <1>1, LiveTimes
<1>6. archive'[T] \subseteq Live(T) /\ \A r \in archive'[T] : TimeOf(T, r) \in 0 .. MaxTime
    BY <1>0, <1>1, <1>2, <1>4, <1>5 DEF TableOK
<1>7. /\ Bootstrap(T) \in 0 .. MaxTime
      /\ \A r \in archive[T] : TimeOf(T, r) <= Bootstrap(T)
    BY <1>1, <1>4, BootstrapIs DEF TableOK
<1>8. PICK rows : rows = archive'[T]
    OBVIOUS
<1>9. Bootstrap(T)' = Latest(T, rows, 0)
    BY <1>1, <1>2, <1>8 DEF Bootstrap, Latest, TimeOf
<1>10. Latest(T, rows, 0) \in {0} \cup {TimeOf(T, r) : r \in rows}
    <2>1. 0 \in 0 .. MaxTime
        BY <1>0
    <2> QED
        BY <1>6, <1>8, <2>1, LatestIs
<1>11. ASSUME MaxWrite < Overlap, NEW r \in Missing(T)'
       PROVE  TimeOf(T, r) > Latest(T, rows, 0)
    <2>1. r \in Missing(T) /\ r \notin copied /\ r \in Live(T)
        BY <1>2, <1>3 DEF Missing
    <2>2. r.timestamp > Bootstrap(T) /\ r.timestamp > until
        BY <1>0, <1>1, <1>4, <1>5, <1>7, <1>11, <2>1 DEF TableOK
    <2>3. \A s \in rows : r.timestamp > TimeOf(T, s)
        <3> SUFFICES ASSUME NEW s \in rows
                     PROVE  r.timestamp > TimeOf(T, s)
            OBVIOUS
        <3>1. CASE s \in archive[T]
            BY <1>0, <1>1, <1>4, <1>5, <1>7, <2>1, <2>2, <3>1 DEF TableOK
        <3>2. CASE s \in copied
            BY <1>0, <1>1, <1>5, <2>1, <2>2, <3>2
        <3> QED
            BY <1>2, <1>8, <3>1, <3>2
    <2>4. r.timestamp > 0
        BY <1>0, <1>5, <2>1
    <2> QED
        BY <1>1, <1>10, <2>3, <2>4
<1>12. TableOK(T)'
    <2>1. /\ (archive[T] \subseteq Live(T))'
          /\ (marks[T] \in {Null, 0} \cup {TimeOf(T, r) : r \in archive[T]})'
        BY <1>1, <1>2, <1>3, <1>6
    <2>2. (MaxWrite < Overlap =>
              \A r \in Missing(T) : TimeOf(T, r) > Bootstrap(T) - OverlapOf(T))'
        <3>1. Latest(T, rows, 0) \in 0 .. MaxTime
            BY <1>0, <1>6, <1>8, LatestIs
        <3>2. ASSUME MaxWrite < Overlap, NEW r \in Missing(T)'
              PROVE  TimeOf(T, r) > Bootstrap(T)' - OverlapOf(T)
            BY <1>0, <1>1, <1>9, <1>11, <3>1, <3>2
        <3>3. \A r : TimeOf(T, r)' = TimeOf(T, r)
            BY DEF TimeOf
        <3> QED
            BY <3>2, <3>3
    <2> QED
        BY <2>1, <2>2 DEF TableOK
<1>13. ASSUME NEW table \in Tables
       PROVE  TableOK(table)'
    BY <1>2, <1>12, OtherTable DEF ArchiveInv
<1> QED
    BY <1>2, <1>13 DEF ArchiveInv

LEMMA ReadKeeps ==
    ASSUME ClockInv, ArchiveInv, UNCHANGED <<now, telemetry, late, network_events>>, ReadDelta
    PROVE  ArchiveInv'
<1>1. PICK table \in Tables : table = DELTA_RUN_ORDER[archiving.at]
    BY DEF ReadDelta, ArchiveInv, Tables
<1>2. PICK mark : mark = Bootstrap(table)
    OBVIOUS
<1>3. /\ archive' = archive /\ DOMAIN marks' = Tables /\ marks'[table] = mark
      /\ \A other \in Tables : other # table => marks'[other] = marks[other]
      /\ archiving' = [step |-> "copied", at |-> archiving.at, rows |-> Behind(table, mark)]
      /\ archiving.at \in DOMAIN DELTA_RUN_ORDER
    BY <1>1, <1>2 DEF ReadDelta, ArchiveInv
<1>4. /\ Live(table)' = Live(table) /\ LateRows(table)' = LateRows(table)
      /\ Missing(table)' = Missing(table)
    BY <1>3 DEF Live, LateRows, Missing
<1>5. TableOK(table)
    BY DEF ArchiveInv
<1>6. mark # Null /\ mark \in {0} \cup {TimeOf(table, r) : r \in archive[table]}
    BY <1>2, <1>5, BootstrapIs DEF TableOK
<1>7. Bootstrap(table)' = mark
    BY <1>3, <1>6 DEF Bootstrap
<1>8. \A r : TimeOf(table, r)' = TimeOf(table, r)
    BY DEF TimeOf
<1>9. TableOK(table)'
    BY <1>2, <1>3, <1>4, <1>5, <1>6, <1>7, <1>8 DEF TableOK
<1>10. ASSUME NEW other \in Tables
       PROVE  TableOK(other)'
    BY <1>3, <1>9, OtherTable DEF ArchiveInv
<1>11. MaxWrite < Overlap => Missing(table) \ Behind(table, mark) = {}
    BY <1>2, <1>5 DEF TableOK, Behind, Missing
<1>12. HasRead(table, Behind(table, mark))'
    <2>1. marks'[table] # Null
        BY <1>3, <1>6
    <2>2. Behind(table, mark)' = Behind(table, mark)
        BY <1>4, <1>8 DEF Behind
    <2>3. Behind(table, mark) \subseteq Live(table)
        BY DEF Behind
    <2> QED
        BY <1>4, <1>11, <2>1, <2>2, <2>3 DEF HasRead
<1>13. HasRead(DELTA_RUN_ORDER[archiving.at], archiving.rows)'
    <2>1. archiving'.at = archiving.at /\ archiving'.rows = Behind(table, mark)
        BY <1>3
    <2>2. Behind(table, mark)' = Behind(table, mark)
        BY <1>4, <1>8 DEF Behind
    <2> QED
        BY <1>1, <1>12, <2>1, <2>2
<1>14. archiving'.step = "copied" /\ archiving'.at \in DOMAIN DELTA_RUN_ORDER
    BY <1>3
<1> QED
    BY <1>3, <1>10, <1>13, <1>14 DEF ArchiveInv

LEMMA ArchiveCommitKeeps ==
    ASSUME ClockInv, ArchiveInv, UNCHANGED <<now, telemetry, late, network_events>>,
           ArchiveCommits
    PROVE  ArchiveInv'
<1>1. PICK table \in Tables : table = DELTA_RUN_ORDER[archiving.at]
    BY DEF ArchiveCommits, ArchiveInv, Tables
<1>2. PICK rows : rows = archiving.rows
    OBVIOUS
<1>3. PICK mark : mark = Latest(table, rows, marks[table])
    OBVIOUS
<1>4. /\ DOMAIN archive' = Tables /\ archive'[table] = archive[table] \cup rows
      /\ DOMAIN marks' = Tables /\ marks'[table] = mark
      /\ \A other \in Tables : other # table =>
            archive'[other] = archive[other] /\ marks'[other] = marks[other]
    BY <1>1, <1>2, <1>3 DEF ArchiveCommits, MarkAfter, ArchiveInv
<1>5. HasRead(table, rows) /\ TableOK(table) /\ OverlapOf(table) \in Nat
    BY <1>1, <1>2, Overlaps DEF ArchiveCommits, ArchiveInv
<1>6. \A r \in Live(table) : TimeOf(table, r) \in 1 .. now
    BY LiveTimes
<1>7. now \in 1 .. MaxTime /\ MaxTime \in Nat
    BY NetworkAssumption DEF ClockInv
<1>8. Bootstrap(table) \in 0 .. MaxTime /\ Bootstrap(table) = marks[table]
    BY <1>5, BootstrapIs DEF TableOK, HasRead, Bootstrap
<1>9. /\ mark \in 0 .. MaxTime
      /\ mark \in {marks[table]} \cup {TimeOf(table, r) : r \in rows}
    <2>1. \A r \in rows : TimeOf(table, r) \in 0 .. MaxTime
        BY <1>5, <1>6, <1>7 DEF HasRead
    <2> QED
        BY <1>3, <1>8, <2>1, LatestIs
<1>10. Live(table)' = Live(table) /\ LateRows(table)' = LateRows(table)
    BY DEF Live, LateRows
<1>11. ASSUME MaxWrite < Overlap, NEW r \in Missing(table)'
       PROVE  TimeOf(table, r) > mark - OverlapOf(table)
    <2>1. r \in Missing(table) \ rows
        BY <1>4, <1>10 DEF Missing
    <2>2. TimeOf(table, r) > marks[table] - OverlapOf(table)
        BY <1>5, <1>8, <1>11, <2>1 DEF TableOK
    <2>3. \A s \in rows : TimeOf(table, r) > TimeOf(table, s) - OverlapOf(table)
        BY <1>5, <1>11, <2>1 DEF HasRead
    <2> QED
        BY <1>9, <2>2, <2>3
<1>12. TableOK(table)'
    <2>1. archive'[table] \subseteq Live(table)'
        BY <1>4, <1>5, <1>10 DEF TableOK, HasRead
    <2>2. marks'[table] \in {Null, 0} \cup {TimeOf(table, r) : r \in archive'[table]}
        BY <1>4, <1>5, <1>9 DEF TableOK
    <2>3. Bootstrap(table)' = mark
        BY <1>4, <1>7, <1>9, NullAssumption DEF Bootstrap
    <2>4. \A r : TimeOf(table, r)' = TimeOf(table, r)
        BY DEF TimeOf
    <2> QED
        BY <1>11, <2>1, <2>2, <2>3, <2>4 DEF TableOK
<1>13. ASSUME NEW other \in Tables
       PROVE  TableOK(other)'
    BY <1>4, <1>12, OtherTable DEF ArchiveInv
<1>14. /\ archiving'.step \in {"idle", "watermark"}
       /\ archiving'.step # "idle" => archiving'.at \in DOMAIN DELTA_RUN_ORDER
    BY DEF ArchiveCommits, ArchiveInv, NotArchiving, DELTA_RUN_ORDER
<1> QED
    BY <1>4, <1>13, <1>14 DEF ArchiveInv

\* A run that starts or fails has read nothing.
LEMMA RunChanges ==
    ASSUME ArchiveInv, UNCHANGED <<now, telemetry, late, network_events, archive, marks>>,
           archiving' \in {NotArchiving, [step |-> "watermark", at |-> 1]}
    PROVE  ArchiveInv'
<1>1. ASSUME NEW table \in Tables
      PROVE  TableOK(table)'
    BY OtherTable DEF ArchiveInv
<1>2. /\ archiving'.step \in {"idle", "watermark"}
      /\ archiving'.step # "idle" => archiving'.at \in DOMAIN DELTA_RUN_ORDER
    BY DEF NotArchiving, DELTA_RUN_ORDER
<1> QED
    BY <1>1, <1>2 DEF ArchiveInv

DataInv == ClockInv /\ ArchiveInv

LEMMA DataStarts ==
    ASSUME EventsInit, ArchiveInit
    PROVE  DataInv
<1>1. ClockInv
    BY ClockStarts
<1>2. ASSUME NEW table \in Tables
      PROVE  TableOK(table)
    BY DEF EventsInit, ArchiveInit, TableOK, Missing, Live
<1>3. ArchiveInv
    BY <1>2 DEF ArchiveInit, NotArchiving, ArchiveInv
<1> QED
    BY <1>1, <1>3 DEF DataInv

LEMMA ArchiveKept ==
    ASSUME DataInv, ArchiveNext
    PROVE  DataInv'
<1>1. UNCHANGED <<now, telemetry, late, network_events, detector, probe>>
    BY ArchiveLooks
<1>2. ClockInv'
    BY <1>1 DEF DataInv, ClockInv, IsWriting
<1>3. ArchiveInv'
    <2>1. ClockInv /\ ArchiveInv
        BY DEF DataInv
    <2>2. CASE \E until \in 1 .. now : BulkCopy(until)
        BY <1>1, <2>1, <2>2, BulkCopyKeeps
    <2>3. CASE ReadDelta
        BY <1>1, <2>1, <2>3, ReadKeeps
    <2>4. CASE ArchiveCommits
        BY <1>1, <2>1, <2>4, ArchiveCommitKeeps
    <2>5. CASE StartArchive \/ ArchiveFails
        BY <1>1, <2>1, <2>5, RunChanges DEF StartArchive, ArchiveFails
    <2> QED
        BY <2>2, <2>3, <2>4, <2>5 DEF ArchiveNext, ArchiveStep
<1> QED
    BY <1>2, <1>3 DEF DataInv

LEMMA DataKept ==
    ASSUME DataInv, [DataNext]_dataVars
    PROVE  DataInv'
<1>1. CASE ArchiveNext
    BY <1>1, ArchiveKept
<1>2. CASE [EventsNext]_eventVars /\ UNCHANGED archiveVars
    BY <1>2, ClockKept, ArrivalsKeep DEF DataInv
<1> QED
    BY <1>1, <1>2 DEF DataNext, dataVars

LEMMA PassesNothing ==
    ASSUME DataInv
    PROVE  ArchiveTypeOK /\ (MaxWrite < Overlap => NothingIsPassedBy)
    BY DEF DataInv, ArchiveInv, TableOK, Missing, Behind, ArchiveTypeOK, NothingIsPassedBy

\* However runs of the archive, of the detectors and of the imports interleave
\* and die, the next run of the archive reads every row it has not yet, but for
\* snapshots inserted after a newer one.  A transaction must be shorter than the
\* overlap; that is what DELTA_OVERLAP_SECONDS counts on.
THEOREM ArchivePassesNothingBy ==
    ASSUME MaxWrite < Overlap
    PROVE  DataSpec => []NothingIsPassedBy
<1>1. DataInit => DataInv
    BY DataStarts DEF DataInit
<1>2. DataInv /\ [DataNext]_dataVars => DataInv'
    BY DataKept
<1>3. DataInv => NothingIsPassedBy
    BY PassesNothing
<1> QED
    BY <1>1, <1>2, <1>3, PTL DEF DataSpec

-----------------------------------------------------------------------------
(***************************************************************************)
(* Types.  No identity is stored twice: an insert skips those stored, and  *)
(* a run has no two events of one identity.  A change is told once for     *)
(* each window start, what began says all there is in its key, and what    *)
(* ends was open, so that no event of the feed or of the run has ended it. *)
(* States and watermark name snapshots that are there.                     *)
(***************************************************************************)
\* What a run is about to insert.
RowsToInsert(run) ==
    /\ \A e, d \in run.events : EventId(e) = EventId(d) => e = d
    /\ \A e \in run.events : e.account \in Reps /\ e.observed_at \in 0 .. run.recorded_at

IsRow(x) ==
    /\ x.event.account \in Reps
    /\ x.event.observed_at \in 0 .. x.recorded_at

RowsInv ==
    /\ watermark \in {Null} \cup DOMAIN telemetry
    /\ StatesOK(detector_states)
    /\ \A x \in network_events : IsRow(x)
    /\ \A x, y \in network_events : EventId(x.event) = EventId(y.event) => x = y
    /\ detector.step = "writing" =>
         /\ RowsToInsert(detector) /\ StatesOK(detector.states)
         /\ detector.watermark \in DOMAIN telemetry
    /\ probe.step = "probing" => probe.accounts \subseteq Reps
    /\ probe.step = "writing" => RowsToInsert(probe)

\* An event of a run is told by its identity, given the feed it adds to.
LEMMA ToldOnce ==
    ASSUME NEW T, NEW E, NEW run, NEW t, NEW first, SaysOf(T, E \cup run.events, run.states, t, first),
           TellsRightly(run)
    PROVE  \A e, d \in run.events : EventId(e) = EventId(d) => e = d
<1> SUFFICES ASSUME NEW e \in run.events, NEW d \in run.events, EventId(e) = EventId(d)
             PROVE  e = d
    OBVIOUS
<1>1. e.account = d.account /\ e.type = d.type /\ e.phase = d.phase /\ e.key = d.key
    BY DEF EventId
<1>2. IsTelling(e) /\ IsTelling(d)
    BY DEF TellsRightly
<1>3. CASE e.phase = "ended"
    BY <1>3 DEF TellsRightly, EndedOnce
<1>4. CASE e.phase = "began"
    BY <1>1, <1>2, <1>4 DEF IsTelling
<1>5. CASE e.phase = "occurred"
    <2>1. PICK r \in Reps, f \in Fields : r = e.account /\ f = e.type
        BY <1>2, <1>5 DEF IsTelling
    <2>2. e.observed_at = d.observed_at
        BY <1>1, <1>2, <1>5 DEF IsTelling
    <2>3. e \in ChangesIn(E \cup run.events, r, f) /\ d \in ChangesIn(E \cup run.events, r, f)
        BY <1>1, <2>1 DEF ChangesIn
    <2>4. FieldSays(T, ChangesIn(E \cup run.events, r, f), run.states[r].settled[f], r, f, t)
        BY DEF SaysOf
    <2> QED
        BY <2>2, <2>3, <2>4 DEF FieldSays, ChangedBefore
<1> QED
    BY <1>2, <1>3, <1>4, <1>5 DEF IsTelling

\* More telemetry keeps what states name.
LEMMA StatesStay ==
    ASSUME NEW states, StatesOK(states), DOMAIN telemetry \subseteq DOMAIN telemetry'
    PROVE  StatesOK(states)'
    BY DEF StatesOK, IsStateOf

\* Rows inserted are of new identities.
LEMMA InsertedRows ==
    ASSUME ClockInv, RowsInv, NEW run \in {detector, probe}, run.step = "writing",
           network_events' = Inserted(run.events, run.recorded_at)
    PROVE  /\ \A x \in network_events' : IsRow(x)
           /\ \A x, y \in network_events' : EventId(x.event) = EventId(y.event) => x = y
<1>1. RowsToInsert(run) /\ run.recorded_at \in 1 .. now
    BY DEF RowsInv, ClockInv, IsWriting
<1> DEFINE new == {x \in run.events : \A y \in network_events : EventId(y.event) # EventId(x)}
           row(e) == [event |-> e, recorded_at |-> run.recorded_at]
<1>2. network_events' = network_events \cup {row(e) : e \in new}
    BY DEF Inserted
<1>3. \A e : row(e).event = e /\ row(e).recorded_at = run.recorded_at
    OBVIOUS
<1>4. /\ new \subseteq run.events
      /\ \A e \in new, y \in network_events : EventId(y.event) # EventId(e)
    OBVIOUS
<1> HIDE DEF new, row
<1>5. \A x \in network_events' : x \in network_events \/ \E e \in new : x = row(e)
    BY <1>2
<1>6. \A e \in new : IsRow(row(e))
    BY <1>1, <1>3, <1>4 DEF RowsToInsert, IsRow
<1>7. \A x \in network_events' : IsRow(x)
    BY <1>5, <1>6 DEF RowsInv
<1>8. ASSUME NEW x \in network_events', NEW y \in network_events', EventId(x.event) = EventId(y.event)
      PROVE  x = y
    <2>1. CASE x \in network_events /\ y \in network_events
        BY <1>8, <2>1 DEF RowsInv
    <2>2. CASE x \notin network_events /\ y \notin network_events
        <3>1. PICK e \in new, d \in new : x = row(e) /\ y = row(d)
            BY <1>5, <2>2
        <3>2. EventId(e) = EventId(d)
            BY <1>3, <1>8, <3>1
        <3>3. e = d
            BY <1>1, <1>4, <3>2 DEF RowsToInsert
        <3> QED
            BY <3>1, <3>3
    <2>3. CASE x \in network_events /\ y \notin network_events
        BY <1>3, <1>4, <1>5, <1>8, <2>3
    <2>4. CASE x \notin network_events /\ y \in network_events
        <3>1. PICK e \in new : x = row(e)
            BY <1>5, <2>4
        <3>2. EventId(y.event) = EventId(e)
            BY <1>3, <1>8, <3>1
        <3> QED
            BY <1>4, <2>4, <3>2
    <2> QED
        BY <2>1, <2>2, <2>3, <2>4
<1> QED
    BY <1>7, <1>8

LEMMA EvaluatedRows ==
    ASSUME FeedInv, ClockInv, RowsInv, Evaluate
    PROVE  RowsInv'
<1>1. /\ detector.targets # {} /\ detector.targets \subseteq DOMAIN telemetry
      /\ \A t \in detector.targets : t > Passed
      /\ SaysOf(telemetry, Stored, detector_states, Passed, watermark = Null)
    BY DEF FeedInv, DetectorOK, Evaluate
<1>2. PICK majorities \in MajoritiesOf(detector.targets) :
          detector' = LET result == EvaluateRun(detector.targets, majorities, watermark = Null)
                      IN  IF Writes(watermark = Null, result.evaluated)
                          THEN [ step |-> "writing", states |-> result.states,
                                 events |-> result.events,
                                 watermark |-> Max(detector.targets), recorded_at |-> now ]
                          ELSE NoRun
    BY DEF Evaluate
<1>3. PICK result : result = EvaluateRun(detector.targets, majorities, watermark = Null)
    OBVIOUS
<1>4. PICK first \in BOOLEAN : first = (watermark = Null)
    OBVIOUS
<1>5. PICK targets \in SUBSET (1 .. MaxTime) : targets = detector.targets
    BY <1>1 DEF FeedInv, TimesOK
<1>6. SaysOf(telemetry, Stored, detector_states, Passed, first)
    BY <1>1, <1>4
<1>7. result = EvaluateRun(targets, majorities, first)
    BY <1>3, <1>4, <1>5
<1>8. /\ SaysOf(telemetry, Stored \cup result.events, result.states, Max(targets), first)
      /\ TellsRightly(result)
    <2>1. TimesOK /\ StatesOK(detector_states)
        BY DEF FeedInv, RowsInv
    <2> QED
        BY <1>1, <1>5, <1>6, <1>7, <2>1, RunSays
<1>9. \A e, d \in result.events : EventId(e) = EventId(d) => e = d
    BY <1>8, ToldOnce
<1>10. \A e \in result.events : e.account \in Reps /\ e.observed_at \in 0 .. now
    <2>1. \A t \in DOMAIN telemetry : t \in 0 .. now
        BY NetworkAssumption DEF ClockInv
    <2> QED
        BY <1>8, <2>1 DEF TellsRightly, IsTelling
<1>11. Max(targets) \in DOMAIN telemetry
    <2>1. targets \in SUBSET (0 .. MaxTime) /\ MaxTime \in Nat /\ targets # {}
        BY <1>1, <1>5, NetworkAssumption
    <2>2. Max(targets) \in targets
        BY <2>1, GreatestIs
    <2> QED
        BY <1>1, <1>5, <2>2
<1>12. UNCHANGED <<now, telemetry, late, watermark, detector_states, network_events, probe>>
    BY DEF Evaluate
<1>13. detector'.step = "writing" =>
           /\ detector'.states = result.states /\ detector'.events = result.events
           /\ detector'.watermark = Max(targets) /\ detector'.recorded_at = now
    BY <1>2, <1>3, <1>5 DEF NoRun
<1>14. detector'.step = "writing" =>
           /\ RowsToInsert(detector') /\ StatesOK(detector'.states)
           /\ detector'.watermark \in DOMAIN telemetry
    BY <1>8, <1>9, <1>10, <1>11, <1>13 DEF RowsToInsert, TellsRightly
<1>15. \A states : StatesOK(states)' = StatesOK(states)
    BY <1>12 DEF StatesOK, IsStateOf
<1> QED
    BY <1>12, <1>14, <1>15 DEF RowsInv, RowsToInsert

\* A probe opens or closes one condition of an account, not both.
LEMMA AnsweredRows ==
    ASSUME FeedInv, ClockInv, RowsInv, AnswersArrive
    PROVE  RowsInv'
<1>1. PICK opened \in SUBSET probe.accounts, closed \in SUBSET probe.accounts :
          /\ probe'.step = "writing" /\ probe'.recorded_at = now
          /\ probe'.events = {Began(a, RpcType, Key(probed_at, Null)) : a \in opened}
                             \cup {Ended(a, RpcType, probe_states[a], probed_at) : a \in closed}
    <2>1. PICK enabled \in [probe.accounts ->
                  {IsRpcControlEnabled(results) : results \in SUBSET RpcResults \ {{}}}] :
             LET began == {a \in probe.accounts : enabled[a] = TRUE /\ probe_states[a] = Null}
                 ended == {a \in probe.accounts : enabled[a] = FALSE /\ probe_states[a] # Null}
             IN  /\ probe'.step = "writing" /\ probe'.recorded_at = now
                 /\ probe'.events = {Began(a, RpcType, Key(probed_at, Null)) : a \in began}
                                    \cup {Ended(a, RpcType, probe_states[a], probed_at) :
                                             a \in ended}
        BY DEF AnswersArrive
    <2> DEFINE began == {a \in probe.accounts : enabled[a] = TRUE /\ probe_states[a] = Null}
               ended == {a \in probe.accounts : enabled[a] = FALSE /\ probe_states[a] # Null}
    <2>2. began \in SUBSET probe.accounts /\ ended \in SUBSET probe.accounts
        OBVIOUS
    <2> QED
        BY <2>1, <2>2
<1>2. probe.accounts \subseteq Reps
    BY DEF AnswersArrive, RowsInv
<1>3. probed_at \in 0 .. now
    BY DEF FeedInv, TimesOK
<1>4. ASSUME NEW e \in probe'.events
      PROVE  /\ e.account \in Reps /\ e.observed_at = probed_at
             /\ \/ e.phase = "began" /\ e = Began(e.account, RpcType, Key(probed_at, Null))
                \/ /\ e.phase = "ended"
                   /\ e = Ended(e.account, RpcType, probe_states[e.account], probed_at)
    <2>1. CASE \E a \in opened : e = Began(a, RpcType, Key(probed_at, Null))
        BY <1>2, <2>1 DEF Began, Event, Key
    <2>2. CASE \E a \in closed : e = Ended(a, RpcType, probe_states[a], probed_at)
        BY <1>2, <2>2 DEF Ended, Event
    <2> QED
        BY <1>1, <2>1, <2>2
<1>5. ASSUME NEW e \in probe'.events, NEW d \in probe'.events, EventId(e) = EventId(d)
      PROVE  e = d
    <2>1. e.account = d.account /\ e.phase = d.phase
        BY <1>5 DEF EventId
    <2> QED
        BY <1>4, <2>1
<1>6. RowsToInsert(probe')
    BY <1>1, <1>3, <1>4, <1>5 DEF RowsToInsert
<1>7. UNCHANGED <<now, telemetry, late, watermark, detector_states, network_events, detector>>
    BY DEF AnswersArrive
<1>8. \A states : StatesOK(states)' = StatesOK(states)
    BY <1>7 DEF StatesOK, IsStateOf
<1> QED
    BY <1>1, <1>6, <1>7, <1>8 DEF RowsInv, RowsToInsert

LEMMA CommittedRows ==
    ASSUME ClockInv, RowsInv, DetectorCommits \/ ProbeCommits
    PROVE  RowsInv'
<1>1. PICK run \in {detector, probe} :
          run.step = "writing" /\ network_events' = Inserted(run.events, run.recorded_at)
    BY DEF DetectorCommits, ProbeCommits
<1>2. /\ \A x \in network_events' : IsRow(x)
      /\ \A x, y \in network_events' : EventId(x.event) = EventId(y.event) => x = y
    BY <1>1, InsertedRows
<1>3. \A states : StatesOK(states)' = StatesOK(states)
    BY DEF StatesOK, IsStateOf, DetectorCommits, ProbeCommits
<1>4. CASE DetectorCommits
    <2>1. /\ watermark' = detector.watermark /\ detector_states' = detector.states
          /\ detector'.step = "idle" /\ probe' = probe /\ telemetry' = telemetry
          /\ detector.step = "writing"
        BY <1>4 DEF DetectorCommits, NoRun
    <2> QED
        BY <1>2, <1>3, <2>1 DEF RowsInv, RowsToInsert
<1>5. CASE ProbeCommits
    <2>1. /\ UNCHANGED <<telemetry, watermark, detector_states, detector>>
          /\ probe'.step = "idle"
        BY <1>5 DEF ProbeCommits, NoRun
    <2> QED
        BY <1>2, <1>3, <2>1 DEF RowsInv, RowsToInsert
<1> QED
    BY <1>4, <1>5

\* Steps that write nothing and have nothing to write.
LEMMA RowsRest ==
    ASSUME RowsInv, DOMAIN telemetry \subseteq DOMAIN telemetry',
           UNCHANGED <<watermark, detector_states, network_events>>,
           detector' = detector \/ detector'.step # "writing",
           \/ probe' = probe
           \/ probe'.step = "probing" /\ probe'.accounts \subseteq Reps
           \/ probe'.step \notin {"probing", "writing"}
    PROVE  RowsInv'
<1>1. \A states : StatesOK(states) => StatesOK(states)'
    BY StatesStay
<1> QED
    BY <1>1 DEF RowsInv, RowsToInsert

LEMMA RowsKept ==
    ASSUME FeedInv, ClockInv, RowsInv, [EventsNext]_eventVars
    PROVE  RowsInv'
<1>1. CASE Tick \/ UNCHANGED eventVars
    BY <1>1, RowsRest DEF Tick, eventVars
<1>2. CASE \E t \in 1 .. MaxTime, rows \in Rounds : ImportTelemetry(t, rows)
    BY <1>2, RowsRest DEF ImportTelemetry
<1>3. CASE ListSnapshots \/ DetectorFails \/ ProbeFails
    BY <1>3, RowsRest DEF ListSnapshots, DetectorFails, ProbeFails, NoRun
<1>4. CASE StartProbe
    <2>1. Probed \subseteq Reps
        <3>1. \A t : Window(telemetry, t) \in SUBSET DOMAIN telemetry
            BY DEF Window
        <3>2. \A t : Summarized(telemetry, Window(telemetry, t)) \subseteq Reps
            BY <3>1, AccountsAreReps DEF FeedInv
        <3> QED
            BY <3>2 DEF Probed
    <2> QED
        BY <1>4, <2>1, RowsRest DEF StartProbe
<1>5. CASE Evaluate \/ AnswersArrive \/ DetectorCommits \/ ProbeCommits
    BY <1>5, EvaluatedRows, AnsweredRows, CommittedRows
<1> QED
    BY <1>1, <1>2, <1>3, <1>4, <1>5 DEF EventsNext, DetectorNext, ProbeNext

LEMMA RowsStart ==
    ASSUME EventsInit
    PROVE  RowsInv
    BY DEF EventsInit, RowsInv, NothingKnown, NoRun, StatesOK, IsStateOf

LEMMA EventsTyped ==
    ASSUME ClockInv, RowsInv
    PROVE  EventsTypeOK
<1>1. \A x \in network_events : x.recorded_at \in x.event.observed_at .. now
    BY NetworkAssumption DEF ClockInv, RowsInv, IsRow
<1> QED
    BY <1>1 DEF ClockInv, RowsInv, IsRow, StatesOK, EventsTypeOK

\* Rows of events are of representatives and dated before they were recorded,
\* no identity is stored twice, and watermark and states name snapshots that
\* are there, whichever runs die, repeat or catch up.
THEOREM EventsTypeCorrect == EventsSpec => []EventsTypeOK
<1>1. EventsInit => FeedInv /\ ClockInv /\ RowsInv
    BY FeedStarts, ClockStarts, RowsStart
<1>2. FeedInv /\ ClockInv /\ RowsInv /\ [EventsNext]_eventVars => (FeedInv /\ ClockInv /\ RowsInv)'
    BY FeedKept, ClockKept, RowsKept
<1>3. ClockInv /\ RowsInv => EventsTypeOK
    BY EventsTyped
<1> QED
    BY <1>1, <1>2, <1>3, PTL DEF EventsSpec

-----------------------------------------------------------------------------
(***************************************************************************)
(* Attribution of telemetry.                                               *)
(***************************************************************************)
AttributionInv ==
    /\ round \in Nat
    /\ attributed \subseteq [node : Nodes, account : Accounts, at : 1 .. round]
    /\ AttributionTypeOK
    /\ SharedOnlyIfHeldBefore

\* The account a node is found under in the history is that of a row of it.
LEMMA HistoryHasRow ==
    ASSUME AttributionInv, NEW n, NEW t \in Int, HistoryAccount(n, t) # NoAccount
    PROVE  \E p \in attributed : /\ p.node = n /\ p.account = HistoryAccount(n, t)
                                 /\ p.at >= t - History
<1> DEFINE rows == HistoryRows(n, t)
           times == {r.at : r \in rows}
           latest == CHOOSE r \in rows : \A s \in rows : s.at <= r.at
<1>1. rows # {}
  BY DEF HistoryAccount
<1>2. \A r \in rows : r \in attributed /\ r.node = n /\ r.at >= t - History
  BY DEF HistoryRows
<1>3. round \in Int /\ times \subseteq 0 .. round /\ times # {}
  BY <1>1, <1>2 DEF AttributionInv
<1> HIDE DEF rows
<1>4. \E x \in times : \A y \in times : y <= x
  <2> HIDE DEF times
  <2>1. round \in Nat
    BY DEF AttributionInv
  <2>2. Max(times) \in times /\ \A y \in times : y <= Max(times)
    BY <1>3, <2>1, GreatestIs
  <2> QED BY <2>2
<1>5. \E r \in rows : \A s \in rows : s.at <= r.at
  BY <1>4
<1>6. latest \in rows
  BY <1>5, Zenon
<1>7. HistoryAccount(n, t) = latest.account
  BY <1>1 DEF HistoryAccount, rows
<1> HIDE DEF latest
<1> QED BY <1>2, <1>6, <1>7

\* An account is resolved for a node by a channel of the node, not rejected, or
\* by the node's history.
LEMMA ResolveCases ==
    ASSUME NEW n, NEW live, NEW carrier, NEW t, NEW a \in Resolve(n, live, carrier, t),
           a # NoAccount
    PROVE  \/ carrier[a] = n /\ ~ Rejected(a, n, live, t)
           \/ a = HistoryAccount(n, t)
BY DEF Resolve, Fallback

LEMMA AttributionStep ==
    ASSUME AttributionInv,
           NEW live \in SUBSET Nodes, NEW crawled \in SUBSET Accounts,
           NEW carrier \in [crawled -> Nodes], ImportRound(live, carrier)
    PROVE  AttributionInv'
<1> USE AttributionAssumption
<1>1. /\ round \in Nat /\ round' = round + 1
      /\ attributed \subseteq [node : Nodes, account : Accounts, at : 1 .. round]
  BY DEF ImportRound, AttributionInv
<1>2. PICK account \in [live -> Accounts \cup {NoAccount}] :
         /\ \A n \in live : account[n] \in Resolve(n, live, carrier, round')
         /\ attributed' = attributed \cup
              {[node |-> n, account |-> account[n], at |-> round'] :
                  n \in {m \in live : account[m] # NoAccount}}
  BY DEF ImportRound
<1>3. ASSUME NEW r \in attributed', r \notin attributed
      PROVE  /\ r.node \in live /\ r.account = account[r.node] /\ r.at = round'
             /\ r.account \in Accounts
             /\ r = [node |-> r.node, account |-> account[r.node], at |-> round']
  BY <1>2, <1>3
<1>4. ASSUME NEW r \in attributed PROVE r \in attributed' /\ r.at \in 1 .. round
  BY <1>1, <1>2
<1>5. attributed' \subseteq [node : Nodes, account : Accounts, at : 1 .. round']
  <2>1. ASSUME NEW r \in attributed'
        PROVE  r \in [node : Nodes, account : Accounts, at : 1 .. round']
    <3>1. CASE r \in attributed
      BY <1>1, <3>1
    <3>2. CASE r \notin attributed
      BY <1>1, <1>3, <3>2
    <3> QED BY <3>1, <3>2
  <2> QED BY <2>1
<1>6. AttributionTypeOK'
  <2>1. ASSUME NEW r \in attributed', NEW s \in attributed', r.node = s.node, r.at = s.at
        PROVE  r = s
    <3>1. CASE r \in attributed /\ s \in attributed
      BY <2>1, <3>1 DEF AttributionInv, AttributionTypeOK
    <3>2. CASE r \notin attributed /\ s \notin attributed
      BY <1>3, <2>1, <3>2
    <3>3. CASE r \in attributed /\ s \notin attributed
      BY <1>1, <1>3, <1>4, <2>1, <3>3
    <3>4. CASE r \notin attributed /\ s \in attributed
      BY <1>1, <1>3, <1>4, <2>1, <3>4
    <3> QED BY <3>1, <3>2, <3>3, <3>4
  <2> QED BY <2>1 DEF AttributionTypeOK
<1>7. SharedOnlyIfHeldBefore'
  <2> DEFINE Held(r) == \E p \in attributed' : /\ p.node = r.node /\ p.account = r.account
                                               /\ p.at < r.at /\ p.at >= r.at - History
  <2>1. ASSUME NEW r \in attributed', NEW s \in attributed',
               r.at = s.at, r.account = s.account, r.node # s.node
        PROVE  Held(r)
    <3>1. CASE r \in attributed /\ s \in attributed
      <4>1. PICK p \in attributed : /\ p.node = r.node /\ p.account = r.account
                                    /\ p.at < r.at /\ p.at >= r.at - History
        BY <2>1, <3>1 DEF AttributionInv, SharedOnlyIfHeldBefore
      <4> QED BY <1>4, <4>1
    <3>2. CASE r \in attributed /\ s \notin attributed
      BY <1>1, <1>3, <1>4, <2>1, <3>2
    <3>3. CASE r \notin attributed /\ s \in attributed
      BY <1>1, <1>3, <1>4, <2>1, <3>3
    <3>4. CASE r \notin attributed /\ s \notin attributed
      <4>1. /\ r.node \in live /\ s.node \in live /\ r.at = round'
            /\ r.account \in Accounts /\ r.account # NoAccount
            /\ r.account = account[r.node] /\ r.account = account[s.node]
        BY <1>3, <2>1, <3>4
      <4>2. /\ r.account \in Resolve(r.node, live, carrier, round')
            /\ r.account \in Resolve(s.node, live, carrier, round')
        BY <1>2, <4>1
      \* Had r's node the account by its channel, s's node would have it by its
      \* history, and the channel would be rejected.
      <4>3. r.account = HistoryAccount(r.node, round')
        <5>1. CASE carrier[r.account] = r.node /\ ~ Rejected(r.account, r.node, live, round')
          <6>1. r.account = HistoryAccount(s.node, round')
            BY <2>1, <4>1, <4>2, <5>1, ResolveCases
          <6> QED BY <2>1, <4>1, <5>1, <6>1 DEF Rejected
        <5> QED BY <4>1, <4>2, <5>1, ResolveCases
      <4>4. PICK p \in attributed : /\ p.node = r.node /\ p.account = r.account
                                    /\ p.at >= round' - History
        BY <1>1, <4>1, <4>3, HistoryHasRow
      <4> QED BY <1>1, <1>4, <4>1, <4>4
    <3> QED BY <3>1, <3>2, <3>3, <3>4
  <2> QED BY <2>1 DEF SharedOnlyIfHeldBefore
<1> QED BY <1>1, <1>5, <1>6, <1>7 DEF AttributionInv

LEMMA AttributionStarts ==
    ASSUME AttributionInit
    PROVE  AttributionInv
BY DEF AttributionInit, AttributionInv, AttributionTypeOK, SharedOnlyIfHeldBefore

LEMMA AttributionKept ==
    ASSUME AttributionInv, [AttributionNext]_attributionVars
    PROVE  AttributionInv'
<1>1. CASE AttributionNext
  BY <1>1, AttributionStep DEF AttributionNext
<1>2. CASE UNCHANGED attributionVars
  BY <1>2 DEF attributionVars, AttributionInv, AttributionTypeOK, SharedOnlyIfHeldBefore
<1> QED BY <1>1, <1>2

\* At every time, two nodes share an account in a round only if each had it in
\* the history: for any nodes, accounts, history and rounds.
THEOREM SharingIsInherited == AttributionSpec => []SharedOnlyIfHeldBefore
<1>1. AttributionInit => AttributionInv
  BY AttributionStarts
<1>2. AttributionInv /\ [AttributionNext]_attributionVars => AttributionInv'
  BY AttributionKept
<1>3. AttributionInv => SharedOnlyIfHeldBefore
  BY DEF AttributionInv
<1> QED BY <1>1, <1>2, <1>3, PTL DEF AttributionSpec

-----------------------------------------------------------------------------
(***************************************************************************)
(* Site events, however many requests meet around midnight: one key hashes *)
(* what is counted under a date, and a past day's key goes with the next   *)
(* day's, but for the dates a transaction crossed midnight with.           *)
(*                                                                         *)
(* The inductive invariant says what a transaction may still do when it    *)
(* commits.  Its row, if it has one, is for a date that has no key and     *)
(* that no other transaction has a row for; and a key older than its date  *)
(* is among those it deletes, or was left by a transaction that crossed    *)
(* midnight.                                                               *)
(***************************************************************************)
CallStates ==
    [ step : {"idle", "select", "insert", "delete", "commit", "select_again", "done"},
      date : Nat, row : Rows \cup {NoKey}, gone : SUBSET Rows, waits : SUBSET Calls ]

Typed ==
    /\ day \in Nat \ {0}
    /\ hash_keys \in SUBSET Rows
    /\ site_events \in SUBSET Rows
    /\ calls \in [Calls -> CallStates]

\* Nobody is ahead of the clock.
Dated ==
    /\ \A k \in hash_keys \cup site_events : k.date \in 1 .. day
    /\ \A c \in Calls : calls[c].step # "idle" => calls[c].date \in 1 .. day

\* A transaction's rows: its own of its date, and others of other dates.
Transacting ==
    \A c \in Calls :
        /\ calls[c].row # NoKey => /\ calls[c].step \in {"delete", "commit"}
                                   /\ calls[c].row.date = calls[c].date
        /\ calls[c].gone # {} => calls[c].step = "commit"
        /\ \A k \in calls[c].gone : k.date # calls[c].date

OneKey == \A k, l \in hash_keys : k.date = l.date => k = l

\* A date with an uncommitted key has no other.
NewKeysAreAlone ==
    \A c \in Calls : calls[c].row # NoKey =>
        /\ KeysOf(calls[c].date) = {}
        /\ \A d \in Calls : HasInserted(d, calls[c].date) => d = c

OldKeysAreGoing ==
    \A c \in Calls : calls[c].step = "commit" =>
        \A k \in hash_keys :
            k.date < calls[c].date => k \in calls[c].gone \/ k.date \in crossed

\* The key an event was hashed with is there, or its date is over and has none.
EventsKeepTheirKey ==
    \A e \in site_events : \/ e.date \in crossed
                           \/ e \in hash_keys
                           \/ KeysOf(e.date) = {} /\ e.date < day

SiteInv ==
    /\ Typed /\ Dated /\ Transacting
    /\ OneKey /\ NewKeysAreAlone /\ OldKeysAreGoing /\ EventsKeepTheirKey
    /\ CountsStay /\ PastKeysGo

-----------------------------------------------------------------------------
LEMMA SiteInitInv == SiteInit => SiteInv
    BY SiteAssumption DEF SiteInit, SiteInv, Typed, Dated, Transacting, OneKey,
        NewKeysAreAlone, OldKeysAreGoing, EventsKeepTheirKey, CountsStay, PastKeysGo,
        CallStates, Idle, Rows

\* The invariant holds after any step of SiteNext.
LEMMA SiteStepInv == SiteInv /\ [SiteNext]_siteVars => SiteInv'
<1> SUFFICES ASSUME SiteInv, [SiteNext]_siteVars PROVE SiteInv'
    OBVIOUS
<1> USE SiteAssumption DEF SiteInv
\* At midnight a date whose key has gone stays without it.
<1>1. ASSUME Midnight PROVE SiteInv'
    <2>1. (Typed /\ Dated)'
        BY <1>1 DEF Midnight, Typed, CallStates, Rows, Dated
    <2>2. EventsKeepTheirKey'
        BY <1>1 DEF Midnight, Typed, CallStates, Rows, EventsKeepTheirKey, KeysOf
    <2>3. (Transacting /\ OneKey /\ NewKeysAreAlone
           /\ OldKeysAreGoing /\ CountsStay /\ PastKeysGo)'
        BY <1>1 DEF Midnight, Typed, CallStates, Rows, Transacting, OneKey,
            NewKeysAreAlone, OldKeysAreGoing, CountsStay, PastKeysGo, KeysOf,
            HasInserted
    <2> QED BY <2>1, <2>2, <2>3
<1>2. ASSUME NEW c \in Calls, Start(c) PROVE SiteInv'
    <2>1. Typed'
        <3>1. calls[c] \in CallStates
            BY DEF Typed
        <3>2. calls'[c] = [calls[c] EXCEPT !.step = calls'[c].step, !.date = calls'[c].date]
            BY <1>2, <3>1 DEF Start, Typed, CallStates
        <3>3. calls'[c].step = "select" /\ calls'[c].date \in Nat
            BY <1>2, <3>1 DEF Start, Typed, CallStates, Rows
        <3>4. calls'[c] \in CallStates
            BY <3>1, <3>2, <3>3 DEF CallStates
        <3> QED BY <1>2, <3>4 DEF Start, Typed, Rows
    <2>2. Dated'
        <3> SUFFICES ASSUME NEW d \in Calls, calls'[d].step # "idle"
                     PROVE  calls'[d].date \in 1 .. day
            BY <1>2 DEF Start, Dated
        <3>1. day \in 1 .. day
            BY <1>2 DEF Start, Typed, CallStates, Dated
        <3> QED BY <1>2, <3>1 DEF Start, Typed, CallStates, Dated
    <2>3. Transacting'
        BY <1>2 DEF Start, Typed, CallStates, Rows, Transacting
    <2>4. (OneKey /\ NewKeysAreAlone /\ OldKeysAreGoing
           /\ EventsKeepTheirKey /\ CountsStay /\ PastKeysGo)'
        BY <1>2 DEF Start, Typed, CallStates, Rows, OneKey, NewKeysAreAlone,
            OldKeysAreGoing, EventsKeepTheirKey, CountsStay, PastKeysGo, KeysOf,
            HasInserted, Transacting
    <2> QED BY <2>1, <2>2, <2>3, <2>4
\* An event is hashed with a committed key, the only one of its date.
<1>3. ASSUME NEW c \in Calls, FindKey(c) PROVE SiteInv'
    <2>1. (Typed /\ Dated)'
        BY <1>3 DEF FindKey, Typed, CallStates, Rows, Dated, Hashed, KeyRow, KeysOf,
            Goes
    <2>2. Transacting'
        BY <1>3 DEF FindKey, Typed, CallStates, Rows, Transacting, Goes
    <2>3. EventsKeepTheirKey'
        BY <1>3 DEF FindKey, Typed, CallStates, Rows, EventsKeepTheirKey, Hashed,
            KeyRow, KeysOf, Goes
    <2>4. CountsStay'
        BY <1>3 DEF FindKey, Typed, CallStates, Rows, CountsStay, OneKey,
            EventsKeepTheirKey, Hashed, KeyRow, KeysOf, Goes
    <2>5. (OneKey /\ NewKeysAreAlone /\ OldKeysAreGoing /\ PastKeysGo)'
        BY <1>3 DEF FindKey, Typed, CallStates, Rows, OneKey, NewKeysAreAlone,
            OldKeysAreGoing, PastKeysGo, KeysOf, HasInserted, Transacting, Goes
    <2> QED BY <2>1, <2>2, <2>3, <2>4, <2>5
<1>4. ASSUME NEW c \in Calls, FindNone(c) PROVE SiteInv'
    <2>1. (Typed /\ Dated /\ Transacting)'
        BY <1>4 DEF FindNone, Typed, CallStates, Rows, Dated, Transacting, Goes
    <2>2. (OneKey /\ NewKeysAreAlone /\ OldKeysAreGoing
           /\ EventsKeepTheirKey /\ CountsStay /\ PastKeysGo)'
        BY <1>4 DEF FindNone, Typed, CallStates, Rows, OneKey, NewKeysAreAlone,
            OldKeysAreGoing, EventsKeepTheirKey, CountsStay, PastKeysGo, KeysOf,
            HasInserted, Transacting, Goes
    <2> QED BY <2>1, <2>2
\* An insert finds the date free of other keys, committed or not.
<1>5. ASSUME NEW c \in Calls, InsertKey(c) PROVE SiteInv'
    <2>1. Typed'
        <3>1. calls[c] \in CallStates
            BY DEF Typed
        <3>2. calls'[c] = [calls[c] EXCEPT !.step = calls'[c].step, !.row = calls'[c].row]
            BY <1>5, <3>1 DEF InsertKey, Typed, CallStates
        <3>3. calls'[c].step = "delete" /\ calls'[c].row \in Rows \cup {NoKey}
            BY <1>5, <3>1 DEF InsertKey, Typed, CallStates, Rows, KeyRow
        <3>4. calls'[c] \in CallStates
            BY <3>1, <3>2, <3>3 DEF CallStates
        <3> QED BY <1>5, <3>4 DEF InsertKey, Typed, Rows
    <2>2. Dated'
        BY <1>5 DEF InsertKey, Typed, CallStates, Rows, Dated
    <2>3. Transacting'
        BY <1>5 DEF InsertKey, Typed, CallStates, Rows, Transacting, KeyRow
    <2>4. NewKeysAreAlone'
        BY <1>5 DEF InsertKey, Typed, CallStates, Rows, NewKeysAreAlone, KeysOf,
            HasInserted, KeyRow, Transacting
    <2>5. (OneKey /\ OldKeysAreGoing /\ EventsKeepTheirKey /\ CountsStay /\ PastKeysGo)'
        BY <1>5 DEF InsertKey, Typed, CallStates, Rows, OneKey, OldKeysAreGoing,
            EventsKeepTheirKey, CountsStay, PastKeysGo, KeysOf
    <2> QED BY <2>1, <2>2, <2>3, <2>4, <2>5
\* What a deletion sees is every older key that is committed.
<1>6. ASSUME NEW c \in Calls, DeleteOthers(c) PROVE SiteInv'
    <2>1. Typed'
        <3>1. calls[c] \in CallStates
            BY DEF Typed
        <3>2. calls'[c] = [calls[c] EXCEPT !.step = calls'[c].step, !.gone = calls'[c].gone,
                           !.waits = calls'[c].waits]
            BY <1>6, <3>1 DEF DeleteOthers, Typed, CallStates
        <3>3. /\ calls'[c].step = "commit" /\ calls'[c].gone \in SUBSET Rows
              /\ calls'[c].waits \in SUBSET Calls
            BY <1>6, <3>1 DEF DeleteOthers, Typed, CallStates, Rows, Others
        <3>4. calls'[c] \in CallStates
            BY <3>1, <3>2, <3>3 DEF CallStates
        <3> QED BY <1>6, <3>4 DEF DeleteOthers, Typed, Rows
    <2>2. Dated'
        BY <1>6 DEF DeleteOthers, Typed, CallStates, Rows, Dated
    <2>3. Transacting'
        <3>1. /\ calls'[c].step = "commit" /\ calls'[c].gone = Others(c)
              /\ calls'[c].row = calls[c].row /\ calls'[c].date = calls[c].date
              /\ \A d \in Calls \ {c} : calls'[d] = calls[d]
            BY <1>6 DEF DeleteOthers, Typed, CallStates
        <3> QED BY <3>1 DEF Transacting, Others
    <2>4. OldKeysAreGoing'
        <3> SUFFICES ASSUME NEW d \in Calls, calls'[d].step = "commit",
                            NEW k \in hash_keys, k.date < calls'[d].date
                     PROVE  k \in calls'[d].gone \/ k.date \in crossed
            BY <1>6 DEF DeleteOthers, OldKeysAreGoing
        <3>1. CASE d = c
            <4>1. k.date # calls[c].date
                BY <1>6, <3>1 DEF DeleteOthers, Typed, CallStates, Rows
            <4> QED BY <1>6, <3>1, <4>1 DEF DeleteOthers, Typed, CallStates, Others
        <3>2. CASE d # c
            BY <1>6, <3>2 DEF DeleteOthers, Typed, CallStates, OldKeysAreGoing
        <3> QED BY <3>1, <3>2
    <2>5. (OneKey /\ NewKeysAreAlone /\ EventsKeepTheirKey /\ CountsStay /\ PastKeysGo)'
        BY <1>6 DEF DeleteOthers, Typed, CallStates, Rows, OneKey, NewKeysAreAlone,
            EventsKeepTheirKey, CountsStay, PastKeysGo, KeysOf, HasInserted
    <2> QED BY <2>1, <2>2, <2>3, <2>4, <2>5
\* A transaction that commits on its own date is the newest there is; on a later
\* day it has crossed midnight, with its own date and those it deletes.
<1>7. ASSUME NEW c \in Calls, Commit(c) PROVE SiteInv'
    <2>1. Typed'
        <3>1. calls[c] \in CallStates
            BY DEF Typed
        <3>2. calls'[c] = [calls[c] EXCEPT !.step = calls'[c].step, !.row = calls'[c].row,
                           !.gone = calls'[c].gone, !.waits = calls'[c].waits]
            BY <1>7, <3>1 DEF Commit, Typed, CallStates
        <3>3. /\ calls'[c].step = "select_again" /\ calls'[c].row = NoKey
              /\ calls'[c].gone = {} /\ calls'[c].waits = {}
            BY <1>7, <3>1 DEF Commit, Typed, CallStates, Rows
        <3>4. calls'[c] \in CallStates
            BY <3>1, <3>2, <3>3 DEF CallStates
        <3>5. hash_keys' \subseteq Rows
            BY <1>7, <3>1 DEF Commit, Typed, CallStates
        <3> QED BY <1>7, <3>4, <3>5 DEF Commit, Typed, Rows
    <2>2. Dated'
        BY <1>7 DEF Commit, Typed, CallStates, Rows, Dated, Transacting
    <2>3. Transacting'
        BY <1>7 DEF Commit, Typed, CallStates, Rows, Transacting
    <2>4. OneKey'
        BY <1>7 DEF Commit, Typed, CallStates, Rows, OneKey, KeysOf, HasInserted,
            Transacting
    <2>5. NewKeysAreAlone'
        BY <1>7 DEF Commit, Typed, CallStates, Rows, NewKeysAreAlone, KeysOf,
            HasInserted, Transacting
    <2>6. OldKeysAreGoing'
        BY <1>7 DEF Commit, Typed, CallStates, Rows, OldKeysAreGoing, Dated,
            HasInserted, Transacting
    <2>7. EventsKeepTheirKey'
        BY <1>7 DEF Commit, Typed, CallStates, Rows, EventsKeepTheirKey, Dated,
            NewKeysAreAlone, Transacting, KeysOf, HasInserted
    <2>8. CountsStay'
        BY <1>7 DEF Commit, Typed, CallStates, Rows, CountsStay
    <2>9. PastKeysGo'
        BY <1>7 DEF Commit, Typed, CallStates, Rows, PastKeysGo, OldKeysAreGoing,
            Dated, Transacting
    <2> QED BY <2>1, <2>2, <2>3, <2>4, <2>5, <2>6, <2>7, <2>8, <2>9
<1>8. ASSUME NEW c \in Calls, DropEvent(c) PROVE SiteInv'
    <2>1. (Typed /\ Dated /\ Transacting)'
        BY <1>8 DEF DropEvent, Typed, CallStates, Rows, Dated, Transacting, Goes
    <2>2. (OneKey /\ NewKeysAreAlone /\ OldKeysAreGoing
           /\ EventsKeepTheirKey /\ CountsStay /\ PastKeysGo)'
        BY <1>8 DEF DropEvent, Typed, CallStates, Rows, OneKey, NewKeysAreAlone,
            OldKeysAreGoing, EventsKeepTheirKey, CountsStay, PastKeysGo, KeysOf,
            HasInserted, Transacting, Goes
    <2> QED BY <2>1, <2>2
<1>9. ASSUME UNCHANGED siteVars PROVE SiteInv'
    <2>1. (Typed /\ Dated /\ Transacting)'
        BY <1>9 DEF Typed, CallStates, Rows, Dated, Transacting, siteVars
    <2>2. (OneKey /\ NewKeysAreAlone /\ OldKeysAreGoing
           /\ EventsKeepTheirKey /\ CountsStay /\ PastKeysGo)'
        BY <1>9 DEF Typed, CallStates, Rows, OneKey, NewKeysAreAlone, OldKeysAreGoing,
            EventsKeepTheirKey, CountsStay, PastKeysGo, KeysOf, HasInserted, siteVars
    <2> QED BY <2>1, <2>2
<1> QED
    BY <1>1, <1>2, <1>3, <1>4, <1>5, <1>6, <1>7, <1>8, <1>9 DEF SiteNext

-----------------------------------------------------------------------------
\* The invariant in every reachable state.
THEOREM SiteSafety == SiteSpec => []SiteInv
    BY SiteInitInv, SiteStepInv, PTL DEF SiteSpec

LEMMA SiteTyped == SiteInv => SiteTypeOK
    BY DEF SiteInv, OneKey, Dated, Typed, Rows, SiteTypeOK

\* At most one key for a date, and nothing is keyed or counted ahead of the
\* clock.
THEOREM SiteTypeCorrect == SiteSpec => []SiteTypeOK
    BY SiteSafety, SiteTyped, PTL

\* Counts of one date are hashed with one key, however many requests create it
\* together, unless a transaction crossed midnight with that date.
THEOREM CountsAreStable == SiteSpec => []CountsStay
<1>1. SiteInv => CountsStay
    BY DEF SiteInv
<1> QED
    BY SiteSafety, <1>1, PTL

\* No key of a past day beside a later day's, with the same exception.
THEOREM PastKeysAreGone == SiteSpec => []PastKeysGo
<1>1. SiteInv => PastKeysGo
    BY DEF SiteInv
<1> QED
    BY SiteSafety, <1>1, PTL
-----------------------------------------------------------------------------
(***************************************************************************)
(* The four subjects of MCNetworkData.  Whichever a behaviour is about,    *)
(* its steps are steps of that job, and the others rest.                   *)
(***************************************************************************)
JobsInv == FeedInv /\ RowsInv /\ DataInv

LEMMA JobsStart ==
    ASSUME DataInit
    PROVE  JobsInv
    BY FeedStarts, RowsStart, DataStarts DEF DataInit, JobsInv

\* The archive reads feed and telemetry and writes neither.
LEMMA JobsKept ==
    ASSUME JobsInv, [DataNext]_dataVars
    PROVE  JobsInv'
<1>1. DataInv'
    BY DataKept DEF JobsInv
<1>2. CASE [EventsNext]_eventVars
    BY <1>1, <1>2, FeedKept, RowsKept DEF JobsInv, DataInv
<1>3. CASE ArchiveNext
    <2>1. UNCHANGED <<now, telemetry, late, watermark, detector_states, probe_states,
                      network_events, detector, probe, probed_at>>
        BY <1>3, ArchiveLooks
    <2>2. FeedInv /\ RowsInv
        BY DEF JobsInv
    <2>3. TimesOK'
        BY <2>1, <2>2 DEF FeedInv, TimesOK
    <2>4. FeedInv'
        BY <2>1, <2>2, <2>3, FeedRests
    <2>5. RowsInv'
        BY <2>1, <2>2, RowsRest
    <2> QED
        BY <1>1, <2>4, <2>5 DEF JobsInv
<1> QED
    BY <1>2, <1>3 DEF DataNext, dataVars

PlanOK ==
    focus.name \in {"detect", "archive"} =>
        \A t \in 1 .. MaxTime : focus.plan[t] # None => focus.plan[t] \in Rounds

LEMMA SubjectSteps ==
    ASSUME PlanOK, now \in 1 .. MaxTime, [MCNext]_MCVars
    PROVE  [DataNext]_dataVars /\ [AttributionNext]_attributionVars /\ [SiteNext]_siteVars
<1>1. focus.name \in {"detect", "archive"} /\ Imports =>
          \E t \in 1 .. MaxTime, rows \in Rounds : ImportTelemetry(t, rows)
    BY NetworkAssumption DEF Imports, PlanOK
<1>2. focus.name \in {"detect", "archive"} /\ Collected => EventsNext
    BY <1>1 DEF Collected, EventsNext
<1> QED
    BY <1>2 DEF MCNext, MCVars, DataNext, EventsNext, dataVars

SubjectsInv == JobsInv /\ AttributionInv /\ SiteInv /\ PlanOK

\* The tables of all four subjects keep their types.
THEOREM SubjectsTypeCorrect == MCSpec => []TypeOK
<1>1. MCInit => SubjectsInv
    <2>1. MCInit => PlanOK
        BY PlansAssumption DEF MCInit, Subject, PlanOK
    <2> QED
        BY <2>1, JobsStart, AttributionStarts, SiteInitInv DEF MCInit, SubjectsInv
<1>2. SubjectsInv /\ [MCNext]_MCVars => SubjectsInv'
    <2> SUFFICES ASSUME SubjectsInv, [MCNext]_MCVars
                 PROVE  SubjectsInv'
        OBVIOUS
    <2>1. PlanOK /\ now \in 1 .. MaxTime
        BY DEF SubjectsInv, JobsInv, FeedInv, TimesOK
    <2>2. [DataNext]_dataVars /\ [AttributionNext]_attributionVars /\ [SiteNext]_siteVars
        BY <2>1, SubjectSteps
    <2>3. PlanOK'
        BY <2>1 DEF MCNext, MCVars, PlanOK
    <2>4. JobsInv' /\ AttributionInv' /\ SiteInv'
        BY <2>2, JobsKept, AttributionKept, SiteStepInv DEF SubjectsInv
    <2> QED
        BY <2>3, <2>4 DEF SubjectsInv
<1>3. SubjectsInv => TypeOK
    <2>1. JobsInv => EventsTypeOK
        BY EventsTyped DEF JobsInv, DataInv
    <2>2. JobsInv => ArchiveTypeOK
        BY PassesNothing DEF JobsInv
    <2>3. AttributionInv => AttributionTypeOK
        BY DEF AttributionInv
    <2>4. SiteInv => SiteTypeOK
        BY SiteTyped
    <2> QED
        BY <2>1, <2>2, <2>3, <2>4 DEF SubjectsInv, TypeOK
<1> QED
    BY <1>1, <1>2, <1>3, PTL DEF MCSpec

=============================================================================
