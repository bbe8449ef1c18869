--------------------------- MODULE NetworkEvents ----------------------------
(***************************************************************************)
(* The network events of representatives: the telemetry the importer       *)
(* stores, the detector that follows it behind a watermark, the RPC probe, *)
(* and the feed of events both write.                                      *)
(*                                                                         *)
(* A detector reads in several queries and writes its states, its          *)
(* watermark and its events in one transaction; a run may die anywhere     *)
(* before the commit.  Cron starts one run of each detector at a time.     *)
(* Times are counted in telemetry intervals, from 1.                       *)
(***************************************************************************)
EXTENDS TelemetryWindow

CONSTANTS Reps,                 \* accounts of representatives
          Rounds,               \* the sets of rows an import may find
          MaxSnapshotsPerRun,   \* MAX_SNAPSHOTS_PER_RUN
          MaxTime,              \* bound on the clock
          MaxDelay,             \* bound on how late an import inserts
          MaxWrite,             \* bound on how long a transaction stays open
          MaxFailures           \* bound on the runs that die

\* The collector runs every 5 minutes and MAX_SNAPSHOT_GAP_SECONDS is 600, so
\* that at most two full windows have one start.
ASSUME NetworkAssumption ==
    /\ MaxSnapshotsPerRun \in Nat \ {0}
    /\ MaxTime \in Nat \ {0} /\ {MaxDelay, MaxWrite, MaxFailures} \subseteq Nat
    /\ MaxGap <= 2
    /\ \A rows \in Rounds : \A r \in rows : r.account \in Reps

\* Null is no time, and no key of an event.
ASSUME NullAssumption ==
    /\ Null \notin 0 .. MaxTime
    /\ \A at \in 0 .. MaxTime, what \in {Null} \cup {r.version : r \in UNION Rounds} :
          Null # [at |-> at, what |-> what]

VARIABLES
    now,
    telemetry,         \* representatives_telemetry
    late,              \* the snapshots inserted after a newer one
    watermark,         \* the detector's row of etl_state, or Null
    detector_states,   \* network_event_detector_state of the detector
    probe_states,      \* and of the probe
    network_events,    \* the table of events
    detector,          \* the run of the detector, NoRun between runs
    probe,             \* the run of the probe
    probed_at,         \* the time of the last probe
    failures           \* the runs that died

eventVars == <<now, telemetry, late, watermark, detector_states, probe_states,
               network_events, detector, probe, probed_at, failures>>

Conditions == {"multiple_peer_addresses", "version_outdated", "cemented_behind"}
Fields == {"peer_address", "node_id"}
RpcResults == {"control_enabled", "control_disabled", "unreachable", "unknown"}

NothingKnown == [ open |-> [c \in Conditions |-> Null],
                  settled |-> [f \in Fields |-> Null] ]
NoRun == [step |-> "idle"]

EventsInit ==
    /\ now = 1
    /\ telemetry = [t \in {} |-> {}]
    /\ late = {}
    /\ watermark = Null
    /\ detector_states = [r \in Reps |-> NothingKnown]
    /\ probe_states = [r \in Reps |-> Null]
    /\ network_events = {}
    /\ detector = NoRun /\ probe = NoRun /\ probed_at = 0
    /\ failures = 0

(***************************************************************************)
(* Events and their identities.  A condition's key is when it began and,   *)
(* for an outdated version, which version; a change's is when it was seen  *)
(* and the new value.                                                      *)
(***************************************************************************)
Event(account, type, phase, key, previous, observed_at) ==
    [account |-> account, type |-> type, phase |-> phase, key |-> key,
     previous |-> previous, observed_at |-> observed_at]

EventId(e) == <<e.account, e.type, e.phase, e.key>>

Key(at, what) == [at |-> at, what |-> what]

Began(account, type, key) == Event(account, type, "began", key, Null, key.at)

\* As if an ended event took keys of its own.
EndedByItself(account, type, opened, at) ==
    Event(account, type, "ended", [opened EXCEPT !.at = at], Null, at)

\* The began keys win, so the ended id links to its began row.
Ended(account, type, opened, at) == Event(account, type, "ended", opened, Null, at)

Changed(account, field, previous, value, at) ==
    Event(account, field, "occurred", Key(at, value), previous, at)

(***************************************************************************)
(* One window.  Whether a version is outdated is judged by the majority of *)
(* the window's last snapshot, the rest by the summary.                    *)
(***************************************************************************)
IsOutdated(version, majority) ==
    IF version = Null \/ version.maker \notin DOMAIN majority THEN Null
    ELSE version.major < majority[version.maker].major

Holds(c, summary, majority) ==
    CASE c = "multiple_peer_addresses" -> summary.multiple_addresses
      [] c = "version_outdated"        -> IsOutdated(summary.version, majority)
      [] c = "cemented_behind"         -> summary.cemented_behind

OpenKey(c, summary) ==
    Key(summary.window_start, IF c = "version_outdated" THEN summary.version ELSE Null)

Opens(c, state, summary, majority) ==
    Holds(c, summary, majority) = TRUE /\ state.open[c] = Null

Closes(c, state, summary, majority) ==
    Holds(c, summary, majority) = FALSE /\ state.open[c] # Null

\* As if a window in which a field does not settle forgot its last value.
SettleForgetting(state, summary) == [f \in Fields |-> summary[f]]

\* A window in which a field does not settle leaves the last settled value.
SettleFields(state, summary) ==
    [f \in Fields |-> IF summary[f] = Null THEN state.settled[f] ELSE summary[f]]

AfterWindow(state, summary, majority) ==
    [ open |-> [c \in Conditions |->
                  IF Opens(c, state, summary, majority) THEN OpenKey(c, summary)
                  ELSE IF Closes(c, state, summary, majority) THEN Null
                  ELSE state.open[c]],
      settled |-> SettleFields(state, summary) ]

\* The first run and the first sight of a representative only seed what has
\* settled, and tell what is open.
EventsOfWindow(account, state, summary, majority, is_first_run) ==
    {Began(account, c, OpenKey(c, summary)) :
        c \in {d \in Conditions : Opens(d, state, summary, majority)}}
    \cup {Ended(account, c, state.open[c], summary.window_start) :
        c \in {d \in Conditions : Closes(d, state, summary, majority)}}
    \cup {Changed(account, f, state.settled[f], summary[f], summary.window_start) :
        f \in {g \in Fields : /\ ~ is_first_run
                              /\ Null \notin {summary[g], state.settled[g]}
                              /\ summary[g] # state.settled[g]}}

(***************************************************************************)
(* A run: the windows of its targets in order, each on the states the ones *)
(* before left, with a majority for each that the rows allow.              *)
(***************************************************************************)
EvaluateWindow(result, end, majority, is_first_run) ==
    IF ~ IsFull(telemetry, end) THEN result
    ELSE LET w == Window(telemetry, end)
             accounts == Summarized(telemetry, w)
             S == [a \in accounts |-> Summary(telemetry, w, a)]
         IN  [ evaluated |-> result.evaluated + 1,
               states |-> [a \in Reps |->
                   IF a \in accounts
                   THEN AfterWindow(result.states[a], S[a], majority)
                   ELSE result.states[a]],
               events |-> result.events \cup
                   UNION {EventsOfWindow(a, result.states[a], S[a], majority,
                                         is_first_run) : a \in accounts} ]

EvaluateRun(targets, majorities, is_first_run) ==
    LET through[t \in 0 .. MaxTime] ==     \* the targets up to t
            IF t = 0 THEN [evaluated |-> 0, states |-> detector_states, events |-> {}]
            ELSE IF t \in targets
                 THEN EvaluateWindow(through[t - 1], t, majorities[t], is_first_run)
                 ELSE through[t - 1]
    IN  through[Max(targets)]

\* list_snapshot_timestamps: the latest one on the first run, and then the
\* first MaxSnapshotsPerRun behind the watermark.
Targets ==
    LET behind == {t \in DOMAIN telemetry : watermark = Null \/ t > watermark}
    IN  IF watermark = Null
        THEN {t \in behind : \A u \in behind : u <= t}
        ELSE {t \in behind : Cardinality({u \in behind : u < t}) < MaxSnapshotsPerRun}

\* INSERT ... ON CONFLICT (network_event_id) DO NOTHING.
Inserted(events, recorded_at) ==
    network_events \cup
        {[event |-> e, recorded_at |-> recorded_at] :
            e \in {x \in events : \A y \in network_events : EventId(y.event) # EventId(x)}}

(***************************************************************************)
(* The clock and the importer.  An import takes its timestamp as it starts *)
(* and inserts the whole snapshot at once, up to MaxDelay later; one that  *)
(* fails leaves no snapshot.  A transaction is committed or lost within    *)
(* MaxWrite.                                                               *)
(***************************************************************************)
Tick ==
    /\ now < MaxTime
    /\ \A run \in {detector, probe} :
          run.step = "writing" => now < run.recorded_at + MaxWrite
    /\ now' = now + 1
    /\ UNCHANGED <<telemetry, late, watermark, detector_states, probe_states,
                   network_events, detector, probe, probed_at, failures>>

ImportTelemetry(t, rows) ==
    /\ t <= now /\ now <= t + MaxDelay
    /\ t \notin DOMAIN telemetry
    /\ telemetry' = [u \in DOMAIN telemetry \cup {t} |-> IF u = t THEN rows ELSE telemetry[u]]
    /\ late' = IF \E u \in DOMAIN telemetry : u > t THEN late \cup {t} ELSE late
    /\ UNCHANGED <<now, watermark, detector_states, probe_states, network_events,
                   detector, probe, probed_at, failures>>

(***************************************************************************)
(* detect_telemetry_network_events.                                        *)
(***************************************************************************)
ListSnapshots ==
    /\ detector.step = "idle"
    /\ Targets # {}
    /\ detector' = [step |-> "listed", targets |-> Targets]
    /\ UNCHANGED <<now, telemetry, late, watermark, detector_states, probe_states,
                   network_events, probe, probed_at, failures>>

MajoritiesOf(targets) ==
    LET choices == [t \in targets |-> Majorities(telemetry[t])]
    IN  {m \in [targets -> UNION {choices[t] : t \in targets}] :
            \A t \in targets : m[t] \in choices[t]}

\* As if a run in which no window was full wrote nothing, whichever run it is.
WritesAnything(is_first_run, evaluated) == evaluated > 0

\* A first run without a full window writes nothing, so the next one retries.
Writes(is_first_run, evaluated) == is_first_run => evaluated > 0

Evaluate ==
    /\ detector.step = "listed"
    /\ \E majorities \in MajoritiesOf(detector.targets) :
          LET result == EvaluateRun(detector.targets, majorities, watermark = Null)
          IN  detector' =
                IF Writes(watermark = Null, result.evaluated)
                THEN [ step |-> "writing", states |-> result.states,
                       events |-> result.events,
                       watermark |-> Max(detector.targets), recorded_at |-> now ]
                ELSE NoRun
    /\ UNCHANGED <<now, telemetry, late, watermark, detector_states, probe_states,
                   network_events, probe, probed_at, failures>>

\* insert_network_events: states, watermark and events in one transaction.
DetectorCommits ==
    /\ detector.step = "writing"
    /\ detector_states' = detector.states
    /\ watermark' = detector.watermark
    /\ network_events' = Inserted(detector.events, detector.recorded_at)
    /\ detector' = NoRun
    /\ UNCHANGED <<now, telemetry, late, probe_states, probe, probed_at, failures>>

DetectorFails ==
    /\ detector.step # "idle"
    /\ failures < MaxFailures
    /\ failures' = failures + 1
    /\ detector' = NoRun
    /\ UNCHANGED <<now, telemetry, late, watermark, detector_states, probe_states,
                   network_events, probe, probed_at>>

(***************************************************************************)
(* probe_representative_rpc.  The representatives are those with an        *)
(* address in every snapshot of the latest window.                         *)
(***************************************************************************)
Probed ==
    LET latest == Max(DOMAIN telemetry)
        w == Window(telemetry, latest)
    IN  IF DOMAIN telemetry = {} THEN {}
        ELSE IF ~ IsFull(telemetry, latest) THEN {}
        ELSE {a \in Summarized(telemetry, w) :
                 Summary(telemetry, w, a).addresses_throughout # {}}

IsRpcControlEnabled(results) ==
    IF "control_enabled" \in results THEN TRUE
    ELSE IF "unknown" \in results THEN Null
    ELSE FALSE

StartProbe ==
    /\ probe.step = "idle"
    /\ probed_at < now
    /\ Probed # {}
    /\ probe' = [step |-> "probing", accounts |-> Probed]
    /\ probed_at' = now
    /\ UNCHANGED <<now, telemetry, late, watermark, detector_states, probe_states,
                   network_events, detector, failures>>

RpcType == "rpc_control_enabled"

AnswersArrive ==
    /\ probe.step = "probing"
    /\ \E enabled \in [probe.accounts ->
                        {IsRpcControlEnabled(results) : results \in SUBSET RpcResults \ {{}}}] :
         LET opened == {a \in probe.accounts : enabled[a] = TRUE /\ probe_states[a] = Null}
             closed == {a \in probe.accounts : enabled[a] = FALSE /\ probe_states[a] # Null}
         IN  probe' = [ step |-> "writing", recorded_at |-> now,
                        states |-> [a \in Reps |->
                                      IF a \in opened THEN Key(probed_at, Null)
                                      ELSE IF a \in closed THEN Null
                                      ELSE probe_states[a]],
                        events |-> {Began(a, RpcType, Key(probed_at, Null)) : a \in opened}
                                   \cup {Ended(a, RpcType, probe_states[a], probed_at) :
                                            a \in closed} ]
    /\ UNCHANGED <<now, telemetry, late, watermark, detector_states, probe_states,
                   network_events, detector, probed_at, failures>>

ProbeCommits ==
    /\ probe.step = "writing"
    /\ probe_states' = probe.states
    /\ network_events' = Inserted(probe.events, probe.recorded_at)
    /\ probe' = NoRun
    /\ UNCHANGED <<now, telemetry, late, watermark, detector_states, detector,
                   probed_at, failures>>

ProbeFails ==
    /\ probe.step # "idle"
    /\ failures < MaxFailures
    /\ failures' = failures + 1
    /\ probe' = NoRun
    /\ UNCHANGED <<now, telemetry, late, watermark, detector_states, probe_states,
                   network_events, detector, probed_at>>

DetectorNext == ListSnapshots \/ Evaluate \/ DetectorCommits \/ DetectorFails

ProbeNext == StartProbe \/ AnswersArrive \/ ProbeCommits \/ ProbeFails

EventsNext ==
    \/ Tick
    \/ \E t \in 1 .. MaxTime, rows \in Rounds : ImportTelemetry(t, rows)
    \/ DetectorNext
    \/ ProbeNext

EventsSpec == EventsInit /\ [][EventsNext]_eventVars

\* Cron starts the detector every interval, and the database answers or the
\* run dies, which it does MaxFailures times at most.
EventsFairness ==
    /\ WF_eventVars(ListSnapshots)
    /\ WF_eventVars(Evaluate)
    /\ WF_eventVars(DetectorCommits)
    /\ WF_eventVars(ProbeCommits)

-----------------------------------------------------------------------------
(***************************************************************************)
(* Properties.                                                             *)
(***************************************************************************)
IsStateOf(state) ==
    /\ DOMAIN state.open = Conditions /\ DOMAIN state.settled = Fields
    /\ \A c \in Conditions : state.open[c] # Null => state.open[c].at \in DOMAIN telemetry

\* Every row is of a representative and a snapshot the detector has passed or
\* a probe that has been made, and no id is stored twice.
EventsTypeOK ==
    /\ watermark \in {Null} \cup DOMAIN telemetry
    /\ late \subseteq DOMAIN telemetry
    /\ \A r \in Reps : IsStateOf(detector_states[r])
    /\ \A x \in network_events :
         /\ x.event.account \in Reps
         /\ x.recorded_at \in x.event.observed_at .. now
    /\ \A x, y \in network_events : EventId(x.event) = EventId(y.event) => x = y

\* The feed and the detectors' open conditions, as EventFeed sees them.
Told == {[subject |-> <<x.event.account, x.event.type>>, phase |-> x.event.phase,
          key |-> x.event.key] :
            x \in {y \in network_events : y.event.phase # "occurred"}}

Open == [s \in Reps \X (Conditions \cup {RpcType}) |->
            IF s[2] = RpcType THEN probe_states[s[1]]
            ELSE detector_states[s[1]].open[s[2]]]

Feed == INSTANCE EventFeed WITH Subjects <- Reps \X (Conditions \cup {RpcType}),
                                open <- Open, told <- Told

\* Runs that die, repeat and catch up implement the feed: each condition is
\* told began and ended once, under one key, and the last thing told agrees
\* with the detector's state (insert-network-events.mjs:59-61, build_network
\* _event_id, close_condition).
ConditionsAreTold == Feed!Spec

\* The changes told of one field of one representative, in order, are a
\* chain: each starts from the value the one before ended with, and the last
\* value is the one the detector holds (apply_settled_change over windows
\* that settle, mix, are skipped or are replayed).
ChangesOf(r, f) == {x.event : x \in {y \in network_events :
                        y.event.account = r /\ y.event.type = f}}

ChangesChain ==
    \A r \in Reps, f \in Fields :
        \A e \in ChangesOf(r, f) :
            LET later == {d \in ChangesOf(r, f) : d.observed_at > e.observed_at}
            IN  IF later = {} THEN detector_states[r].settled[f] = e.key.what
                ELSE \E d \in later : /\ d.previous = e.key.what
                                      /\ \A c \in later : d.observed_at <= c.observed_at

\* Once the detector has a watermark, it has passed every snapshot again and
\* again, whatever backlog, outage or failed run came before
\* (MAX_SNAPSHOTS_PER_RUN: "A longer backlog drains over the following runs").
BacklogDrains ==
    [](watermark # Null =>
         <>(watermark # Null /\ \A t \in DOMAIN telemetry : t <= watermark))
=============================================================================
