--------------------------- MODULE UptimeRollups ----------------------------
(***************************************************************************)
(* The samples of which representatives are online                         *)
(* (scripts/import-uptime.mjs, every five minutes) and the two tables made *)
(* of them: the last fourteen days by hours before the run, which the same *)
(* run makes anew, and the days, made at midnight                          *)
(* (scripts/rollup-uptime.mjs --days 2).  A sampling run may outlast       *)
(* midnight or die between any two statements, and a night may fail.       *)
(* Time is in ticks of less than an hour.  The longest downtime of a day   *)
(* is left out.                                                            *)
(***************************************************************************)
EXTENDS Integers, FiniteSets

CONSTANTS Reps,         \* accounts
          Tracked,      \* those with the weight to be tracked
          Answers,      \* what the nodes may say is online
          PerHour,      \* ticks of an hour
          PerDay,       \* ticks of a day
          Window,       \* ticks of the fourteen days
          FillHours,    \* hours a rollup is filled up to
          MaxClock,     \* bound on the clock
          MaxSamplings, \* bound on the sampling runs
          MaxLosses     \* bound on the runs that die

ASSUME UptimeAssumption ==
    /\ Tracked \subseteq Reps /\ Answers \subseteq SUBSET Reps
    /\ {PerHour, PerDay, Window, FillHours} \subseteq Nat \ {0}
    /\ PerDay % PerHour = 0
    /\ FillHours * PerHour > Window
    /\ MaxClock \in Nat \ {0}

VARIABLES
    clock,
    accounts,                \* those ever seen online, marked representative
    representatives_uptime,  \* samples: account, online, timestamp
    rollup_hour,             \* account -> hours back -> online
    rollup_day,              \* account and day -> online_count, offline_count
    sampling,                \* the run of import-uptime
    night,                   \* the run of rollup-uptime
    rolled_at,               \* account -> the run its hours are of, and what it read
    nights,                  \* days the night after which has run
    past,                    \* per day, samples saved after that night read the day
    runs,                    \* sampling runs so far
    losses                   \* runs that died

uptimeVars == <<clock, accounts, representatives_uptime, rollup_hour, rollup_day,
                sampling, night, rolled_at, nights, past, runs, losses>>

Day(t) == t \div PerDay
Days == 0 .. Day(MaxClock)

NotSampling == [step |-> "idle"]
NotRolling  == [step |-> "idle"]
Over        == [step |-> "over"]
NoRollup    == [online_count |-> 0, offline_count |-> 0]
NoHours     == [rep \in Reps |-> <<>>]

UptimeInit ==
    /\ clock = 1 /\ runs = 0 /\ losses = 0
    /\ accounts = {} /\ representatives_uptime = {}
    /\ rollup_hour = NoHours
    /\ rollup_day = [k \in Reps \X Days |-> NoRollup]
    /\ sampling = NotSampling /\ night = NotRolling
    /\ rolled_at = [rep \in Reps |-> [start |-> 0, from |-> 0]]
    /\ nights = {} /\ past = {}

\* A night's run is done long before the next, and cron starts none twice.
ClockTicks ==
    /\ clock < MaxClock
    /\ Day(clock + 1) # Day(clock) => night.step \in {"idle", "over"}
    /\ clock' = clock + 1
    /\ night' = IF night.step = "over" THEN NotRolling ELSE night
    /\ UNCHANGED <<accounts, representatives_uptime, rollup_hour, rollup_day, sampling,
                   rolled_at, nights, past, runs, losses>>

\* The run's timestamp is of when its process started.  One run at a time, and
\* one a tick.
StartSampling ==
    /\ sampling.step = "idle"
    /\ \A s \in representatives_uptime : s.timestamp # clock
    /\ runs < MaxSamplings
    /\ runs' = runs + 1
    /\ sampling' = [step |-> "asking", timestamp |-> clock]
    /\ UNCHANGED <<clock, accounts, representatives_uptime, rollup_hour, rollup_day,
                   night, rolled_at, nights, past, losses>>

\* What the nodes say is online, and the tracked that any of them said before.
Samples(onlineReps) ==
    {[account |-> rep, online |-> 1, timestamp |-> sampling.timestamp] : rep \in onlineReps}
    \cup {[account |-> rep, online |-> 0, timestamp |-> sampling.timestamp] :
             rep \in (accounts \cap Tracked) \ onlineReps}

\* The night after the day has read it for the last time.
HasRead(day) ==
    day \in nights \/ (night.step = "save" /\ day = night.time /\ day = night.end + 1)

SaveSamples(onlineReps) ==
    /\ sampling.step = "asking"
    /\ accounts' = accounts \cup onlineReps
    /\ representatives_uptime' = representatives_uptime \cup Samples(onlineReps)
    /\ past' = IF HasRead(Day(sampling.timestamp)) THEN past \cup Samples(onlineReps)
               ELSE past
    /\ sampling' = [step |-> "saved", timestamp |-> sampling.timestamp]
    /\ UNCHANGED <<clock, rollup_hour, rollup_day, night, rolled_at, nights, runs, losses>>

\* The samples of the fourteen days before the query.
Recent(from) == {s \in representatives_uptime : s.timestamp > from /\ s.account \in Tracked}

ReadSamples ==
    /\ sampling.step = "saved"
    /\ LET uptime == Recent(clock - Window)
       IN  sampling' = [ step |-> "rolling", timestamp |-> sampling.timestamp,
                         uptime |-> uptime, from |-> clock - Window,
                         left |-> {s.account : s \in uptime} ]
    /\ UNCHANGED <<clock, accounts, representatives_uptime, rollup_hour, rollup_day,
                   night, rolled_at, nights, past, runs, losses>>

HoursBack(now, t) == (now - t) \div PerHour

\* The hours the account has samples in, offline if one of them says so.
Rollup(values, now) ==
    LET hours == {HoursBack(now, s.timestamp) : s \in values}
    IN  [interval \in hours |->
            IF \E s \in values : HoursBack(now, s.timestamp) = interval /\ s.online = 0
            THEN 0 ELSE 1]

\* Rows of the one, and the rows of the other that they leave.
Upserted(rows, older) ==
    [interval \in DOMAIN rows \cup DOMAIN older |->
        IF interval \in DOMAIN rows THEN rows[interval] ELSE older[interval]]

FillIn(rollup) == Upserted(rollup, [interval \in 0 .. FillHours - 1 |-> 0])

\* One upsert for each account.
RollHours(rep) ==
    /\ sampling.step = "rolling"
    /\ rep \in sampling.left
    /\ LET values == {s \in sampling.uptime : s.account = rep}
       IN  rollup_hour' = [rollup_hour EXCEPT
               ![rep] = Upserted(FillIn(Rollup(values, sampling.timestamp)), @)]
    /\ rolled_at' = [rolled_at EXCEPT
           ![rep] = [start |-> sampling.timestamp, from |-> sampling.from]]
    /\ sampling' = [sampling EXCEPT !.left = @ \ {rep}]
    /\ UNCHANGED <<clock, accounts, representatives_uptime, rollup_day, night, nights,
                   past, runs, losses>>

\* Accounts without samples in the fourteen days lose their rows.
DropHours ==
    /\ sampling.step = "rolling"
    /\ sampling.left = {}
    /\ LET grouped == {s.account : s \in sampling.uptime}
       IN  rollup_hour' = [rep \in Reps |-> IF rep \in grouped THEN rollup_hour[rep] ELSE <<>>]
    /\ sampling' = NotSampling
    /\ UNCHANGED <<clock, accounts, representatives_uptime, rollup_day, night, rolled_at,
                   nights, past, runs, losses>>

SamplingDies ==
    /\ sampling.step # "idle"
    /\ losses < MaxLosses
    /\ losses' = losses + 1
    /\ sampling' = NotSampling
    /\ UNCHANGED <<clock, accounts, representatives_uptime, rollup_hour, rollup_day,
                   night, rolled_at, nights, past, runs>>

\* As if --days were not given.
TodayOnly(today) == today - 1

\* With --days 2 the loop ends before the day before yesterday.
EndOf(today) == today - 2

\* At the first tick of a day, from that day backwards.
StartNight ==
    /\ night.step = "idle"
    /\ clock % PerDay = 0
    /\ night' = [step |-> "read", time |-> Day(clock), end |-> EndOf(Day(clock))]
    /\ UNCHANGED <<clock, accounts, representatives_uptime, rollup_hour, rollup_day,
                   sampling, rolled_at, nights, past, runs, losses>>

ReadDay ==
    /\ night.step = "read"
    /\ night' = [ step |-> "save", time |-> night.time, end |-> night.end,
                  uptime |-> {s \in representatives_uptime : Day(s.timestamp) = night.time} ]
    /\ UNCHANGED <<clock, accounts, representatives_uptime, rollup_hour, rollup_day,
                   sampling, rolled_at, nights, past, runs, losses>>

Counts(values) == [ online_count  |-> Cardinality({s \in values : s.online = 1}),
                    offline_count |-> Cardinality({s \in values : s.online = 0}) ]

\* One upsert for the accounts of the day, and on to the day before.
SaveDay ==
    /\ night.step = "save"
    /\ rollup_day' = [k \in Reps \X Days |->
           LET values == {s \in night.uptime : s.account = k[1]}
           IN  IF k[2] = night.time /\ values # {} THEN Counts(values) ELSE rollup_day[k]]
    /\ IF night.time - 1 > night.end
       THEN /\ night' = [step |-> "read", time |-> night.time - 1, end |-> night.end]
            /\ UNCHANGED nights
       ELSE /\ night' = Over
            /\ nights' = nights \cup {Day(clock) - 1}
    /\ UNCHANGED <<clock, accounts, representatives_uptime, rollup_hour, sampling,
                   rolled_at, past, runs, losses>>

NightDies ==
    /\ night.step \in {"read", "save"}
    /\ losses < MaxLosses
    /\ losses' = losses + 1
    /\ night' = Over
    /\ UNCHANGED <<clock, accounts, representatives_uptime, rollup_hour, rollup_day,
                   sampling, rolled_at, nights, past, runs>>

UptimeNext ==
    \/ ClockTicks \/ StartSampling \/ ReadSamples \/ DropHours \/ SamplingDies
    \/ \E onlineReps \in Answers : SaveSamples(onlineReps)
    \/ \E rep \in Reps : RollHours(rep)
    \/ StartNight \/ ReadDay \/ SaveDay \/ NightDies

UptimeSpec == UptimeInit /\ [][UptimeNext]_uptimeVars

-----------------------------------------------------------------------------
(* Properties *)

\* An account is shown online in an hour only if it was sampled in that hour,
\* online each time, counting back from the run that wrote its row, and not as
\* of an earlier run that had other hours; the hour the fourteen days end in is
\* read in part.
HoursAreAsSampled ==
    \A rep \in Reps : \A interval \in DOMAIN rollup_hour[rep] :
        LET run    == rolled_at[rep]
            inHour == {s \in representatives_uptime :
                          /\ s.account = rep /\ s.timestamp > run.from
                          /\ HoursBack(run.start, s.timestamp) = interval}
        IN  rollup_hour[rep][interval] = 1 <=>
                inHour # {} /\ \A s \in inHour : s.online = 1

\* Once the night after it has run, a day counts every sample taken in it but
\* those saved after the night had read the day.
DaysAreWhole ==
    \A day \in nights : \A rep \in Reps :
        rollup_day[<<rep, day>>] =
            Counts({s \in representatives_uptime \ past :
                       s.account = rep /\ Day(s.timestamp) = day})

\* What the two tables say is what was sampled, whichever runs died or were late.
RollupsAreAsSampled == HoursAreAsSampled /\ DaysAreWhole
=============================================================================
