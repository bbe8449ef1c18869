---------------------------- MODULE TableArchive ----------------------------
(***************************************************************************)
(* The delta archive of the tables the network jobs write                  *)
(* (scripts/archive-to-postgres.mjs --delta): one table after another,     *)
(* each read from the live database behind its watermark, re-reading an    *)
(* overlap, and inserted with the new watermark in one transaction of the  *)
(* archive.  A table that fails ends the run.  The wrapper's lock keeps    *)
(* runs apart.                                                             *)
(*                                                                         *)
(* Of the four tables of a run the model keeps two, telemetry, whose time  *)
(* column says when an import started, and network events, whose time      *)
(* column says when the writing transaction did.                           *)
(***************************************************************************)
EXTENDS NetworkEvents, Sequences

CONSTANTS Overlap    \* DELTA_OVERLAP_SECONDS.network_events

ASSUME OverlapAssumption == Overlap \in Nat

VARIABLES
    archive,     \* the rows of each table in the archive
    marks,       \* etl_state in the archive: a watermark per table, or Null
    archiving    \* the run: the table it is at and what it has read of it

archiveVars == <<archive, marks, archiving>>
dataVars == <<eventVars, archiveVars>>

DELTA_RUN_ORDER == <<"representatives_telemetry", "network_events">>
Tables == {DELTA_RUN_ORDER[i] : i \in DOMAIN DELTA_RUN_ORDER}

\* The live rows, a telemetry snapshot standing for its rows.
Live(table) == IF table = "network_events" THEN network_events
               ELSE {[timestamp |-> t] : t \in DOMAIN telemetry}

\* TIME_COLUMN
TimeOf(table, row) == IF table = "network_events" THEN row.recorded_at
                      ELSE row.timestamp

\* As if no table re-read anything.
NoOverlap(table) == 0

OverlapOf(table) == IF table = "network_events" THEN Overlap ELSE 0

Latest(table, rows, floor) == Max({floor} \cup {TimeOf(table, r) : r \in rows})

NotArchiving == [step |-> "idle"]

ArchiveInit ==
    /\ archive = [t \in Tables |-> {}]
    /\ marks = [t \in Tables |-> Null]
    /\ archiving = NotArchiving

\* runTable: the bulk copy of the telemetry made once, before the deltas, from
\* the database of before the move, which holds the snapshots up to then.
BulkCopy(until) ==
    /\ archiving.step = "idle"
    /\ marks["representatives_telemetry"] = Null
    /\ archive' = [archive EXCEPT !["representatives_telemetry"] =
                      @ \cup {r \in Live("representatives_telemetry") : r.timestamp <= until}]
    /\ UNCHANGED <<marks, archiving>>

\* main: the run starts at the first table.
StartArchive ==
    /\ archiving.step = "idle"
    /\ archiving' = [step |-> "watermark", at |-> 1]
    /\ UNCHANGED <<archive, marks>>

\* A missing watermark is taken from the archive and committed on its own.
Bootstrap(table) ==
    IF marks[table] # Null THEN marks[table] ELSE Latest(table, archive[table], 0)

\* The rows a run reads behind a watermark.
Behind(table, mark) ==
    {r \in Live(table) : TimeOf(table, r) > mark - OverlapOf(table)}

ReadDelta ==
    /\ archiving.step = "watermark"
    /\ LET table == DELTA_RUN_ORDER[archiving.at]
           mark == Bootstrap(table)
       IN  /\ marks' = [marks EXCEPT ![table] = mark]
           /\ archiving' = [ step |-> "copied", at |-> archiving.at,
                             rows |-> Behind(table, mark) ]
    /\ UNCHANGED archive

\* As if the watermark were the time of the run.
MarkAfterNow(table) == now

\* The running maximum of the time column over what was read.
MarkAfter(table) == Latest(table, archiving.rows, marks[table])

\* INSERT ... ON CONFLICT DO NOTHING and the watermark, in one transaction.
ArchiveCommits ==
    /\ archiving.step = "copied"
    /\ LET table == DELTA_RUN_ORDER[archiving.at]
       IN  /\ archive' = [archive EXCEPT ![table] = @ \cup archiving.rows]
           /\ marks' = [marks EXCEPT ![table] = MarkAfter(table)]
    /\ archiving' = IF archiving.at < Len(DELTA_RUN_ORDER)
                    THEN [step |-> "watermark", at |-> archiving.at + 1]
                    ELSE NotArchiving

ArchiveFails ==
    /\ archiving.step # "idle"
    /\ archiving' = NotArchiving
    /\ UNCHANGED <<archive, marks>>

ArchiveStep == ReadDelta \/ ArchiveCommits

ArchiveNext ==
    \/ (\E until \in 1 .. now : BulkCopy(until)) /\ UNCHANGED eventVars
    \/ StartArchive /\ UNCHANGED eventVars
    \/ ArchiveStep /\ UNCHANGED eventVars
    \/ /\ ArchiveFails
       /\ failures < MaxFailures
       /\ failures' = failures + 1
       /\ UNCHANGED <<now, telemetry, late, watermark, detector_states, probe_states,
                      network_events, detector, probe, probed_at>>

DataInit == EventsInit /\ ArchiveInit

DataNext == (EventsNext /\ UNCHANGED archiveVars) \/ ArchiveNext

\* Cron starts the archive every day, and its databases answer or it dies,
\* MaxFailures times at most with the other jobs.
DataFairness ==
    /\ EventsFairness
    /\ WF_dataVars(StartArchive /\ UNCHANGED eventVars)
    /\ WF_dataVars(ArchiveStep /\ UNCHANGED eventVars)

DataSpec == DataInit /\ [][DataNext]_dataVars /\ DataFairness

-----------------------------------------------------------------------------
(***************************************************************************)
(* Properties.                                                             *)
(***************************************************************************)
\* What the archive holds was live, and its watermark is of a row it holds.
ArchiveTypeOK ==
    \A table \in Tables :
        /\ archive[table] \subseteq Live(table)
        /\ marks[table] \in {Null, 0} \cup {TimeOf(table, r) : r \in archive[table]}

\* The snapshots inserted after a newer one.
LateRows(table) ==
    {r \in Live(table) : table = "representatives_telemetry" /\ r.timestamp \in late}

\* Whatever the archive misses, the next run would read: no watermark passes a
\* row by, though a transaction takes the time it started for recorded_at and
\* may commit after a run has moved the watermark past it
\* (DELTA_OVERLAP_SECONDS: "the overlap catches it").  Telemetry has no overlap,
\* so only the order of the imports keeps the watermark behind a snapshot, and
\* the late ones are excepted.
NothingIsPassedBy ==
    \A table \in Tables :
        Live(table) \ archive[table] \subseteq Behind(table, Bootstrap(table)) \cup LateRows(table)

\* The runs go on.
ArchiveRuns == []<>(archiving.step # "idle")

\* As long as the archive runs, every row reaches it but the late snapshots,
\* though a run may die at either table and start over from the first.
RowsReachTheArchive ==
    ArchiveRuns =>
        \A table \in Tables : []<>(Live(table) \ LateRows(table) \subseteq archive[table])
=============================================================================
