-------------------------- MODULE TelemetryWindow ---------------------------
(***************************************************************************)
(* What the network event detectors read off the telemetry of the          *)
(* representatives: the snapshots of one settle window, the values that    *)
(* hold in all of them and the conditions that hold in all or none         *)
(* (libs-server/network-events/summarize-representative-telemetry.mjs and  *)
(* common/representative-alert-rules.mjs).                                 *)
(*                                                                         *)
(* The telemetry table is a function from the timestamps of the snapshots  *)
(* to the rows of each that name an account.  Several nodes may vote for   *)
(* one account, so a snapshot may hold several rows of it.                 *)
(***************************************************************************)
EXTENDS Integers, FiniteSets, FiniteSetsExt

CONSTANTS Settle,          \* REPRESENTATIVE_TELEMETRY_SETTLE_SECONDS
          MaxGap,          \* MAX_SNAPSHOT_GAP_SECONDS
          BehindBlocks,    \* REPRESENTATIVE_CEMENTED_BEHIND_BLOCKS
          Null             \* null, the answer of a mixed window

ASSUME WindowAssumption == /\ Settle \in Nat /\ MaxGap \in 1 .. Settle
                           /\ BehindBlocks \in Nat

(***************************************************************************)
(* The window (end - Settle, end], when its snapshots leave no gap larger  *)
(* than MaxGap in it, counted from its open end.                           *)
(***************************************************************************)
Window(telemetry, end) == {t \in DOMAIN telemetry : end - Settle < t /\ t <= end}

IsFull(telemetry, end) ==
    LET w == Window(telemetry, end)
    IN  \A t \in (w \ {end}) \cup {end - Settle} :
            \E u \in w : t < u /\ u <= t + MaxGap

(***************************************************************************)
(* The settled value of a field, given the values each snapshot of the     *)
(* window holds, and the flag of a condition, given the snapshots where it *)
(* holds.                                                                  *)
(***************************************************************************)
SettledValue(values) ==
    IF \E v \in UNION values : values = {{v}}
    THEN CHOOSE v \in UNION values : TRUE
    ELSE Null

WindowFlag(flags) == CASE flags = {TRUE}  -> TRUE
                       [] flags = {FALSE} -> FALSE
                       [] OTHER           -> Null

RowsOf(telemetry, t, account) == {r \in telemetry[t] : r.account = account}

\* The accounts present in every snapshot of the window, which alone are
\* summarized.
Summarized(telemetry, w) ==
    {a \in {r.account : r \in UNION {telemetry[t] : t \in w}} :
        \A t \in w : RowsOf(telemetry, t, a) # {}}

\* A representative with several nodes is as current as its best node.
IsCementedBehind(rows) == Min({r.cemented_behind : r \in rows}) > BehindBlocks

Summary(telemetry, w, account) ==
    LET rows == [t \in w |-> RowsOf(telemetry, t, account)]
        Addresses(t) == {r.peer_address : r \in rows[t]}
    IN  [ window_start         |-> Min(w),
          multiple_addresses   |-> WindowFlag({Cardinality(Addresses(t)) > 1 : t \in w}),
          cemented_behind      |-> WindowFlag({IsCementedBehind(rows[t]) : t \in w}),
          peer_address         |-> SettledValue({Addresses(t) : t \in w}),
          node_id              |-> SettledValue({{r.node_id : r \in rows[t]} : t \in w}),
          version              |-> SettledValue({{r.version : r \in rows[t]} : t \in w}),
          addresses_throughout |-> {a \in UNION {Addresses(t) : t \in w} :
                                       \A t \in w : a \in Addresses(t)} ]

(***************************************************************************)
(* The major version with the greatest weight, per maker, in one snapshot. *)
(* An account counts by the first of its rows, and the first of two        *)
(* versions of the same weight stays; the query orders rows by timestamp   *)
(* alone, so within a snapshot any row may be the first.                   *)
(***************************************************************************)
Weight(rows, version) == MapThenSumSet(LAMBDA r : r.weight,
                                       {r \in rows : r.version = version})

Heaviest(rows, maker) ==
    LET versions == {r.version : r \in {s \in rows : s.version.maker = maker}}
    IN  {v \in versions : \A u \in versions : Weight(rows, u) <= Weight(rows, v)}

FirstRows(rows) ==
    {firsts \in SUBSET rows : \A a \in {r.account : r \in rows} :
        Cardinality({r \in firsts : r.account = a}) = 1}

Majorities(rows) ==
    UNION {LET makers == {r.version.maker : r \in firsts}
           IN  {m \in [makers -> {r.version : r \in firsts}] :
                   \A k \in makers : m[k] \in Heaviest(firsts, k)} :
           firsts \in FirstRows(rows)}
=============================================================================
