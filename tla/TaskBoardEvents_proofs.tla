----------------------- MODULE TaskBoardEvents_proofs -----------------------
(***************************************************************************)
(* Facts about the order on events and the slot update built on it, for    *)
(* every set of events whose ids tell them apart.                          *)
(***************************************************************************)
EXTENDS TaskBoardEvents, TLAPS

\* What a slot must hold after the events S have been put through it.
HoldsNewest(current, S) ==
    IF S = {} THEN current = NoEvent ELSE IsNewestIn(current, S)

-----------------------------------------------------------------------------
(* The order is total, asymmetric and transitive: is_newer of
   build-trust-graph.mjs and is_newer_event of build-task-board-state.mjs rank
   any two events one way only. *)

\* Of two different events one is newer.
LEMMA NewerTotal ==
    ASSUME NEW e \in Events, NEW f \in Events, e # f
    PROVE  IsNewer(e, f) \/ IsNewer(f, e)
<1>1. e.id # f.id
    BY EventsAssumption
<1>2. /\ e.id \in Nat /\ f.id \in Nat
      /\ e.created_at \in Nat /\ f.created_at \in Nat
    BY EventsAssumption
<1> QED
    BY <1>1, <1>2 DEF IsNewer

\* And never both; no event is newer than itself.
LEMMA NewerAsymmetric ==
    ASSUME NEW e \in Events, NEW f \in Events, IsNewer(e, f)
    PROVE  ~ IsNewer(f, e)
<1>1. /\ e.id \in Nat /\ f.id \in Nat
      /\ e.created_at \in Nat /\ f.created_at \in Nat
    BY EventsAssumption
<1> QED
    BY <1>1 DEF IsNewer

\* Newer than a newer one is newer.
LEMMA NewerTransitive ==
    ASSUME NEW e \in Events, NEW f \in Events, NEW g \in Events,
           IsNewer(e, f), IsNewer(f, g)
    PROVE  IsNewer(e, g)
<1>1. /\ e.id \in Nat /\ f.id \in Nat /\ g.id \in Nat
      /\ e.created_at \in Nat /\ f.created_at \in Nat /\ g.created_at \in Nat
    BY EventsAssumption
<1> QED
    BY <1>1 DEF IsNewer

-----------------------------------------------------------------------------
(* The newest of a set *)

\* A set has at most one newest event.
LEMMA NewestUnique ==
    ASSUME NEW S \in SUBSET Events, NEW e \in S, NEW f \in S,
           IsNewestIn(e, S), IsNewestIn(f, S)
    PROVE  e = f
    BY NewerAsymmetric DEF IsNewestIn

\* A slot that holds the newest event of S holds what Newest declares.
LEMMA HoldsNewestIsNewest ==
    ASSUME NEW S \in SUBSET Events, NEW current, HoldsNewest(current, S)
    PROVE  current = Newest(S)
<1>1. CASE S = {}
    BY <1>1 DEF HoldsNewest, Newest
<1>2. CASE S # {}
    <2>1. current \in S /\ IsNewestIn(current, S)
        BY <1>2 DEF HoldsNewest, IsNewestIn
    <2>2. Newest(S) \in S /\ IsNewestIn(Newest(S), S)
        BY <1>2, <2>1 DEF Newest
    <2> QED
        BY <2>1, <2>2, NewestUnique
<1> QED
    BY <1>1, <1>2

\* keep_newest: a slot that held the newest of S holds the newest of S and e
\* once e has been put through it.
LEMMA KeepNewestStep ==
    ASSUME NEW S \in SUBSET Events, NEW current, HoldsNewest(current, S),
           NEW e \in Events
    PROVE  HoldsNewest(KeepNewest(current, e), S \cup {e})
<1>1. CASE S = {}
    BY <1>1 DEF HoldsNewest, KeepNewest, IsNewestIn
<1>2. CASE S # {}
    <2>1. /\ current \in S /\ current \in Events
          /\ current # NoEvent
          /\ \A f \in S : f = current \/ IsNewer(current, f)
        BY <1>2, EventsAssumption DEF HoldsNewest, IsNewestIn
    <2>2. CASE IsNewer(e, current)
        <3>1. KeepNewest(current, e) = e
            BY <2>2 DEF KeepNewest
        <3>2. \A f \in S : f = e \/ IsNewer(e, f)
            BY <2>1, <2>2, NewerTransitive
        <3> QED
            BY <3>1, <3>2 DEF HoldsNewest, IsNewestIn
    <2>3. CASE ~ IsNewer(e, current)
        <3>1. KeepNewest(current, e) = current
            BY <2>1, <2>3 DEF KeepNewest
        <3>2. e = current \/ IsNewer(current, e)
            BY <2>1, <2>3, NewerTotal
        <3> QED
            BY <2>1, <3>1, <3>2 DEF HoldsNewest, IsNewestIn
    <2> QED
        BY <2>2, <2>3
<1> QED
    BY <1>1, <1>2
=============================================================================
