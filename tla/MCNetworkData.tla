--------------------------- MODULE MCNetworkData ----------------------------
(***************************************************************************)
(* The periodic jobs and the analytics endpoint in one run.  A behaviour   *)
(* has one of four subjects: the detector over one of a few histories of   *)
(* telemetry, the probe and the detector under the archive, the            *)
(* attribution of nodes, or a site's requests around midnight.  The state  *)
(* of the others rests.                                                    *)
(***************************************************************************)
EXTENDS TableArchive, TelemetryAttribution, SiteEvents

CONSTANTS r1, r2, home, away, elsewhere, n1, n2, a1, a2, c1, c2, c3

MCReps == {r1, r2}
MCNodes == {n1, n2}
MCAccounts == {a1, a2}
MCCalls == {c1, c2, c3}

Version(major) == [maker |-> "nano", major |-> major]

\* A node answers at one address.
Row(account, address, major, behind, weight) ==
    [ account |-> account, peer_address |-> address, node_id |-> address,
      version |-> Version(major), cemented_behind |-> behind, weight |-> weight ]

Other == Row(r2, elsewhere, 2, 0, 2)

\* The first representative at its first address, moved, at both, outdated and
\* behind, and outdated only while the other's weight counts.
Home == {Row(r1, home, 2, 0, 1), Other}
Away == {Row(r1, away, 2, 0, 1), Other}
Both == {Row(r1, home, 2, 0, 1), Row(r1, away, 2, 2, 1), Other}
Old == {Row(r1, home, 1, 2, 1), Other}
Even == {Row(r1, home, 1, 0, 2), Other}
Alone == {Row(r1, home, 1, 0, 1)}
Moved == {Row(r1, away, 1, 0, 1)}
Mixed == {Row(r1, home, 1, 2, 3), Row(r1, away, 2, 2, 3), Other}
None == {}
MCRounds == {Home, Away, Both, Old, Even, Alone, Moved, Mixed}

\* What each import finds, None where the collector was down.
Plans == { <<Home, Home, None, Away, Away, None, Home, Home>>,
           <<Away, Home, Old, Old, None, Both, Both, None>>,
           <<Old, Old, None, Home, None, Old, None, None>>,
           <<Old, Even, Even, Old, Home, Home, None, None>>,
           <<Alone, Old, Alone, Old, Home, Home, None, None>>,
           <<Both, None, Mixed, Mixed, Home, Home, None, None>>,
           <<Home, Home, None, None, Away, None, None, Away>> }

ArchivedPlan == <<Alone, Alone, Moved, None, None, None, None, None>>

\* Where the collector was up, an import finds rows it may find.
ASSUME PlansAssumption ==
    \A plan \in Plans \cup {ArchivedPlan} : \A t \in 1 .. MaxTime :
        plan[t] \in Rounds \cup {None}

VARIABLE focus

Subject(name, plan, until) == [name |-> name, plan |-> plan, until |-> until]
NoPlan == <<>>

MCInit ==
    /\ DataInit /\ AttributionInit /\ SiteInit
    /\ focus \in {Subject("detect", plan, MaxTime) : plan \in Plans}
                \cup {Subject("archive", ArchivedPlan, 3),
                      Subject("attribute", NoPlan, 0), Subject("site", NoPlan, 0)}

Imports == \E t \in 1 .. now : /\ focus.plan[t] # None
                               /\ ImportTelemetry(t, focus.plan[t])

Collected == (now < focus.until /\ Tick) \/ Imports \/ DetectorNext

MCNext ==
    /\ UNCHANGED focus
    /\ \/ /\ focus.name = "detect" /\ Collected
          /\ UNCHANGED <<archiveVars, attributionVars, siteVars>>
       \/ /\ focus.name = "archive" /\ (Collected \/ ProbeNext)
          /\ UNCHANGED <<archiveVars, attributionVars, siteVars>>
       \/ /\ focus.name = "archive" /\ ArchiveNext
          /\ UNCHANGED <<attributionVars, siteVars>>
       \/ /\ focus.name = "attribute" /\ AttributionNext
          /\ UNCHANGED <<dataVars, siteVars>>
       \/ /\ focus.name = "site" /\ SiteNext
          /\ UNCHANGED <<dataVars, attributionVars>>

\* DataFairness where its jobs run.  That Evaluate, which can always be taken by
\* a run that has listed its snapshots, is not put off forever is said by what
\* it brings about, which TLC decides much faster than WF of it.
MCFairness ==
    /\ WF_eventVars(focus.name \in {"detect", "archive"} /\ ListSnapshots)
    /\ []<>(detector.step # "listed")
    /\ WF_eventVars(focus.name \in {"detect", "archive"} /\ DetectorCommits)
    /\ WF_eventVars(focus.name = "archive" /\ ProbeCommits)
    /\ WF_archiveVars(focus.name = "archive" /\ StartArchive /\ UNCHANGED eventVars)
    /\ WF_archiveVars(focus.name = "archive" /\ ArchiveStep /\ UNCHANGED eventVars)

MCVars == <<dataVars, attributionVars, siteVars, focus>>

MCSpec == MCInit /\ [][MCNext]_MCVars /\ MCFairness

TypeOK == EventsTypeOK /\ ArchiveTypeOK /\ AttributionTypeOK /\ SiteTypeOK
=============================================================================
