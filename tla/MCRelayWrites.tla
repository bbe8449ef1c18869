---------------------------- MODULE MCRelayWrites ---------------------------
(***************************************************************************)
(* The relay policy over three catalogues of events.  A behaviour keeps to *)
(* one: vouch sets and announcements of the operator over a crash,         *)
(* attestations, a block set and a verdict over a crash and a tick, or     *)
(* writes of strangers over four ticks.                                    *)
(***************************************************************************)
EXTENDS MCRelayPolicy

VARIABLE catalogue

Catalogue(events, ips, until, crashes) ==
    [events |-> events, ips |-> ips, until |-> until, crashes |-> crashes]

MCInit ==
    /\ Init
    /\ catalogue \in {Catalogue(VouchEvents, {}, 0, 1), Catalogue(StandingEvents, {}, 1, 1),
                      Catalogue(RateEvents, Ips, 3, 0)}

Offered(e) == e \in catalogue.events /\ UNCHANGED catalogue
From(ip)   == ip \in catalogue.ips

FromClients(e) ==
    \/ catalogue.ips # {} /\ Offered(e) /\ RefuseByQuota(e)
    \/ \E ip \in Ips : From(ip) /\ Offered(e) /\ AcceptFromClient(e, ip)
    \/ \E ip \in Ips : From(ip) /\ Offered(e) /\ RefuseSlowDown(e, ip)

FromStrfry(e) ==
    \/ Offered(e) /\ SeedEvent(e)
    \/ Offered(e) /\ AcceptFromOperator(e)
    \/ Offered(e) /\ Commit(e)

MCNext ==
    \/ \E e \in Events : FromClients(e) \/ FromStrfry(e)
    \/ FinishSeeding /\ UNCHANGED catalogue
    \/ PruneRateWindows /\ UNCHANGED catalogue
    \/ restarts < catalogue.crashes /\ Restart /\ UNCHANGED catalogue
    \/ now < catalogue.until /\ Tick /\ UNCHANGED catalogue

MCSpec == MCInit /\ [][MCNext]_<<vars, catalogue>>
=============================================================================
