----------------------------- MODULE TrustGraph -----------------------------
(***************************************************************************)
(* The board's web of trust (common/task-board/build-trust-graph.mjs),     *)
(* shared by the view reducer and the relay's write policy, and the        *)
(* standing rules built on it.  Every operator takes the SET of events it  *)
(* is given, in the code a list it scans in one pass.                      *)
(***************************************************************************)
EXTENDS TaskBoardEvents

VOUCHES_FOR_SECOND_STEP == 2

\* The keys a vouch or block set lists; nobody vouches for itself.
GetVouched(e) == IF e = NoEvent THEN {} ELSE e.keys \ {e.pubkey}

\* Each key's latest follow set of a kind.
SelectTrustSets(S, kind) ==
    [p \in Pubkeys |-> Newest({e \in S : e.kind = kind /\ e.pubkey = p})]

\* Stewards' verdicts on one pledge, and their attestations of one account.
Verdicts(S, stewards, pledger, issue) ==
    { e \in S : /\ e.kind = "pledge_attestation" /\ e.pubkey \in stewards
                /\ e.target = pledger /\ e.issue = issue }

Attestations(S, stewards, k) ==
    { e \in S : /\ e.kind = "account_attestation" /\ e.pubkey \in stewards
                /\ e.target = k /\ e.value \in AccountValues }

\* A paid verdict makes the pledger vouch for the one key that was paid.
SelectEarnedVouches(S, stewards) ==
    [v \in Pubkeys |->
        { k \in Pubkeys \ {v} :
            \E e \in S : /\ IsNewestIn(e, Verdicts(S, stewards, v, e.issue))
                         /\ e.value = "paid"
                         /\ e.keys = {k} }]

\* Keys whose newest attestation by a current steward says established and
\* has not lapsed.
SelectEstablished(S, stewards, now) ==
    { k \in Pubkeys :
        \E e \in S : /\ IsNewestIn(e, Attestations(S, stewards, k))
                     /\ e.value = "established"
                     /\ ExpirationOf(e, AttestationLifetime) > now }

\* Stewards are step 0; step 1 keys are vouched for by a steward and vouch
\* themselves; step 2 keys have two step 1 vouchers, or one and an established
\* account, and do not vouch.
BuildTrustGraph(stewards, vouch_sets, block_sets, established, earned) ==
    LET VouchedBy(v) == GetVouched(vouch_sets[v]) \cup earned[v]
        blocked  == UNION {GetVouched(block_sets[s]) : s \in stewards} \ stewards
        eligible == Pubkeys \ (stewards \cup blocked)
        step1    == eligible \cap UNION {VouchedBy(s) : s \in stewards}
        Vouchers(k) == {v \in step1 : k \in VouchedBy(v)}
        step2    == { k \in eligible \ step1 :
                        \/ Cardinality(Vouchers(k)) >= VOUCHES_FOR_SECOND_STEP
                        \/ Vouchers(k) # {} /\ k \in established }
    IN  [stewards |-> stewards, step1 |-> step1, trusted |-> step1 \cup step2,
         blocked |-> blocked, established |-> established]

\* Whether a key's own vouches count.
IsVoucher(trust, k) == k \in trust.stewards \cup trust.step1

\* A steward, a trusted key, or an unblocked established account.
HasStanding(trust, k) ==
    \/ k \in trust.stewards \cup trust.trusted
    \/ k \in trust.established \ trust.blocked

-----------------------------------------------------------------------------
(* What a board client derives from a set of events, with nothing left to   *)
(* the order they came in: build_task_board_state's first passes.           *)

\* Deletion that spares nothing: an owner can take its announcement back.
LiveEventsSparingNothing(S) ==
    { e \in S :
        /\ e.kind # "deletion_request"
        /\ ~ \E r \in S : /\ r.kind = "deletion_request"
                           /\ r.pubkey = e.pubkey /\ e.id \in r.ids }

\* Deletion requests remove the requester's own events, by id; announcements
\* are never deleted.
LiveEvents(S) ==
    { e \in S :
        /\ e.kind # "deletion_request"
        /\ \/ e.kind = "announcement"
           \/ ~ \E r \in S : /\ r.kind = "deletion_request"
                             /\ r.pubkey = e.pubkey /\ e.id \in r.ids }

AnnouncementsOf(S, b) ==
    {e \in S : e.kind = "announcement" /\ e.d = b /\ e.pubkey = Owner[b]}

\* The owner and the maintainers of the latest owner announcement of each of
\* the boards: a client asks for its one board, the relay for all it serves.
StewardsOf(S, boards) ==
    UNION { {Owner[b]} \cup
            (LET n == Newest(AnnouncementsOf(S, b))
             IN IF n = NoEvent THEN {} ELSE n.keys) : b \in boards }

\* The trust derived from the events S for these boards, at time now.
TrustOf(S, boards, now) ==
    LET live == LiveEvents(S)
        stewards == StewardsOf(live, boards)
    IN  BuildTrustGraph(stewards,
                        SelectTrustSets(live, "vouch_set"),
                        SelectTrustSets(live, "block_set"),
                        SelectEstablished(live, stewards, now),
                        SelectEarnedVouches(live, stewards))
=============================================================================
