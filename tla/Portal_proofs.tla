--------------------------- MODULE Portal_proofs ---------------------------
(***************************************************************************)
(* Proofs about what one visitor publishes: the portal's publish sagas     *)
(* with their renewals, beside the command line client, over the portal's  *)
(* subscriptions.                                                          *)
(***************************************************************************)
EXTENDS ClaimRenewal, FiniteSetTheorems, TLAPS

(***************************************************************************)
(* What the visitor signs.                                                 *)
(***************************************************************************)
LEMMA OwnIs ==
    ASSUME NEW kind \in OwnKinds, NEW value \in {"none", "active", "released"}, NEW at \in Nat
    PROVE  LET e == Own(kind, value, at)
           IN  /\ e \in OwnEvents /\ e.kind = kind /\ e.value = value /\ e.created_at = at
               /\ kind = "claim" => e.issue = Topic
<1>1. ClaimLifetime \in Nat
  BY StateAssumption
<1>2. 0 \in Nat /\ at + ClaimLifetime \in Nat
  BY <1>1
<1> QED BY <1>2 DEF Own, OwnEvents, OwnKinds

LEMMA WithId ==
    ASSUME NEW e \in OwnEvents, NEW id \in Nat
    PROVE  LET f == [e EXCEPT !.id = id]
           IN  /\ f \in OwnEvents /\ f.kind = e.kind /\ f.value = e.value
               /\ f.issue = e.issue /\ f.created_at = e.created_at /\ f.id = id
BY DEF OwnEvents

LEMMA Ordered ==
    ASSUME NEW e \in OwnEvents, NEW p, p = NoEvent \/ p.created_at \in Nat
    PROVE  LET f == OrderAfter(e, p)
           IN  /\ f \in OwnEvents /\ f.kind = e.kind /\ f.value = e.value
               /\ f.issue = e.issue
               /\ p # NoEvent => f.created_at > p.created_at
<1>1. CASE p = NoEvent \/ p.created_at < e.created_at
  BY <1>1 DEF OrderAfter, OwnEvents
<1>2. CASE p # NoEvent /\ ~ (p.created_at < e.created_at)
  <2>1. ClaimLifetime \in Nat /\ p.created_at \in Nat
    BY <1>2, StateAssumption
  <2>2. PICK c \in Nat : c = p.created_at + 1
    BY <2>1
  <2>3. PICK x \in Nat : x = p.created_at + 1 + ClaimLifetime
    BY <2>1
  <2>4. OrderAfter(e, p) = [e EXCEPT !.created_at = c, !.expiration = x]
    BY <1>2, <2>2, <2>3 DEF OrderAfter
  <2> HIDE DEF OrderAfter
  <2>5. PICK f : f = [e EXCEPT !.created_at = c, !.expiration = x]
    OBVIOUS
  <2>6. /\ f \in OwnEvents /\ f.kind = e.kind /\ f.value = e.value
        /\ f.issue = e.issue /\ f.created_at = c
    BY <2>5 DEF OwnEvents
  <2> QED BY <2>1, <2>2, <2>4, <2>5, <2>6
<1> QED BY <1>1, <1>2

(***************************************************************************)
(* The claims relays and pages have of the visitor on the task.            *)
(***************************************************************************)
OwnClaims(S) == {e \in S : e.kind = "claim" /\ e.pubkey = Me /\ e.issue = Topic}

OwnNewest(S) == Newest(OwnClaims(S))

\* Claims are ranked, in every part of them, and none is deleted.
ClaimsRanked(R) ==
    /\ NoEvent \notin R
    /\ \A e \in R : e.pubkey = Me => e.kind # "deletion_request"
    /\ \A e \in OwnClaims(R) : e.id \in Nat /\ e.created_at \in Nat
    /\ \A S \in SUBSET OwnClaims(R) : S # {} => \E e \in S : IsNewestIn(e, S)

LEMMA OwnClaimIs ==
    ASSUME NEW R, ClaimsRanked(R), NEW S \in SUBSET R
    PROVE  OwnClaim(S) = OwnNewest(S)
<1>1. {e \in LiveEvents(S) : e.kind = "claim" /\ e.pubkey = Me /\ e.issue = Topic} = OwnClaims(S)
  BY DEF LiveEvents, OwnClaims, ClaimsRanked
<1> QED BY <1>1 DEF OwnClaim, OwnNewest

LEMMA NewestFacts ==
    ASSUME NEW R, ClaimsRanked(R), NEW S \in SUBSET R
    PROVE  /\ OwnClaims(S) = {} => OwnNewest(S) = NoEvent
           /\ OwnClaims(S) # {} => /\ IsNewestIn(OwnNewest(S), OwnClaims(S))
                                   /\ OwnNewest(S) # NoEvent /\ OwnNewest(S) \in OwnClaims(R)
           /\ OwnNewest(S) = NoEvent \/ OwnNewest(S).created_at \in Nat
<1>1. OwnClaims(S) \in SUBSET OwnClaims(R)
  BY DEF OwnClaims
<1>2. OwnClaims(S) # {} => \E e \in OwnClaims(S) : IsNewestIn(e, OwnClaims(S))
  BY <1>1 DEF ClaimsRanked
<1>3. OwnClaims(S) # {} => IsNewestIn(OwnNewest(S), OwnClaims(S))
  BY <1>2, Zenon DEF OwnNewest, Newest
<1>4. OwnClaims(S) = {} => OwnNewest(S) = NoEvent
  BY DEF OwnNewest, Newest
<1>5. OwnClaims(S) # {} => OwnNewest(S) \in OwnClaims(R)
  BY <1>1, <1>3 DEF IsNewestIn
<1>6. \A e \in OwnClaims(R) : e # NoEvent /\ e.created_at \in Nat
  BY DEF ClaimsRanked, OwnClaims
<1> QED BY <1>3, <1>4, <1>5, <1>6

LEMMA OneNewest ==
    ASSUME NEW R, ClaimsRanked(R), NEW S \in SUBSET OwnClaims(R),
           NEW e, NEW f, IsNewestIn(e, S), IsNewestIn(f, S)
    PROVE  e = f
<1>1. e \in S /\ f \in S /\ (e = f \/ (IsNewer(e, f) /\ IsNewer(f, e)))
  BY DEF IsNewestIn
<1>2. e.id \in Nat /\ f.id \in Nat /\ e.created_at \in Nat /\ f.created_at \in Nat
  BY <1>1 DEF ClaimsRanked
<1> QED BY <1>1, <1>2 DEF IsNewer

\* A page that has the newest claim keeps it as it hears of others.
LEMMA StillNewest ==
    ASSUME NEW R, ClaimsRanked(R), NEW T \in SUBSET R, NEW S \in SUBSET T,
           OwnNewest(S) = OwnNewest(R)
    PROVE  OwnNewest(T) = OwnNewest(R)
<1>1. OwnClaims(S) \subseteq OwnClaims(T) /\ OwnClaims(T) \subseteq OwnClaims(R)
  BY DEF OwnClaims
<1>2. CASE OwnClaims(R) = {}
  <2>1. OwnClaims(T) = OwnClaims(R)
    BY <1>1, <1>2
  <2> QED BY <2>1 DEF OwnNewest
<1>3. CASE OwnClaims(R) # {}
  <2>1. IsNewestIn(OwnNewest(R), OwnClaims(R)) /\ OwnNewest(R) # NoEvent
    BY <1>3, NewestFacts
  <2>2. OwnClaims(S) # {}
    BY <2>1, NewestFacts
  <2>3. OwnNewest(R) \in OwnClaims(S)
    BY <2>2, NewestFacts DEF IsNewestIn
  <2>4. IsNewestIn(OwnNewest(R), OwnClaims(T))
    BY <1>1, <2>1, <2>3 DEF IsNewestIn
  <2>5. IsNewestIn(OwnNewest(T), OwnClaims(T))
    BY <1>1, <2>3, NewestFacts
  <2> QED BY <1>1, <2>4, <2>5, OneNewest
<1> QED BY <1>2, <1>3

\* Hearing of more claims, the newest is never older.
LEMMA NewestGrows ==
    ASSUME NEW R, ClaimsRanked(R), NEW T \in SUBSET R, NEW S \in SUBSET T,
           NEW e \in OwnClaims(R), OwnNewest(S) # NoEvent, IsNewer(OwnNewest(S), e)
    PROVE  OwnNewest(T) # NoEvent /\ IsNewer(OwnNewest(T), e)
<1>1. S \in SUBSET R /\ OwnClaims(S) \subseteq OwnClaims(T) /\ OwnClaims(T) \subseteq OwnClaims(R)
  BY DEF OwnClaims
<1>2. OwnNewest(S) \in OwnClaims(S) /\ OwnNewest(S) \in OwnClaims(R)
  BY <1>1, NewestFacts DEF IsNewestIn
<1>3. /\ OwnNewest(T) # NoEvent /\ OwnNewest(T) \in OwnClaims(R)
      /\ OwnNewest(T) = OwnNewest(S) \/ IsNewer(OwnNewest(T), OwnNewest(S))
  BY <1>1, <1>2, NewestFacts DEF IsNewestIn
<1> DEFINE t == OwnNewest(T)
           s == OwnNewest(S)
<1>4. \A x \in {t, s, e} : x.id \in Nat /\ x.created_at \in Nat
  BY <1>2, <1>3 DEF ClaimsRanked
<1>5. t = s \/ IsNewer(t, s)
  BY <1>3
<1> HIDE DEF t, s
<1>6. IsNewer(s, e) => IsNewer(t, e)
  BY <1>4, <1>5 DEF IsNewer
<1> QED BY <1>3, <1>6 DEF t, s

\* What relays take as the newest claim is the newest.
LEMMA TakenIsNewest ==
    ASSUME NEW R, ClaimsRanked(R), NEW e \in OwnEvents, e.kind = "claim", e.issue = Topic,
           KeepNewest(OwnClaim(R), e) = e
    PROVE  /\ ClaimsRanked(R \cup {e}) /\ OwnNewest(R \cup {e}) = e
           /\ OwnClaims(R \cup {e}) = OwnClaims(R) \cup {e}
<1>1. /\ e.pubkey = Me /\ e.id \in Nat /\ e.created_at \in Nat /\ e # NoEvent
  BY RenewalAssumption DEF OwnEvents
<1>2. OwnClaims(R \cup {e}) = OwnClaims(R) \cup {e}
  BY <1>1 DEF OwnClaims
<1>3. OwnClaim(R) = OwnNewest(R)
  BY OwnClaimIs
<1>4. \A f \in OwnClaims(R) : f = e \/ IsNewer(e, f)
  <2> SUFFICES ASSUME NEW f \in OwnClaims(R) PROVE f = e \/ IsNewer(e, f)
    OBVIOUS
  <2>1. PICK n : n = OwnNewest(R)
    OBVIOUS
  <2>2. n # NoEvent /\ n \in OwnClaims(R) /\ (f = n \/ IsNewer(n, f))
    BY <2>1, NewestFacts DEF IsNewestIn
  <2>3. IsNewer(e, n) \/ n = e
    BY <1>3, <2>1, <2>2 DEF KeepNewest
  <2>4. n.id \in Nat /\ n.created_at \in Nat /\ f.id \in Nat /\ f.created_at \in Nat
    BY <2>2 DEF ClaimsRanked
  <2> QED BY <1>1, <2>2, <2>3, <2>4 DEF IsNewer
<1>5. ASSUME NEW S \in SUBSET (OwnClaims(R) \cup {e}), S # {}
      PROVE  \E f \in S : IsNewestIn(f, S)
  <2>1. CASE e \in S
    BY <1>4, <2>1 DEF IsNewestIn
  <2>2. CASE e \notin S
    <3>1. S \in SUBSET OwnClaims(R)
      BY <2>2
    <3> QED BY <1>5, <3>1 DEF ClaimsRanked
  <2> QED BY <2>1, <2>2
<1>6. ClaimsRanked(R \cup {e})
  <2>1. NoEvent \notin R \cup {e}
    BY <1>1 DEF ClaimsRanked
  <2>2. \A f \in R \cup {e} : f.pubkey = Me => f.kind # "deletion_request"
    BY DEF ClaimsRanked
  <2>3. \A f \in OwnClaims(R \cup {e}) : f.id \in Nat /\ f.created_at \in Nat
    BY <1>1, <1>2 DEF ClaimsRanked
  <2>4. \A S \in SUBSET OwnClaims(R \cup {e}) : S # {} => \E f \in S : IsNewestIn(f, S)
    BY <1>2, <1>5
  <2> QED BY <2>1, <2>2, <2>3, <2>4 DEF ClaimsRanked
<1>7. IsNewestIn(e, OwnClaims(R \cup {e}))
  BY <1>2, <1>4 DEF IsNewestIn
<1>8. IsNewestIn(OwnNewest(R \cup {e}), OwnClaims(R \cup {e}))
  BY <1>2, <1>6, NewestFacts
<1>9. OwnNewest(R \cup {e}) = e
  BY <1>6, <1>7, <1>8, OneNewest
<1> QED BY <1>2, <1>6, <1>9

\* An event dated after the newest claim is taken.
LEMMA LaterIsTaken ==
    ASSUME NEW R, ClaimsRanked(R), NEW e \in OwnEvents,
           OwnNewest(R) = NoEvent \/ e.created_at > OwnNewest(R).created_at
    PROVE  KeepNewest(OwnClaim(R), e) = e
BY OwnClaimIs DEF KeepNewest, IsNewer

\* Other events leave the claims as they are.
LEMMA NoClaim ==
    ASSUME NEW R, ClaimsRanked(R), NEW e, e # NoEvent,
           e.pubkey = Me => e.kind \notin {"claim", "deletion_request"}
    PROVE  /\ ClaimsRanked(R \cup {e}) /\ OwnClaims(R \cup {e}) = OwnClaims(R)
           /\ OwnNewest(R \cup {e}) = OwnNewest(R)
<1>1. OwnClaims(R \cup {e}) = OwnClaims(R)
  BY DEF OwnClaims
<1> QED BY <1>1 DEF ClaimsRanked, OwnNewest

(***************************************************************************)
(* The portal's subscriptions.                                             *)
(***************************************************************************)
IsSub(sub) ==
    sub \in [open : BOOLEAN, ids : {sub.ids}, sent : {sub.sent}, buffer : {sub.buffer},
            eose : BOOLEAN]

\* A page has what the relays have, and none follows issues before it may.
ListenOK ==
    /\ PortalTypeOK
    /\ IsSub(board_sub) /\ IsSub(issue_sub)
    /\ board_sub.sent \subseteq relays /\ issue_sub.sent \subseteq relays
    /\ following \in BOOLEAN /\ (~ following => issue_sub = Closed)

LEMMA OpenedFacts ==
    ASSUME NEW ids
    PROVE  LET s == Opened(ids)
           IN  IsSub(s) /\ s.open = TRUE /\ s.ids = ids /\ s.sent = {} /\ s.buffer = {}
               /\ s.eose = FALSE
<1> PICK s : s = Opened(ids)
  OBVIOUS
<1>1. s.open = TRUE /\ s.ids = ids /\ s.sent = {} /\ s.buffer = {} /\ s.eose = FALSE
  BY DEF Opened, Closed
<1>2. IsSub(s)
  BY DEF IsSub, Opened, Closed
<1> QED BY <1>1, <1>2

LEMMA ClosedFacts ==
    /\ IsSub(Closed) /\ Closed.open = FALSE /\ Closed.ids = {} /\ Closed.sent = {}
    /\ Closed.buffer = {}
BY DEF Closed, IsSub

\* What is sent, flushed or ended stays the subscription it was.
LEMMA SentFacts ==
    ASSUME NEW sub, IsSub(sub), NEW e
    PROVE  LET s == Sent(sub, e)
           IN  /\ IsSub(s) /\ s.open = sub.open /\ s.ids = sub.ids /\ s.eose = sub.eose
               /\ s.sent = sub.sent \cup {e} /\ s.buffer = sub.buffer \cup {e}
<1> PICK sent : sent = sub.sent \cup {e}
  OBVIOUS
<1> PICK buffer : buffer = sub.buffer \cup {e}
  OBVIOUS
<1> PICK s : s = [sub EXCEPT !.sent = sent, !.buffer = buffer]
  OBVIOUS
<1>1. /\ s.open = sub.open /\ s.ids = sub.ids /\ s.eose = sub.eose
      /\ s.sent = sent /\ s.buffer = buffer
  BY DEF IsSub
<1>2. IsSub(s)
  BY DEF IsSub
<1>3. Sent(sub, e) = s
  BY DEF Sent
<1> QED BY <1>1, <1>2, <1>3

LEMMA FlushedFacts ==
    ASSUME NEW sub, IsSub(sub)
    PROVE  LET s == Flushed(sub)
           IN  /\ IsSub(s) /\ s.open = sub.open /\ s.ids = sub.ids /\ s.eose = sub.eose
               /\ s.sent = sub.sent /\ s.buffer = {}
<1> PICK s : s = Flushed(sub)
  OBVIOUS
<1>1. /\ s.open = sub.open /\ s.ids = sub.ids /\ s.eose = sub.eose
      /\ s.sent = sub.sent /\ s.buffer = {}
  BY DEF IsSub, Flushed
<1>2. IsSub(s)
  BY DEF IsSub, Flushed
<1> QED BY <1>1, <1>2

LEMMA EndedFacts ==
    ASSUME NEW sub, IsSub(sub)
    PROVE  LET s == Ended(sub)
           IN  /\ IsSub(s) /\ s.open = sub.open /\ s.ids = sub.ids /\ s.eose = TRUE
               /\ s.sent = sub.sent /\ s.buffer = {}
<1> PICK f : f = Flushed(sub)
  OBVIOUS
<1> PICK s : s = [f EXCEPT !.eose = TRUE]
  OBVIOUS
<1>1. /\ IsSub(f) /\ f.open = sub.open /\ f.ids = sub.ids /\ f.sent = sub.sent
      /\ f.buffer = {}
  BY FlushedFacts
<1>2. /\ s.open = f.open /\ s.ids = f.ids /\ s.eose = TRUE
      /\ s.sent = f.sent /\ s.buffer = f.buffer
  BY <1>1 DEF IsSub
<1>3. IsSub(s)
  BY <1>1 DEF IsSub
<1>4. Ended(sub) = s
  BY DEF Ended
<1> QED BY <1>1, <1>2, <1>3, <1>4

LEMMA ListenInit == PortalInit => ListenOK
<1> SUFFICES ASSUME PortalInit PROVE ListenOK
  OBVIOUS
<1>1. /\ now = 0 /\ store = {} /\ viewed_at = 0 /\ is_loaded = FALSE /\ following = FALSE
      /\ board_sub = Opened({}) /\ issue_sub = Closed
  BY DEF PortalInit
<1>2. /\ IsSub(board_sub) /\ board_sub.sent = {} /\ board_sub.buffer = {}
      /\ board_sub.eose = FALSE
  BY <1>1, OpenedFacts
<1>3. /\ IsSub(issue_sub) /\ issue_sub.sent = {} /\ issue_sub.buffer = {}
      /\ issue_sub.open = FALSE /\ issue_sub.ids = {}
  BY <1>1, ClosedFacts
<1>4. now \in 0 .. MaxTime /\ viewed_at \in 0 .. now
  BY <1>1, PortalAssumption
<1>5. PortalTypeOK
  BY <1>1, <1>2, <1>3, <1>4 DEF PortalTypeOK
<1> QED BY <1>1, <1>2, <1>3, <1>5 DEF ListenOK

\* What a page shows after Put is what its store then derives.
LEMMA PutKeeps ==
    ASSUME ListenOK, NEW E \in SUBSET relays', NEW sub, NEW runs \in BOOLEAN,
           NEW at_eose \in BOOLEAN, Put(E, sub, runs, at_eose),
           relays \subseteq relays', now' = now, runs = following', at_eose => runs,
           following => following',
           IsSub(sub), sub.open = issue_sub.open, sub.ids = issue_sub.ids,
           sub.sent = issue_sub.sent, sub.buffer \subseteq sub.sent,
           ~ runs => sub = issue_sub,
           IsSub(board_sub'), board_sub'.sent \subseteq relays',
           board_sub'.buffer \subseteq board_sub'.sent, following' <=> board_sub'.eose
    PROVE  ListenOK'
<1>1. /\ store \subseteq relays /\ viewed_at \in 0 .. now /\ now \in 0 .. MaxTime
      /\ issue_sub.open <=> issue_sub.ids # {}
      /\ following => issue_sub.ids = IssueIds(store, viewed_at)
      /\ issue_sub.sent \subseteq relays
      /\ is_loaded => following
      /\ ~ following => issue_sub = Closed
  BY DEF ListenOK, PortalTypeOK
<1>2. PICK S : S = store \cup E
  OBVIOUS
<1>3. PICK at : at = IF E = {} THEN viewed_at ELSE now
  OBVIOUS
<1>4. PICK ids : ids = IssueIds(S, at)
  OBVIOUS
<1>5. /\ store' = S /\ viewed_at' = at
      /\ issue_sub' = IF ~ runs \/ ids = sub.ids THEN sub
                      ELSE IF ids = {} THEN Closed ELSE Opened(ids)
      /\ is_loaded' = (is_loaded \/ (runs /\ LoadsEmpty(ids)) \/ (at_eose /\ ids = sub.ids))
  BY <1>2, <1>3, <1>4 DEF Put, Reopened
<1>6. ids = IssueIds(store, viewed_at)'
  BY <1>4, <1>5
<1>7. store' \subseteq relays' /\ viewed_at' \in 0 .. now' /\ now' \in 0 .. MaxTime
  <2>1. at \in 0 .. now
    BY <1>1, <1>3, PortalAssumption
  <2> QED BY <1>1, <1>2, <1>5, <2>1
<1>8. is_loaded' => following'
  BY <1>1, <1>5
<1>9. /\ IsSub(issue_sub') /\ issue_sub'.buffer \subseteq issue_sub'.sent
      /\ issue_sub'.sent \subseteq relays' /\ (issue_sub'.open <=> issue_sub'.ids # {})
      /\ runs => issue_sub'.ids = ids
      /\ ~ runs => issue_sub' = Closed
  <2>1. CASE ~ runs
    BY <1>1, <1>5, <2>1, ClosedFacts
  <2>2. CASE runs /\ ids = sub.ids
    <3>1. issue_sub' = sub
      BY <1>5, <2>2
    <3>2. sub.open <=> sub.ids # {}
      BY <1>1, <2>2
    <3>3. sub.sent \subseteq relays'
      <4>1. issue_sub.sent \subseteq relays /\ relays \subseteq relays'
        BY <1>1
      <4> QED BY <4>1
    <3> QED BY <2>2, <3>1, <3>2, <3>3
  <2>3. CASE runs /\ ids # sub.ids /\ ids = {}
    BY <1>5, <2>3, ClosedFacts
  <2>4. CASE runs /\ ids # sub.ids /\ ids # {}
    BY <1>5, <2>4, OpenedFacts
  <2> QED BY <2>1, <2>2, <2>3, <2>4
<1>10. PortalTypeOK'
  BY <1>6, <1>7, <1>8, <1>9 DEF PortalTypeOK
<1> QED BY <1>9, <1>10 DEF ListenOK

\* The relays may have taken more.
LEMMA ListenGrows ==
    ASSUME ListenOK, relays \subseteq relays', now' = now \/ (Tick /\ relays' = relays),
           UNCHANGED <<store, viewed_at, is_loaded, board_sub, issue_sub, following>>
    PROVE  ListenOK'
<1>1. now' \in 0 .. MaxTime /\ viewed_at \in 0 .. now'
  BY PortalAssumption DEF ListenOK, PortalTypeOK, Tick
<1>2. PortalTypeOK'
  BY <1>1 DEF ListenOK, PortalTypeOK
<1> QED BY <1>2 DEF ListenOK

\* Hearing from the relays, the store gains what they hold.
LEMMA ListenStep ==
    ASSUME ListenOK, Listen
    PROVE  ListenOK' /\ UNCHANGED <<now, relays>> /\ store \subseteq store'
<1>1. /\ IsSub(board_sub) /\ IsSub(issue_sub) /\ board_sub.buffer \subseteq board_sub.sent
      /\ issue_sub.buffer \subseteq issue_sub.sent /\ (following <=> board_sub.eose)
      /\ board_sub.sent \subseteq relays /\ issue_sub.sent \subseteq relays
      /\ ~ following => issue_sub = Closed
  BY DEF ListenOK, PortalTypeOK
<1>2. ASSUME NEW e \in relays, SendBoard(e)
      PROVE  ListenOK' /\ UNCHANGED <<now, relays>> /\ store \subseteq store'
  <2>1. /\ board_sub' = Sent(board_sub, e)
        /\ UNCHANGED <<now, relays, store, viewed_at, is_loaded, issue_sub, following>>
    BY <1>2 DEF SendBoard
  <2>2. /\ IsSub(board_sub') /\ board_sub'.eose = board_sub.eose
        /\ board_sub'.sent = board_sub.sent \cup {e}
        /\ board_sub'.buffer = board_sub.buffer \cup {e}
    BY <1>1, <2>1, SentFacts
  <2>3. PortalTypeOK'
    BY <1>1, <2>1, <2>2 DEF ListenOK, PortalTypeOK
  <2> QED BY <1>1, <2>1, <2>2, <2>3 DEF ListenOK
<1>3. ASSUME NEW e \in relays, SendIssue(e)
      PROVE  ListenOK' /\ UNCHANGED <<now, relays>> /\ store \subseteq store'
  <2>1. /\ issue_sub' = Sent(issue_sub, e) /\ issue_sub.open
        /\ UNCHANGED <<now, relays, store, viewed_at, is_loaded, board_sub, following>>
    BY <1>3 DEF SendIssue
  <2>2. /\ IsSub(issue_sub') /\ issue_sub'.open = issue_sub.open
        /\ issue_sub'.ids = issue_sub.ids
        /\ issue_sub'.sent = issue_sub.sent \cup {e}
        /\ issue_sub'.buffer = issue_sub.buffer \cup {e}
    BY <1>1, <2>1, SentFacts
  <2>3. following
    BY <1>1, <2>1, ClosedFacts
  <2>4. PortalTypeOK'
    BY <1>1, <2>1, <2>2 DEF ListenOK, PortalTypeOK
  <2> QED BY <1>1, <2>1, <2>2, <2>3, <2>4 DEF ListenOK
<1>4. CASE FlushBoard
  <2>1. board_sub' = Flushed(board_sub) /\ UNCHANGED <<now, relays, following>>
    BY <1>4 DEF FlushBoard
  <2>2. /\ IsSub(board_sub') /\ board_sub'.eose = board_sub.eose
        /\ board_sub'.sent = board_sub.sent /\ board_sub'.buffer = {}
    BY <1>1, <2>1, FlushedFacts
  <2>3. CASE board_sub.eose
    <3>1. UNCHANGED <<store, viewed_at, is_loaded, issue_sub>>
      BY <1>4, <2>3 DEF FlushBoard
    <3>2. PortalTypeOK'
      BY <1>1, <2>1, <2>2, <3>1 DEF ListenOK, PortalTypeOK
    <3> QED BY <1>1, <2>1, <2>2, <3>1, <3>2 DEF ListenOK
  <2>4. CASE ~ board_sub.eose
    <3>1. Put(board_sub.buffer, issue_sub, FALSE, FALSE)
      BY <1>4, <2>4 DEF FlushBoard
    <3>2. store' = store \cup board_sub.buffer
      BY <3>1 DEF Put
    <3>3. following' = FALSE
      BY <1>1, <2>1, <2>4 DEF ListenOK, PortalTypeOK
    <3>4. board_sub.buffer \in SUBSET relays' /\ following = FALSE
      BY <1>1, <2>1, <2>4 DEF ListenOK, PortalTypeOK
    <3>5. ListenOK'
      BY <1>1, <2>1, <2>2, <2>4, <3>1, <3>3, <3>4, PutKeeps
    <3> QED BY <2>1, <3>2, <3>5
  <2> QED BY <2>3, <2>4
<1>5. CASE FlushIssue
  <2>1. /\ issue_sub.buffer # {} /\ UNCHANGED <<now, relays, board_sub, following>>
        /\ Put(issue_sub.buffer, Flushed(issue_sub), TRUE, FALSE)
    BY <1>5 DEF FlushIssue
  <2>2. store' = store \cup issue_sub.buffer
    BY <2>1 DEF Put
  <2>3. following' = TRUE
    <3>1. following
      BY <1>1, <2>1, ClosedFacts
    <3>2. following = TRUE
      BY <1>1, <3>1 DEF ListenOK, PortalTypeOK
    <3> QED BY <2>1, <3>2
  <2>4. issue_sub.buffer \in SUBSET relays'
    BY <1>1, <2>1
  <2>5. PICK sub : sub = Flushed(issue_sub)
    OBVIOUS
  <2>6. /\ IsSub(sub) /\ sub.open = issue_sub.open /\ sub.ids = issue_sub.ids
        /\ sub.sent = issue_sub.sent /\ sub.buffer = {}
    BY <1>1, <2>5, FlushedFacts
  <2>7. ListenOK'
    <3>1. Put(issue_sub.buffer, sub, TRUE, FALSE)
      BY <2>1, <2>5
    <3>2. relays' = relays /\ now' = now /\ TRUE = following' /\ sub.buffer \subseteq sub.sent
      BY <2>1, <2>3, <2>6
    <3>3. /\ IsSub(board_sub') /\ board_sub'.sent \subseteq relays'
          /\ board_sub'.buffer \subseteq board_sub'.sent /\ (following' <=> board_sub'.eose)
      BY <1>1, <2>1
    <3> QED BY <2>4, <2>6, <3>1, <3>2, <3>3, PutKeeps
  <2> QED BY <2>1, <2>2, <2>7
<1>6. CASE EoseBoard
  <2>1. /\ board_sub' = Ended(board_sub) /\ following' = TRUE /\ UNCHANGED <<now, relays>>
        /\ ~ board_sub.eose /\ Put(board_sub.buffer, issue_sub, TRUE, FALSE)
    BY <1>6 DEF EoseBoard
  <2>2. /\ IsSub(board_sub') /\ board_sub'.eose = TRUE
        /\ board_sub'.sent = board_sub.sent /\ board_sub'.buffer = {}
    BY <1>1, <2>1, EndedFacts
  <2>3. store' = store \cup board_sub.buffer
    BY <2>1 DEF Put
  <2>4. board_sub.buffer \in SUBSET relays'
    BY <1>1, <2>1
  <2>5. ListenOK'
    BY <1>1, <2>1, <2>2, <2>4, PutKeeps
  <2> QED BY <2>1, <2>3, <2>5
<1>7. CASE EoseIssue
  <2>1. /\ issue_sub.open /\ UNCHANGED <<now, relays, board_sub, following>>
        /\ Put(issue_sub.buffer, Ended(issue_sub), TRUE, TRUE)
    BY <1>7 DEF EoseIssue
  <2>2. store' = store \cup issue_sub.buffer
    BY <2>1 DEF Put
  <2>3. following' = TRUE
    <3>1. following
      BY <1>1, <2>1, ClosedFacts
    <3>2. following = TRUE
      BY <1>1, <3>1 DEF ListenOK, PortalTypeOK
    <3> QED BY <2>1, <3>2
  <2>4. issue_sub.buffer \in SUBSET relays'
    BY <1>1, <2>1
  <2>5. PICK sub : sub = Ended(issue_sub)
    OBVIOUS
  <2>6. /\ IsSub(sub) /\ sub.open = issue_sub.open /\ sub.ids = issue_sub.ids
        /\ sub.sent = issue_sub.sent /\ sub.buffer = {}
    BY <1>1, <2>5, EndedFacts
  <2>7. ListenOK'
    <3>1. Put(issue_sub.buffer, sub, TRUE, TRUE)
      BY <2>1, <2>5
    <3>2. relays' = relays /\ now' = now /\ TRUE = following' /\ sub.buffer \subseteq sub.sent
      BY <2>1, <2>3, <2>6
    <3>3. /\ IsSub(board_sub') /\ board_sub'.sent \subseteq relays'
          /\ board_sub'.buffer \subseteq board_sub'.sent /\ (following' <=> board_sub'.eose)
      BY <1>1, <2>1
    <3> QED BY <2>4, <2>6, <3>1, <3>2, <3>3, PutKeeps
  <2> QED BY <2>1, <2>2, <2>7
<1> QED BY <1>2, <1>3, <1>4, <1>5, <1>6, <1>7 DEF Listen

(***************************************************************************)
(* Sagas, the command line client, and what happened.                      *)
(***************************************************************************)
Keys == {"claim", "status", "comment", "issue"}

KindOf(key) == IF key = "status" THEN "status_open" ELSE key

PublishPhases == {"mining", "signing", "sent", "stored"}
RenewalPhases == {"renewal signing", "renewal sent", "renewal stored"}

\* What a saga publishes, and in a renewal, what it has published.
SagaOK(s) ==
    /\ s \in [key : Keys, phase : PublishPhases \cup RenewalPhases, event : OwnEvents,
              published : {s.published}]
    /\ s.phase \in PublishPhases => s.event.kind = KindOf(s.key)
    /\ s.phase = "mining" => s.event.kind \in {"issue", "comment"}
    /\ s.phase \in RenewalPhases =>
          /\ s.key \in {"status", "comment"}
          /\ s.event.kind = "claim" /\ s.event.value = "active" /\ s.published \in relays
    /\ s.event.kind = "claim" => s.event.issue = Topic
    /\ s.phase \in {"stored", "renewal stored"} => s.event \in relays

AgentOK ==
    /\ agent \in [phase : {"off", "loaded", "published"}, task : {"none"} \cup Agent,
                  board : SUBSET relays, at : Nat]
    /\ agent.phase # "off" => agent.task \in Agent
    /\ agent.phase = "published" => Renews

HistoryOK ==
    history \in [done : SUBSET Keys, chosen : {history.chosen}, crossed : SUBSET Keys,
                 unaware : BOOLEAN, lost : 0 .. MaxLost, runs : 0 .. MaxRuns]

SagasOK ==
    /\ \A s \in sagas : SagaOK(s)
    /\ \A s, t \in sagas : s.key = t.key => s = t

PageInv == ListenOK /\ ClaimsRanked(relays) /\ SagasOK /\ AgentOK /\ HistoryOK

LEMMA Numbers == ASSUME PageInv PROVE now \in Nat /\ MaxLost \in Nat /\ MaxRuns \in Nat
BY PortalAssumption, RenewalAssumption DEF PageInv, ListenOK, PortalTypeOK

LEMMA StoreNewest ==
    ASSUME PageInv
    PROVE  /\ store \in SUBSET relays
           /\ OwnClaim(store) = OwnNewest(store) /\ OwnClaim(relays) = OwnNewest(relays)
           /\ OwnNewest(store) = NoEvent \/ OwnNewest(store).created_at \in Nat
<1>1. store \in SUBSET relays /\ relays \in SUBSET relays
  BY DEF PageInv, ListenOK, PortalTypeOK
<1> QED BY <1>1, OwnClaimIs, NewestFacts DEF PageInv

\* Dated after the newest claim of R.
After(e, R) == OwnNewest(R) = NoEvent \/ e.created_at > OwnNewest(R).created_at

LEMMA OrderedAfterIs ==
    ASSUME NEW R, ClaimsRanked(R), NEW S \in SUBSET R, NEW e \in OwnEvents
    PROVE  LET f == OrderedAfter(e, S)
           IN  /\ f \in OwnEvents /\ f.kind = e.kind /\ f.value = e.value
               /\ f.issue = e.issue
               /\ e.kind = "claim" => After(f, S)
<1>1. OwnClaim(S) = OwnNewest(S) /\ (OwnNewest(S) = NoEvent \/ OwnNewest(S).created_at \in Nat)
  BY OwnClaimIs, NewestFacts
<1>2. CASE e.kind = "claim"
  <2>1. OrderedAfter(e, S) = OrderAfter(e, OwnNewest(S))
    BY <1>1, <1>2 DEF OrderedAfter
  <2>2. PICK p : p = OwnNewest(S)
    OBVIOUS
  <2>3. p = NoEvent \/ p.created_at \in Nat
    BY <1>1, <2>2
  <2> QED BY <2>1, <2>2, <2>3, Ordered DEF After
<1>3. CASE e.kind # "claim"
  BY <1>3 DEF OrderedAfter
<1> QED BY <1>2, <1>3

LEMMA ActiveIs ==
    ASSUME NEW S, NEW at, Claiming(S, at)
    PROVE  OwnClaim(S) # NoEvent /\ OwnClaim(S).value = "active"
BY DEF Claiming, IsActiveClaim

\* A button starts a saga of its key; only a comment does beside others.
PressEffect(key, s) ==
    /\ s.key = key /\ s.phase \in {"mining", "signing"} /\ SagaOK(s)
    /\ sagas' = sagas \cup {s}
    /\ \A t \in sagas : t.key # key
    /\ key \in {"claim", "status"} => sagas = {}
    /\ key \notin history.done
    /\ key = "claim" => After(s.event, store)
    /\ history'.crossed = history.crossed \cup Pending
    /\ ~ history'.unaware => /\ ~ history.unaware /\ agent.phase = "off"
                             /\ sagas = {} => OwnNewest(store) = OwnNewest(relays)
    /\ history'.done = history.done /\ history'.chosen = history.chosen
    /\ history'.lost = history.lost
    /\ UNCHANGED <<portalVars, agent>>

LEMMA PressStep ==
    ASSUME PageInv, NEW key, Press(key)
    PROVE  HistoryOK' /\ \E s : PressEffect(key, s)
<1>1. key \in Keys /\ key \notin history.done
  BY RenewalAssumption DEF Press, Keys
<1>2. PICK e : e = Template(key)
  OBVIOUS
<1>3. e \in OwnEvents /\ e.kind = KindOf(key) /\ (e.kind = "claim" => e.issue = Topic)
  <2>1. now \in Nat
    BY Numbers
  <2>2. CASE key = "claim"
    <3>1. PICK value \in {"none", "active", "released"} : e = Own("claim", value, now)
      BY <1>2, <2>2 DEF Template
    <3> QED BY <2>1, <2>2, <3>1, OwnIs DEF KindOf, OwnKinds
  <2>3. CASE key = "status"
    BY <1>2, <2>1, <2>3, OwnIs DEF Template, KindOf, OwnKinds
  <2>4. CASE key = "comment"
    BY <1>2, <2>1, <2>4, OwnIs DEF Template, KindOf, OwnKinds
  <2>5. CASE key = "issue"
    BY <1>2, <2>1, <2>5, OwnIs DEF Template, KindOf, OwnKinds
  <2> QED BY <1>1, <2>2, <2>3, <2>4, <2>5 DEF Keys
<1>4. PICK f : f = OrderedAfter(e, store)
  OBVIOUS
<1>5. /\ f \in OwnEvents /\ f.kind = KindOf(key) /\ (f.kind = "claim" => f.issue = Topic)
      /\ f.kind = "claim" => After(f, store)
  BY <1>3, <1>4, StoreNewest, OrderedAfterIs DEF PageInv
<1>6. PICK phase : phase = IF NeedsPow(store, viewed_at, f.kind) THEN "mining" ELSE "signing"
  OBVIOUS
<1>7. phase \in {"mining", "signing"} /\ (phase = "mining" => f.kind \in {"issue", "comment"})
  BY <1>6 DEF NeedsPow
<1>8. PICK s : s = Saga(key, phase, f, NoEvent)
  OBVIOUS
<1>9. s.key = key /\ s.phase = phase /\ s.event = f /\ s.published = NoEvent
  BY <1>8 DEF Saga
<1>10. SagaOK(s)
  <2>1. s \in [key : Keys, phase : PublishPhases \cup RenewalPhases, event : OwnEvents,
               published : {s.published}]
    BY <1>1, <1>5, <1>7, <1>8, <1>9 DEF Saga, PublishPhases
  <2>2. s.phase \notin RenewalPhases /\ s.phase \notin {"stored", "renewal stored"}
    BY <1>7, <1>9 DEF RenewalPhases
  <2> QED BY <1>5, <1>7, <1>9, <2>1, <2>2 DEF SagaOK
<1>11. sagas' = sagas \cup {s} /\ UNCHANGED <<portalVars, agent>>
  BY <1>2, <1>4, <1>6, <1>8 DEF Press
<1>12. /\ \A t \in sagas : t.key # key
       /\ key \in {"claim", "status"} => sagas = {}
  BY DEF Press, Enabled, Pending
<1>13. PICK u : u = (\/ history.unaware \/ agent.phase # "off"
                     \/ Pending = {} /\ OwnClaim(store) # OwnClaim(relays))
  OBVIOUS
<1>14. history' = [history EXCEPT !.crossed = history.crossed \cup Pending, !.unaware = u]
  BY <1>13 DEF Press
<1>15. u \in BOOLEAN /\ Pending \in SUBSET Keys
  BY <1>13 DEF Pending, PageInv, SagasOK, SagaOK
<1>16. /\ history'.crossed = history.crossed \cup Pending /\ history'.unaware = u
       /\ history'.done = history.done /\ history'.chosen = history.chosen
       /\ history'.lost = history.lost
  BY <1>14 DEF PageInv, HistoryOK
<1>17. HistoryOK'
  <2>1. PICK c \in SUBSET Keys : c = history.crossed \cup Pending
    BY <1>15 DEF PageInv, HistoryOK
  <2>2. history' = [history EXCEPT !.crossed = c, !.unaware = u]
    BY <1>14, <2>1
  <2> QED BY <1>15, <1>16, <2>2 DEF PageInv, HistoryOK
<1>18. ~ u => /\ ~ history.unaware /\ agent.phase = "off"
              /\ sagas = {} => OwnNewest(store) = OwnNewest(relays)
  BY <1>13, StoreNewest DEF Pending
<1>19. key = "claim" => f.kind = "claim"
  BY <1>5 DEF KindOf
<1>20. PressEffect(key, s)
  BY <1>1, <1>5, <1>7, <1>9, <1>10, <1>11, <1>12, <1>16, <1>18, <1>19 DEF PressEffect
<1> QED BY <1>17, <1>20

\* A saga goes on, to be signed and sent.
MovesEffect(s, t) ==
    /\ t.key = s.key /\ SagaOK(t) /\ Becomes(s, t)
    /\ s.phase \in {"mining", "signing", "renewal signing"}
    /\ t.phase \in {"signing", "sent", "renewal sent"}
    /\ s.phase \in RenewalPhases <=> t.phase \in RenewalPhases
    /\ t.event.kind = s.event.kind
    /\ t.event.kind = "claim" =>
          /\ t.event.created_at = s.event.created_at
          /\ s.phase \in {"signing", "renewal signing"}
    /\ UNCHANGED <<portalVars, agent, history>>

\* Relays take its event, and it hears of it.
StoredEffect(s, t) ==
    /\ t.key = s.key /\ SagaOK(t)' /\ Becomes(s, t)
    /\ s.phase \in {"sent", "renewal sent"}
    /\ t.phase = (IF s.phase = "sent" THEN "stored" ELSE "renewal stored")
    /\ t.event = s.event
    /\ RelaysTake(s.event)
    /\ history'.chosen = IF s.key = "claim" THEN s.event.value ELSE history.chosen
    /\ history'.done = history.done /\ history'.lost = history.lost
    /\ history'.crossed = history.crossed /\ history'.unaware = history.unaware
    /\ UNCHANGED agent

\* It renews the claim the page shows.
RenewsEffect(s, t) ==
    /\ t.key = s.key /\ s.key \in {"status", "comment"} /\ SagaOK(t) /\ Becomes(s, t)
    /\ s.phase = "stored" /\ t.phase = "renewal signing"
    /\ After(t.event, store)
    /\ OwnNewest(store) # NoEvent /\ OwnNewest(store).value = "active"
    /\ UNCHANGED <<portalVars, agent, history>>

\* It ends: reported, or failed.
EndsEffect(s) ==
    /\ sagas' = sagas \ {s} /\ ListenOK' /\ store \subseteq store'
    /\ history'.chosen = history.chosen /\ history'.crossed = history.crossed
    /\ history'.unaware = history.unaware
    /\ \/ /\ s.phase \in {"stored"} \cup RenewalPhases
          /\ history'.done = history.done \cup ({s.key} \cap {"comment", "issue"})
          /\ history'.lost = history.lost
       \/ /\ s.phase = "stored"
          /\ history'.done = history.done /\ history'.lost = history.lost + 1
       \/ s.phase \in {"signing", "sent"} /\ UNCHANGED history
    /\ UNCHANGED <<now, relays, agent>>

SagaEffect(s) ==
    \/ \E t : MovesEffect(s, t) \/ StoredEffect(s, t) \/ RenewsEffect(s, t)
    \/ EndsEffect(s)

LEMMA SagaShape ==
    ASSUME PageInv, NEW s \in sagas
    PROVE  /\ SagaOK(s) /\ s.key \in Keys /\ s.event \in OwnEvents
           /\ s = Saga(s.key, s.phase, s.event, s.published)
<1>1. SagaOK(s)
  BY DEF PageInv, SagasOK
<1>2. s \in [key : Keys, phase : PublishPhases \cup RenewalPhases, event : OwnEvents,
             published : {s.published}]
  BY <1>1 DEF SagaOK
<1> QED BY <1>1, <1>2 DEF Saga

LEMMA FulfilStep ==
    ASSUME PageInv, NEW s \in sagas, NEW events \in SUBSET relays, Fulfil(s, events),
           s.phase \in {"stored"} \cup RenewalPhases
    PROVE  EndsEffect(s) /\ HistoryOK'
<1>1. /\ Put(events, issue_sub, following, FALSE) /\ sagas' = sagas \ {s}
      /\ UNCHANGED <<now, relays, board_sub, following, agent>>
  BY DEF Fulfil
<1>2. ListenOK'
  <2>1. /\ ListenOK /\ IsSub(board_sub) /\ IsSub(issue_sub)
        /\ board_sub.buffer \subseteq board_sub.sent
        /\ issue_sub.buffer \subseteq issue_sub.sent /\ (following <=> board_sub.eose)
        /\ board_sub.sent \subseteq relays /\ following \in BOOLEAN
        /\ ~ following => issue_sub = Closed
    BY DEF PageInv, ListenOK, PortalTypeOK
  <2>2. following = following' /\ events \in SUBSET relays' /\ relays \subseteq relays'
    BY <1>1
  <2>3. /\ IsSub(board_sub') /\ board_sub'.sent \subseteq relays'
        /\ board_sub'.buffer \subseteq board_sub'.sent /\ (following' <=> board_sub'.eose)
    BY <1>1, <2>1
  <2> QED BY <1>1, <2>1, <2>2, <2>3, PutKeeps
<1>3. store \subseteq store'
  BY <1>1 DEF Put
<1>4. PICK d : d = history.done \cup ({s.key} \cap {"comment", "issue"})
  OBVIOUS
<1>5. d \in SUBSET Keys
  BY <1>4 DEF PageInv, HistoryOK, Keys
<1>6. history' = [history EXCEPT !.done = d]
  BY <1>4 DEF Fulfil
<1>7. /\ history'.done = d /\ history'.chosen = history.chosen
      /\ history'.crossed = history.crossed /\ history'.unaware = history.unaware
      /\ history'.lost = history.lost
  BY <1>6 DEF PageInv, HistoryOK
<1>8. HistoryOK'
  BY <1>5, <1>6, <1>7 DEF PageInv, HistoryOK
<1> QED BY <1>1, <1>2, <1>3, <1>4, <1>7, <1>8 DEF EndsEffect

LEMMA SagaStepEffect ==
    ASSUME PageInv, NEW s \in sagas, SagaStep(s)
    PROVE  SagaEffect(s) /\ HistoryOK'
<1>1. SagaOK(s) /\ s.key \in Keys /\ s = Saga(s.key, s.phase, s.event, s.published)
  BY SagaShape
<1>2. PICK e \in OwnEvents : e = s.event
  BY SagaShape
<1>3. PICK p : p = s.published
  OBVIOUS
<1>4. ASSUME NEW f \in OwnEvents, NEW phase \in {"signing", "sent", "renewal sent"},
             f.kind = e.kind, f.value = e.value, f.issue = e.issue,
             s.phase \in {"mining", "signing", "renewal signing"},
             s.phase = "renewal signing" <=> phase = "renewal sent"
      PROVE  SagaOK(Saga(s.key, phase, f, p))
  <2>1. PICK t : t = Saga(s.key, phase, f, p)
    OBVIOUS
  <2>2. t.key = s.key /\ t.phase = phase /\ t.event = f /\ t.published = p
    BY <2>1 DEF Saga
  <2>3. t \in [key : Keys, phase : PublishPhases \cup RenewalPhases, event : OwnEvents,
               published : {t.published}]
    BY <1>1, <1>4, <2>1, <2>2 DEF Saga, PublishPhases, RenewalPhases
  <2>4. SagaOK(t)
    BY <1>1, <1>2, <1>3, <1>4, <2>2, <2>3 DEF SagaOK, PublishPhases, RenewalPhases
  <2> QED BY <2>1, <2>4
<1>5. CASE Mined(s)
  <2>1. PICK f : f = [e EXCEPT !.created_at = now, !.zero_bits = UnvouchedPow,
                               !.nonce = UnvouchedPow]
    OBVIOUS
  <2>2. f \in OwnEvents /\ f.kind = e.kind /\ f.value = e.value /\ f.issue = e.issue
    BY <2>1, Numbers, StateAssumption DEF OwnEvents
  <2>3. PICK t : t = Saga(s.key, "signing", f, p)
    OBVIOUS
  <2>4. s.phase = "mining" /\ Becomes(s, t) /\ UNCHANGED <<portalVars, agent, history>>
    BY <1>2, <1>3, <1>5, <2>1, <2>3 DEF Mined, GoesOn
  <2>5. SagaOK(t) /\ t.key = s.key /\ t.phase = "signing" /\ t.event = f
    <3>1. SagaOK(t)
      BY <1>4, <2>2, <2>3, <2>4
    <3> QED BY <2>3, <3>1 DEF Saga
  <2>6. e.kind \in {"issue", "comment"}
    BY <1>1, <1>2, <2>4 DEF SagaOK
  <2>7. MovesEffect(s, t)
    BY <1>2, <2>2, <2>4, <2>5, <2>6 DEF MovesEffect, RenewalPhases
  <2>8. HistoryOK'
    BY <2>4 DEF PageInv, HistoryOK
  <2> QED BY <2>7, <2>8 DEF SagaEffect
<1>6. CASE Sign(s)
  <2>1. PICK id \in UnusedIds(e.kind) :
            GoesOn(s, IF s.phase = "signing" THEN "sent" ELSE "renewal sent",
                   [s.event EXCEPT !.id = id])
    BY <1>2, <1>6 DEF Sign
  <2>2. id \in Nat
    <3>1. e.kind \in OwnKinds
      BY <1>2 DEF OwnEvents
    <3> QED BY <2>1, <3>1, RenewalAssumption DEF UnusedIds
  <2>3. PICK f : f = [e EXCEPT !.id = id]
    OBVIOUS
  <2>4. /\ f \in OwnEvents /\ f.kind = e.kind /\ f.value = e.value /\ f.issue = e.issue
        /\ f.created_at = e.created_at
    BY <2>2, <2>3, WithId
  <2>5. PICK phase : phase = IF s.phase = "signing" THEN "sent" ELSE "renewal sent"
    OBVIOUS
  <2>6. PICK t : t = Saga(s.key, phase, f, p)
    OBVIOUS
  <2>7. s.phase \in {"signing", "renewal signing"} /\ UNCHANGED <<portalVars, agent, history>>
    BY <1>6 DEF Sign
  <2>9. Becomes(s, t)
    BY <1>2, <1>3, <2>1, <2>3, <2>5, <2>6 DEF GoesOn
  <2>8. phase \in {"sent", "renewal sent"} /\ (s.phase = "renewal signing" <=> phase = "renewal sent")
    BY <2>5, <2>7
  <2>10. SagaOK(t) /\ t.key = s.key /\ t.phase = phase /\ t.event = f
    <3>1. SagaOK(t)
      BY <1>4, <2>4, <2>6, <2>7, <2>8
    <3> QED BY <2>6, <3>1 DEF Saga
  <2>11. MovesEffect(s, t)
    BY <1>2, <2>4, <2>5, <2>7, <2>9, <2>10 DEF MovesEffect, RenewalPhases
  <2>12. HistoryOK'
    BY <2>7 DEF PageInv, HistoryOK
  <2> QED BY <2>11, <2>12 DEF SagaEffect
<1>7. CASE Stored(s)
  <2>1. /\ s.phase \in {"sent", "renewal sent"} /\ RelaysTake(e) /\ UNCHANGED agent
        /\ relays' = relays \cup {e}
    BY <1>2, <1>7 DEF Stored, RelaysTake
  <2>2. PICK phase : phase = IF s.phase = "sent" THEN "stored" ELSE "renewal stored"
    OBVIOUS
  <2>3. PICK t : t = Saga(s.key, phase, e, p)
    OBVIOUS
  <2>4. Becomes(s, t)
    BY <1>2, <1>3, <1>7, <2>2, <2>3 DEF Stored, GoesOn
  <2>5. t.key = s.key /\ t.phase = phase /\ t.event = e /\ t.published = p
    BY <2>3 DEF Saga
  <2>6. t \in [key : Keys, phase : PublishPhases \cup RenewalPhases, event : OwnEvents,
               published : {t.published}]
    BY <1>1, <2>2, <2>3, <2>5 DEF Saga, PublishPhases, RenewalPhases
  <2>7. SagaOK(t)'
    BY <1>1, <1>2, <1>3, <2>1, <2>2, <2>5, <2>6 DEF SagaOK, PublishPhases, RenewalPhases
  <2>8. PICK c : c = IF s.key = "claim" THEN e.value ELSE history.chosen
    OBVIOUS
  <2>9. history' = [history EXCEPT !.chosen = c]
    BY <1>2, <1>7, <2>8 DEF Stored
  <2>10. /\ history'.chosen = c /\ history'.done = history.done
         /\ history'.crossed = history.crossed /\ history'.unaware = history.unaware
         /\ history'.lost = history.lost
    BY <2>9 DEF PageInv, HistoryOK
  <2>11. HistoryOK'
    BY <2>9, <2>10 DEF PageInv, HistoryOK
  <2>12. StoredEffect(s, t)
    BY <1>2, <2>1, <2>2, <2>4, <2>5, <2>7, <2>8, <2>10 DEF StoredEffect
  <2> QED BY <2>11, <2>12 DEF SagaEffect
<1>8. CASE Answered(s)
  <2>1. s.phase = "stored" /\ e \in relays
    BY <1>1, <1>2, <1>8 DEF Answered, SagaOK
  <2>2. CASE s.key \in {"claim", "issue"} \/ ~ Claiming(store, viewed_at)
    <3>1. Fulfil(s, {e})
      BY <1>2, <1>8, <2>2 DEF Answered
    <3> QED BY <2>1, <3>1, FulfilStep DEF SagaEffect
  <2>3. CASE ~ (s.key \in {"claim", "issue"} \/ ~ Claiming(store, viewed_at))
    <3>1. PICK f : f = OrderedAfter(Own("claim", "active", now), store)
      OBVIOUS
    <3>2. /\ f \in OwnEvents /\ f.kind = "claim" /\ f.value = "active" /\ f.issue = Topic
          /\ After(f, store)
      <4>1. PICK o : o = Own("claim", "active", now)
        OBVIOUS
      <4>2. o \in OwnEvents /\ o.kind = "claim" /\ o.value = "active" /\ o.issue = Topic
        BY <4>1, OwnIs, Numbers DEF OwnKinds
      <4> QED BY <3>1, <4>1, <4>2, StoreNewest, OrderedAfterIs DEF PageInv
    <3>3. PICK t : t = Saga(s.key, "renewal signing", f, e)
      OBVIOUS
    <3>4. Becomes(s, t) /\ UNCHANGED <<portalVars, agent, history>>
      BY <1>2, <1>8, <2>3, <3>1, <3>3 DEF Answered
    <3>5. t.key = s.key /\ t.phase = "renewal signing" /\ t.event = f /\ t.published = e
      BY <3>3 DEF Saga
    <3>6. s.key \in {"status", "comment"}
      BY <1>1, <2>3 DEF Keys
    <3>7. t \in [key : Keys, phase : PublishPhases \cup RenewalPhases, event : OwnEvents,
                 published : {t.published}]
      BY <1>1, <3>2, <3>3, <3>5 DEF Saga, RenewalPhases
    <3>8. SagaOK(t)
      BY <2>1, <3>2, <3>5, <3>6, <3>7 DEF SagaOK, PublishPhases
    <3>9. OwnNewest(store) # NoEvent /\ OwnNewest(store).value = "active"
      BY <2>3, ActiveIs, StoreNewest
    <3>10. RenewsEffect(s, t)
      BY <2>1, <3>2, <3>4, <3>5, <3>6, <3>8, <3>9 DEF RenewsEffect
    <3>11. HistoryOK'
      BY <3>4 DEF PageInv, HistoryOK
    <3> QED BY <3>10, <3>11 DEF SagaEffect
  <2> QED BY <2>2, <2>3
<1>9. CASE Renewed(s)
  <2>1. s.phase = "renewal stored" /\ Fulfil(s, {p, e})
    BY <1>2, <1>3, <1>9 DEF Renewed
  <2>2. p \in relays /\ e \in relays
    BY <1>1, <1>2, <1>3, <2>1 DEF SagaOK, RenewalPhases
  <2>3. s.phase \in {"stored"} \cup RenewalPhases /\ {p, e} \in SUBSET relays
    BY <2>1, <2>2 DEF RenewalPhases
  <2> QED BY <2>1, <2>3, FulfilStep DEF SagaEffect
<1>10. CASE Fails(s)
  <2>1. s.phase \in {"signing", "sent"} /\ Failed(s) /\ UNCHANGED history
    BY <1>10 DEF Fails
  <2>2. ListenOK' /\ store' = store /\ relays' = relays /\ now' = now
    BY <2>1, ListenGrows DEF Failed, PageInv, portalVars
  <2>3. EndsEffect(s)
    BY <2>1, <2>2 DEF EndsEffect, Failed
  <2>4. HistoryOK'
    BY <2>1 DEF PageInv, HistoryOK
  <2> QED BY <2>3, <2>4 DEF SagaEffect
<1>11. CASE AnswerLost(s)
  <2>1. s.phase = "stored" /\ Failed(s) /\ history.lost < MaxLost
    BY <1>11 DEF AnswerLost
  <2>2. ListenOK' /\ store' = store /\ relays' = relays /\ now' = now
    BY <2>1, ListenGrows DEF Failed, PageInv, portalVars
  <2>3. PICK n : n = history.lost + 1
    OBVIOUS
  <2>4. n \in 0 .. MaxLost
    BY <2>1, <2>3, Numbers DEF PageInv, HistoryOK
  <2>5. history' = [history EXCEPT !.lost = n]
    BY <1>11, <2>3 DEF AnswerLost
  <2>6. /\ history'.lost = n /\ history'.chosen = history.chosen /\ history'.done = history.done
        /\ history'.crossed = history.crossed /\ history'.unaware = history.unaware
    BY <2>5 DEF PageInv, HistoryOK
  <2>7. HistoryOK'
    BY <2>4, <2>5, <2>6 DEF PageInv, HistoryOK
  <2>8. EndsEffect(s)
    BY <2>1, <2>2, <2>3, <2>6 DEF EndsEffect, Failed
  <2> QED BY <2>7, <2>8 DEF SagaEffect
<1>12. CASE RenewalFails(s)
  <2>1. s.phase \in RenewalPhases /\ Fulfil(s, {p})
    BY <1>3, <1>12 DEF RenewalFails, RenewalPhases
  <2>2. p \in relays
    BY <1>1, <1>3, <2>1 DEF SagaOK
  <2> QED BY <2>1, <2>2, FulfilStep DEF SagaEffect
<1> QED BY <1>5, <1>6, <1>7, <1>8, <1>9, <1>10, <1>11, <1>12 DEF SagaStep

(***************************************************************************)
(* What relays take, the command line client, and what others do.          *)
(***************************************************************************)
OwnComments(S) == {e \in S : e.kind = "comment" /\ e.pubkey = Me}

LEMMA TakeStep ==
    ASSUME PageInv, NEW e \in OwnEvents, e.kind = "claim" => e.issue = Topic, RelaysTake(e)
    PROVE  /\ relays' = relays \cup {e} /\ UNCHANGED <<now, store>>
           /\ ListenOK' /\ ClaimsRanked(relays')
           /\ e.kind = "claim" => /\ OwnNewest(relays') = e
                                  /\ OwnClaims(relays') = OwnClaims(relays) \cup {e}
           /\ e.kind # "claim" => /\ OwnNewest(relays') = OwnNewest(relays)
                                  /\ OwnClaims(relays') = OwnClaims(relays)
           /\ OwnComments(relays') = IF e.kind = "comment" THEN OwnComments(relays) \cup {e}
                                     ELSE OwnComments(relays)
<1>1. /\ relays' = relays \cup {e} /\ Takes(e)
      /\ UNCHANGED <<now, store, viewed_at, is_loaded, board_sub, issue_sub, following>>
  BY DEF RelaysTake
<1>2. ListenOK'
  BY <1>1, ListenGrows DEF PageInv
<1>3. /\ e.pubkey = Me /\ e.kind # "deletion_request" /\ e # NoEvent
  BY RenewalAssumption DEF OwnEvents, OwnKinds
<1>4. CASE e.kind = "claim"
  <2>1. KeepNewest(OwnClaim(relays), e) = e
    BY <1>1, <1>4 DEF Takes
  <2>2. /\ ClaimsRanked(relays \cup {e}) /\ OwnNewest(relays \cup {e}) = e
        /\ OwnClaims(relays \cup {e}) = OwnClaims(relays) \cup {e}
    BY <1>4, <2>1, TakenIsNewest DEF PageInv
  <2>3. OwnComments(relays \cup {e}) = OwnComments(relays)
    BY <1>4 DEF OwnComments
  <2> QED BY <1>1, <1>2, <1>4, <2>2, <2>3
<1>5. CASE e.kind # "claim"
  <2>1. /\ ClaimsRanked(relays \cup {e}) /\ OwnNewest(relays \cup {e}) = OwnNewest(relays)
        /\ OwnClaims(relays \cup {e}) = OwnClaims(relays)
    BY <1>3, <1>5, NoClaim DEF PageInv
  <2>2. OwnComments(relays \cup {e}) = IF e.kind = "comment" THEN OwnComments(relays) \cup {e}
                                       ELSE OwnComments(relays)
    BY <1>3 DEF OwnComments
  <2> QED BY <1>1, <1>2, <1>5, <2>1, <2>2
<1> QED BY <1>4, <1>5

\* It has loaded what the relays hold, and has the page for itself.
LoadsEffect ==
    /\ agent.phase = "off" /\ agent'.phase = "loaded" /\ agent'.board = relays
    /\ ~ history'.unaware => ~ history.unaware /\ sagas = {}
    /\ history'.chosen = history.chosen /\ history'.crossed = history.crossed
    /\ history'.done = history.done /\ history'.lost = history.lost
    /\ UNCHANGED <<portalVars, sagas>>

PublishesEffect(e) ==
    /\ agent.phase = "loaded" /\ e \in OwnEvents
    /\ e.kind # "comment" /\ (e.kind = "claim" => e.issue = Topic)
    /\ RelaysTake(e)
    /\ \/ agent'.phase = "off"
       \/ e.kind # "claim" /\ agent'.phase = "published" /\ agent'.board = agent.board
    /\ history'.chosen = IF e.kind = "claim" THEN e.value ELSE history.chosen
    /\ history'.crossed = history.crossed /\ history'.unaware = history.unaware
    /\ history'.done = history.done /\ history'.lost = history.lost
    /\ UNCHANGED sagas

AgentRenewsEffect(e) ==
    /\ agent.phase = "published" /\ agent'.phase = "off"
    /\ e \in OwnEvents /\ e.kind = "claim" /\ e.issue = Topic /\ e.value = "active"
    /\ RelaysTake(e)
    /\ OwnNewest(agent.board) # NoEvent /\ OwnNewest(agent.board).value = "active"
    /\ UNCHANGED <<sagas, history>>

ExitsEffect == agent'.phase = "off" /\ UNCHANGED <<portalVars, sagas, history>>

AgentEffect ==
    \/ LoadsEffect \/ ExitsEffect
    \/ \E e : PublishesEffect(e) \/ AgentRenewsEffect(e)

LEMMA AgentStepEffect ==
    ASSUME PageInv, AgentStep
    PROVE  AgentEffect /\ AgentOK' /\ HistoryOK'
<1>1. /\ agent \in [phase : {"off", "loaded", "published"}, task : {"none"} \cup Agent,
                    board : SUBSET relays, at : Nat]
      /\ agent.phase # "off" => agent.task \in Agent
      /\ agent.phase = "published" => Renews
      /\ ClaimsRanked(relays) /\ now \in Nat
  BY Numbers DEF PageInv, AgentOK
<1>2. agent' = NoAgent => AgentOK' /\ agent'.phase = "off"
  BY DEF NoAgent, AgentOK
<1>3. ASSUME NEW task \in Agent, AgentLoads(task) PROVE AgentEffect /\ AgentOK' /\ HistoryOK'
  <2>1. /\ agent' = [phase |-> "loaded", task |-> task, board |-> relays, at |-> now]
        /\ agent.phase = "off" /\ history.runs < MaxRuns /\ UNCHANGED <<portalVars, sagas>>
        /\ relays' = relays
    BY <1>3 DEF AgentLoads, portalVars
  <2>2. PICK n : n = history.runs + 1
    OBVIOUS
  <2>3. PICK u : u = (history.unaware \/ sagas # {})
    OBVIOUS
  <2>4. n \in 0 .. MaxRuns /\ u \in BOOLEAN
    BY <2>1, <2>2, <2>3, Numbers DEF PageInv, HistoryOK
  <2>5. history' = [history EXCEPT !.runs = n, !.unaware = u]
    BY <1>3, <2>2, <2>3 DEF AgentLoads
  <2>6. /\ history'.unaware = u /\ history'.chosen = history.chosen
        /\ history'.crossed = history.crossed /\ history'.done = history.done
        /\ history'.lost = history.lost
    BY <2>5 DEF PageInv, HistoryOK
  <2>7. HistoryOK'
    BY <2>4, <2>5, <2>6 DEF PageInv, HistoryOK
  <2>8. AgentOK'
    BY <1>1, <2>1 DEF AgentOK
  <2>9. ~ u => ~ history.unaware /\ sagas = {}
    BY <2>3
  <2>10. LoadsEffect
    BY <2>1, <2>6, <2>9 DEF LoadsEffect
  <2> QED BY <2>7, <2>8, <2>10 DEF AgentEffect
<1>4. CASE AgentPublishes
  <2>1. PICK template : template = AgentTemplate
    OBVIOUS
  <2>2. agent.phase = "loaded" /\ agent.task \in {"claim", "release", "status"}
    BY <1>1, <1>4, RenewalAssumption DEF AgentPublishes
  <2>3. /\ template \in OwnEvents /\ template.kind \in {"claim", "status_open"}
        /\ template.kind = "claim" => template.issue = Topic
        /\ agent.task = "status" => template.kind # "claim"
    <3>1. CASE agent.task = "claim"
      BY <1>1, <2>1, <3>1, OwnIs DEF AgentTemplate, OwnKinds
    <3>2. CASE agent.task = "release"
      BY <1>1, <2>1, <3>2, OwnIs DEF AgentTemplate, OwnKinds
    <3>3. CASE agent.task = "status"
      BY <1>1, <2>1, <3>3, OwnIs DEF AgentTemplate, OwnKinds
    <3> QED BY <2>2, <3>1, <3>2, <3>3
  <2>4. PICK ordered : ordered = OrderedAfter(template, agent.board)
    OBVIOUS
  <2>5. /\ ordered \in OwnEvents /\ ordered.kind = template.kind
        /\ ordered.issue = template.issue
    BY <1>1, <2>3, <2>4, OrderedAfterIs
  <2>6. PICK id \in UnusedIds(template.kind) :
            LET e == [ordered EXCEPT !.id = id] IN
            /\ RelaysTake(e)
            /\ history' = [history EXCEPT !.chosen = IF e.kind = "claim" THEN e.value ELSE @]
    BY <1>4, <2>1, <2>4 DEF AgentPublishes
  <2>7. id \in Nat
    <3>1. template.kind \in OwnKinds
      BY <2>3 DEF OwnEvents
    <3> QED BY <2>6, <3>1, RenewalAssumption DEF UnusedIds
  <2>8. PICK e : e = [ordered EXCEPT !.id = id]
    OBVIOUS
  <2>9. /\ e \in OwnEvents /\ e.kind = template.kind /\ (e.kind = "claim" => e.issue = Topic)
    BY <2>3, <2>5, <2>7, <2>8, WithId
  <2>10. PICK c : c = IF e.kind = "claim" THEN e.value ELSE history.chosen
    OBVIOUS
  <2>11. RelaysTake(e) /\ history' = [history EXCEPT !.chosen = c]
    BY <2>6, <2>8, <2>10
  <2>12. /\ history'.chosen = c /\ history'.crossed = history.crossed
         /\ history'.unaware = history.unaware /\ history'.done = history.done
         /\ history'.lost = history.lost
    BY <2>11 DEF PageInv, HistoryOK
  <2>13. HistoryOK'
    BY <2>11, <2>12 DEF PageInv, HistoryOK
  <2>14. /\ agent' = IF Renews THEN [agent EXCEPT !.phase = "published"] ELSE NoAgent
         /\ UNCHANGED sagas /\ relays' = relays \cup {e}
    BY <1>4, <2>11 DEF AgentPublishes, RelaysTake
  <2>15. CASE Renews
    <3>1. agent' = [agent EXCEPT !.phase = "published"]
      BY <2>14, <2>15
    <3>2. /\ agent'.phase = "published" /\ agent'.task = agent.task
          /\ agent'.board = agent.board /\ agent'.at = agent.at
      BY <1>1, <3>1
    <3>3. agent' \in [phase : {"off", "loaded", "published"}, task : {"none"} \cup Agent,
                      board : SUBSET relays', at : Nat]
      BY <1>1, <2>14, <3>1
    <3>4. AgentOK'
      BY <1>1, <2>2, <2>15, <3>2, <3>3 DEF AgentOK, Renews
    <3>5. agent.task = "status"
      BY <2>15 DEF Renews
    <3>6. PublishesEffect(e)
      BY <2>2, <2>3, <2>9, <2>10, <2>11, <2>12, <2>14, <3>2, <3>5 DEF PublishesEffect
    <3> QED BY <2>13, <3>4, <3>6 DEF AgentEffect
  <2>16. CASE ~ Renews
    <3>1. AgentOK' /\ agent'.phase = "off"
      BY <1>2, <2>14, <2>16
    <3>2. PublishesEffect(e)
      BY <2>2, <2>3, <2>9, <2>10, <2>11, <2>12, <2>14, <3>1 DEF PublishesEffect
    <3> QED BY <2>13, <3>1, <3>2 DEF AgentEffect
  <2> QED BY <2>15, <2>16
<1>5. CASE AgentRenews
  <2>1. agent.phase = "published" /\ agent' = NoAgent /\ UNCHANGED <<sagas, history>>
    BY <1>5 DEF AgentRenews
  <2>2. PICK o : o = Own("claim", "active", now)
    OBVIOUS
  <2>3. o \in OwnEvents /\ o.kind = "claim" /\ o.value = "active" /\ o.issue = Topic
    BY <1>1, <2>2, OwnIs DEF OwnKinds
  <2>4. PICK ordered : ordered = OrderedAfter(o, agent.board)
    OBVIOUS
  <2>5. /\ ordered \in OwnEvents /\ ordered.kind = "claim" /\ ordered.value = "active"
        /\ ordered.issue = Topic
    BY <1>1, <2>3, <2>4, OrderedAfterIs
  <2>6. PICK id \in UnusedIds("claim") : RelaysTake([ordered EXCEPT !.id = id])
    BY <1>5, <2>2, <2>4 DEF AgentRenews
  <2>7. id \in Nat
    BY <2>6, RenewalAssumption DEF UnusedIds, OwnKinds
  <2>8. PICK e : e = [ordered EXCEPT !.id = id]
    OBVIOUS
  <2>9. e \in OwnEvents /\ e.kind = "claim" /\ e.value = "active" /\ e.issue = Topic
    BY <2>5, <2>7, <2>8, WithId
  <2>10. OwnNewest(agent.board) # NoEvent /\ OwnNewest(agent.board).value = "active"
    BY <1>1, <2>1, ActiveIs, OwnClaimIs DEF Renews
  <2>11. AgentRenewsEffect(e)
    BY <1>2, <2>1, <2>6, <2>8, <2>9, <2>10 DEF AgentRenewsEffect
  <2>12. HistoryOK'
    BY <2>1 DEF PageInv, HistoryOK
  <2> QED BY <1>2, <2>1, <2>11, <2>12 DEF AgentEffect
<1>6. CASE AgentExits
  <2>1. agent' = NoAgent /\ UNCHANGED <<portalVars, sagas, history>>
    BY <1>6 DEF AgentExits
  <2>2. HistoryOK'
    BY <2>1 DEF PageInv, HistoryOK
  <2> QED BY <1>2, <2>1, <2>2 DEF AgentEffect, ExitsEffect
<1> QED BY <1>3, <1>4, <1>5, <1>6 DEF AgentStep

\* What others do, or the page by itself, is no news of the visitor's.
OthersEffect ==
    /\ ListenOK' /\ ClaimsRanked(relays') /\ relays \subseteq relays' /\ store \subseteq store'
    /\ OwnClaims(relays') = OwnClaims(relays) /\ OwnNewest(relays') = OwnNewest(relays)
    /\ OwnComments(relays') = OwnComments(relays)
    /\ UNCHANGED pageVars

LEMMA OthersStep ==
    ASSUME PageInv,
           \/ (Listen \/ Tick \/ \E e \in Events : Accept(e)) /\ UNCHANGED pageVars
           \/ UNCHANGED vars
    PROVE  OthersEffect
<1>1. ListenOK /\ ClaimsRanked(relays)
  BY DEF PageInv
<1>2. CASE Listen /\ UNCHANGED pageVars
  BY <1>1, <1>2, ListenStep DEF OthersEffect
<1>3. CASE Tick /\ UNCHANGED pageVars
  <2>1. UNCHANGED <<relays, store, viewed_at, is_loaded, board_sub, issue_sub, following>>
    BY <1>3 DEF Tick
  <2>2. ListenOK'
    BY <1>1, <1>3, <2>1, ListenGrows
  <2> QED BY <1>1, <1>3, <2>1, <2>2 DEF OthersEffect
<1>4. ASSUME NEW e \in Events, Accept(e), UNCHANGED pageVars PROVE OthersEffect
  <2>1. /\ relays' = relays \cup {e}
        /\ UNCHANGED <<now, store, viewed_at, is_loaded, board_sub, issue_sub, following>>
    BY <1>4 DEF Accept
  <2>2. ListenOK'
    BY <1>1, <2>1, ListenGrows
  <2>3. /\ e # NoEvent
        /\ e.pubkey = Me => e.kind \notin {"claim", "comment", "deletion_request"}
    BY EventsAssumption, RenewalAssumption
  <2>4. /\ ClaimsRanked(relays \cup {e}) /\ OwnNewest(relays \cup {e}) = OwnNewest(relays)
        /\ OwnClaims(relays \cup {e}) = OwnClaims(relays)
    BY <1>1, <2>3, NoClaim
  <2>5. OwnComments(relays \cup {e}) = OwnComments(relays)
    BY <2>3 DEF OwnComments
  <2> QED BY <1>4, <2>1, <2>2, <2>4, <2>5 DEF OthersEffect
<1>5. CASE UNCHANGED vars
  <2>1. UNCHANGED <<portalVars, pageVars>> /\ relays' = relays /\ store' = store /\ now' = now
    BY <1>5 DEF vars, portalVars
  <2>2. ListenOK'
    BY <1>1, <2>1, ListenGrows DEF portalVars
  <2> QED BY <1>1, <2>1, <2>2 DEF OthersEffect
<1> QED BY <1>2, <1>3, <1>4, <1>5

(***************************************************************************)
(* The page's invariant.                                                   *)
(***************************************************************************)
LEMMA SagaStays ==
    ASSUME NEW s, SagaOK(s), relays \subseteq relays'
    PROVE  SagaOK(s)'
BY DEF SagaOK

LEMMA AgentStays ==
    ASSUME AgentOK, relays \subseteq relays', UNCHANGED agent
    PROVE  AgentOK'
BY DEF AgentOK, Renews

LEMMA SagasGoOn ==
    ASSUME SagasOK, relays \subseteq relays', NEW s \in sagas, NEW t, t.key = s.key,
           SagaOK(t)', Becomes(s, t)
    PROVE  SagasOK'
<1>1. \A r \in sagas' : SagaOK(r)'
  BY SagaStays DEF SagasOK, Becomes
<1>2. \A r, q \in sagas' : r.key = q.key => r = q
  BY DEF SagasOK, Becomes
<1> QED BY <1>1, <1>2 DEF SagasOK

LEMMA SagaInv ==
    ASSUME PageInv, NEW s \in sagas, SagaEffect(s)
    PROVE  /\ ListenOK' /\ ClaimsRanked(relays') /\ SagasOK' /\ AgentOK'
           /\ relays \subseteq relays' /\ store \subseteq store'
<1>1. SagaOK(s) /\ s.event \in OwnEvents
  BY SagaShape
<1>2. ASSUME NEW t, MovesEffect(s, t) \/ RenewsEffect(s, t)
      PROVE  /\ ListenOK' /\ ClaimsRanked(relays') /\ SagasOK' /\ AgentOK'
             /\ relays \subseteq relays' /\ store \subseteq store'
  <2>1. /\ UNCHANGED <<portalVars, agent>> /\ SagaOK(t) /\ t.key = s.key /\ Becomes(s, t)
    BY <1>2 DEF MovesEffect, RenewsEffect
  <2>2. ListenOK' /\ relays' = relays /\ store' = store
    BY <2>1, ListenGrows DEF PageInv, portalVars
  <2>3. SagaOK(t)'
    BY <2>1, <2>2, SagaStays
  <2> QED BY <2>1, <2>2, <2>3, SagasGoOn, AgentStays DEF PageInv
<1>3. ASSUME NEW t, StoredEffect(s, t)
      PROVE  /\ ListenOK' /\ ClaimsRanked(relays') /\ SagasOK' /\ AgentOK'
             /\ relays \subseteq relays' /\ store \subseteq store'
  <2>1. /\ UNCHANGED agent /\ SagaOK(t)' /\ t.key = s.key /\ Becomes(s, t)
        /\ RelaysTake(s.event)
    BY <1>3 DEF StoredEffect
  <2>2. s.event.kind = "claim" => s.event.issue = Topic
    BY <1>1 DEF SagaOK
  <2>3. /\ ListenOK' /\ ClaimsRanked(relays') /\ relays' = relays \cup {s.event}
        /\ store' = store
    BY <1>1, <2>1, <2>2, TakeStep
  <2> QED BY <2>1, <2>3, SagasGoOn, AgentStays DEF PageInv
<1>4. CASE EndsEffect(s)
  <2>1. /\ ListenOK' /\ relays' = relays /\ UNCHANGED agent /\ store \subseteq store'
        /\ sagas' = sagas \ {s}
    BY <1>4 DEF EndsEffect
  <2>2. SagasOK'
    <3>1. \A r \in sagas' : SagaOK(r)'
      BY <2>1, SagaStays DEF PageInv, SagasOK
    <3> QED BY <2>1, <3>1 DEF PageInv, SagasOK
  <2> QED BY <2>1, <2>2, AgentStays DEF PageInv
<1> QED BY <1>2, <1>3, <1>4 DEF SagaEffect

LEMMA AgentInv ==
    ASSUME PageInv, AgentEffect, AgentOK'
    PROVE  ListenOK' /\ ClaimsRanked(relays') /\ SagasOK' /\ relays \subseteq relays'
<1>1. UNCHANGED sagas
  BY DEF AgentEffect, LoadsEffect, ExitsEffect, PublishesEffect, AgentRenewsEffect
<1>2. CASE LoadsEffect \/ ExitsEffect
  <2>1. UNCHANGED portalVars /\ relays' = relays
    BY <1>2 DEF LoadsEffect, ExitsEffect, portalVars
  <2>2. ListenOK'
    BY <2>1, ListenGrows DEF PageInv, portalVars
  <2> QED BY <1>1, <2>1, <2>2, SagaStays DEF PageInv, SagasOK
<1>3. ASSUME NEW e, PublishesEffect(e) \/ AgentRenewsEffect(e)
      PROVE  ListenOK' /\ ClaimsRanked(relays') /\ SagasOK' /\ relays \subseteq relays'
  <2>1. e \in OwnEvents /\ (e.kind = "claim" => e.issue = Topic) /\ RelaysTake(e)
    BY <1>3 DEF PublishesEffect, AgentRenewsEffect
  <2>2. ListenOK' /\ ClaimsRanked(relays') /\ relays' = relays \cup {e}
    BY <2>1, TakeStep
  <2> QED BY <1>1, <2>2, SagaStays DEF PageInv, SagasOK
<1> QED BY <1>2, <1>3 DEF AgentEffect

\* A step is the page's, the client's, or nobody's the visitor is.
PageKinds ==
    \/ \E key, s : PressEffect(key, s)
    \/ \E s \in sagas : SagaEffect(s)
    \/ AgentEffect
    \/ OthersEffect

LEMMA PageStepInv ==
    ASSUME PageInv, [Next]_vars
    PROVE  PageInv' /\ PageKinds
<1>1. ASSUME NEW key, Press(key) PROVE PageInv' /\ PageKinds
  <2>1. PICK s : PressEffect(key, s)
    BY <1>1, PressStep
  <2>2. /\ SagaOK(s) /\ s.key = key /\ sagas' = sagas \cup {s} /\ \A t \in sagas : t.key # key
        /\ UNCHANGED <<portalVars, agent>>
    BY <2>1 DEF PressEffect
  <2>3. ListenOK' /\ relays' = relays
    BY <2>2, ListenGrows DEF PageInv, portalVars
  <2>4. SagasOK'
    BY <2>2, <2>3, SagaStays DEF PageInv, SagasOK
  <2>5. HistoryOK'
    BY <1>1, PressStep
  <2> QED BY <2>1, <2>2, <2>3, <2>4, <2>5, AgentStays DEF PageInv, PageKinds
<1>2. ASSUME NEW s \in sagas, SagaStep(s) PROVE PageInv' /\ PageKinds
  BY <1>2, SagaStepEffect, SagaInv DEF PageInv, PageKinds
<1>3. CASE AgentStep
  BY <1>3, AgentStepEffect, AgentInv DEF PageInv, PageKinds
<1>4. CASE \/ (Listen \/ Tick \/ \E e \in Events : Accept(e)) /\ UNCHANGED pageVars
           \/ UNCHANGED vars
  <2>1. OthersEffect
    BY <1>4, OthersStep
  <2>2. /\ ListenOK' /\ ClaimsRanked(relays') /\ relays \subseteq relays'
        /\ UNCHANGED <<sagas, agent, history>>
    BY <2>1 DEF OthersEffect, pageVars
  <2>3. SagasOK'
    BY <2>2, SagaStays DEF PageInv, SagasOK
  <2>4. HistoryOK'
    BY <2>2 DEF PageInv, HistoryOK
  <2> QED BY <2>1, <2>2, <2>3, <2>4, AgentStays DEF PageInv, PageKinds
<1> QED BY <1>1, <1>2, <1>3, <1>4 DEF Next, PageStep

(***************************************************************************)
(* The beginning: what the relays hold, and nobody has done anything.      *)
(***************************************************************************)
LEMMA NatLeast ==
    ASSUME NEW S, S \subseteq Nat, S # {}
    PROVE  \E x \in S : \A y \in S : x <= y
<1> DEFINE less == {ss \in Nat \X Nat : ss[1] < ss[2]}
<1>1. IsWellFoundedOn(less, Nat)
  BY NatLessThanWellFounded, Zenon DEF OpToRel
<1> HIDE DEF less
<1>2. PICK x \in S : \A y \in S : <<y, x>> \notin less
  BY <1>1, WFMin, Zenon
<1>3. ASSUME NEW y \in S PROVE x <= y
  <2>1. x \in Nat /\ y \in Nat
    OBVIOUS
  <2>2. y < x => <<y, x>> \in less
    BY <2>1 DEF less
  <2>3. ~ (y < x)
    BY <1>2, <2>2
  <2> QED BY <2>1, <2>3
<1> QED BY <1>2, <1>3


\* Of finitely many events one is the newest.
LEMMA FiniteRanked ==
    ASSUME NEW R, IsFiniteSet(R), R # {},
           \A e \in R : e.id \in Nat /\ e.created_at \in Nat,
           \A e, f \in R : e.id = f.id => e = f
    PROVE  \E e \in R : IsNewestIn(e, R)
<1> DEFINE Unranked(T) == T # {} /\ ~ \E e \in T : IsNewestIn(e, T)
           sizes == {Cardinality(T) : T \in {T \in SUBSET R : Unranked(T)}}
<1>1. \A T \in SUBSET R : IsFiniteSet(T) /\ Cardinality(T) \in Nat
  BY FS_Subset, FS_CardinalityType
<1>2. ASSUME Unranked(R) PROVE FALSE
  <2>1. sizes \subseteq Nat /\ sizes # {}
    BY <1>1, <1>2
  <2>2. PICK T \in SUBSET R : Unranked(T) /\ \A n \in sizes : Cardinality(T) <= n
    <3> HIDE DEF sizes
    <3>1. \E x \in sizes : \A y \in sizes : x <= y
      BY <2>1, NatLeast
    <3> QED BY <3>1 DEF sizes
  <2>3. PICK e \in T : TRUE
    BY <2>2
  <2>4. PICK U : U = T \ {e}
    OBVIOUS
  <2>5. U \in SUBSET R /\ T = U \cup {e} /\ e \in R
    BY <2>3, <2>4
  <2>6. Cardinality(U) = Cardinality(T) - 1 /\ Cardinality(T) \in Nat
    BY <1>1, <2>3, <2>4, FS_RemoveElement
  <2>7. ~ Unranked(U)
    BY <2>2, <2>5, <2>6
  <2>8. CASE U = {}
    <3>1. IsNewestIn(e, T)
      BY <2>5, <2>8 DEF IsNewestIn
    <3> QED BY <2>2, <2>3, <3>1
  <2>9. CASE U # {}
    <3>1. PICK f \in U : IsNewestIn(f, U)
      BY <2>7, <2>9
    <3>2. IsNewer(e, f) \/ IsNewer(f, e)
      <4>1. e # f /\ e \in R /\ f \in R
        BY <2>4, <2>5, <3>1
      <4> QED BY <4>1 DEF IsNewer
    <3>3. CASE IsNewer(f, e)
      <4>1. IsNewestIn(f, T)
        BY <2>5, <3>1, <3>3 DEF IsNewestIn
      <4> QED BY <2>2, <2>5, <4>1 DEF IsNewestIn
    <3>4. CASE IsNewer(e, f)
      <4>1. \A g \in U : IsNewer(e, g)
        <5> SUFFICES ASSUME NEW g \in U PROVE IsNewer(e, g)
          OBVIOUS
        <5>1. g = f \/ IsNewer(f, g)
          BY <3>1 DEF IsNewestIn
        <5>2. e \in R /\ f \in R /\ g \in R
          BY <2>5
        <5> QED BY <3>4, <5>1, <5>2 DEF IsNewer
      <4>2. IsNewestIn(e, T)
        BY <2>5, <4>1 DEF IsNewestIn
      <4> QED BY <2>2, <2>3, <4>2
    <3> QED BY <3>2, <3>3, <3>4
  <2> QED BY <2>8, <2>9
<1> QED BY <1>2

LEMMA PageInitInv ==
    ASSUME Init
    PROVE  /\ PageInv /\ sagas = {} /\ agent.phase = "off" /\ history = FreshHistory
           /\ OwnComments(relays) = {}
<1>1. relays \in Held /\ PortalInit /\ sagas = {} /\ agent = NoAgent /\ history = FreshHistory
  BY DEF Init, PageInit
<1>2. PICK R \in Held : R = relays
  BY <1>1
<1>3. /\ IsFiniteSet(R) /\ NoEvent \notin R
      /\ \A e \in R : /\ e.id \in Nat /\ e.created_at \in Nat
                      /\ e.pubkey = Me => e.kind \notin {"comment", "deletion_request"}
      /\ \A e, f \in R : e.id = f.id => e = f
  BY RenewalAssumption
<1>4. ClaimsRanked(R)
  <2>1. OwnClaims(R) \subseteq R
    BY DEF OwnClaims
  <2>2. ASSUME NEW S \in SUBSET OwnClaims(R), S # {} PROVE \E e \in S : IsNewestIn(e, S)
    <3>1. S \in SUBSET R
      BY <2>1
    <3>2. IsFiniteSet(S)
      BY <1>3, <3>1, FS_Subset
    <3> QED BY <1>3, <2>2, <3>1, <3>2, FiniteRanked
  <2> QED BY <1>3, <2>1, <2>2 DEF ClaimsRanked
<1>5. ListenOK
  BY <1>1, ListenInit
<1>6. SagasOK
  BY <1>1 DEF SagasOK
<1>7. AgentOK /\ agent.phase = "off"
  BY <1>1 DEF NoAgent, AgentOK
<1>8. HistoryOK
  <2>1. 0 \in 0 .. MaxLost /\ 0 \in 0 .. MaxRuns
    BY RenewalAssumption
  <2>2. PICK c : c = Standing(OwnClaim(relays))
    OBVIOUS
  <2>3. history = [done |-> {}, chosen |-> c, crossed |-> {}, unaware |-> FALSE, lost |-> 0,
                   runs |-> 0]
    BY <1>1, <2>2 DEF FreshHistory
  <2>4. history.chosen = c
    BY <2>3
  <2> QED BY <2>1, <2>3, <2>4 DEF HistoryOK
<1>9. OwnComments(R) = {}
  BY <1>3 DEF OwnComments
<1> QED BY <1>1, <1>2, <1>4, <1>5, <1>6, <1>7, <1>8, <1>9 DEF PageInv

LEMMA PageInvHolds == Init /\ [][Next]_vars => []PageInv
<1>1. Init => PageInv
  BY PageInitInv
<1>2. PageInv /\ [Next]_vars => PageInv'
  BY PageStepInv
<1> QED BY <1>1, <1>2, PTL

\* The page's store and subscriptions agree with what it shows, and a key of
\* the page is pending for one publish of the visitor's, at all times.
THEOREM PortalTypesHold == Spec => []TypeOK
<1>1. PageInv => TypeOK
  <2> SUFFICES ASSUME PageInv PROVE TypeOK
    OBVIOUS
  <2>1. \A s \in sagas : s.event \in OwnEvents
    BY DEF PageInv, SagasOK, SagaOK
  <2>2. history.lost \in 0 .. MaxLost /\ history.runs \in 0 .. MaxRuns
    BY DEF PageInv, HistoryOK
  <2> QED BY <2>1, <2>2 DEF TypeOK, PageInv, ListenOK, SagasOK
<1> QED BY <1>1, PageInvHolds, PTL DEF Spec

(***************************************************************************)
(* What the visitor chose.                                                 *)
(***************************************************************************)

\* Page and client take turns, or one is unaware of what the other does.
InTurn ==
    /\ sagas = {} \/ agent.phase = "off"
    /\ agent.phase # "off" => OwnNewest(agent.board) = OwnNewest(relays)

\* Either as the visitor chose, or older than what the page knows.
AsChosen(e) ==
    \/ e.value = history.chosen
    \/ OwnNewest(store) # NoEvent /\ IsNewer(OwnNewest(store), e)

\* The page's claim change is alone, and what was claimed since the page looked
\* is what the visitor had chosen.
SinceChosen ==
    /\ StandsAsChosen
    /\ \A s \in sagas : s.key = "claim" => sagas = {s}
    /\ \A s \in sagas : s.key # "claim" => \A e \in OwnClaims(relays) : AsChosen(e)
    /\ \A s \in sagas : s.phase \in RenewalPhases => history.chosen = "active"

ChoiceInv ==
    /\ ~ history.unaware => InTurn
    /\ "claim" \notin history.crossed /\ ~ history.unaware => SinceChosen

LEMMA StandsIs ==
    ASSUME ClaimsRanked(relays)
    PROVE  StandsAsChosen <=>
               (OwnNewest(relays) # NoEvent => OwnNewest(relays).value = history.chosen)
<1>1. OwnClaim(relays) = OwnNewest(relays)
  BY OwnClaimIs
<1> QED BY <1>1 DEF StandsAsChosen

\* A page that looked and saw the newest claim has all there is.
LEMMA LookedAsChosen ==
    ASSUME PageInv, StandsAsChosen, OwnNewest(store) = OwnNewest(relays)
    PROVE  \A e \in OwnClaims(relays) : AsChosen(e)
<1>1. OwnNewest(relays) # NoEvent => OwnNewest(relays).value = history.chosen
  BY StandsIs DEF PageInv
<1> SUFFICES ASSUME NEW e \in OwnClaims(relays) PROVE AsChosen(e)
  OBVIOUS
<1>2. /\ OwnNewest(relays) # NoEvent
      /\ e = OwnNewest(relays) \/ IsNewer(OwnNewest(relays), e)
  BY NewestFacts DEF PageInv, IsNewestIn
<1> QED BY <1>1, <1>2 DEF AsChosen

LEMMA ChosenStays ==
    ASSUME PageInv, PageInv', store \subseteq store', OwnClaims(relays') = OwnClaims(relays),
           history'.chosen = history.chosen, NEW e \in OwnClaims(relays), AsChosen(e)
    PROVE  AsChosen(e)'
<1>1. store' \subseteq relays' /\ ClaimsRanked(relays')
  BY DEF PageInv, ListenOK, PortalTypeOK
<1>2. PICK T : T = store'
  OBVIOUS
<1>3. PICK R : R = relays'
  OBVIOUS
<1>4. ClaimsRanked(R) /\ T \in SUBSET R /\ store \in SUBSET T /\ e \in OwnClaims(R)
  BY <1>1, <1>2, <1>3
<1>5. IsNewer(OwnNewest(store), e) /\ OwnNewest(store) # NoEvent =>
          OwnNewest(T) # NoEvent /\ IsNewer(OwnNewest(T), e)
  BY <1>4, NewestGrows
<1> QED BY <1>2, <1>5 DEF AsChosen

LEMMA PressChoice ==
    ASSUME PageInv, PageInv', ChoiceInv, NEW key, NEW s, PressEffect(key, s)
    PROVE  ChoiceInv'
<1>1. /\ s.key = key /\ s.phase \notin RenewalPhases /\ sagas' = sagas \cup {s}
      /\ key = "claim" => sagas = {}
      /\ history'.crossed = history.crossed \cup Pending
      /\ ~ history'.unaware => /\ ~ history.unaware /\ agent.phase = "off"
                               /\ sagas = {} => OwnNewest(store) = OwnNewest(relays)
      /\ history'.chosen = history.chosen
      /\ UNCHANGED <<relays, store, agent>>
  BY DEF PressEffect, portalVars, RenewalPhases
<1>2. ~ history'.unaware => InTurn'
  BY <1>1 DEF InTurn
<1>3. ASSUME "claim" \notin history'.crossed, ~ history'.unaware PROVE SinceChosen'
  <2>1. SinceChosen /\ \A r \in sagas : r.key # "claim"
    BY <1>1, <1>3 DEF ChoiceInv, Pending
  <2>2. StandsAsChosen'
    BY <1>1, <2>1 DEF SinceChosen, StandsAsChosen
  <2>3. \A r \in sagas' : r.key = "claim" => sagas' = {r}
    BY <1>1, <2>1
  <2>4. \A e \in OwnClaims(relays) : key # "claim" => AsChosen(e)
    <3>1. CASE sagas = {}
      BY <1>1, <1>3, <2>1, <3>1, LookedAsChosen DEF SinceChosen
    <3>2. CASE sagas # {}
      BY <2>1, <3>2 DEF SinceChosen
    <3> QED BY <3>1, <3>2
  <2>5. \A r \in sagas' : r.key # "claim" => \A e \in OwnClaims(relays) : AsChosen(e)
    BY <1>1, <2>1, <2>4 DEF SinceChosen
  <2>6. \A e \in OwnClaims(relays) : AsChosen(e) => AsChosen(e)'
    BY <1>1 DEF AsChosen
  <2>7. \A r \in sagas' : r.phase \in RenewalPhases => history'.chosen = "active"
    BY <1>1, <2>1 DEF SinceChosen
  <2> QED BY <1>1, <2>2, <2>3, <2>5, <2>6, <2>7 DEF SinceChosen
<1> QED BY <1>2, <1>3 DEF ChoiceInv

\* A saga that takes the place of another of its key.
LEMMA Replaces ==
    ASSUME PageInv, SinceChosen, NEW s \in sagas, NEW t, t.key = s.key, Becomes(s, t)
    PROVE  /\ \A r \in sagas' : r.key = "claim" => sagas' = {r}
           /\ \A r \in sagas' : r.key # "claim" => \E q \in sagas : q.key # "claim"
           /\ \A r \in sagas' : r \in sagas \/ r = t
BY DEF SinceChosen, Becomes

LEMMA SagaChoice ==
    ASSUME PageInv, PageInv', ChoiceInv, NEW s \in sagas, SagaEffect(s)
    PROVE  ChoiceInv'
<1>1. SagaOK(s) /\ s.event \in OwnEvents /\ s.key \in Keys
  BY SagaShape
<1>2. ASSUME NEW t, MovesEffect(s, t) \/ RenewsEffect(s, t) PROVE ChoiceInv'
  <2>1. /\ UNCHANGED <<relays, store, agent, history>> /\ t.key = s.key /\ Becomes(s, t)
    BY <1>2 DEF MovesEffect, RenewsEffect, portalVars
  <2>2. ~ history'.unaware => InTurn'
    BY <2>1 DEF ChoiceInv, InTurn
  <2>3. ASSUME "claim" \notin history'.crossed, ~ history'.unaware PROVE SinceChosen'
    <3>1. SinceChosen
      BY <2>1, <2>3 DEF ChoiceInv
    <3>2. StandsAsChosen'
      BY <2>1, <3>1 DEF SinceChosen, StandsAsChosen
    <3>3. \A e \in OwnClaims(relays) : AsChosen(e) => AsChosen(e)'
      BY <2>1 DEF AsChosen
    <3>4. t.phase \in RenewalPhases => history.chosen = "active"
      <4>1. CASE MovesEffect(s, t)
        BY <3>1, <4>1 DEF MovesEffect, SinceChosen
      <4>2. CASE RenewsEffect(s, t)
        <5>1. /\ s.key # "claim" /\ OwnNewest(store) # NoEvent
              /\ OwnNewest(store).value = "active"
          BY <4>2 DEF RenewsEffect
        <5>2. OwnNewest(store) \in OwnClaims(relays)
          BY <5>1, StoreNewest, NewestFacts DEF PageInv
        <5>3. AsChosen(OwnNewest(store))
          BY <3>1, <5>1, <5>2 DEF SinceChosen
        <5>4. ~ IsNewer(OwnNewest(store), OwnNewest(store))
          BY <5>2 DEF PageInv, ClaimsRanked, IsNewer
        <5> QED BY <5>1, <5>3, <5>4 DEF AsChosen
      <4> QED BY <1>2, <4>1, <4>2
    <3>5. \A r \in sagas' : r.key # "claim" => \A e \in OwnClaims(relays) : AsChosen(e)
      BY <2>1, <3>1, Replaces DEF SinceChosen
    <3>6. \A r \in sagas' : r.key = "claim" => sagas' = {r}
      BY <2>1, <3>1, Replaces
    <3>7. \A r \in sagas' : r.phase \in RenewalPhases => history'.chosen = "active"
      BY <2>1, <3>1, <3>4, Replaces DEF SinceChosen
    <3> QED BY <2>1, <3>2, <3>3, <3>5, <3>6, <3>7 DEF SinceChosen
  <2> QED BY <2>2, <2>3 DEF ChoiceInv
<1>3. ASSUME NEW t, StoredEffect(s, t) PROVE ChoiceInv'
  <2>1. /\ t.key = s.key /\ Becomes(s, t) /\ RelaysTake(s.event)
        /\ s.phase \in {"sent", "renewal sent"}
        /\ t.phase = (IF s.phase = "sent" THEN "stored" ELSE "renewal stored")
        /\ history'.chosen = IF s.key = "claim" THEN s.event.value ELSE history.chosen
        /\ history'.crossed = history.crossed /\ history'.unaware = history.unaware
        /\ UNCHANGED agent
    BY <1>3 DEF StoredEffect
  <2>2. PICK e \in OwnEvents : e = s.event
    BY <1>1
  <2>3. /\ e.kind = "claim" => e.issue = Topic
        /\ s.key = "claim" => s.phase = "sent" /\ e.kind = "claim"
        /\ e.kind = "claim" /\ s.key # "claim" => s.phase = "renewal sent" /\ e.value = "active"
    BY <1>1, <2>1, <2>2 DEF SagaOK, KindOf, Keys, PublishPhases, RenewalPhases
  <2>4. /\ store' = store
        /\ e.kind = "claim" => /\ OwnNewest(relays') = e
                               /\ OwnClaims(relays') = OwnClaims(relays) \cup {e}
        /\ e.kind # "claim" => /\ OwnNewest(relays') = OwnNewest(relays)
                               /\ OwnClaims(relays') = OwnClaims(relays)
    BY <2>1, <2>2, <2>3, TakeStep
  <2>5. ~ history'.unaware => InTurn'
    BY <2>1 DEF ChoiceInv, InTurn
  <2>6. ASSUME "claim" \notin history'.crossed, ~ history'.unaware PROVE SinceChosen'
    <3>1. SinceChosen
      BY <2>1, <2>6 DEF ChoiceInv
    <3>2. s.phase = "renewal sent" => history.chosen = "active"
      BY <3>1 DEF SinceChosen, RenewalPhases
    <3>3. /\ e.kind = "claim" => history'.chosen = e.value
          /\ s.key # "claim" => history'.chosen = history.chosen
      BY <2>1, <2>2, <2>3, <3>2
    <3>4. StandsAsChosen'
      <4>1. OwnNewest(relays) # NoEvent => OwnNewest(relays).value = history.chosen
        BY <3>1, StandsIs DEF SinceChosen, PageInv
      <4>2. OwnNewest(relays') # NoEvent => OwnNewest(relays').value = history'.chosen
        BY <2>3, <2>4, <3>3, <4>1
      <4>3. OwnClaim(relays') = OwnNewest(relays')
        <5>1. PICK R : R = relays'
          OBVIOUS
        <5>2. ClaimsRanked(R)
          BY <5>1 DEF PageInv
        <5> QED BY <5>1, <5>2, OwnClaimIs
      <4> QED BY <4>2, <4>3 DEF StandsAsChosen
    <3>5. ASSUME NEW f \in OwnClaims(relays'), s.key # "claim" PROVE AsChosen(f)'
      <4>1. f \in OwnClaims(relays) \/ (e.kind = "claim" /\ f = e)
        BY <2>4
      <4>2. f \in OwnClaims(relays) => AsChosen(f)
        BY <3>1, <3>5 DEF SinceChosen
      <4> QED BY <2>4, <3>3, <3>5, <4>1, <4>2 DEF AsChosen
    <3>6. \A r \in sagas' : r.key # "claim" => s.key # "claim"
      BY <2>1, <3>1 DEF SinceChosen, Becomes
    <3>7. \A r \in sagas' : r.key = "claim" => sagas' = {r}
      BY <2>1, <3>1, Replaces
    <3>8. \A r \in sagas' : r.phase \in RenewalPhases => history'.chosen = "active"
      <4>1. t.phase \in RenewalPhases => s.phase = "renewal sent"
        BY <2>1 DEF RenewalPhases
      <4>2. \A r \in sagas : r.phase \in RenewalPhases => r.key # "claim" /\ history.chosen = "active"
        BY <3>1 DEF SinceChosen, PageInv, SagasOK, SagaOK
      <4>3. s.key = "claim" => sagas' = {t} /\ t.phase \notin RenewalPhases
        BY <2>1, <2>3, <3>1, <4>1 DEF SinceChosen, Becomes
      <4> QED BY <2>1, <3>1, <3>2, <3>3, <4>1, <4>2, <4>3, Replaces
    <3> QED BY <3>4, <3>5, <3>6, <3>7, <3>8 DEF SinceChosen
  <2> QED BY <2>5, <2>6 DEF ChoiceInv
<1>4. CASE EndsEffect(s)
  <2>1. /\ sagas' = sagas \ {s} /\ store \subseteq store' /\ UNCHANGED <<relays, agent>>
        /\ history'.chosen = history.chosen /\ history'.crossed = history.crossed
        /\ history'.unaware = history.unaware
    BY <1>4 DEF EndsEffect
  <2>2. ~ history'.unaware => InTurn'
    BY <2>1 DEF ChoiceInv, InTurn
  <2>3. ASSUME "claim" \notin history'.crossed, ~ history'.unaware PROVE SinceChosen'
    <3>1. SinceChosen
      BY <2>1, <2>3 DEF ChoiceInv
    <3>2. StandsAsChosen'
      BY <2>1, <3>1 DEF SinceChosen, StandsAsChosen
    <3>3. \A e \in OwnClaims(relays) : AsChosen(e) => AsChosen(e)'
      BY <2>1, ChosenStays
    <3> QED BY <2>1, <3>1, <3>2, <3>3 DEF SinceChosen
  <2> QED BY <2>2, <2>3 DEF ChoiceInv
<1> QED BY <1>2, <1>3, <1>4 DEF SagaEffect

LEMMA AgentChoice ==
    ASSUME PageInv, PageInv', ChoiceInv, AgentEffect
    PROVE  ChoiceInv'
<1>1. CASE LoadsEffect
  <2>1. /\ agent'.board = relays /\ UNCHANGED <<relays, store, sagas>>
        /\ ~ history'.unaware => ~ history.unaware /\ sagas = {}
        /\ history'.chosen = history.chosen /\ history'.crossed = history.crossed
    BY <1>1 DEF LoadsEffect, portalVars
  <2>2. ~ history'.unaware => InTurn'
    BY <2>1 DEF InTurn
  <2>3. SinceChosen /\ sagas = {} => SinceChosen'
    BY <2>1 DEF SinceChosen, StandsAsChosen
  <2> QED BY <2>1, <2>2, <2>3 DEF ChoiceInv
<1>2. CASE ExitsEffect
  <2>1. agent'.phase = "off" /\ UNCHANGED <<relays, store, sagas, history>>
    BY <1>2 DEF ExitsEffect, portalVars
  <2>2. InTurn'
    BY <2>1 DEF InTurn
  <2>3. SinceChosen => SinceChosen'
    BY <2>1 DEF SinceChosen, StandsAsChosen, AsChosen
  <2> QED BY <2>1, <2>2, <2>3 DEF ChoiceInv
<1>3. ASSUME NEW e, PublishesEffect(e) \/ AgentRenewsEffect(e) PROVE ChoiceInv'
  <2>1. /\ agent.phase # "off" /\ e \in OwnEvents /\ (e.kind = "claim" => e.issue = Topic)
        /\ RelaysTake(e) /\ UNCHANGED sagas
        /\ history'.crossed = history.crossed /\ history'.unaware = history.unaware
        /\ agent'.phase # "off" => e.kind # "claim" /\ agent'.board = agent.board
    BY <1>3 DEF PublishesEffect, AgentRenewsEffect
  <2>2. /\ e.kind = "claim" => OwnNewest(relays') = e
        /\ e.kind # "claim" => OwnNewest(relays') = OwnNewest(relays)
    BY <2>1, TakeStep
  <2>3. CASE history.unaware
    BY <2>1, <2>3 DEF ChoiceInv
  <2>4. CASE ~ history.unaware
    <3>1. sagas = {} /\ OwnNewest(agent.board) = OwnNewest(relays)
      BY <2>1, <2>4 DEF ChoiceInv, InTurn
    <3>2. InTurn'
      BY <2>1, <2>2, <3>1 DEF InTurn
    <3>3. ASSUME "claim" \notin history'.crossed PROVE SinceChosen'
      <4>1. StandsAsChosen
        BY <2>1, <2>4, <3>3 DEF ChoiceInv, SinceChosen
      <4>2. OwnNewest(relays) # NoEvent => OwnNewest(relays).value = history.chosen
        BY <4>1, StandsIs DEF PageInv
      <4>3. /\ e.kind = "claim" => history'.chosen = e.value
            /\ e.kind # "claim" => history'.chosen = history.chosen
        <5>1. CASE PublishesEffect(e)
          BY <5>1 DEF PublishesEffect
        <5>2. CASE AgentRenewsEffect(e)
          BY <3>1, <4>2, <5>2 DEF AgentRenewsEffect
        <5> QED BY <1>3, <5>1, <5>2
      <4>4. OwnNewest(relays') # NoEvent => OwnNewest(relays').value = history'.chosen
        BY <2>2, <4>2, <4>3
      <4>5. OwnClaim(relays') = OwnNewest(relays')
        <5>1. PICK R : R = relays'
          OBVIOUS
        <5>2. ClaimsRanked(R)
          BY <5>1 DEF PageInv
        <5> QED BY <5>1, <5>2, OwnClaimIs
      <4> QED BY <2>1, <3>1, <4>4, <4>5 DEF SinceChosen, StandsAsChosen
    <3> QED BY <3>2, <3>3 DEF ChoiceInv
  <2> QED BY <2>3, <2>4
<1> QED BY <1>1, <1>2, <1>3 DEF AgentEffect

LEMMA OthersChoice ==
    ASSUME PageInv, PageInv', ChoiceInv, OthersEffect
    PROVE  ChoiceInv'
<1>1. /\ UNCHANGED <<sagas, agent, history>> /\ store \subseteq store'
      /\ OwnClaims(relays') = OwnClaims(relays) /\ OwnNewest(relays') = OwnNewest(relays)
  BY DEF OthersEffect, pageVars
<1>2. InTurn => InTurn'
  BY <1>1 DEF InTurn
<1>3. \A e \in OwnClaims(relays) : AsChosen(e) => AsChosen(e)'
  BY <1>1, ChosenStays
<1>4. OwnClaim(relays') = OwnNewest(relays') /\ OwnClaim(relays) = OwnNewest(relays)
  <2>1. PICK R : R = relays'
    OBVIOUS
  <2>2. ClaimsRanked(R) /\ ClaimsRanked(relays)
    BY <2>1 DEF PageInv
  <2> QED BY <2>1, <2>2, OwnClaimIs
<1>5. StandsAsChosen => StandsAsChosen'
  BY <1>1, <1>4 DEF StandsAsChosen
<1>6. SinceChosen => SinceChosen'
  BY <1>1, <1>3, <1>5 DEF SinceChosen
<1> QED BY <1>1, <1>2, <1>6 DEF ChoiceInv

LEMMA ChoiceStep ==
    ASSUME PageInv, PageInv', PageKinds, ChoiceInv
    PROVE  ChoiceInv'
BY PressChoice, SagaChoice, AgentChoice, OthersChoice DEF PageKinds

LEMMA ChoiceInit == ASSUME Init PROVE ChoiceInv
<1>1. PageInv /\ sagas = {} /\ agent.phase = "off" /\ history = FreshHistory
  BY PageInitInv
<1>2. StandsAsChosen
  BY <1>1 DEF FreshHistory, Standing, StandsAsChosen
<1> QED BY <1>1, <1>2 DEF ChoiceInv, InTurn, SinceChosen

\* However pages and client interleave with renewals, a renewal never undoes a
\* claim change, unless a comment was sent with that change under way, or one
\* of two clients did not have the claims of the other.
THEOREM RenewalsUndoNothing == Spec => []RenewalsKeepTheChoice
<1>1. Init => PageInv /\ ChoiceInv
  BY PageInitInv, ChoiceInit
<1>2. PageInv /\ ChoiceInv /\ [Next]_vars => PageInv' /\ ChoiceInv'
  BY PageStepInv, ChoiceStep
<1>3. ChoiceInv => RenewalsKeepTheChoice
  BY DEF ChoiceInv, SinceChosen, RenewalsKeepTheChoice
<1> QED BY <1>1, <1>2, <1>3, PTL DEF Spec

(***************************************************************************)
(* What the relays accept of the visitor's claims.                         *)
(***************************************************************************)

\* The page's only saga has seen the newest claim, unless it is the newest, and
\* the claim it signs or sends is dated after it.
Alone ==
    /\ \A s, t \in sagas : s = t
    /\ \A s \in sagas :
          /\ \/ s.phase \in {"stored", "renewal stored"} /\ s.event.kind = "claim"
             \/ OwnNewest(store) = OwnNewest(relays)
          /\ \/ s.phase \notin {"signing", "sent", "renewal signing", "renewal sent"}
             \/ s.event.kind # "claim"
             \/ After(s.event, relays)

AloneInv == history.crossed = {} /\ ~ history.unaware => Alone

LEMMA PressAlone ==
    ASSUME PageInv, NEW key, NEW s, PressEffect(key, s)
    PROVE  AloneInv'
<1>1. /\ s.key = key /\ s.phase \in {"mining", "signing"} /\ SagaOK(s)
      /\ sagas' = sagas \cup {s} /\ (key = "claim" => After(s.event, store))
      /\ history'.crossed = history.crossed \cup Pending
      /\ ~ history'.unaware => (sagas = {} => OwnNewest(store) = OwnNewest(relays))
      /\ UNCHANGED <<relays, store>>
  BY DEF PressEffect, portalVars
<1>2. s.event.kind = "claim" => key = "claim"
  BY <1>1 DEF SagaOK, KindOf, PublishPhases
<1>3. ASSUME history'.crossed = {}, ~ history'.unaware PROVE Alone'
  <2>1. sagas = {}
    BY <1>1, <1>3 DEF Pending
  <2>2. OwnNewest(store) = OwnNewest(relays)
    BY <1>1, <1>3, <2>1
  <2>3. s.event.kind = "claim" => After(s.event, relays)
    BY <1>1, <1>2, <2>2 DEF After
  <2>4. sagas' = {s} /\ relays' = relays /\ store' = store
    BY <1>1, <2>1
  <2> QED BY <2>2, <2>3, <2>4 DEF Alone, After
<1> QED BY <1>3 DEF AloneInv

LEMMA SagaAlone ==
    ASSUME PageInv, AloneInv, NEW s \in sagas, SagaEffect(s)
    PROVE  AloneInv'
<1>1. SagaOK(s) /\ s.event \in OwnEvents /\ s.key \in Keys
  BY SagaShape
<1>2. ASSUME NEW t, MovesEffect(s, t) PROVE AloneInv'
  <2>1. /\ UNCHANGED <<relays, store, history>> /\ sagas' = (sagas \ {s}) \cup {t}
        /\ s.phase \in {"mining", "signing", "renewal signing"}
        /\ t.phase \in {"signing", "sent", "renewal sent"}
        /\ t.event.kind = s.event.kind
        /\ t.event.kind = "claim" => /\ t.event.created_at = s.event.created_at
                                     /\ s.phase \in {"signing", "renewal signing"}
    BY <1>2 DEF MovesEffect, Becomes, portalVars
  <2>2. ASSUME Alone PROVE Alone'
    <3>1. sagas' = {t} /\ OwnNewest(store) = OwnNewest(relays)
      BY <2>1, <2>2 DEF Alone
    <3>2. t.event.kind = "claim" => After(t.event, relays)
      BY <2>1, <2>2 DEF Alone, After
    <3> QED BY <2>1, <3>1, <3>2 DEF Alone, After
  <2> QED BY <2>1, <2>2 DEF AloneInv
<1>3. ASSUME NEW t, StoredEffect(s, t) PROVE AloneInv'
  <2>1. /\ sagas' = (sagas \ {s}) \cup {t} /\ t.event = s.event /\ RelaysTake(s.event)
        /\ s.phase \in {"sent", "renewal sent"} /\ t.phase \in {"stored", "renewal stored"}
        /\ history'.crossed = history.crossed /\ history'.unaware = history.unaware
    BY <1>3 DEF StoredEffect, Becomes
  <2>2. /\ store' = store
        /\ s.event.kind # "claim" => OwnNewest(relays') = OwnNewest(relays)
    <3>1. s.event.kind = "claim" => s.event.issue = Topic
      BY <1>1 DEF SagaOK
    <3> QED BY <1>1, <2>1, <3>1, TakeStep
  <2>3. ASSUME Alone PROVE Alone'
    <3>1. sagas' = {t} /\ OwnNewest(store) = OwnNewest(relays)
      BY <2>1, <2>3 DEF Alone
    <3> QED BY <2>1, <2>2, <3>1 DEF Alone
  <2> QED BY <2>1, <2>3 DEF AloneInv
<1>4. ASSUME NEW t, RenewsEffect(s, t) PROVE AloneInv'
  <2>1. /\ UNCHANGED <<relays, store, history>> /\ sagas' = (sagas \ {s}) \cup {t}
        /\ s.phase = "stored" /\ t.phase = "renewal signing" /\ After(t.event, store)
        /\ s.key \in {"status", "comment"}
    BY <1>4 DEF RenewsEffect, Becomes, portalVars
  <2>2. s.event.kind # "claim"
    BY <1>1, <2>1 DEF SagaOK, KindOf, PublishPhases
  <2>3. ASSUME Alone PROVE Alone'
    <3>1. sagas' = {t} /\ OwnNewest(store) = OwnNewest(relays)
      BY <2>1, <2>2, <2>3 DEF Alone
    <3>2. After(t.event, relays)
      BY <2>1, <3>1 DEF After
    <3> QED BY <2>1, <3>1, <3>2 DEF Alone, After
  <2> QED BY <2>1, <2>3 DEF AloneInv
<1>5. CASE EndsEffect(s)
  <2>1. /\ sagas' = sagas \ {s} /\ history'.crossed = history.crossed
        /\ history'.unaware = history.unaware
    BY <1>5 DEF EndsEffect
  <2>2. Alone => Alone'
    BY <2>1 DEF Alone
  <2> QED BY <2>1, <2>2 DEF AloneInv
<1> QED BY <1>2, <1>3, <1>4, <1>5 DEF SagaEffect

LEMMA AgentAlone ==
    ASSUME PageInv, ChoiceInv, AloneInv, AgentEffect
    PROVE  AloneInv'
<1>1. CASE LoadsEffect \/ ExitsEffect
  <2>1. /\ UNCHANGED <<relays, store, sagas>> /\ history'.crossed = history.crossed
        /\ ~ history'.unaware => ~ history.unaware
    BY <1>1 DEF LoadsEffect, ExitsEffect, portalVars
  <2>2. Alone => Alone'
    BY <2>1 DEF Alone, After
  <2> QED BY <2>1, <2>2 DEF AloneInv
<1>2. ASSUME NEW e, PublishesEffect(e) \/ AgentRenewsEffect(e) PROVE AloneInv'
  <2>1. agent.phase # "off" /\ UNCHANGED sagas /\ history'.unaware = history.unaware
    BY <1>2 DEF PublishesEffect, AgentRenewsEffect
  <2>2. ~ history.unaware => sagas' = {}
    BY <2>1 DEF ChoiceInv, InTurn
  <2> QED BY <2>1, <2>2 DEF AloneInv, Alone
<1> QED BY <1>1, <1>2 DEF AgentEffect

LEMMA OthersAlone ==
    ASSUME PageInv, PageInv', AloneInv, OthersEffect
    PROVE  AloneInv'
<1>1. /\ UNCHANGED <<sagas, history>> /\ store \subseteq store'
      /\ OwnNewest(relays') = OwnNewest(relays)
  BY DEF OthersEffect, pageVars
<1>2. ASSUME OwnNewest(store) = OwnNewest(relays) PROVE OwnNewest(store') = OwnNewest(relays')
  <2>1. PICK R : R = relays'
    OBVIOUS
  <2>2. PICK T : T = store'
    OBVIOUS
  <2>3. ClaimsRanked(R) /\ T \in SUBSET R /\ store \in SUBSET T
    BY <1>1, <2>1, <2>2 DEF PageInv, ListenOK, PortalTypeOK
  <2>4. OwnNewest(store) = OwnNewest(R)
    BY <1>1, <1>2, <2>1
  <2> QED BY <2>1, <2>2, <2>3, <2>4, StillNewest
<1>3. \A e : After(e, relays) => After(e, relays')
  BY <1>1 DEF After
<1>4. ASSUME Alone PROVE Alone'
  <2> SUFFICES ASSUME NEW s \in sagas'
               PROVE  /\ \/ s.phase \in {"stored", "renewal stored"} /\ s.event.kind = "claim"
                         \/ OwnNewest(store') = OwnNewest(relays')
                      /\ \/ s.phase \notin {"signing", "sent", "renewal signing", "renewal sent"}
                         \/ s.event.kind # "claim"
                         \/ After(s.event, relays')
    BY <1>1, <1>4 DEF Alone, After
  <2> QED BY <1>1, <1>2, <1>3, <1>4 DEF Alone
<1> QED BY <1>1, <1>4 DEF AloneInv

LEMMA AloneStep ==
    ASSUME PageInv, PageInv', PageKinds, ChoiceInv, AloneInv
    PROVE  AloneInv'
BY PressAlone, SagaAlone, AgentAlone, OthersAlone DEF PageKinds

LEMMA AloneTaken ==
    ASSUME PageInv, ChoiceInv, AloneInv
    PROVE  ClaimsAreTaken
<1> SUFFICES ASSUME history.crossed = {}, ~ history.unaware
             PROVE  /\ \A s \in sagas : s.phase \in {"sent", "renewal sent"} => Takes(s.event)
                    /\ agent.phase = "published" =>
                         Takes(OrderedAfter(Own("claim", "active", now), agent.board))
  BY DEF ClaimsAreTaken
<1>1. ASSUME NEW s \in sagas, s.phase \in {"sent", "renewal sent"} PROVE Takes(s.event)
  <2>1. s.event \in OwnEvents /\ (s.event.kind = "claim" => After(s.event, relays))
    BY <1>1, SagaShape DEF AloneInv, Alone
  <2> QED BY <2>1, LaterIsTaken DEF Takes, After, PageInv
<1>2. ASSUME agent.phase = "published"
      PROVE  Takes(OrderedAfter(Own("claim", "active", now), agent.board))
  <2>1. PICK o : o = Own("claim", "active", now)
    OBVIOUS
  <2>2. o \in OwnEvents /\ o.kind = "claim"
    BY <2>1, OwnIs, Numbers DEF OwnKinds
  <2>3. agent.board \in SUBSET relays /\ OwnNewest(agent.board) = OwnNewest(relays)
    BY <1>2 DEF PageInv, AgentOK, ChoiceInv, InTurn
  <2>4. PICK f : f = OrderedAfter(o, agent.board)
    OBVIOUS
  <2>5. f \in OwnEvents /\ After(f, relays)
    BY <2>2, <2>3, <2>4, OrderedAfterIs DEF PageInv, After
  <2> QED BY <2>1, <2>4, <2>5, LaterIsTaken DEF Takes, After, PageInv
<1> QED BY <1>1, <1>2

\* No relay refuses a claim change of the visitor's, nor a renewal, for a claim
\* of the same second or one dated ahead, unless a comment was sent with another
\* publish under way, or one of two clients did not have the claims of the other.
THEOREM ClaimsAreAccepted == Spec => []ClaimsAreTaken
<1>1. Init => PageInv /\ ChoiceInv /\ AloneInv
  BY PageInitInv, ChoiceInit DEF AloneInv, Alone
<1>2. PageInv /\ ChoiceInv /\ AloneInv /\ [Next]_vars => PageInv' /\ ChoiceInv' /\ AloneInv'
  BY PageStepInv, ChoiceStep, AloneStep
<1>3. PageInv /\ ChoiceInv /\ AloneInv => ClaimsAreTaken
  BY AloneTaken
<1> QED BY <1>1, <1>2, <1>3, PTL DEF Spec

(***************************************************************************)
(* Comments: one text, however often it is sent again.                     *)
(***************************************************************************)

\* The relays have the comment, and its saga has not reported it.
Waits(s) == s.key = "comment" /\ s.phase \in {"stored"} \cup RenewalPhases

Unreported == \E s \in sagas : Waits(s)

\* Each comment is one of a lost answer, the one reported, or the one a saga
\* has yet to report; a reported comment is not sent again.
CommentsInv ==
    /\ IsFiniteSet(OwnComments(relays))
    /\ Cardinality(OwnComments(relays)) <=
           history.lost + (IF "comment" \in history.done \/ Unreported THEN 1 ELSE 0)
    /\ "comment" \in history.done => \A s \in sagas : s.key # "comment"

\* Nothing about comments has changed.
LEMMA CommentsStay ==
    ASSUME PageInv, CommentsInv, OwnComments(relays') = OwnComments(relays),
           history'.lost = history.lost,
           ("comment" \in history'.done) = ("comment" \in history.done),
           Unreported => Unreported',
           "comment" \in history.done => \A s \in sagas' : s.key # "comment"
    PROVE  CommentsInv'
<1>1. history.lost \in Nat /\ Cardinality(OwnComments(relays)) \in Nat
  BY Numbers, FS_CardinalityType DEF PageInv, HistoryOK, CommentsInv
<1> QED BY <1>1 DEF CommentsInv

LEMMA PressComments ==
    ASSUME PageInv, CommentsInv, NEW key, NEW s, PressEffect(key, s)
    PROVE  CommentsInv'
<1>1. /\ s.key = key /\ key \notin history.done /\ sagas' = sagas \cup {s}
      /\ history'.done = history.done /\ history'.lost = history.lost /\ relays' = relays
  BY DEF PressEffect, portalVars
<1>2. Unreported => Unreported'
  BY <1>1 DEF Unreported, Waits
<1>3. "comment" \in history.done => \A r \in sagas' : r.key # "comment"
  BY <1>1 DEF CommentsInv
<1> QED BY <1>1, <1>2, <1>3, CommentsStay

LEMMA SagaComments ==
    ASSUME PageInv, CommentsInv, NEW s \in sagas, SagaEffect(s)
    PROVE  CommentsInv'
<1>1. /\ SagaOK(s) /\ s.event \in OwnEvents /\ s.key \in Keys
      /\ \A r \in sagas : r.key = s.key => r = s
      /\ s.event.kind = "claim" => s.event.issue = Topic
  BY SagaShape DEF PageInv, SagasOK, SagaOK
<1>2. s.key = "comment" => "comment" \notin history.done
  BY DEF CommentsInv
<1>3. ASSUME NEW t, t.key = s.key, Becomes(s, t), Waits(s) => Waits(t),
             history'.done = history.done, history'.lost = history.lost,
             OwnComments(relays') = OwnComments(relays)
      PROVE  CommentsInv'
  <2>1. Unreported => Unreported'
    BY <1>3 DEF Unreported, Becomes, Waits
  <2>2. "comment" \in history.done => \A r \in sagas' : r.key # "comment"
    BY <1>2, <1>3 DEF CommentsInv, Becomes
  <2> QED BY <1>3, <2>1, <2>2, CommentsStay
<1>4. ASSUME NEW t, MovesEffect(s, t) \/ RenewsEffect(s, t) PROVE CommentsInv'
  <2>1. /\ t.key = s.key /\ Becomes(s, t) /\ UNCHANGED <<relays, history>>
        /\ Waits(s) => Waits(t)
    BY <1>4 DEF MovesEffect, RenewsEffect, Waits, RenewalPhases, portalVars
  <2> QED BY <1>3, <2>1
<1>5. ASSUME NEW t, StoredEffect(s, t) PROVE CommentsInv'
  <2>1. /\ t.key = s.key /\ Becomes(s, t) /\ RelaysTake(s.event)
        /\ s.phase \in {"sent", "renewal sent"}
        /\ t.phase = (IF s.phase = "sent" THEN "stored" ELSE "renewal stored")
        /\ history'.done = history.done /\ history'.lost = history.lost
    BY <1>5 DEF StoredEffect
  <2>2. OwnComments(relays') = IF s.event.kind = "comment" THEN OwnComments(relays) \cup {s.event}
                               ELSE OwnComments(relays)
    BY <1>1, <2>1, TakeStep
  <2>3. s.event.kind = "comment" <=> s.key = "comment" /\ s.phase = "sent"
    BY <1>1, <2>1 DEF SagaOK, KindOf, Keys, PublishPhases, RenewalPhases
  <2>4. CASE s.event.kind # "comment"
    <3>1. Waits(s) => Waits(t)
      BY <2>1 DEF Waits, RenewalPhases
    <3> QED BY <1>3, <2>1, <2>2, <2>4, <3>1
  <2>5. CASE s.event.kind = "comment"
    <3>1. ~ Unreported /\ "comment" \notin history.done
      BY <1>1, <1>2, <2>3, <2>5 DEF Unreported, Waits, RenewalPhases
    <3>2. Unreported'
      BY <2>1, <2>3, <2>5 DEF Unreported, Waits, Becomes
    <3>3. PICK C : C = OwnComments(relays)
      OBVIOUS
    <3>4. PICK D : D = C \cup {s.event}
      OBVIOUS
    <3>5. IsFiniteSet(C) /\ Cardinality(C) <= history.lost /\ history.lost \in Nat
      <4>1. IsFiniteSet(C) /\ Cardinality(C) <= history.lost + 0
        BY <3>1, <3>3 DEF CommentsInv
      <4>2. history.lost \in Nat
        BY Numbers DEF PageInv, HistoryOK
      <4>3. Cardinality(C) \in Nat
        BY <4>1, FS_CardinalityType
      <4> QED BY <4>1, <4>2, <4>3
    <3>6. IsFiniteSet(D) /\ Cardinality(D) <= history.lost + 1
      <4>1. IsFiniteSet(D) /\ Cardinality(C) \in Nat
            /\ (Cardinality(D) = Cardinality(C) \/ Cardinality(D) = Cardinality(C) + 1)
        BY <3>4, <3>5, FS_AddElement, FS_CardinalityType
      <4> QED BY <3>5, <4>1
    <3>7. OwnComments(relays') = D
      BY <2>2, <2>5, <3>3, <3>4
    <3> QED BY <2>1, <3>1, <3>2, <3>6, <3>7 DEF CommentsInv
  <2> QED BY <2>4, <2>5
<1>6. CASE EndsEffect(s)
  <2>1. sagas' = sagas \ {s} /\ relays' = relays
    BY <1>6 DEF EndsEffect
  <2>2. \A r \in sagas' : s.key = "comment" => r.key # "comment"
    BY <1>1, <2>1
  <2>3. Unreported => Unreported' \/ Waits(s)
    BY <2>1 DEF Unreported
  <2>4. ASSUME s.phase \in {"stored"} \cup RenewalPhases,
               history'.done = history.done \cup ({s.key} \cap {"comment", "issue"}),
               history'.lost = history.lost
        PROVE  CommentsInv'
    <3>1. CASE s.key = "comment"
      <4>1. "comment" \in history'.done /\ Unreported
        BY <2>4, <3>1 DEF Unreported, Waits
      <4> QED BY <2>1, <2>2, <2>4, <3>1, <4>1 DEF CommentsInv
    <3>2. CASE s.key # "comment"
      <4>1. /\ ("comment" \in history'.done) = ("comment" \in history.done)
            /\ Unreported => Unreported'
            /\ "comment" \in history.done => \A r \in sagas' : r.key # "comment"
        BY <2>1, <2>3, <2>4, <3>2 DEF Waits, CommentsInv
      <4> QED BY <2>1, <2>4, <4>1, CommentsStay
    <3> QED BY <3>1, <3>2
  <2>5. ASSUME s.phase = "stored", history'.done = history.done,
               history'.lost = history.lost + 1
        PROVE  CommentsInv'
    <3>1. IsFiniteSet(OwnComments(relays)) /\ Cardinality(OwnComments(relays)) \in Nat
      BY FS_CardinalityType DEF CommentsInv
    <3>2. history.lost \in Nat
      BY Numbers DEF PageInv, HistoryOK
    <3>3. "comment" \in history.done => ~ Waits(s)
      BY <1>2 DEF Waits
    <3>4. Cardinality(OwnComments(relays)) <=
              history.lost + 1 + (IF "comment" \in history.done \/ Unreported' THEN 1 ELSE 0)
      BY <2>3, <3>1, <3>2, <3>3 DEF CommentsInv
    <3>5. "comment" \in history.done => \A r \in sagas' : r.key # "comment"
      BY <2>1 DEF CommentsInv
    <3> QED BY <2>1, <2>5, <3>1, <3>4, <3>5 DEF CommentsInv
  <2>6. ASSUME s.phase \in {"signing", "sent"}, UNCHANGED history PROVE CommentsInv'
    <3>1. ~ Waits(s)
      BY <2>6 DEF Waits, RenewalPhases
    <3>2. "comment" \in history.done => \A r \in sagas' : r.key # "comment"
      BY <2>1 DEF CommentsInv
    <3> QED BY <2>1, <2>3, <2>6, <3>1, <3>2, CommentsStay
  <2> QED BY <1>6, <2>4, <2>5, <2>6 DEF EndsEffect
<1> QED BY <1>4, <1>5, <1>6 DEF SagaEffect

LEMMA OtherComments ==
    ASSUME PageInv, CommentsInv, AgentEffect \/ OthersEffect
    PROVE  CommentsInv'
<1>1. /\ UNCHANGED sagas /\ OwnComments(relays') = OwnComments(relays)
      /\ history'.done = history.done /\ history'.lost = history.lost
  <2>1. CASE LoadsEffect \/ ExitsEffect \/ OthersEffect
    BY <2>1 DEF LoadsEffect, ExitsEffect, OthersEffect, portalVars, pageVars
  <2>2. ASSUME NEW e, PublishesEffect(e) \/ AgentRenewsEffect(e)
        PROVE  /\ UNCHANGED sagas /\ OwnComments(relays') = OwnComments(relays)
               /\ history'.done = history.done /\ history'.lost = history.lost
    <3>1. /\ e \in OwnEvents /\ RelaysTake(e) /\ e.kind # "comment"
          /\ (e.kind = "claim" => e.issue = Topic) /\ UNCHANGED sagas
          /\ history'.done = history.done /\ history'.lost = history.lost
      BY <2>2 DEF PublishesEffect, AgentRenewsEffect
    <3> QED BY <3>1, TakeStep
  <2> QED BY <2>1, <2>2 DEF AgentEffect
<1>2. /\ Unreported => Unreported'
      /\ "comment" \in history.done => \A s \in sagas' : s.key # "comment"
  BY <1>1 DEF Unreported, CommentsInv
<1> QED BY <1>1, <1>2, CommentsStay

\* One comment, sent again for as long as it is reported failed, is published
\* twice only for an answer that was lost, whatever fails of its renewal.
THEOREM OneComment == Spec => []CommentedOnce
<1>1. Init => PageInv /\ CommentsInv
  <2> SUFFICES ASSUME Init PROVE PageInv /\ CommentsInv
    OBVIOUS
  <2>1. /\ PageInv /\ OwnComments(relays) = {} /\ history.done = {} /\ history.lost = 0
    BY PageInitInv DEF FreshHistory
  <2>2. IsFiniteSet({}) /\ Cardinality({}) = 0
    BY FS_EmptySet
  <2> QED BY <2>1, <2>2 DEF CommentsInv
<1>2. PageInv /\ CommentsInv /\ [Next]_vars => PageInv' /\ CommentsInv'
  BY PageStepInv, PressComments, SagaComments, OtherComments DEF PageKinds
<1>3. PageInv /\ CommentsInv => CommentedOnce
  <2> SUFFICES ASSUME PageInv, CommentsInv PROVE CommentedOnce
    OBVIOUS
  <2>1. history.lost \in Nat /\ Cardinality(OwnComments(relays)) \in Nat
    BY Numbers, FS_CardinalityType DEF PageInv, HistoryOK, CommentsInv
  <2>2. Cardinality(OwnComments(relays)) <= 1 + history.lost
    BY <2>1 DEF CommentsInv
  <2> QED BY <2>2 DEF CommentedOnce, OwnComments
<1> QED BY <1>1, <1>2, <1>3, PTL DEF Spec
=============================================================================
