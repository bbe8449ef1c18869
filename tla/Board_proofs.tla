---------------------------- MODULE Board_proofs ----------------------------
(***************************************************************************)
(* Proofs about the board client: the view is a function of the set of its *)
(* events, whatever order they came in, and who may change what it shows.  *)
(***************************************************************************)
EXTENDS BoardClient, TaskBoardEvents_proofs, FiniteSetTheorems, WellFoundedInduction

(***************************************************************************)
(* Numbers: the least of a set of them, and induction by it.               *)
(***************************************************************************)
LEMMA NatLeast ==
    ASSUME NEW S, S \subseteq Nat, S # {}
    PROVE  \E x \in S : \A y \in S : x <= y
<1> DEFINE less == {ss \in Nat \X Nat : ss[1] < ss[2]}
<1>1. IsWellFoundedOn(less, Nat)
  BY NatLessThanWellFounded, Zenon DEF OpToRel
<1> HIDE DEF less
<1>2. PICK x \in S : \A y \in S : <<y, x>> \notin less
  BY <1>1, WFMin, Zenon
<1>3. ASSUME NEW y \in S PROVE x <= y
  <2>1. x \in Nat /\ y \in Nat
    OBVIOUS
  <2>2. y < x => <<y, x>> \in less
    BY <2>1 DEF less
  <2>3. ~ (y < x)
    BY <1>2, <2>2
  <2> QED BY <2>1, <2>3
<1> QED BY <1>3

LEMMA UpTo ==
    ASSUME NEW n \in Nat, NEW S, 0 \in S,
           \A i \in 0 .. n : i + 1 \in 0 .. n /\ i \in S => i + 1 \in S
    PROVE  0 .. n \subseteq S
<1> DEFINE bad == (0 .. n) \ S
<1>1. CASE bad # {}
  <2>0. bad \subseteq Nat
    OBVIOUS
  <2>1. PICK k \in bad : \A i \in bad : k <= i
    <3> HIDE DEF bad
    <3> QED BY <1>1, <2>0, NatLeast
  <2>2. k - 1 \in 0 .. n /\ k - 1 \in S
    BY <2>1
  <2>3. (k - 1) + 1 = k
    BY <2>1
  <2> QED BY <2>1, <2>2, <2>3
<1> QED BY <1>1

(***************************************************************************)
(* A scan of a client's list, and the newest of a set.                     *)
(***************************************************************************)

\* The events of T among the first k.
SeenOf(order, T, k) == {order[j] : j \in 1 .. k} \cap T

\* The next of the list is one more, if it is in T.
SeenWith(order, T, k) ==
    SeenOf(order, T, k + 1) = IF order[k + 1] \in T THEN SeenOf(order, T, k) \cup {order[k + 1]}
                              ELSE SeenOf(order, T, k)

LEMMA SeenNext ==
    ASSUME NEW order, NEW T, NEW k \in Nat
    PROVE  SeenWith(order, T, k)
<1>1. {order[j] : j \in 1 .. (k + 1)} = {order[j] : j \in 1 .. k} \cup {order[k + 1]}
  OBVIOUS
<1> QED BY <1>1 DEF SeenOf, SeenWith

LEMMA SeenEvents ==
    ASSUME NEW order \in Seq(Events), NEW T, NEW k \in 0 .. Len(order)
    PROVE  SeenOf(order, T, k) \in SUBSET Events
BY DEF SeenOf

LEMMA SeenHolds ==
    ASSUME NEW order \in Seq(Events), NEW T
    PROVE  \A k \in 0 .. Len(order) :
               HoldsNewest(Newest(SeenOf(order, T, k)), SeenOf(order, T, k))
<1> DEFINE S == {k \in 0 .. Len(order) :
                   HoldsNewest(Newest(SeenOf(order, T, k)), SeenOf(order, T, k))}
<1>1. 0 \in S
  <2>1. SeenOf(order, T, 0) = {}
    BY DEF SeenOf
  <2> QED BY <2>1 DEF HoldsNewest, Newest
<1>2. ASSUME NEW k \in 0 .. Len(order), k + 1 \in 0 .. Len(order), k \in S PROVE k + 1 \in S
  <2>1. PICK seen : seen = SeenOf(order, T, k)
    OBVIOUS
  <2>2. PICK next : next = SeenOf(order, T, k + 1)
    OBVIOUS
  <2>3. PICK e \in Events : e = order[k + 1]
    BY <1>2
  <2>4. seen \in SUBSET Events /\ HoldsNewest(Newest(seen), seen)
    BY <1>2, <2>1, SeenEvents
  <2>5. next = IF e \in T THEN seen \cup {e} ELSE seen
    <3>1. k \in Nat
      OBVIOUS
    <3>2. SeenWith(order, T, k)
      BY <3>1, SeenNext
    <3> QED BY <2>1, <2>2, <2>3, <3>2 DEF SeenWith
  <2>6. HoldsNewest(Newest(next), next)
    <3>1. CASE e \in T
      <4>1. HoldsNewest(KeepNewest(Newest(seen), e), seen \cup {e})
        BY <2>4, KeepNewestStep
      <4> QED BY <2>4, <2>5, <3>1, <4>1, HoldsNewestIsNewest
    <3> QED BY <2>4, <2>5, <3>1
  <2> QED BY <1>2, <2>2, <2>6
<1>3. 0 .. Len(order) \subseteq S
  <2> HIDE DEF S
  <2> QED BY <1>1, <1>2, UpTo
<1> QED BY <1>3

LEMMA SeenKept ==
    ASSUME NEW order \in Seq(Events), NEW T, NEW k \in 0 .. Len(order), k # 0
    PROVE  Newest(SeenOf(order, T, k)) =
               IF order[k] \in T THEN KeepNewest(Newest(SeenOf(order, T, k - 1)), order[k])
               ELSE Newest(SeenOf(order, T, k - 1))
<1>1. PICK i \in 0 .. Len(order) : k = i + 1 /\ i = k - 1
  <2>1. k - 1 \in 0 .. Len(order) /\ k = (k - 1) + 1
    OBVIOUS
  <2> QED BY <2>1
<1>2. PICK seen : seen = SeenOf(order, T, i)
  OBVIOUS
<1>3. PICK e \in Events : e = order[k]
  OBVIOUS
<1>4. seen \in SUBSET Events /\ HoldsNewest(Newest(seen), seen)
  <2>1. seen \in SUBSET Events
    BY <1>2, SeenEvents
  <2>2. HoldsNewest(Newest(seen), seen)
    BY <1>2, SeenHolds
  <2> QED BY <2>1, <2>2
<1>5. SeenOf(order, T, k) = IF e \in T THEN seen \cup {e} ELSE seen
  <2>1. i \in Nat
    OBVIOUS
  <2>2. SeenWith(order, T, i)
    BY <2>1, SeenNext
  <2> QED BY <1>1, <1>2, <1>3, <2>2 DEF SeenWith
<1>6. Newest(seen \cup {e}) = KeepNewest(Newest(seen), e)
  <2>1. HoldsNewest(KeepNewest(Newest(seen), e), seen \cup {e})
    BY <1>4, KeepNewestStep
  <2> QED BY <1>4, <2>1, HoldsNewestIsNewest
<1> QED BY <1>1, <1>2, <1>3, <1>5, <1>6

\* The scan of a list finds the newest of T, in whatever order it is.
LEMMA Scanned ==
    ASSUME NEW order \in Seq(Events), NEW T \in SUBSET Range(order)
    PROVE  NewestInOrder(order, T) = Newest(T) /\ HoldsNewest(Newest(T), T)
<1> DEFINE n == Len(order)
           Equation(g) == g = [i \in 0 .. n |->
                               IF i = 0 THEN NoEvent
                               ELSE IF order[i] \in T THEN KeepNewest(g[i - 1], order[i])
                               ELSE g[i - 1]]
           scan == CHOOSE g : Equation(g)
           newest == [i \in 0 .. n |-> Newest(SeenOf(order, T, i))]
<1>1. NewestInOrder(order, T) = scan[n]
  BY DEF NewestInOrder
<1>2. Equation(newest)
  <2>1. SeenOf(order, T, 0) = {}
    BY DEF SeenOf
  <2>2. newest[0] = NoEvent
    BY <2>1 DEF Newest
  <2>3. ASSUME NEW i \in 0 .. n, i # 0
        PROVE  newest[i] = IF order[i] \in T THEN KeepNewest(newest[i - 1], order[i])
                           ELSE newest[i - 1]
    <3>1. i - 1 \in 0 .. n
      BY <2>3
    <3> QED BY <2>3, <3>1, SeenKept
  <2> DEFINE body == [i \in 0 .. n |->
                        IF i = 0 THEN NoEvent
                        ELSE IF order[i] \in T THEN KeepNewest(newest[i - 1], order[i])
                        ELSE newest[i - 1]]
  <2>4. \A i \in 0 .. n : newest[i] = body[i]
    <3> HIDE DEF newest
    <3> QED BY <2>2, <2>3
  <2>5. newest = body
    BY <2>4
  <2> QED BY <2>5
<1>3. Equation(scan)
  <2> HIDE DEF newest, Equation
  <2> QED BY <1>2
<1>4. \A i \in 0 .. n : scan[i] = newest[i]
  <2> DEFINE S == {i \in 0 .. n : scan[i] = newest[i]}
  <2>1. \A g : Equation(g) =>
           /\ g[0] = NoEvent
           /\ \A i \in 0 .. n : i + 1 \in 0 .. n =>
                 g[i + 1] = IF order[i + 1] \in T THEN KeepNewest(g[i], order[i + 1]) ELSE g[i]
    <3> SUFFICES ASSUME NEW g, Equation(g)
                 PROVE  /\ g[0] = NoEvent
                        /\ \A i \in 0 .. n : i + 1 \in 0 .. n =>
                              g[i + 1] = IF order[i + 1] \in T THEN KeepNewest(g[i], order[i + 1])
                                         ELSE g[i]
      OBVIOUS
    <3>1. \A i \in 0 .. n :
             g[i] = IF i = 0 THEN NoEvent
                    ELSE IF order[i] \in T THEN KeepNewest(g[i - 1], order[i]) ELSE g[i - 1]
      OBVIOUS
    <3> HIDE DEF Equation
    <3>2. ASSUME NEW i \in 0 .. n, i + 1 \in 0 .. n
          PROVE  g[i + 1] = IF order[i + 1] \in T THEN KeepNewest(g[i], order[i + 1]) ELSE g[i]
      <4>1. (i + 1) - 1 = i /\ i + 1 # 0
        OBVIOUS
      <4> QED BY <3>1, <3>2, <4>1
    <3> QED BY <3>1, <3>2
  <2> HIDE DEF scan, newest, Equation
  <2>2. 0 \in S
    BY <1>2, <1>3, <2>1
  <2>3. \A i \in 0 .. n : i + 1 \in 0 .. n /\ i \in S => i + 1 \in S
    BY <1>2, <1>3, <2>1
  <2>4. 0 .. n \subseteq S
    <3> HIDE DEF S
    <3> QED BY <2>2, <2>3, UpTo
  <2> QED BY <2>4
<1>5. SeenOf(order, T, n) = T
  <2>1. Range(order) = {order[j] : j \in 1 .. n}
    BY DEF Range
  <2> QED BY <2>1 DEF SeenOf
<1>6. n \in 0 .. n
  OBVIOUS
<1>7. scan[n] = Newest(T)
  <2> HIDE DEF scan
  <2> QED BY <1>4, <1>5, <1>6
<1> QED BY <1>1, <1>5, <1>6, <1>7, SeenHolds

(***************************************************************************)
(* What the reducer picks by scanning, it picks whatever the order.        *)
(***************************************************************************)
LEMMA PickIs ==
    ASSUME NEW order \in Seq(Events), NEW T \in SUBSET Range(order)
    PROVE  /\ Pick(order, T) = Newest(T) /\ HoldsNewest(Newest(T), T)
           /\ Pick(<<>>, T) = Newest(T)
BY Scanned DEF Pick

LEMMA LivesOn ==
    ASSUME NEW S
    PROVE  LiveEvents(S) \in SUBSET S
BY DEF LiveEvents

LEMMA InRange ==
    ASSUME NEW order \in Seq(Events)
    PROVE  Range(order) \in SUBSET Events /\ Range(order) = {order[i] : i \in 1 .. Len(order)}
<1>1. Range(order) = {order[i] : i \in 1 .. Len(order)}
  BY DEF Range
<1> QED BY <1>1

LEMMA MaxIs ==
    ASSUME NEW n \in Nat, NEW S \in SUBSET (1 .. n), S # {}
    PROVE  Max(S) \in S
<1> DEFINE below == {n - i : i \in S}
<1>1. below \subseteq Nat /\ below # {}
  <2>1. \A i \in S : n - i \in Nat
    OBVIOUS
  <2> QED BY <2>1
<1>2. PICK d \in below : \A c \in below : d <= c
  <2> HIDE DEF below
  <2> QED BY <1>1, NatLeast
<1>3. PICK i \in S : d = n - i
  BY <1>2
<1>4. \A j \in S : i >= j
  <2> SUFFICES ASSUME NEW j \in S PROVE i >= j
    OBVIOUS
  <2>1. d <= n - j
    BY <1>2
  <2> QED BY <1>3, <2>1
<1> QED BY <1>4 DEF Max

LEMMA LastIs ==
    ASSUME NEW order \in Seq(Events), NEW T \in SUBSET Range(order)
    PROVE  /\ T = {} => LastOf(order, T) = NoEvent /\ Newest(T) = NoEvent
           /\ T # {} => LastOf(order, T) \in T /\ Newest(T) \in T
<1>1. Newest({}) = NoEvent
  BY DEF Newest
<1>2. T # {} => Newest(T) \in T
  BY Scanned DEF HoldsNewest, IsNewestIn
<1>3. CASE order = <<>>
  BY <1>1, <1>2, <1>3 DEF LastOf
<1>4. CASE order # <<>>
  <2>1. LastOf(order, T) = LastInOrder(order, T)
    BY <1>4 DEF LastOf
  <2>2. PICK places : places = {i \in DOMAIN order : order[i] \in T}
    OBVIOUS
  <2>3. LastInOrder(order, T) = IF places = {} THEN NoEvent ELSE order[Max(places)]
    BY <2>2 DEF LastInOrder
  <2>4. places = {} <=> T = {}
    BY <2>2 DEF Range
  <2>5. places # {} => Max(places) \in places
    <3>1. places \in SUBSET (1 .. Len(order)) /\ Len(order) \in Nat
      BY <2>2
    <3> QED BY <3>1, MaxIs
  <2> QED BY <1>1, <1>2, <2>1, <2>2, <2>3, <2>4, <2>5
<1> QED BY <1>3, <1>4

(***************************************************************************)
(* Roles: what the trust is derived from is picked, and so is the same.    *)
(***************************************************************************)
LEMMA SamePick ==
    ASSUME NEW order \in Seq(Events), NEW live \in SUBSET Range(order)
    PROVE  \A T \in SUBSET live : Pick(order, T) = Pick(<<>>, T)
BY PickIs

LEMMA SameRoles ==
    ASSUME NEW order \in Seq(Events), NEW live \in SUBSET Range(order), NEW b, NEW now_
    PROVE  Roles(live, b, now_, order) = Roles(live, b, now_, <<>>)
<1>1. \A T \in SUBSET live : Pick(order, T) = Pick(<<>>, T)
  BY SamePick
<1>2. StewardsFrom(live, b, order) = StewardsFrom(live, b, <<>>)
  <2>1. AnnouncementsOf(live, b) \in SUBSET live
    BY DEF AnnouncementsOf
  <2> QED BY <1>1, <2>1 DEF StewardsFrom
<1>3. ASSUME NEW kind PROVE FollowSets(live, kind, order) = FollowSets(live, kind, <<>>)
  <2>1. \A p \in Pubkeys : {e \in live : e.kind = kind /\ e.pubkey = p} \in SUBSET live
    OBVIOUS
  <2> QED BY <1>1, <2>1 DEF FollowSets
<1>4. ASSUME NEW stewards
      PROVE  NewestAttestations(live, stewards, order) = NewestAttestations(live, stewards, <<>>)
  <2>1. \A k \in Pubkeys : Attestations(live, stewards, k) \in SUBSET live
    BY DEF Attestations
  <2> QED BY <1>1, <2>1 DEF NewestAttestations
<1>5. ASSUME NEW stewards
      PROVE  NewestVerdicts(live, stewards, order) = NewestVerdicts(live, stewards, <<>>)
  <2>1. \A p, i : Verdicts(live, stewards, p, i) \in SUBSET live
    BY DEF Verdicts
  <2> QED BY <1>1, <2>1 DEF NewestVerdicts
<1> QED BY <1>2, <1>3, <1>4, <1>5 DEF Roles

LEMMA SameRelations ==
    ASSUME NEW order \in Seq(Events), NEW live \in SUBSET Range(order), NEW b
    PROVE  KeyRelations(live, b, order) = KeyRelations(live, b, <<>>)
<1>1. \A p \in Pubkeys :
         {e \in live : e.kind = "key_properties" /\ e.d = b /\ e.pubkey = p} \in SUBSET live
  OBVIOUS
<1>2. PropertiesOf(live, b, order) = PropertiesOf(live, b, <<>>)
  BY <1>1, SamePick DEF PropertiesOf
<1> QED BY <1>2 DEF KeyRelations

(***************************************************************************)
(* One task: the same, but for which superseding issue is named.           *)
(***************************************************************************)
LEMMA SameClaimants ==
    ASSUME NEW order \in Seq(Events), NEW live \in SUBSET Range(order), NEW b, NEW t, NEW now_
    PROVE  ActiveClaimants(live, b, t, now_, order) = ActiveClaimants(live, b, t, now_, <<>>)
<1>1. \A p \in Pubkeys : ByKey(ClaimEvents(live, b, t), p) \in SUBSET live
  BY DEF ByKey, ClaimEvents
<1> QED BY <1>1, SamePick DEF ActiveClaimants

LEMMA SameJudged ==
    ASSUME NEW order \in Seq(Events), NEW live \in SUBSET Range(order), NEW b, NEW t, NEW now_,
           NEW r, NEW v
    PROVE  Judged(live, r, b, now_, t, order, v) = Judged(live, r, b, now_, t, <<>>, v)
<1>1. \A p \in Pubkeys : ByKey(PledgeEvents(live, b, t), p) \in SUBSET live
  BY DEF ByKey, PledgeEvents
<1>2. StandingPledges(live, b, t, order) = StandingPledges(live, b, t, <<>>)
  BY <1>1, SamePick DEF StandingPledges
<1>3. \A p : Verdicts(live, r.stewards, p, t.id) \in SUBSET live
  BY DEF Verdicts
<1> QED BY <1>2, <1>3, SamePick DEF Judged

\* A task of the board, superseded by s.
Row(t, hidden, s, names, active, backed, paid, comments, latest, column) ==
    [ id |-> t.id, pubkey |-> t.pubkey, is_hidden |-> hidden, superseded_by |-> s,
      status |-> names.status, priority |-> names.priority, state |-> names.state,
      active_claimants |-> active, pledged |-> backed, paid |-> paid,
      comment_count |-> comments, latest_activity_at |-> latest, column |-> column ]

LEMMA TaskIs ==
    ASSUME NEW live, NEW tasks, NEW r, NEW b, NEW now_, NEW t, NEW order,
           NEW status, status = Pick(order, StatusEvents(live, r, t)),
           NEW priority, priority = Pick(order, LabelEvents(live, r, t, "priority_label")),
           NEW state, state = Pick(order, LabelEvents(live, r, t, "state_label")),
           NEW active, active = ActiveClaimants(live, b, t, now_, order),
           NEW backed, backed = Total(Judged(live, r, b, now_, t, order, "backed")),
           NEW paid, paid = Total(Judged(live, r, b, now_, t, order, "paid")),
           NEW names,
           names = [ status   |-> IF status = NoEvent THEN "status_open" ELSE status.kind,
                     priority |-> IF priority = NoEvent THEN "none" ELSE priority.value,
                     state    |-> IF state = NoEvent THEN "none" ELSE state.value ]
    PROVE  Task(live, tasks, r, b, now_, t, order) =
               Row(t, IsHidden(r, t), LastOf(order, Superseders(r, tasks, t)), names, active,
                   backed, paid, Cardinality(CommentEvents(live, r, t)),
                   Max({e.created_at : e \in Touching(live, r, b, t)}),
                   ColumnOf(names.status, active, names.state, names.priority, backed))
BY ZenonT(60) DEF Task, Row

LEMMA SameTask ==
    ASSUME NEW order \in Seq(Events), NEW live \in SUBSET Range(order), NEW b, NEW now_,
           NEW r, NEW tasks, NEW t
    PROVE  \E hidden, names, active, backed, paid, comments, latest, column :
               \A o \in {order, <<>>} :
                   Task(live, tasks, r, b, now_, t, o) =
                       Row(t, hidden, LastOf(o, Superseders(r, tasks, t)), names, active,
                           backed, paid, comments, latest, column)
<1>1. PICK status : status = Pick(<<>>, StatusEvents(live, r, t))
  OBVIOUS
<1>2. PICK priority : priority = Pick(<<>>, LabelEvents(live, r, t, "priority_label"))
  OBVIOUS
<1>3. PICK state : state = Pick(<<>>, LabelEvents(live, r, t, "state_label"))
  OBVIOUS
<1>4. PICK active : active = ActiveClaimants(live, b, t, now_, <<>>)
  OBVIOUS
<1>5. PICK backed : backed = Total(Judged(live, r, b, now_, t, <<>>, "backed"))
  OBVIOUS
<1>6. PICK paid : paid = Total(Judged(live, r, b, now_, t, <<>>, "paid"))
  OBVIOUS
<1>7. PICK names :
        names = [ status   |-> IF status = NoEvent THEN "status_open" ELSE status.kind,
                  priority |-> IF priority = NoEvent THEN "none" ELSE priority.value,
                  state    |-> IF state = NoEvent THEN "none" ELSE state.value ]
  OBVIOUS
<1>8. PICK hidden : hidden = IsHidden(r, t)
  OBVIOUS
<1>9. PICK comments : comments = Cardinality(CommentEvents(live, r, t))
  OBVIOUS
<1>10. PICK latest : latest = Max({e.created_at : e \in Touching(live, r, b, t)})
  OBVIOUS
<1>11. PICK column :
          column = ColumnOf(names.status, active, names.state, names.priority, backed)
  OBVIOUS
<1> DEFINE task(o) == Row(t, hidden, LastOf(o, Superseders(r, tasks, t)), names, active,
                          backed, paid, comments, latest, column)
<1>12. /\ Pick(order, StatusEvents(live, r, t)) = status
       /\ Pick(order, LabelEvents(live, r, t, "priority_label")) = priority
       /\ Pick(order, LabelEvents(live, r, t, "state_label")) = state
  <2>1. /\ StatusEvents(live, r, t) \in SUBSET live
        /\ \A k : LabelEvents(live, r, t, k) \in SUBSET live
    BY DEF StatusEvents, LabelEvents
  <2> QED BY <1>1, <1>2, <1>3, <2>1, SamePick
<1>13. ActiveClaimants(live, b, t, now_, order) = active
  BY <1>4, SameClaimants
<1>14. /\ Total(Judged(live, r, b, now_, t, order, "backed")) = backed
       /\ Total(Judged(live, r, b, now_, t, order, "paid")) = paid
  BY <1>5, <1>6, SameJudged
<1>15. Task(live, tasks, r, b, now_, t, <<>>) = task(<<>>)
  BY <1>1, <1>2, <1>3, <1>4, <1>5, <1>6, <1>7, <1>8, <1>9, <1>10, <1>11, TaskIs
<1>16. Task(live, tasks, r, b, now_, t, order) = task(order)
  BY <1>1, <1>2, <1>3, <1>4, <1>5, <1>6, <1>7, <1>8, <1>9, <1>10, <1>11, <1>12, <1>13, <1>14,
     TaskIs
<1>17. \A o \in {order, <<>>} :
         Task(live, tasks, r, b, now_, t, o) =
             Row(t, hidden, LastOf(o, Superseders(r, tasks, t)), names, active,
                 backed, paid, comments, latest, column)
  BY <1>15, <1>16
<1> WITNESS hidden, names, active, backed, paid, comments, latest, column
<1> QED BY <1>17

ShownTask(t) == [t EXCEPT !.superseded_by = IF @ = NoEvent THEN "no" ELSE "yes"]

LEMMA SameShownTask ==
    ASSUME NEW order \in Seq(Events), NEW live \in SUBSET Range(order), NEW b, NEW now_,
           NEW r, NEW tasks \in SUBSET live, NEW t
    PROVE  ShownTask(Task(live, tasks, r, b, now_, t, order)) =
               ShownTask(Task(live, tasks, r, b, now_, t, <<>>))
<1>1. PICK hidden, names, active, backed, paid, comments, latest, column :
          \A o \in {order, <<>>} :
              Task(live, tasks, r, b, now_, t, o) =
                  Row(t, hidden, LastOf(o, Superseders(r, tasks, t)), names, active,
                      backed, paid, comments, latest, column)
  BY SameTask
<1>2. PICK S : S = Superseders(r, tasks, t)
  OBVIOUS
<1>3. LastOf(order, S) = NoEvent <=> LastOf(<<>>, S) = NoEvent
  <2>1. S \in SUBSET Range(order) /\ NoEvent \notin S
    BY <1>2, InRange, EventsAssumption DEF Superseders
  <2>2. LastOf(<<>>, S) = Newest(S)
    BY DEF LastOf
  <2> QED BY <2>1, <2>2, LastIs
<1>4. ASSUME NEW s, NEW u, s = NoEvent <=> u = NoEvent
      PROVE  ShownTask(Row(t, hidden, s, names, active, backed, paid, comments, latest, column)) =
             ShownTask(Row(t, hidden, u, names, active, backed, paid, comments, latest, column))
  <2> PICK id : id = t.id
    OBVIOUS
  <2> PICK pubkey : pubkey = t.pubkey
    OBVIOUS
  <2> PICK status : status = names.status
    OBVIOUS
  <2> PICK priority : priority = names.priority
    OBVIOUS
  <2> PICK state : state = names.state
    OBVIOUS
  <2> QED BY <1>4 DEF Row, ShownTask
<1> PICK s : s = LastOf(order, S)
  OBVIOUS
<1> PICK u : u = LastOf(<<>>, S)
  OBVIOUS
<1>5. /\ Task(live, tasks, r, b, now_, t, order) =
             Row(t, hidden, s, names, active, backed, paid, comments, latest, column)
      /\ Task(live, tasks, r, b, now_, t, <<>>) =
             Row(t, hidden, u, names, active, backed, paid, comments, latest, column)
  BY <1>1, <1>2
<1> QED BY <1>3, <1>4, <1>5

LEMMA TasksLive ==
    ASSUME NEW live, NEW r, NEW b
    PROVE  TasksOf(live, r, b) \in SUBSET live
BY DEF TasksOf

View(r, relations, tasks) ==
    [ stewards |-> r.stewards, trusted |-> r.trusted, blocked |-> r.blocked,
      established |-> r.established, relations |-> relations, tasks |-> tasks ]

LEMMA ShownView ==
    ASSUME NEW r, NEW relations, NEW tasks
    PROVE  Shown(View(r, relations, tasks)) = View(r, relations, {ShownTask(t) : t \in tasks})
<1> PICK stewards : stewards = r.stewards
  OBVIOUS
<1> PICK trusted : trusted = r.trusted
  OBVIOUS
<1> PICK blocked : blocked = r.blocked
  OBVIOUS
<1> PICK established : established = r.established
  OBVIOUS
<1> PICK shown : shown = {ShownTask(t) : t \in tasks}
  OBVIOUS
<1> PICK view : view = View(r, relations, tasks)
  OBVIOUS
<1>1. view.tasks = tasks
  BY DEF View
<1>2. Shown(view) = [view EXCEPT !.tasks = shown]
  BY <1>1, Zenon DEF Shown, ShownTask
<1>3. view = [stewards |-> stewards, trusted |-> trusted, blocked |-> blocked,
              established |-> established, relations |-> relations, tasks |-> tasks]
  BY DEF View
<1>4. [view EXCEPT !.tasks = shown] =
          [stewards |-> stewards, trusted |-> trusted, blocked |-> blocked,
           established |-> established, relations |-> relations, tasks |-> shown]
  BY <1>3
<1>5. View(r, relations, shown) =
          [stewards |-> stewards, trusted |-> trusted, blocked |-> blocked,
           established |-> established, relations |-> relations, tasks |-> shown]
  BY DEF View
<1> QED BY <1>2, <1>4, <1>5

LEMMA SameBoard ==
    ASSUME NEW order \in Seq(Events), NEW live \in SUBSET Range(order), NEW b, NEW now_
    PROVE  Shown(BoardFrom(live, b, now_, order)) = Shown(BoardFrom(live, b, now_, <<>>))
<1> PICK r : r = Roles(live, b, now_, <<>>)
  OBVIOUS
<1> PICK T : T = TasksOf(live, r, b)
  OBVIOUS
<1> PICK relations : relations = KeyRelations(live, b, <<>>)
  OBVIOUS
<1> DEFINE tasks_(o) == {Task(live, T, r, b, now_, t, o) : t \in T}
<1>1. Roles(live, b, now_, order) = r /\ KeyRelations(live, b, order) = relations
  BY SameRoles, SameRelations
<1>2. BoardFrom(live, b, now_, order) = View(r, relations, tasks_(order))
  BY <1>1, Zenon DEF BoardFrom, View
<1>3. BoardFrom(live, b, now_, <<>>) = View(r, relations, tasks_(<<>>))
  BY Zenon DEF BoardFrom, View
<1>4. {ShownTask(t) : t \in tasks_(order)} = {ShownTask(t) : t \in tasks_(<<>>)}
  <2>1. T \in SUBSET live
    BY TasksLive
  <2>2. \A t \in T : ShownTask(Task(live, T, r, b, now_, t, order)) =
                     ShownTask(Task(live, T, r, b, now_, t, <<>>))
    BY <2>1, SameShownTask
  <2> QED BY <2>2
<1> HIDE DEF tasks_
<1>5. Shown(View(r, relations, tasks_(order))) = Shown(View(r, relations, tasks_(<<>>)))
  <2> PICK A : A = tasks_(order)
    OBVIOUS
  <2> PICK B : B = tasks_(<<>>)
    OBVIOUS
  <2>1. {ShownTask(t) : t \in A} = {ShownTask(t) : t \in B}
    BY <1>4
  <2>2. /\ Shown(View(r, relations, A)) = View(r, relations, {ShownTask(t) : t \in A})
        /\ Shown(View(r, relations, B)) = View(r, relations, {ShownTask(t) : t \in B})
    BY ShownView
  <2> HIDE DEF tasks_
  <2> QED BY <2>1, <2>2
<1> QED BY <1>2, <1>3, <1>5

(***************************************************************************)
(* The client's invariant.                                                 *)
(***************************************************************************)
BoardInv ==
    /\ published \in SUBSET Events
    /\ log \in Seq(Events) /\ Range(log) \subseteq published
    /\ viewed_at \in Nat /\ now \in Nat /\ viewed_at <= now
    /\ board = BoardOf(log, Board, viewed_at)

LEMMA EmptyLog == <<>> \in Seq(Events) /\ Range(<<>>) = {}
BY DEF Range

LEMMA AppendRange ==
    ASSUME NEW s \in Seq(Events), NEW e \in Events
    PROVE  Append(s, e) \in Seq(Events) /\ Range(Append(s, e)) = Range(s) \cup {e}
<1>1. Append(s, e) \in Seq(Events) /\ Len(Append(s, e)) = Len(s) + 1
  OBVIOUS
<1>2. \A i \in 1 .. (Len(s) + 1) : Append(s, e)[i] = IF i = Len(s) + 1 THEN e ELSE s[i]
  OBVIOUS
<1>3. /\ Range(s) = {s[i] : i \in 1 .. Len(s)}
      /\ Range(Append(s, e)) = {Append(s, e)[i] : i \in 1 .. (Len(s) + 1)}
  BY <1>1, InRange
<1> QED BY <1>1, <1>2, <1>3

LEMMA BoardInit == Init => BoardInv
BY EmptyLog, ClientAssumption DEF Init, BoardInv

LEMMA BoardStep == BoardInv /\ [Next]_vars => BoardInv'
<1> SUFFICES ASSUME BoardInv, [Next]_vars PROVE BoardInv'
  OBVIOUS
<1>1. ASSUME NEW e \in Events, Receive(e) PROVE BoardInv'
  <2>1. /\ log' = (IF e \in Range(log) THEN log ELSE Append(log, e)) /\ e \in published
        /\ board' = BoardOf(log', Board, now) /\ viewed_at' = now
        /\ UNCHANGED <<published, now>>
    BY <1>1 DEF Receive
  <2>2. log' \in Seq(Events) /\ Range(log') \subseteq published
    BY <2>1, AppendRange DEF BoardInv
  <2> QED BY <2>1, <2>2 DEF BoardInv
<1>2. CASE Tick
  BY <1>2 DEF Tick, BoardInv
<1>3. CASE UNCHANGED vars
  BY <1>3 DEF vars, BoardInv
<1> QED BY <1>1, <1>2, <1>3 DEF Next

LEMMA BoardInvHolds == Init /\ [][Next]_vars => []BoardInv
BY BoardInit, BoardStep, PTL

\* "Every client is expected to derive the same board from the same events":
\* whatever order a client got any finite list of events in, it shows the board
\* that the set of them declares, with the newest of everything.
THEOREM OrderDoesNotMatter == Spec => []SameEventsSameBoard
<1>1. BoardInv => SameEventsSameBoard
  <2> SUFFICES ASSUME BoardInv PROVE SameEventsSameBoard
    OBVIOUS
  <2>1. LiveEvents(Range(log)) \in SUBSET Range(log) /\ log \in Seq(Events)
    BY LivesOn DEF BoardInv
  <2>2. board = BoardFrom(LiveEvents(Range(log)), Board, viewed_at, log)
    BY DEF BoardInv, BoardOf
  <2>3. Shown(BoardFrom(LiveEvents(Range(log)), Board, viewed_at, log)) =
        Shown(BoardFrom(LiveEvents(Range(log)), Board, viewed_at, <<>>))
    BY <2>1, SameBoard
  <2> QED BY <2>2, <2>3 DEF SameEventsSameBoard, DeclaredBoard
<1> QED BY <1>1, BoardInvHolds, PTL DEF Spec


(***************************************************************************)
(* What a task of the board shows.                                         *)
(***************************************************************************)
StatusIn(e) == IF e = NoEvent THEN "status_open" ELSE e.kind
ValueIn(e) == IF e = NoEvent THEN "none" ELSE e.value

LEMMA TaskFields ==
    ASSUME NEW live, NEW tasks, NEW r, NEW b, NEW now_, NEW t, NEW order,
           NEW u, u = Task(live, tasks, r, b, now_, t, order)
    PROVE  /\ u.id = t.id /\ u.pubkey = t.pubkey /\ u.is_hidden = IsHidden(r, t)
           /\ u.superseded_by = LastOf(order, Superseders(r, tasks, t))
           /\ u.status = StatusIn(Pick(order, StatusEvents(live, r, t)))
           /\ u.priority = ValueIn(Pick(order, LabelEvents(live, r, t, "priority_label")))
           /\ u.state = ValueIn(Pick(order, LabelEvents(live, r, t, "state_label")))
           /\ u.active_claimants = ActiveClaimants(live, b, t, now_, order)
           /\ u.comment_count = Cardinality(CommentEvents(live, r, t))
           /\ u.pledged = Total(Judged(live, r, b, now_, t, order, "backed"))
           /\ u.paid = Total(Judged(live, r, b, now_, t, order, "paid"))
<1>1. PICK status : status = Pick(order, StatusEvents(live, r, t))
  OBVIOUS
<1>2. PICK priority : priority = Pick(order, LabelEvents(live, r, t, "priority_label"))
  OBVIOUS
<1>3. PICK state : state = Pick(order, LabelEvents(live, r, t, "state_label"))
  OBVIOUS
<1>4. PICK active : active = ActiveClaimants(live, b, t, now_, order)
  OBVIOUS
<1>5. PICK backed : backed = Total(Judged(live, r, b, now_, t, order, "backed"))
  OBVIOUS
<1>6. PICK paid : paid = Total(Judged(live, r, b, now_, t, order, "paid"))
  OBVIOUS
<1>7. PICK names :
        names = [ status   |-> IF status = NoEvent THEN "status_open" ELSE status.kind,
                  priority |-> IF priority = NoEvent THEN "none" ELSE priority.value,
                  state    |-> IF state = NoEvent THEN "none" ELSE state.value ]
  OBVIOUS
<1>8. /\ names.status = StatusIn(status) /\ names.priority = ValueIn(priority)
      /\ names.state = ValueIn(state)
  BY <1>7 DEF StatusIn, ValueIn
<1>9. PICK comments : comments = Cardinality(CommentEvents(live, r, t))
  OBVIOUS
<1>10. PICK latest : latest = Max({e.created_at : e \in Touching(live, r, b, t)})
  OBVIOUS
<1>11. PICK column : column = ColumnOf(names.status, active, names.state, names.priority, backed)
  OBVIOUS
<1>12. PICK s : s = LastOf(order, Superseders(r, tasks, t))
  OBVIOUS
<1>13. PICK hidden : hidden = IsHidden(r, t)
  OBVIOUS
<1>14. u = Row(t, hidden, s, names, active, backed, paid, comments, latest, column)
  BY <1>1, <1>2, <1>3, <1>4, <1>5, <1>6, <1>7, <1>9, <1>10, <1>11, <1>12, <1>13, TaskIs
<1>15. /\ u.id = t.id /\ u.pubkey = t.pubkey /\ u.is_hidden = hidden
       /\ u.superseded_by = s /\ u.status = names.status /\ u.priority = names.priority
       /\ u.state = names.state /\ u.active_claimants = active /\ u.comment_count = comments
       /\ u.pledged = backed /\ u.paid = paid
  BY <1>14 DEF Row
<1> QED BY <1>1, <1>2, <1>3, <1>4, <1>5, <1>6, <1>8, <1>9, <1>12, <1>13, <1>15

LEMMA BoardFields ==
    ASSUME NEW live, NEW b, NEW now_, NEW order,
           NEW r, r = Roles(live, b, now_, order), NEW T, T = TasksOf(live, r, b),
           NEW view, view = BoardFrom(live, b, now_, order)
    PROVE  /\ view.stewards = r.stewards /\ view.trusted = r.trusted
           /\ view.tasks = {Task(live, T, r, b, now_, t, order) : t \in T}
<1>1. PICK tasks : tasks = {Task(live, T, r, b, now_, t, order) : t \in T}
  OBVIOUS
<1>2. PICK relations : relations = KeyRelations(live, b, order)
  OBVIOUS
<1>3. view = View(r, relations, tasks)
  BY <1>1, <1>2, Zenon DEF BoardFrom, View
<1> QED BY <1>1, <1>3 DEF View

LEMMA ClaimEnds ==
    ASSUME NEW c \in Events, NEW lifetime \in Nat
    PROVE  ExpirationOf(c, lifetime) <= c.created_at + lifetime
<1> PICK signed \in Nat : signed = c.created_at
  BY EventsAssumption
<1> PICK asked \in Nat : asked = c.expiration
  BY EventsAssumption
<1> QED BY DEF ExpirationOf, Lesser

\* resolve_claims: a claim lapses a lifetime after it was signed at the latest,
\* so that in every view of every client each claimant of a task signed a claim
\* on it less than a lifetime before.
THEOREM ClaimsDoLapse == Spec => []ClaimsLapse
<1>1. BoardInv => ClaimsLapse
  <2> SUFFICES ASSUME BoardInv, NEW t \in board.tasks, NEW p \in t.active_claimants
               PROVE  \E c \in Range(log) : /\ c.kind = "claim" /\ c.pubkey = p
                                            /\ c.issue = t.id
                                            /\ c.created_at + ClaimLifetime > viewed_at
    BY DEF ClaimsLapse
  <2>1. PICK live : live = LiveEvents(Range(log))
    OBVIOUS
  <2>2. PICK r : r = Roles(live, Board, viewed_at, log)
    OBVIOUS
  <2>3. PICK T : T = TasksOf(live, r, Board)
    OBVIOUS
  <2>4. board = BoardFrom(live, Board, viewed_at, log)
    BY <2>1 DEF BoardInv, BoardOf
  <2>5. PICK i \in T : t = Task(live, T, r, Board, viewed_at, i, log)
    <3>1. board.tasks = {Task(live, T, r, Board, viewed_at, j, log) : j \in T}
      BY <2>2, <2>3, <2>4, BoardFields
    <3> QED BY <3>1
  <2>6. t.id = i.id /\ t.active_claimants = ActiveClaimants(live, Board, i, viewed_at, log)
    BY <2>5, TaskFields
  <2>7. PICK claims : claims = ByKey(ClaimEvents(live, Board, i), p)
    OBVIOUS
  <2>8. claims \in SUBSET live /\ live \in SUBSET Range(log) /\ log \in Seq(Events)
    BY <2>1, <2>7, LivesOn DEF ByKey, ClaimEvents, BoardInv
  <2>9. PICK c : c = Pick(log, claims)
    OBVIOUS
  <2>10. IsActiveClaim(c, viewed_at)
    BY <2>6, <2>7, <2>9 DEF ActiveClaimants
  <2>11. c \in claims
    BY <2>8, <2>9, <2>10, PickIs DEF HoldsNewest, IsNewestIn, IsActiveClaim
  <2>12. c \in Events /\ c \in Range(log)
    BY <2>8, <2>11, InRange
  <2>13. ExpirationOf(c, ClaimLifetime) > viewed_at /\ viewed_at \in Nat
    BY <2>10 DEF IsActiveClaim, BoardInv
  <2>14. ExpirationOf(c, ClaimLifetime) \in Nat
    <3> PICK signed \in Nat : signed = c.created_at
      BY <2>12, EventsAssumption
    <3> PICK asked \in Nat : asked = c.expiration
      BY <2>12, EventsAssumption
    <3> QED BY StateAssumption DEF ExpirationOf, Lesser
  <2>15. c.created_at + ClaimLifetime > viewed_at
    <3>1. ExpirationOf(c, ClaimLifetime) <= c.created_at + ClaimLifetime
      BY <2>12, ClaimEnds, StateAssumption
    <3>2. c.created_at + ClaimLifetime \in Nat
      BY <2>12, EventsAssumption, StateAssumption
    <3> QED BY <2>13, <2>14, <3>1, <3>2
  <2> QED BY <2>6, <2>7, <2>11, <2>12, <2>15 DEF ByKey, ClaimEvents
<1> QED BY <1>1, BoardInvHolds, PTL DEF Spec

(***************************************************************************)
(* Who may change what the board shows.                                    *)
(***************************************************************************)
LEMMA GraphFields ==
    ASSUME NEW stewards, NEW vouch_sets, NEW block_sets, NEW established, NEW earned,
           NEW r, r = BuildTrustGraph(stewards, vouch_sets, block_sets, established, earned)
    PROVE  /\ r.stewards = stewards /\ r.established = established
           /\ r.step1 \subseteq r.trusted
<1> PICK blocked : blocked = UNION {GetVouched(block_sets[s]) : s \in stewards} \ stewards
  OBVIOUS
<1> PICK eligible : eligible = Pubkeys \ (stewards \cup blocked)
  OBVIOUS
<1> PICK step1 :
        step1 = eligible \cap UNION {GetVouched(vouch_sets[s]) \cup earned[s] : s \in stewards}
  OBVIOUS
<1> PICK step2 :
        step2 = { k \in eligible \ step1 :
                    \/ Cardinality({v \in step1 : k \in GetVouched(vouch_sets[v]) \cup earned[v]})
                           >= VOUCHES_FOR_SECOND_STEP
                    \/ /\ {v \in step1 : k \in GetVouched(vouch_sets[v]) \cup earned[v]} # {}
                       /\ k \in established }
  OBVIOUS
<1>1. r = [stewards |-> stewards, step1 |-> step1, trusted |-> step1 \cup step2,
           blocked |-> blocked, established |-> established]
  BY Zenon DEF BuildTrustGraph
<1> QED BY <1>1

\* f and g give every key but x the same.
AgreeBut(x, f, g) == \A p \in Pubkeys : p # x => f[p] = g[p]

\* What follows of the roles r_ that follow r on an event of x.
MovesLittle(x, r, r_) ==
    /\ r_.stewards = r.stewards
    /\ x \notin r.trusted => r_ = r
    /\ r_.trusted = r.trusted => r_ = r

\* A key outside the steps that vouch moves nothing but its own follow sets.
LEMMA SameGraph ==
    ASSUME NEW stewards \in SUBSET Pubkeys, NEW established, NEW earned,
           NEW x, x \notin stewards,
           NEW vouches, NEW vouches_, NEW blocks, NEW blocks_,
           AgreeBut(x, vouches, vouches_), AgreeBut(x, blocks, blocks_)
    PROVE  MovesLittle(x, BuildTrustGraph(stewards, vouches, blocks, established, earned),
                          BuildTrustGraph(stewards, vouches_, blocks_, established, earned))
<1>0. PICK r, r_ :
         /\ r = BuildTrustGraph(stewards, vouches, blocks, established, earned)
         /\ r_ = BuildTrustGraph(stewards, vouches_, blocks_, established, earned)
  OBVIOUS
<1>1. PICK blocked : blocked = UNION {GetVouched(blocks[s]) : s \in stewards} \ stewards
  OBVIOUS
<1>2. PICK eligible : eligible = Pubkeys \ (stewards \cup blocked)
  OBVIOUS
<1>3. PICK step1 :
        step1 = eligible \cap UNION {GetVouched(vouches[s]) \cup earned[s] : s \in stewards}
  OBVIOUS
<1>4. \A s \in stewards : vouches[s] = vouches_[s] /\ blocks[s] = blocks_[s]
  BY DEF AgreeBut
<1>5. blocked = UNION {GetVouched(blocks_[s]) : s \in stewards} \ stewards
  BY <1>1, <1>4
<1>6. step1 = eligible \cap UNION {GetVouched(vouches_[s]) \cup earned[s] : s \in stewards}
  BY <1>3, <1>4
<1> DEFINE by(vs, k) == {v \in step1 : k \in GetVouched(vs[v]) \cup earned[v]}
           step2(vs) == { k \in eligible \ step1 :
                           \/ Cardinality(by(vs, k)) >= VOUCHES_FOR_SECOND_STEP
                           \/ by(vs, k) # {} /\ k \in established }
           graph(step2_) == [stewards |-> stewards, step1 |-> step1, trusted |-> step1 \cup step2_,
                             blocked |-> blocked, established |-> established]
<1>7. r = graph(step2(vouches))
  BY <1>0, <1>1, <1>2, <1>3, Zenon DEF BuildTrustGraph
<1>8. r_ = graph(step2(vouches_))
  BY <1>0, <1>2, <1>5, <1>6, Zenon DEF BuildTrustGraph
<1>9. ASSUME x \notin step1 PROVE step2(vouches) = step2(vouches_)
  <2>1. \A k : by(vouches, k) = by(vouches_, k)
    <3>1. \A v \in step1 : vouches[v] = vouches_[v]
      BY <1>2, <1>3, <1>9 DEF AgreeBut
    <3> QED BY <3>1
  <2> HIDE DEF by
  <2> QED BY <2>1
<1>10. PICK A : A = step2(vouches)
  OBVIOUS
<1>11. PICK B : B = step2(vouches_)
  OBVIOUS
<1>12. x \notin step1 => A = B
  BY <1>9, <1>10, <1>11
<1>13. r = graph(A) /\ r_ = graph(B)
  BY <1>7, <1>8, <1>10, <1>11
<1>14. A \cap step1 = {} /\ B \cap step1 = {}
  BY <1>10, <1>11
<1> HIDE DEF step2
<1>15. step1 \cup A = step1 \cup B => A = B
  BY <1>14
<1>16. r.trusted = step1 \cup A /\ r_.trusted = step1 \cup B
  BY <1>13
<1>17. r.stewards = r_.stewards
  BY <1>13
<1> QED BY <1>0, <1>12, <1>13, <1>15, <1>16, <1>17 DEF MovesLittle

Maintainers(announcement) == IF announcement = NoEvent THEN {} ELSE announcement.keys

LEMMA StewardsAre ==
    ASSUME NEW order \in Seq(Events), NEW b, NEW now_
    PROVE  BoardOf(order, b, now_).stewards =
               {Owner[b]} \cup Maintainers(Newest(AnnouncementsOf(Range(order), b)))
<1>0. PICK view : view = BoardOf(order, b, now_)
  OBVIOUS
<1>1. PICK live : live = LiveEvents(Range(order))
  OBVIOUS
<1>2. AnnouncementsOf(live, b) = AnnouncementsOf(Range(order), b)
  BY <1>1 DEF AnnouncementsOf, LiveEvents
<1>3. PICK r : r = Roles(live, b, now_, order)
  OBVIOUS
<1>4. view.stewards = r.stewards
  BY <1>0, <1>1, <1>3, BoardFields DEF BoardOf
<1>5. PICK stewards : stewards = StewardsFrom(live, b, order)
  OBVIOUS
<1>6. PICK vouches : vouches = FollowSets(live, "vouch_set", order)
  OBVIOUS
<1>7. PICK blocks : blocks = FollowSets(live, "block_set", order)
  OBVIOUS
<1>8. PICK established :
         established = SelectEstablished(NewestAttestations(live, stewards, order), stewards, now_)
  OBVIOUS
<1>9. PICK earned :
         earned = SelectEarnedVouches(NewestVerdicts(live, stewards, order), stewards)
  OBVIOUS
<1>10. r = BuildTrustGraph(stewards, vouches, blocks, established, earned)
  BY <1>3, <1>5, <1>6, <1>7, <1>8, <1>9, Zenon DEF Roles
<1>11. r.stewards = stewards
  BY <1>10, GraphFields
<1>12. PICK announcements_ : announcements_ = AnnouncementsOf(Range(order), b)
  OBVIOUS
<1>13. Pick(order, announcements_) = Newest(announcements_)
  <2>1. announcements_ \in SUBSET Range(order)
    BY <1>12 DEF AnnouncementsOf
  <2> QED BY <2>1, PickIs
<1>14. stewards = {Owner[b]} \cup Maintainers(Newest(announcements_))
  BY <1>2, <1>5, <1>12, <1>13 DEF StewardsFrom, Maintainers
<1> QED BY <1>0, <1>4, <1>11, <1>12, <1>14

\* What one step of the client is: it has one more event, or looks again, or
\* only the clock moves.
LEMMA Step ==
    ASSUME BoardInv, [Next]_vars
    PROVE  \/ UNCHANGED <<log, board>>
           \/ UNCHANGED log /\ board' = BoardOf(log, Board, now)
           \/ \E e \in Events : /\ e \notin Range(log) /\ log' = Append(log, e)
                                /\ Range(log') = Range(log) \cup {e}
                                /\ Arrived = {e}
                                /\ board' = BoardOf(log', Board, now)
<1>1. ASSUME NEW e \in Events, Receive(e), e \notin Range(log)
      PROVE  /\ log' = Append(log, e) /\ Range(log') = Range(log) \cup {e}
             /\ Arrived = {e} /\ board' = BoardOf(log', Board, now)
  <2>1. log' = Append(log, e) /\ board' = BoardOf(log', Board, now)
    BY <1>1 DEF Receive
  <2>2. Range(log') = Range(log) \cup {e}
    BY <2>1, AppendRange DEF BoardInv
  <2> QED BY <1>1, <2>1, <2>2 DEF Arrived
<1>2. ASSUME NEW e \in Events, Receive(e), e \in Range(log)
      PROVE  UNCHANGED log /\ board' = BoardOf(log, Board, now)
  BY <1>2 DEF Receive
<1> QED BY <1>1, <1>2 DEF Next, Tick, vars

\* select_stewards and build_task_board_state: whatever a client receives, the
\* keys it takes for the board's stewards change with nothing but an
\* announcement signed by the owner.
THEOREM StewardsFollowAnnouncements == Spec => OnlyAnnouncementsMoveStewards
<1>1. ASSUME BoardInv, [Next]_vars, board'.stewards # board.stewards
      PROVE  \E e \in Arrived : e.kind = "announcement" /\ e.pubkey = Owner[Board]
  <2> PICK before : before = AnnouncementsOf(Range(log), Board)
    OBVIOUS
  <2> PICK view : view = board'
    OBVIOUS
  <2> PICK order : order = log'
    OBVIOUS
  <2>1. board.stewards = {Owner[Board]} \cup Maintainers(Newest(before))
    BY <1>1, StewardsAre DEF BoardInv
  <2>2. CASE UNCHANGED log /\ board' = BoardOf(log, Board, now)
    <3>1. view = BoardOf(log, Board, now) /\ log \in Seq(Events)
      BY <1>1, <2>2 DEF BoardInv
    <3>2. view.stewards = {Owner[Board]} \cup Maintainers(Newest(before))
      BY <3>1, StewardsAre
    <3> QED BY <1>1, <2>1, <3>2
  <2>3. ASSUME NEW e \in Events, log' = Append(log, e), Range(log') = Range(log) \cup {e},
               Arrived = {e}, board' = BoardOf(log', Board, now)
        PROVE  e.kind = "announcement" /\ e.pubkey = Owner[Board]
    <3>1. order \in Seq(Events) /\ Range(order) = Range(log) \cup {e}
          /\ view = BoardOf(order, Board, now)
      BY <1>1, <2>3 DEF BoardInv
    <3>2. view.stewards =
              {Owner[Board]} \cup Maintainers(Newest(AnnouncementsOf(Range(order), Board)))
      BY <3>1, StewardsAre
    <3>3. ASSUME ~ (e.kind = "announcement" /\ e.pubkey = Owner[Board])
          PROVE  AnnouncementsOf(Range(order), Board) = before
      BY <3>1, <3>3 DEF AnnouncementsOf
    <3> QED BY <1>1, <2>1, <3>2, <3>3
  <2> QED BY <1>1, <2>2, <2>3, Step
<1> QED BY <1>1, BoardInvHolds, PTL DEF Spec, OnlyAnnouncementsMoveStewards

(***************************************************************************)
(* A stranger's event: one more by a key that is no steward.               *)
(***************************************************************************)
\* The events of live and of live_ differ only in those that x signed.
DifferBy(x, live, live_) == \A f : f.pubkey # x => (f \in live <=> f \in live_)

LEMMA Elsewhere ==
    ASSUME NEW S, NEW e
    PROVE  DifferBy(e.pubkey, LiveEvents(S), LiveEvents(S \cup {e}))
BY DEF DifferBy, LiveEvents

\* What decides a task that x did not sign, x being no steward.
LEMMA SameVoices ==
    ASSUME NEW x, NEW live, NEW live_, DifferBy(x, live, live_),
           NEW r, x \notin r.stewards, NEW t, t.pubkey # x
    PROVE  /\ StatusEvents(live, r, t) = StatusEvents(live_, r, t)
           /\ \A k : LabelEvents(live, r, t, k) = LabelEvents(live_, r, t, k)
           /\ \A b : Superseders(r, TasksOf(live, r, b), t) =
                    Superseders(r, TasksOf(live_, r, b), t)
           /\ \A b : t \in TasksOf(live, r, b) => t \in TasksOf(live_, r, b)
           /\ x \notin r.trusted => CommentEvents(live, r, t) = CommentEvents(live_, r, t)
<1>1. StatusEvents(live, r, t) = StatusEvents(live_, r, t)
  BY DEF StatusEvents, DifferBy
<1>2. \A k : LabelEvents(live, r, t, k) = LabelEvents(live_, r, t, k)
  BY DEF LabelEvents, DifferBy
<1>3. \A b : \A s : s.pubkey # x => (s \in TasksOf(live, r, b) <=> s \in TasksOf(live_, r, b))
  BY DEF TasksOf, DifferBy
<1>4. \A b : Superseders(r, TasksOf(live, r, b), t) = Superseders(r, TasksOf(live_, r, b), t)
  BY <1>3 DEF Superseders
<1>5. x \notin r.trusted => CommentEvents(live, r, t) = CommentEvents(live_, r, t)
  BY DEF CommentEvents, DifferBy
<1> QED BY <1>1, <1>2, <1>3, <1>4, <1>5

\* What the trust is derived from, x being no steward.
LEMMA SameVerdicts ==
    ASSUME NEW x, NEW live, NEW live_, DifferBy(x, live, live_), NEW stewards, x \notin stewards
    PROVE  /\ \A k : Attestations(live, stewards, k) = Attestations(live_, stewards, k)
           /\ \A p, i : Verdicts(live, stewards, p, i) = Verdicts(live_, stewards, p, i)
<1>1. \A k : Attestations(live, stewards, k) = Attestations(live_, stewards, k)
  BY DEF Attestations, DifferBy
<1>2. \A p, i : Verdicts(live, stewards, p, i) = Verdicts(live_, stewards, p, i)
  BY DEF Verdicts, DifferBy
<1> QED BY <1>1, <1>2

\* A steward's verdicts, each the newest on its pledge.
ChosenVerdicts(live, stewards) ==
    {Newest(Verdicts(live, stewards, v.target, v.issue)) :
        v \in {e \in live : e.kind = "pledge_attestation" /\ e.pubkey \in stewards}}

LEMMA SameChosen ==
    ASSUME NEW x, NEW live, NEW live_, DifferBy(x, live, live_), NEW stewards, x \notin stewards
    PROVE  ChosenVerdicts(live, stewards) = ChosenVerdicts(live_, stewards)
<1> DEFINE A == {e \in live : e.kind = "pledge_attestation" /\ e.pubkey \in stewards}
           B == {e \in live_ : e.kind = "pledge_attestation" /\ e.pubkey \in stewards}
<1>1. A = B
  BY DEF DifferBy
<1> HIDE DEF A, B
<1>2. \A v : Newest(Verdicts(live, stewards, v.target, v.issue)) =
             Newest(Verdicts(live_, stewards, v.target, v.issue))
  BY SameVerdicts
<1>3. {Newest(Verdicts(live, stewards, v.target, v.issue)) : v \in A} =
      {Newest(Verdicts(live_, stewards, v.target, v.issue)) : v \in B}
  BY <1>1, <1>2
<1> QED BY <1>3 DEF A, B, ChosenVerdicts

LEMMA NewestVerdictsAre ==
    ASSUME NEW order \in Seq(Events), NEW live \in SUBSET Range(order), NEW stewards
    PROVE  NewestVerdicts(live, stewards, order) = ChosenVerdicts(live, stewards)
<1> DEFINE all == {e \in live : e.kind = "pledge_attestation"}
           theirs == {e \in live : e.kind = "pledge_attestation" /\ e.pubkey \in stewards}
           newest(e) == Newest(Verdicts(live, stewards, e.target, e.issue))
<1>1. \A p, i : /\ Verdicts(live, stewards, p, i) \in SUBSET live
                /\ Verdicts(live, stewards, p, i) \in SUBSET Range(order)
  BY DEF Verdicts
<1>2. \A e : Pick(order, Verdicts(live, stewards, e.target, e.issue)) = newest(e)
  BY <1>1, PickIs
<1>3. NewestVerdicts(live, stewards, order) = {newest(e) : e \in all} \ {NoEvent}
  BY <1>2 DEF NewestVerdicts
<1>4. ASSUME NEW e \in all, newest(e) # NoEvent
      PROVE  \E v \in theirs : newest(v) = newest(e)
  <2>1. PICK v : v = newest(e)
    OBVIOUS
  <2>2. PICK V : V = Verdicts(live, stewards, e.target, e.issue)
    OBVIOUS
  <2>3. HoldsNewest(Newest(V), V) /\ v = Newest(V)
    BY <1>1, <2>1, <2>2, PickIs
  <2>4. v \in V
    BY <1>4, <2>1, <2>3 DEF HoldsNewest, IsNewestIn
  <2>5. v \in theirs /\ v.target = e.target /\ v.issue = e.issue
    BY <2>2, <2>4 DEF Verdicts
  <2> QED BY <2>5
<1>5. ASSUME NEW v \in theirs PROVE v \in all /\ newest(v) # NoEvent
  <2>1. PICK V : V = Verdicts(live, stewards, v.target, v.issue)
    OBVIOUS
  <2>2. v \in V
    BY <2>1 DEF Verdicts
  <2>3. HoldsNewest(Newest(V), V)
    BY <1>1, <2>1, PickIs
  <2>4. Newest(V) \in V
    BY <2>2, <2>3 DEF HoldsNewest, IsNewestIn
  <2>5. Newest(V) \in Events
    <3>1. V \in SUBSET Events
      BY <1>1, <2>1, InRange
    <3> QED BY <2>4, <3>1
  <2> QED BY <2>1, <2>5, EventsAssumption
<1> HIDE DEF newest
<1>6. {newest(e) : e \in all} \ {NoEvent} = {newest(v) : v \in theirs}
  BY <1>4, <1>5
<1> QED BY <1>3, <1>6 DEF newest, ChosenVerdicts

LEMMA NewestAttestationsAre ==
    ASSUME NEW order \in Seq(Events), NEW live \in SUBSET Range(order), NEW stewards
    PROVE  NewestAttestations(live, stewards, order) =
               {Newest(Attestations(live, stewards, k)) : k \in Pubkeys} \ {NoEvent}
<1>1. \A k : Attestations(live, stewards, k) \in SUBSET Range(order)
  BY DEF Attestations
<1> QED BY <1>1, PickIs DEF NewestAttestations

LEMMA FollowSetsAre ==
    ASSUME NEW order \in Seq(Events), NEW live \in SUBSET Range(order), NEW kind
    PROVE  FollowSets(live, kind, order) = SelectTrustSets(live, kind)
<1>1. \A p : {e \in live : e.kind = kind /\ e.pubkey = p} \in SUBSET Range(order)
  OBVIOUS
<1> QED BY <1>1, PickIs DEF FollowSets, SelectTrustSets

LEMMA SameStewards ==
    ASSUME NEW order \in Seq(Events), NEW order_ \in Seq(Events), NEW x,
           NEW live \in SUBSET Range(order), NEW live_ \in SUBSET Range(order_),
           DifferBy(x, live, live_), NEW b \in Boards,
           x \notin StewardsFrom(live, b, order)
    PROVE  /\ StewardsFrom(live_, b, order_) = StewardsFrom(live, b, order)
           /\ StewardsFrom(live, b, order) \in SUBSET Pubkeys
<1>1. PICK A : A = AnnouncementsOf(live, b)
  OBVIOUS
<1>2. A \in SUBSET Range(order) /\ A \in SUBSET live
  BY <1>1 DEF AnnouncementsOf
<1>3. Pick(order, A) = Newest(A) /\ HoldsNewest(Newest(A), A)
  BY <1>2, PickIs
<1>4. PICK n : n = Newest(A)
  OBVIOUS
<1>5. StewardsFrom(live, b, order) = {Owner[b]} \cup (IF n = NoEvent THEN {} ELSE n.keys)
  BY <1>1, <1>3, <1>4 DEF StewardsFrom
<1>6. AnnouncementsOf(live_, b) = A
  <2>1. x # Owner[b]
    BY <1>5
  <2> QED BY <1>1, <2>1 DEF AnnouncementsOf, DifferBy
<1>7. Pick(order_, A) = n
  <2>1. A \in SUBSET Range(order_)
    BY <1>6 DEF AnnouncementsOf
  <2> QED BY <1>4, <2>1, PickIs
<1>8. n = NoEvent \/ n \in Events
  <2>1. A = {} \/ n \in A
    BY <1>3, <1>4 DEF HoldsNewest, IsNewestIn
  <2>2. A \in SUBSET Events
    BY <1>2, InRange
  <2> QED BY <1>3, <1>4, <2>1, <2>2 DEF HoldsNewest
<1>9. StewardsFrom(live_, b, order_) = {Owner[b]} \cup (IF n = NoEvent THEN {} ELSE n.keys)
  BY <1>6, <1>7 DEF StewardsFrom
<1>10. n = NoEvent \/ n.keys \subseteq Pubkeys
  BY <1>8, EventsAssumption
<1> QED BY <1>5, <1>9, <1>10, BoardsAssumption

LEMMA StrangersRoles ==
    ASSUME NEW order \in Seq(Events), NEW order_ \in Seq(Events), NEW x,
           NEW live \in SUBSET Range(order), NEW live_ \in SUBSET Range(order_),
           DifferBy(x, live, live_), NEW b \in Boards, NEW now_,
           x \notin Roles(live, b, now_, order).stewards
    PROVE  MovesLittle(x, Roles(live, b, now_, order), Roles(live_, b, now_, order_))
<1>0. PICK r, r_ : r = Roles(live, b, now_, order) /\ r_ = Roles(live_, b, now_, order_)
  OBVIOUS
<1>1. PICK stewards : stewards = StewardsFrom(live, b, order)
  OBVIOUS
<1>2. PICK vouches : vouches = FollowSets(live, "vouch_set", order)
  OBVIOUS
<1>3. PICK blocks : blocks = FollowSets(live, "block_set", order)
  OBVIOUS
<1>4. PICK vouches_ : vouches_ = FollowSets(live_, "vouch_set", order_)
  OBVIOUS
<1>5. PICK blocks_ : blocks_ = FollowSets(live_, "block_set", order_)
  OBVIOUS
<1>6. PICK established :
         established = SelectEstablished(NewestAttestations(live, stewards, order), stewards, now_)
  OBVIOUS
<1>7. PICK earned :
         earned = SelectEarnedVouches(NewestVerdicts(live, stewards, order), stewards)
  OBVIOUS
<1>8. r = BuildTrustGraph(stewards, vouches, blocks, established, earned)
  BY <1>0, <1>1, <1>2, <1>3, <1>6, <1>7, Zenon DEF Roles
<1>9. r.stewards = stewards /\ x \notin stewards
  BY <1>0, <1>8, GraphFields
<1>10. stewards = StewardsFrom(live_, b, order_) /\ stewards \in SUBSET Pubkeys
  BY <1>1, <1>9, SameStewards
<1>11. /\ NewestAttestations(live_, stewards, order_) = NewestAttestations(live, stewards, order)
       /\ NewestVerdicts(live_, stewards, order_) = NewestVerdicts(live, stewards, order)
  <2>1. /\ \A k : Attestations(live, stewards, k) = Attestations(live_, stewards, k)
        /\ \A p, i : Verdicts(live, stewards, p, i) = Verdicts(live_, stewards, p, i)
    BY <1>9, SameVerdicts
  <2>2. ChosenVerdicts(live, stewards) = ChosenVerdicts(live_, stewards)
    BY <1>9, SameChosen
  <2>3. NewestVerdicts(live_, stewards, order_) = NewestVerdicts(live, stewards, order)
    BY <2>2, NewestVerdictsAre
  <2>4. NewestAttestations(live_, stewards, order_) = NewestAttestations(live, stewards, order)
    <3>1. NewestAttestations(live, stewards, order) =
              {Newest(Attestations(live, stewards, k)) : k \in Pubkeys} \ {NoEvent}
      BY NewestAttestationsAre, Zenon
    <3>2. NewestAttestations(live_, stewards, order_) =
              {Newest(Attestations(live_, stewards, k)) : k \in Pubkeys} \ {NoEvent}
      BY NewestAttestationsAre, Zenon
    <3>3. \A k : Newest(Attestations(live, stewards, k)) =
                 Newest(Attestations(live_, stewards, k))
      BY <2>1
    <3> QED BY <3>1, <3>2, <3>3
  <2> QED BY <2>3, <2>4
<1>12. r_ = BuildTrustGraph(stewards, vouches_, blocks_, established, earned)
  BY <1>0, <1>4, <1>5, <1>6, <1>7, <1>10, <1>11, Zenon DEF Roles
<1>13. AgreeBut(x, vouches, vouches_) /\ AgreeBut(x, blocks, blocks_)
  <2>1. ASSUME NEW kind
        PROVE  AgreeBut(x, FollowSets(live, kind, order), FollowSets(live_, kind, order_))
    <3>1. \A p : p # x => {e \in live : e.kind = kind /\ e.pubkey = p} =
                         {e \in live_ : e.kind = kind /\ e.pubkey = p}
      BY DEF DifferBy
    <3>2. /\ FollowSets(live, kind, order) = SelectTrustSets(live, kind)
          /\ FollowSets(live_, kind, order_) = SelectTrustSets(live_, kind)
      BY FollowSetsAre
    <3>3. AgreeBut(x, SelectTrustSets(live, kind), SelectTrustSets(live_, kind))
      BY <3>1 DEF AgreeBut, SelectTrustSets
    <3> QED BY <3>2, <3>3
  <2> QED BY <1>2, <1>3, <1>4, <1>5, <2>1
<1>14. r_.stewards = stewards
  BY <1>12, GraphFields
<1>15. (x \notin r.trusted => r_ = r) /\ (r_.trusted = r.trusted => r_ = r)
  <2>1. x \notin stewards /\ stewards \in SUBSET Pubkeys
    BY <1>9, <1>10
  <2>2. MovesLittle(x, BuildTrustGraph(stewards, vouches, blocks, established, earned),
                       BuildTrustGraph(stewards, vouches_, blocks_, established, earned))
    BY <1>13, <2>1, SameGraph
  <2> QED BY <1>8, <1>12, <2>2 DEF MovesLittle
<1> QED BY <1>0, <1>9, <1>14, <1>15 DEF MovesLittle

\* The last of the superseding issues is the last still.
LEMMA SameLast ==
    ASSUME NEW order \in Seq(Events), order # <<>>, NEW e \in Events,
           NEW T \in SUBSET Range(order), e \notin T
    PROVE  LastOf(Append(order, e), T) = LastOf(order, T)
<1>1. PICK order_ : order_ = Append(order, e)
  OBVIOUS
<1>2. /\ order_ \in Seq(Events) /\ Len(order_) = Len(order) + 1 /\ order_ # <<>>
      /\ \A i \in 1 .. Len(order) : order_[i] = order[i]
      /\ order_[Len(order) + 1] = e
  BY <1>1
<1>3. PICK places : places = {i \in DOMAIN order : order[i] \in T}
  OBVIOUS
<1>4. {i \in DOMAIN order_ : order_[i] \in T} = places
  <2>1. DOMAIN order = 1 .. Len(order) /\ DOMAIN order_ = 1 .. (Len(order) + 1)
    BY <1>2
  <2> QED BY <1>2, <1>3, <2>1
<1>5. /\ LastOf(order, T) = IF places = {} THEN NoEvent ELSE order[Max(places)]
      /\ LastOf(order_, T) = IF places = {} THEN NoEvent ELSE order_[Max(places)]
  BY <1>2, <1>3, <1>4 DEF LastOf, LastInOrder
<1>6. places # {} => Max(places) \in places
  <2>1. places \in SUBSET (1 .. Len(order)) /\ Len(order) \in Nat
    BY <1>3
  <2> QED BY <2>1, MaxIs
<1>7. places # {} => order_[Max(places)] = order[Max(places)]
  BY <1>2, <1>3, <1>6
<1> QED BY <1>1, <1>5, <1>7

LEMMA StrangersTask ==
    ASSUME NEW order \in Seq(Events), NEW e \in Events,
           NEW live \in SUBSET Range(order), NEW live_ \in SUBSET Range(Append(order, e)),
           DifferBy(e.pubkey, live, live_), NEW b, NEW now_,
           NEW r, e.pubkey \notin r.stewards,
           NEW T, T = TasksOf(live, r, b), NEW T_, T_ = TasksOf(live_, r, b),
           NEW i \in T, i.pubkey # e.pubkey,
           NEW t, t = Task(live, T, r, b, now_, i, order),
           NEW u, u = Task(live_, T_, r, b, now_, i, Append(order, e))
    PROVE  /\ i \in T_ /\ u.id = t.id
           /\ Decided(u) = Decided(t)
           /\ e.pubkey \notin r.trusted => u.comment_count = t.comment_count
<1>1. PICK order_ : order_ = Append(order, e)
  OBVIOUS
<1>2. order_ \in Seq(Events)
  BY <1>1
<1>3. /\ StatusEvents(live, r, i) = StatusEvents(live_, r, i)
      /\ \A k : LabelEvents(live, r, i, k) = LabelEvents(live_, r, i, k)
      /\ Superseders(r, T, i) = Superseders(r, T_, i)
      /\ i \in T_
      /\ e.pubkey \notin r.trusted => CommentEvents(live, r, i) = CommentEvents(live_, r, i)
  BY SameVoices
<1>4. ASSUME NEW X, X \in SUBSET live, X \in SUBSET live_
      PROVE  Pick(order, X) = Pick(order_, X)
  <2>1. X \in SUBSET Range(order) /\ X \in SUBSET Range(order_)
    BY <1>1, <1>4
  <2> QED BY <1>2, <2>1, PickIs
<1>5. Pick(order, StatusEvents(live, r, i)) = Pick(order_, StatusEvents(live_, r, i))
  <2>1. /\ StatusEvents(live, r, i) \in SUBSET live
        /\ StatusEvents(live_, r, i) \in SUBSET live_
    BY DEF StatusEvents
  <2> QED BY <1>3, <1>4, <2>1
<1>6. \A k : Pick(order, LabelEvents(live, r, i, k)) = Pick(order_, LabelEvents(live_, r, i, k))
  <2>1. \A k : /\ LabelEvents(live, r, i, k) \in SUBSET live
               /\ LabelEvents(live_, r, i, k) \in SUBSET live_
    BY DEF LabelEvents
  <2> QED BY <1>3, <1>4, <2>1
<1>7. LastOf(order_, Superseders(r, T_, i)) = LastOf(order, Superseders(r, T, i))
  <2>1. PICK S : S = Superseders(r, T, i)
    OBVIOUS
  <2>2. S \in SUBSET Range(order) /\ i \in Range(order)
    BY <2>1, TasksLive DEF Superseders
  <2>3. e \notin S
    BY <2>1 DEF Superseders
  <2>4. order # <<>>
    BY <2>2, EmptyLog
  <2>5. LastOf(Append(order, e), S) = LastOf(order, S)
    BY <2>2, <2>3, <2>4, SameLast
  <2> QED BY <1>1, <1>3, <2>1, <2>5
<1>8. /\ t.id = i.id /\ t.is_hidden = IsHidden(r, i)
      /\ t.superseded_by = LastOf(order, Superseders(r, T, i))
      /\ t.status = StatusIn(Pick(order, StatusEvents(live, r, i)))
      /\ t.priority = ValueIn(Pick(order, LabelEvents(live, r, i, "priority_label")))
      /\ t.state = ValueIn(Pick(order, LabelEvents(live, r, i, "state_label")))
      /\ t.comment_count = Cardinality(CommentEvents(live, r, i))
  BY TaskFields
<1>9. /\ u.id = i.id /\ u.is_hidden = IsHidden(r, i)
      /\ u.superseded_by = LastOf(order_, Superseders(r, T_, i))
      /\ u.status = StatusIn(Pick(order_, StatusEvents(live_, r, i)))
      /\ u.priority = ValueIn(Pick(order_, LabelEvents(live_, r, i, "priority_label")))
      /\ u.state = ValueIn(Pick(order_, LabelEvents(live_, r, i, "state_label")))
      /\ u.comment_count = Cardinality(CommentEvents(live_, r, i))
  BY <1>1, TaskFields
<1>10. Decided(u) = Decided(t)
  BY <1>5, <1>6, <1>7, <1>8, <1>9 DEF Decided
<1> QED BY <1>3, <1>8, <1>9, <1>10

LEMMA StrangersBoard ==
    ASSUME NEW order \in Seq(Events), NEW e \in Events, NEW b \in Boards, NEW now_,
           NEW view, view = BoardOf(order, b, now_), e.pubkey \notin view.stewards,
           NEW view_, view_ = BoardOf(Append(order, e), b, now_)
    PROVE  /\ view_.stewards = view.stewards
           /\ e.pubkey \notin view.trusted => view_.trusted = view.trusted
           /\ view_.trusted = view.trusted =>
                \A t \in view.tasks :
                  t.pubkey # e.pubkey =>
                    \E u \in view_.tasks :
                       /\ u.id = t.id
                       /\ Decided(u) = Decided(t)
                       /\ e.pubkey \notin view.trusted => u.comment_count = t.comment_count
<1>1. PICK order_ \in Seq(Events) : order_ = Append(order, e)
  BY AppendRange
<1>2. PICK live : live = LiveEvents(Range(order))
  OBVIOUS
<1>3. PICK live_ : live_ = LiveEvents(Range(order_))
  OBVIOUS
<1>4. live \in SUBSET Range(order) /\ live_ \in SUBSET Range(order_)
  BY <1>2, <1>3, LivesOn
<1>5. DifferBy(e.pubkey, live, live_)
  <2>1. Range(order_) = Range(order) \cup {e}
    BY <1>1, AppendRange
  <2> QED BY <1>2, <1>3, <2>1, Elsewhere
<1>6. PICK r : r = Roles(live, b, now_, order)
  OBVIOUS
<1>7. PICK r_ : r_ = Roles(live_, b, now_, order_)
  OBVIOUS
<1>8. PICK T : T = TasksOf(live, r, b)
  OBVIOUS
<1>9. PICK T_ : T_ = TasksOf(live_, r_, b)
  OBVIOUS
<1>10. /\ view.stewards = r.stewards /\ view.trusted = r.trusted
       /\ view.tasks = {Task(live, T, r, b, now_, i, order) : i \in T}
  <2>1. view = BoardFrom(live, b, now_, order)
    BY <1>2 DEF BoardOf
  <2> QED BY <1>6, <1>8, <2>1, BoardFields
<1>11. /\ view_.stewards = r_.stewards /\ view_.trusted = r_.trusted
       /\ view_.tasks = {Task(live_, T_, r_, b, now_, i, order_) : i \in T_}
  <2>1. view_ = BoardFrom(live_, b, now_, order_)
    BY <1>1, <1>3 DEF BoardOf
  <2> QED BY <1>7, <1>9, <2>1, BoardFields
<1>12. PICK x : x = e.pubkey
  OBVIOUS
<1>13. MovesLittle(x, r, r_)
  <2>1. DifferBy(x, live, live_) /\ x \notin Roles(live, b, now_, order).stewards
    BY <1>5, <1>6, <1>10, <1>12
  <2>2. MovesLittle(x, Roles(live, b, now_, order), Roles(live_, b, now_, order_))
    BY <1>4, <2>1, StrangersRoles
  <2> QED BY <1>6, <1>7, <2>2
<1>14. ASSUME view_.trusted = view.trusted, NEW t \in view.tasks, t.pubkey # e.pubkey
       PROVE  \E u \in view_.tasks :
                 /\ u.id = t.id
                 /\ Decided(u) = Decided(t)
                 /\ e.pubkey \notin view.trusted => u.comment_count = t.comment_count
  <2>1. r_ = r
    BY <1>10, <1>11, <1>13, <1>14 DEF MovesLittle
  <2>2. PICK i \in T : t = Task(live, T, r, b, now_, i, order)
    BY <1>10
  <2>3. i.pubkey # e.pubkey
    <3>1. t.pubkey = i.pubkey
      BY <2>2, TaskFields
    <3> QED BY <1>14, <3>1
  <2>4. PICK u : u = Task(live_, T_, r, b, now_, i, order_)
    OBVIOUS
  <2>5. T_ = TasksOf(live_, r, b) /\ e.pubkey \notin r.stewards
    BY <1>9, <1>10, <2>1
  <2>6. /\ i \in T_ /\ u.id = t.id /\ Decided(u) = Decided(t)
        /\ e.pubkey \notin r.trusted => u.comment_count = t.comment_count
    <3>1. live_ \in SUBSET Range(Append(order, e))
      BY <1>1, <1>4
    <3>2. u = Task(live_, T_, r, b, now_, i, Append(order, e))
      BY <1>1, <2>4
    <3> QED BY <1>4, <1>5, <1>8, <2>2, <2>3, <2>5, <3>1, <3>2, StrangersTask
  <2>7. u \in view_.tasks
    BY <1>11, <2>1, <2>4, <2>6
  <2> QED BY <1>10, <2>6, <2>7
<1> QED BY <1>10, <1>11, <1>12, <1>13, <1>14 DEF MovesLittle

\* build_task_board_state over any list of events: an event of a key that is no
\* steward, whatever its kind, moves no steward and decides nothing about
\* another author's task unless it moves the trust, which it can do only if its
\* key is trusted.
THEOREM StrangersDoMoveNothing == Spec => StrangersMoveNothing
<1>1. ASSUME BoardInv, [Next]_vars, NEW e \in Arrived,
             viewed_at = now, e.pubkey \notin board.stewards
      PROVE  /\ board'.stewards = board.stewards
             /\ e.pubkey \notin board.trusted => board'.trusted = board.trusted
             /\ board'.trusted = board.trusted =>
                  \A t \in board.tasks :
                    t.pubkey # e.pubkey =>
                      \E u \in TaskById(board', t.id) :
                         /\ Decided(u) = Decided(t)
                         /\ e.pubkey \notin board.trusted =>
                               u.comment_count = t.comment_count
  <2>1. /\ e \in Events /\ log' = Append(log, e) /\ board' = BoardOf(log', Board, now)
    <3>1. CASE UNCHANGED log
      BY <1>1, <3>1 DEF Arrived
    <3>2. CASE \E f \in Events : /\ f \notin Range(log) /\ log' = Append(log, f)
                                 /\ Range(log') = Range(log) \cup {f}
                                 /\ Arrived = {f}
                                 /\ board' = BoardOf(log', Board, now)
      BY <1>1, <3>2
    <3> QED BY <1>1, <3>1, <3>2, Step
  <2> PICK view_ : view_ = board'
    OBVIOUS
  <2> PICK order : order = log
    OBVIOUS
  <2>2. /\ order \in Seq(Events) /\ Board \in Boards
        /\ board = BoardOf(order, Board, now)
        /\ view_ = BoardOf(Append(order, e), Board, now)
    BY <1>1, <2>1, ClientAssumption DEF BoardInv
  <2>3. /\ view_.stewards = board.stewards
        /\ e.pubkey \notin board.trusted => view_.trusted = board.trusted
        /\ view_.trusted = board.trusted =>
             \A t \in board.tasks :
               t.pubkey # e.pubkey =>
                 \E u \in view_.tasks :
                    /\ u.id = t.id
                    /\ Decided(u) = Decided(t)
                    /\ e.pubkey \notin board.trusted => u.comment_count = t.comment_count
    BY <1>1, <2>1, <2>2, StrangersBoard
  <2> QED BY <2>3 DEF TaskById
<1>2. BoardInv /\ [Next]_vars =>
        [ \A e \in Arrived :
            viewed_at = now /\ e.pubkey \notin board.stewards =>
               /\ board'.stewards = board.stewards
               /\ e.pubkey \notin board.trusted => board'.trusted = board.trusted
               /\ board'.trusted = board.trusted =>
                    \A t \in board.tasks :
                      t.pubkey # e.pubkey =>
                        \E u \in TaskById(board', t.id) :
                           /\ Decided(u) = Decided(t)
                           /\ e.pubkey \notin board.trusted =>
                                 u.comment_count = t.comment_count ]_vars
  BY <1>1
<1> QED BY <1>2, BoardInvHolds, PTL DEF Spec, StrangersMoveNothing

(***************************************************************************)
(* Sums over finite sets, by the size of the set.                          *)
(***************************************************************************)
LEMMA ByRemoval ==
    ASSUME NEW S, IsFiniteSet(S), NEW G, {} \in G,
           \A s \in SUBSET S : s # {} /\ (\A x \in s : s \ {x} \in G) => s \in G
    PROVE  SUBSET S \subseteq G
<1>1. PICK n \in Nat : n = Cardinality(S)
  BY FS_CardinalityType
<1>2. PICK sizes : sizes = {i \in 0 .. n : \A s \in SUBSET S : Cardinality(s) = i => s \in G}
  OBVIOUS
<1>3. \A s \in SUBSET S : IsFiniteSet(s) /\ Cardinality(s) \in 0 .. n
  BY <1>1, FS_Subset, FS_CardinalityType
<1>4. 0 \in sizes
  BY <1>2, <1>3, FS_EmptySet
<1>5. ASSUME NEW i \in 0 .. n, i + 1 \in 0 .. n, i \in sizes PROVE i + 1 \in sizes
  <2>1. ASSUME NEW s \in SUBSET S, Cardinality(s) = i + 1 PROVE s \in G
    <3>1. s # {}
      <4>1. Cardinality({}) = 0 /\ i + 1 # 0
        BY FS_EmptySet
      <4> QED BY <2>1, <4>1
    <3>2. ASSUME NEW x \in s PROVE s \ {x} \in G
      <4>1. s \ {x} \in SUBSET S /\ IsFiniteSet(s)
        BY <1>3
      <4>2. Cardinality(s \ {x}) = i
        <5>1. Cardinality(s \ {x}) = Cardinality(s) - 1
          BY <4>1, FS_RemoveElement
        <5> QED BY <2>1, <5>1
      <4> QED BY <1>2, <1>5, <4>1, <4>2
    <3> QED BY <3>1, <3>2
  <2> QED BY <1>2, <1>5, <2>1
<1>6. 0 .. n \subseteq sizes
  BY <1>4, <1>5, UpTo
<1> QED BY <1>2, <1>3, <1>6

\* The event a sum takes next.
Next_(s) == CHOOSE x \in s : TRUE

Summed(g, S) ==
    g = [s \in SUBSET S |-> IF s = {} THEN 0 ELSE Next_(s).amount + g[s \ {Next_(s)}]]

Sums(S) == CHOOSE g : Summed(g, S)

LEMMA TotalIs == ASSUME NEW S PROVE Total(S) = Sums(S)[S]
BY Zenon DEF Total, MapThenSumSet, MapThenFoldSet, Summed, Sums, Next_

\* g sums every subset of S of at most i elements.
SumsUpTo(g, S, i) ==
    \A s \in SUBSET S :
        Cardinality(s) <= i =>
            g[s] = IF s = {} THEN 0 ELSE Next_(s).amount + g[s \ {Next_(s)}]

LEMMA SumsExist ==
    ASSUME NEW S, IsFiniteSet(S)
    PROVE  \A s \in SUBSET S :
              Sums(S)[s] = IF s = {} THEN 0 ELSE Next_(s).amount + Sums(S)[s \ {Next_(s)}]
<1> DEFINE Right(g, s) == g[s] = IF s = {} THEN 0 ELSE Next_(s).amount + g[s \ {Next_(s)}]
<1>1. PICK n \in Nat : n = Cardinality(S)
  BY FS_CardinalityType
<1>2. PICK sizes : sizes = {i \in 0 .. n : \E g : SumsUpTo(g, S, i)}
  OBVIOUS
<1>3. \A s \in SUBSET S : IsFiniteSet(s) /\ Cardinality(s) \in 0 .. n
  BY <1>1, FS_Subset, FS_CardinalityType
<1>4. \A s \in SUBSET S : s # {} =>
         /\ s \ {Next_(s)} \in SUBSET S
         /\ Cardinality(s \ {Next_(s)}) = Cardinality(s) - 1
  <2>1. ASSUME NEW s \in SUBSET S, s # {}
        PROVE  Cardinality(s \ {Next_(s)}) = Cardinality(s) - 1
    <3>1. Next_(s) \in s
      BY <2>1 DEF Next_
    <3> QED BY <1>3, <3>1, FS_RemoveElement
  <2> QED BY <2>1
<1>5. 0 \in sizes
  <2>1. PICK g : g = [s \in SUBSET S |-> 0]
    OBVIOUS
  <2>2. \A s \in SUBSET S : Cardinality(s) <= 0 => Right(g, s)
    <3>1. \A s \in SUBSET S : Cardinality(s) <= 0 => s = {}
      BY <1>3, FS_EmptySet
    <3> QED BY <2>1, <3>1
  <2>3. SumsUpTo(g, S, 0)
    BY <2>2 DEF SumsUpTo
  <2> QED BY <1>2, <2>3
<1>6. ASSUME NEW i \in 0 .. n, i + 1 \in 0 .. n, i \in sizes PROVE i + 1 \in sizes
  <2>0. PICK g : SumsUpTo(g, S, i)
    BY <1>2, <1>6
  <2>1. \A s \in SUBSET S : Cardinality(s) <= i => Right(g, s)
    BY <2>0 DEF SumsUpTo
  <2>2. PICK h : h = [s \in SUBSET S |->
                        IF Cardinality(s) = i + 1 THEN Next_(s).amount + g[s \ {Next_(s)}]
                        ELSE g[s]]
    OBVIOUS
  <2>3. ASSUME NEW s \in SUBSET S, Cardinality(s) <= i + 1 PROVE Right(h, s)
    <3>1. CASE s = {}
      <4>1. Cardinality(s) = 0
        BY <3>1, FS_EmptySet
      <4>2. h[s] = g[s] /\ Right(g, s)
        BY <2>1, <2>2, <4>1
      <4> QED BY <3>1, <4>2
    <3>2. CASE s # {}
      <4>1. PICK t \in SUBSET S : t = s \ {Next_(s)} /\ Cardinality(t) = Cardinality(s) - 1
        BY <1>4, <3>2
      <4>2. Cardinality(s) \in Nat
        BY <1>3
      <4>3. h[t] = g[t]
        BY <2>2, <2>3, <4>1, <4>2
      <4>4. CASE Cardinality(s) = i + 1
        BY <2>2, <3>2, <4>1, <4>3, <4>4
      <4>5. CASE Cardinality(s) <= i
        <5>1. h[s] = g[s] /\ Right(g, s)
          BY <2>1, <2>2, <4>2, <4>5
        <5> QED BY <3>2, <4>1, <4>3, <5>1
      <4> QED BY <2>3, <4>2, <4>4, <4>5
    <3> QED BY <3>1, <3>2
  <2>4. SumsUpTo(h, S, i + 1)
    BY <2>3 DEF SumsUpTo
  <2> QED BY <1>2, <1>6, <2>4
<1>7. n \in sizes
  <2>1. 0 .. n \subseteq sizes
    BY <1>5, <1>6, UpTo
  <2> QED BY <2>1
<1>8. PICK g : \A s \in SUBSET S : Right(g, s)
  <2>1. PICK g : SumsUpTo(g, S, n)
    BY <1>2, <1>7
  <2>2. \A s \in SUBSET S : Cardinality(s) <= n
    BY <1>3
  <2> QED BY <2>1, <2>2 DEF SumsUpTo
<1>9. PICK h : h = [s \in SUBSET S |-> g[s]]
  OBVIOUS
<1>10. Summed(h, S)
  <2>1. \A s \in SUBSET S :
           h[s] = IF s = {} THEN 0 ELSE Next_(s).amount + h[s \ {Next_(s)}]
    BY <1>4, <1>8, <1>9
  <2>2. h = [s \in SUBSET S |-> h[s]]
    BY <1>9
  <2> QED BY <2>1, <2>2 DEF Summed
<1>11. Summed(Sums(S), S)
  BY <1>10 DEF Sums
<1> QED BY <1>11 DEF Summed

LEMMA SumsAreNumbers ==
    ASSUME NEW S, IsFiniteSet(S), \A x \in S : x.amount \in Nat
    PROVE  \A s \in SUBSET S : Sums(S)[s] \in Nat
<1>1. PICK g : g = Sums(S)
  OBVIOUS
<1>2. \A s \in SUBSET S : g[s] = IF s = {} THEN 0 ELSE Next_(s).amount + g[s \ {Next_(s)}]
  BY <1>1, SumsExist
<1>3. PICK G : G = {s \in SUBSET S : g[s] \in Nat}
  OBVIOUS
<1>4. {} \in G
  <2>1. {} \in SUBSET S /\ g[{}] = 0
    BY <1>2
  <2> QED BY <1>3, <2>1
<1>5. ASSUME NEW s \in SUBSET S, s # {}, \A x \in s : s \ {x} \in G PROVE s \in G
  <2>1. PICK c \in s : c = Next_(s)
    BY <1>5 DEF Next_
  <2>2. g[s] = c.amount + g[s \ {c}] /\ g[s \ {c}] \in Nat /\ c.amount \in Nat
    BY <1>2, <1>3, <1>5, <2>1
  <2> QED BY <1>3, <2>2
<1>6. SUBSET S \subseteq G
  BY <1>4, <1>5, ByRemoval
<1> QED BY <1>1, <1>3, <1>6

LEMMA SumsTake ==
    ASSUME NEW S, IsFiniteSet(S), \A x \in S : x.amount \in Nat
    PROVE  \A s \in SUBSET S : \A x \in s : Sums(S)[s] = x.amount + Sums(S)[s \ {x}]
<1>1. PICK g : g = Sums(S)
  OBVIOUS
<1>2. \A s \in SUBSET S : g[s] = IF s = {} THEN 0 ELSE Next_(s).amount + g[s \ {Next_(s)}]
  BY <1>1, SumsExist
<1>3. PICK G : G = {s \in SUBSET S : \A x \in s : g[s] = x.amount + g[s \ {x}]}
  OBVIOUS
<1>0. \A s \in SUBSET S : g[s] \in Nat
  BY <1>1, SumsAreNumbers
<1>4. {} \in G
  <2>1. {} \in SUBSET S /\ g[{}] = 0
    BY <1>2
  <2> QED BY <1>3, <2>1
<1>5. ASSUME NEW s \in SUBSET S, s # {}, \A x \in s : s \ {x} \in G PROVE s \in G
  <2>1. PICK c \in s : c = Next_(s)
    BY <1>5 DEF Next_
  <2>2. g[s] = c.amount + g[s \ {c}] /\ c.amount \in Nat
    BY <1>2, <1>5, <2>1
  <2>3. ASSUME NEW x \in s, x # c PROVE g[s] = x.amount + g[s \ {x}]
    <3>1. PICK rest : rest = (s \ {x}) \ {c}
      OBVIOUS
    <3>2. rest = (s \ {c}) \ {x}
      BY <3>1
    <3>3. x \in s \ {c} /\ c \in s \ {x}
      BY <2>3
    <3>4. g[s \ {c}] = x.amount + g[rest] /\ g[s \ {x}] = c.amount + g[rest]
      BY <1>3, <1>5, <3>1, <3>2, <3>3
    <3>5. x.amount \in Nat /\ g[rest] \in Nat
      <4>1. rest \in SUBSET S
        BY <3>1
      <4> QED BY <1>0, <4>1
    <3> QED BY <2>2, <3>4, <3>5
  <2>4. \A x \in s : g[s] = x.amount + g[s \ {x}]
    BY <2>2, <2>3
  <2> QED BY <1>3, <2>4
<1>6. SUBSET S \subseteq G
  BY <1>4, <1>5, ByRemoval
<1> QED BY <1>0, <1>1, <1>3, <1>6

LEMMA SumsGrow ==
    ASSUME NEW S, IsFiniteSet(S), \A x \in S : x.amount \in Nat, NEW T \in SUBSET S
    PROVE  Sums(S)[T] <= Sums(S)[S]
<1>1. PICK g : g = Sums(S)
  OBVIOUS
<1>2. \A s \in SUBSET S : g[s] \in Nat /\ \A x \in s : g[s] = x.amount + g[s \ {x}]
  BY <1>1, SumsAreNumbers, SumsTake
<1>3. PICK G : G = {s \in SUBSET S : T \subseteq s => g[T] <= g[s]}
  OBVIOUS
<1>4. {} \in G
  <2>1. g[{}] \in Nat /\ (T \subseteq {} => T = {})
    BY <1>2
  <2>2. T \subseteq {} => g[T] <= g[{}]
    BY <2>1
  <2> QED BY <1>3, <2>2
<1>5. ASSUME NEW s \in SUBSET S, s # {}, \A x \in s : s \ {x} \in G PROVE s \in G
  <2>1. CASE T = s
    BY <1>2, <1>3, <2>1
  <2>2. CASE T \subseteq s /\ T # s
    <3>1. PICK x \in s : x \notin T
      BY <2>2
    <3>2. g[T] <= g[s \ {x}]
      BY <1>3, <1>5, <2>2, <3>1
    <3>3. g[s] = x.amount + g[s \ {x}] /\ x.amount \in Nat /\ g[s \ {x}] \in Nat /\ g[T] \in Nat
      BY <1>2
    <3>4. g[T] <= g[s]
      BY <3>2, <3>3
    <3> QED BY <1>3, <3>4
  <2>3. CASE ~ (T \subseteq s)
    BY <1>3, <2>3
  <2> QED BY <2>1, <2>2, <2>3
<1>6. S \in G
  BY <1>4, <1>5, ByRemoval
<1> QED BY <1>1, <1>3, <1>6

LEMMA SumsAgree ==
    ASSUME NEW S, IsFiniteSet(S), NEW T \in SUBSET S
    PROVE  Sums(T)[T] = Sums(S)[T]
<1>1. IsFiniteSet(T)
  BY FS_Subset
<1>2. PICK g : g = Sums(S)
  OBVIOUS
<1>3. PICK h : h = Sums(T)
  OBVIOUS
<1>4. \A s \in SUBSET T : h[s] = IF s = {} THEN 0 ELSE Next_(s).amount + h[s \ {Next_(s)}]
  BY <1>1, <1>3, SumsExist
<1>5. \A s \in SUBSET S : g[s] = IF s = {} THEN 0 ELSE Next_(s).amount + g[s \ {Next_(s)}]
  BY <1>2, SumsExist
<1>6. PICK G : G = {s \in SUBSET T : h[s] = g[s]}
  OBVIOUS
<1>7. {} \in G
  BY <1>4, <1>5, <1>6
<1>8. ASSUME NEW s \in SUBSET T, s # {}, \A x \in s : s \ {x} \in G PROVE s \in G
  <2>1. Next_(s) \in s
    BY <1>8 DEF Next_
  <2>2. s \in SUBSET S /\ s \ {Next_(s)} \in G
    BY <1>8, <2>1
  <2> QED BY <1>4, <1>5, <1>6, <1>8, <2>2
<1>9. T \in G
  BY <1>1, <1>7, <1>8, ByRemoval
<1> QED BY <1>2, <1>3, <1>6, <1>9

\* A sum of fewer pledges is no larger.
LEMMA TotalGrows ==
    ASSUME NEW S \in SUBSET Events, IsFiniteSet(S), NEW T \in SUBSET S
    PROVE  Total(T) <= Total(S) /\ Total(T) \in Nat /\ Total(S) \in Nat
<1>1. \A x \in S : x.amount \in Nat
  BY EventsAssumption
<1>2. Total(T) = Sums(S)[T] /\ Total(S) = Sums(S)[S]
  BY TotalIs, SumsAgree
<1> QED BY <1>1, <1>2, SumsAreNumbers, SumsGrow

(***************************************************************************)
(* What is pledged.                                                        *)
(***************************************************************************)
LEMMA StandingAre ==
    ASSUME NEW order \in Seq(Events), NEW live \in SUBSET Range(order), NEW b, NEW t, NEW p
    PROVE  p \in StandingPledges(live, b, t, order) <=>
              \E k \in Pubkeys : /\ p = Newest(ByKey(PledgeEvents(live, b, t), k))
                                 /\ p \in ByKey(PledgeEvents(live, b, t), k)
<1>1. ASSUME NEW k
      PROVE  LET P == ByKey(PledgeEvents(live, b, t), k)
             IN  /\ Pick(order, P) = Newest(P) /\ P \in SUBSET Events
                 /\ Newest(P) # NoEvent <=> Newest(P) \in P
  <2>1. PICK P : P = ByKey(PledgeEvents(live, b, t), k)
    OBVIOUS
  <2>2. P \in SUBSET Range(order)
    BY <2>1 DEF ByKey, PledgeEvents
  <2>3. P \in SUBSET Events /\ NoEvent \notin P
    BY <2>2, InRange, EventsAssumption
  <2>4. Pick(order, P) = Newest(P) /\ HoldsNewest(Newest(P), P)
    BY <2>2, PickIs
  <2>5. Newest(P) # NoEvent <=> Newest(P) \in P
    BY <2>3, <2>4 DEF HoldsNewest, IsNewestIn
  <2> QED BY <2>1, <2>3, <2>4, <2>5
<1>2. p \in StandingPledges(live, b, t, order) <=>
         \E k \in Pubkeys : /\ p = Pick(order, ByKey(PledgeEvents(live, b, t), k))
                            /\ p # NoEvent
  BY DEF StandingPledges
<1> QED BY <1>1, <1>2

LEMMA JudgedAre ==
    ASSUME NEW order \in Seq(Events), NEW live \in SUBSET Range(order), NEW r, NEW b, NEW now_,
           NEW t, NEW v
    PROVE  Judged(live, r, b, now_, t, order, v) \in SUBSET Range(order)
<1>1. StandingPledges(live, b, t, order) \in SUBSET Range(order)
  BY StandingAre DEF ByKey, PledgeEvents
<1> QED BY <1>1 DEF Judged

LEMMA FiniteLog ==
    ASSUME NEW order \in Seq(Events)
    PROVE  IsFiniteSet(Range(order))
<1>1. order \in Surjection(1 .. Len(order), Range(order))
  <2>1. order \in [1 .. Len(order) -> Range(order)]
    BY DEF Range
  <2>2. \A e \in Range(order) : \E i \in 1 .. Len(order) : order[i] = e
    BY DEF Range
  <2> QED BY <2>1, <2>2 DEF Surjection
<1>2. IsFiniteSet(1 .. Len(order))
  BY FS_Interval
<1> QED BY <1>1, <1>2, FS_Surjection

\* A pledge no verdict names yet adds to nothing that is pledged or paid.
LEMMA PledgeAddsNothing ==
    ASSUME NEW order \in Seq(Events), NEW e \in Events, e.kind = "pledge",
           NEW live, live = LiveEvents(Range(order)),
           NEW live_, live_ = LiveEvents(Range(Append(order, e))),
           NEW r, NEW r_, r_.stewards = r.stewards, NEW b, NEW i,
           NEW was \in Nat, NEW at \in Nat, was <= at, NEW v \in {"backed", "paid"},
           \A w \in Range(order) :
              w.kind = "pledge_attestation" /\ w.pubkey \in r.stewards => e.id \notin w.ids
    PROVE  Judged(live_, r_, b, at, i, Append(order, e), v) \subseteq
               Judged(live, r, b, was, i, order, v)
<1>1. PICK order_ \in Seq(Events) :
         order_ = Append(order, e) /\ Range(order_) = Range(order) \cup {e}
  BY AppendRange
<1>2. /\ live \in SUBSET Range(order) /\ live_ \in SUBSET Range(order_)
      /\ live \subseteq live_ /\ live_ \subseteq live \cup {e}
  <2>1. live \subseteq live_ /\ live_ \subseteq live \cup {e}
    BY <1>1 DEF LiveEvents
  <2> QED BY <1>1, <2>1, LivesOn
<1> SUFFICES ASSUME NEW p \in Judged(live_, r_, b, at, i, order_, v)
             PROVE  p \in Judged(live, r, b, was, i, order, v)
  BY <1>1
<1>3. PICK V : V = Verdicts(live, r.stewards, p.pubkey, i.id)
  OBVIOUS
<1>4. V = Verdicts(live_, r_.stewards, p.pubkey, i.id)
  BY <1>2, <1>3 DEF Verdicts
<1>5. /\ V \in SUBSET Range(order) /\ V \in SUBSET Range(order_)
      /\ \A w \in V : w.kind = "pledge_attestation" /\ w.pubkey \in r.stewards
  BY <1>1, <1>2, <1>3 DEF Verdicts
<1>6. PICK w : w = Newest(V)
  OBVIOUS
<1>7. Pick(order, V) = w /\ Pick(order_, V) = w /\ (w = NoEvent \/ w \in V)
  <2>1. Pick(order, V) = w /\ HoldsNewest(w, V)
    BY <1>5, <1>6, PickIs
  <2>2. Pick(order_, V) = w
    BY <1>5, <1>6, PickIs
  <2> QED BY <2>1, <2>2 DEF HoldsNewest, IsNewestIn
<1>8. p \in StandingPledges(live_, b, i, order_) /\ v = VerdictOn(p, w, at)
  BY <1>3, <1>4, <1>7 DEF Judged
<1>9. /\ w # NoEvent /\ p.id \in w.ids /\ w.value \in PledgeValues /\ w.value = v
      /\ w.value = "paid" \/ ~ (ExpirationOf(w, AttestationLifetime) <= at)
  BY <1>8 DEF VerdictOn
<1>10. w \in V /\ w \in Events /\ p # e
  BY <1>5, <1>7, <1>9, InRange
<1>11. VerdictOn(p, w, was) = v
  <2>1. ExpirationOf(w, AttestationLifetime) \in Nat
    <3> PICK signed \in Nat : signed = w.created_at
      BY <1>10, EventsAssumption
    <3> PICK asked \in Nat : asked = w.expiration
      BY <1>10, EventsAssumption
    <3> QED BY BoardsAssumption DEF ExpirationOf, Lesser
  <2>2. ~ (ExpirationOf(w, AttestationLifetime) <= at) =>
           ~ (ExpirationOf(w, AttestationLifetime) <= was)
    BY <2>1
  <2> QED BY <1>9, <2>2 DEF VerdictOn
<1>12. p \in StandingPledges(live, b, i, order)
  <2>1. PICK k \in Pubkeys : /\ p = Newest(ByKey(PledgeEvents(live_, b, i), k))
                             /\ p \in ByKey(PledgeEvents(live_, b, i), k)
    BY <1>2, <1>8, StandingAre
  <2>2. PICK P_ : P_ = ByKey(PledgeEvents(live_, b, i), k)
    OBVIOUS
  <2>3. PICK P : P = ByKey(PledgeEvents(live, b, i), k)
    OBVIOUS
  <2>4. P \subseteq P_ /\ p \in P
    BY <1>2, <1>10, <2>1, <2>2, <2>3 DEF ByKey, PledgeEvents
  <2>5. HoldsNewest(p, P_)
    <3>1. P_ \in SUBSET Range(order_)
      BY <1>2, <2>2 DEF ByKey, PledgeEvents
    <3> QED BY <2>1, <2>2, <3>1, PickIs
  <2>6. HoldsNewest(p, P)
    BY <2>4, <2>5 DEF HoldsNewest, IsNewestIn
  <2>7. P \in SUBSET Events
    BY <1>2, <2>3, InRange DEF ByKey, PledgeEvents
  <2>8. p = Newest(P)
    BY <2>6, <2>7, HoldsNewestIsNewest
  <2> QED BY <1>2, <2>3, <2>4, <2>8, StandingAre
<1> QED BY <1>3, <1>7, <1>11, <1>12 DEF Judged

LEMMA PledgedNoMore ==
    ASSUME NEW order \in Seq(Events), NEW e \in Events, e.kind = "pledge",
           NEW live, live = LiveEvents(Range(order)),
           NEW live_, live_ = LiveEvents(Range(Append(order, e))),
           NEW r, NEW r_, r_.stewards = r.stewards, NEW b, NEW i,
           NEW was \in Nat, NEW at \in Nat, was <= at, NEW v \in {"backed", "paid"},
           \A w \in Range(order) :
              w.kind = "pledge_attestation" /\ w.pubkey \in r.stewards => e.id \notin w.ids
    PROVE  /\ Total(Judged(live_, r_, b, at, i, Append(order, e), v)) \in Nat
           /\ Total(Judged(live, r, b, was, i, order, v)) \in Nat
           /\ Total(Judged(live_, r_, b, at, i, Append(order, e), v)) <=
                  Total(Judged(live, r, b, was, i, order, v))
<1>1. PICK S : S = Judged(live, r, b, was, i, order, v)
  OBVIOUS
<1>2. PICK T : T = Judged(live_, r_, b, at, i, Append(order, e), v)
  OBVIOUS
<1>3. T \subseteq S
  BY <1>1, <1>2, PledgeAddsNothing
<1>4. S \in SUBSET Range(order)
  BY <1>1, LivesOn, JudgedAre
<1>5. S \in SUBSET Events /\ IsFiniteSet(S)
  BY <1>4, InRange, FiniteLog, FS_Subset
<1> QED BY <1>1, <1>2, <1>3, <1>5, TotalGrows

LEMMA PledgesBoard ==
    ASSUME NEW order \in Seq(Events), NEW e \in Events, e.kind = "pledge", NEW b,
           NEW was \in Nat, NEW at \in Nat, was <= at,
           NEW view, view = BoardOf(order, b, was),
           NEW view_, view_ = BoardOf(Append(order, e), b, at),
           \A w \in Range(order) :
              w.kind = "pledge_attestation" /\ w.pubkey \in view.stewards => e.id \notin w.ids,
           NEW t \in view.tasks, NEW u \in view_.tasks, t.id = u.id
    PROVE  ~ (u.pledged + u.paid > t.pledged + t.paid)
<1>1. PICK order_ \in Seq(Events) :
         order_ = Append(order, e) /\ Range(order_) = Range(order) \cup {e}
  BY AppendRange
<1>2. PICK live : live = LiveEvents(Range(order))
  OBVIOUS
<1>3. PICK live_ : live_ = LiveEvents(Range(order_))
  OBVIOUS
<1>4. PICK r : r = Roles(live, b, was, order)
  OBVIOUS
<1>5. PICK r_ : r_ = Roles(live_, b, at, order_)
  OBVIOUS
<1>6. PICK T : T = TasksOf(live, r, b)
  OBVIOUS
<1>7. PICK T_ : T_ = TasksOf(live_, r_, b)
  OBVIOUS
<1>8. /\ view.stewards = r.stewards
      /\ view.tasks = {Task(live, T, r, b, was, j, order) : j \in T}
  <2>1. view = BoardFrom(live, b, was, order)
    BY <1>2 DEF BoardOf
  <2> QED BY <1>4, <1>6, <2>1, BoardFields
<1>9. /\ view_.stewards = r_.stewards
      /\ view_.tasks = {Task(live_, T_, r_, b, at, j, order_) : j \in T_}
  <2>1. view_ = BoardFrom(live_, b, at, order_)
    BY <1>1, <1>3 DEF BoardOf
  <2> QED BY <1>5, <1>7, <2>1, BoardFields
<1>10. r_.stewards = r.stewards
  <2>1. AnnouncementsOf(Range(order_), b) = AnnouncementsOf(Range(order), b)
    BY <1>1 DEF AnnouncementsOf
  <2>2. view_ = BoardOf(order_, b, at)
    BY <1>1
  <2>3. view.stewards =
            {Owner[b]} \cup Maintainers(Newest(AnnouncementsOf(Range(order), b)))
    BY StewardsAre
  <2>4. view_.stewards =
            {Owner[b]} \cup Maintainers(Newest(AnnouncementsOf(Range(order_), b)))
    BY <2>2, StewardsAre
  <2> QED BY <1>8, <1>9, <2>1, <2>3, <2>4
<1>11. PICK i \in T : t = Task(live, T, r, b, was, i, order)
  BY <1>8
<1>12. PICK j \in T_ : u = Task(live_, T_, r_, b, at, j, order_)
  BY <1>9
<1>13. /\ t.id = i.id
       /\ t.pledged = Total(Judged(live, r, b, was, i, order, "backed"))
       /\ t.paid = Total(Judged(live, r, b, was, i, order, "paid"))
  BY <1>11, TaskFields
<1>14. /\ u.id = j.id
       /\ u.pledged = Total(Judged(live_, r_, b, at, j, order_, "backed"))
       /\ u.paid = Total(Judged(live_, r_, b, at, j, order_, "paid"))
  BY <1>12, TaskFields
<1>15. i = j
  <2>1. i \in live /\ j \in live_
    BY <1>6, <1>7, TasksLive
  <2>2. i \in Events /\ j \in Events
    BY <1>2, <1>3, <2>1, LivesOn, InRange
  <2> QED BY <1>13, <1>14, <2>2, EventsAssumption
<1>16. ASSUME NEW v \in {"backed", "paid"}
       PROVE  /\ Total(Judged(live_, r_, b, at, i, order_, v)) \in Nat
              /\ Total(Judged(live, r, b, was, i, order, v)) \in Nat
              /\ Total(Judged(live_, r_, b, at, i, order_, v)) <=
                     Total(Judged(live, r, b, was, i, order, v))
  <2>1. \A w \in Range(order) :
           w.kind = "pledge_attestation" /\ w.pubkey \in r.stewards => e.id \notin w.ids
    BY <1>8
  <2>2. live_ = LiveEvents(Range(Append(order, e)))
    BY <1>1, <1>3
  <2>3. /\ Total(Judged(live_, r_, b, at, i, Append(order, e), v)) \in Nat
        /\ Total(Judged(live, r, b, was, i, order, v)) \in Nat
        /\ Total(Judged(live_, r_, b, at, i, Append(order, e), v)) <=
               Total(Judged(live, r, b, was, i, order, v))
    BY <1>2, <1>10, <2>1, <2>2, PledgedNoMore
  <2> QED BY <1>1, <2>3
<1>17. /\ u.pledged \in Nat /\ u.paid \in Nat /\ t.pledged \in Nat /\ t.paid \in Nat
       /\ u.pledged <= t.pledged /\ u.paid <= t.paid
  BY <1>13, <1>14, <1>15, <1>16
<1> QED BY <1>17

\* resolve_pledges: however large, a pledge adds nothing to what its task shows
\* as pledged or paid before a steward's verdict on that very event is held,
\* whatever verdict stands on the pledge it replaces.
THEOREM PledgesDoWait == Spec => PledgesWaitForTheirVerdict
<1>1. ASSUME BoardInv, [Next]_vars, NEW e \in Arrived, e.kind = "pledge",
             NEW t \in board.tasks, NEW u \in board'.tasks, t.id = u.id,
             u.pledged + u.paid > t.pledged + t.paid
      PROVE  \E v \in Range(log) : /\ v.kind = "pledge_attestation"
                                   /\ v.pubkey \in board.stewards
                                   /\ e.id \in v.ids
  <2>1. e \in Events /\ log' = Append(log, e) /\ board' = BoardOf(log', Board, now)
    <3>1. CASE UNCHANGED log
      BY <1>1, <3>1 DEF Arrived
    <3>2. CASE \E f \in Events : /\ f \notin Range(log) /\ log' = Append(log, f)
                                 /\ Range(log') = Range(log) \cup {f}
                                 /\ Arrived = {f}
                                 /\ board' = BoardOf(log', Board, now)
      BY <1>1, <3>2
    <3> QED BY <1>1, <3>1, <3>2, Step
  <2>2. PICK view_ : view_ = board'
    OBVIOUS
  <2>3. /\ log \in Seq(Events) /\ viewed_at \in Nat /\ now \in Nat /\ viewed_at <= now
        /\ board = BoardOf(log, Board, viewed_at)
        /\ view_ = BoardOf(Append(log, e), Board, now)
        /\ u \in view_.tasks
    BY <1>1, <2>1, <2>2 DEF BoardInv
  <2>4. (\A w \in Range(log) :
            w.kind = "pledge_attestation" /\ w.pubkey \in board.stewards => e.id \notin w.ids)
        => ~ (u.pledged + u.paid > t.pledged + t.paid)
    BY <1>1, <2>1, <2>3, PledgesBoard
  <2> QED BY <1>1, <2>4
<1>2. BoardInv /\ [Next]_vars =>
        [ \A e \in Arrived :
            e.kind = "pledge" =>
               \A t \in board.tasks, u \in board'.tasks :
                  t.id = u.id /\ u.pledged + u.paid > t.pledged + t.paid =>
                     \E v \in Range(log) : /\ v.kind = "pledge_attestation"
                                           /\ v.pubkey \in board.stewards
                                           /\ e.id \in v.ids ]_vars
  BY <1>1
<1> QED BY <1>2, BoardInvHolds, PTL DEF Spec, PledgesWaitForTheirVerdict
=============================================================================
