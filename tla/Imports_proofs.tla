--------------------------- MODULE Imports_proofs ----------------------------
EXTENDS PostImports, DelegatorImport, UptimeRollups,
        FiniteSetTheorems, TLAPS

LEMMA NatLeast ==
    ASSUME NEW S, S \subseteq Nat, S # {}
    PROVE  \E x \in S : \A y \in S : x <= y
<1> DEFINE less == {ss \in Nat \X Nat : ss[1] < ss[2]}
<1>1. IsWellFoundedOn(less, Nat)
  BY NatLessThanWellFounded, Zenon DEF OpToRel
<1> HIDE DEF less
<1>2. PICK x \in S : \A y \in S : <<y, x>> \notin less
  BY <1>1, WFMin, Zenon
<1>3. ASSUME NEW y \in S PROVE x <= y
  <2>1. x \in Nat /\ y \in Nat
    OBVIOUS
  <2>2. y < x => <<y, x>> \in less
    BY <2>1 DEF less
  <2>3. ~ (y < x)
    BY <1>2, <2>2
  <2> QED BY <2>1, <2>3
<1> QED BY <1>2, <1>3

LEMMA BoundedGreatest ==
    ASSUME NEW S, NEW n \in Int, S \subseteq 0 .. n, S # {}
    PROVE  \E x \in S : \A y \in S : y <= x
<1> DEFINE T == {n - x : x \in S}
<1>1. T \subseteq Nat
  <2> SUFFICES ASSUME NEW x \in S PROVE n - x \in Nat
    OBVIOUS
  <2>1. x \in 0 .. n
    OBVIOUS
  <2> QED BY <2>1
<1>2. T # {}
  OBVIOUS
<1>3. PICK k \in T : \A l \in T : k <= l
  BY <1>1, <1>2, NatLeast
<1>4. PICK x \in S : k = n - x
  BY <1>3
<1>5. ASSUME NEW y \in S PROVE y <= x
  <2>1. n - y \in T
    OBVIOUS
  <2>2. k <= n - y
    BY <1>3, <2>1
  <2>3. y \in Int /\ x \in Int
    OBVIOUS
  <2> QED BY <1>4, <2>2, <2>3
<1> QED BY <1>5

-----------------------------------------------------------------------------
(***************************************************************************)
(* Imports of posts.  What a run has still to come by is below the message *)
(* it asks for pages before; a page is the newest messages up to some top, *)
(* so nothing is lost between two pages.                                   *)
(***************************************************************************)
Importing(r, m) ==
    /\ importers[r].step # "idle"
    /\ importers[r].last < m
    /\ m < importers[r].before

PostsTypeOK ==
    /\ sent \in Nat
    /\ posts \subseteq 1 .. sent
    /\ foreign \subseteq posts
    /\ importers \in [Importers -> [step : {"idle", "fetch", "save"}, last : 0 .. Newest,
                                    before : 0 .. sent + 1, page : SUBSET (1 .. sent)]]
    /\ \A r \in Importers : importers[r].step # "idle" => importers[r].before >= 1

PageOf(page, top) == page = {m \in 1 .. top : top - m < PageSize}

PagesAreRuns ==
    \A r \in Importers :
        importers[r].step = "save" =>
            \E top \in 1 .. sent : importers[r].before <= top + 1 /\ PageOf(importers[r].page, top)

Accounted(m) == m \in posts \cup passed \/ \E r \in Importers : Importing(r, m)

\* Up to what its importer stored, and up to what a run is to stop at, which may
\* have come with a user.
NothingIsLost ==
    /\ \A m \in 1 .. Reached : Accounted(m)
    /\ \A r \in Importers :
          importers[r].step # "idle" => \A m \in 1 .. importers[r].last : Accounted(m)

PostsInv == PostsTypeOK /\ PagesAreRuns /\ NothingIsLost

LEMMA NewestIsGreatest ==
    ASSUME NEW n \in Nat, NEW S \in SUBSET (1 .. n)
    PROVE  /\ Max(S \cup {0}) \in S \cup {0}
           /\ Max(S \cup {0}) \in 0 .. n
           /\ \A m \in S : m <= Max(S \cup {0})
<1> DEFINE T == S \cup {0}
<1>1. T \subseteq 0 .. n /\ T # {} /\ n \in Int
  OBVIOUS
<1> HIDE DEF T
<1>2. \E x \in T : \A y \in T : y <= x
  BY <1>1, BoundedGreatest
<1>3. \E x \in T : \A y \in T : x >= y
  BY <1>1, <1>2
<1>4. Max(T) \in T /\ \A y \in T : Max(T) >= y
  <2> DEFINE g == CHOOSE x \in T : \A y \in T : x >= y
  <2>1. g \in T /\ \A y \in T : g >= y
    BY <1>3, Zenon
  <2>2. Max(T) = g
    BY Zenon DEF Max
  <2> QED BY <2>1, <2>2
<1>5. \A y \in T : y <= Max(T)
  BY <1>1, <1>4
<1> QED BY <1>1, <1>4, <1>5 DEF T

LEMMA PageHasLeast ==
    ASSUME NEW n \in Nat, NEW S \in SUBSET (1 .. n), S # {}
    PROVE  Min(S) \in S /\ \A m \in S : Min(S) <= m
<1>1. S \subseteq Nat
  OBVIOUS
<1>2. \E x \in S : \A y \in S : x <= y
  BY <1>1, NatLeast, Zenon
<1> DEFINE l == CHOOSE x \in S : \A y \in S : x <= y
<1>3. l \in S /\ \A y \in S : l <= y
  BY <1>2, Zenon
<1>4. Min(S) = l
  BY Zenon DEF Min
<1> QED BY <1>3, <1>4

\* The page asked for is the newest messages up to a top, all there are below
\* the cursor if there is one.
LEMMA PageIsRun ==
    ASSUME PostsTypeOK, NEW r \in Importers, importers[r].step = "fetch"
    PROVE  \E top \in 0 .. sent : /\ importers[r].before <= top + 1
                                  /\ PageOf(Page(r), top)
<1> DEFINE top == IF importers[r].page = {} THEN sent ELSE importers[r].before - 1
<1>1. /\ sent \in Nat /\ importers[r].before \in 1 .. sent + 1
      /\ PageSize \in Nat \ {0}
  BY PostsAssumption DEF PostsTypeOK
<1>2. top \in 0 .. sent /\ importers[r].before <= top + 1
  BY <1>1
<1>3. Older(r) = 1 .. top
  BY <1>1 DEF Older
<1> HIDE DEF top
<1>4. ASSUME NEW m \in 1 .. top
      PROVE  Cardinality({n \in 1 .. top : n > m}) = top - m
  <2>1. {n \in 1 .. top : n > m} = m + 1 .. top
    BY <1>2
  <2>2. Cardinality(m + 1 .. top) = IF m + 1 > top THEN 0 ELSE top - (m + 1) + 1
    BY <1>2, FS_Interval
  <2>3. (IF m + 1 > top THEN 0 ELSE top - (m + 1) + 1) = top - m
    BY <1>1, <1>2
  <2> QED BY <2>1, <2>2, <2>3
<1>5. Page(r) = {m \in 1 .. top : top - m < PageSize}
  BY <1>3, <1>4 DEF Page
<1> QED BY <1>2, <1>5 DEF PageOf

LEMMA PostsFacts ==
    ASSUME PostsTypeOK
    PROVE  /\ sent \in Nat /\ Newest \in 0 .. sent /\ Newest \in posts \cup {0}
           /\ \A m \in posts : m <= Newest
           /\ Reached \in 0 .. sent /\ \A m \in posts \ foreign : m <= Reached
<1>1. posts \ foreign \in SUBSET (1 .. sent)
  BY DEF PostsTypeOK
<1>2. Reached \in 0 .. sent /\ \A m \in posts \ foreign : m <= Reached
  BY <1>1, NewestIsGreatest DEF PostsTypeOK, Reached
<1> QED BY <1>2, NewestIsGreatest DEF PostsTypeOK, Newest

\* What a step has to keep when it begins no run and stores nothing of its own.
LEMMA AccountedStays ==
    ASSUME PostsInv, Reached' = Reached,
           \A m \in 1 .. sent : Accounted(m) => Accounted(m)',
           \A r \in Importers : importers'[r].step # "idle" =>
              importers[r].step # "idle" /\ importers'[r].last = importers[r].last
    PROVE  NothingIsLost'
<1>1. /\ sent \in Nat /\ Reached \in 0 .. sent /\ Newest \in 0 .. sent
      /\ \A r \in Importers : importers[r].last \in 0 .. Newest
  BY PostsFacts DEF PostsInv, PostsTypeOK
<1>2. ASSUME NEW m \in 1 .. Reached PROVE Accounted(m)'
  BY <1>1 DEF PostsInv, NothingIsLost
<1>3. ASSUME NEW r \in Importers, importers'[r].step # "idle",
             NEW m \in 1 .. importers'[r].last
      PROVE  Accounted(m)'
  <2>1. importers[r].step # "idle" /\ m \in 1 .. importers[r].last
    BY <1>3
  <2>2. Accounted(m) /\ m \in 1 .. sent
    BY <1>1, <2>1 DEF PostsInv, NothingIsLost
  <2> QED BY <2>2
<1> QED BY <1>2, <1>3 DEF NothingIsLost

\* A run that is cut short has what it had still to reach put down as passed.
LEMMA CutShortStep ==
    ASSUME PostsInv, NEW r \in Importers, importers[r].step # "idle",
           CutShort(r), UNCHANGED <<sent, posts, foreign>>
    PROVE  PostsInv'
<1>1. /\ importers' = [importers EXCEPT ![r] = NotImporting]
      /\ passed' = passed \cup Unreached(r, importers[r].before)
  BY DEF CutShort, Ends
<1>2. Newest' = Newest /\ Newest \in 0 .. sent /\ Reached' = Reached
  BY PostsFacts DEF Newest, Reached, PostsInv
<1>3. PostsTypeOK'
  BY <1>1, <1>2 DEF PostsInv, PostsTypeOK, NotImporting
<1>4. PagesAreRuns'
  BY <1>1 DEF PostsInv, PostsTypeOK, PagesAreRuns, NotImporting
<1>5. ASSUME NEW m \in 1 .. sent, Accounted(m), ~ Accounted(m)'
      PROVE  FALSE
  <2>1. PICK i \in Importers : Importing(i, m)
    BY <1>1, <1>5 DEF Accounted
  <2>2. i # r
    BY <1>1, <1>5, <2>1 DEF Accounted, Importing, Unreached
  <2>3. importers'[i] = importers[i]
    BY <1>1, <2>2 DEF PostsInv, PostsTypeOK
  <2> QED BY <1>5, <2>1, <2>3 DEF Accounted, Importing
<1>6. NothingIsLost'
  <2>1. \A i \in Importers : importers'[i].step # "idle" =>
           importers[i].step # "idle" /\ importers'[i].last = importers[i].last
    BY <1>1 DEF PostsInv, PostsTypeOK, NotImporting
  <2> QED BY <1>2, <1>5, <2>1, AccountedStays
<1> QED BY <1>3, <1>4, <1>6 DEF PostsInv

LEMMA SavePageStep ==
    ASSUME PostsInv, NEW r \in Importers, SavePage(r)
    PROVE  PostsInv'
<1> DEFINE page == importers[r].page
<1>1. /\ importers[r].step = "save" /\ posts' = posts \cup page /\ UNCHANGED sent
      /\ foreign' = foreign \ page /\ foreign \subseteq posts
      /\ importers \in [Importers -> [step : {"idle", "fetch", "save"}, last : 0 .. Newest,
                                      before : 0 .. sent + 1, page : SUBSET (1 .. sent)]]
      /\ posts \subseteq 1 .. sent /\ page \subseteq 1 .. sent
  BY DEF SavePage, PostsInv, PostsTypeOK
<1>2. PICK top \in 1 .. sent : importers[r].before <= top + 1 /\ PageOf(page, top)
  BY <1>1 DEF PostsInv, PagesAreRuns
<1>3. /\ sent \in Nat /\ Newest \in 0 .. sent /\ \A m \in posts : m <= Newest
      /\ Reached \in 0 .. sent /\ \A m \in posts \ foreign : m <= Reached
      /\ importers[r].last \in 0 .. Newest
  BY <1>1, PostsFacts DEF PostsInv
<1>4. top \in page
  BY <1>2, PostsAssumption DEF PageOf
<1>5. Min(page) \in page /\ \A m \in page : Min(page) <= m
  BY <1>1, <1>3, <1>4, PageHasLeast, Zenon
\* There is nothing between the page and what the next one begins with.
<1>6. ASSUME NEW m \in 1 .. top, m \notin page
      PROVE  m < Min(page)
  BY <1>2, <1>5, <1>6, PostsAssumption DEF PageOf
<1>7. posts' \subseteq 1 .. sent /\ Newest' \in 0 .. sent /\ Newest <= Newest'
      /\ Newest' \in posts' \cup {0}
  <2>1. posts' \in SUBSET (1 .. sent)
    BY <1>1
  <2>2. Newest' \in posts' \cup {0} /\ Newest' \in 0 .. sent /\ \A m \in posts' : m <= Newest'
    BY <1>3, <2>1, NewestIsGreatest DEF Newest
  <2>3. Newest \in posts \cup {0}
    BY PostsFacts DEF PostsInv
  <2> QED BY <1>1, <1>3, <2>1, <2>2, <2>3
<1>8. \/ /\ importers' = [importers EXCEPT ![r] = NotImporting]
         /\ passed' = passed \cup Unreached(r, Min(page))
      \/ /\ importers' = [importers EXCEPT ![r] = NotImporting]
         /\ passed' = passed /\ ReachesLast(r)
      \/ /\ importers' = [importers EXCEPT ![r].step = "fetch", ![r].before = Min(page)]
         /\ passed' = passed
  BY DEF SavePage, Ends
<1> HIDE DEF page
<1>9. PostsTypeOK'
  BY <1>1, <1>3, <1>5, <1>7, <1>8 DEF PostsInv, PostsTypeOK, NotImporting
<1>10. PagesAreRuns'
  BY <1>1, <1>8 DEF PostsInv, PagesAreRuns, NotImporting
<1>11. ASSUME NEW i \in Importers, i # r PROVE importers'[i] = importers[i]
  BY <1>1, <1>8, <1>11
\* What is before the page is before the next one, passed, or older than the
\* message that r was to stop at.
<1>12. ASSUME NEW m \in 1 .. top, importers[r].last < m, ~ Accounted(m)'
       PROVE  FALSE
  <2>1. m \in 1 .. sent /\ m \notin posts' /\ m \notin passed'
    BY <1>2, <1>3, <1>12 DEF Accounted
  <2>2. m < Min(page)
    BY <1>1, <1>6, <1>12, <2>1
  <2>3. m \in Unreached(r, Min(page))
    BY <1>1, <1>12, <2>1, <2>2 DEF Unreached
  <2>4. ~ ReachesLast(r)
    BY <1>1, <1>3, <1>5, <1>12, <2>2 DEF ReachesLast, page
  <2>5. importers' = [importers EXCEPT ![r].step = "fetch", ![r].before = Min(page)]
    BY <1>8, <2>1, <2>3, <2>4
  <2>6. Importing(r, m)'
    BY <1>1, <1>12, <2>2, <2>5 DEF Importing
  <2> QED BY <1>12, <2>6 DEF Accounted
<1>13. ASSUME NEW m \in 1 .. sent, Accounted(m) PROVE Accounted(m)'
  <2>1. CASE m \in posts \cup passed
    BY <1>1, <1>8, <2>1 DEF Accounted
  <2>2. CASE Importing(r, m)
    <3>1. m \in 1 .. top /\ importers[r].last < m
      BY <1>1, <1>2, <1>3, <1>13, <2>2 DEF Importing
    <3> QED BY <1>12, <3>1
  <2>3. CASE \E i \in Importers \ {r} : Importing(i, m)
    BY <1>11, <2>3 DEF Accounted, Importing
  <2> QED BY <1>13, <2>1, <2>2, <2>3 DEF Accounted
<1>14. ASSUME NEW m \in 1 .. Reached' PROVE Accounted(m)'
  <2>1. /\ Reached' \in (posts \ foreign) \cup page \cup {0} /\ Reached' \in 0 .. sent
    <3>1. posts' \ foreign' \in SUBSET (1 .. sent)
      BY <1>1
    <3>2. /\ Reached' \in (posts' \ foreign') \cup {0} /\ Reached' \in 0 .. sent
      BY <1>3, <3>1, NewestIsGreatest DEF Reached
    <3> QED BY <1>1, <3>2
  <2>2. CASE Reached' \in posts \ foreign
    <3>1. Reached' <= Reached
      BY <1>3, <2>2
    <3>2. m \in 1 .. Reached /\ m \in 1 .. sent
      BY <1>3, <1>14, <2>1, <3>1
    <3> QED BY <1>13, <3>2 DEF PostsInv, NothingIsLost
  <2>3. CASE Reached' \in page
    <3>1. m \in 1 .. top /\ m \in 1 .. sent
      BY <1>2, <1>3, <1>14, <2>1, <2>3 DEF PageOf
    <3>2. CASE importers[r].last < m
      BY <1>12, <3>1, <3>2
    <3>3. CASE ~ (importers[r].last < m)
      <4>1. m \in 1 .. importers[r].last
        BY <1>3, <3>1, <3>3
      <4> QED BY <1>1, <1>13, <3>1, <4>1 DEF PostsInv, NothingIsLost
    <3> QED BY <3>2, <3>3
  <2> QED BY <1>14, <2>1, <2>2, <2>3
<1>15. NothingIsLost'
  <2>1. ASSUME NEW i \in Importers, importers'[i].step # "idle",
               NEW m \in 1 .. importers'[i].last
        PROVE  Accounted(m)'
    <3>1. importers[i].step # "idle" /\ importers'[i].last = importers[i].last
      BY <1>1, <1>8, <2>1 DEF NotImporting
    <3>2. importers[i].last \in 0 .. Newest
      BY <1>1
    <3>3. m \in 1 .. sent /\ Accounted(m)
      BY <1>3, <2>1, <3>1, <3>2 DEF PostsInv, NothingIsLost
    <3> QED BY <1>13, <3>3
  <2> QED BY <1>14, <2>1 DEF NothingIsLost
<1> QED BY <1>9, <1>10, <1>15 DEF PostsInv

LEMMA PostsStep == PostsInv /\ [PostsNext]_postVars => PostsInv'
<1> SUFFICES ASSUME PostsInv, [PostsNext]_postVars PROVE PostsInv'
  OBVIOUS
<1>1. /\ sent \in Nat /\ Newest \in 0 .. sent /\ foreign \subseteq posts
      /\ Reached \in 0 .. sent /\ \A m \in posts \ foreign : m <= Reached
      /\ importers \in [Importers -> [step : {"idle", "fetch", "save"}, last : 0 .. Newest,
                                      before : 0 .. sent + 1, page : SUBSET (1 .. sent)]]
  BY PostsFacts DEF PostsInv, PostsTypeOK
<1>2. posts' = posts => Newest' = Newest /\ (foreign' = foreign => Reached' = Reached)
  BY DEF Newest, Reached
<1>3. CASE UNCHANGED postVars
  BY <1>2, <1>3 DEF postVars, PostsInv, PostsTypeOK, PagesAreRuns, NothingIsLost,
                    Accounted, Importing
<1>4. CASE SendMessage
  <2>1. sent' = sent + 1 /\ UNCHANGED <<posts, foreign, importers, passed>>
    BY <1>4 DEF SendMessage
  <2>2. PostsTypeOK'
    BY <1>1, <1>2, <2>1 DEF PostsInv, PostsTypeOK
  <2>3. PagesAreRuns'
    BY <1>1, <2>1 DEF PostsInv, PagesAreRuns
  <2>4. NothingIsLost'
    BY <1>2, <2>1 DEF PostsInv, NothingIsLost, Accounted, Importing
  <2> QED BY <2>2, <2>3, <2>4 DEF PostsInv
<1>5. ASSUME NEW r \in Importers, StartImport(r) PROVE PostsInv'
  <2>1. PICK last \in {0, Newest} :
           /\ importers' = [importers EXCEPT ![r] =
                 [step |-> "fetch", last |-> last, before |-> sent + 1, page |-> {}]]
           /\ passed' = passed \cup Misled(last)
    BY <1>5 DEF StartImport, LastMessages
  <2>2. importers[r].step = "idle" /\ UNCHANGED <<sent, posts, foreign>>
    BY <1>5 DEF StartImport
  <2>3. PostsTypeOK'
    BY <1>1, <1>2, <2>1, <2>2 DEF PostsInv, PostsTypeOK
  <2>4. PagesAreRuns'
    BY <1>1, <2>1, <2>2 DEF PostsInv, PagesAreRuns
  <2>5. ASSUME NEW m \in 1 .. sent, Accounted(m) PROVE Accounted(m)'
    BY <1>1, <2>1, <2>2, <2>5 DEF Accounted, Importing
  <2>6. ASSUME NEW m \in 1 .. last PROVE Accounted(m)'
    <3>1. CASE last \in foreign
      BY <2>1, <2>2, <3>1 DEF Misled, Accounted
    <3>2. CASE last \notin foreign
      <4>1. last \in (posts \ foreign) \cup {0}
        BY <2>1, <3>2, PostsFacts DEF PostsInv
      <4>2. m \in 1 .. Reached /\ m \in 1 .. sent
        BY <1>1, <2>6, <4>1
      <4> QED BY <2>5, <4>2 DEF PostsInv, NothingIsLost
    <3> QED BY <3>1, <3>2
  <2>7. NothingIsLost'
    <3>1. ASSUME NEW m \in 1 .. Reached PROVE Accounted(m)'
      BY <1>1, <2>5 DEF PostsInv, NothingIsLost
    <3>2. ASSUME NEW i \in Importers, importers'[i].step # "idle",
                 NEW m \in 1 .. importers'[i].last
          PROVE  Accounted(m)'
      <4>1. CASE i = r
        BY <1>1, <2>1, <2>6, <3>2, <4>1
      <4>2. CASE i # r
        <5>1. importers'[i] = importers[i] /\ importers[i].last \in 0 .. Newest
          BY <1>1, <2>1, <4>2
        <5>2. m \in 1 .. sent /\ Accounted(m)
          BY <1>1, <3>2, <5>1 DEF PostsInv, NothingIsLost
        <5> QED BY <2>5, <5>2
      <4> QED BY <4>1, <4>2
    <3> QED BY <1>2, <2>2, <3>1, <3>2 DEF NothingIsLost
  <2> QED BY <2>3, <2>4, <2>7 DEF PostsInv
<1>6. ASSUME NEW r \in Importers, FetchPage(r) PROVE PostsInv'
  <2>1. importers[r].step = "fetch" /\ UNCHANGED <<sent, posts, foreign, passed>>
    BY <1>6 DEF FetchPage
  <2>2. PICK top \in 0 .. sent : importers[r].before <= top + 1 /\ PageOf(Page(r), top)
    BY <2>1, PageIsRun DEF PostsInv
  <2>3. CASE Page(r) # {}
    <3>1. importers' = [importers EXCEPT ![r].step = "save", ![r].page = Page(r)]
      BY <1>6, <2>3 DEF FetchPage
    <3>2. top \in 1 .. sent /\ Page(r) \subseteq 1 .. sent
      BY <1>1, <2>2, <2>3 DEF PageOf
    <3>3. PostsTypeOK'
      <4>1. PICK q : q = [importers[r] EXCEPT !.step = "save", !.page = Page(r)]
        OBVIOUS
      <4>2. /\ q \in [step : {"idle", "fetch", "save"}, last : 0 .. Newest,
                       before : 0 .. sent + 1, page : SUBSET (1 .. sent)]
            /\ q.before = importers[r].before
        BY <1>1, <3>2, <4>1
      <4>3. importers' = [importers EXCEPT ![r] = q]
        BY <3>1, <4>1
      <4>4. q.before >= 1
        BY <2>1, <4>2 DEF PostsInv, PostsTypeOK
      <4> QED BY <1>1, <1>2, <2>1, <4>2, <4>3, <4>4 DEF PostsInv, PostsTypeOK
    <3>4. /\ importers'[r].before = importers[r].before /\ importers'[r].page = Page(r)
          /\ \A q \in Importers \ {r} : importers'[q] = importers[q]
      BY <1>1, <3>1
    <3>5. PagesAreRuns'
      BY <2>1, <2>2, <3>2, <3>4 DEF PostsInv, PagesAreRuns
    <3>6. NothingIsLost'
      <4>1. \A m \in 1 .. sent : Accounted(m) => Accounted(m)'
        BY <1>1, <2>1, <3>1 DEF Accounted, Importing
      <4>2. \A q \in Importers : importers'[q].step # "idle" =>
               importers[q].step # "idle" /\ importers'[q].last = importers[q].last
        BY <1>1, <2>1, <3>1
      <4> QED BY <1>2, <2>1, <4>1, <4>2, AccountedStays
    <3> QED BY <3>3, <3>5, <3>6 DEF PostsInv
  <2>4. CASE Page(r) = {}
    <3>1. importers' = [importers EXCEPT ![r] = NotImporting]
      BY <1>6, <2>4 DEF FetchPage, Ends
    <3>2. importers[r].before <= 1
      <4>1. top \in 1 .. sent => top \in Page(r)
        BY <2>2, PostsAssumption DEF PageOf
      <4> QED BY <1>1, <2>2, <2>4, <4>1
    <3>3. PostsTypeOK'
      BY <1>1, <1>2, <2>1, <3>1 DEF PostsInv, PostsTypeOK, NotImporting
    <3>4. PagesAreRuns'
      BY <1>1, <2>1, <3>1 DEF PostsInv, PagesAreRuns, NotImporting
    <3>5. NothingIsLost'
      <4>1. \A m \in 1 .. sent : Accounted(m) => Accounted(m)'
        BY <1>1, <2>1, <3>1, <3>2 DEF Accounted, Importing
      <4>2. \A q \in Importers : importers'[q].step # "idle" =>
               importers[q].step # "idle" /\ importers'[q].last = importers[q].last
        BY <1>1, <3>1 DEF NotImporting
      <4> QED BY <1>2, <2>1, <4>1, <4>2, AccountedStays
    <3> QED BY <3>3, <3>4, <3>5 DEF PostsInv
  <2> QED BY <2>3, <2>4
<1>7. ASSUME NEW r \in Importers, FetchFails(r) PROVE PostsInv'
  <2>1. importers[r].step # "idle" /\ UNCHANGED <<sent, posts, foreign>>
    BY <1>7 DEF FetchFails
  <2>2. CASE AsksAgain(r)
    BY <1>2, <1>7, <2>1, <2>2
       DEF FetchFails, PostsInv, PostsTypeOK, PagesAreRuns, NothingIsLost,
           Accounted, Importing
  <2>3. CASE ~ AsksAgain(r)
    BY <1>7, <2>1, <2>3, CutShortStep DEF FetchFails
  <2> QED BY <2>2, <2>3
<1>8. ASSUME NEW r \in Importers, ImportKilled(r) PROVE PostsInv'
  BY <1>8, CutShortStep DEF ImportKilled
<1>9. CASE OtherImport
  <2>1. PICK page \in SUBSET (1 .. sent) :
           posts' = posts \cup page /\ foreign' = foreign \cup (page \ posts)
    BY <1>9 DEF OtherImport
  <2>2. UNCHANGED <<sent, importers, passed>>
    BY <1>9 DEF OtherImport
  <2>3. posts' \subseteq 1 .. sent /\ posts' \ foreign' = posts \ foreign
    BY <2>1 DEF PostsInv, PostsTypeOK
  <2>4. Newest' \in 0 .. sent /\ Newest <= Newest'
    <3>1. posts' \in SUBSET (1 .. sent)
      BY <2>3
    <3>2. Newest' \in 0 .. sent /\ \A m \in posts' : m <= Newest'
      BY <1>1, <3>1, NewestIsGreatest DEF Newest
    <3>3. Newest \in posts \cup {0}
      BY PostsFacts DEF PostsInv
    <3> QED BY <1>1, <2>1, <3>2, <3>3
  <2>5. PostsTypeOK'
    BY <1>1, <2>1, <2>2, <2>3, <2>4 DEF PostsInv, PostsTypeOK
  <2>6. PagesAreRuns'
    BY <2>2 DEF PostsInv, PagesAreRuns
  <2>7. NothingIsLost'
    <3>1. Reached' = Reached
      BY <2>3 DEF Reached
    <3>2. \A m \in 1 .. sent : Accounted(m) => Accounted(m)'
      BY <2>1, <2>2 DEF Accounted, Importing
    <3> QED BY <2>2, <3>1, <3>2, AccountedStays
  <2> QED BY <2>5, <2>6, <2>7 DEF PostsInv
<1> QED BY <1>3, <1>4, <1>5, <1>6, <1>7, <1>8, <1>9, SavePageStep DEF PostsNext

\* At every time, what is older than a message its own importer stored is stored,
\* on its way, or was passed by a run that was cut short or that stopped on a
\* user's post: for any number of overlapping runs, messages, pages and rows that
\* the other Reddit importer stores.
THEOREM NoGapStaysOpen == PostsSpec => []NoGapOpens
<1>1. PostsInit => PostsInv
  <2> SUFFICES ASSUME PostsInit PROVE PostsInv
    OBVIOUS
  <2>1. posts \in SUBSET (1 .. sent) /\ sent = 1 /\ posts = {}
    BY DEF PostsInit
  <2>2. Newest = 0 /\ Reached = 0
    <3>1. posts \ foreign \in SUBSET (1 .. sent) /\ posts \ foreign = {}
      BY <2>1
    <3> QED BY <2>1, <3>1, NewestIsGreatest DEF Newest, Reached
  <2> QED BY <2>1, <2>2
    DEF PostsInit, PostsInv, PostsTypeOK, PagesAreRuns, NothingIsLost, NotImporting
<1>2. PostsInv => NoGapOpens
  BY DEF PostsInv, NothingIsLost, NoGapOpens, Accounted, Importing, Coming
<1> QED BY <1>1, <1>2, PostsStep, PTL DEF PostsSpec

-----------------------------------------------------------------------------
(***************************************************************************)
(* The import of delegators.                                               *)
(***************************************************************************)

Before(S, x) == {y \in S : y < x}

LEMMA BeforeFacts ==
    ASSUME NEW S, S \subseteq Nat, IsFiniteSet(S), NEW x \in S
    PROVE  /\ IsFiniteSet(Before(S, x)) /\ Before(S, x) \subseteq S
           /\ Cardinality(Before(S, x)) \in 0 .. Cardinality(S) - 1
           /\ \A y \in S : y < x => /\ Before(S, y) \subseteq Before(S, x)
                                    /\ Cardinality(Before(S, y)) < Cardinality(Before(S, x))
<1>1. ASSUME NEW y \in S
      PROVE  /\ IsFiniteSet(Before(S, y)) /\ Before(S, y) \subseteq S
             /\ Cardinality(Before(S, y)) \in Nat
             /\ IsFiniteSet(Before(S, y) \cup {y})
             /\ Cardinality(Before(S, y) \cup {y}) = Cardinality(Before(S, y)) + 1
  <2>1. Before(S, y) \in SUBSET S /\ y \notin Before(S, y)
    BY DEF Before
  <2>2. IsFiniteSet(Before(S, y))
    BY <2>1, FS_Subset
  <2>3. Cardinality(Before(S, y)) \in Nat
    BY <2>2, FS_CardinalityType
  <2>4. /\ IsFiniteSet(Before(S, y) \cup {y})
        /\ Cardinality(Before(S, y) \cup {y}) = Cardinality(Before(S, y)) + 1
    BY <2>1, <2>2, FS_AddElement, Zenon
  <2> QED BY <2>1, <2>2, <2>3, <2>4
<1>2. ASSUME NEW y \in S, NEW T, IsFiniteSet(T), Before(S, y) \cup {y} \subseteq T
      PROVE  Cardinality(Before(S, y)) < Cardinality(T) /\ Cardinality(T) \in Nat
  <2>1. Cardinality(Before(S, y) \cup {y}) <= Cardinality(T)
    BY <1>2, FS_Subset
  <2>2. Cardinality(T) \in Nat
    BY <1>2, FS_CardinalityType
  <2> QED BY <1>1, <2>1, <2>2
<1>3. Cardinality(Before(S, x)) < Cardinality(S) /\ Cardinality(S) \in Nat
  BY <1>1, <1>2
<1>4. ASSUME NEW y \in S, y < x
      PROVE  Before(S, y) \cup {y} \subseteq Before(S, x)
  <2>1. ASSUME NEW z \in Before(S, y) PROVE z \in Before(S, x)
    <3>1. z \in S /\ z < y
      BY <2>1 DEF Before
    <3>2. x \in Nat /\ y \in Nat /\ z \in Nat
      BY <3>1
    <3>3. z < x
      BY <1>4, <3>1, <3>2
    <3> QED BY <3>1, <3>3 DEF Before
  <2>2. y \in Before(S, x)
    BY <1>4 DEF Before
  <2> QED BY <2>1, <2>2
<1>5. ASSUME NEW y \in S, y < x
      PROVE  /\ Before(S, y) \subseteq Before(S, x)
             /\ Cardinality(Before(S, y)) < Cardinality(Before(S, x))
  BY <1>1, <1>2, <1>4, <1>5
<1>6. Cardinality(Before(S, x)) \in 0 .. Cardinality(S) - 1
  <2>1. Cardinality(Before(S, x)) \in Nat
    BY <1>1
  <2> QED BY <1>3, <2>1
<1>7. IsFiniteSet(Before(S, x)) /\ Before(S, x) \subseteq S
  BY <1>1
<1> QED BY <1>5, <1>6, <1>7

\* As many elements precede an element of the set as one likes, up to its size.
LEMMA EveryPlaceIsTaken ==
    ASSUME NEW S, S \subseteq Nat, IsFiniteSet(S)
    PROVE  /\ Cardinality(S) \in Nat
           /\ \A i \in 1 .. Cardinality(S) : \E a \in S : Cardinality(Before(S, a)) = i - 1
<1> DEFINE n == Cardinality(S)
           rank == [x \in S |-> Cardinality(Before(S, x)) + 1]
<1>1. n \in Nat
  BY FS_CardinalityType
<1>2. ASSUME NEW x \in S
      PROVE  Cardinality(Before(S, x)) \in 0 .. n - 1
  BY BeforeFacts
<1>3. ASSUME NEW x \in S, NEW y \in S, x < y
      PROVE  Cardinality(Before(S, x)) < Cardinality(Before(S, y))
  BY <1>3, BeforeFacts
<1>4. rank \in Injection(S, 1 .. n)
  <2>1. rank \in [S -> 1 .. n]
    <3> HIDE DEF n
    <3> QED BY <1>1, <1>2
  <2>2. \A x, y \in S : rank[x] = rank[y] => x = y
    <3> SUFFICES ASSUME NEW x \in S, NEW y \in S, rank[x] = rank[y], x # y
                 PROVE  FALSE
      OBVIOUS
    <3>1. x < y \/ y < x
      OBVIOUS
    <3>2. Cardinality(Before(S, x)) = Cardinality(Before(S, y))
      <4> HIDE DEF n
      <4> QED BY <1>1, <1>2
    <3>3. Cardinality(Before(S, x)) \in Int
      BY <1>1, <1>2
    <3> QED BY <1>3, <3>1, <3>2, <3>3
  <2> HIDE DEF rank
  <2> QED BY <2>1, <2>2 DEF Injection, IsInjective
<1>5. IsFiniteSet(1 .. n) /\ Cardinality(1 .. n) = n
  BY <1>1, FS_Interval
<1>6. rank \in Surjection(S, 1 .. n)
  <2> HIDE DEF rank
  <2> QED BY <1>4, <1>5, FS_Injection
<1>7. ASSUME NEW i \in 1 .. n
      PROVE  \E a \in S : Cardinality(Before(S, a)) = i - 1
  <2>1. PICK a \in S : rank[a] = i
    <3> HIDE DEF rank
    <3> QED BY <1>6 DEF Surjection
  <2>2. Cardinality(Before(S, a)) \in Int
    BY <1>1, <1>2
  <2>3. Cardinality(Before(S, a)) = i - 1
    BY <2>1, <2>2
  <2> QED BY <2>3
<1> HIDE DEF rank
<1> QED BY <1>1, <1>7

\* The page in order is a sequence of what is on the page.
LEMMA InOrderLists ==
    ASSUME NEW S, S \subseteq Nat, IsFiniteSet(S)
    PROVE  InOrder(S) \in Seq(S)
<1>1. Cardinality(S) \in Nat
  BY FS_CardinalityType
<1>2. ASSUME NEW i \in 1 .. Cardinality(S)
      PROVE  (CHOOSE a \in S : Cardinality({b \in S : b < a}) = i - 1) \in S
  BY EveryPlaceIsTaken, Zenon DEF Before
<1>3. InOrder(S) \in [1 .. Cardinality(S) -> S]
  BY <1>2, Zenon DEF InOrder
<1> QED BY <1>1, <1>3

LEMMA FiniteGreatest ==
    ASSUME NEW S, S \subseteq Nat, IsFiniteSet(S), S # {}
    PROVE  \E x \in S : \A y \in S : y <= x
<1>1. Cardinality(S) \in Nat /\ Cardinality(S) # 0
  BY FS_CardinalityType, FS_EmptySet
<1>2. PICK x \in S : Cardinality(Before(S, x)) = Cardinality(S) - 1
  <2>1. Cardinality(S) \in 1 .. Cardinality(S)
    BY <1>1
  <2> QED BY <2>1, EveryPlaceIsTaken, Zenon
<1>3. ASSUME NEW y \in S, x < y PROVE FALSE
  <2>1. /\ Cardinality(Before(S, x)) < Cardinality(Before(S, y))
        /\ Cardinality(Before(S, y)) \in 0 .. Cardinality(S) - 1
    BY <1>3, BeforeFacts
  <2> QED BY <1>1, <1>2, <2>1
<1>4. \A y \in S : y <= x
  BY <1>2, <1>3
<1> QED BY <1>2, <1>4

\* A page is what the ledger begins with from an account on, and everything
\* there is if it is not full.
LEMMA PageFollowsLedger ==
    ASSUME NEW from, from \subseteq Nat, IsFiniteSet(from),
           NEW page, page = {a \in from : Cardinality(Before(from, a)) < batchSize}
    PROVE  /\ \A a \in from, c \in page : a < c => a \in page
           /\ Cardinality(page) # batchSize => page = from
<1>1. batchSize \in Nat /\ batchSize > 0
  BY DelegatorAssumption
<1>2. page = {a \in from : Cardinality(Before(from, a)) < batchSize}
  BY DEF Before
<1>3. ASSUME NEW x \in from
      PROVE  /\ Cardinality(Before(from, x)) \in Int /\ Cardinality(from) \in Nat
             /\ IsFiniteSet(Before(from, x))
  <2>1. Cardinality(Before(from, x)) \in 0 .. Cardinality(from) - 1 /\ IsFiniteSet(Before(from, x))
    BY BeforeFacts
  <2>2. Cardinality(from) \in Nat
    BY FS_CardinalityType
  <2> QED BY <2>1, <2>2
<1>4. ASSUME NEW a \in from, NEW c \in page, a < c PROVE a \in page
  <2>1. Cardinality(Before(from, a)) < Cardinality(Before(from, c))
    BY <1>2, <1>4, BeforeFacts
  <2> QED BY <1>1, <1>2, <1>3, <2>1
<1>5. ASSUME page # from PROVE Cardinality(page) = batchSize
  <2>1. from \ page # {} /\ from \ page \subseteq Nat
    BY <1>2, <1>5
  <2>2. PICK a \in from \ page : \A x \in from \ page : a <= x
    BY <2>1, NatLeast, Zenon
  <2>3. page = Before(from, a)
    <3>1. ASSUME NEW x \in page PROVE x \in Before(from, a)
      <4>1. x \in from /\ x # a /\ ~ (a < x)
        BY <1>2, <1>4, <2>2
      <4>2. x \in Nat /\ a \in Nat
        BY <4>1
      <4> QED BY <4>1, <4>2 DEF Before
    <3>2. ASSUME NEW x \in Before(from, a) PROVE x \in page
      <4>1. x \in from /\ x < a /\ x \in Nat /\ a \in Nat
        BY DEF Before
      <4> QED BY <2>2, <4>1
    <3> QED BY <3>1, <3>2
  <2>4. Cardinality(page) >= batchSize /\ Cardinality(page) \in Int /\ IsFiniteSet(page)
    <3>1. ~ (Cardinality(Before(from, a)) < batchSize)
      BY <1>2, <2>2
    <3>2. Cardinality(Before(from, a)) \in Int /\ IsFiniteSet(Before(from, a))
      BY <1>3, <2>2
    <3>3. Cardinality(Before(from, a)) >= batchSize
      BY <1>1, <3>1, <3>2
    <3> QED BY <2>3, <3>2, <3>3
  <2>5. PICK g \in page : \A x \in page : x <= g
    <3>1. page # {}
      <4>1. Cardinality({}) = 0
        BY FS_EmptySet
      <4> QED BY <1>1, <2>4, <4>1
    <3>2. a \in Int /\ \A x \in Before(from, a) : x \in 0 .. a
      BY <2>2 DEF Before
    <3>3. page \subseteq 0 .. a
      BY <2>3, <3>2
    <3> QED BY <3>1, <3>2, <3>3, BoundedGreatest, Zenon
  <2>6. Before(from, g) = page \ {g}
    <3>1. ASSUME NEW x \in Before(from, g) PROVE x \in page \ {g}
      BY <1>2, <1>4, <2>5 DEF Before
    <3>2. ASSUME NEW x \in page \ {g} PROVE x \in Before(from, g)
      <4>1. x \in from /\ x <= g /\ x # g
        BY <1>2, <2>5
      <4>2. x \in Nat /\ g \in Nat
        BY <1>2, <4>1, <2>5
      <4> QED BY <4>1, <4>2 DEF Before
    <3> QED BY <3>1, <3>2
  <2>7. Cardinality(Before(from, g)) = Cardinality(page) - 1
    <3>1. Cardinality(page \ {g}) = Cardinality(page) - 1
      BY <2>4, <2>5, FS_RemoveElement, Zenon
    <3> QED BY <2>6, <3>1
  <2>8. Cardinality(Before(from, g)) < batchSize
    BY <1>2, <2>5
  <2> QED BY <1>1, <2>4, <2>7, <2>8
<1> QED BY <1>4, <1>5

ImportStates ==
    [ step : {"due", "page", "sweep", "done", "failed"}, account : Nat,
      returned : Seq(Addresses), slice : Nat, met : SUBSET DelegatorRuns,
      seen : SUBSET (Addresses \X Representatives), steady : SUBSET Addresses ]

DelegatorTypeOK ==
    /\ ledger \in Ledgers
    /\ accounts_delegators \in [Addresses -> Rows \cup {NoRow}]
    /\ imports \in [DelegatorRuns -> ImportStates]

LEMMA PageFacts ==
    ASSUME DelegatorTypeOK, NEW t \in DelegatorRuns
    PROVE  LET page == LedgerPage(t)
               last == Max(page \cup {0})
           IN  /\ page \subseteq DOMAIN ledger /\ page \subseteq Addresses
               /\ InOrder(page) \in Seq(page)
               /\ last \in Nat
               /\ \A a \in DOMAIN ledger : a >= imports[t].account /\ a < last => a \in page
               /\ Cardinality(page) # batchSize =>
                      \A a \in DOMAIN ledger : a >= imports[t].account => a \in page
<1> DEFINE page == LedgerPage(t)
           from == {a \in DOMAIN ledger : a >= imports[t].account}
           last == Max(page \cup {0})
<1>1. DOMAIN ledger \subseteq Nat \ {0} /\ IsFiniteSet(DOMAIN ledger)
  BY DelegatorAssumption DEF DelegatorTypeOK
<1>2. from \subseteq Nat /\ from \subseteq DOMAIN ledger /\ IsFiniteSet(from)
  BY <1>1, FS_Subset
<1>3. page = {a \in from : Cardinality(Before(from, a)) < batchSize}
  BY DEF LedgerPage, Before
<1>4. /\ \A a \in from, c \in page : a < c => a \in page
      /\ Cardinality(page) # batchSize => page = from
  <2> HIDE DEF from, page
  <2> QED BY <1>2, <1>3, PageFollowsLedger
<1>5. page \subseteq from /\ page \subseteq Nat /\ IsFiniteSet(page)
  <2>1. page \subseteq from
    BY <1>3
  <2> HIDE DEF from, page
  <2> QED BY <1>2, <2>1, FS_Subset
<1>6. InOrder(page) \in Seq(page)
  <2> HIDE DEF page
  <2> QED BY <1>5, InOrderLists
<1>7. last \in page \cup {0}
  <2> HIDE DEF page
  <2>1. page \cup {0} \subseteq Nat /\ IsFiniteSet(page \cup {0})
    BY <1>5, FS_AddElement
  <2>2. \E x \in page \cup {0} : \A y \in page \cup {0} : y <= x
    BY <2>1, FiniteGreatest
  <2>3. \E x \in page \cup {0} : \A y \in page \cup {0} : x >= y
    BY <2>1, <2>2
  <2> DEFINE T == page \cup {0}
             g == CHOOSE x \in T : \A y \in T : x >= y
  <2>4. g \in T
    BY <2>3, Zenon
  <2> QED BY <2>4, Zenon DEF Max
<1>8. DOMAIN ledger \subseteq Addresses
  BY DEF DelegatorTypeOK, Addresses
<1> HIDE DEF page, last
<1>9. \A a \in DOMAIN ledger : a >= imports[t].account /\ a < last => a \in page
  <2> SUFFICES ASSUME NEW a \in DOMAIN ledger, a >= imports[t].account, a < last
               PROVE  a \in page
    OBVIOUS
  <2>1. a \in from /\ a \in Nat
    BY <1>1
  <2>2. last \in page
    BY <1>7, <2>1
  <2> QED BY <1>4, <2>1, <2>2
<1>10. last \in Nat
  BY <1>5, <1>7
<1> QED BY <1>2, <1>4, <1>5, <1>6, <1>8, <1>9, <1>10 DEF page, last

\* Runs begin in the order of their timestamps.
RunsInTurn ==
    \A t, u \in DelegatorRuns :
        u < t /\ imports[t].step # "due" => imports[u].step # "due"

\* A run that has met no other, and is the last that began.
Alone(t) ==
    /\ imports[t].step # "due"
    /\ imports[t].met = {}
    /\ \A u \in DelegatorRuns : u > t => imports[u].step = "due"

AloneIsAlone == \A t, u \in DelegatorRuns : Alone(t) /\ u # t => ~ Running(u)

FollowsLedger ==
    \A t \in DelegatorRuns : Running(t) =>
        Pairs(ledger) \subseteq imports[t].seen /\ imports[t].steady \subseteq DOMAIN ledger

Stamped(t, a) ==
    accounts_delegators[a] # NoRow /\ accounts_delegators[a].timestamp = t

Returned(t) == {imports[t].returned[i] : i \in 1 .. Len(imports[t].returned)}

BeginsFresh ==
    \A t \in DelegatorRuns : imports[t].step = "due" =>
        /\ imports[t].account = 0 /\ imports[t].returned = <<>>
        /\ \A a \in Addresses : ~ Stamped(t, a)

\* What the run has stamped so far, and what the table has of it.
Mirrors(t) ==
    /\ \A a \in Returned(t) : Stamped(t, a)
    /\ \A a \in Addresses : Stamped(t, a) =>
           <<a, accounts_delegators[a].representative>> \in imports[t].seen
    /\ imports[t].step = "page" =>
           \A a \in imports[t].steady : a < imports[t].account => Stamped(t, a)
    /\ imports[t].step \in {"sweep", "done"} => \A a \in imports[t].steady : Stamped(t, a)
    /\ imports[t].step = "done" =>
           \A a \in Addresses : accounts_delegators[a] # NoRow => Stamped(t, a)

AloneMirrors ==
    \A t \in DelegatorRuns : Alone(t) /\ imports[t].step # "failed" => Mirrors(t)

DelegatorInv ==
    /\ DelegatorTypeOK /\ RunsInTurn /\ AloneIsAlone
    /\ FollowsLedger /\ BeginsFresh /\ AloneMirrors

LEMMA DelegatorInitInv == DelegatorInit => DelegatorInv
<1> SUFFICES ASSUME DelegatorInit PROVE DelegatorInv
  OBVIOUS
<1>1. \A t \in DelegatorRuns :
         imports[t] = [ step |-> "due", account |-> 0, returned |-> <<>>, slice |-> 0,
                        met |-> {}, seen |-> {}, steady |-> {} ]
  BY DEF DelegatorInit
<1>2. \A a \in Addresses : accounts_delegators[a] = NoRow
  BY DEF DelegatorInit
<1>3. DelegatorTypeOK
  <2>1. <<>> \in Seq(Addresses)
    OBVIOUS
  <2> QED BY <2>1 DEF DelegatorInit, DelegatorTypeOK, ImportStates
<1> QED BY <1>1, <1>2, <1>3
  DEF DelegatorInv, RunsInTurn, Alone, AloneIsAlone, FollowsLedger, BeginsFresh, AloneMirrors,
      Running, Stamped

LEMMA PairsType ==
    ASSUME NEW l \in Ledgers PROVE Pairs(l) \subseteq Addresses \X Representatives
BY DEF Pairs, Addresses, Representatives

LEMMA LedgerMovesStep == DelegatorInv /\ LedgerMoves => DelegatorInv'
<1> SUFFICES ASSUME DelegatorInv, LedgerMoves PROVE DelegatorInv'
  OBVIOUS
<1>1. ledger' \in Ledgers /\ accounts_delegators' = accounts_delegators
  BY DEF LedgerMoves
<1>2. Pairs(ledger') \subseteq Addresses \X Representatives
  BY <1>1, PairsType
<1>3. DelegatorTypeOK
  BY DEF DelegatorInv
<1>4. ASSUME NEW t \in DelegatorRuns
      PROVE  /\ imports'[t].step = imports[t].step /\ imports'[t].met = imports[t].met
             /\ imports'[t].account = imports[t].account
             /\ imports'[t].returned = imports[t].returned
             /\ Running(t) => /\ imports'[t].seen = imports[t].seen \cup Pairs(ledger')
                              /\ imports'[t].steady = imports[t].steady \cap DOMAIN ledger'
             /\ ~ Running(t) => imports'[t] = imports[t]
             /\ imports'[t] \in ImportStates
  <2>1. imports[t] \in ImportStates
    BY <1>3 DEF DelegatorTypeOK
  <2>2. imports'[t] = IF Running(t) THEN [imports[t] EXCEPT !.seen = @ \cup Pairs(ledger'),
                                                !.steady = @ \cap DOMAIN ledger']
                      ELSE imports[t]
    BY DEF LedgerMoves
  <2>3. CASE Running(t)
    <3> DEFINE moved == [imports[t] EXCEPT !.seen = @ \cup Pairs(ledger'),
                                           !.steady = @ \cap DOMAIN ledger']
    <3>1. imports'[t] = moved
      BY <2>2, <2>3
    <3>2. /\ moved \in ImportStates
          /\ moved.step = imports[t].step /\ moved.met = imports[t].met
          /\ moved.account = imports[t].account /\ moved.returned = imports[t].returned
          /\ moved.seen = imports[t].seen \cup Pairs(ledger')
          /\ moved.steady = imports[t].steady \cap DOMAIN ledger'
      BY <1>2, <2>1 DEF ImportStates
    <3> HIDE DEF moved
    <3> QED BY <2>3, <3>1, <3>2
  <2>4. CASE ~ Running(t)
    BY <2>1, <2>2, <2>4
  <2> QED BY <2>3, <2>4
<1>5. DelegatorTypeOK'
  <2>1. imports' \in [DelegatorRuns -> ImportStates]
    <3>1. imports' = [t \in DelegatorRuns |-> imports'[t]]
      BY DEF LedgerMoves
    <3> QED BY <1>4, <3>1
  <2>2. accounts_delegators' \in [Addresses -> Rows \cup {NoRow}]
    BY <1>1, <1>3 DEF DelegatorTypeOK
  <2> QED BY <1>1, <2>1, <2>2 DEF DelegatorTypeOK
<1>6. RunsInTurn' /\ AloneIsAlone'
  BY <1>4 DEF DelegatorInv, RunsInTurn, AloneIsAlone, Alone, Running
<1>7. FollowsLedger'
  BY <1>4 DEF FollowsLedger, Running
<1>8. BeginsFresh'
  BY <1>1, <1>4 DEF DelegatorInv, BeginsFresh, Stamped
<1>9. AloneMirrors'
  <2>1. ASSUME NEW t \in DelegatorRuns, Alone(t)', imports'[t].step # "failed"
        PROVE  Mirrors(t)'
    <3>1. Mirrors(t)
      BY <1>4, <2>1 DEF DelegatorInv, AloneMirrors, Alone
    <3>2. imports[t].seen \subseteq imports'[t].seen /\ imports'[t].steady \subseteq imports[t].steady
      BY <1>4
    <3> QED BY <1>1, <1>4, <3>1, <3>2 DEF Mirrors, Stamped, Returned
  <2> QED BY <2>1 DEF AloneMirrors
<1> QED BY <1>5, <1>6, <1>7, <1>8, <1>9 DEF DelegatorInv

LEMMA StartDelegatorsStep ==
    ASSUME DelegatorInv, NEW t \in DelegatorRuns, StartDelegators(t)
    PROVE  DelegatorInv'
<1> DEFINE others == {u \in DelegatorRuns : Running(u)}
<1>1. /\ UNCHANGED <<ledger, accounts_delegators>> /\ imports[t].step = "due"
      /\ \A u \in DelegatorRuns : u < t => imports[u].step # "due"
  BY DEF StartDelegators
<1>2. DelegatorTypeOK /\ DelegatorRuns \subseteq Nat
  BY DelegatorAssumption DEF DelegatorInv
<1>3. t \notin others
  BY <1>1 DEF Running
<1>4. imports' = [u \in DelegatorRuns |->
               CASE u = t -> [imports[t] EXCEPT !.step = "page", !.met = others,
                                 !.seen = Pairs(ledger), !.steady = DOMAIN ledger]
                 [] u \in others -> [imports[u] EXCEPT !.met = @ \cup {t}]
                 [] OTHER -> imports[u]]
  BY DEF StartDelegators
<1>5. Pairs(ledger) \subseteq Addresses \X Representatives /\ DOMAIN ledger \subseteq Addresses
  BY <1>2, PairsType DEF DelegatorTypeOK, Addresses
<1>6. /\ imports'[t].step = "page" /\ imports'[t].met = others
      /\ imports'[t].account = imports[t].account /\ imports'[t].returned = imports[t].returned
      /\ imports'[t].seen = Pairs(ledger) /\ imports'[t].steady = DOMAIN ledger
      /\ imports'[t] \in ImportStates
  <2> DEFINE begun == [imports[t] EXCEPT !.step = "page", !.met = others,
                                         !.seen = Pairs(ledger), !.steady = DOMAIN ledger]
  <2>1. imports'[t] = begun
    BY <1>3, <1>4, Zenon
  <2>2. imports[t] \in ImportStates /\ others \in SUBSET DelegatorRuns
    BY <1>2 DEF DelegatorTypeOK
  <2> HIDE DEF others
  <2>3. /\ begun.step = "page" /\ begun.met = others
        /\ begun.account = imports[t].account /\ begun.returned = imports[t].returned
        /\ begun.seen = Pairs(ledger) /\ begun.steady = DOMAIN ledger
        /\ begun \in ImportStates
    BY <1>5, <2>2 DEF ImportStates
  <2> HIDE DEF begun
  <2> QED BY <2>1, <2>3
<1>7. ASSUME NEW u \in DelegatorRuns, u # t
      PROVE  /\ imports'[u].step = imports[u].step /\ imports[u].met \subseteq imports'[u].met
             /\ imports'[u].account = imports[u].account
             /\ imports'[u].returned = imports[u].returned
             /\ imports'[u].seen = imports[u].seen /\ imports'[u].steady = imports[u].steady
             /\ imports'[u] \in ImportStates
  <2>1. imports'[u] = IF u \in others THEN [imports[u] EXCEPT !.met = @ \cup {t}]
                      ELSE imports[u]
    <3>1. CASE u \in others
      BY <1>4, <1>7, <3>1, Zenon
    <3>2. CASE u \notin others
      BY <1>4, <1>7, <3>2, Zenon
    <3> QED BY <3>1, <3>2, Zenon
  <2>2. imports[u] \in ImportStates
    BY <1>2 DEF DelegatorTypeOK
  <2>3. CASE u \notin others
    BY <2>1, <2>2, <2>3
  <2>4. CASE u \in others
    <3>1. imports'[u] = [imports[u] EXCEPT !.met = @ \cup {t}]
      BY <2>1, <2>4
    <3> QED BY <2>2, <3>1 DEF ImportStates
  <2> QED BY <2>3, <2>4
<1>8. DelegatorTypeOK'
  <2>1. imports' \in [DelegatorRuns -> ImportStates]
    <3> DEFINE state(u) ==
                 CASE u = t -> [imports[t] EXCEPT !.step = "page", !.met = others,
                                   !.seen = Pairs(ledger), !.steady = DOMAIN ledger]
                   [] u \in others -> [imports[u] EXCEPT !.met = @ \cup {t}]
                   [] OTHER -> imports[u]
    <3>0. imports' = [u \in DelegatorRuns |-> state(u)]
      BY <1>4
    <3> HIDE DEF state
    <3>1. imports' = [u \in DelegatorRuns |-> imports'[u]]
      BY <3>0
    <3>2. \A u \in DelegatorRuns : imports'[u] \in ImportStates
      BY <1>6, <1>7
    <3> QED BY <3>1, <3>2
  <2> QED BY <1>1, <1>2, <2>1 DEF DelegatorTypeOK
<1>9. RunsInTurn'
  BY <1>1, <1>2, <1>6, <1>7 DEF DelegatorInv, RunsInTurn
\* Whatever began before is not the last now.
<1>10. ASSUME NEW u \in DelegatorRuns, u # t, Alone(u)'
       PROVE  FALSE
  <2>1. imports[u].step # "due"
    BY <1>7, <1>10 DEF Alone
  <2>2. ~ (t < u)
    BY <1>1, <2>1 DEF DelegatorInv, RunsInTurn
  <2>3. t > u
    BY <1>2, <1>10, <2>2
  <2> QED BY <1>6, <1>10, <2>3 DEF Alone
<1>11. Alone(t)' => \A u \in DelegatorRuns \ {t} : ~ Running(u) /\ ~ Running(u)'
  BY <1>6, <1>7 DEF Alone, Running
<1>12. AloneIsAlone'
  BY <1>10, <1>11 DEF AloneIsAlone
<1>13. FollowsLedger'
  BY <1>1, <1>6, <1>7 DEF DelegatorInv, FollowsLedger, Running
<1>14. BeginsFresh'
  BY <1>1, <1>6, <1>7 DEF DelegatorInv, BeginsFresh, Stamped
<1>15. AloneMirrors'
  <2>1. /\ imports'[t].account = 0 /\ imports'[t].returned = <<>>
        /\ \A a \in Addresses : ~ Stamped(t, a)'
    BY <1>1, <1>6 DEF DelegatorInv, BeginsFresh, Stamped
  <2>2. Returned(t)' = {}
    BY <2>1 DEF Returned
  <2>3. \A a \in DOMAIN ledger : ~ (a < 0)
    BY <1>2, DelegatorAssumption DEF DelegatorTypeOK
  <2>4. Mirrors(t)'
    BY <1>6, <2>1, <2>2, <2>3 DEF Mirrors
  <2> QED BY <1>10, <2>4 DEF AloneMirrors
<1> QED BY <1>8, <1>9, <1>12, <1>13, <1>14, <1>15 DEF DelegatorInv

\* A step of a run changes no other run, and none that is alone but itself.
LEMMA OtherRuns ==
    ASSUME DelegatorInv, NEW t \in DelegatorRuns, Running(t), UNCHANGED ledger,
           imports' \in [DelegatorRuns -> ImportStates],
           \A u \in DelegatorRuns : u # t => imports'[u] = imports[u],
           imports'[t].step # "due", imports'[t].met = imports[t].met,
           imports'[t].seen = imports[t].seen, imports'[t].steady = imports[t].steady,
           accounts_delegators' \in [Addresses -> Rows \cup {NoRow}],
           \A u \in DelegatorRuns, a \in Addresses :
               u # t /\ Stamped(u, a)' => Stamped(u, a),
           Alone(t) /\ imports'[t].step # "failed" => Mirrors(t)'
    PROVE  DelegatorInv'
<1>1. ASSUME NEW u \in DelegatorRuns PROVE Alone(u)' <=> Alone(u)
  BY DEF Alone, Running
<1>2. ASSUME NEW u \in DelegatorRuns, u # t PROVE ~ Alone(u)
  BY <1>2 DEF DelegatorInv, AloneIsAlone
<1>3. DelegatorTypeOK'
  BY DEF DelegatorInv, DelegatorTypeOK
<1>4. RunsInTurn'
  BY DEF DelegatorInv, RunsInTurn, Running
<1>5. AloneIsAlone'
  BY <1>1, <1>2 DEF DelegatorInv, AloneIsAlone, Running
<1>6. FollowsLedger'
  BY DEF DelegatorInv, FollowsLedger, Running
<1>7. BeginsFresh'
  BY DEF DelegatorInv, BeginsFresh
<1>8. AloneMirrors'
  BY <1>1, <1>2 DEF AloneMirrors
<1> QED BY <1>3, <1>4, <1>5, <1>6, <1>7, <1>8 DEF DelegatorInv

LEMMA ImportPageStep ==
    ASSUME DelegatorInv, NEW t \in DelegatorRuns, ImportPage(t)
    PROVE  DelegatorInv'
<1> DEFINE page == LedgerPage(t)
           last == Max(page \cup {0})
           step == IF Cardinality(page) = batchSize THEN "page" ELSE "sweep"
           returned == InOrder(page) \o imports[t].returned
<1>1. /\ imports[t].step = "page" /\ UNCHANGED ledger
      /\ accounts_delegators' = [a \in Addresses |->
             IF a \in page THEN [representative |-> ledger[a], timestamp |-> t]
             ELSE accounts_delegators[a]]
      /\ imports' = [imports EXCEPT ![t].returned = returned, ![t].account = last,
                                    ![t].step = step]
  BY DEF ImportPage
<1>2. /\ DelegatorTypeOK /\ imports[t] \in ImportStates
      /\ accounts_delegators \in [Addresses -> Rows \cup {NoRow}]
      /\ imports[t].returned \in Seq(Addresses)
  BY DEF DelegatorInv, DelegatorTypeOK, ImportStates
<1>3. /\ page \subseteq DOMAIN ledger /\ page \subseteq Addresses
      /\ InOrder(page) \in Seq(page)
      /\ last \in Nat
      /\ \A a \in DOMAIN ledger : a >= imports[t].account /\ a < last => a \in page
      /\ step # "page" => \A a \in DOMAIN ledger : a >= imports[t].account => a \in page
  BY <1>2, PageFacts
<1>4. returned \in Seq(Addresses) /\ step \in {"page", "sweep"}
  <2> HIDE DEF page
  <2>1. InOrder(page) \in Seq(Addresses)
    BY <1>3
  <2> QED BY <1>2, <2>1
<1> HIDE DEF page, last, step
<1>5. /\ imports'[t].step = step /\ imports'[t].account = last
      /\ imports'[t].returned = returned
      /\ imports'[t].met = imports[t].met /\ imports'[t].seen = imports[t].seen
      /\ imports'[t].steady = imports[t].steady
      /\ imports' \in [DelegatorRuns -> ImportStates]
      /\ \A u \in DelegatorRuns : u # t => imports'[u] = imports[u]
  <2> HIDE DEF returned
  <2> QED BY <1>1, <1>2, <1>3, <1>4 DEF DelegatorTypeOK, ImportStates
<1>6. ASSUME NEW a \in page
      PROVE  /\ [representative |-> ledger[a], timestamp |-> t] \in Rows
             /\ [representative |-> ledger[a], timestamp |-> t] # NoRow
             /\ accounts_delegators'[a] = [representative |-> ledger[a], timestamp |-> t]
             /\ Stamped(t, a)'
  <2>1. a \in Addresses /\ ledger[a] \in Representatives
    BY <1>2, <1>3 DEF DelegatorTypeOK, Representatives
  <2>2. [representative |-> ledger[a], timestamp |-> t] \in Rows
    BY <2>1 DEF Rows
  <2>3. accounts_delegators'[a] = [representative |-> ledger[a], timestamp |-> t]
    BY <1>1, <2>1
  <2>4. [representative |-> ledger[a], timestamp |-> t] # NoRow
    BY <2>2, DelegatorAssumption
  <2> QED BY <2>2, <2>3, <2>4 DEF Stamped
<1>7. ASSUME NEW a \in Addresses, a \notin page
      PROVE  accounts_delegators'[a] = accounts_delegators[a]
  BY <1>1, <1>7
<1>8. accounts_delegators' \in [Addresses -> Rows \cup {NoRow}]
  BY <1>1, <1>2, <1>6
<1>9. ASSUME NEW u \in DelegatorRuns, NEW a \in Addresses, u # t, Stamped(u, a)'
      PROVE  Stamped(u, a)
  <2>1. a \notin page
    BY <1>6, <1>9 DEF Stamped
  <2> QED BY <1>7, <1>9, <2>1 DEF Stamped
<1>10. ASSUME NEW a \in Addresses, Stamped(t, a) PROVE Stamped(t, a)'
  BY <1>6, <1>7, <1>10 DEF Stamped
<1>11. ASSUME Alone(t) PROVE Mirrors(t)'
  <2>1. Mirrors(t)
    BY <1>1, <1>11 DEF DelegatorInv, AloneMirrors
  <2>2. /\ imports[t].steady \subseteq DOMAIN ledger /\ Pairs(ledger) \subseteq imports[t].seen
        /\ imports[t].steady \subseteq Addresses /\ imports[t].account \in Nat
    BY <1>1, <1>2 DEF DelegatorInv, FollowsLedger, Running, ImportStates
  <2>3. ASSUME NEW a \in Returned(t)' PROVE Stamped(t, a)'
    <3>1. PICK i \in 1 .. Len(returned) : a = returned[i]
      BY <1>5, <2>3 DEF Returned
    <3>2. a \in page \/ a \in Returned(t)
      BY <1>2, <1>3, <3>1 DEF Returned
    <3>3. a \in Addresses
      BY <1>4, <3>1
    <3> QED BY <1>6, <1>10, <2>1, <3>2, <3>3 DEF Mirrors
  <2>4. ASSUME NEW a \in Addresses, Stamped(t, a)'
        PROVE  <<a, accounts_delegators'[a].representative>> \in imports'[t].seen
    <3>1. CASE a \in page
      <4>1. a \in DOMAIN ledger /\ accounts_delegators'[a].representative = ledger[a]
        <5>1. accounts_delegators'[a] = [representative |-> ledger[a], timestamp |-> t]
          BY <1>6, <3>1
        <5> QED BY <1>3, <3>1, <5>1
      <4>2. <<a, ledger[a]>> \in Pairs(ledger)
        BY <4>1 DEF Pairs
      <4> QED BY <1>5, <2>2, <4>1, <4>2
    <3>2. CASE a \notin page
      BY <1>5, <1>7, <2>1, <2>4, <3>2 DEF Mirrors, Stamped
    <3> QED BY <3>1, <3>2
  <2>5. ASSUME NEW a \in imports[t].steady, a < last \/ step # "page"
        PROVE  Stamped(t, a)'
    <3>1. a \in Nat /\ a \in Addresses /\ a \in DOMAIN ledger
      BY <1>2, <2>2, DelegatorAssumption DEF DelegatorTypeOK
    <3>2. CASE a < imports[t].account
      BY <1>1, <1>10, <2>1, <3>1, <3>2 DEF Mirrors
    <3>3. CASE a >= imports[t].account
      BY <1>3, <1>6, <2>5, <3>1, <3>3
    <3> QED BY <2>2, <3>1, <3>2, <3>3
  <2> QED BY <1>4, <1>5, <2>3, <2>4, <2>5 DEF Mirrors
<1> QED
  <2>1. Running(t) /\ imports'[t].step # "due"
    BY <1>1, <1>4, <1>5 DEF Running
  <2> QED BY <1>1, <1>5, <1>8, <1>9, <1>11, <2>1, OtherRuns

\* A slice is of what the run was returned.
LEMMA SliceIsReturned ==
    ASSUME DelegatorTypeOK, NEW t \in DelegatorRuns
    PROVE  Slice(t) \subseteq Returned(t)
<1> DEFINE from == imports[t].slice * batchSize
           len == Len(imports[t].returned)
<1>1. imports[t].slice \in Nat /\ batchSize \in Nat /\ len \in Nat
  BY DelegatorAssumption DEF DelegatorTypeOK, ImportStates
<1>2. from \in Nat
  BY <1>1
<1> HIDE DEF from, len
<1>3. Min({from + batchSize, len}) \in Int /\ Min({from + batchSize, len}) <= len
  <2> DEFINE S == {from + batchSize, len}
             l == CHOOSE x \in S : \A y \in S : x =< y
  <2>1. \E x \in S : \A y \in S : x =< y
    BY <1>1, <1>2
  <2>2. l \in S /\ \A y \in S : l =< y
    BY <2>1, Zenon
  <2>3. Min(S) = l
    BY Zenon DEF Min
  <2> HIDE DEF l
  <2> QED BY <1>1, <1>2, <2>2, <2>3
<1>4. ASSUME NEW i \in from + 1 .. Min({from + batchSize, len}) PROVE i \in 1 .. len
  BY <1>1, <1>2, <1>3
<1> QED BY <1>4 DEF Slice, Returned, from, len

LEMMA SweepSliceStep ==
    ASSUME DelegatorInv, NEW t \in DelegatorRuns, SweepSlice(t)
    PROVE  DelegatorInv'
<1> DEFINE step == IF (imports[t].slice + 1) * batchSize >= Len(imports[t].returned)
                   THEN "done" ELSE "sweep"
<1>1. /\ imports[t].step = "sweep" /\ UNCHANGED ledger
      /\ accounts_delegators' = [a \in Addresses |->
             IF accounts_delegators[a] # NoRow /\ Swept(t, a) THEN NoRow
             ELSE accounts_delegators[a]]
      /\ imports' = [imports EXCEPT ![t].slice = @ + 1, ![t].step = step]
      /\ step \in {"sweep", "done"}
  BY DEF SweepSlice
<1>2. /\ DelegatorTypeOK /\ imports[t] \in ImportStates
      /\ accounts_delegators \in [Addresses -> Rows \cup {NoRow}]
  BY DEF DelegatorInv, DelegatorTypeOK
<1> HIDE DEF step
<1>3. /\ imports'[t].step = step
      /\ imports'[t].account = imports[t].account
      /\ imports'[t].returned = imports[t].returned
      /\ imports'[t].met = imports[t].met /\ imports'[t].seen = imports[t].seen
      /\ imports'[t].steady = imports[t].steady
      /\ imports' \in [DelegatorRuns -> ImportStates]
      /\ \A u \in DelegatorRuns : u # t => imports'[u] = imports[u]
  <2> DEFINE swept == [imports[t] EXCEPT !.slice = @ + 1, !.step = step]
  <2>1. imports' = [imports EXCEPT ![t] = swept]
    BY <1>1, <1>2 DEF DelegatorTypeOK
  <2>2. imports[t].slice + 1 \in Nat
    BY <1>2 DEF ImportStates
  <2>3. step \in {"due", "page", "sweep", "done", "failed"} /\ imports[t] \in ImportStates
    BY <1>1, <1>2
  <2>4. swept \in ImportStates
    BY <2>2, <2>3 DEF ImportStates
  <2>5. /\ swept.step = step
        /\ swept.account = imports[t].account /\ swept.returned = imports[t].returned
        /\ swept.met = imports[t].met /\ swept.seen = imports[t].seen
        /\ swept.steady = imports[t].steady
    BY <2>3 DEF ImportStates
  <2> HIDE DEF swept
  <2> QED BY <1>2, <2>1, <2>4, <2>5 DEF DelegatorTypeOK
<1>4. accounts_delegators' \in [Addresses -> Rows \cup {NoRow}]
  BY <1>1, <1>2
<1>5. ASSUME NEW a \in Addresses, accounts_delegators'[a] # NoRow
      PROVE  /\ accounts_delegators'[a] = accounts_delegators[a]
             /\ accounts_delegators[a].timestamp = t \/ a \in Slice(t)
  BY <1>1, <1>5 DEF Swept
<1>6. ASSUME NEW a \in Addresses, Stamped(t, a)
      PROVE  Stamped(t, a)'
  BY <1>1, <1>6 DEF Stamped, Swept
<1>7. ASSUME NEW u \in DelegatorRuns, NEW a \in Addresses, Stamped(u, a)'
      PROVE  Stamped(u, a) /\ accounts_delegators'[a] = accounts_delegators[a]
  BY <1>5, <1>7 DEF Stamped
<1>8. ASSUME Alone(t) PROVE Mirrors(t)'
  <2>1. Mirrors(t)
    BY <1>1, <1>8 DEF DelegatorInv, AloneMirrors
  <2>2. Returned(t)' = Returned(t) /\ Returned(t) \subseteq Addresses
    BY <1>2, <1>3 DEF Returned, ImportStates
  <2>3. ASSUME NEW a \in Addresses, accounts_delegators'[a] # NoRow PROVE Stamped(t, a)'
    <3>1. CASE a \in Slice(t)
      <4>1. a \in Returned(t)
        BY <1>2, <3>1, SliceIsReturned
      <4> QED BY <1>6, <2>1, <4>1 DEF Mirrors
    <3>2. CASE a \notin Slice(t)
      BY <1>5, <2>3, <3>2 DEF Stamped
    <3> QED BY <3>1, <3>2
  <2>4. imports[t].steady \subseteq Addresses
    BY <1>2 DEF ImportStates
  <2> QED BY <1>1, <1>3, <1>6, <1>7, <2>1, <2>2, <2>3, <2>4 DEF Mirrors
<1> QED
  <2>1. Running(t) /\ imports'[t].step # "due"
    BY <1>1, <1>3 DEF Running
  <2> QED BY <1>1, <1>3, <1>4, <1>7, <1>8, <2>1, OtherRuns

LEMMA DelegatorsFailStep ==
    ASSUME DelegatorInv, NEW t \in DelegatorRuns, DelegatorsFail(t)
    PROVE  DelegatorInv'
<1>1. Running(t) /\ UNCHANGED <<ledger, accounts_delegators>>
  BY DEF DelegatorsFail
<1>2. accounts_delegators \in [Addresses -> Rows \cup {NoRow}]
  BY DEF DelegatorInv, DelegatorTypeOK
<1>3. /\ imports'[t].step = "failed"
      /\ imports'[t].met = imports[t].met /\ imports'[t].seen = imports[t].seen
      /\ imports'[t].steady = imports[t].steady
      /\ imports' \in [DelegatorRuns -> ImportStates]
      /\ \A u \in DelegatorRuns : u # t => imports'[u] = imports[u]
  <2> DEFINE failed == [imports[t] EXCEPT !.step = "failed"]
  <2>1. imports \in [DelegatorRuns -> ImportStates]
    BY DEF DelegatorInv, DelegatorTypeOK
  <2>2. imports' = [imports EXCEPT ![t] = failed]
    BY <2>1 DEF DelegatorsFail
  <2>3. imports[t] \in ImportStates
    BY <2>1
  <2>4. /\ failed \in ImportStates /\ failed.step = "failed"
        /\ failed.met = imports[t].met /\ failed.seen = imports[t].seen
        /\ failed.steady = imports[t].steady
    BY <2>3 DEF ImportStates
  <2> HIDE DEF failed
  <2> QED BY <2>1, <2>2, <2>4
<1> QED BY <1>1, <1>2, <1>3, OtherRuns DEF Stamped

\* At every time, the table is the ledger a run went through once it completes
\* without having met another: for any ledger and however it moves, any batch
\* size and any number of runs that fail.
THEOREM RunsMirrorTheLedger == DelegatorsSpec => []CompleteRunsMirrorTheLedger
<1>1. DelegatorInv /\ [DelegatorsNext]_delegatorVars => DelegatorInv'
  <2> SUFFICES ASSUME DelegatorInv, [DelegatorsNext]_delegatorVars PROVE DelegatorInv'
    OBVIOUS
  <2>1. CASE UNCHANGED delegatorVars
    BY <2>1
    DEF delegatorVars, DelegatorInv, DelegatorTypeOK, RunsInTurn, Alone, AloneIsAlone, Running,
        FollowsLedger, BeginsFresh, AloneMirrors, Mirrors, Stamped, Returned
  <2>2. CASE DelegatorsNext
    BY <2>2, LedgerMovesStep, StartDelegatorsStep, ImportPageStep, SweepSliceStep,
       DelegatorsFailStep DEF DelegatorsNext
  <2> QED BY <2>1, <2>2
<1>2. DelegatorInv => CompleteRunsMirrorTheLedger
  <2> SUFFICES ASSUME DelegatorInv, NEW t \in DelegatorRuns, imports[t].step = "done",
                      imports[t].met = {},
                      \A u \in DelegatorRuns : u > t => imports[u].step = "due"
               PROVE  LET rows == {a \in Addresses : accounts_delegators[a] # NoRow}
                      IN  /\ imports[t].steady \subseteq rows
                          /\ \A a \in rows :
                                <<a, accounts_delegators[a].representative>> \in imports[t].seen
    BY DEF CompleteRunsMirrorTheLedger
  <2>1. Mirrors(t)
    BY DEF DelegatorInv, AloneMirrors, Alone
  <2>2. imports[t].steady \subseteq Addresses
    BY DEF DelegatorInv, DelegatorTypeOK, ImportStates
  <2> QED BY <2>1, <2>2 DEF Mirrors, Stamped
<1> QED BY <1>1, <1>2, DelegatorInitInv, PTL DEF DelegatorsSpec

-----------------------------------------------------------------------------
(***************************************************************************)
(* Samples of uptime and their rollups.                                    *)
(***************************************************************************)
LEMMA DivFacts ==
    ASSUME NEW a \in Int, NEW d \in Nat \ {0}
    PROVE  a \div d \in Int /\ d * (a \div d) <= a /\ a < d * (a \div d) + d
OBVIOUS

\* The quotient is the only one that fits.
LEMMA DivBounds ==
    ASSUME NEW a \in Int, NEW d \in Nat \ {0}, NEW k \in Int
    PROVE  a < k * d <=> a \div d < k
<1> DEFINE q == a \div d
<1>1. q \in Int /\ d * q <= a /\ a < d * q + d
  BY DivFacts
<1> HIDE DEF q
<1>2. ASSUME a < k * d, q >= k PROVE FALSE
  <2>1. d * q >= d * k
    BY <1>1, <1>2
  <2>2. d * q < k * d
    BY <1>1, <1>2
  <2> QED BY <1>1, <2>1, <2>2
<1>3. ASSUME q < k PROVE a < k * d
  <2>1. d * (q + 1) <= d * k
    BY <1>1, <1>3
  <2>2. d * (q + 1) = d * q + d
    BY <1>1
  <2> QED BY <1>1, <2>1, <2>2
<1> QED BY <1>1, <1>2, <1>3 DEF q

SampleRows == [account : Reps, online : {0, 1}, timestamp : Nat]
HourTables == {<<>>} \cup [0 .. FillHours - 1 -> {0, 1}]
RollingStates ==
    [ step : {"rolling"}, timestamp : Nat, uptime : SUBSET SampleRows, from : Int,
      left : SUBSET Reps ]

UptimeTypeOK ==
    /\ clock \in 1 .. MaxClock
    /\ accounts \subseteq Reps /\ representatives_uptime \subseteq SampleRows
    /\ rollup_hour \in [Reps -> HourTables]
    /\ rolled_at \in [Reps -> [start : Nat, from : Int]]
    /\ sampling.step \in {"idle", "asking", "saved", "rolling"}
    /\ sampling.step # "idle" => sampling.timestamp \in 1 .. clock
    /\ sampling.step = "rolling" => sampling \in RollingStates

\* One run at a time, whose samples are newer than all there are.
SamplesInTurn ==
    /\ \A s \in representatives_uptime : s.account \in accounts /\ s.timestamp <= clock
    /\ sampling.step = "asking" =>
           \A s \in representatives_uptime : s.timestamp < sampling.timestamp
    /\ sampling.step \in {"saved", "rolling"} =>
           /\ \A s \in representatives_uptime : s.timestamp <= sampling.timestamp
           /\ \A rep \in accounts \cap Tracked : \E s \in representatives_uptime :
                  s.account = rep /\ s.timestamp = sampling.timestamp

RollsTheRecent ==
    sampling.step = "rolling" =>
        /\ sampling.from >= sampling.timestamp - Window
        /\ sampling.uptime = Recent(sampling.from)
        /\ sampling.left \subseteq accounts \cap Tracked

\* Rows are of a run that left a sample.
RolledBySamples ==
    \A rep \in Reps : rollup_hour[rep] # <<>> =>
        \E s \in representatives_uptime : s.timestamp = rolled_at[rep].start

InHour(rep, interval) ==
    {s \in representatives_uptime :
        /\ s.account = rep /\ s.timestamp > rolled_at[rep].from
        /\ HoursBack(rolled_at[rep].start, s.timestamp) = interval}

HourRight(rep, interval) ==
    rollup_hour[rep][interval] = 1 <=>
        InHour(rep, interval) # {} /\ \A s \in InHour(rep, interval) : s.online = 1

HoursRight ==
    \A rep \in Reps : rollup_hour[rep] # <<>> =>
        \A interval \in 0 .. FillHours - 1 : HourRight(rep, interval)

SamplingInv ==
    UptimeTypeOK /\ SamplesInTurn /\ RollsTheRecent /\ RolledBySamples /\ HoursRight

LEMMA UptimeParameters ==
    /\ PerHour \in Nat \ {0} /\ PerDay \in Nat \ {0} /\ Window \in Nat \ {0}
    /\ FillHours \in Nat \ {0} /\ MaxClock \in Nat \ {0} /\ FillHours * PerHour > Window
    /\ Tracked \subseteq Reps /\ \A onlineReps \in Answers : onlineReps \subseteq Reps
BY UptimeAssumption

LEMMA HoursBackBounds ==
    ASSUME NEW now \in Int, NEW t \in Int
    PROVE  /\ HoursBack(now, t) \in Int
           /\ now < t => HoursBack(now, t) < 0
           /\ now >= t => HoursBack(now, t) >= 0
           /\ now - t < Window => HoursBack(now, t) < FillHours
<1> USE UptimeParameters
<1>1. (now - t) \div PerHour \in Int
  BY DivFacts
<1>2. now - t < 0 * PerHour <=> (now - t) \div PerHour < 0
  BY DivBounds
<1>3. now - t < FillHours * PerHour <=> (now - t) \div PerHour < FillHours
  BY DivBounds
<1>4. 0 * PerHour = 0 /\ FillHours * PerHour \in Int
  OBVIOUS
<1>5. now < t => HoursBack(now, t) < 0
  BY <1>2, <1>4 DEF HoursBack
<1>6. now >= t => HoursBack(now, t) >= 0
  BY <1>1, <1>2, <1>4 DEF HoursBack
<1>7. now - t < Window => HoursBack(now, t) < FillHours
  BY <1>3, <1>4 DEF HoursBack
<1> QED BY <1>1, <1>5, <1>6, <1>7 DEF HoursBack

HoursAreOf(hours, values, now) ==
    /\ hours \in [0 .. FillHours - 1 -> {0, 1}]
    /\ \A interval \in 0 .. FillHours - 1 :
           hours[interval] = 1 <=>
               /\ \E s \in values : HoursBack(now, s.timestamp) = interval
               /\ \A s \in values : HoursBack(now, s.timestamp) = interval => s.online = 1

\* A row of hours that is made anew leaves nothing of the one before.
LEMMA NewHours ==
    ASSUME NEW values \in SUBSET SampleRows, NEW now \in Int, NEW old \in HourTables,
           \A s \in values : HoursBack(now, s.timestamp) \in 0 .. FillHours - 1,
           NEW hours, hours = Upserted(FillIn(Rollup(values, now)), old)
    PROVE  HoursAreOf(hours, values, now)
<1> USE UptimeParameters
<1> DEFINE all == 0 .. FillHours - 1
           in == {HoursBack(now, s.timestamp) : s \in values}
           rollup == Rollup(values, now)
           zeros == [interval \in all |-> 0]
           filled == Upserted(rollup, zeros)
           offline(i) == \E s \in values : HoursBack(now, s.timestamp) = i /\ s.online = 0
<1>1. rollup = [i \in in |-> IF offline(i) THEN 0 ELSE 1] /\ in \subseteq all
  BY DEF Rollup
<1>2. DOMAIN rollup = in /\ DOMAIN zeros = all
  BY <1>1
<1>3. in \cup all = all
  BY <1>1
<1>4. filled = [i \in all |-> IF i \in in THEN rollup[i] ELSE zeros[i]]
  <2> HIDE DEF rollup, zeros, in, all
  <2> QED BY <1>2, <1>3, Zenon DEF Upserted
<1>5. filled = [i \in all |-> IF i \in in /\ ~ offline(i) THEN 1 ELSE 0]
  <2>1. ASSUME NEW i \in all
        PROVE  (IF i \in in THEN rollup[i] ELSE zeros[i])
                  = IF i \in in /\ ~ offline(i) THEN 1 ELSE 0
    <3>1. zeros[i] = 0 /\ (i \in in => rollup[i] = IF offline(i) THEN 0 ELSE 1)
      <4> HIDE DEF offline, in
      <4> QED BY <1>1
    <3> HIDE DEF rollup, zeros, in, offline
    <3> QED BY <3>1
  <2> HIDE DEF rollup, zeros, in, offline, filled
  <2> QED BY <1>4, <2>1
<1>6. DOMAIN old \subseteq all
  BY DEF HourTables
<1>7. Upserted(filled, old) = filled
  <2> DEFINE new == [i \in all |-> IF i \in in /\ ~ offline(i) THEN 1 ELSE 0]
  <2>1. DOMAIN new = all
    OBVIOUS
  <2>2. DOMAIN new \cup DOMAIN old = all
    BY <1>6, <2>1
  <2>3. Upserted(new, old) = [i \in all |-> new[i]]
    <3> HIDE DEF new, all
    <3> QED BY <2>1, <2>2 DEF Upserted
  <2>4. [i \in all |-> new[i]] = new
    OBVIOUS
  <2> HIDE DEF new, filled
  <2> QED BY <1>5, <2>3, <2>4 DEF new
<1>8. ASSUME NEW i \in all
      PROVE  (i \in in /\ ~ offline(i)) <=>
                 /\ \E s \in values : HoursBack(now, s.timestamp) = i
                 /\ \A s \in values : HoursBack(now, s.timestamp) = i => s.online = 1
  BY DEF SampleRows
<1>9. FillIn(rollup) = filled
  BY DEF FillIn
<1>10. hours = filled
  BY <1>7, <1>9
<1> HIDE DEF filled, in, offline, rollup
<1> QED BY <1>5, <1>8, <1>10 DEF HoursAreOf

\* What holds of the hours holds as long as the samples stay and rows only go.
LEMMA HoursKept ==
    ASSUME SamplingInv, UNCHANGED <<representatives_uptime, rolled_at>>,
           rollup_hour' \in [Reps -> HourTables],
           \A rep \in Reps : rollup_hour'[rep] # <<>> => rollup_hour'[rep] = rollup_hour[rep]
    PROVE  RolledBySamples' /\ HoursRight'
BY DEF SamplingInv, RolledBySamples, HoursRight, HourRight, InHour

LEMMA RollHoursStep ==
    ASSUME SamplingInv, NEW rep \in Reps, RollHours(rep)
    PROVE  SamplingInv'
<1> DEFINE t == sampling.timestamp
           values == {s \in sampling.uptime : s.account = rep}
           hours == Upserted(FillIn(Rollup(values, t)), rollup_hour[rep])
           rest == [sampling EXCEPT !.left = @ \ {rep}]
<1>1. /\ sampling.step = "rolling" /\ rep \in sampling.left
      /\ rollup_hour' = [rollup_hour EXCEPT ![rep] = hours]
      /\ rolled_at' = [rolled_at EXCEPT ![rep] = [start |-> t, from |-> sampling.from]]
      /\ sampling' = rest
      /\ UNCHANGED <<clock, accounts, representatives_uptime>>
  BY DEF RollHours
<1>2. /\ UptimeTypeOK /\ SamplesInTurn /\ RollsTheRecent /\ sampling \in RollingStates
      /\ rollup_hour \in [Reps -> HourTables]
      /\ rolled_at \in [Reps -> [start : Nat, from : Int]]
      /\ representatives_uptime \subseteq SampleRows
  BY <1>1 DEF SamplingInv, UptimeTypeOK
<1>3. /\ t \in Nat /\ sampling.from \in Int /\ sampling.from >= t - Window
      /\ sampling.uptime = Recent(sampling.from)
      /\ \A s \in representatives_uptime : s.timestamp <= t
  BY <1>1, <1>2 DEF RollingStates, RollsTheRecent, SamplesInTurn
<1>4. rep \in accounts \cap Tracked
  BY <1>1, <1>2 DEF RollsTheRecent
<1>5. values = {s \in representatives_uptime : s.timestamp > sampling.from /\ s.account = rep}
  BY <1>3, <1>4 DEF Recent
<1>6. ASSUME NEW s \in values PROVE HoursBack(t, s.timestamp) \in 0 .. FillHours - 1
  <2>1. s.timestamp \in Nat /\ s.timestamp <= t /\ s.timestamp > sampling.from
    BY <1>2, <1>3, <1>5 DEF SampleRows
  <2>2. t - s.timestamp < Window /\ t \in Int /\ s.timestamp \in Int /\ t >= s.timestamp
    BY <1>3, <2>1, UptimeParameters
  <2>3. /\ HoursBack(t, s.timestamp) \in Int /\ HoursBack(t, s.timestamp) >= 0
        /\ HoursBack(t, s.timestamp) < FillHours
    <3> HIDE DEF t
    <3> QED BY <2>2, HoursBackBounds
  <2> QED BY <2>3, UptimeParameters
<1>7. values \in SUBSET SampleRows /\ rollup_hour[rep] \in HourTables
  BY <1>2, <1>5
<1>8. HoursAreOf(hours, values, t)
  <2>1. t \in Int /\ values \in SUBSET SampleRows /\ rollup_hour[rep] \in HourTables
    BY <1>3, <1>7
  <2>2. \A s \in values : HoursBack(t, s.timestamp) \in 0 .. FillHours - 1
    BY <1>6
  <2>3. hours = Upserted(FillIn(Rollup(values, t)), rollup_hour[rep])
    OBVIOUS
  <2> HIDE DEF values, t, hours
  <2> QED BY <2>1, <2>2, <2>3, NewHours
<1>9. /\ rest \in RollingStates /\ rest.step = "rolling" /\ rest.timestamp = t
      /\ rest.from = sampling.from /\ rest.uptime = sampling.uptime
      /\ rest.left = sampling.left \ {rep}
  BY <1>2 DEF RollingStates
<1> HIDE DEF hours, rest
<1>10. rolled_at'[rep].start = t /\ rolled_at'[rep].from = sampling.from
  BY <1>1, <1>2
<1>11. ASSUME NEW r \in Reps, r # rep
       PROVE  rollup_hour'[r] = rollup_hour[r] /\ rolled_at'[r] = rolled_at[r]
  BY <1>1, <1>2, <1>11
<1>12. rollup_hour'[rep] = hours
  BY <1>1, <1>2
<1>13. UptimeTypeOK'
  <2>1. rollup_hour' \in [Reps -> HourTables]
    BY <1>1, <1>2, <1>8 DEF HourTables, HoursAreOf
  <2>2. rolled_at' \in [Reps -> [start : Nat, from : Int]]
    BY <1>1, <1>2, <1>3
  <2> QED BY <1>1, <1>2, <1>9, <2>1, <2>2 DEF UptimeTypeOK
<1>14. SamplesInTurn' /\ RollsTheRecent'
  BY <1>1, <1>2, <1>9 DEF SamplesInTurn, RollsTheRecent, Recent
<1>15. RolledBySamples'
  <2>1. \E s \in representatives_uptime : s.timestamp = t
    BY <1>1, <1>2, <1>4 DEF SamplesInTurn
  <2> QED BY <1>1, <1>10, <1>11, <2>1 DEF SamplingInv, RolledBySamples
<1>16. HoursRight'
  <2>1. ASSUME NEW interval \in 0 .. FillHours - 1 PROVE HourRight(rep, interval)'
    <3>1. InHour(rep, interval)' = {s \in values : HoursBack(t, s.timestamp) = interval}
      BY <1>1, <1>5, <1>10 DEF InHour, HoursBack
    <3> HIDE DEF values, t
    <3> QED BY <1>8, <1>12, <3>1 DEF HourRight, HoursAreOf
  <2>2. ASSUME NEW r \in Reps, r # rep, rollup_hour'[r] # <<>>,
               NEW interval \in 0 .. FillHours - 1
        PROVE  HourRight(r, interval)'
    <3>1. HourRight(r, interval)
      BY <1>11, <2>2 DEF SamplingInv, HoursRight
    <3> QED BY <1>1, <1>11, <2>2, <3>1 DEF HourRight, InHour
  <2> QED BY <2>1, <2>2 DEF HoursRight
<1> QED BY <1>13, <1>14, <1>15, <1>16 DEF SamplingInv

LEMMA SaveSamplesStep ==
    ASSUME SamplingInv, NEW onlineReps \in Answers, SaveSamples(onlineReps)
    PROVE  SamplingInv'
<1> DEFINE t == sampling.timestamp
           new == Samples(onlineReps)
<1>1. /\ sampling.step = "asking" /\ accounts' = accounts \cup onlineReps
      /\ representatives_uptime' = representatives_uptime \cup new
      /\ sampling' = [step |-> "saved", timestamp |-> t]
      /\ UNCHANGED <<clock, rollup_hour, rolled_at>>
  BY DEF SaveSamples
<1>2. /\ UptimeTypeOK /\ SamplesInTurn /\ t \in 1 .. clock /\ clock \in 1 .. MaxClock
      /\ representatives_uptime \subseteq SampleRows
      /\ \A s \in representatives_uptime : s.timestamp < t
  BY <1>1 DEF SamplingInv, UptimeTypeOK, SamplesInTurn
<1>3. ASSUME NEW s \in new
      PROVE  s \in SampleRows /\ s.timestamp = t /\ s.account \in accounts'
  <2>1. onlineReps \subseteq Reps /\ accounts \subseteq Reps /\ t \in Nat
    BY <1>2, UptimeParameters DEF UptimeTypeOK
  <2>2. \/ \E rep \in onlineReps : s = [account |-> rep, online |-> 1, timestamp |-> t]
        \/ \E rep \in accounts : s = [account |-> rep, online |-> 0, timestamp |-> t]
    BY DEF Samples
  <2>3. s \in SampleRows
    BY <2>1, <2>2 DEF SampleRows
  <2>4. s.timestamp = t /\ s.account \in accounts \cup onlineReps
    BY <2>2
  <2> QED BY <1>1, <2>3, <2>4
<1>4. ASSUME NEW rep \in accounts' \cap Tracked
      PROVE  \E s \in new : s.account = rep
  <2>1. CASE rep \in onlineReps
    <3>1. [account |-> rep, online |-> 1, timestamp |-> t] \in new
      BY <2>1 DEF Samples
    <3> QED BY <3>1
  <2>2. CASE rep \notin onlineReps
    <3>1. [account |-> rep, online |-> 0, timestamp |-> t] \in new
      BY <1>1, <1>4, <2>2 DEF Samples
    <3> QED BY <3>1
  <2> QED BY <2>1, <2>2
<1> HIDE DEF new
<1>5. UptimeTypeOK'
  <2>1. accounts' \subseteq Reps
    BY <1>1, <1>2, UptimeParameters DEF UptimeTypeOK
  <2>2. representatives_uptime' \subseteq SampleRows
    BY <1>1, <1>2, <1>3
  <2>3. sampling'.step = "saved" /\ sampling'.timestamp = t
    BY <1>1
  <2> QED BY <1>1, <1>2, <2>1, <2>2, <2>3 DEF UptimeTypeOK
<1>6. SamplesInTurn'
  <2>1. \A s \in representatives_uptime' : s.account \in accounts' /\ s.timestamp <= t
    BY <1>1, <1>2, <1>3 DEF SamplesInTurn, SampleRows
  <2>2. t <= clock' /\ t \in Nat /\ clock' \in Nat
        /\ \A s \in representatives_uptime' : s.timestamp \in Nat
    BY <1>1, <1>2, <1>3 DEF SampleRows
  <2>3. \A s \in representatives_uptime' : s.timestamp <= clock'
    BY <2>1, <2>2
  <2> QED BY <1>1, <1>3, <1>4, <2>1, <2>3 DEF SamplesInTurn
<1>7. RollsTheRecent'
  BY <1>1 DEF RollsTheRecent
<1>8. RolledBySamples'
  BY <1>1 DEF SamplingInv, RolledBySamples
<1>9. HoursRight'
  <2>1. ASSUME NEW rep \in Reps, rollup_hour[rep] # <<>>,
               NEW interval \in 0 .. FillHours - 1
        PROVE  HourRight(rep, interval)'
    <3>1. rolled_at[rep].start \in Nat /\ rolled_at[rep].start < t
      <4>1. PICK s \in representatives_uptime : s.timestamp = rolled_at[rep].start
        BY <2>1 DEF SamplingInv, RolledBySamples
      <4>2. rolled_at[rep] \in [start : Nat, from : Int]
        BY <1>2 DEF UptimeTypeOK
      <4> QED BY <1>2, <4>1, <4>2
    <3>2. HoursBack(rolled_at[rep].start, t) < 0
      <4>1. t \in Int /\ rolled_at[rep].start \in Int
        BY <1>2, <3>1
      <4> HIDE DEF t
      <4> QED BY <3>1, <4>1, HoursBackBounds
    <3>3. ASSUME NEW s \in new PROVE HoursBack(rolled_at[rep].start, s.timestamp) # interval
      <4>1. HoursBack(rolled_at[rep].start, s.timestamp) < 0
        BY <1>3, <3>2
      <4>2. interval >= 0 /\ interval \in Int
        BY UptimeParameters
      <4> QED BY <4>1, <4>2
    <3>4. InHour(rep, interval)' = InHour(rep, interval)
      BY <1>1, <3>3 DEF InHour, HoursBack
    <3>5. HourRight(rep, interval)
      BY <2>1 DEF SamplingInv, HoursRight
    <3> QED BY <1>1, <3>4, <3>5 DEF HourRight
  <2> QED BY <1>1, <2>1 DEF HoursRight
<1> QED BY <1>5, <1>6, <1>7, <1>8, <1>9 DEF SamplingInv

LEMMA ReadSamplesStep == SamplingInv /\ ReadSamples => SamplingInv'
<1> SUFFICES ASSUME SamplingInv, ReadSamples PROVE SamplingInv'
  OBVIOUS
<1> DEFINE from == clock - Window
           recent == Recent(from)
           state == [ step |-> "rolling", timestamp |-> sampling.timestamp,
                      uptime |-> recent, from |-> from, left |-> {s.account : s \in recent} ]
<1>1. /\ sampling.step = "saved" /\ sampling' = state
      /\ UNCHANGED <<clock, accounts, representatives_uptime, rollup_hour, rolled_at>>
  BY DEF ReadSamples
<1>2. /\ UptimeTypeOK /\ SamplesInTurn /\ clock \in Int /\ sampling.timestamp \in 1 .. clock
      /\ representatives_uptime \subseteq SampleRows
  BY <1>1, UptimeParameters DEF SamplingInv, UptimeTypeOK
<1>3. recent \subseteq SampleRows /\ \A s \in recent : s.account \in accounts \cap Tracked
  BY <1>2 DEF Recent, SamplesInTurn
<1>4. from \in Int /\ from >= sampling.timestamp - Window
  BY <1>2, UptimeParameters
<1>5. {s.account : s \in recent} \subseteq accounts \cap Tracked
      /\ {s.account : s \in recent} \subseteq Reps
  BY <1>3, UptimeParameters
<1> HIDE DEF recent, from
<1>6. state \in RollingStates
  BY <1>2, <1>3, <1>4, <1>5 DEF RollingStates
<1>7. UptimeTypeOK'
  BY <1>1, <1>2, <1>6 DEF UptimeTypeOK
<1>8. SamplesInTurn'
  BY <1>1, <1>2 DEF SamplesInTurn
<1>9. RollsTheRecent'
  <2>1. /\ sampling'.from = from /\ sampling'.uptime = recent
        /\ sampling'.left = {s.account : s \in recent}
        /\ sampling'.timestamp = sampling.timestamp
    BY <1>1
  <2>2. Recent(sampling.from)' = recent
    <3>1. recent = {s \in representatives_uptime' : s.timestamp > from /\ s.account \in Tracked}
      BY <1>1 DEF Recent, recent
    <3> QED BY <2>1, <3>1 DEF Recent
  <2>3. UNCHANGED accounts
    BY <1>1
  <2> QED BY <1>4, <1>5, <2>1, <2>2, <2>3 DEF RollsTheRecent
<1>10. RolledBySamples' /\ HoursRight'
  BY <1>1, <1>2, HoursKept DEF UptimeTypeOK
<1> QED BY <1>7, <1>8, <1>9, <1>10 DEF SamplingInv

LEMMA SamplingInitInv == UptimeInit => SamplingInv
<1> SUFFICES ASSUME UptimeInit PROVE SamplingInv
  OBVIOUS
<1>1. UptimeTypeOK
  <2>1. rollup_hour \in [Reps -> HourTables] /\ rolled_at \in [Reps -> [start : Nat, from : Int]]
    BY DEF UptimeInit, NoHours, HourTables
  <2> QED BY <2>1, UptimeParameters DEF UptimeInit, UptimeTypeOK, NotSampling, SampleRows
<1>2. SamplesInTurn /\ RollsTheRecent
  BY DEF UptimeInit, SamplesInTurn, RollsTheRecent, NotSampling
<1>3. RolledBySamples /\ HoursRight
  BY DEF UptimeInit, RolledBySamples, HoursRight, NoHours
<1> QED BY <1>1, <1>2, <1>3 DEF SamplingInv

\* The steps that leave the samples and the rows of hours.
LEMMA SamplingStays ==
    ASSUME SamplingInv, UNCHANGED <<accounts, representatives_uptime, rollup_hour, rolled_at>>,
           clock' \in clock .. MaxClock,
           \/ sampling' = sampling
           \/ sampling' = NotSampling
           \/ /\ sampling' = [step |-> "asking", timestamp |-> clock]
              /\ \A s \in representatives_uptime : s.timestamp # clock
    PROVE  SamplingInv'
<1>1. /\ UptimeTypeOK /\ SamplesInTurn /\ clock \in 1 .. MaxClock /\ MaxClock \in Nat
      /\ representatives_uptime \subseteq SampleRows
  BY UptimeParameters DEF SamplingInv, UptimeTypeOK
<1>2. clock' \in 1 .. MaxClock /\ clock <= clock'
  BY <1>1
<1>3. \A s \in representatives_uptime : s.timestamp \in Nat /\ s.timestamp <= clock'
  BY <1>1, <1>2 DEF SamplesInTurn, SampleRows
<1>4. UptimeTypeOK'
  <2>1. CASE sampling' = sampling
    BY <1>1, <1>2, <2>1 DEF UptimeTypeOK
  <2>2. CASE sampling' = NotSampling
    BY <1>1, <1>2, <2>2 DEF UptimeTypeOK, NotSampling
  <2>3. CASE sampling' = [step |-> "asking", timestamp |-> clock]
    BY <1>1, <1>2, <2>3 DEF UptimeTypeOK
  <2> QED BY <2>1, <2>2, <2>3
<1>5. SamplesInTurn' /\ RollsTheRecent'
  <2>1. CASE sampling' = sampling
    BY <1>1, <1>3, <2>1 DEF SamplesInTurn, SamplingInv, RollsTheRecent, Recent
  <2>2. CASE sampling' = NotSampling
    BY <1>1, <1>3, <2>2 DEF SamplesInTurn, RollsTheRecent, NotSampling
  <2>3. CASE /\ sampling' = [step |-> "asking", timestamp |-> clock]
             /\ \A s \in representatives_uptime : s.timestamp # clock
    <3>1. \A s \in representatives_uptime : s.timestamp < clock
      BY <1>1, <1>3, <2>3 DEF SamplesInTurn
    <3> QED BY <1>1, <1>3, <2>3, <3>1 DEF SamplesInTurn, RollsTheRecent
  <2> QED BY <2>1, <2>2, <2>3
<1>6. RolledBySamples' /\ HoursRight'
  BY <1>1, HoursKept DEF UptimeTypeOK
<1> QED BY <1>4, <1>5, <1>6 DEF SamplingInv

LEMMA DropHoursStep == SamplingInv /\ DropHours => SamplingInv'
<1> SUFFICES ASSUME SamplingInv, DropHours PROVE SamplingInv'
  OBVIOUS
<1>1. /\ sampling' = NotSampling
      /\ UNCHANGED <<clock, accounts, representatives_uptime, rolled_at>>
  BY DEF DropHours
<1>2. PICK grouped : rollup_hour' = [rep \in Reps |->
                         IF rep \in grouped THEN rollup_hour[rep] ELSE <<>>]
  BY DEF DropHours
<1>3. UptimeTypeOK /\ SamplesInTurn
  BY DEF SamplingInv
<1>4. rollup_hour' \in [Reps -> HourTables]
  BY <1>2, <1>3 DEF UptimeTypeOK, HourTables
<1>5. \A rep \in Reps : rollup_hour'[rep] # <<>> => rollup_hour'[rep] = rollup_hour[rep]
  BY <1>2
<1>6. UptimeTypeOK' /\ SamplesInTurn' /\ RollsTheRecent'
  BY <1>1, <1>3, <1>4 DEF UptimeTypeOK, SamplesInTurn, RollsTheRecent, NotSampling
<1>7. RolledBySamples' /\ HoursRight'
  BY <1>1, <1>4, <1>5, HoursKept
<1> QED BY <1>6, <1>7 DEF SamplingInv

LEMMA SamplingStep == SamplingInv /\ [UptimeNext]_uptimeVars => SamplingInv'
<1> SUFFICES ASSUME SamplingInv, [UptimeNext]_uptimeVars PROVE SamplingInv'
  OBVIOUS
<1>1. clock \in 1 .. MaxClock /\ MaxClock \in Nat
  BY UptimeParameters DEF SamplingInv, UptimeTypeOK
<1>2. CASE ClockTicks
  <2>1. clock' \in clock .. MaxClock
    BY <1>1, <1>2 DEF ClockTicks
  <2> QED BY <1>2, <2>1, SamplingStays DEF ClockTicks
<1>3. CASE /\ UNCHANGED <<clock, accounts, representatives_uptime, rollup_hour, rolled_at>>
           /\ \/ sampling' = sampling
              \/ sampling' = NotSampling
              \/ /\ sampling' = [step |-> "asking", timestamp |-> clock]
                 /\ \A s \in representatives_uptime : s.timestamp # clock
  <2>1. clock' \in clock .. MaxClock
    BY <1>1, <1>3
  <2> QED BY <1>3, <2>1, SamplingStays
<1>4. CASE StartSampling
  BY <1>3, <1>4 DEF StartSampling
<1>5. CASE SamplingDies
  BY <1>3, <1>5 DEF SamplingDies
<1>6. CASE StartNight \/ ReadDay \/ SaveDay \/ NightDies
  BY <1>3, <1>6 DEF StartNight, ReadDay, SaveDay, NightDies
<1>7. CASE UNCHANGED uptimeVars
  BY <1>3, <1>7 DEF uptimeVars
<1> QED BY <1>2, <1>4, <1>5, <1>6, <1>7, ReadSamplesStep, DropHoursStep, RollHoursStep,
           SaveSamplesStep DEF UptimeNext

LEMMA SamplingIsRight == SamplingInv => HoursAreAsSampled
<1> SUFFICES ASSUME SamplingInv, NEW rep \in Reps, NEW interval \in DOMAIN rollup_hour[rep]
             PROVE  HourRight(rep, interval)
  BY DEF HoursAreAsSampled, HourRight, InHour
<1>1. rollup_hour[rep] \in HourTables
  BY DEF SamplingInv, UptimeTypeOK
<1>2. rollup_hour[rep] # <<>> /\ interval \in 0 .. FillHours - 1
  <2>1. CASE rollup_hour[rep] = <<>>
    <3>1. DOMAIN <<>> = {}
      OBVIOUS
    <3> QED BY <2>1, <3>1
  <2>2. CASE rollup_hour[rep] \in [0 .. FillHours - 1 -> {0, 1}]
    <3>1. DOMAIN rollup_hour[rep] = 0 .. FillHours - 1 /\ 0 \in DOMAIN rollup_hour[rep]
      BY <2>2, UptimeParameters
    <3>2. DOMAIN <<>> = {}
      OBVIOUS
    <3> QED BY <3>1, <3>2
  <2> QED BY <1>1, <2>1, <2>2 DEF HourTables
<1> QED BY <1>2 DEF SamplingInv, HoursRight

Today == Day(clock)

\* A night reads the day that begins, then the one that ended.
NightInTurn ==
    /\ night.step \in {"idle", "over", "read", "save"}
    /\ night.step \in {"read", "save"} =>
           /\ Today >= 1 /\ night.end = Today - 2
           /\ night.time \in {Today, Today - 1}

\* The day that ended is still to be read.
ToRead ==
    \/ night.step = "idle" /\ clock % PerDay = 0
    \/ night.step = "read"
    \/ night.step = "save" /\ night.time = Today

NightsAreOver ==
    /\ nights \subseteq 0 .. Today - 1
    /\ past \subseteq representatives_uptime
    /\ \A s \in past : Day(s.timestamp) <= Today - 1
    /\ ToRead \/ night.step = "save" => \A day \in nights : day < Today - 1
    /\ ToRead => \A s \in past : Day(s.timestamp) < Today - 1

OfDay(samples, day) == {s \in samples : Day(s.timestamp) = day}

DayIsRead ==
    night.step = "save" =>
        /\ night.uptime \subseteq OfDay(representatives_uptime, night.time)
        /\ \A rep \in Reps : rollup_day[<<rep, night.time>>] # NoRollup =>
               \E s \in night.uptime : s.account = rep
        /\ night.time = Today - 1 =>
               night.uptime = OfDay(representatives_uptime \ past, night.time)

RowsAreOfSamples ==
    \A rep \in Reps, day \in Days : rollup_day[<<rep, day>>] # NoRollup =>
        \E s \in OfDay(representatives_uptime, day) : s.account = rep

NightsInv ==
    NightInTurn /\ NightsAreOver /\ DayIsRead /\ RowsAreOfSamples /\ DaysAreWhole

LEMMA DayFacts ==
    ASSUME NEW t \in Nat
    PROVE  /\ Day(t) \in Nat
           /\ Day(t + 1) = Day(t) \/ Day(t + 1) = Day(t) + 1
           /\ (t + 1) % PerDay = 0 => Day(t + 1) = Day(t) + 1
           /\ t % PerDay = 0 /\ t >= 1 => Day(t) >= 1
           /\ \A u \in Nat : t <= u => Day(t) <= Day(u)
<1> DEFINE d == PerDay
           q == t \div d
           r == (t + 1) \div d
<1>1. d \in Nat \ {0}
  BY UptimeParameters
<1>2. q \in Int /\ d * q <= t /\ t < d * q + d
  BY <1>1, DivFacts
<1>3. r \in Int /\ d * r <= t + 1 /\ t + 1 < d * r + d
  BY <1>1, DivFacts
<1>4. \A k \in Int : t < k * d <=> q < k
  BY <1>1, DivBounds
<1>5. \A k \in Int : t + 1 < k * d <=> r < k
  BY <1>1, DivBounds
<1>6. q >= 0
  <2>1. 0 * d = 0
    BY <1>1
  <2> QED BY <1>2, <1>4, <2>1
<1>7. r = q \/ r = q + 1
  <2>1. r >= q
    <3>1. q * d <= t + 1 /\ q * d \in Int
      BY <1>1, <1>2
    <3> QED BY <1>2, <1>3, <1>5, <3>1
  <2>2. r < q + 2
    <3>1. (q + 2) * d = d * q + 2 * d
      BY <1>1, <1>2
    <3>2. t + 1 < (q + 2) * d
      BY <1>1, <1>2, <3>1
    <3>3. q + 2 \in Int
      BY <1>2
    <3> QED BY <1>5, <3>2, <3>3
  <2> QED BY <1>2, <1>3, <2>1, <2>2
<1>8. (t + 1) % d = 0 => r = q + 1
  <2>1. (t + 1) % d = (t + 1) - d * r
    BY <1>1
  <2>2. ASSUME (t + 1) % d = 0, r = q PROVE FALSE
    <3>1. t + 1 = d * q
      BY <1>1, <1>2, <2>1, <2>2
    <3> QED BY <1>2, <3>1
  <2> QED BY <1>7, <2>2
<1>9. t % d = 0 /\ t >= 1 => q >= 1
  <2>1. t % d = t - d * q
    BY <1>1
  <2>2. q = 0 => d * q = 0
    BY <1>1
  <2> QED BY <1>1, <1>2, <1>6, <2>1, <2>2
<1>10. ASSUME NEW u \in Nat, t <= u PROVE q <= u \div d
  <2> DEFINE w == u \div d
  <2>1. w \in Int /\ u < d * w + d
    BY <1>1, DivFacts
  <2>2. (w + 1) * d = d * w + d
    BY <1>1, <2>1
  <2>3. t < (w + 1) * d
    BY <1>1, <1>10, <2>1, <2>2
  <2>4. w + 1 \in Int
    BY <2>1
  <2>5. q < w + 1
    BY <1>4, <2>3, <2>4
  <2> QED BY <1>2, <2>1, <2>5
<1> QED BY <1>2, <1>6, <1>7, <1>8, <1>9, <1>10 DEF Day

LEMMA TodayFacts ==
    ASSUME SamplingInv
    PROVE  /\ clock \in Nat /\ clock >= 1 /\ Today \in Nat /\ Today \in Days
           /\ 0 .. Today - 1 \subseteq Days
           /\ \A s \in representatives_uptime :
                  s.timestamp \in Nat /\ Day(s.timestamp) \in Nat
<1>1. clock \in Nat /\ MaxClock \in Nat /\ clock >= 1 /\ clock <= MaxClock
  BY UptimeParameters DEF SamplingInv, UptimeTypeOK
<1>2. Day(clock) \in Nat /\ Day(MaxClock) \in Nat /\ Day(clock) <= Day(MaxClock)
  BY <1>1, DayFacts
<1>3. \A s \in representatives_uptime : s.timestamp \in Nat
  BY DEF SamplingInv, UptimeTypeOK, SampleRows
<1>4. \A s \in representatives_uptime : Day(s.timestamp) \in Nat
  BY <1>3, DayFacts
<1> QED BY <1>1, <1>2, <1>3, <1>4 DEF Today, Days

LEMMA NoCounts == Counts({}) = NoRollup
<1>1. {s \in {} : s.online = 1} = {} /\ {s \in {} : s.online = 0} = {}
  OBVIOUS
<1> QED BY <1>1, FS_EmptySet DEF Counts, NoRollup

LEMMA NightsInitInv == UptimeInit => NightsInv
<1> SUFFICES ASSUME UptimeInit PROVE NightsInv
  OBVIOUS
<1>1. NightInTurn /\ NightsAreOver /\ DayIsRead /\ DaysAreWhole
  BY DEF UptimeInit, NotRolling, NightInTurn, NightsAreOver, DayIsRead, DaysAreWhole
<1>2. RowsAreOfSamples
  BY DEF UptimeInit, RowsAreOfSamples
<1> QED BY <1>1, <1>2 DEF NightsInv

LEMMA NightTicks == SamplingInv /\ NightsInv /\ ClockTicks => NightsInv'
<1> SUFFICES ASSUME SamplingInv, NightsInv, ClockTicks PROVE NightsInv'
  OBVIOUS
<1>1. /\ clock' = clock + 1 /\ (Day(clock + 1) # Day(clock) => night.step \in {"idle", "over"})
      /\ night' = IF night.step = "over" THEN NotRolling ELSE night
      /\ UNCHANGED <<representatives_uptime, rollup_day, nights, past>>
  BY DEF ClockTicks
<1>2. /\ Today \in Nat /\ Today' = Day(clock + 1)
      /\ Today' = Today \/ Today' = Today + 1
      /\ clock' % PerDay = 0 => Today' = Today + 1
  BY <1>1, TodayFacts, DayFacts DEF Today
<1>3. /\ NightInTurn /\ NightsAreOver /\ DayIsRead /\ RowsAreOfSamples /\ DaysAreWhole
      /\ \A s \in past : Day(s.timestamp) \in Nat
  BY TodayFacts DEF NightsInv, NightsAreOver
<1>4. RowsAreOfSamples' /\ DaysAreWhole'
  BY <1>1, <1>3 DEF RowsAreOfSamples, DaysAreWhole, OfDay
<1>5. CASE Today' = Today
  <2>1. clock' % PerDay # 0
    BY <1>2, <1>5
  <2>2. CASE night' = night
    <3>1. NightInTurn' /\ DayIsRead'
      BY <1>1, <1>3, <1>5, <2>2 DEF NightInTurn, DayIsRead
    <3>2. ToRead' => ToRead
      BY <1>5, <2>1, <2>2 DEF ToRead
    <3>3. NightsAreOver'
      BY <1>1, <1>3, <1>5, <2>2, <3>2 DEF NightsAreOver
    <3> QED BY <1>4, <3>1, <3>3 DEF NightsInv
  <2>3. CASE night' = NotRolling
    <3>1. NightInTurn' /\ DayIsRead' /\ ~ ToRead' /\ night'.step # "save"
      BY <2>1, <2>3 DEF NightInTurn, DayIsRead, NotRolling, ToRead
    <3>2. NightsAreOver'
      BY <1>1, <1>3, <1>5, <3>1 DEF NightsAreOver
    <3> QED BY <1>4, <3>1, <3>2 DEF NightsInv
  <2> QED BY <1>1, <2>2, <2>3
<1>6. CASE Today' = Today + 1
  <2>1. Day(clock + 1) # Day(clock)
    BY <1>2, <1>6 DEF Today
  <2>2. night'.step = "idle"
    BY <1>1, <2>1 DEF NotRolling
  <2>3. NightInTurn' /\ DayIsRead'
    BY <2>2 DEF NightInTurn, DayIsRead
  <2>4. /\ \A day \in nights : day \in 0 .. Today' - 1 /\ day < Today' - 1
        /\ \A s \in past : Day(s.timestamp) < Today' - 1 /\ Day(s.timestamp) <= Today' - 1
    BY <1>2, <1>3, <1>6 DEF NightsAreOver
  <2>5. NightsAreOver'
    BY <1>1, <1>3, <2>2, <2>4 DEF NightsAreOver
  <2> QED BY <1>4, <2>3, <2>5 DEF NightsInv
<1> QED BY <1>2, <1>5, <1>6

LEMMA NightActs ==
    ASSUME SamplingInv, NightsInv, StartNight \/ ReadDay \/ NightDies
    PROVE  NightsInv'
<1>1. UNCHANGED <<clock, representatives_uptime, rollup_day, nights, past>>
  BY DEF StartNight, ReadDay, NightDies
<1>2. Today' = Today
  BY <1>1 DEF Today
<1>3. NightInTurn /\ NightsAreOver /\ DayIsRead /\ RowsAreOfSamples /\ DaysAreWhole
  BY DEF NightsInv
<1>4. RowsAreOfSamples' /\ DaysAreWhole'
  BY <1>1, <1>3 DEF RowsAreOfSamples, DaysAreWhole, OfDay
<1>5. CASE StartNight
  <2>1. /\ night.step = "idle" /\ clock % PerDay = 0
        /\ night' = [step |-> "read", time |-> Today, end |-> Today - 2]
    BY <1>5 DEF StartNight, EndOf, Today
  <2>2. ToRead /\ ToRead' /\ night'.step = "read" /\ Today >= 1
    BY <2>1, TodayFacts, DayFacts DEF ToRead, Today
  <2>3. NightInTurn' /\ DayIsRead'
    BY <1>2, <2>1, <2>2 DEF NightInTurn, DayIsRead
  <2>4. NightsAreOver'
    BY <1>1, <1>2, <1>3, <2>2 DEF NightsAreOver
  <2> QED BY <1>4, <2>3, <2>4 DEF NightsInv
<1>6. CASE ReadDay
  <2> DEFINE read == OfDay(representatives_uptime, night.time)
  <2>1. /\ night.step = "read"
        /\ night' = [ step |-> "save", time |-> night.time, end |-> night.end, uptime |-> read ]
    BY <1>6 DEF ReadDay, OfDay
  <2> HIDE DEF read
  <2>2. /\ night'.step = "save" /\ night'.time = night.time /\ night'.end = night.end
        /\ night'.uptime = read /\ ToRead
    BY <2>1 DEF ToRead
  <2>3. NightInTurn'
    BY <1>2, <1>3, <2>1, <2>2 DEF NightInTurn
  <2>4. NightsAreOver'
    BY <1>1, <1>2, <1>3, <2>2 DEF NightsAreOver
  <2>5. night.time \in Days
    BY <1>3, <2>1, TodayFacts DEF NightInTurn
  <2>6. \A rep \in Reps : rollup_day[<<rep, night.time>>] # NoRollup =>
            \E s \in read : s.account = rep
    BY <1>3, <2>5 DEF RowsAreOfSamples, read
  <2>7. night.time = Today - 1 => read = OfDay(representatives_uptime \ past, night.time)
    <3>1. \A s \in past : Day(s.timestamp) # Today - 1
      BY <1>3, <2>2, TodayFacts DEF NightsAreOver
    <3> QED BY <3>1 DEF read, OfDay
  <2>8. DayIsRead'
    BY <1>1, <1>2, <2>2, <2>6, <2>7 DEF DayIsRead, read, OfDay
  <2> QED BY <1>4, <2>3, <2>4, <2>8 DEF NightsInv
<1>7. CASE NightDies
  <2>1. night'.step = "over"
    BY <1>7 DEF NightDies, Over
  <2>2. NightInTurn' /\ DayIsRead' /\ ~ ToRead'
    BY <2>1 DEF NightInTurn, DayIsRead, ToRead
  <2>3. NightsAreOver'
    BY <1>1, <1>2, <1>3, <2>1, <2>2 DEF NightsAreOver
  <2> QED BY <1>4, <2>2, <2>3 DEF NightsInv
<1> QED BY <1>5, <1>6, <1>7

LEMMA SaveDayStep == SamplingInv /\ NightsInv /\ SaveDay => NightsInv'
<1> SUFFICES ASSUME SamplingInv, NightsInv, SaveDay PROVE NightsInv'
  OBVIOUS
<1> DEFINE time == night.time
           values(rep) == {s \in night.uptime : s.account = rep}
<1>1. /\ night.step = "save"
      /\ rollup_day' = [k \in Reps \X Days |->
             IF k[2] = time /\ values(k[1]) # {} THEN Counts(values(k[1]))
             ELSE rollup_day[k]]
      /\ UNCHANGED <<clock, representatives_uptime, past>>
  BY DEF SaveDay
<1>2. /\ NightInTurn /\ NightsAreOver /\ DayIsRead /\ RowsAreOfSamples /\ DaysAreWhole
      /\ Today' = Today /\ Today \in Nat /\ Today >= 1
      /\ night.end = Today - 2 /\ time \in {Today, Today - 1}
      /\ \A day \in nights : day < Today - 1 /\ day \in Days
      /\ night.uptime \subseteq OfDay(representatives_uptime, time)
      /\ time \in Days
  <2>1. /\ NightInTurn /\ NightsAreOver /\ DayIsRead /\ RowsAreOfSamples /\ DaysAreWhole
        /\ Today \in Nat /\ Today \in Days /\ 0 .. Today - 1 \subseteq Days
    BY TodayFacts DEF NightsInv
  <2>2. Today' = Today
    BY <1>1 DEF Today
  <2>3. Today >= 1 /\ night.end = Today - 2 /\ time \in {Today, Today - 1}
    BY <1>1, <2>1 DEF NightInTurn
  <2>4. nights \subseteq 0 .. Today - 1 /\ \A day \in nights : day < Today - 1
    BY <1>1, <2>1 DEF NightsAreOver
  <2>5. night.uptime \subseteq OfDay(representatives_uptime, time)
    BY <1>1, <2>1 DEF DayIsRead
  <2>6. time \in Days
    <3>1. Today - 1 \in 0 .. Today - 1
      BY <2>1, <2>3
    <3> QED BY <2>1, <2>3, <3>1
  <2> QED BY <2>1, <2>2, <2>3, <2>4, <2>5, <2>6
<1>3. ASSUME NEW rep \in Reps, NEW day \in Days
      PROVE  rollup_day'[<<rep, day>>] =
                 IF day = time /\ values(rep) # {} THEN Counts(values(rep))
                 ELSE rollup_day[<<rep, day>>]
  <2> HIDE DEF values, time
  <2> QED BY <1>1
<1>4. RowsAreOfSamples'
  <2> SUFFICES ASSUME NEW rep \in Reps, NEW day \in Days,
                      rollup_day'[<<rep, day>>] # NoRollup
               PROVE  \E s \in OfDay(representatives_uptime, day) : s.account = rep
    BY <1>1 DEF RowsAreOfSamples, OfDay
  <2>1. CASE day = time /\ values(rep) # {}
    BY <1>2, <2>1 DEF OfDay
  <2>2. CASE ~ (day = time /\ values(rep) # {})
    <3>1. rollup_day[<<rep, day>>] # NoRollup
      <4> HIDE DEF values, time
      <4> QED BY <1>3, <2>2
    <3> QED BY <1>2, <3>1 DEF RowsAreOfSamples
  <2> QED BY <2>1, <2>2
<1>5. ASSUME NEW day \in nights, NEW rep \in Reps
      PROVE  rollup_day'[<<rep, day>>] =
                 Counts({s \in representatives_uptime \ past :
                             s.account = rep /\ Day(s.timestamp) = day})
  <2>1. day # time /\ day \in Days
    BY <1>2
  <2>2. rollup_day'[<<rep, day>>] = rollup_day[<<rep, day>>]
    <3> HIDE DEF values, time
    <3> QED BY <1>3, <2>1
  <2> QED BY <1>2, <2>2 DEF DaysAreWhole
<1>6. UNCHANGED <<representatives_uptime, past>>
  BY <1>1
<1>7. CASE time = Today
  <2>1. /\ night' = [step |-> "read", time |-> time - 1, end |-> night.end]
        /\ nights' = nights
    BY <1>2, <1>7 DEF SaveDay
  <2>2. night'.step = "read" /\ night'.time = time - 1 /\ night'.end = night.end /\ ToRead
    BY <1>1, <1>7, <2>1 DEF ToRead
  <2>3. NightInTurn' /\ DayIsRead'
    BY <1>2, <1>7, <2>2 DEF NightInTurn, DayIsRead
  <2>4. NightsAreOver'
    BY <1>1, <1>2, <2>1, <2>2 DEF NightsAreOver
  <2>5. DaysAreWhole'
    BY <1>5, <1>6, <2>1 DEF DaysAreWhole
  <2> QED BY <1>4, <2>3, <2>4, <2>5 DEF NightsInv
<1>8. CASE time = Today - 1
  <2>1. night' = Over /\ nights' = nights \cup {time}
    BY <1>2, <1>8 DEF SaveDay, Today
  <2>2. NightInTurn' /\ DayIsRead' /\ ~ ToRead' /\ night'.step # "save"
    BY <2>1 DEF NightInTurn, DayIsRead, ToRead, Over
  <2>3. NightsAreOver'
    BY <1>1, <1>2, <1>8, <2>1, <2>2 DEF NightsAreOver
  <2>4. ASSUME NEW rep \in Reps
        PROVE  rollup_day'[<<rep, time>>] =
                   Counts({s \in representatives_uptime \ past :
                               s.account = rep /\ Day(s.timestamp) = time})
    <3>1. night.uptime = OfDay(representatives_uptime \ past, time)
      BY <1>1, <1>2, <1>8 DEF DayIsRead
    <3>2. values(rep) = {s \in representatives_uptime \ past :
                             s.account = rep /\ Day(s.timestamp) = time}
      <4> HIDE DEF time
      <4> QED BY <3>1 DEF OfDay
    <3>3. CASE values(rep) # {}
      <4>1. rollup_day'[<<rep, time>>] = Counts(values(rep))
        <5> HIDE DEF values, time
        <5> QED BY <1>2, <1>3, <3>3
      <4> QED BY <3>2, <4>1
    <3>4. CASE values(rep) = {}
      <4>1. rollup_day'[<<rep, time>>] = rollup_day[<<rep, time>>]
        <5> HIDE DEF values, time
        <5> QED BY <1>2, <1>3, <3>4
      <4>2. rollup_day[<<rep, time>>] = NoRollup
        BY <1>1, <1>2, <3>4 DEF DayIsRead
      <4>3. rollup_day'[<<rep, time>>] = Counts(values(rep))
        BY <3>4, <4>1, <4>2, NoCounts
      <4> QED BY <3>2, <4>3
    <3> QED BY <3>3, <3>4
  <2>5. \A day \in nights', rep \in Reps :
            rollup_day'[<<rep, day>>] =
                Counts({s \in representatives_uptime \ past :
                            s.account = rep /\ Day(s.timestamp) = day})
    <3> HIDE DEF values, time
    <3> QED BY <1>5, <2>1, <2>4
  <2>6. DaysAreWhole'
    BY <1>6, <2>5 DEF DaysAreWhole
  <2> QED BY <1>4, <2>2, <2>3, <2>6 DEF NightsInv
<1> QED BY <1>2, <1>7, <1>8

LEMMA NightOfSamples ==
    ASSUME SamplingInv, NightsInv, NEW onlineReps \in Answers, SaveSamples(onlineReps)
    PROVE  NightsInv'
<1> DEFINE t == sampling.timestamp
           new == Samples(onlineReps)
<1>1. /\ sampling.step = "asking"
      /\ representatives_uptime' = representatives_uptime \cup new
      /\ past' = IF HasRead(Day(t)) THEN past \cup new ELSE past
      /\ UNCHANGED <<clock, rollup_day, night, nights>>
  BY DEF SaveSamples
<1>2. /\ NightInTurn /\ NightsAreOver /\ DayIsRead /\ RowsAreOfSamples /\ DaysAreWhole
      /\ Today' = Today /\ Today \in Nat /\ past \subseteq representatives_uptime
      /\ \A s \in representatives_uptime : s.timestamp \in Nat
  BY <1>1, TodayFacts DEF NightsInv, NightsAreOver, Today
<1>3. t \in Nat /\ Day(t) \in Nat /\ \A s \in representatives_uptime : s.timestamp < t
  <2>1. t \in 1 .. clock /\ clock \in Nat
    BY <1>1, TodayFacts DEF SamplingInv, UptimeTypeOK
  <2>2. t \in Nat
    BY <2>1
  <2> QED BY <1>1, <2>2, DayFacts DEF SamplingInv, SamplesInTurn
<1>4. \A s \in new : s.timestamp = t
  BY DEF Samples
<1>5. new \cap representatives_uptime = {}
  <2> SUFFICES ASSUME NEW s \in new, s \in representatives_uptime PROVE FALSE
    OBVIOUS
  <2>1. s.timestamp = t /\ s.timestamp < t
    BY <1>3, <1>4
  <2> QED BY <1>3, <2>1
<1>6. \A s \in new : Day(s.timestamp) = Day(t)
  BY <1>4
<1> HIDE DEF new, t
\* A day that is read keeps the samples it was read with.
<1>7. ASSUME NEW day, HasRead(day)
      PROVE  OfDay(representatives_uptime \ past, day)'
                 = OfDay(representatives_uptime \ past, day)
  BY <1>1, <1>2, <1>5, <1>6, <1>7 DEF OfDay
<1>8. HasRead(Day(t)) =>
          /\ Day(t) <= Today - 1
          /\ ToRead => Day(t) < Today - 1
  <2>1. CASE Day(t) \in nights
    <3>1. Day(t) \in 0 .. Today - 1 /\ (ToRead => Day(t) < Today - 1)
      BY <1>2, <2>1 DEF NightsAreOver
    <3> QED BY <3>1
  <2>2. CASE night.step = "save" /\ Day(t) = night.time /\ Day(t) = night.end + 1
    <3>1. Day(t) = Today - 1
      BY <1>2, <2>2 DEF NightInTurn
    <3>2. ~ ToRead
      BY <1>2, <2>2, <3>1 DEF ToRead
    <3> QED BY <1>2, <3>1, <3>2
  <2> QED BY <2>1, <2>2 DEF HasRead
<1>9. ToRead' = ToRead /\ NightInTurn'
  BY <1>1, <1>2 DEF ToRead, NightInTurn
<1>10. NightsAreOver'
  <2>1. past' \subseteq representatives_uptime'
    BY <1>1, <1>2
  <2>2. \A s \in past' : s \in past \/ (s \in new /\ HasRead(Day(t)))
    BY <1>1
  <2>3. \A s \in past' : Day(s.timestamp) <= Today - 1
    BY <1>2, <1>6, <1>8, <2>2 DEF NightsAreOver
  <2>4. ToRead => \A s \in past' : Day(s.timestamp) < Today - 1
    BY <1>2, <1>6, <1>8, <2>2 DEF NightsAreOver
  <2> QED BY <1>1, <1>2, <1>9, <2>1, <2>3, <2>4 DEF NightsAreOver
<1>11. DayIsRead'
  <2>1. night.step = "save" /\ night.time = Today - 1 => HasRead(night.time)
    BY <1>2 DEF HasRead, NightInTurn
  <2>2. night.step = "save" /\ night.time = Today - 1 =>
            OfDay(representatives_uptime \ past, night.time)'
                = OfDay(representatives_uptime \ past, night.time)
    BY <1>1, <1>7, <2>1 DEF OfDay
  <2>3. OfDay(representatives_uptime, night.time)
            \subseteq OfDay(representatives_uptime', night.time)
    BY <1>1 DEF OfDay
  <2> QED BY <1>1, <1>2, <2>2, <2>3 DEF DayIsRead, OfDay
<1>12. RowsAreOfSamples'
  BY <1>1, <1>2 DEF RowsAreOfSamples, OfDay
<1>13. DaysAreWhole'
  <2> SUFFICES ASSUME NEW day \in nights, NEW rep \in Reps
               PROVE  rollup_day[<<rep, day>>] =
                          Counts({s \in (representatives_uptime \ past)' :
                                      s.account = rep /\ Day(s.timestamp) = day})
    BY <1>1 DEF DaysAreWhole
  <2>1. OfDay(representatives_uptime \ past, day)' = OfDay(representatives_uptime \ past, day)
    BY <1>7 DEF HasRead
  <2>2. {s \in (representatives_uptime \ past)' : s.account = rep /\ Day(s.timestamp) = day}
         = {s \in representatives_uptime \ past : s.account = rep /\ Day(s.timestamp) = day}
    BY <2>1 DEF OfDay
  <2>3. rollup_day[<<rep, day>>] =
            Counts({s \in representatives_uptime \ past :
                        s.account = rep /\ Day(s.timestamp) = day})
    BY <1>2 DEF DaysAreWhole
  <2> QED BY <2>2, <2>3
<1> QED BY <1>9, <1>10, <1>11, <1>12, <1>13 DEF NightsInv

LEMMA NightsStay ==
    ASSUME NightsInv,
           UNCHANGED <<clock, representatives_uptime, rollup_day, night, nights, past>>
    PROVE  NightsInv'
BY DEF NightsInv, NightInTurn, NightsAreOver, ToRead, DayIsRead, RowsAreOfSamples,
       DaysAreWhole, OfDay, Today

LEMMA NightsStep == SamplingInv /\ NightsInv /\ [UptimeNext]_uptimeVars => NightsInv'
<1> SUFFICES ASSUME SamplingInv, NightsInv, [UptimeNext]_uptimeVars PROVE NightsInv'
  OBVIOUS
<1>1. CASE StartSampling \/ ReadSamples \/ DropHours \/ SamplingDies
  BY <1>1, NightsStay DEF StartSampling, ReadSamples, DropHours, SamplingDies
<1>2. CASE \E rep \in Reps : RollHours(rep)
  BY <1>2, NightsStay DEF RollHours
<1>3. CASE UNCHANGED uptimeVars
  BY <1>3, NightsStay DEF uptimeVars
<1> QED BY <1>1, <1>2, <1>3, NightTicks, NightActs, SaveDayStep, NightOfSamples
        DEF UptimeNext

\* What the two tables say is what was sampled, whichever runs of the sampler
\* and of the rollup died or were late.
THEOREM RollupsMatchSamples == UptimeSpec => []RollupsAreAsSampled
<1>1. UptimeInit => SamplingInv /\ NightsInv
  BY SamplingInitInv, NightsInitInv
<1>2. SamplingInv /\ NightsInv /\ [UptimeNext]_uptimeVars => (SamplingInv /\ NightsInv)'
  BY SamplingStep, NightsStep
<1>3. SamplingInv /\ NightsInv => RollupsAreAsSampled
  BY SamplingIsRight DEF NightsInv, RollupsAreAsSampled
<1> QED BY <1>1, <1>2, <1>3, PTL DEF UptimeSpec
=============================================================================
