---------------------------- MODULE PostImports -----------------------------
(***************************************************************************)
(* The importers of posts that cron or an operator runs again and again    *)
(* (scripts/import-discord.mjs, import-forum.mjs, import-subreddit.mjs,    *)
(* import-reddit-user.mjs).  Each pages through its source from the newest *)
(* message back and stops at the message that was its newest when it       *)
(* began, so what an earlier run did not reach is taken to be there.       *)
(* Messages are numbered in the order they are posted.                     *)
(***************************************************************************)
EXTENDS Integers, FiniteSets, FiniteSetsExt

CONSTANTS Importers,    \* runs, which may overlap: cron starts one on the quarter
          Sources,      \* "discord", "forum", "subreddit", "reddit_user"
          Shared,       \* messages that come with the other Reddit importer too
          PageSize,     \* messages of a page
          Week,         \* messages posted in the week a Discord run looks back on
          MaxMessages,  \* bound on the messages of the source
          MaxCuts       \* bound on failed requests and killed runs

ASSUME PostsAssumption == PageSize \in Nat \ {0} /\ Week \in Nat /\ Shared \subseteq Nat

VARIABLES
    source,     \* where the messages are posted
    sent,       \* how many messages it has
    posts,      \* table posts, of the source
    foreign,    \* those that only the other Reddit importer has stored
    importers,  \* per run: step, last message before it, cursor and page
    cuts,       \* requests failed and runs killed so far
    passed      \* messages that a run cut short or misled will not reach

postVars == <<source, sent, posts, foreign, importers, cuts, passed>>

NotImporting == [step |-> "idle", last |-> 0, before |-> 0, page |-> {}]

PostsInit ==
    /\ source \in Sources
    /\ sent = 1
    /\ posts = {}
    /\ foreign = {}
    /\ importers = [r \in Importers |-> NotImporting]
    /\ cuts = 0
    /\ passed = {}

SendMessage ==
    /\ sent < MaxMessages
    /\ sent' = sent + 1
    /\ UNCHANGED <<source, posts, foreign, importers, cuts, passed>>

\* A Reddit user's post is a row of its subreddit, whichever script stores it.
OtherImport ==
    /\ source \in {"subreddit", "reddit_user"}
    /\ \E page \in SUBSET (Shared \cap 1 .. sent) \ {{}} :
          /\ posts' = posts \cup page
          /\ foreign' = foreign \cup (page \ posts)
    /\ UNCHANGED <<source, sent, importers, cuts, passed>>

Newest == Max(posts \cup {0})

\* The message to stop at, 0 for none: the newest stored one, whichever script
\* stored it.  A Reddit user's is never found in its pid; a subreddit's is not
\* when its newest row is a comment that came with a user.
LastMessages == CASE source = "reddit_user" -> {0}
                  [] source = "subreddit" -> {0, Newest}
                  [] OTHER -> {Newest}

\* What a run misses without being cut short: the message it is to stop at came
\* with a user, and says nothing of those before it.
Misled(last) == IF last \in foreign THEN 1 .. last \ posts ELSE {}

StartImport(r) ==
    /\ importers[r].step = "idle"
    /\ \E last \in LastMessages :
          /\ importers' = [importers EXCEPT ![r] =
                [step |-> "fetch", last |-> last, before |-> sent + 1, page |-> {}]]
          /\ passed' = passed \cup Misled(last)
    /\ UNCHANGED <<source, sent, posts, foreign, cuts>>

\* What r has still to reach of what it came for, if it stops here.
Unreached(r, before) ==
    {m \in 1 .. sent : importers[r].last < m /\ m < before} \ posts

Ends(r) == importers' = [importers EXCEPT ![r] = NotImporting]

CutShort(r) == Ends(r) /\ passed' = passed \cup Unreached(r, importers[r].before)

\* The first page is of the newest messages as the request is answered.
Older(r) ==
    {m \in 1 .. sent : importers[r].page = {} \/ m < importers[r].before}

Page(r) == {m \in Older(r) : Cardinality({n \in Older(r) : n > m}) < PageSize}

FetchPage(r) ==
    /\ importers[r].step = "fetch"
    /\ \/ /\ Page(r) # {}
          /\ importers' = [importers EXCEPT ![r].step = "save", ![r].page = Page(r)]
       \/ Page(r) = {} /\ Ends(r)
    /\ UNCHANGED <<source, sent, posts, foreign, cuts, passed>>

\* A failed request leaves the last answer in place, if there was one, and it is
\* gone through again: Discord and Reddit users then ask for the same page,
\* the forum sees its cursor has not moved.  import-subreddit forgets it.
AsksAgain(r) == importers[r].page # {} /\ source \in {"discord", "reddit_user"}

FetchFails(r) ==
    /\ importers[r].step = "fetch"
    /\ cuts < MaxCuts
    /\ cuts' = cuts + 1
    /\ IF AsksAgain(r) THEN UNCHANGED <<importers, passed>>
       ELSE CutShort(r)
    /\ UNCHANGED <<source, sent, posts, foreign>>

ReachesLast(r) == importers[r].last \in importers[r].page

\* Only the Discord importer also stops at a message of more than a week ago.
ReachesWeekAgo(r) == source = "discord" /\ Min(importers[r].page) + Week <= sent

\* As if the page with the last message were not saved.
SavePageUnlessLast(r) ==
    /\ importers[r].step = "save"
    /\ IF ReachesLast(r) THEN Ends(r) /\ UNCHANGED <<posts, foreign>>
       ELSE /\ posts' = posts \cup importers[r].page
            /\ foreign' = foreign \ importers[r].page
            /\ importers' = [importers EXCEPT ![r].step = "fetch",
                                              ![r].before = Min(importers[r].page)]
    /\ UNCHANGED <<source, sent, cuts, passed>>

\* The page is upserted by url, then the next is asked for.
SavePage(r) ==
    /\ importers[r].step = "save"
    /\ LET page == importers[r].page
       IN  /\ posts' = posts \cup page
           /\ foreign' = foreign \ page
           /\ IF ReachesLast(r) \/ ReachesWeekAgo(r) THEN Ends(r)
              ELSE importers' = [importers EXCEPT ![r].step = "fetch", ![r].before = Min(page)]
           /\ passed' = IF ReachesWeekAgo(r) THEN passed \cup Unreached(r, Min(page))
                        ELSE passed
    /\ UNCHANGED <<source, sent, cuts>>

\* The database refuses the page, or the process is killed.
ImportKilled(r) ==
    /\ importers[r].step # "idle"
    /\ cuts < MaxCuts
    /\ cuts' = cuts + 1
    /\ CutShort(r)
    /\ UNCHANGED <<source, sent, posts, foreign>>

PostsNext ==
    \/ SendMessage \/ OtherImport
    \/ \E r \in Importers : \/ StartImport(r) \/ FetchPage(r) \/ FetchFails(r)
                            \/ SavePage(r) \/ ImportKilled(r)

PostsSpec == PostsInit /\ [][PostsNext]_postVars

-----------------------------------------------------------------------------
(* Properties *)

\* r is on its way to the message.
Coming(r, m) ==
    /\ importers[r].step # "idle"
    /\ importers[r].last < m
    /\ importers[r].page = {} \/ m < importers[r].before \/ m \in importers[r].page

\* The newest message that the source's own importer has stored.
Reached == Max((posts \ foreign) \cup {0})

\* A message older than one its own importer stored is stored too, or a run that
\* overlaps is on its way to it: although each run trusts that everything before
\* the newest row it finds was imported.  Excepted, by name in passed: what a run
\* cut short had still to reach, and what is older than a user's post on which a
\* subreddit's run stops.
NoGapOpens ==
    \A m \in 1 .. Reached :
        m \in posts \cup passed \/ \E r \in Importers : Coming(r, m)
=============================================================================
