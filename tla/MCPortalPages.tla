---------------------------- MODULE MCPortalPages ---------------------------
(***************************************************************************)
(* The portal's pages in one run.  A behaviour has one subject: a visitor  *)
(* of the network events, the table, the posts, the documents, the stores  *)
(* of one answer, the accounts or the charts, or one with a key to post    *)
(* with in two tabs.  The subjects share no state, so the others rest.     *)
(***************************************************************************)
EXTENDS BrowsingPages, AccountPages, SignerIdentity

CONSTANTS v1, v2, full, short, bare, doc1, doc2, label, a1, a2, t1, t2, k1, k2, k3

MCViews == {v1, v2}
MCTableStates == {full, short, bare}
MCAges == [top |-> {24, 168}, trending |-> {72}]
MCPaths == {doc1, doc2, label}
MCLabels == {label}
MCAccounts == {a1, a2}
MCListed == {a1}
MCTabs == {t1, t2}
MCKeys == {k1, k2, k3}

MCSingle == {"daily", "weight", "weight_history", "network_stats",
             "github_events", "github_discussions"}
MCSingleLatest == {"daily", "weight", "weight_history"}
MCFlagged == {"daily", "github_discussions"}

VARIABLE focus

pageVars == <<browsingVars, accountVars, requestVars>>

MCVars == <<pageVars, identityVars, focus>>

Subjects == {"events", "table", "posts", "docs", "singles", "accounts", "charts", "identity"}

MCInit ==
    /\ RequestsInit /\ BrowsingInit /\ AccountsInit /\ IdentityInit
    /\ focus \in Subjects
    /\ focus # "table" => views = [v \in Views |-> full]

Browses ==
    \/ focus = "events" /\ NetworkEventsPage
    \/ focus = "table" /\ TablePage
    \/ focus = "posts" /\ PostsPage
    \/ focus = "docs" /\ DocsPage
    \/ focus = "singles" /\ SinglePages

MCNext ==
    /\ UNCHANGED focus
    /\ \/ (Browses \/ BrowsingAnswers) /\ UNCHANGED <<accountVars, identityVars>>
       \/ /\ \/ focus = "accounts" /\ AccountAsks
             \/ focus = "charts" /\ ChartAsks
             \/ AccountAnswers \/ ChartAnswers
          /\ UNCHANGED <<browsingVars, identityVars>>
       \/ focus = "identity" /\ IdentityNext /\ UNCHANGED pageVars

\* Every request is answered or fails, and every start-up goes on.
MCFairness ==
    /\ WF_pageVars(BrowsingAnswers /\ UNCHANGED <<accountVars, identityVars>>)
    /\ WF_pageVars(AccountAnswers /\ UNCHANGED <<browsingVars, identityVars>>)
    /\ WF_pageVars(ChartAnswers /\ UNCHANGED <<browsingVars, identityVars>>)
    /\ \A tab \in Tabs :
        WF_identityVars(focus = "identity" /\ StartUp(tab) /\ UNCHANGED pageVars)

MCSpec == MCInit /\ [][MCNext]_MCVars /\ MCFairness

-----------------------------------------------------------------------------
(* Properties *)

\* What a page shows belongs to what was last asked of it, however the answers
\* are ordered, except where two requests for a table or a list were under way
\* at once; and what was got is not asked for again (the reducers of
\* network-events, data-view-request, postlists, docs and api).
ShownIsAsked ==
    /\ EventsAreTheLastAsked
    /\ TableShowsItsView
    /\ ListsShowOneAge
    /\ CommitsBelongToContent
    /\ ChartsAskedOnce
    /\ ChartsRetryable

\* No page loads forever, whatever its requests answer and whichever of them a
\* later action cancels, except an account's summaries that failed, a chart
\* whose request was cancelled, and the table after a rename cancelled its
\* request or with no columns to ask for.
PagesSettle ==
    /\ BrowsingSettles
    /\ AccountSettles
    /\ focus = "identity" => \A tab \in Tabs : StartUpEnds(tab)

\* A tab never drops the stored key it posts with before storage says that it
\* was saved elsewhere (needs_backup and what the account page offers by it).  A
\* mark that a stale tab made for its own key counts for the stored one.
UnsavedKeysSurvive == [][\A tab \in Tabs : KeepsItsUnsavedKey(tab)]_MCVars
=============================================================================
