# TLA+ models of nano-community

Formal models of the protocol parts of nano.community, checked with TLC and,
where it matters most, proved with TLAPS. Paths below are relative to the
repository. `PROJECT.json` lists for every definition the source lines it stands
for, for every property a mutated definition that breaks it, and the hazards
the properties are aimed at.

Modelled are the task board (the view every client derives from signed events,
the web of trust, the relay's write policy, the portal and the command line
client that publish), the API's signed requests (keys, block notes, labels), the
jobs that make network data (telemetry, network events, their archive, uptime), the
imports of posts and delegators, the site analytics endpoint, and the stores behind
the portal's pages.

## Inventory

### Task board (common/task-board, portal, relay, command line)

Contributors sign nostr events (issues, statuses, labels, claims, comments,
pledges, vouch and block sets, attestations, announcements, deletion requests)
and publish them to relays. No server owns the board: each client reduces the
events it has to a board, and the protocol promises that clients with the same
events show the same board. The community relay decides what it stores by the
same web of trust.

| part | state | operations | what is hard |
| --- | --- | --- | --- |
| events and order: `constants.mjs`, `count-event-pow.mjs`, `build-task-board-events.mjs` | none | order by (created_at, id), proof of work, expiry | ties within one second; expirations past the cap |
| web of trust: `build-trust-graph.mjs` | none | latest sets, attestations, earned vouches, graph, standing | the same answer from slots and from whole event sets |
| view reducer: `build-task-board-state.mjs` | none (pure) | one pass per rule of "Default view rules" | nothing may depend on the order events came in; who may decide what |
| portal store: `reducer.js`, `selectors.js` | events by id, profiles, publishing flags; memoized board | receive events, derive the board | duplicates, any order, a board older than the clock |
| portal sagas: `sagas.js` | subscriptions, a relay pool | subscribe, re-subscribe as issues appear, mine, sign, publish, renew a claim | reads before awaits; a renewal racing a release; a publish some relays accept |
| relay policy: `task-board-relay-policy.mjs`, `task-board-write-policy.mjs` | newest event per slot, known issues and keys, rate windows | seed from a scan, judge one write, prune | restart from a database that dropped replaced events; out-of-order writes; limits under refusal and retry |
| command line client: `scripts/task-board.mjs` | a key file | load the board once, publish, renew | the same races from another device |
| pledges and account bindings: `build-task-pledge.mjs`, `build-nano-account-binding.mjs` | none | build and parse one event | signatures |
| publishers: `publish-task-board-announcement.mjs`, `publish-task-board-client.mjs` | none | sign and publish one event | nothing |
| nostr identity: `src/core/nostr-identity` | the visitor's key per tab, a stored key the tabs share | start up, create, import, mark as saved | a late extension; tabs that overwrite each other's key |

Interaction: clients and the command line publish to relays; strfry asks the
write policy about each event over a pipe, stores what it accepts in its own
time, and streams what it stored to clients; the policy shares
`build-trust-graph.mjs` and `count-event-pow.mjs` with the view reducer.

### Signed messages, keys, labels (api/routes/auth, libs-server)

| part | state | operations | what is hard |
| --- | --- | --- | --- |
| messages and block notes: `message.mjs`, `process-set-block-meta.mjs`, `rebuild-blocks-meta.mjs`, `hide-block-note.mjs` | `nano_community_messages`, `blocks_meta`, response cache | store and apply a message, rebuild the projection, hide a note | read-compare-write across awaits; stored but not applied; a rebuild transaction against live writes and hides; a cache refilled with an old answer |
| account keys: `register.mjs`, `revoke.mjs`, `resolve-signer-account.mjs` | `account_keys`, `users` | register, link, revoke, attribute a signer | check-then-write under concurrent requests; live and rebuild attribution |
| account labels: `libs-server/account-labels` | `account_labels`, `accounts.alias`, `accounts_tags` | sync directory sources, resolve, materialize | a sync and a message materializing one account at once; a sweep whose materialization failed |

### Network data (scripts, cron)

| part | state | operations | what is hard |
| --- | --- | --- | --- |
| network events: `detect-telemetry-network-events.mjs`, `libs-server/network-events` | detector state, watermark, events | evaluate snapshots after the watermark, write all three in one transaction | replay after a failure; hysteresis of open conditions; overlapping runs |
| archive: `archive-to-postgres.mjs` | watermarks per table | copy rows past the watermark | rows that arrive with an older time |
| site events: `site-events.mjs` | the day's hash key | rotate the key, record an event | transactions on two sides of midnight |
| telemetry: `import-telemetry.mjs`, `resolve-telemetry-account.mjs` | time series | attribute nodes to accounts by the crawler and by earlier rounds | a wrong attribution that feeds itself |
| posts: `import-discord.mjs`, `import-forum.mjs`, `import-subreddit.mjs`, `import-reddit-user.mjs` | `posts` | page from the newest message back to the newest stored one | a run cut short, or overlapped, before it got there; a Reddit user's post that is also a row of its subreddit |
| delegators: `import-accounts-rep.mjs` | `accounts_delegators` | page through the ledger, delete what it did not list | a ledger that moves; a delete that names one slice; a run that outlasts its hour |
| uptime: `import-uptime.mjs`, `rollup-uptime.mjs` | samples, rollups by hour and by day | sample, roll up the last fourteen days and the last two | hours of an earlier run; a sample saved after midnight; a night that failed |
| API reads, other importers, `cli/`, schema, dump tools | tables | queries, upserts by key | I/O and layout |

### Pages of the portal (src/core)

| part | state | operations | what is hard |
| --- | --- | --- | --- |
| requests: `api/sagas.js` | requests under way | pending, then fulfilled or failed; cancelled by the next | answers out of order; a cancelled request that says nothing |
| events, table, posts, documents, charts, accounts: a saga and a reducer each | what the last answers held, flags | ask by filter, view, list, path, account | rows of another question; a flag nobody takes down |

### What makes each correct

- Reducer and portal: the board is a function of the set of events; stewards
  come only from the owner's announcements; only stewards and the author decide
  about a task; nothing a stranger signs moves the trust; a pledge counts only
  with a verdict on that very event; claims lapse.
- Relay: its trust is the board's trust; a restart forgets nothing; no key gives
  itself standing; limits hold.
- Claims: what a key decided about a claim is taken by relays and stands; a
  renewal never undoes it; a failed renewal makes nobody publish twice.
- Subscriptions: the board loads, and what relays hold about its issues arrives.
- Block notes: the projection is the newest valid note of the message log; a
  rebuild changes nothing that was right and loses no hide; pages catch up.
- Keys and labels: the newest registration wins; a revocation stands; the alias
  is the one the current claims resolve to once everything is quiet.
- Network events and archive: each condition told began and ended once, whatever
  run fails or repeats; no snapshot skipped; no row lost by the archive.
- Imports: no message older than a stored one is missing; the delegators table is
  the ledger as it was while a run lasted; rollups say what was sampled.
- Site events: one key per day, gone the day after.
- Pages: what is shown is what was last asked; no page loads forever; a key not
  saved elsewhere is not overwritten by the tab that shows it.

## Modules

| module | models | role |
| --- | --- | --- |
| `TaskBoardEvents` | the event vocabulary, the order, the slot update, proof of work, expiry | operators |
| `TrustGraph` | `build-trust-graph.mjs`, standing, and what the reducer derives from a set of events | operators |
| `TaskBoardState` | `build_task_board_state` | operators |
| `BoardClient` | the portal's store and selector reading from relays | state machine |
| `RelayPolicy` | the write policy, strfry as its environment | state machine |
| `BoardPortal` | subscriptions to the board and to its issues, relays, the batch timer | state machine |
| `ClaimRenewal` | the portal's publish sagas with their renewals, and the command line client | state machine |
| `AccountKeys` | registering, linking, revoking, and who a signer is | state machine |
| `BlockNotes` | the message route for notes, the rebuild, hides, the block page and its cache | state machine |
| `AccountLabels` | claims, resolve, materialize, the daily sync | state machine |
| `CommunityMessages` | the three above over one message log and one set of keys | composition |
| `TelemetryWindow` | the detector's windows and settled values | operators |
| `EventFeed` | what the feed promises of a condition | abstract specification |
| `NetworkEvents` | imports, the detector, the RPC probe; refines `EventFeed` | state machine |
| `TableArchive` | the delta run of the archive, behind `NetworkEvents` | state machine |
| `TelemetryAttribution` | attribution of nodes over rounds | state machine |
| `SiteEvents` | the day's hash key under concurrent requests | state machine |
| `PostImports` | the importers that page posts, two runs at once | state machine |
| `DelegatorImport` | the hourly import of delegators behind a moving ledger | state machine |
| `UptimeRollups` | samples, hours and days | state machine |
| `PageRequests` | a request of a page, takeEvery and takeLatest | actions shared by the next two |
| `BrowsingPages` | network events, table, posts, documents, stores of one answer | state machine |
| `AccountPages` | account pages and charts | state machine |
| `SignerIdentity` | the key of each tab and the stored one | state machine |
| `MCBoardClient`, `MCRelayPolicy`, `MCRelayWrites`, `MCClaimRenewal`, `MCCommunityMessages`, `MCNetworkData`, `MCPortalPages`, `MCImports` | catalogues of events, scenarios, plans | instances for TLC |
| `TaskBoardEvents_proofs` | the order is total and strict; keep_newest keeps the newest | proofs |
| `RelayPolicy_proofs` | type correctness, rate limits; the relay's trust is the board's, also after a restart and for late readers; no key gives itself standing | proofs |
| `Board_proofs` | the view is a function of its events; who may change what it shows; pledges and claims | proofs |
| `NetworkData_proofs` | the detector and the probe implement `EventFeed`, changes chain; the archive passes nothing by; attribution; one key hashes a date's site events, and past keys go; the types of all four | proofs |
| `Community_proofs` | keys, registrations, notes, rebuilds and the labels' sync | proofs |
| `Imports_proofs` | posts, delegators, uptime | proofs |
| `Portal_proofs` | what a visitor publishes: claims, renewals, comments, over the portal's subscriptions | proofs |
| `Pages_proofs` | what pages show is what was asked of them; the stored key survives | proofs |

`TrustGraph` extends `TaskBoardEvents`; `TaskBoardState` and `RelayPolicy` extend
`TrustGraph`, so that both sides run the same trust code, as in the source.
`BoardClient` extends `TaskBoardState`, and so does `BoardPortal`, which
`ClaimRenewal` extends. `AccountKeys`, `BlockNotes`, `AccountLabels` and
`CommunityMessages` extend one another in this order, as do `TelemetryWindow`,
`NetworkEvents` and `TableArchive`. `MCNetworkData`, `MCPortalPages` and `MCImports` put
modules that share no state into one run: a variable (`focus`, `subject`) says which of
them a behaviour is about, and the others rest. No module a proof reaches declares a
RECURSIVE operator; the one scan that needs recursion (`NewestInOrder`) is a
recursive function.

### How the models correspond to the code

**Events** are records whose fields stand for the tags the rules read, chosen so
that each rule still has everything it looks at and nothing else. Follow sets and
labels are told apart in the code by `d` tag and namespace, and here by kind.
Simplifications: one `l` tag to a label event, one role to a properties event,
follow sets with other `d` tags are left out, and boards have distinct `d` tags.
Ids are numbers, ordered as the hex ids are; their leading zero bits are a field.

**TaskBoardState** is written over an order: `Pick(order, T)` is "the newest of T as
a client scans its events", and `LastOf(order, T)` "the one of T scanned last".
`BoardOf` gives both the client's own log, scanned through `keep_newest`;
`DeclaredBoard` gives them an empty list, for which they know only the set. The
first is the code, the second the abstract specification it is compared with.
Columns are per task; the sort within a column is not modelled.

**BoardClient**: `log` is the reducer's `events` map in the order it is iterated.
That map is an immutable hash map, whose order is some function of its keys and
history; the model lets it be any order of arrival, which covers every order.
`Receive(e)` is `add_events` followed by the selector: the code re-sets an id it
holds, which makes a new map and so a recomputation, and the model recomputes on a
duplicate too. `viewed_at` is the clock at that moment, and properties judge the
board as of then, as the comment on `get_task_board_state` says it is. Relays hold
any of the scenarios' sets and may deliver any part of it, any number of times.

**RelayPolicy**: one variable per map of `create_relay_policy_state`. `AcceptFromClient`,
`RefuseByQuota`, `RefuseSlowDown` and `AcceptFromOperator` are the outcomes of
`evaluate_relay_event`, which is synchronous and so one step; a write refused by
the kind rules or proof of work changes nothing and is no action. `SeedEvent`
replays one scanned event in any order; the code replays them in strfry's order
within one synchronous call, before the first request is read. `PruneRateWindows`
may happen after any request (every thousandth in the code). Rate counts stop at
one past the limit, which decides the same. strfry is external: it commits queued
events one at a time, keeps the newest of a replaceable slot, applies deletion
requests, and loses its queue when it dies; `Restart` takes both down, since
"strfry runs this once"; a seed scan that fails exits before anything is served,
which is a restart again. With several boards, the policy unites their stewards
(`get_stewards`), and so does `StewardsOf`.

`recorded`, `committed`, `granted` and `refused` are history, read by properties only.
So are `history`, `late`, `crossed` and the like in the modules below.

**BoardPortal** and **ClaimRenewal** split the sagas at every wait: a subscription
that is open, has its batch in the buffer (flushed by a timer), and has met its end of stored
events (or waited eight seconds); a publish that mines, signs, is sent, is stored, and then
renews the claim through the same phases. Two rules of redux-saga decide what is
heard and are taken as given: a call returns when the saga and all it forked have
ended, and an event channel keeps no message nobody waits for. Buttons are
enabled by the guards of `task-detail.js`; the command line client (`Agent`) loads
the board once and acts on it. Relays keep the newest claim of an address and
refuse an older one.

**AccountKeys**, **BlockNotes**, **AccountLabels**: a route is a handler that runs
between its awaits; PostgreSQL serves one statement at a time and, as READ
COMMITTED has it, each sees what is committed. The rebuild is one transaction:
what it wrote is its own until it commits (`mine`, `written`), and rows it deleted
make a concurrent upsert wait (`Locked`). Hides and page reads interleave with
all of it. Jobs of `AccountLabels` are calls of `materialize_account_labels`, by a
request or by the sync; a job reads stored claims, then signed ones, then
writes. The sync fetches, upserts in batches, sweeps and materializes per source,
and may die at each of these. A representative's labels are resolved as an
account's; the upsert of `representatives_meta_index` is left out.

**NetworkEvents**: time is counted in telemetry intervals. A detector run lists the
snapshots after its watermark (from the newest snapshot when it has none), evaluates each over its window, and commits states,
watermark and events in one transaction, or dies before. Where the code takes the
majority of rows it did not order, the model takes any of them. `recorded_at` is
when the transaction began, and it may commit up to `MaxWrite` later. The model
assumes one run of each detector at a time (nothing but cron's interval keeps them
apart), imports at least half a gap apart, and `MaxWrite` below the archive's
overlap. **TableArchive** has the two tables of the four that differ: one with an
overlap, one without; a lock file keeps its runs apart. **TelemetryAttribution** is
one import per step; **SiteEvents** one step per statement of a request, with
midnight between any two.

**PostImports** numbers messages in the order they are posted and takes the newest
stored one as the importers do. A failed request leaves `res` as it was, so Discord
and Reddit users ask for the same page again while the forum and the subreddit
stop. `OtherImport` is the other Reddit script storing rows of the source: a user's posts
are rows of their subreddit, and the reverse. `Shared` says which messages can come that
way and `foreign` which have come only so. A subreddit's run that begins when its
newest row is such a post stops there (`Misled`). `passed` remembers what a run that
stopped early, or was misled so, had not reached.
**DelegatorImport** has a page and its upsert in one step, for the row is decided by
the answer; `met`, `seen` and `steady` remember what the ledger was while a run lasted.
**UptimeRollups** has one step per statement, with midnight between any two, and one
sampling run at a time; accounts below the tracked weight are sampled when online and
shown in no hour.

**PageRequests**: a request is in `tasks` from the step that puts "pending" to the
step that puts its answer. `TakeLatest` removes what the watcher had under way,
which puts nothing more (`fetchAPI`'s finally only aborts). Rows are known by the
request they answer. **SignerIdentity**: an extension may be injected before either
look, and answers, declines or stays silent for ten seconds; the buttons are those
the account page offers, start-up over or not.

## What is checked

| run | shows | bounds |
| --- | --- | --- |
| `board_client` | `SameEventsSameBoard`, `StrangersMoveNothing`, `OnlyAnnouncementsMoveStewards`, `PledgesWaitForTheirVerdict`, `ClaimsLapse` | nine scenarios of five or six events, four keys, three clock values |
| `relay_writes` | `TypeOK`, `TrustMatchesBoard`, `RestartForgetsNothing`, `WindowLimitsHold`, `StandingIsNeverSelfGranted` | vouches and an issue: nine events, one crash; attestations, a block set and a pledge: seven events, two clock values, one crash, no clients; rates: three events, two addresses, limits of 2, minutes of 1 tick, days of 2, four clock values |
| `community_messages` | `TypeOK`, `NotesAreNewest`, `RevocationStands`, `OlderRegistrationOnlyOvertakes`, `RebuildGivesDeclared`, `HidesSurviveOutsideTheGap`, `SweepsOnlyUnlisted`, `PagesCatchUp`, `ListedAccountsSettle` | nine sets of requests, two keys, two blocks, a window of 1 tick, two clock values, one rebuild, hide, relisting and failure each, batches of 1, one reader |
| `portal` | `TypeOK`, `ClaimsAreTaken`, `RenewalsKeepTheChoice`, `CommentedOnce`, `BoardLoads`, `IssueEventsArrive` | four events taken or held, four buttons, one run of the command line client, one lost answer, two clock values |
| `network_data` | `TypeOK`, `NothingIsPassedBy`, `ChangesChain`, `SharedOnlyIfHeldBefore`, `CountsStay`, `PastKeysGo`, `ConditionsAreTold`, `BacklogDrains`, `RowsReachTheArchive` | seven histories of eight intervals, the archive over three, one failed run, two nodes and two accounts over five rounds, three site requests over two midnights |
| `imports` | `NoGapOpens`, `CompleteRunsMirrorTheLedger`, `RollupsAreAsSampled` | two overlapping runs, pages of 2, a week of 3 messages, four messages, two that can come with the other Reddit import, one cut; four ledgers of three accounts, two runs, batches of 2; two accounts, one tracked, hours of 2 ticks, days and window of 4, nine clock values, three samplings, one loss |
| `portal_pages` | `ShownIsAsked`, `PagesSettle`, `UnsavedKeysSurvive` | three actions on each kind of page, two accounts; two tabs, three keys, two reloads |
| `board_supersede` | `SameBoardEitherWay` fails | five events |
| `relay_retract` | `TrustMatchesBoardAlways` fails | four events |
| `relay_quota` | `QuotaCountsFiledIssues` fails | as the rates of `relay_writes` |
| `portal_live` | `NewIssuesArrive` fails | as `portal` |
| `portal_race` | `NoRaceWithRenewal` fails | as `portal` |

The properties:

- `SameEventsSameBoard`: whatever order events came in, the client shows the board
  the set of them declares. Which of several superseding issues is named is left
  out here and is `SameBoardEitherWay`.
- `StrangersMoveNothing`: a key that is no steward moves no steward and decides
  nothing about anyone else's task; one outside the web of trust moves no trust
  and no comment count.
- `OnlyAnnouncementsMoveStewards`: not even the owner's deletion request does.
- `PledgesWaitForTheirVerdict`: a republished pledge adds nothing before a verdict on it.
- `ClaimsLapse`: no claim outlives its lifetime, whatever it asks for.
- `TrustMatchesBoard`: the relay's slot-per-key memory gives the trust the board
  derives from everything recorded, unless something recorded was taken back.
- `RestartForgetsNothing`: after replaying a scan from which replaced events and
  the lost queue are missing, the policy has the trust, the issues and the keys of
  everything the relay ever committed.
- `StandingIsNeverSelfGranted`: a key's own event never gives it standing.
- `WindowLimitsHold`: accepted writes per key and window stay within the limit.
- `NotesAreNewest`: whatever order messages arrive, are stored and applied in, and
  however a rebuild runs beside them, a block's note is the newest of the log;
  excepted, and tracked by history, are a write that passed another between its
  select and its upsert, an application that failed, and a signer the rebuild refused.
- `RebuildGivesDeclared`: a rebuild nothing overtook makes the notes what the log
  declares, each signature attributed as of its time.
- `HidesSurviveOutsideTheGap`: a rebuild changes no hide, but for one made between
  its select and its delete.
- `RevocationStands`: once a key is revoked, what its signatures stand for is settled,
  each by the time it bears: the account's if the link was in force then, else the key's
  own. Linking or revoking again changes it for no time, except by a revocation that
  looked before the first was written; and no note the key dates more than the window
  after its revocation is stored for the account, even by a route that resolved the key
  before. It does not say that nothing sent after the revocation counts: what the key
  dates before it still does, in rebuilds and labels (see below).
- `OlderRegistrationOnlyOvertakes`: a registration is replaced by one not newer
  only by a handler that had looked before it was there.
- `SweepsOnlyUnlisted`: a claim goes only by a sync of its own directory, whose fetched
  list is not empty and lacks it.
- `PagesCatchUp`, `ListedAccountsSettle` (liveness): the page stops showing what a
  note was; an account that stays listed ends with the alias and tags of its claims.
- `ClaimsAreTaken`: no relay refuses what the visitor decides about a claim, nor
  its renewal, for one of the same second or dated ahead.
- `RenewalsKeepTheChoice`: no renewal undoes a claim change. Both except a comment
  sent with a claim change under way (`portal_race`) and a client that lacked a claim of
  its key: one the other client made or, the answer lost, its own.
- `CommentedOnce`: a comment is published twice only if an answer was lost.
- `BoardLoads`, `IssueEventsArrive` (liveness): the board loads however often the
  issues' subscription is made again, and what relays hold of its issues arrives.
- `ConditionsAreTold`: the detector and the probe implement `EventFeed`: every
  condition is told began and ended once, under one key, and the last thing told
  agrees with the stored state, whatever run dies, repeats or catches up.
- `ChangesChain`: the changes told of a field chain from value to value.
- `BacklogDrains` (liveness): the detector passes every snapshot again and again.
- `NothingIsPassedBy`: what the archive misses lies behind the watermark of its next
  run, although an event's commit may come after a watermark passed its time; except
  snapshots inserted after a newer one.
- `RowsReachTheArchive` (liveness): while the archive runs, all rows but those
  reach it, although runs die and start over from the first table.
- `SharedOnlyIfHeldBefore`: two nodes share an account in a round only if each
  had it within the history.
- `CountsStay`, `PastKeysGo`: one key hashes a date, and it goes with the next
  day's, but for transactions that cross midnight. A deletion sees what was
  committed as it started, inserts and deletions wait for one another.
- `NoGapOpens`: a message older than one its own importer stored is stored too, or a run
  is on its way to it, unless a run was cut short before it or stopped at a user's post.
- `CompleteRunsMirrorTheLedger`: after a run that met no other, the table has every
  account that was above the threshold throughout and none that never was, each
  with a representative it had meanwhile.
- `RollupsAreAsSampled`: an hour is shown online if and only if every sample of it
  says so, counted back from the run that wrote the row; a day counts every sample
  but those saved after its last night had read it.
- `ShownIsAsked`: what events, table, posts, documents and charts hold belongs to
  what was last asked, but where two requests for a table or a list were under
  way; and what was got is not asked for again.
- `PagesSettle` (liveness): no page loads forever, but for what the list below names.
- `UnsavedKeysSurvive`: a tab never drops the stored key it shows before the stored flag
  says it was saved. The flag is one for all tabs: a tab that still shows an older key
  sets it for whichever key is stored.

Why the bounds are enough. Every choice the reducer makes is among events of one
slot, so a tie, a replacement and a retraction per slot, in every order, cover its
cases; scenarios put events that interact in one set and keep the others apart.
The relay's slots are likewise per author and subject; two events per slot in every
order, with a commit, a drop and a crash between any two, meet every case of
`keep_newest`, and the proofs cover every other number. The rate limits count to
two so that a window can be within, at and past its limit, and the day is two
minutes long so that windows of both lengths turn together and apart.

The races in the routes are between two handlers, or one and the rebuild, at one
row: two keys, two blocks and at most three messages in a set give every
order of their statements, and separate sets keep unrelated requests from
multiplying. Two sources give a sweep that another source must survive. The
histories of telemetry hold each turn of a condition: opening, settling, an outage
longer than the gap, a mixed round, a late import, and a backlog longer than one run
takes. Pages and batches of two
make a message or an account fall on either side of a page's end, and a second run
start in every state of the first; three samplings over three days fall on both
sides of two midnights. Three actions on a page are a request, the one that cancels or crosses it,
and one that follows; two tabs and two reloads a key made elsewhere and met again.

Every checked property is broken by a mutated definition listed in
`PROJECT.json`: arrival instead of id deciding ties, deletion that spares
nothing, a verdict matched by address only, serving before the seed is replayed,
an announcement from anyone, a slot that takes whatever came last, and so on.

### Fairness

Stated only for what something in the code or around it repeats or answers:

- `PageFairness` (`BlockNotes`): a page request returns; a cached answer expires by its TTL.
- `LabelFairness` (`CommunityMessages`): cron starts the sync, its statements and those
  of a call in progress return, and failures are bounded by `MAX_FAILURES`.
  Requests need never come and the clock need not run.
- `PortalFairness` (`BoardPortal`): the batch timer runs, relays send what they
  hold, and end of stored events comes from them or from the eight-second timer.
- `EventsFairness`, `DataFairness` (`NetworkEvents`, `TableArchive`): cron starts runs, and
  a run's database answers or the run dies, at most `MaxFailures` times. In
  `network_data` the fairness of `Evaluate` is given by what it brings about,
  `[]<>(detector.step # "listed")`, which TLC decides faster. A table that fails
  every day starves those after it in the order: outside this assumption.
- `portal_pages`: every request is answered or fails, and start-up's timers run.

The safety runs assume none. Runs do not check for deadlock: a client that has
its events, a relay nobody writes to, or jobs between two intervals at the end of
the clock rest.

### Where the code and its documents disagree

- `relay_retract`: the relay accepts a deletion request but never applies it to the
  maps its trust is read from, so it goes on trusting by a vouch set its author
  took back until it restarts; `build-trust-graph.mjs:1-2` promises one trusted
  set to both.
- `relay_quota`: the daily issue limit is spent before the minute limits are
  checked, so retries of a write told to slow down use it up
  (`docs/design/task-board-protocol.md:823` and `:828`).
- `board_supersede`: `superseded_by` is whichever superseding issue is scanned
  last (`docs/design/task-board-protocol.md:546`).
- `portal_live`: `run_subscription` awaits its end-of-stored-events callback inside
  its receive loop (`sagas.js:85`), and the board's callback forks a saga that never
  ends: an issue published after the board loaded is not heard, though
  `sagas.js:137-138` speaks of new issues arriving.
- `portal_race`: the comment button is enabled by its own key alone
  (`task-detail.js:364`), so a comment can renew the claim a release under way has
  just ended, which `sagas.js:270` means to rule out.

Met while modelling, and excepted by name in the properties rather than shown by
a run of their own:

- A hide committed between the rebuild's select and its delete is lost
  (`rebuild-blocks-meta.mjs:33-34`; `schema.postgres.sql:214-215` says hides survive).
- Of two notes of a block applied at once the older can be written last
  (`process-set-block-meta.mjs:83-112`); a rebuild repairs it. Two registrations
  likewise (`register.mjs:57-82`).
- A second revocation that looked before the first was written moves `revoked_at`
  (`revoke.mjs:61`), and what the key signed in between becomes the account's.
- A signature counts by the time its signer gave it (`resolve-signer-account.mjs:17`), so
  a message dated before the revocation counts for the account in rebuilds and labels
  even when sent after it.
- An account swept from its only directory whose materialization then fails keeps
  a stale alias: no later sync touches it.
- Around midnight a request of the day before can delete the new day's key or
  create the old one again, or leave it beside the new one until the next day
  (the comment at `site-events.mjs:51-53`).
- A telemetry snapshot inserted after a newer one is never archived.
- An import of posts that is cut short leaves a gap for good: pages are stored newest
  first, so the next run finds a newest message beyond it (`import-discord.mjs:227`).
  Discord's stop at a week (`:232`) leaves one after an outage longer than that.
- A user's post (`import-reddit-user.mjs:68-84`) is stored as a row of its subreddit. When
  it is the newest (`import-subreddit.mjs:16-22`), the subreddit's run stops at it (`:63`)
  and what is older, beyond that page, and not yet stored is left out for good.
- `import-reddit-user.mjs:46` splits the id by `reddit:post:`, and a stored id has its
  subreddit in between: it never finds its last message and pages through everything.
- Of two overlapping runs of the delegators' import one deletes what the other has
  stamped, until the next hour (`import-accounts-rep.mjs:107-110`).
- A night that failed is not redone: `--days 2` is the day that begins and the one
  before, and a sample saved after that is in no day's count (`rollup-uptime.mjs:18-19`).
  Hours 336 to 354 are always shown offline, as samples reach back fourteen days and
  rows are filled up to 355 hours (`import-uptime.mjs:152`).
- The table shows older rows when answers to its two watchers cross, and a rename
  cancels the request it waits for and leaves it pending (`data-views/sagas.js:38`).
  A list of posts merges two ages asked for at once.
- A failed summary leaves its flag up (`accounts/reducer.js:144`), and the second
  summary's answer erases the first's rows: the spread at `accounts/reducer.js:160`
  is of an Immutable map.
- A chart whose request a visit to another account cancelled stays in
  `request_history` and is not asked for again until the page is reloaded
  (`accounts/sagas.js:50`, `api/reducer.js:60`).
- "Get started" during start-up, or in a tab opened before another made a key,
  overwrites the stored key, saved or not (`signer.js:32`).

## What is proved

### Relay

For every set of keys, boards, addresses and events, every limit and window
length, and every cap on the clock and the restarts that is a natural number:

- `TypeCorrect`: `Spec => []TypeOK`. `TypeOK` is inductive. Its arithmetic part, that
  a window's start is a multiple of its length and never in the future, is where
  `ConsumeFromFirstRequest` fails.
- `LimitsHold`: `Spec => []WindowLimitsHold`. A limit on what was granted is not
  inductive, since nothing in it says the policy still remembers. The invariant
  is `GrantsCovered`: whatever was granted in the current window is covered by the
  count of a stored window with the current start, and is nothing if no such
  window is stored. It needs that pruning spares the current window of its own length.
- `PolicyDerivesTheBoardsTrust`: `Spec => []TrustMatchesBoard`. The invariant is
  `AllAdmissible /\ SlotsHoldNewest`: whatever is stored, queued or recorded passed
  the kind rules, and each slot holds the newest recorded event that belongs in
  it. From it `SlotsGiveTrust` shows the trust equal: the newest verdict by any
  current steward is among the newest of each steward (`SameNewest`).
- `RestartsForgetNothing`: `Spec => []RestartForgetsNothing`. What a restart reads is
  what strfry stores, and strfry drops an event for a newer one of its slot; the
  invariant (`RestartInv`) therefore follows what was dropped, through commit, crash
  and seeding: `stored`, then what the policy has recorded, keeps the newest event of
  every slot of all that was committed and queued, and every issue (`KeepsNewestOf`).
  Two sets of which one keeps the newest of the other give the same trust
  (`HeldGivesTheSame`).
- `NoneStandsByItsOwnWord`: `Spec => StandingIsNeverSelfGranted`, an action property.
  Trust flows only from keys that stand already, so a key whose own event is the only
  news stands after it only if it did before (`AcceptedAndStanding`).
- `ReadersDeriveTheSame`: `Spec => [](ReadersMissNothing /\ ReadersAgreeWithThePolicy)`, the relay and
  a board client that reads it put together. strfry keeps the newest event of a slot
  only, and loses its queue when it dies; a client that reads what is left derives the
  trust of all that was ever committed (`NothingToMiss`: what was dropped has a newer
  event in its slot, and stewards and trust sets read the newest of a slot), for any
  boards it asks for; and that is the policy's own once the queue is empty. As above
  without deletion requests, which strfry applies for good: a client that had heard
  the deleted event and the request, and one that comes later, may then differ. These two
  properties are in no run's list; TLC finds them true on the instance of
  `relay_writes`.

These rest on `EventsAssumption` (ids tell events apart, times and ids are
numbers), `BoardsAssumption` and `RelayAssumption`, which TLC evaluates for each
instance, and on `TaskBoardEvents_proofs`: the order is total, asymmetric and
transitive, a set has at most one newest event, and `keep_newest` keeps it.

### Board client

`Board_proofs` is about `BoardClient` and the reducer it runs: any keys, any catalogue of
events, any finite list of them in any order, any clock. All five safety properties of
the client's run are proved, from one small invariant (`BoardInv`): the log is a
list of published events, and the board is the reducer's at the time of the last look.
The rest is about the reducer.

- `OrderDoesNotMatter`: `Spec => []SameEventsSameBoard`. Every map of the code is built by
  a scan with `keep_newest`; `Scanned` says the scan finds the newest of what it keeps,
  whatever the order, and then roles, relations and tasks are a function of the set
  (`SameRoles`, `SameRelations`, `SameTask`). The exception is in the proof
  too: `superseded_by` is the last of the list, of which only whether it is there is the
  same (`LastIs`).
- `StrangersDoMoveNothing`: `Spec => StrangersMoveNothing`. An event of a key, a deletion
  request included, changes the live events by that key's own at most (`Elsewhere`). If
  the key is no steward, verdicts, attestations and announcements are the same
  (`SameVerdicts`, `SameStewards`), so the graph can differ only through its vouches,
  which count from the first step alone (`SameGraph`); and with the same roles
  a task is decided by events of other keys (`StrangersTask`).
- `PledgesDoWait`: `Spec => PledgesWaitForTheirVerdict`. Without a verdict that names it, the
  new pledge only takes the place of its predecessor, so what is judged backed or paid
  is a subset of what was (`PledgeAddsNothing`), also as verdicts lapse meanwhile,
  and its sum is no larger (`TotalGrows`).
- `StewardsFollowAnnouncements`: `Spec => OnlyAnnouncementsMoveStewards`, as deletion
  spares announcements (`StewardsAre`).
- `ClaimsDoLapse`: `Spec => []ClaimsLapse`: the claim the view shows as active is one of
  the log, and lapses a lifetime after it was signed at the latest (`ClaimEnds`).

Two of these are facts about recursive functions: the scan and the sum over a set.
They are proved without the library's induction theorems, which take a predicate, by
induction over sets: a set of numbers has a least element (`NatLeast`, from
the well-foundedness of `<`), so a set with 0 that is closed under successors is all of
them (`UpTo`), and a collection closed under "all but one of the elements" has every subset
of a finite set (`ByRemoval`). That the recursive function exists is shown by building
it up to each length or size (`Scanned`, `SumsExist`).

Assumed: `EventsAssumption`, with numbers for ids, times, expirations and amounts, and
`StateAssumption`, `ClientAssumption`.

### Keys, notes and labels

`Community_proofs` is about `CommunityMessages`, the composition: any keys, requests,
blocks, sources and lists, any number of handlers, jobs and rebuilds. All seven
theorems use `Inv`: keys and links are well formed, and every handler is at a step its
request allows and remembers what it read (`KeysInv`); a row is that of a note in the
log (`RowsAreOfNotes`); a rebuild's log, rest and rows agree, and what it or a
handler is about to write is newer than the row it saw (`RebuildOK`); each caller has
one call of `materialize_account_labels` (`JobsInv`). `Steps` sorts the steps of `Next`
by what they do to a row, so that each later invariant is argued once per kind.

- `TypesHold`: `Spec => []TypeOK`.
- `RevokedForGood`: `Spec => RevocationStands`. A link row is only added, and revoked by
  a handler that saw a row in force; `ActsInv` says of a handler that resolved a key as
  the account's that the link is in force still or was until no earlier than that
  moment, so that the window bounds what it can store.
- `OnlyOvertakersGoBack`: `Spec => OlderRegistrationOnlyOvertakes`. It needs that a
  handler past its check saw a row older than its request (`HandlerOK`).
- `RebuildsKeepHides`: `Spec => HidesSurviveOutsideTheGap`. `HidesInv` says for each
  phase what is hidden: what `previous` lists before the delete; after it, what the
  transaction wrote lacks nothing but those hides; after the restore, it has them.
- `RebuildsDeclare`: `Spec => RebuildGivesDeclared`. `DeclaredInv`: the log is replayed
  oldest first, and what the transaction sees of a block is the newest note replayed
  so far of a signer it did not refuse.
- `NotesStayNewest`: `Spec => []NotesAreNewest`. The property speaks of what is
  stored, and a rebuild replaces it in one commit by what it wrote from a log it read
  earlier. `NewestInv` therefore has a second part, about the rows to come: whatever is
  no more being applied, and the row the commit replaces, is either in what is still to
  be replayed or not newer than what the transaction sees (`ComingAt`).
- `SweepsSpareTheListed`: `Spec => SweepsOnlyUnlisted`. The sweep deletes by time, of one
  source; the property speaks of its list. `WrittenStays` joins them: until the sweep, a claim
  of the list that this run has written carries this run's time.

Assumed (`KeysAssumption`, `NotesAssumption`, `LabelsAssumption`): a digest identifies a
message, as a hash does; a request has the fields of its kind, and a message's request
the message's time; a note's block and a listed account exist; there is at least one source; `None` is no row or number.

### Portal

`Portal_proofs` is about `ClaimRenewal`: one visitor's page and command line client, over
the portal's subscriptions, with any number of other keys and their events. Its base is
`PageInv`: the store and both subscriptions hold what relays hold, and the page shows
what its store derives (`ListenOK`); sagas, client and history are well formed
(`SagasOK`, `AgentOK`, `HistoryOK`); and of every set of the visitor's claims one is the
newest (`ClaimsRanked`), which a relay's newest-only rule keeps true whatever ids the
claims get. `PageKinds` sorts the steps by their effect on a saga, the client or the
relays, and the three invariants below are argued once per effect.

- `PortalTypesHold`: `Spec => []TypeOK`. It follows from `PageInv`; its hard part is
  that every step that changes the store re-opens the subscription to its issues.
- `RenewalsUndoNothing`: `Spec => []RenewalsKeepTheChoice`. A renewal is decided on what the
  page shows, and takes effect waits later. `SinceChosen` says of every claim of the
  relays that it is as the visitor chose, or older than the one the page shows, so that a
  page that sees an active claim sees the choice; `InTurn` says page and client take turns.
- `ClaimsAreAccepted`: `Spec => []ClaimsAreTaken`. `Alone`: the only saga has seen the newest
  claim, unless it has just stored it, and what it signs or sends is dated after it.
- `OneComment`: `Spec => []CommentedOnce`. `CommentsInv` accounts for each comment of the
  relays: a lost answer, the report, or a saga that has yet to report. A saga in its
  renewal counts as the last, which is where reporting a failed renewal as a failed
  publish would lose count.

Assumed (`RenewalAssumption`): nobody else signs with the visitor's key, of claims,
comments and deletions, and what relays hold at first is finite, with ids that tell events
apart, and none of the visitor's comments or deletions. Deletions are only built for account
bindings (`key-properties.js:428`), which have no part in this model. The instance's starts
with a loaded page are states a page comes to by listening.

`Pages_proofs` is about the instance's own specification, `MCSpec` of `MCPortalPages`, with
any filters, views, lists, documents, charts, tabs and keys and any number of actions
and reloads; a behaviour has one subject, and the subjects share no state.

- `PagesShowWhatWasAsked`: `MCSpec => []ShownIsAsked`. What is shown next comes from
  requests made earlier, so `PagesInv` says of each page what those under way
  were made for: of the table, while none crossed, the selected view as it is; of a
  list, the age last asked for; of a document's watcher, one request, whose
  document has no commit yet or has content; of a recorded chart, one request, and a
  place in the history from then on.
- `StoredKeysSurvive`: `MCSpec => UnsavedKeysSurvive`. `IdentityInv`: a tab whose key is the
  stored one, not saved, knows that it is not, as a key made in another tab is new.

Assumed: `PagesAssumption`, `AccountPagesAssumption`, `IdentityAssumption`.

### Network data

`NetworkData_proofs` is about the four subjects of `MCNetworkData`, and gives each its
safety properties. Of `NetworkEvents`, for any
representatives, any telemetry, missing or late, any number of failed runs and of
windows a run catches up:

- `ConditionsToldOnce`: `EventsSpec => ConditionsAreTold`, the refinement of `EventFeed`.
- `ChangesFollow`: `EventsSpec => []ChangesChain`.

Both need that an event is not stored under an id that is already taken, which
`ON CONFLICT DO NOTHING` would drop without a word. An event's id holds its window's start
and not its end, and with a missing or late snapshot two windows of different ends may
start together; a window of a later end never starts earlier. `SaysOf` is the invariant of a
run after each window: the last thing told of a condition agrees with its state, and
nothing began later than the last start a window of that end can have; if something
began just then, it is still open (`BeganBefore`), so that the next window, should it
start there too, cannot open it again. Likewise a change dated at the last start has the
value of the snapshot there (`ChangedBefore`), and no window with that start can settle on
another. `WindowSays` keeps this over one window, `RunSays` over the targets of a run: the
recursion of `EvaluateRun` is shown to exist and followed by `CountUp` (a set with 0
closed under successors has every number up to its bound), with no induction over a
predicate. `FeedInv` then holds it of what is stored, and of what a run that has yet to
commit would store; the probe's events, whose keys are the times of probes, are kept
apart by their type (`DetectorTells`, `ProbeTells`).

The argument takes at most two full windows to a start: `MaxGap <= 2` of
`NetworkAssumption`, from the collector's five minutes and the gap of 600 s
(`summarize-representative-telemetry.mjs:7`). With a third, an outdated version could
open, close and open again under one key as the majority of each last snapshot
moves. The code's clock is finer than the model's, so a collector that runs seconds
early could bring such a third window about: the model does not have it.

- `EventsTypeCorrect`: `EventsSpec => []EventsTypeOK`. What it takes is that no two rows of
  `network_events` have one identity: an insert skips what is stored, so it is that
  a run's own events differ (`ToldOnce`). A change is told once for a window start, and what
  ends was open, so nothing told before has ended it (`EndedOnce`).

Of `TableArchive` beside them:

- `ArchivePassesNothingBy`: `MaxWrite < Overlap` gives `DataSpec => []NothingIsPassedBy`.
  The hypothesis is what `DELTA_OVERLAP_SECONDS` counts on (`archive-to-postgres.mjs:144`):
  no transaction takes longer than the overlap. A write that has yet to commit takes its
  time from a transaction of at most `MaxWrite` ago (`ClockInv`), and a watermark is the
  time of a row already there; so whatever appears is younger than any watermark less
  the overlap (`RowsArrive`). In a run, `HasRead` keeps the same of what
  it read: a row that came since lies behind every row it holds, so the watermark its
  commit brings does not pass it. Telemetry has no overlap; a snapshot that is not late
  is newer than all before it. For a snapshot inserted after a newer one nothing is
  claimed: the code loses it.

Of `TelemetryAttribution`:

- `SharingIsInherited`: `AttributionSpec => []SharedOnlyIfHeldBefore`, for any nodes,
  accounts, history and rounds. It is inductive with the types of the rows; what it takes
  is that the account found in the history is that of a row of it (`HistoryHasRow`), and
  that an account claimed by two nodes of a round goes to those who had it.

Of `SiteEvents`, for any number of requests and days:

- `CountsAreStable`: `SiteSpec => []CountsStay`. The invariant follows each event
  to the key it was hashed with: the key is there (`EventsKeepTheirKey`), or its
  date is over and has none, or a transaction crossed midnight with the date. The
  key cannot be replaced, since an uncommitted row is for a date without a key
  (`NewKeysAreAlone`), as the insert waits for the unique index.
- `PastKeysAreGone`: `SiteSpec => []PastKeysGo`. When a transaction commits, an
  older key is among those it deletes, or crossed midnight (`OldKeysAreGoing`).
  Two days' keys do stay side by side when a transaction of the first day commits
  after the second's deletion: the exception happens.
- `SiteTypeCorrect`: `SiteSpec => []SiteTypeOK`, from the same invariant.

And of all four together, `SubjectsTypeCorrect`: `MCSpec => []TypeOK`, whose archive part says
that only rows that are live get there, and that a watermark is 0 or the time of one of them.

Assumed: of `NetworkEvents`, `WindowAssumption`, `NetworkAssumption` and `NullAssumption`
(the telemetry names representatives; `Null` is no time and no key); of `TableArchive`,
`OverlapAssumption`; of `SiteEvents`, `SiteAssumption`: no row is `NoKey`; for
`SubjectsTypeCorrect` also `PlansAssumption`: the plans of telemetry find rows of rounds.

`Imports_proofs` is about three jobs, each from its own specification:

- `NoGapStaysOpen`: `PostsSpec => []NoGapOpens`, for any number of overlapping runs and
  any page size. A gap is closed by a page some run has still to save, so the invariant
  says of each message up to the newest its own importer stored, and up to the last
  message of each run, that it is stored, passed by a run cut short or misled, or above
  the floor and below the cursor of a run (`NothingIsLost`); a page without
  holes (`PagesAreRuns`) is what lets the cursor move down past it.
- `RunsMirrorTheLedger`: `DelegatorSpec => []CompleteRunsMirrorTheLedger`, for any
  finite ledgers and any batch size above one. The invariant follows a run that met no
  other through its pages and deletions (`Mirrors`): what it was answered carries its
  time in the table, with a representative the ledger had meanwhile; every
  account that was there throughout and lies below the cursor is among it; and at the
  end nothing else is left. A deletion names one slice of what was returned, so that
  what spares the other slices is the time alone (`AloneIsAlone`: no second run of
  another time is under way).
- `RollupsMatchSamples`: `UptimeSpec => []RollupsAreAsSampled`. `HoursRight` holds the table
  of an hour to the samples since the time its run began to read, up to its own, and
  a sample of the window never falls outside the table (`FillHours * PerHour > Window`).
  For days, a night reads the day that ended last, once, and what it
  read is all of that day but what was saved later, which `past` keeps (`DayIsRead`,
  `NightsAreOver`).

### Left to TLC

- Liveness under fairness and `ENABLED`, which the prover cannot reach: `BoardLoads`,
  `IssueEventsArrive`, `PagesCatchUp`, `ListedAccountsSettle`, `BacklogDrains`,
  `RowsReachTheArchive`, `PagesSettle`. Every safety property of a passing run is proved.
- That the code violates the properties of the five runs expected to fail.

## Plan

Left:

1. The whole view of a client that reads the relay late: proved for its trust
   (`ReadersDeriveTheSame`), not for tasks and pledges, where a verdict may stand on an
   event strfry has dropped; and deletion of an announcement in strfry.

## Not modelled

- Rendering and layout of the portal, which is most of its code, the vendored
  yarn release, schema and dump tools, read routes, and the imports from GitHub and of
  account names: queries, upserts by key and layout, with nothing read back that a
  later step depends on.
- `calculate-uptime.mjs`, `calculate-behind.mjs`: counts over whole tables, written
  back by account or node.
- `vps-to-postgres.mjs`, `archive-mysql.mjs`: copies run once, a transaction per
  table, inserts that ignore conflicts.
- Publishers and `cli/`: each command signs one event or message and sends it.
- Of modelled parts: profiles and account bindings (`follow_key_events`), the
  pruning of site events by date, the block page, the table's column state, the
  watcher of `RESET_DATA_VIEW_CACHE` (it asks again for the selected view; no page
  dispatches it), imports of a full history, the longest downtime of a day, overlapping sampling runs.
