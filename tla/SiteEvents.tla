----------------------------- MODULE SiteEvents -----------------------------
(***************************************************************************)
(* The daily hash key of the site's analytics under concurrent requests    *)
(* (api/routes/site-events.mjs).  A request takes the date as it starts,   *)
(* looks for that date's key, and if there is none creates one and deletes *)
(* every other in a transaction, then looks again.  The statements of a    *)
(* transaction see what others have committed (READ COMMITTED); an insert  *)
(* waits for another that holds the same date.                             *)
(***************************************************************************)
EXTENDS Integers, FiniteSets

CONSTANTS Calls,      \* requests
          MaxDay,     \* bound on the days
          NoKey

Rows == [date : Nat, key : Calls]

ASSUME SiteAssumption == NoKey \notin Rows

VARIABLES
    day,        \* the UTC date
    hash_keys,  \* site_client_hash_keys, committed
    calls,      \* per request: where it is, its date, what it holds
    site_events,\* the date and key each stored event was hashed under
    crossed     \* dates a transaction wrote or deleted under another day's date

siteVars == <<day, hash_keys, calls, site_events, crossed>>

KeyRow(date, key) == [date |-> date, key |-> key]
KeysOf(date) == {k \in hash_keys : k.date = date}

\* row and gone are what the transaction inserts and deletes.
Idle == [step |-> "idle", date |-> 0, row |-> NoKey, gone |-> {}, waits |-> {}]

SiteInit ==
    /\ day = 1
    /\ hash_keys = {}
    /\ calls = [c \in Calls |-> Idle]
    /\ site_events = {}
    /\ crossed = {}

Midnight ==
    /\ day < MaxDay
    /\ day' = day + 1
    /\ UNCHANGED <<hash_keys, calls, site_events, crossed>>

Start(c) ==
    /\ calls[c].step = "idle"
    /\ calls' = [calls EXCEPT ![c].step = "select", ![c].date = day]
    /\ UNCHANGED <<day, hash_keys, site_events, crossed>>

Hashed(c, key) == site_events' = site_events \cup {KeyRow(calls[c].date, key)}

Goes(c, step) == calls' = [calls EXCEPT ![c].step = step]

\* The date's key is there, and the event is counted under it.
FindKey(c) ==
    /\ calls[c].step \in {"select", "select_again"}
    /\ \E k \in KeysOf(calls[c].date) : Hashed(c, k.key)
    /\ Goes(c, "done")
    /\ UNCHANGED <<day, hash_keys, crossed>>

FindNone(c) ==
    /\ calls[c].step = "select"
    /\ KeysOf(calls[c].date) = {}
    /\ Goes(c, "insert")
    /\ UNCHANGED <<day, hash_keys, site_events, crossed>>

\* What c's transaction has written and not committed.
HasInserted(c, date) == calls[c].row # NoKey /\ calls[c].row.date = date
HasDeleted(c, date) == \E k \in calls[c].gone : k.date = date

\* As if the insert replaced the date's key.
InsertKeyMerging(c) ==
    /\ calls[c].step = "insert"
    /\ \A d \in Calls : ~ HasInserted(d, calls[c].date)
    /\ calls' = [calls EXCEPT ![c].step = "delete",
                              ![c].row = KeyRow(calls[c].date, c)]
    /\ UNCHANGED <<day, hash_keys, site_events, crossed>>

\* INSERT ... ON CONFLICT (hash_key_date) DO NOTHING, once no other transaction
\* has the date's row inserted or deleted and not committed.
InsertKey(c) ==
    /\ calls[c].step = "insert"
    /\ \A d \in Calls : ~ HasInserted(d, calls[c].date) /\ ~ HasDeleted(d, calls[c].date)
    /\ calls' = [calls EXCEPT ![c].step = "delete",
                              ![c].row = IF KeysOf(calls[c].date) # {} THEN NoKey
                                         ELSE KeyRow(calls[c].date, c)]
    /\ UNCHANGED <<day, hash_keys, site_events, crossed>>

\* As if only the key of the day before were deleted.
OthersOfTheDayBefore(c) == {k \in hash_keys : k.date = calls[c].date - 1}

\* The rows of other dates the deletion sees: those committed as it starts.
Others(c) == {k \in hash_keys : k.date # calls[c].date}

\* The deletion waits for the transactions that have deleted one of its rows.
DeleteOthers(c) ==
    /\ calls[c].step = "delete"
    /\ calls' = [calls EXCEPT
            ![c].step = "commit", ![c].gone = Others(c),
            ![c].waits = {d \in Calls : calls[d].gone \cap Others(c) # {}}]
    /\ UNCHANGED <<day, hash_keys, site_events, crossed>>

Commit(c) ==
    /\ calls[c].step = "commit"
    /\ \A d \in calls[c].waits : calls[d].step # "commit"
    /\ hash_keys' = {k \in hash_keys \ calls[c].gone :
                        HasInserted(c, k.date) => k = calls[c].row}
                    \cup ({calls[c].row} \ {NoKey})
    /\ calls' = [calls EXCEPT ![c].step = "select_again", ![c].row = NoKey,
                              ![c].gone = {}, ![c].waits = {}]
    /\ crossed' = IF calls[c].date = day THEN crossed
                  ELSE crossed \cup {calls[c].date} \cup {k.date : k \in calls[c].gone}
    /\ UNCHANGED <<day, site_events>>

\* The second select finds nothing: another request deleted the key, the
\* handler's error is logged and the event dropped.
DropEvent(c) ==
    /\ calls[c].step = "select_again"
    /\ KeysOf(calls[c].date) = {}
    /\ Goes(c, "done")
    /\ UNCHANGED <<day, hash_keys, site_events, crossed>>

SiteNext ==
    \/ Midnight
    \/ \E c \in Calls : \/ Start(c) \/ FindKey(c) \/ FindNone(c) \/ InsertKey(c)
                        \/ DeleteOthers(c) \/ Commit(c) \/ DropEvent(c)

SiteSpec == SiteInit /\ [][SiteNext]_siteVars

-----------------------------------------------------------------------------
(***************************************************************************)
(* Properties.                                                             *)
(***************************************************************************)
SiteTypeOK ==
    /\ \A k, l \in hash_keys : k.date = l.date => k = l
    /\ \A k \in hash_keys \cup site_events : k.date \in 1 .. day /\ k.key \in Calls

\* Everything counted under one date is hashed with one key, so the day's
\* counts of clients stay stable, however the first requests of the day meet;
\* only a request that is still working under the day before's date can break
\* it, by deleting the new day's key or creating the old one again.
CountsStay ==
    \A e, f \in site_events : e.date = f.date => e.key = f.key \/ e.date \in crossed

\* A past day's key is gone once the next day has one, unless the request that
\* created it committed after midnight.
PastKeysGo ==
    \A k, l \in hash_keys : k.date < l.date => k.date \in crossed
=============================================================================
