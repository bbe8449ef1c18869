-------------------------- MODULE DelegatorImport ---------------------------
(***************************************************************************)
(* The hourly import of who delegates to whom                              *)
(* (scripts/import-accounts-rep.mjs): the node's ledger is paged through   *)
(* in the order of the accounts, each page upserted with the run's         *)
(* timestamp, and what the pages did not have is then deleted, a batch of  *)
(* accounts per statement.  A run that outlasts its hour meets the next.   *)
(***************************************************************************)
EXTENDS Integers, Sequences, FiniteSets, FiniteSetsExt

CONSTANTS Ledgers,     \* what the ledger may be: account number -> representative
          DelegatorRuns,   \* runs, named by the timestamp they begin with
          batchSize,
          NoRow

Representatives == UNION {{l[a] : a \in DOMAIN l} : l \in Ledgers}
Rows == [representative : Representatives, timestamp : DelegatorRuns]

ASSUME DelegatorAssumption ==
    /\ batchSize \in Nat \ {0, 1}
    /\ DelegatorRuns \subseteq Nat \ {0}
    /\ \A l \in Ledgers : /\ DOMAIN l \subseteq Nat \ {0} /\ DOMAIN l # {}
                          /\ IsFiniteSet(DOMAIN l)
    /\ NoRow \notin Rows

VARIABLES
    ledger,               \* the accounts above the threshold: account -> representative
    accounts_delegators,  \* table: account -> representative and timestamp
    imports               \* per run: step, next account, what was returned, slice,
                          \* and of the time it ran: the runs it met, what the
                          \* ledger had at some time and the accounts it always had

delegatorVars == <<ledger, accounts_delegators, imports>>

Addresses == UNION {DOMAIN l : l \in Ledgers}
Pairs(l) == {<<a, l[a]>> : a \in DOMAIN l}

DelegatorInit ==
    /\ ledger \in Ledgers
    /\ accounts_delegators = [a \in Addresses |-> NoRow]
    /\ imports = [t \in DelegatorRuns |->
           [ step |-> "due", account |-> 0, returned |-> <<>>, slice |-> 0,
             met |-> {}, seen |-> {}, steady |-> {} ]]

Running(t) == imports[t].step \in {"page", "sweep"}

\* A block of an account, or a balance that crosses the threshold.
LedgerMoves ==
    /\ ledger' \in Ledgers \ {ledger}
    /\ imports' = [t \in DelegatorRuns |->
           IF Running(t) THEN [imports[t] EXCEPT !.seen = @ \cup Pairs(ledger'),
                                                 !.steady = @ \cap DOMAIN ledger']
           ELSE imports[t]]
    /\ UNCHANGED accounts_delegators

\* Cron starts the runs in turn, without asking whether the last has ended.
StartDelegators(t) ==
    /\ imports[t].step = "due"
    /\ \A u \in DelegatorRuns : u < t => imports[u].step # "due"
    /\ LET others == {u \in DelegatorRuns : Running(u)}
       IN  imports' = [u \in DelegatorRuns |->
               CASE u = t -> [imports[t] EXCEPT !.step = "page", !.met = others,
                                 !.seen = Pairs(ledger), !.steady = DOMAIN ledger]
                 [] u \in others -> [imports[u] EXCEPT !.met = @ \cup {t}]
                 [] OTHER -> imports[u]]
    /\ UNCHANGED <<ledger, accounts_delegators>>

\* A page starts at the last account of the one before, again.
LedgerPage(t) ==
    LET from == {a \in DOMAIN ledger : a >= imports[t].account}
    IN  {a \in from : Cardinality({b \in from : b < a}) < batchSize}

InOrder(page) ==
    [i \in 1 .. Cardinality(page) |->
        CHOOSE a \in page : Cardinality({b \in page : b < a}) = i - 1]

\* fetchLedgerPage and the upsert of what it returns.
ImportPage(t) ==
    /\ imports[t].step = "page"
    /\ LET page == LedgerPage(t)
       IN  /\ accounts_delegators' = [a \in Addresses |->
                  IF a \in page THEN [representative |-> ledger[a], timestamp |-> t]
                  ELSE accounts_delegators[a]]
           /\ imports' = [imports EXCEPT
                  ![t].returned = InOrder(page) \o @,
                  ![t].account = Max(page \cup {0}),
                  ![t].step = IF Cardinality(page) = batchSize THEN "page" ELSE "sweep"]
    /\ UNCHANGED ledger

\* The slice of batchSize accounts that one statement names.
Slice(t) ==
    LET from == imports[t].slice * batchSize
        returned == imports[t].returned
    IN  {returned[i] : i \in from + 1 .. Min({from + batchSize, Len(returned)})}

\* As if a statement deleted all it does not name.
NotOfThisRun(t, a) == a \notin Slice(t)

Swept(t, a) == accounts_delegators[a].timestamp # t /\ a \notin Slice(t)

\* A delete names one slice, so what spares the other slices is the timestamp.
SweepSlice(t) ==
    /\ imports[t].step = "sweep"
    /\ accounts_delegators' = [a \in Addresses |->
           IF accounts_delegators[a] # NoRow /\ Swept(t, a) THEN NoRow
           ELSE accounts_delegators[a]]
    /\ imports' = [imports EXCEPT
           ![t].slice = @ + 1,
           ![t].step = IF (imports[t].slice + 1) * batchSize >= Len(imports[t].returned)
                       THEN "done" ELSE "sweep"]
    /\ UNCHANGED ledger

\* The node did not answer in four attempts, or the process is killed.
DelegatorsFail(t) ==
    /\ Running(t)
    /\ imports' = [imports EXCEPT ![t].step = "failed"]
    /\ UNCHANGED <<ledger, accounts_delegators>>

DelegatorsNext ==
    \/ LedgerMoves
    \/ \E t \in DelegatorRuns : \/ StartDelegators(t) \/ ImportPage(t)
                                \/ SweepSlice(t) \/ DelegatorsFail(t)

DelegatorsSpec == DelegatorInit /\ [][DelegatorsNext]_delegatorVars

-----------------------------------------------------------------------------
(* Properties *)

\* A run that completes without meeting another leaves the ledger as it was
\* while the run lasted: every account that was always above the threshold, and
\* none that never was, each with a representative it then had, whatever the
\* runs before it left half done.
CompleteRunsMirrorTheLedger ==
    \A t \in DelegatorRuns :
        /\ imports[t].step = "done"
        /\ imports[t].met = {}
        /\ \A u \in DelegatorRuns : u > t => imports[u].step = "due"
        => LET rows == {a \in Addresses : accounts_delegators[a] # NoRow}
           IN  /\ imports[t].steady \subseteq rows
               /\ \A a \in rows :
                     <<a, accounts_delegators[a].representative>> \in imports[t].seen
=============================================================================
