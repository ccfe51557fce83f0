--------------------------- MODULE SourceRegistry ---------------------------
(***************************************************************************)
(* The table of evidence sources, which the results of all runs and all    *)
(* tenants share.  Persisting a result resolves the source names of its    *)
(* evidence one after the other: SELECT by name, and where that finds      *)
(* nothing INSERT and flush, all in the one transaction of the result.     *)
(* Names are unique.  Under READ COMMITTED the SELECT does not see another *)
(* transaction's uncommitted row, the INSERT waits for that transaction to *)
(* end, and two transactions can wait for each other.                      *)
(***************************************************************************)
EXTENDS Naturals, Sequences, FiniteSets, SequencesExt

CONSTANTS
  Names,         \* names of evidence sources
  Jobs,          \* results to persist, each the sequence of its source names
  Workers,       \* requests in flight at a time
  MaxCrashes     \* bound: how often a worker dies

ASSUME SourceAssumption ==
  /\ Jobs \subseteq Seq(Names)
  /\ MaxCrashes \in Nat

VARIABLES
  sources,       \* the committed names
  tx,            \* worker -> the transaction it runs
  persisted,     \* history: the results committed
  crashes        \* the deaths so far

vars == <<sources, tx, persisted, crashes>>

\* next is the position of the name being resolved; inserted are the names that
\* the transaction has flushed and not yet committed.
Transaction ==
       [pc : {"idle"}]
  \cup [pc : {"selecting", "inserting"}, job : Jobs, next : Nat \ {0}, inserted : SUBSET Names]
  \cup [pc : {"failed"}, job : Jobs]

TypeOK ==
  /\ sources \subseteq Names
  /\ tx \in [Workers -> Transaction]
  /\ persisted \subseteq Jobs
  /\ crashes \in 0 .. MaxCrashes

Idle == [pc |-> "idle"]
Begun(job) == [pc |-> "selecting", job |-> job, next |-> 1, inserted |-> {}]

Init ==
  /\ sources = {}
  /\ tx = [w \in Workers |-> Idle]
  /\ persisted = {}
  /\ crashes = 0

At(w, pc) == tx[w].pc = pc
Name(w) == tx[w].job[tx[w].next]
Goto(w, t) == tx' = [tx EXCEPT ![w] = t] /\ UNCHANGED <<sources, persisted, crashes>>

Open(w) == At(w, "selecting") \/ At(w, "inserting")
Resolved(w) == tx[w].next > Len(tx[w].job)

\* A request to persist a result that nobody else is persisting.
Begin(w) ==
  /\ At(w, "idle")
  /\ \E job \in Jobs \ persisted :
       /\ \A v \in Workers : ~At(v, "idle") => tx[v].job # job
       /\ Goto(w, Begun(job))

\* Mutant: without the flush, the SELECT does not see the transaction's own rows.
SelectWithoutFlush(w) ==
  /\ At(w, "selecting") /\ ~Resolved(w)
  /\ Goto(w, IF Name(w) \in sources
             THEN [tx[w] EXCEPT !.next = @ + 1]
             ELSE [tx[w] EXCEPT !.pc = "inserting"])

\* The SELECT sees committed rows and the transaction's own.
SelectSource(w) ==
  /\ At(w, "selecting") /\ ~Resolved(w)
  /\ Goto(w, IF Name(w) \in sources \cup tx[w].inserted
             THEN [tx[w] EXCEPT !.next = @ + 1]
             ELSE [tx[w] EXCEPT !.pc = "inserting"])

\* An uncommitted row of the same name makes the INSERT wait.
Blocked(w, v) == At(w, "inserting") /\ Open(v) /\ v # w /\ Name(w) \in tx[v].inserted

\* A violated constraint, or a deadlock, rolls everything back; no idempotency
\* record is found, the error is not handled, and the client has a 500.
Fail(w) == Goto(w, [pc |-> "failed", job |-> tx[w].job])

\* Mutant: the name of a source is not unique.
InsertSourceAgain(w) ==
  /\ At(w, "inserting")
  /\ \A v \in Workers : ~Blocked(w, v)
  /\ Goto(w, [tx[w] EXCEPT !.pc = "selecting", !.next = @ + 1,
                           !.inserted = @ \cup {Name(w)}])

\* Mutant: a source is committed as soon as it is inserted.
InsertSourceCommitted(w) ==
  /\ At(w, "inserting")
  /\ tx' = [tx EXCEPT ![w].pc = "selecting", ![w].next = @ + 1]
  /\ sources' = sources \cup {Name(w)}
  /\ UNCHANGED <<persisted, crashes>>

InsertSource(w) ==
  /\ At(w, "inserting")
  /\ \A v \in Workers : ~Blocked(w, v)
  /\ IF Name(w) \in sources \cup tx[w].inserted THEN Fail(w)
     ELSE Goto(w, [tx[w] EXCEPT !.pc = "selecting", !.next = @ + 1,
                                !.inserted = @ \cup {Name(w)}])

\* PostgreSQL ends one transaction of a cycle of waiters.
InCycle(w) ==
  \E path \in SetToSeqs(Workers) :
    \E n \in 1 .. Len(path) :
      /\ path[1] = w /\ Blocked(path[n], w)
      /\ \A i \in 1 .. n - 1 : Blocked(path[i], path[i + 1])

ResolveDeadlock(w) == InCycle(w) /\ Fail(w)

Commit(w) ==
  /\ At(w, "selecting") /\ Resolved(w)
  /\ sources' = sources \cup tx[w].inserted
  /\ persisted' = persisted \cup {tx[w].job}
  /\ tx' = [tx EXCEPT ![w] = Idle]
  /\ UNCHANGED crashes

\* The client that got a 500 sends the same result again.
Retry(w) == At(w, "failed") /\ Goto(w, Begun(tx[w].job))

\* The worker dies; the client, whose connection broke, asks again.
Crash(w) ==
  /\ Open(w) /\ crashes < MaxCrashes
  /\ tx' = [tx EXCEPT ![w] = [pc |-> "failed", job |-> tx[w].job]]
  /\ crashes' = crashes + 1
  /\ UNCHANGED <<sources, persisted>>

Step(w) == Begin(w) \/ SelectSource(w) \/ InsertSource(w) \/ ResolveDeadlock(w) \/ Commit(w)

\* Every result is persisted: nothing is left to do.
Rest == persisted = Jobs /\ UNCHANGED vars

Next == (\E w \in Workers : Step(w) \/ Retry(w) \/ Crash(w)) \/ Rest

Spec == Init /\ [][Next]_vars

\* Transactions go on, deadlocks are found, clients do not give up, and a waiter that
\* is woken again and again inserts its row some day.
FairSpec ==
  /\ Spec
  /\ \A w \in Workers : WF_vars(Step(w)) /\ SF_vars(InsertSource(w)) /\ WF_vars(Retry(w))

-----------------------------------------------------------------------------
(* Properties.                                                             *)

NamesOf(job) == {job[i] : i \in 1 .. Len(job)}

\* The sources are exactly those that the committed results name: no result is
\* persisted without the sources of its evidence, and one that fails, whenever
\* it fails, leaves none behind.
SourcesMatchResults == sources = UNION {NamesOf(job) : job \in persisted}

\* Uncommitted names are never in two transactions, nor committed already: the
\* select-then-insert of the code never makes two rows of one name.
NamesStayUnique ==
  \A w \in Workers : Open(w) =>
    /\ tx[w].inserted \cap sources = {}
    /\ \A v \in Workers \ {w} : Open(v) => tx[v].inserted \cap tx[w].inserted = {}

\* A client's retry goes over the network and evaluates the bundle anew: it may well
\* come back after those who waited for the failed transaction were woken.
WaitersWoken == \A v \in Workers : At(v, "inserting") => \E u \in Workers : Blocked(v, u)
RetriesComeLater == \A w \in Workers : Retry(w) => WaitersWoken

\* A result fails only to the benefit of one that gets on: if from some moment on
\* clients send again what failed not before the waiters have moved, every result is
\* persisted in spite of violations, deadlocks and a bounded number of crashes.
\* (With retries that overtake the waiters, three results can defeat each other for
\* ever.)
EveryResultPersisted ==
  <>[][RetriesComeLater]_vars => \A job \in Jobs : <>(job \in persisted)
=============================================================================
