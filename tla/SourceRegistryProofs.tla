------------------------ MODULE SourceRegistryProofs ------------------------
(***************************************************************************)
(* Proofs about the table of evidence sources: no two rows of one name     *)
(* ever, and no row without the result whose evidence names it.            *)
(***************************************************************************)
EXTENDS SourceRegistry, TLAPS

\* How far an open transaction has come: the names it has passed are committed or
\* its own, and what it has inserted are names of its result.
Progress(w) ==
  Open(w) =>
    /\ tx[w].next <= Len(tx[w].job) + 1
    /\ At(w, "inserting") => tx[w].next <= Len(tx[w].job)
    /\ \A i \in 1 .. tx[w].next - 1 : tx[w].job[i] \in sources \cup tx[w].inserted
    /\ tx[w].inserted \subseteq NamesOf(tx[w].job)

RegistryInv ==
  /\ TypeOK
  /\ SourcesMatchResults
  /\ NamesStayUnique
  /\ \A w \in Workers : Progress(w)

\* What the steps of one worker that touch only its transaction have in common.
Moves(w, t) ==
  /\ tx' = [tx EXCEPT ![w] = t]
  /\ sources' = sources /\ persisted' = persisted
  /\ crashes' \in 0 .. MaxCrashes

-----------------------------------------------------------------------------
(* The transactions.                                                       *)

LEMMA OpenTransaction ==
  ASSUME TypeOK, NEW w \in Workers, Open(w)
  PROVE  /\ tx[w] \in [pc : {"selecting", "inserting"}, job : Jobs, next : Nat \ {0},
                       inserted : SUBSET Names]
         /\ tx[w].job \in Jobs /\ tx[w].next \in Nat \ {0}
         /\ tx[w].inserted \subseteq Names
         /\ tx[w].job \in Seq(Names) /\ Len(tx[w].job) \in Nat
<1>1. tx[w] \in Transaction
  BY DEF TypeOK
<1>2. tx[w] \in [pc : {"selecting", "inserting"}, job : Jobs, next : Nat \ {0},
                 inserted : SUBSET Names]
  BY <1>1 DEF Transaction, Open, At
<1>3. tx[w].job \in Seq(Names)
  BY <1>2, SourceAssumption
<1>. QED
  BY <1>2, <1>3

\* A transaction that is not open -- idle or failed -- holds nothing.
LEMMA LeaveKeepsInv ==
  ASSUME RegistryInv, NEW w \in Workers, NEW t \in Transaction,
         t.pc \notin {"selecting", "inserting"}, Moves(w, t)
  PROVE  RegistryInv'
<1>1. /\ tx \in [Workers -> Transaction] /\ tx' \in [Workers -> Transaction]
      /\ tx'[w] = t /\ \A v \in Workers : v # w => tx'[v] = tx[v]
  BY DEF RegistryInv, TypeOK, Moves
<1>2. TypeOK'
  BY <1>1 DEF RegistryInv, TypeOK, Moves
<1>3. SourcesMatchResults'
  BY DEF RegistryInv, SourcesMatchResults, Moves
<1>4. ~Open(w)' /\ \A v \in Workers : v # w => (Open(v)' <=> Open(v))
  BY <1>1 DEF Open, At
<1>5. NamesStayUnique'
  BY <1>1, <1>4 DEF RegistryInv, NamesStayUnique, Moves
<1>6. ASSUME NEW v \in Workers PROVE Progress(v)'
  <2>1. CASE v = w
    BY <1>4, <2>1 DEF Progress
  <2>2. CASE v # w
    BY <1>1, <1>4, <2>2 DEF RegistryInv, Progress, Moves, At
  <2>. QED
    BY <2>1, <2>2
<1>. QED
  BY <1>2, <1>3, <1>5, <1>6 DEF RegistryInv

\* An open transaction may take a step that keeps its names apart from all others.
LEMMA StayKeepsInv ==
  ASSUME RegistryInv, NEW w \in Workers, NEW t \in Transaction, Moves(w, t),
         t.pc \in {"selecting", "inserting"},
         t.inserted \cap sources = {},
         \A v \in Workers \ {w} : Open(v) => tx[v].inserted \cap t.inserted = {},
         t.next <= Len(t.job) + 1,
         t.pc = "inserting" => t.next <= Len(t.job),
         \A i \in 1 .. t.next - 1 : t.job[i] \in sources \cup t.inserted,
         t.inserted \subseteq NamesOf(t.job)
  PROVE  RegistryInv'
<1>1. /\ tx \in [Workers -> Transaction] /\ tx' \in [Workers -> Transaction]
      /\ tx'[w] = t /\ \A v \in Workers : v # w => tx'[v] = tx[v]
  BY DEF RegistryInv, TypeOK, Moves
<1>2. TypeOK'
  BY <1>1 DEF RegistryInv, TypeOK, Moves
<1>3. SourcesMatchResults'
  BY DEF RegistryInv, SourcesMatchResults, Moves
<1>4. \A v \in Workers : v # w => (Open(v)' <=> Open(v))
  BY <1>1 DEF Open, At
<1>5. NamesStayUnique'
  <2> SUFFICES ASSUME NEW u \in Workers, Open(u)'
               PROVE  /\ tx'[u].inserted \cap sources' = {}
                      /\ \A v \in Workers \ {u} :
                           Open(v)' => tx'[v].inserted \cap tx'[u].inserted = {}
    BY DEF NamesStayUnique, Open, At
  <2>1. CASE u = w
    BY <1>1, <1>4, <2>1 DEF Moves
  <2>2. CASE u # w
    <3>1. Open(u) /\ tx'[u] = tx[u] /\ sources' = sources
      BY <1>1, <1>4, <2>2 DEF Moves
    <3>2. tx[u].inserted \cap t.inserted = {}
      BY <2>2, <3>1
    <3>3. ASSUME NEW v \in Workers \ {u}, Open(v)'
          PROVE  tx'[v].inserted \cap tx'[u].inserted = {}
      <4>1. CASE v = w
        BY <1>1, <3>1, <3>2, <4>1
      <4>2. CASE v # w
        BY <1>1, <1>4, <3>1, <3>3, <4>2 DEF RegistryInv, NamesStayUnique
      <4>. QED
        BY <4>1, <4>2
    <3>. QED
      BY <3>1, <3>3 DEF RegistryInv, NamesStayUnique
  <2>. QED
    BY <2>1, <2>2
<1>6. ASSUME NEW v \in Workers PROVE Progress(v)'
  <2>1. CASE v = w
    BY <1>1, <2>1 DEF Progress, Moves, At, Open
  <2>2. CASE v # w
    BY <1>1, <1>4, <2>2 DEF RegistryInv, Progress, Moves, At
  <2>. QED
    BY <2>1, <2>2
<1>. QED
  BY <1>2, <1>3, <1>5, <1>6 DEF RegistryInv

-----------------------------------------------------------------------------
(* The steps.                                                              *)

LEMMA BegunKeepsInv ==
  ASSUME RegistryInv, NEW w \in Workers, NEW job \in Jobs, Moves(w, Begun(job))
  PROVE  RegistryInv'
<1>1. Begun(job) \in Transaction
  BY DEF Begun, Transaction
<1>2. Len(job) \in Nat
  BY SourceAssumption
<1>. QED
  BY <1>1, <1>2, StayKeepsInv DEF Begun

LEMMA FailKeepsInv ==
  ASSUME RegistryInv, NEW w \in Workers, Open(w),
         Moves(w, [pc |-> "failed", job |-> tx[w].job])
  PROVE  RegistryInv'
<1>1. tx[w].job \in Jobs
  BY OpenTransaction DEF RegistryInv
<1>2. [pc |-> "failed", job |-> tx[w].job] \in Transaction
  BY <1>1 DEF Transaction
<1>. QED
  BY <1>2, LeaveKeepsInv

LEMMA GotoMoves ==
  ASSUME TypeOK, NEW w \in Workers, NEW t, Goto(w, t)
  PROVE  Moves(w, t)
BY DEF TypeOK, Goto, Moves

LEMMA BeginKeepsInv ==
  ASSUME RegistryInv, NEW w \in Workers, Begin(w)
  PROVE  RegistryInv'
<1>1. PICK job \in Jobs : Goto(w, Begun(job))
  BY DEF Begin
<1>. QED
  BY <1>1, GotoMoves, BegunKeepsInv DEF RegistryInv

LEMMA RetryKeepsInv ==
  ASSUME RegistryInv, NEW w \in Workers, Retry(w)
  PROVE  RegistryInv'
<1>1. tx[w] \in Transaction /\ tx[w].pc = "failed"
  BY DEF RegistryInv, TypeOK, Retry, At
<1>2. tx[w].job \in Jobs
  BY <1>1 DEF Transaction
<1>. QED
  BY <1>2, GotoMoves, BegunKeepsInv DEF RegistryInv, Retry

LEMMA SelectKeepsInv ==
  ASSUME RegistryInv, NEW w \in Workers, SelectSource(w)
  PROVE  RegistryInv'
<1>1. Open(w) /\ tx[w].pc = "selecting" /\ ~(tx[w].next > Len(tx[w].job))
  BY DEF SelectSource, Open, At, Resolved
<1>2. /\ tx[w] \in [pc : {"selecting", "inserting"}, job : Jobs, next : Nat \ {0},
                    inserted : SUBSET Names]
      /\ tx[w].next \in Nat \ {0} /\ Len(tx[w].job) \in Nat
  BY <1>1, OpenTransaction DEF RegistryInv
<1>3. /\ tx[w].inserted \cap sources = {}
      /\ \A v \in Workers \ {w} : Open(v) => tx[v].inserted \cap tx[w].inserted = {}
      /\ tx[w].next <= Len(tx[w].job)
      /\ \A i \in 1 .. tx[w].next - 1 : tx[w].job[i] \in sources \cup tx[w].inserted
      /\ tx[w].inserted \subseteq NamesOf(tx[w].job)
  BY <1>1, <1>2 DEF RegistryInv, NamesStayUnique, Progress
<1>4. CASE Name(w) \in sources \cup tx[w].inserted
  <2> DEFINE t == [tx[w] EXCEPT !.next = @ + 1]
  <2>1. Moves(w, t)
    BY <1>4, GotoMoves DEF SelectSource, RegistryInv
  <2>2. /\ t \in Transaction /\ t.pc = "selecting" /\ t.job = tx[w].job
        /\ t.inserted = tx[w].inserted /\ t.next = tx[w].next + 1
    BY <1>1, <1>2 DEF Transaction
  <2>3. ASSUME NEW i \in 1 .. t.next - 1
        PROVE  t.job[i] \in sources \cup t.inserted
    <3>1. i = tx[w].next \/ i \in 1 .. tx[w].next - 1
      BY <1>2, <2>2
    <3>. QED
      BY <1>3, <1>4, <2>2, <3>1 DEF Name
  <2>. HIDE DEF t
  <2>. QED
    BY <1>2, <1>3, <2>1, <2>2, <2>3, StayKeepsInv
<1>5. CASE Name(w) \notin sources \cup tx[w].inserted
  <2> DEFINE t == [tx[w] EXCEPT !.pc = "inserting"]
  <2>1. Moves(w, t)
    BY <1>5, GotoMoves DEF SelectSource, RegistryInv
  <2>2. /\ t \in Transaction /\ t.pc = "inserting" /\ t.job = tx[w].job
        /\ t.inserted = tx[w].inserted /\ t.next = tx[w].next
    BY <1>1, <1>2 DEF Transaction
  <2>. HIDE DEF t
  <2>. QED
    BY <1>2, <1>3, <2>1, <2>2, StayKeepsInv
<1>. QED
  BY <1>4, <1>5

LEMMA InsertKeepsInv ==
  ASSUME RegistryInv, NEW w \in Workers, InsertSource(w)
  PROVE  RegistryInv'
<1>1. Open(w) /\ tx[w].pc = "inserting"
  BY DEF InsertSource, Open, At
<1>2. /\ tx[w] \in [pc : {"selecting", "inserting"}, job : Jobs, next : Nat \ {0},
                    inserted : SUBSET Names]
      /\ tx[w].next \in Nat \ {0} /\ Len(tx[w].job) \in Nat
      /\ tx[w].job \in Seq(Names)
  BY <1>1, OpenTransaction DEF RegistryInv
<1>3. /\ tx[w].inserted \cap sources = {}
      /\ \A v \in Workers \ {w} : Open(v) => tx[v].inserted \cap tx[w].inserted = {}
      /\ tx[w].next <= Len(tx[w].job)
      /\ \A i \in 1 .. tx[w].next - 1 : tx[w].job[i] \in sources \cup tx[w].inserted
      /\ tx[w].inserted \subseteq NamesOf(tx[w].job)
  BY <1>1, <1>2 DEF RegistryInv, NamesStayUnique, Progress, At
<1>4. CASE Name(w) \in sources \cup tx[w].inserted
  BY <1>1, <1>4, GotoMoves, FailKeepsInv DEF InsertSource, Fail, RegistryInv
<1>5. CASE Name(w) \notin sources \cup tx[w].inserted
  <2> DEFINE t == [tx[w] EXCEPT !.pc = "selecting", !.next = @ + 1,
                                !.inserted = @ \cup {Name(w)}]
  <2>1. Moves(w, t)
    BY <1>5, GotoMoves DEF InsertSource, RegistryInv
  <2>2. Name(w) \in Names /\ Name(w) \in NamesOf(tx[w].job)
    <3>1. tx[w].next \in 1 .. Len(tx[w].job)
      BY <1>2, <1>3
    <3>. QED
      BY <1>2, <3>1 DEF Name, NamesOf
  <2>3. /\ t \in Transaction /\ t.pc = "selecting" /\ t.job = tx[w].job
        /\ t.inserted = tx[w].inserted \cup {Name(w)} /\ t.next = tx[w].next + 1
    <3>1. /\ t.pc = "selecting" /\ t.job = tx[w].job
          /\ t.inserted = tx[w].inserted \cup {Name(w)} /\ t.next = tx[w].next + 1
      BY <1>1, <1>2
    <3>2. tx[w].inserted \cup {Name(w)} \in SUBSET Names /\ tx[w].next + 1 \in Nat \ {0}
      BY <1>2, <2>2
    <3>3. t \in [pc : {"selecting", "inserting"}, job : Jobs, next : Nat \ {0},
                 inserted : SUBSET Names]
      <4> HIDE DEF Name
      <4>. QED
        BY <1>2, <3>2
    <3>. QED
      BY <3>1, <3>3 DEF Transaction
  <2>4. ASSUME NEW i \in 1 .. t.next - 1
        PROVE  t.job[i] \in sources \cup t.inserted
    <3>1. i = tx[w].next \/ i \in 1 .. tx[w].next - 1
      BY <1>2, <2>3
    <3>. QED
      BY <1>3, <2>3, <3>1 DEF Name
  <2>5. ASSUME NEW v \in Workers \ {w}, Open(v)
        PROVE  tx[v].inserted \cap t.inserted = {}
    <3>1. Name(w) \notin tx[v].inserted
      BY <2>5 DEF InsertSource, Blocked
    <3>. QED
      BY <1>3, <2>3, <2>5, <3>1
  <2>6. /\ t.inserted \cap sources = {} /\ t.inserted \subseteq NamesOf(t.job)
        /\ t.next <= Len(t.job) + 1
    BY <1>2, <1>3, <1>5, <2>2, <2>3
  <2>. HIDE DEF t
  <2>. QED
    BY <2>1, <2>3, <2>4, <2>5, <2>6, StayKeepsInv
<1>. QED
  BY <1>4, <1>5

LEMMA DeadlockKeepsInv ==
  ASSUME RegistryInv, NEW w \in Workers, ResolveDeadlock(w)
  PROVE  RegistryInv'
<1>1. Open(w)
  BY DEF ResolveDeadlock, InCycle, Blocked
<1>. QED
  BY <1>1, GotoMoves, FailKeepsInv DEF ResolveDeadlock, Fail, RegistryInv

LEMMA CrashKeepsInv ==
  ASSUME RegistryInv, NEW w \in Workers, Crash(w)
  PROVE  RegistryInv'
<1>1. Open(w) /\ Moves(w, [pc |-> "failed", job |-> tx[w].job])
  BY SourceAssumption DEF Crash, Moves, RegistryInv, TypeOK
<1>. QED
  BY <1>1, FailKeepsInv

\* A transaction commits when it has passed every name of its result: what it
\* inserted, and what it found committed, are the names of the result together.
LEMMA CommitKeepsInv ==
  ASSUME RegistryInv, NEW w \in Workers, Commit(w)
  PROVE  RegistryInv'
<1>1. Open(w) /\ tx[w].pc = "selecting" /\ tx[w].next > Len(tx[w].job)
  BY DEF Commit, Open, At, Resolved
<1>2. /\ tx[w].job \in Jobs /\ tx[w].next \in Nat \ {0} /\ Len(tx[w].job) \in Nat
      /\ tx[w].inserted \subseteq Names
  BY <1>1, OpenTransaction DEF RegistryInv
<1>3. /\ sources' = sources \cup tx[w].inserted
      /\ persisted' = persisted \cup {tx[w].job}
      /\ tx \in [Workers -> Transaction] /\ tx' \in [Workers -> Transaction]
      /\ tx'[w] = Idle /\ \A v \in Workers : v # w => tx'[v] = tx[v]
      /\ crashes' = crashes
  BY DEF Commit, RegistryInv, TypeOK, Idle, Transaction
<1>4. TypeOK'
  BY <1>2, <1>3 DEF RegistryInv, TypeOK
<1>5. ~Open(w)' /\ \A v \in Workers : v # w => (Open(v)' <=> Open(v))
  BY <1>3 DEF Open, At, Idle
<1>6. /\ tx[w].inserted \subseteq NamesOf(tx[w].job)
      /\ NamesOf(tx[w].job) \subseteq sources \cup tx[w].inserted
  <2>1. /\ \A i \in 1 .. tx[w].next - 1 : tx[w].job[i] \in sources \cup tx[w].inserted
        /\ tx[w].inserted \subseteq NamesOf(tx[w].job)
    BY <1>1 DEF RegistryInv, Progress
  <2>2. ASSUME NEW i \in 1 .. Len(tx[w].job)
        PROVE  tx[w].job[i] \in sources \cup tx[w].inserted
    <3>1. i \in 1 .. tx[w].next - 1
      BY <1>1, <1>2
    <3>. QED
      BY <2>1, <3>1
  <2>. QED
    BY <2>1, <2>2 DEF NamesOf
<1>7. SourcesMatchResults'
  <2>1. sources = UNION {NamesOf(job) : job \in persisted}
    BY DEF RegistryInv, SourcesMatchResults
  <2>2. sources' = UNION {NamesOf(job) : job \in persisted'}
    BY <1>3, <1>6, <2>1
  <2>. QED
    BY <2>2 DEF SourcesMatchResults, NamesOf
<1>8. NamesStayUnique'
  BY <1>1, <1>3, <1>5 DEF RegistryInv, NamesStayUnique
<1>9. ASSUME NEW v \in Workers PROVE Progress(v)'
  <2>1. CASE v = w
    BY <1>5, <2>1 DEF Progress
  <2>2. CASE v # w
    BY <1>3, <1>5, <2>2 DEF RegistryInv, Progress, At
  <2>. QED
    BY <2>1, <2>2
<1>. QED
  BY <1>4, <1>7, <1>8, <1>9 DEF RegistryInv

-----------------------------------------------------------------------------

LEMMA RegistryAlways == Spec => []RegistryInv
<1>1. Init => RegistryInv
  <2> SUFFICES ASSUME Init PROVE RegistryInv
    OBVIOUS
  <2>1. \A w \in Workers : ~Open(w)
    BY DEF Init, Open, At, Idle
  <2>2. TypeOK
    BY SourceAssumption DEF Init, TypeOK, Idle, Transaction
  <2>3. SourcesMatchResults
    BY DEF Init, SourcesMatchResults
  <2>. QED
    BY <2>1, <2>2, <2>3 DEF RegistryInv, NamesStayUnique, Progress
<1>2. RegistryInv /\ [Next]_vars => RegistryInv'
  <2> SUFFICES ASSUME RegistryInv, [Next]_vars PROVE RegistryInv'
    OBVIOUS
  <2>1. CASE UNCHANGED vars
    BY <2>1 DEF vars, RegistryInv, TypeOK, SourcesMatchResults, NamesStayUnique, Progress,
                Open, At, NamesOf
  <2>2. CASE \E w \in Workers : Step(w) \/ Retry(w) \/ Crash(w)
    BY <2>2, BeginKeepsInv, SelectKeepsInv, InsertKeepsInv, DeadlockKeepsInv, CommitKeepsInv,
       RetryKeepsInv, CrashKeepsInv DEF Step
  <2>. QED
    BY <2>1, <2>2 DEF Next, Rest
<1>. QED
  BY <1>1, <1>2, PTL DEF Spec

THEOREM TypeCorrect == Spec => []TypeOK
<1>1. RegistryInv => TypeOK
  BY DEF RegistryInv
<1>. QED
  BY <1>1, RegistryAlways, PTL

\* No name is in two open transactions, nor in one and committed: the select-then-insert
\* of _get_or_create_source never makes two rows of one name.
THEOREM NamesAlwaysUnique == Spec => []NamesStayUnique
<1>1. RegistryInv => NamesStayUnique
  BY DEF RegistryInv
<1>. QED
  BY <1>1, RegistryAlways, PTL

\* The committed sources are those that the committed results name, whatever failed,
\* deadlocked or crashed on the way.
THEOREM SourcesAlwaysMatchResults == Spec => []SourcesMatchResults
<1>1. RegistryInv => SourcesMatchResults
  BY DEF RegistryInv
<1>. QED
  BY <1>1, RegistryAlways, PTL
=============================================================================
