----------------------- MODULE TenantRateLimiterProofs -----------------------
(***************************************************************************)
(* Proofs about TenantRateLimiter, for any budget, any length of the       *)
(* window and any number of tenants and threads.                           *)
(***************************************************************************)
EXTENDS TenantRateLimiter, FiniteSetTheorems, TLAPS

\* The requests that a history counts in the window of t opened at s.
Counted(log, t, s) == {i \in 1 .. Len(log) : log[i].tenant = t /\ log[i].started_at = s}

\* One thread at a time is inside, and it sees the window that is stored.
OneInside ==
  \A p \in Threads : At(p, "inside") =>
    /\ \A q \in Threads : At(q, "inside") => p = q
    /\ thread[p].seen = {windows[t] : t \in {thread[p].tenant} \cap DOMAIN windows}

\* The stored window counts the requests let through in it.
WindowCounts ==
  \A t \in DOMAIN windows :
    windows[t].request_count = Cardinality(Counted(accepted, t, windows[t].started_at))

\* The stored window is the latest of its tenant.
WindowIsLatest ==
  \A i \in 1 .. Len(accepted) :
    /\ accepted[i].tenant \in DOMAIN windows
    /\ accepted[i].started_at <= windows[accepted[i].tenant].started_at

\* A request is refused while the window it was refused by is running.
RefusedInWindow ==
  \A r \in refused :
    /\ r.now - r.started_at < Length
    /\ Length - (r.now - r.started_at) <= r.retry_after * Ticks

LimiterInv ==
  /\ TypeOK
  /\ OneInside
  /\ WindowCounts
  /\ WindowIsLatest
  /\ BudgetPerWindow
  /\ RefusedInWindow

-----------------------------------------------------------------------------
(* Numbers.                                                                *)

LEMMA LengthTyped == Length \in Nat \ {0}
<1>1. \A a, b \in Nat \ {0} : a * b \in Nat \ {0}
  OBVIOUS
<1>2. QED
  BY <1>1, LimiterAssumption DEF Length

LEMMA DivBounds ==
  ASSUME NEW a \in Nat, NEW b \in Nat \ {0}
  PROVE  /\ a \div b \in Nat
         /\ b * (a \div b) <= a
         /\ a < b * (a \div b) + b
  OBVIOUS

\* The seconds told cover the time left, and are at least one.
LEMMA RetryAfterCovers ==
  ASSUME NEW left \in Nat \ {0}
  PROVE  /\ RetryAfter(left) \in Nat /\ RetryAfter(left) >= 1
         /\ left <= RetryAfter(left) * Ticks
<1> DEFINE q == (left + Ticks - 1) \div Ticks
<1>1. left + Ticks - 1 \in Nat /\ Ticks \in Nat \ {0}
  BY LimiterAssumption
<1>2. q \in Nat /\ left + Ticks - 1 < Ticks * q + Ticks
  BY <1>1, DivBounds
<1>3. RetryAfter(left) = IF q > 1 THEN q ELSE 1
  BY DEF RetryAfter
<1> HIDE DEF q
<1>4. Ticks * q = q * Ticks /\ 1 * Ticks = Ticks /\ 0 * Ticks = 0 /\ q * Ticks \in Nat
  BY <1>1, <1>2
<1>5. left <= q * Ticks
  BY <1>1, <1>2, <1>4
<1>6. q >= 1
  BY <1>2, <1>4, <1>5
<1>7. QED
  BY <1>2, <1>3, <1>4, <1>5, <1>6

-----------------------------------------------------------------------------
(* Types.                                                                  *)

LEMMA ThreadFields ==
  ASSUME NEW t \in Thread
  PROVE  /\ t.pc \in {"idle", "entering", "inside"}
         /\ t.pc \in {"entering", "inside"} => t.tenant \in Tenants /\ t.now \in Time
         /\ t.pc = "inside" => t.seen \subseteq Window
  BY DEF Thread

LEMMA ThreadFormed ==
  /\ Idle \in Thread
  /\ \A t \in Tenants, n \in Time :
       /\ [pc |-> "entering", tenant |-> t, now |-> n] \in Thread
       /\ \A S \in SUBSET Window : [pc |-> "inside", tenant |-> t, now |-> n, seen |-> S] \in Thread
  BY DEF Thread, Idle

LEMMA AcceptTypes ==
  ASSUME TypeOK, NEW p \in Threads, At(p, "inside"), NEW w \in Window, Accept(p, w)
  PROVE  TypeOK'
<1>1. thread[p].tenant \in Tenants /\ thread[p].now \in Time
  BY ThreadFields DEF TypeOK, At
<1>2. IsTable(windows, Tenants, Window)'
  BY <1>1 DEF Accept, TypeOK, IsTable, With
<1>3. accepted' \in Seq(Accepted)
  <2> DEFINE e == [tenant |-> thread[p].tenant, started_at |-> w.started_at, now |-> thread[p].now]
  <2>1. e \in Accepted
    BY <1>1 DEF Accepted, Window
  <2>2. accepted' = Append(accepted, e) /\ accepted \in Seq(Accepted)
    BY DEF Accept, TypeOK
  <2> HIDE DEF e
  <2>3. QED
    BY <2>1, <2>2
<1>4. thread' \in [Threads -> Thread]
  BY ThreadFormed DEF Accept, TypeOK
<1>5. QED
  BY <1>2, <1>3, <1>4 DEF Accept, TypeOK

LEMMA TypesInit == Init => TypeOK
<1> SUFFICES ASSUME Init PROVE TypeOK
  OBVIOUS
<1>1. clock \in Time
  BY LimiterAssumption DEF Init, Time
<1>2. IsTable(windows, Tenants, Window)
  BY DEF Init, IsTable, EmptyTable
<1>3. thread \in [Threads -> Thread] /\ accepted \in Seq(Accepted) /\ refused \subseteq Refused
  BY ThreadFormed DEF Init
<1>4. QED
  BY <1>1, <1>2, <1>3 DEF TypeOK

LEMMA TypesNext == TypeOK /\ [Next]_vars => TypeOK'
<1> SUFFICES ASSUME TypeOK, [Next]_vars PROVE TypeOK'
  OBVIOUS
<1>1. CASE Tick
  BY <1>1, LimiterAssumption DEF Tick, TypeOK, Time
<1>2. ASSUME NEW p \in Threads, ReadClock(p) PROVE TypeOK'
  <2>1. PICK t \in Tenants :
          thread' = [thread EXCEPT ![p] = [pc |-> "entering", tenant |-> t, now |-> clock]]
    BY <1>2 DEF ReadClock
  <2>2. thread' \in [Threads -> Thread]
    BY <2>1, ThreadFormed DEF TypeOK
  <2>3. QED
    BY <1>2, <2>2 DEF ReadClock, TypeOK
<1>3. ASSUME NEW p \in Threads, Enter(p) PROVE TypeOK'
  <2> DEFINE S == {windows[t] : t \in {thread[p].tenant} \cap DOMAIN windows}
  <2>1. thread[p].tenant \in Tenants /\ thread[p].now \in Time
    BY <1>3, ThreadFields DEF Enter, At, TypeOK
  <2>2. S \in SUBSET Window
    BY DEF TypeOK, IsTable
  <2>3. [pc |-> "inside", tenant |-> thread[p].tenant, now |-> thread[p].now, seen |-> S] \in Thread
    BY <2>1, <2>2, ThreadFormed
  <2>4. thread' \in [Threads -> Thread]
    BY <1>3, <2>3 DEF Enter, See, TypeOK
  <2>5. QED
    BY <1>3, <2>4 DEF Enter, See, TypeOK
<1>4. ASSUME NEW p \in Threads, OpenWindow(p) PROVE TypeOK'
  <2>1. [started_at |-> thread[p].now, request_count |-> 1] \in Window
    BY <1>4, ThreadFields DEF OpenWindow, At, TypeOK, Window
  <2>2. QED
    BY <1>4, <2>1, AcceptTypes DEF OpenWindow
<1>5. ASSUME NEW p \in Threads, CountRequest(p) PROVE TypeOK'
  <2>1. PICK w \in Running(p) : Accept(p, [w EXCEPT !.request_count = @ + 1])
    BY <1>5 DEF CountRequest
  <2>2. w \in Window
    BY <1>5, <2>1, ThreadFields DEF CountRequest, At, TypeOK, Running
  <2>3. [w EXCEPT !.request_count = @ + 1] \in Window
    BY <2>2 DEF Window
  <2>4. QED
    BY <1>5, <2>1, <2>3, AcceptTypes DEF CountRequest
<1>6. ASSUME NEW p \in Threads, Refuse(p) PROVE TypeOK'
  <2> DEFINE told(w) == [tenant |-> thread[p].tenant, started_at |-> w.started_at, now |-> thread[p].now,
                         retry_after |-> RetryAfter(Length - (thread[p].now - w.started_at))]
  <2>1. PICK w \in Running(p) : refused' = refused \cup {told(w)}
    BY <1>6 DEF Refuse
  <2>2. w \in Window /\ thread[p].tenant \in Tenants /\ thread[p].now \in Time
    BY <1>6, <2>1, ThreadFields DEF Refuse, At, TypeOK, Running
  <2>3. Length - (thread[p].now - w.started_at) \in Nat \ {0}
    BY <2>1, <2>2, LengthTyped DEF Running, Window, Time
  <2>4. told(w) \in Refused
    BY <2>2, <2>3, RetryAfterCovers DEF Refused, Window
  <2>5. thread' \in [Threads -> Thread]
    BY <1>6, ThreadFormed DEF Refuse, TypeOK
  <2>6. QED
    BY <1>6, <2>1, <2>4, <2>5 DEF Refuse, TypeOK
<1>7. CASE UNCHANGED vars
  BY <1>7 DEF vars, TypeOK
<1>8. QED
  BY <1>1, <1>2, <1>3, <1>4, <1>5, <1>6, <1>7 DEF Next, Check

-----------------------------------------------------------------------------
(* The invariant.                                                          *)

LEMMA BudgetIsCounted ==
  BudgetPerWindow <=> \A t \in Tenants, s \in Time : Cardinality(Counted(accepted, t, s)) <= Requests
  BY DEF BudgetPerWindow, AcceptedOf, Counted

LEMMA CountedFinite ==
  ASSUME TypeOK, NEW t, NEW s
  PROVE  IsFiniteSet(Counted(accepted, t, s)) /\ Cardinality(Counted(accepted, t, s)) \in Nat
<1>1. IsFiniteSet(1 .. Len(accepted))
  <2>1. Len(accepted) \in Nat
    BY DEF TypeOK
  <2>2. QED
    BY <2>1, FS_Interval
<1>2. Counted(accepted, t, s) \subseteq 1 .. Len(accepted)
  BY DEF Counted
<1>3. QED
  BY <1>1, <1>2, FS_Subset, FS_CardinalityType

\* A request let through is counted once more in its window, and in no other.
LEMMA AcceptCounts ==
  ASSUME TypeOK, NEW p \in Threads, NEW w, Accept(p, w)
  PROVE  /\ accepted' = Append(accepted, [tenant |-> thread[p].tenant, started_at |-> w.started_at,
                                          now |-> thread[p].now])
         /\ Cardinality(Counted(accepted', thread[p].tenant, w.started_at))
              = Cardinality(Counted(accepted, thread[p].tenant, w.started_at)) + 1
<1> DEFINE e == [tenant |-> thread[p].tenant, started_at |-> w.started_at, now |-> thread[p].now]
           n == Len(accepted)
<1>1. accepted' = Append(accepted, e) /\ accepted \in Seq(Accepted)
  BY DEF Accept, TypeOK
<1>2. e.tenant = thread[p].tenant /\ e.started_at = w.started_at
  OBVIOUS
<1> HIDE DEF e
<1>3. /\ n \in Nat /\ Len(accepted') = n + 1 /\ accepted'[n + 1] = e
      /\ \A i \in 1 .. n : accepted'[i] = accepted[i]
  BY <1>1
<1> HIDE DEF n
<1>4. 1 .. n + 1 = (1 .. n) \cup {n + 1} /\ n + 1 \notin 1 .. n
  BY <1>3
<1>5. n + 1 \notin Counted(accepted, thread[p].tenant, w.started_at)
  BY <1>4 DEF Counted, n
<1>6. Counted(accepted', thread[p].tenant, w.started_at)
        = Counted(accepted, thread[p].tenant, w.started_at) \cup {n + 1}
  BY <1>2, <1>3, <1>4 DEF Counted, n
<1>7. Cardinality(Counted(accepted', thread[p].tenant, w.started_at))
        = Cardinality(Counted(accepted, thread[p].tenant, w.started_at)) + 1
  BY <1>5, <1>6, CountedFinite, FS_AddElement
<1>8. QED
  BY <1>1, <1>7 DEF e

LEMMA AcceptCountsNoOther ==
  ASSUME TypeOK, NEW p \in Threads, NEW w, Accept(p, w), NEW t, NEW s,
         t # thread[p].tenant \/ s # w.started_at
  PROVE  Counted(accepted', t, s) = Counted(accepted, t, s)
<1> DEFINE e == [tenant |-> thread[p].tenant, started_at |-> w.started_at, now |-> thread[p].now]
<1>1. accepted' = Append(accepted, e) /\ accepted \in Seq(Accepted)
  BY DEF Accept, TypeOK
<1>2. ~(e.tenant = t /\ e.started_at = s)
  OBVIOUS
<1> HIDE DEF e
<1>3. /\ Len(accepted) \in Nat /\ Len(accepted') = Len(accepted) + 1
      /\ accepted'[Len(accepted) + 1] = e
      /\ \A i \in 1 .. Len(accepted) : accepted'[i] = accepted[i]
  BY <1>1
<1>4. ASSUME NEW i PROVE i \in Counted(accepted', t, s) <=> i \in Counted(accepted, t, s)
  <2>1. CASE i = Len(accepted) + 1
    BY <1>2, <1>3, <2>1 DEF Counted
  <2>2. CASE i # Len(accepted) + 1
    BY <1>3, <2>2 DEF Counted
  <2>3. QED
    BY <2>1, <2>2
<1>5. QED
  BY <1>4

LEMMA LimiterInvInit == Init => LimiterInv
<1> SUFFICES ASSUME Init PROVE LimiterInv
  OBVIOUS
<1>1. TypeOK
  BY TypesInit
<1>2. OneInside /\ RefusedInWindow /\ WindowIsLatest /\ WindowCounts
  BY DEF Init, EmptyTable, Idle, OneInside, RefusedInWindow, WindowIsLatest, WindowCounts, At
<1>3. \A t, s : Counted(accepted, t, s) = {}
  BY DEF Init, Counted
<1>4. BudgetPerWindow
  BY <1>3, FS_EmptySet, BudgetIsCounted, LimiterAssumption
<1>5. QED
  BY <1>1, <1>2, <1>4 DEF LimiterInv

\* A request is let through by the one thread inside, in a window that has room.
LEMMA LimiterInvAccept ==
  ASSUME LimiterInv, TypeOK', NEW p \in Threads, At(p, "inside"), NEW w \in Window, Accept(p, w),
         w.request_count = Cardinality(Counted(accepted, thread[p].tenant, w.started_at)) + 1,
         w.request_count <= Requests,
         thread[p].tenant \in DOMAIN windows
           => windows[thread[p].tenant].started_at <= w.started_at
  PROVE  LimiterInv'
<1> DEFINE tenant == thread[p].tenant
<1>0. tenant \in Tenants /\ TypeOK
  BY ThreadFields DEF LimiterInv, TypeOK, At
<1>1. /\ DOMAIN windows' = DOMAIN windows \cup {tenant}
      /\ windows'[tenant] = w
      /\ \A t \in DOMAIN windows : t # tenant => windows'[t] = windows[t]
  <2>1. windows' = With(windows, tenant, w)
    BY DEF Accept
  <2> HIDE DEF tenant
  <2>2. QED
    BY <2>1 DEF With
<1>2. OneInside'
  <2>1. thread'[p].pc = "idle" /\ \A q \in Threads : q # p => thread'[q] = thread[q]
    BY DEF Accept, Idle, LimiterInv, TypeOK
  <2>2. \A q \in Threads : thread'[q].pc # "inside"
    BY <2>1 DEF LimiterInv, OneInside, At
  <2>3. QED
    BY <2>2 DEF OneInside, At
<1>3. WindowCounts'
  <2> SUFFICES ASSUME NEW t \in DOMAIN windows'
               PROVE  windows'[t].request_count = Cardinality(Counted(accepted', t, windows'[t].started_at))
    BY DEF WindowCounts, Counted
  <2>1. CASE t = tenant
    BY <1>0, <1>1, <2>1, AcceptCounts
  <2>2. CASE t # tenant
    <3>1. t \in DOMAIN windows /\ windows'[t] = windows[t]
      BY <1>1, <2>2
    <3>2. Counted(accepted', t, windows[t].started_at) = Counted(accepted, t, windows[t].started_at)
      BY <1>0, <2>2, AcceptCountsNoOther
    <3>3. windows[t].request_count = Cardinality(Counted(accepted, t, windows[t].started_at))
      BY <3>1 DEF LimiterInv, WindowCounts
    <3>4. QED
      BY <3>1, <3>2, <3>3
  <2>3. QED
    BY <2>1, <2>2
<1>4. WindowIsLatest'
  <2> DEFINE e == [tenant |-> tenant, started_at |-> w.started_at, now |-> thread[p].now]
             n == Len(accepted)
  <2>1. accepted' = Append(accepted, e) /\ accepted \in Seq(Accepted)
    BY DEF Accept, LimiterInv, TypeOK
  <2>2. e.tenant = tenant /\ e.started_at = w.started_at
    OBVIOUS
  <2> HIDE DEF e
  <2>3. /\ n \in Nat /\ Len(accepted') = n + 1 /\ accepted'[n + 1] = e
        /\ \A i \in 1 .. n : accepted'[i] = accepted[i] /\ accepted[i] \in Accepted
    BY <2>1
  <2> SUFFICES ASSUME NEW i \in 1 .. Len(accepted')
               PROVE  /\ accepted'[i].tenant \in DOMAIN windows'
                      /\ accepted'[i].started_at <= windows'[accepted'[i].tenant].started_at
    BY DEF WindowIsLatest
  <2>4. w.started_at \in Int /\ \A t \in DOMAIN windows : windows[t].started_at \in Int
    BY <1>0, LimiterAssumption DEF TypeOK, IsTable, Window, Time
  <2>5. CASE i = n + 1
    BY <1>1, <2>2, <2>3, <2>4, <2>5
  <2>6. CASE i \in 1 .. n
    <3>1. /\ accepted[i].tenant \in DOMAIN windows /\ accepted[i].started_at \in Int
          /\ accepted[i].started_at <= windows[accepted[i].tenant].started_at
      BY <2>3, <2>6, LimiterAssumption DEF LimiterInv, WindowIsLatest, Accepted, Time
    <3>2. accepted'[i] = accepted[i]
      BY <2>3, <2>6
    <3> DEFINE t == accepted[i].tenant
    <3> HIDE DEF t
    <3>3. t \in DOMAIN windows' /\ accepted[i].started_at <= windows'[t].started_at
      <4>1. t \in DOMAIN windows /\ accepted[i].started_at <= windows[t].started_at
        BY <3>1 DEF t
      <4>2. CASE t = tenant
        BY <1>1, <2>4, <3>1, <4>1, <4>2
      <4>3. CASE t # tenant
        BY <1>1, <4>1, <4>3
      <4>4. QED
        BY <4>2, <4>3
    <3>4. QED
      BY <3>2, <3>3 DEF t
  <2>7. QED
    BY <2>3, <2>5, <2>6
<1>5. BudgetPerWindow'
  <2>1. BudgetPerWindow' <=> \A t \in Tenants, s \in Time : Cardinality(Counted(accepted', t, s)) <= Requests
    BY DEF BudgetPerWindow, AcceptedOf, Counted
  <2> SUFFICES ASSUME NEW t \in Tenants, NEW s \in Time
               PROVE  Cardinality(Counted(accepted', t, s)) <= Requests
    BY <2>1
  <2>2. CASE t = tenant /\ s = w.started_at
    BY <1>0, <2>2, AcceptCounts
  <2>3. CASE t # tenant \/ s # w.started_at
    <3>1. Counted(accepted', t, s) = Counted(accepted, t, s)
      BY <1>0, <2>3, AcceptCountsNoOther
    <3>2. Cardinality(Counted(accepted, t, s)) <= Requests
      BY BudgetIsCounted DEF LimiterInv
    <3>3. QED
      BY <3>1, <3>2
  <2>4. QED
    BY <2>2, <2>3
<1>6. RefusedInWindow'
  BY DEF Accept, LimiterInv, RefusedInWindow
<1>7. QED
  BY <1>2, <1>3, <1>4, <1>5, <1>6 DEF LimiterInv

\* A step that touches neither windows nor histories, and lets nobody in.
LEMMA LimiterInvQuiet ==
  ASSUME LimiterInv, TypeOK', UNCHANGED <<windows, accepted>>,
         \A q \in Threads : thread'[q] = thread[q] \/ thread'[q].pc # "inside",
         RefusedInWindow'
  PROVE  LimiterInv'
<1>1. OneInside'
  BY DEF LimiterInv, OneInside, At
<1>2. WindowCounts' /\ WindowIsLatest'
  BY DEF LimiterInv, WindowCounts, WindowIsLatest, Counted
<1>3. BudgetPerWindow'
  BY DEF LimiterInv, BudgetPerWindow, AcceptedOf
<1>4. QED
  BY <1>1, <1>2, <1>3 DEF LimiterInv

LEMMA LimiterInvNext == LimiterInv /\ [Next]_vars => LimiterInv'
<1> SUFFICES ASSUME LimiterInv, [Next]_vars PROVE LimiterInv'
  OBVIOUS
<1>0. TypeOK /\ TypeOK' /\ thread \in [Threads -> Thread]
  BY TypesNext DEF LimiterInv, TypeOK
<1>1. CASE Tick \/ UNCHANGED vars
  <2>1. UNCHANGED <<windows, thread, accepted, refused>>
    BY <1>1 DEF Tick, vars
  <2>2. RefusedInWindow'
    BY <2>1 DEF LimiterInv, RefusedInWindow
  <2>3. QED
    BY <1>0, <2>1, <2>2, LimiterInvQuiet
<1>2. ASSUME NEW p \in Threads, ReadClock(p) PROVE LimiterInv'
  <2>1. /\ UNCHANGED <<windows, accepted, refused>>
        /\ \A q \in Threads : thread'[q] = thread[q] \/ thread'[q].pc # "inside"
    BY <1>0, <1>2 DEF ReadClock
  <2>2. RefusedInWindow'
    BY <2>1 DEF LimiterInv, RefusedInWindow
  <2>3. QED
    BY <1>0, <2>1, <2>2, LimiterInvQuiet
<1>3. ASSUME NEW p \in Threads, Enter(p) PROVE LimiterInv'
  <2>1. /\ thread'[p].tenant = thread[p].tenant
        /\ thread'[p].seen = {windows[t] : t \in {thread[p].tenant} \cap DOMAIN windows}
        /\ \A q \in Threads : q # p => thread'[q] = thread[q] /\ ~At(q, "inside")
        /\ UNCHANGED <<windows, accepted, refused>>
    BY <1>0, <1>3 DEF Enter, See, At
  <2>2. OneInside'
    BY <2>1 DEF OneInside, At
  <2>3. WindowCounts' /\ WindowIsLatest' /\ BudgetPerWindow' /\ RefusedInWindow'
    BY <2>1 DEF LimiterInv, WindowCounts, WindowIsLatest, Counted, BudgetPerWindow, AcceptedOf,
                RefusedInWindow
  <2>4. QED
    BY <1>0, <2>2, <2>3 DEF LimiterInv
<1>4. ASSUME NEW p \in Threads, OpenWindow(p) PROVE LimiterInv'
  <2> DEFINE w == [started_at |-> thread[p].now, request_count |-> 1]
             tenant == thread[p].tenant
  <2>1. At(p, "inside") /\ Running(p) = {} /\ Accept(p, w)
    BY <1>4 DEF OpenWindow
  <2>2. tenant \in Tenants /\ thread[p].now \in Time /\ w \in Window
    BY <1>0, <2>1, ThreadFields DEF At, Window
  <2>3. tenant \in DOMAIN windows => /\ windows[tenant].started_at \in Time
                                    /\ thread[p].now - windows[tenant].started_at >= Length
    <3> SUFFICES ASSUME tenant \in DOMAIN windows
                 PROVE  /\ windows[tenant].started_at \in Time
                        /\ thread[p].now - windows[tenant].started_at >= Length
      OBVIOUS
    <3>1. windows[tenant] \in Window /\ windows[tenant] \in thread[p].seen
      BY <1>0, <2>1 DEF LimiterInv, OneInside, TypeOK, IsTable
    <3>2. windows[tenant].started_at \in Time
      BY <3>1 DEF Window
    <3>3. ~(thread[p].now - windows[tenant].started_at < Length)
      BY <2>1, <3>1 DEF Running
    <3>4. QED
      BY <2>2, <3>2, <3>3, LengthTyped, LimiterAssumption DEF Time
  <2>4. tenant \in DOMAIN windows => windows[tenant].started_at < thread[p].now
    BY <2>2, <2>3, LengthTyped, LimiterAssumption DEF Time
  <2>5. Counted(accepted, tenant, thread[p].now) = {}
    <3> SUFFICES ASSUME NEW i \in 1 .. Len(accepted), accepted[i].tenant = tenant,
                        accepted[i].started_at = thread[p].now
                 PROVE  FALSE
      BY DEF Counted
    <3>1. tenant \in DOMAIN windows /\ thread[p].now <= windows[tenant].started_at
      BY DEF LimiterInv, WindowIsLatest
    <3>2. QED
      BY <2>2, <2>3, <2>4, <3>1, LimiterAssumption DEF Time
  <2>6. w.started_at = thread[p].now /\ w.request_count = Cardinality(Counted(accepted, tenant, thread[p].now)) + 1
    BY <2>5, FS_EmptySet
  <2>7. w.request_count <= Requests
    BY LimiterAssumption
  <2>8. tenant \in DOMAIN windows => windows[tenant].started_at <= w.started_at
    BY <2>2, <2>3, <2>4, LimiterAssumption DEF Time
  <2> HIDE DEF w
  <2>9. QED
    BY <1>0, <2>1, <2>2, <2>6, <2>7, <2>8, LimiterInvAccept
<1>5. ASSUME NEW p \in Threads, CountRequest(p) PROVE LimiterInv'
  <2> DEFINE tenant == thread[p].tenant
  <2>1. PICK old \in Running(p) :
          old.request_count < Requests /\ Accept(p, [old EXCEPT !.request_count = @ + 1])
    BY <1>5 DEF CountRequest
  <2>2. At(p, "inside")
    BY <1>5 DEF CountRequest
  <2>3. old \in Window /\ tenant \in DOMAIN windows /\ old = windows[tenant]
    BY <1>0, <2>1, <2>2, ThreadFields DEF LimiterInv, OneInside, Running, At
  <2> DEFINE w == [old EXCEPT !.request_count = @ + 1]
  <2>4. w \in Window /\ w.started_at = old.started_at /\ w.request_count = old.request_count + 1
        /\ old.request_count \in Nat /\ old.started_at \in Time
    BY <2>3 DEF Window
  <2>5. old.request_count = Cardinality(Counted(accepted, tenant, old.started_at))
    BY <2>3 DEF LimiterInv, WindowCounts
  <2>6. w.request_count <= Requests
    BY <2>1, <2>4, LimiterAssumption
  <2>7. windows[tenant].started_at <= w.started_at
    BY <2>3, <2>4, LimiterAssumption DEF Time
  <2>8. Accept(p, w)
    BY <2>1
  <2> HIDE DEF w
  <2>9. w.request_count = Cardinality(Counted(accepted, tenant, w.started_at)) + 1
    BY <2>4, <2>5
  <2>10. QED
    BY <1>0, <2>2, <2>4, <2>6, <2>7, <2>8, <2>9, LimiterInvAccept
<1>6. ASSUME NEW p \in Threads, Refuse(p) PROVE LimiterInv'
  <2> DEFINE told(w) == [tenant |-> thread[p].tenant, started_at |-> w.started_at, now |-> thread[p].now,
                         retry_after |-> RetryAfter(Length - (thread[p].now - w.started_at))]
  <2>1. PICK w \in Running(p) : refused' = refused \cup {told(w)}
    BY <1>6 DEF Refuse
  <2>2. w \in Window /\ thread[p].now \in Time
    BY <1>0, <1>6, <2>1, ThreadFields DEF Refuse, At, Running
  <2>3. thread[p].now - w.started_at < Length /\ Length - (thread[p].now - w.started_at) \in Nat \ {0}
    BY <2>1, <2>2, LengthTyped, LimiterAssumption DEF Running, Window, Time
  <2>4. Length - (thread[p].now - w.started_at)
          <= RetryAfter(Length - (thread[p].now - w.started_at)) * Ticks
    BY <2>3, RetryAfterCovers
  <2>5. RefusedInWindow'
    BY <2>1, <2>3, <2>4 DEF LimiterInv, RefusedInWindow
  <2>6. /\ UNCHANGED <<windows, accepted>>
        /\ \A q \in Threads : thread'[q] = thread[q] \/ thread'[q].pc # "inside"
    BY <1>0, <1>6 DEF Refuse, Idle
  <2>7. QED
    BY <1>0, <2>5, <2>6, LimiterInvQuiet
<1>7. QED
  BY <1>1, <1>2, <1>3, <1>4, <1>5, <1>6 DEF Next, Check

LEMMA LimiterInvHolds == Spec => []LimiterInv
  BY LimiterInvInit, LimiterInvNext, PTL DEF Spec

\* The types of the windows and of the threads in check().
THEOREM LimiterTyped == Spec => []TypeOK
<1>1. LimiterInv => TypeOK
  BY DEF LimiterInv
<1>2. QED
  BY <1>1, LimiterInvHolds, PTL

\* No window lets more requests through than its budget.
THEOREM BudgetHolds == Spec => []BudgetPerWindow
<1>1. LimiterInv => BudgetPerWindow
  BY DEF LimiterInv
<1>2. QED
  BY <1>1, LimiterInvHolds, PTL

\* Who waits as long as told is not refused again by the same window.
THEOREM RetryAfterIsHonest == Spec => []RetryAfterHonest
<1>1. LimiterInv => RetryAfterHonest
  <2> SUFFICES ASSUME LimiterInv, NEW r \in refused, NEW s \in refused,
                      r.started_at = s.started_at
               PROVE  s.now < r.now + r.retry_after * Ticks
    BY DEF RetryAfterHonest
  <2>1. /\ r.now \in Int /\ s.now \in Int /\ r.started_at \in Int /\ r.retry_after \in Nat
        /\ s.now - s.started_at < Length
        /\ Length - (r.now - r.started_at) <= r.retry_after * Ticks
    BY LimiterAssumption DEF LimiterInv, TypeOK, Refused, Time, RefusedInWindow
  <2>2. r.retry_after * Ticks \in Int /\ Length \in Int
    BY <2>1, LengthTyped, LimiterAssumption
  <2>3. QED
    BY <2>1, <2>2
<1>2. QED
  BY <1>1, LimiterInvHolds, PTL

-----------------------------------------------------------------------------
(* Bursts.  The windows of a tenant are a length apart, and each begins    *)
(* with a request that reads its clock then, so that a span of one length  *)
(* has requests of two windows at most, and not all of both.  What it has  *)
(* beyond is counted by windows that began after it: those threads read    *)
(* the clock before others opened these windows, one request each.         *)

Log == {accepted[i] : i \in 1 .. Len(accepted)}

ClockAhead ==
  /\ \A p \in Threads : ~At(p, "idle") => thread[p].now <= clock
  /\ \A a \in Log : a.started_at <= clock

WindowsApart ==
  \A a, c \in Log : a.tenant = c.tenant /\ a.started_at < c.started_at
                      => a.started_at + Length <= c.started_at

StoredIsLast ==
  \A a \in Log :
    /\ a.tenant \in DOMAIN windows
    /\ \/ a.started_at = windows[a.tenant].started_at
       \/ a.started_at + Length <= windows[a.tenant].started_at

OpenersCounted ==
  /\ \A a \in Log : \E o \in Log :
       o.tenant = a.tenant /\ o.started_at = a.started_at /\ o.now = a.started_at
  /\ \A t \in DOMAIN windows : \E o \in Log :
       o.tenant = t /\ o.started_at = windows[t].started_at

CountedWhileRunning == \A a \in Log : a.now < a.started_at + Length

\* The requests of t that read the clock before b and were counted in a window that
\* began then or later, and the threads that may become such requests.
Overtaken(log, t, b) ==
  {i \in 1 .. Len(log) : log[i].tenant = t /\ log[i].now < b /\ log[i].started_at >= b}
Pending(b) == {p \in Threads : ~At(p, "idle") /\ thread[p].now < b}
BegunSince(t, b) == \E a \in Log : a.tenant = t /\ a.started_at >= b

FewOvertaken ==
  \A t \in Tenants, b \in Nat : BegunSince(t, b) =>
    Cardinality(Overtaken(accepted, t, b)) + Cardinality(Pending(b)) <= Cardinality(Threads) - 1

BurstInv ==
  /\ ClockAhead /\ WindowsApart /\ StoredIsLast /\ OpenersCounted
  /\ CountedWhileRunning /\ FewOvertaken

-----------------------------------------------------------------------------
(* What a step does to the history.                                        *)

Admits(p, e) ==
  /\ At(p, "inside") /\ e.tenant = thread[p].tenant /\ e.now = thread[p].now
  /\ accepted' = Append(accepted, e)
  /\ thread' = [thread EXCEPT ![p] = Idle]
  /\ clock' = clock
  /\ DOMAIN windows' = DOMAIN windows \cup {e.tenant}
  /\ windows'[e.tenant].started_at = e.started_at
  /\ \A t \in DOMAIN windows : t # e.tenant => windows'[t] = windows[t]
  /\ \/ /\ e.started_at = e.now
        /\ e.tenant \in DOMAIN windows => windows[e.tenant].started_at + Length <= e.now
     \/ /\ e.tenant \in DOMAIN windows /\ windows[e.tenant].started_at = e.started_at
        /\ e.now < e.started_at + Length

AdmitsNone ==
  /\ UNCHANGED <<windows, accepted>>
  /\ clock \in Nat /\ clock' \in Nat /\ clock <= clock'
  /\ \A q \in Threads :
       \/ thread'[q].pc = "idle"
       \/ thread'[q].now = clock
       \/ ~At(q, "idle") /\ thread'[q].now = thread[q].now

LEMMA OpeningAdmits ==
  ASSUME LimiterInv, NEW p \in Threads, OpenWindow(p)
  PROVE  \E e \in Accepted : Admits(p, e)
<1> DEFINE w == [started_at |-> thread[p].now, request_count |-> 1]
           tenant == thread[p].tenant
           e == [tenant |-> tenant, started_at |-> thread[p].now, now |-> thread[p].now]
<1>1. At(p, "inside") /\ Running(p) = {} /\ Accept(p, w)
  BY DEF OpenWindow
<1>2. tenant \in Tenants /\ thread[p].now \in Time
  BY <1>1, ThreadFields DEF At, LimiterInv, TypeOK
<1>3. e \in Accepted /\ e.tenant = tenant /\ e.now = thread[p].now /\ e.started_at = thread[p].now
  BY <1>2 DEF Accepted
<1>4. ASSUME tenant \in DOMAIN windows
      PROVE  windows[tenant].started_at + Length <= thread[p].now
  <2>1. windows[tenant] \in Window /\ windows[tenant] \in thread[p].seen
    BY <1>1, <1>4 DEF LimiterInv, OneInside, TypeOK, IsTable
  <2>2. windows[tenant].started_at \in Time
    BY <2>1 DEF Window
  <2>3. ~(thread[p].now - windows[tenant].started_at < Length)
    BY <1>1, <2>1 DEF Running
  <2>. QED
    BY <1>2, <2>2, <2>3, LengthTyped, LimiterAssumption DEF Time
<1>5. /\ accepted' = Append(accepted, e) /\ windows' = With(windows, tenant, w)
      /\ thread' = [thread EXCEPT ![p] = Idle] /\ clock' = clock
  BY <1>1 DEF Accept
<1>6. /\ DOMAIN windows' = DOMAIN windows \cup {tenant} /\ windows'[tenant] = w
      /\ \A t \in DOMAIN windows : t # tenant => windows'[t] = windows[t]
  <2> HIDE DEF tenant, w
  <2>. QED
    BY <1>5 DEF With
<1>7. w.started_at = thread[p].now
  OBVIOUS
<1> HIDE DEF w, e
<1>. QED
  BY <1>1, <1>3, <1>4, <1>5, <1>6, <1>7 DEF Admits

LEMMA CountingAdmits ==
  ASSUME LimiterInv, NEW p \in Threads, CountRequest(p)
  PROVE  \E e \in Accepted : Admits(p, e)
<1> DEFINE tenant == thread[p].tenant
<1>1. PICK old \in Running(p) : Accept(p, [old EXCEPT !.request_count = @ + 1])
  BY DEF CountRequest
<1>2. At(p, "inside")
  BY DEF CountRequest
<1>3. tenant \in Tenants /\ thread[p].now \in Time
  BY <1>2, ThreadFields DEF At, LimiterInv, TypeOK
<1>4. old \in Window /\ tenant \in DOMAIN windows /\ old = windows[tenant]
  BY <1>1, <1>2, ThreadFields DEF LimiterInv, OneInside, Running, At, TypeOK
<1> DEFINE w == [old EXCEPT !.request_count = @ + 1]
           e == [tenant |-> tenant, started_at |-> w.started_at, now |-> thread[p].now]
<1>5. w.started_at = old.started_at /\ old.started_at \in Time
  BY <1>4 DEF Window
<1>6. e \in Accepted /\ e.tenant = tenant /\ e.now = thread[p].now /\ e.started_at = old.started_at
  BY <1>3, <1>5 DEF Accepted
<1>7. e.now < e.started_at + Length
  <2>1. thread[p].now - old.started_at < Length
    BY <1>1 DEF Running
  <2>. QED
    BY <1>3, <1>5, <1>6, <2>1, LengthTyped, LimiterAssumption DEF Time
<1>8. /\ accepted' = Append(accepted, e) /\ windows' = With(windows, tenant, w)
      /\ thread' = [thread EXCEPT ![p] = Idle] /\ clock' = clock
  BY <1>1 DEF Accept
<1>9. /\ DOMAIN windows' = DOMAIN windows \cup {tenant} /\ windows'[tenant] = w
      /\ \A t \in DOMAIN windows : t # tenant => windows'[t] = windows[t]
  <2> HIDE DEF tenant, w
  <2>. QED
    BY <1>8 DEF With
<1> HIDE DEF w, e
<1>. QED
  BY <1>2, <1>4, <1>5, <1>6, <1>7, <1>8, <1>9 DEF Admits

LEMMA StepAdmits ==
  ASSUME LimiterInv, LimiterInv', [Next]_vars
  PROVE  AdmitsNone \/ \E p \in Threads : \E e \in Accepted : Admits(p, e)
<1>0. /\ thread \in [Threads -> Thread] /\ thread' \in [Threads -> Thread]
      /\ clock \in Nat /\ clock' \in Nat
  BY LimiterAssumption DEF LimiterInv, TypeOK, Time
<1>1. CASE Tick \/ UNCHANGED vars
  <2>1. UNCHANGED <<windows, thread, accepted>> /\ clock <= clock'
    BY <1>0, <1>1 DEF Tick, vars
  <2>2. \A q \in Threads : thread[q].pc = "idle" \/ ~At(q, "idle")
    BY DEF At
  <2>. QED
    BY <1>0, <2>1, <2>2 DEF AdmitsNone
<1>2. ASSUME NEW p \in Threads, ReadClock(p) \/ Enter(p) \/ Refuse(p) PROVE AdmitsNone
  <2>1. UNCHANGED <<clock, windows, accepted>>
    BY <1>2 DEF ReadClock, Enter, See, Refuse
  <2>2. /\ \A q \in Threads : q # p => thread'[q] = thread[q]
        /\ \/ thread'[p].pc = "idle"
           \/ thread'[p].now = clock
           \/ ~At(p, "idle") /\ thread'[p].now = thread[p].now
    <3>1. CASE ReadClock(p)
      BY <1>0, <3>1 DEF ReadClock
    <3>2. CASE Enter(p)
      BY <1>0, <3>2 DEF Enter, See, At
    <3>3. CASE Refuse(p)
      BY <1>0, <3>3 DEF Refuse, Idle
    <3>. QED
      BY <1>2, <3>1, <3>2, <3>3
  <2>3. \A q \in Threads : q # p => thread'[q].pc = "idle" \/ (~At(q, "idle") /\ thread'[q].now = thread[q].now)
    BY <2>2 DEF At
  <2>4. clock <= clock'
    BY <1>0, <2>1
  <2>. QED
    BY <1>0, <2>1, <2>2, <2>3, <2>4 DEF AdmitsNone
<1>3. ASSUME NEW p \in Threads, OpenWindow(p) \/ CountRequest(p)
      PROVE  \E e \in Accepted : Admits(p, e)
  BY <1>3, OpeningAdmits, CountingAdmits
<1>. QED
  BY <1>1, <1>2, <1>3 DEF Next, Check

\* Numbers, all of them natural.
LEMMA LogTyped ==
  ASSUME LimiterInv
  PROVE  /\ Len(accepted) \in Nat
         /\ \A i \in 1 .. Len(accepted) : accepted[i] \in Log /\ accepted[i] \in Accepted
         /\ \A a \in Log : a.tenant \in Tenants /\ a.started_at \in Nat /\ a.now \in Nat
         /\ \A t \in DOMAIN windows : windows[t].started_at \in Nat
         /\ clock \in Nat
         /\ \A q \in Threads : ~At(q, "idle") => thread[q].now \in Nat
<1>1. accepted \in Seq(Accepted) /\ Len(accepted) \in Nat
  BY DEF LimiterInv, TypeOK
<1>2. \A i \in 1 .. Len(accepted) : accepted[i] \in Log /\ accepted[i] \in Accepted
  BY <1>1 DEF Log
<1>3. \A a \in Log : a \in Accepted
  BY <1>1 DEF Log
<1>4. \A n \in Time : n \in Nat
  BY LimiterAssumption DEF Time
<1>5. \A a \in Log : a.tenant \in Tenants /\ a.started_at \in Nat /\ a.now \in Nat
  BY <1>3, <1>4 DEF Accepted
<1>6. \A t \in DOMAIN windows : windows[t].started_at \in Nat
  BY <1>4 DEF LimiterInv, TypeOK, IsTable, Window
<1>7. clock \in Nat
  BY <1>4 DEF LimiterInv, TypeOK
<1>8. \A q \in Threads : ~At(q, "idle") => thread[q].now \in Nat
  BY <1>4, ThreadFields DEF LimiterInv, TypeOK, At
<1>. QED
  BY <1>1, <1>2, <1>5, <1>6, <1>7, <1>8

LEMMA PendingFinite ==
  ASSUME NEW S \in SUBSET Threads
  PROVE  /\ IsFiniteSet(S) /\ Cardinality(S) \in Nat
         /\ Cardinality(Threads) \in Nat /\ Cardinality(S) <= Cardinality(Threads)
         /\ \A p \in Threads \ S : Cardinality(S) <= Cardinality(Threads) - 1
<1>1. /\ IsFiniteSet(S) /\ Cardinality(S) \in Nat
      /\ Cardinality(Threads) \in Nat /\ Cardinality(S) <= Cardinality(Threads)
  BY LimiterAssumption, FS_Subset, FS_CardinalityType
<1>2. ASSUME NEW p \in Threads \ S PROVE Cardinality(S) <= Cardinality(Threads) - 1
  <2>1. S # Threads
    BY <1>2
  <2>2. Cardinality(S) # Cardinality(Threads)
    BY <2>1, LimiterAssumption, FS_Subset
  <2>. QED
    BY <1>1, <2>2
<1>. QED
  BY <1>1, <1>2

LEMMA OvertakenFinite ==
  ASSUME LimiterInv, NEW t, NEW b
  PROVE  /\ IsFiniteSet(Overtaken(accepted, t, b))
         /\ Cardinality(Overtaken(accepted, t, b)) \in Nat
<1>1. Len(accepted) \in Nat
  BY LogTyped
<1>2. IsFiniteSet(1 .. Len(accepted))
  BY <1>1, FS_Interval
<1>3. Overtaken(accepted, t, b) \in SUBSET (1 .. Len(accepted))
  BY DEF Overtaken
<1>. QED
  BY <1>2, <1>3, FS_Subset, FS_CardinalityType

-----------------------------------------------------------------------------
LEMMA NoneKeepsBurst ==
  ASSUME LimiterInv, BurstInv, AdmitsNone
  PROVE  BurstInv'
<1>1. /\ accepted' = accepted /\ windows' = windows /\ Log' = Log
      /\ clock \in Nat /\ clock' \in Nat /\ clock <= clock'
  BY DEF AdmitsNone, Log
<1>2. ClockAhead'
  <2>1. ASSUME NEW q \in Threads, ~At(q, "idle")' PROVE thread'[q].now <= clock'
    <3>1. \/ thread'[q].now = clock
          \/ ~At(q, "idle") /\ thread'[q].now = thread[q].now
      BY <2>1 DEF AdmitsNone, At
    <3>2. ~At(q, "idle") => thread[q].now \in Nat /\ thread[q].now <= clock
      BY LogTyped DEF BurstInv, ClockAhead
    <3>. QED
      BY <1>1, <3>1, <3>2
  <2>2. \A a \in Log : a.started_at \in Nat /\ a.started_at <= clock
    BY LogTyped DEF BurstInv, ClockAhead
  <2>. QED
    BY <1>1, <2>1, <2>2 DEF ClockAhead
<1>3. WindowsApart' /\ StoredIsLast' /\ OpenersCounted' /\ CountedWhileRunning'
  BY <1>1 DEF BurstInv, WindowsApart, StoredIsLast, OpenersCounted, CountedWhileRunning
<1>4. ASSUME NEW t \in Tenants, NEW b \in Nat, BegunSince(t, b)'
      PROVE  (Cardinality(Overtaken(accepted, t, b)) + Cardinality(Pending(b))
                <= Cardinality(Threads) - 1)'
  <2>1. PICK a \in Log : a.tenant = t /\ a.started_at >= b
    BY <1>1, <1>4 DEF BegunSince
  <2>2. clock >= b
    BY <1>1, <2>1, LogTyped DEF BurstInv, ClockAhead
  <2>3. Pending(b)' \subseteq Pending(b)
    <3> SUFFICES ASSUME NEW q \in Threads, thread'[q].pc # "idle", thread'[q].now < b
                 PROVE  q \in Pending(b)
      BY DEF Pending, At
    <3>1. ~(clock < b)
      BY <1>1, <2>2
    <3>2. ~At(q, "idle") /\ thread'[q].now = thread[q].now
      BY <3>1 DEF AdmitsNone
    <3>. QED
      BY <3>2 DEF Pending
  <2>4. Pending(b) \in SUBSET Threads /\ Pending(b)' \in SUBSET Pending(b)
    BY <2>3 DEF Pending
  <2>5. Cardinality(Pending(b)') <= Cardinality(Pending(b))
    BY <2>4, PendingFinite, FS_Subset
  <2>6. /\ Cardinality(Pending(b)) \in Nat /\ Cardinality(Pending(b)') \in Nat
        /\ Cardinality(Threads) \in Nat
    BY <2>4, PendingFinite
  <2>7. Cardinality(Overtaken(accepted, t, b)) + Cardinality(Pending(b)) <= Cardinality(Threads) - 1
    BY <2>1 DEF BurstInv, FewOvertaken, BegunSince
  <2>8. Cardinality(Overtaken(accepted, t, b)) \in Nat /\ Overtaken(accepted', t, b) = Overtaken(accepted, t, b)
    BY <1>1, OvertakenFinite
  <2>. QED
    BY <2>5, <2>6, <2>7, <2>8
<1>5. FewOvertaken'
  BY <1>4 DEF FewOvertaken
<1>. QED
  BY <1>2, <1>3, <1>5 DEF BurstInv

\* The history has one more request, its window begins no earlier than any other of its
\* tenant, and a length after the others if it is not the same.
LEMMA AdmittedIsLast ==
  ASSUME LimiterInv, BurstInv, NEW p \in Threads, NEW e \in Accepted, Admits(p, e)
  PROVE  /\ Log' = Log \cup {e}
         /\ e.tenant \in Tenants /\ e.started_at \in Nat /\ e.now \in Nat
         /\ e.started_at <= clock /\ e.now < e.started_at + Length
         /\ \A a \in Log : a.tenant = e.tenant =>
              a.started_at = e.started_at \/ a.started_at + Length <= e.started_at
         /\ \/ e.started_at = e.now
            \/ \E o \in Log : o.tenant = e.tenant /\ o.started_at = e.started_at
<1>1. accepted \in Seq(Accepted) /\ accepted' = Append(accepted, e)
  BY DEF LimiterInv, TypeOK, Admits
<1>2. PICK n \in Nat : n = Len(accepted)
  BY <1>1
<1>3. /\ Len(accepted') = n + 1 /\ accepted'[n + 1] = e
      /\ \A i \in 1 .. n : accepted'[i] = accepted[i]
  BY <1>1, <1>2
<1>4. Log' = Log \cup {e}
  <2>1. 1 .. n + 1 = (1 .. n) \cup {n + 1}
    OBVIOUS
  <2>. QED
    BY <1>2, <1>3, <2>1 DEF Log
<1>5. \A m \in Time : m \in Nat
  BY LimiterAssumption DEF Time
<1>6. e.tenant \in Tenants /\ e.started_at \in Nat /\ e.now \in Nat
  BY <1>5 DEF Accepted
<1>7. e.now <= clock /\ clock \in Nat
  BY LogTyped DEF BurstInv, ClockAhead, Admits, At
<1>8. Length \in Nat \ {0}
  BY LengthTyped
<1>9. ASSUME NEW a \in Log, a.tenant = e.tenant
      PROVE  /\ a.started_at \in Nat /\ e.tenant \in DOMAIN windows
             /\ windows[e.tenant].started_at \in Nat
             /\ \/ a.started_at = windows[e.tenant].started_at
                \/ a.started_at + Length <= windows[e.tenant].started_at
  BY <1>9, LogTyped DEF BurstInv, StoredIsLast
<1>10. CASE /\ e.started_at = e.now
            /\ e.tenant \in DOMAIN windows => windows[e.tenant].started_at + Length <= e.now
  <2>1. e.started_at <= clock /\ e.now < e.started_at + Length
    BY <1>6, <1>7, <1>8, <1>10
  <2>2. ASSUME NEW a \in Log, a.tenant = e.tenant
        PROVE  a.started_at + Length <= e.started_at
    BY <1>6, <1>8, <1>9, <1>10, <2>2
  <2>. QED
    BY <1>4, <1>6, <1>10, <2>1, <2>2
<1>11. CASE /\ e.tenant \in DOMAIN windows /\ windows[e.tenant].started_at = e.started_at
            /\ e.now < e.started_at + Length
  <2>1. PICK o \in Log : o.tenant = e.tenant /\ o.started_at = e.started_at
    BY <1>11 DEF BurstInv, OpenersCounted
  <2>2. e.started_at <= clock
    BY <2>1 DEF BurstInv, ClockAhead
  <2>3. \A a \in Log : a.tenant = e.tenant =>
           a.started_at = e.started_at \/ a.started_at + Length <= e.started_at
    BY <1>9, <1>11
  <2>. QED
    BY <1>4, <1>6, <1>11, <2>1, <2>2, <2>3
<1>. QED
  BY <1>10, <1>11 DEF Admits

LEMMA AdmitKeepsWindows ==
  ASSUME LimiterInv, BurstInv, NEW p \in Threads, NEW e \in Accepted, Admits(p, e)
  PROVE  /\ ClockAhead' /\ WindowsApart' /\ StoredIsLast' /\ OpenersCounted'
         /\ CountedWhileRunning'
<1>1. /\ Log' = Log \cup {e}
      /\ e.tenant \in Tenants /\ e.started_at \in Nat /\ e.now \in Nat
      /\ e.started_at <= clock /\ e.now < e.started_at + Length
  BY AdmittedIsLast
<1>2. \A a \in Log : a.tenant = e.tenant =>
        a.started_at = e.started_at \/ a.started_at + Length <= e.started_at
  BY AdmittedIsLast
<1>3. \/ e.started_at = e.now
      \/ \E o \in Log : o.tenant = e.tenant /\ o.started_at = e.started_at
  BY AdmittedIsLast
<1>4. /\ DOMAIN windows' = DOMAIN windows \cup {e.tenant}
      /\ windows'[e.tenant].started_at = e.started_at /\ clock' = clock
      /\ \A t \in DOMAIN windows : t # e.tenant => windows'[t] = windows[t]
  BY DEF Admits
<1>5. /\ \A a \in Log : a.started_at \in Nat /\ a.now \in Nat
      /\ Length \in Nat \ {0}
  BY LogTyped, LengthTyped
<1>6. ClockAhead'
  <2>1. thread'[p].pc = "idle" /\ \A q \in Threads : q # p => thread'[q] = thread[q]
    BY DEF Admits, Idle, LimiterInv, TypeOK
  <2>. QED
    BY <1>1, <1>4, <2>1 DEF BurstInv, ClockAhead, At
<1>7. WindowsApart'
  <2> SUFFICES ASSUME NEW a \in Log \cup {e}, NEW c \in Log \cup {e},
                      a.tenant = c.tenant, a.started_at < c.started_at
               PROVE  a.started_at + Length <= c.started_at
    BY <1>1 DEF WindowsApart
  <2>1. CASE a \in Log /\ c \in Log
    BY <2>1 DEF BurstInv, WindowsApart
  <2>2. CASE a \in Log /\ c = e
    BY <1>1, <1>2, <1>5, <2>2
  <2>3. CASE a = e /\ c \in Log
    BY <1>1, <1>2, <1>5, <2>3
  <2>4. CASE a = e /\ c = e
    BY <1>1, <2>4
  <2>. QED
    BY <2>1, <2>2, <2>3, <2>4
<1>8. StoredIsLast'
  <2> SUFFICES ASSUME NEW a \in Log \cup {e}
               PROVE  /\ a.tenant \in DOMAIN windows'
                      /\ \/ a.started_at = windows'[a.tenant].started_at
                         \/ a.started_at + Length <= windows'[a.tenant].started_at
    BY <1>1 DEF StoredIsLast
  <2>1. CASE a.tenant = e.tenant
    BY <1>2, <1>4, <2>1
  <2>2. CASE a.tenant # e.tenant
    <3>1. a \in Log
      BY <2>2
    <3>. QED
      BY <1>4, <2>2, <3>1 DEF BurstInv, StoredIsLast
  <2>. QED
    BY <2>1, <2>2
<1>9. OpenersCounted'
  <2>1. \A a \in Log : \E o \in Log :
          o.tenant = a.tenant /\ o.started_at = a.started_at /\ o.now = a.started_at
    BY DEF BurstInv, OpenersCounted
  <2>2. \E o \in Log \cup {e} :
          o.tenant = e.tenant /\ o.started_at = e.started_at /\ o.now = e.started_at
    BY <1>3, <2>1
  <2>3. \A t \in DOMAIN windows' : \E o \in Log \cup {e} :
          o.tenant = t /\ o.started_at = windows'[t].started_at
    <3> SUFFICES ASSUME NEW t \in DOMAIN windows', t # e.tenant
                 PROVE  \E o \in Log \cup {e} : o.tenant = t /\ o.started_at = windows'[t].started_at
      BY <1>4, <2>2
    <3>1. t \in DOMAIN windows /\ windows'[t] = windows[t]
      BY <1>4
    <3>. QED
      BY <3>1 DEF BurstInv, OpenersCounted
  <2>. QED
    BY <1>1, <2>1, <2>2, <2>3 DEF OpenersCounted
<1>10. CountedWhileRunning'
  BY <1>1 DEF BurstInv, CountedWhileRunning
<1>. QED
  BY <1>6, <1>7, <1>8, <1>9, <1>10

\* A thread that is let through is pending no longer: it makes up for the request that
\* is overtaken, if it is one.
LEMMA AdmitKeepsFew ==
  ASSUME LimiterInv, BurstInv, NEW p \in Threads, NEW e \in Accepted, Admits(p, e),
         NEW t \in Tenants, NEW b \in Nat, BegunSince(t, b)'
  PROVE  Cardinality(Overtaken(accepted', t, b)) + Cardinality(Pending(b)')
           <= Cardinality(Threads) - 1
<1>1. accepted \in Seq(Accepted) /\ accepted' = Append(accepted, e)
  BY DEF LimiterInv, TypeOK, Admits
<1>2. PICK n \in Nat : n = Len(accepted)
  BY <1>1
<1>3. /\ Len(accepted') = n + 1 /\ accepted'[n + 1] = e
      /\ \A i \in 1 .. n : accepted'[i] = accepted[i]
      /\ 1 .. n + 1 = (1 .. n) \cup {n + 1} /\ n + 1 \notin 1 .. n
  BY <1>1, <1>2
<1>4. /\ e.tenant \in Tenants /\ e.started_at \in Nat /\ e.now \in Nat
      /\ \/ e.started_at = e.now
         \/ \E o \in Log : o.tenant = e.tenant /\ o.started_at = e.started_at
  BY AdmittedIsLast
<1>5. Log' = Log \cup {e}
  BY AdmittedIsLast
<1>6. /\ At(p, "inside") /\ thread[p].now = e.now
      /\ thread'[p].pc = "idle" /\ \A q \in Threads : q # p => thread'[q] = thread[q]
  BY DEF Admits, Idle, LimiterInv, TypeOK
<1>7. Pending(b)' = Pending(b) \ {p}
  BY <1>6 DEF Pending, At
<1>8. p \in Pending(b) <=> e.now < b
  BY <1>6 DEF Pending, At
<1>9. Pending(b) \in SUBSET Threads /\ Pending(b)' \in SUBSET Threads
  BY <1>7 DEF Pending
<1> DEFINE late == e.tenant = t /\ e.now < b /\ e.started_at >= b
           O == Overtaken(accepted, t, b)
<1>10. Overtaken(accepted', t, b) = IF late THEN O \cup {n + 1} ELSE O
  BY <1>2, <1>3 DEF Overtaken
<1>11. n + 1 \notin O /\ IsFiniteSet(O) /\ Cardinality(O) \in Nat
  BY <1>2, <1>3, OvertakenFinite DEF Overtaken
<1> HIDE DEF O
<1>12. Cardinality(Overtaken(accepted', t, b)) = Cardinality(O) + (IF late THEN 1 ELSE 0)
  <2>1. Cardinality(O \cup {n + 1}) = Cardinality(O) + 1
    BY <1>11, FS_AddElement
  <2>. QED
    BY <1>10, <1>11, <2>1
<1>13. /\ Cardinality(Pending(b)) \in Nat
       /\ Cardinality(Pending(b)') = Cardinality(Pending(b)) - (IF e.now < b THEN 1 ELSE 0)
       /\ Cardinality(Threads) \in Nat
       /\ e.now >= b => Cardinality(Pending(b)') <= Cardinality(Threads) - 1
  <2>1. IsFiniteSet(Pending(b)) /\ Cardinality(Pending(b)) \in Nat /\ Cardinality(Threads) \in Nat
    BY <1>9, PendingFinite
  <2>2. Cardinality(Pending(b)')
          = IF p \in Pending(b) THEN Cardinality(Pending(b)) - 1 ELSE Cardinality(Pending(b))
    BY <1>7, <2>1, FS_RemoveElement
  <2>3. p \in Threads \ Pending(b)'
    BY <1>7
  <2>. QED
    BY <1>8, <1>9, <2>1, <2>2, <2>3, PendingFinite
<1>14. CASE BegunSince(t, b)
  <2>1. Cardinality(O) + Cardinality(Pending(b)) <= Cardinality(Threads) - 1
    BY <1>14 DEF BurstInv, FewOvertaken, O
  <2>2. late => e.now < b
    OBVIOUS
  <2> HIDE DEF late
  <2>. QED
    BY <1>11, <1>12, <1>13, <2>1, <2>2
<1>15. CASE ~BegunSince(t, b)
  <2>1. e.tenant = t /\ e.started_at >= b
    BY <1>5, <1>15 DEF BegunSince
  <2>2. ~(\E o \in Log : o.tenant = e.tenant /\ o.started_at = e.started_at)
    BY <1>15, <2>1 DEF BegunSince
  <2>3. e.started_at = e.now /\ e.now >= b /\ ~(e.now < b)
    BY <1>4, <2>1, <2>2
  <2>4. O = {}
    <3> SUFFICES ASSUME NEW i \in 1 .. Len(accepted), accepted[i].tenant = t,
                        accepted[i].started_at >= b
                 PROVE  FALSE
      BY DEF O, Overtaken
    <3>. QED
      BY <1>15 DEF BegunSince, Log
  <2>5. Cardinality(O) = 0 /\ ~late
    BY <2>3, <2>4, FS_EmptySet
  <2> HIDE DEF late
  <2>. QED
    BY <1>12, <1>13, <2>3, <2>5
<1>. QED
  BY <1>14, <1>15

LEMMA AdmitKeepsBurst ==
  ASSUME LimiterInv, BurstInv, NEW p \in Threads, NEW e \in Accepted, Admits(p, e)
  PROVE  BurstInv'
<1>1. \A t \in Tenants, b \in Nat : BegunSince(t, b)' =>
        Cardinality(Overtaken(accepted', t, b)) + Cardinality(Pending(b)') <= Cardinality(Threads) - 1
  BY AdmitKeepsFew
<1>2. FewOvertaken'
  BY <1>1 DEF FewOvertaken
<1>. QED
  BY <1>2, AdmitKeepsWindows DEF BurstInv

LEMMA BurstInvInit == Init => BurstInv
<1> SUFFICES ASSUME Init PROVE BurstInv
  OBVIOUS
<1>1. Log = {} /\ DOMAIN windows = {} /\ \A p \in Threads : At(p, "idle")
  BY DEF Init, Log, EmptyTable, Idle, At
<1>2. ClockAhead /\ WindowsApart /\ StoredIsLast /\ OpenersCounted /\ CountedWhileRunning
  BY <1>1 DEF ClockAhead, WindowsApart, StoredIsLast, OpenersCounted, CountedWhileRunning
<1>3. FewOvertaken
  BY <1>1 DEF FewOvertaken, BegunSince
<1>. QED
  BY <1>2, <1>3 DEF BurstInv

LEMMA BurstInvNext == LimiterInv /\ BurstInv /\ LimiterInv' /\ [Next]_vars => BurstInv'
<1> SUFFICES ASSUME LimiterInv, BurstInv, LimiterInv', [Next]_vars PROVE BurstInv'
  OBVIOUS
<1>1. CASE AdmitsNone
  BY <1>1, NoneKeepsBurst
<1>2. CASE \E p \in Threads : \E e \in Accepted : Admits(p, e)
  BY <1>2, AdmitKeepsBurst
<1>. QED
  BY <1>1, <1>2, StepAdmits

LEMMA BurstInvHolds == Spec => [](LimiterInv /\ BurstInv)
<1>1. Init => LimiterInv /\ BurstInv
  BY LimiterInvInit, BurstInvInit
<1>2. LimiterInv /\ BurstInv /\ [Next]_vars => (LimiterInv /\ BurstInv)'
  BY LimiterInvNext, BurstInvNext
<1>. QED
  BY <1>1, <1>2, PTL DEF Spec

\* The requests of t that read the clock in the span from .. from + Length - 1 and
\* were counted in a window that began before the span ended.
CountedInSpan(t, from) ==
  {i \in 1 .. Len(accepted) :
     /\ accepted[i].tenant = t
     /\ from <= accepted[i].now /\ accepted[i].now < from + Length
     /\ accepted[i].started_at < from + Length}

\* Two windows at most count them, and of the earlier one they are not all.
LEMMA TwoWindowsAtMost ==
  ASSUME LimiterInv, BurstInv, NEW t \in Tenants, NEW from \in Nat
  PROVE  /\ IsFiniteSet(CountedInSpan(t, from))
         /\ Cardinality(CountedInSpan(t, from)) <= 2 * Requests - 1
<1> DEFINE A == CountedInSpan(t, from)
           C(s) == Counted(accepted, t, s)
<1>0. Requests \in Nat /\ Requests >= 1 /\ Length \in Nat
  BY LimiterAssumption, LengthTyped
<1>1. IsFiniteSet(A) /\ Cardinality(A) \in Nat
  <2>1. IsFiniteSet(1 .. Len(accepted))
    BY LogTyped, FS_Interval
  <2>2. A \in SUBSET (1 .. Len(accepted))
    BY DEF CountedInSpan
  <2>. QED
    BY <2>1, <2>2, FS_Subset, FS_CardinalityType
<1>2. ASSUME NEW i \in A
      PROVE  /\ i \in 1 .. Len(accepted) /\ accepted[i] \in Log
             /\ accepted[i].tenant = t /\ accepted[i].started_at \in Nat
             /\ accepted[i].started_at + Length > from
             /\ accepted[i].started_at < from + Length
             /\ accepted[i].started_at \in Time
  <2>1. /\ i \in 1 .. Len(accepted) /\ accepted[i].tenant = t
        /\ from <= accepted[i].now /\ accepted[i].started_at < from + Length
    BY DEF CountedInSpan
  <2>2. accepted[i] \in Log /\ accepted[i] \in Accepted
    BY <2>1, LogTyped
  <2>3. accepted[i].now < accepted[i].started_at + Length
    BY <2>2 DEF BurstInv, CountedWhileRunning
  <2>4. accepted[i].started_at \in Nat /\ accepted[i].now \in Nat
    BY <2>2, LogTyped
  <2>5. accepted[i].started_at \in Time
    BY <2>2 DEF Accepted
  <2>. QED
    BY <1>0, <2>1, <2>2, <2>3, <2>4, <2>5
<1>3. ASSUME NEW i \in A
      PROVE  /\ IsFiniteSet(C(accepted[i].started_at))
             /\ Cardinality(C(accepted[i].started_at)) \in Nat
             /\ Cardinality(C(accepted[i].started_at)) <= Requests
  <2>1. TypeOK /\ BudgetPerWindow
    BY DEF LimiterInv
  <2>. QED
    BY <1>2, <2>1, CountedFinite, BudgetIsCounted
<1>4. CASE A = {}
  BY <1>0, <1>4, FS_EmptySet
<1>5. CASE \E i \in A : \A k \in A : accepted[k].started_at = accepted[i].started_at
  <2>1. PICK i \in A : \A k \in A : accepted[k].started_at = accepted[i].started_at
    BY <1>5
  <2>2. A \in SUBSET C(accepted[i].started_at)
    BY <1>2, <2>1 DEF Counted
  <2>3. Cardinality(A) <= Cardinality(C(accepted[i].started_at))
    BY <1>3, <2>2, FS_Subset
  <2>. QED
    BY <1>0, <1>1, <1>3, <2>3
<1>6. ASSUME NEW i \in A, NEW k \in A, accepted[i].started_at < accepted[k].started_at
      PROVE  Cardinality(A) <= 2 * Requests - 1
  <2> DEFINE s == accepted[i].started_at
             u == accepted[k].started_at
  <2>1. s \in Nat /\ u \in Nat /\ s + Length <= u /\ s < from
    BY <1>0, <1>2, <1>6 DEF BurstInv, WindowsApart
  <2>2. \A j \in A : accepted[j].started_at = s \/ accepted[j].started_at = u
    <3> SUFFICES ASSUME NEW j \in A, accepted[j].started_at # s, accepted[j].started_at # u
                 PROVE  FALSE
      OBVIOUS
    <3> DEFINE v == accepted[j].started_at
    <3>1. /\ v \in Nat /\ v + Length > from /\ v < from + Length
          /\ s + Length > from /\ u < from + Length
      BY <1>2
    <3>2. /\ v < s => v + Length <= s
          /\ v > s => s + Length <= v
          /\ v < u => v + Length <= u
          /\ v > u => u + Length <= v
      BY <1>2, <2>1, <3>1 DEF BurstInv, WindowsApart
    <3>3. v # s /\ v # u
      OBVIOUS
    <3> HIDE DEF v, s, u
    <3>. QED
      BY <1>0, <2>1, <3>1, <3>2, <3>3
  <2>3. PICK o \in 1 .. Len(accepted) :
          accepted[o].tenant = t /\ accepted[o].started_at = s /\ accepted[o].now = s
    <3>1. PICK a \in Log : a.tenant = t /\ a.started_at = s /\ a.now = s
      BY <1>2 DEF BurstInv, OpenersCounted
    <3>. QED
      BY <3>1 DEF Log
  <2>4. o \in C(s) /\ o \notin A
    BY <2>1, <2>3 DEF Counted, CountedInSpan
  <2>5. A \in SUBSET ((C(s) \ {o}) \cup C(u))
    BY <1>2, <2>2, <2>4 DEF Counted
  <2>6. /\ IsFiniteSet(C(s) \ {o}) /\ Cardinality(C(s) \ {o}) = Cardinality(C(s)) - 1
    BY <1>3, <2>4, FS_RemoveElement
  <2> HIDE DEF A, C
  <2>7. /\ IsFiniteSet((C(s) \ {o}) \cup C(u))
        /\ Cardinality((C(s) \ {o}) \cup C(u))
             = Cardinality(C(s) \ {o}) + Cardinality(C(u)) - Cardinality((C(s) \ {o}) \cap C(u))
    BY <1>3, <2>6, FS_Union
  <2>8. Cardinality((C(s) \ {o}) \cap C(u)) \in Nat
    BY <2>6, FS_Intersection, FS_CardinalityType
  <2>9. Cardinality(A) <= Cardinality((C(s) \ {o}) \cup C(u))
    BY <2>5, <2>7, FS_Subset
  <2>10. /\ Cardinality(C(s)) \in Nat /\ Cardinality(C(s)) <= Requests
         /\ Cardinality(C(u)) \in Nat /\ Cardinality(C(u)) <= Requests
    BY <1>3
  <2>. QED
    BY <1>0, <1>1, <2>6, <2>7, <2>8, <2>9, <2>10
<1>7. ASSUME NEW i \in A, NEW k \in A, accepted[k].started_at # accepted[i].started_at
      PROVE  Cardinality(A) <= 2 * Requests - 1
  <2>1. \/ accepted[i].started_at < accepted[k].started_at
        \/ accepted[k].started_at < accepted[i].started_at
    BY <1>2, <1>7
  <2>. QED
    BY <1>6, <2>1
<1>. QED
  BY <1>1, <1>4, <1>5, <1>7

LEMMA BurstFollows ==
  ASSUME LimiterInv, BurstInv
  PROVE  BurstBound
<1> SUFFICES ASSUME NEW t \in Tenants, NEW from \in Time
             PROVE  Cardinality({i \in 1 .. Len(accepted) : accepted[i].tenant = t
                       /\ accepted[i].now >= from /\ accepted[i].now < from + Length})
                    <= 2 * Requests - 1 + Cardinality(Threads) - 1
  BY DEF BurstBound, AcceptedOf
<1> DEFINE b == from + Length
           S == {i \in 1 .. Len(accepted) : accepted[i].tenant = t
                       /\ accepted[i].now >= from /\ accepted[i].now < from + Length}
           A == CountedInSpan(t, from)
           O == Overtaken(accepted, t, b)
<1>0. /\ from \in Nat /\ Requests \in Nat /\ Requests >= 1 /\ b \in Nat
      /\ Cardinality(Threads) \in Nat
  BY LimiterAssumption, LengthTyped, FS_CardinalityType DEF Time
<1>1. /\ IsFiniteSet(A) /\ Cardinality(A) \in Nat /\ Cardinality(A) <= 2 * Requests - 1
      /\ IsFiniteSet(O) /\ Cardinality(O) \in Nat
  BY <1>0, TwoWindowsAtMost, OvertakenFinite, FS_CardinalityType
<1>2. S \in SUBSET (A \cup O)
  <2> SUFFICES ASSUME NEW i \in S PROVE i \in A \/ i \in O
    OBVIOUS
  <2>1. accepted[i].started_at \in Nat /\ accepted[i].now \in Nat
    BY LogTyped
  <2>2. accepted[i].started_at < b \/ accepted[i].started_at >= b
    BY <1>0, <2>1
  <2>3. accepted[i].now >= from => from <= accepted[i].now
    BY <1>0, <2>1
  <2>. QED
    BY <2>2, <2>3 DEF CountedInSpan, Overtaken
<1>3. S = {} \/ Cardinality(O) <= Cardinality(Threads) - 1
  <2> SUFFICES ASSUME S # {} PROVE Cardinality(O) <= Cardinality(Threads) - 1
    OBVIOUS
  <2>1. PICK i \in S : TRUE
    OBVIOUS
  <2>2. accepted[i] \in Log /\ accepted[i].tenant = t /\ accepted[i].started_at \in Nat
    BY LogTyped
  <2>3. 0 \in Nat /\ BegunSince(t, 0)
    BY <2>2 DEF BegunSince
  <2>4. Cardinality(Overtaken(accepted, t, 0)) \in Nat /\ Cardinality(Pending(0)) \in Nat
    <3>1. Pending(0) \in SUBSET Threads
      BY DEF Pending
    <3>. QED
      BY <3>1, PendingFinite, OvertakenFinite
  <2>5. Cardinality(Threads) >= 1
    BY <1>0, <2>3, <2>4 DEF BurstInv, FewOvertaken
  <2>6. CASE O = {}
    <3>1. Cardinality(O) = 0
      BY <2>6, FS_EmptySet
    <3>. QED
      BY <1>0, <2>5, <3>1
  <2>7. CASE O # {}
    <3>1. PICK k \in O : TRUE
      BY <2>7
    <3>2. BegunSince(t, b)
      BY <3>1, LogTyped DEF Overtaken, BegunSince
    <3>3. Cardinality(Pending(b)) \in Nat
      <4>1. Pending(b) \in SUBSET Threads
        BY DEF Pending
      <4>. QED
        BY <4>1, PendingFinite
    <3>4. Cardinality(O) + Cardinality(Pending(b)) <= Cardinality(Threads) - 1
      BY <1>0, <3>2 DEF BurstInv, FewOvertaken
    <3>. QED
      BY <1>0, <1>1, <3>3, <3>4
  <2>. QED
    BY <2>6, <2>7
<1>4. CASE S = {}
  <2>1. Cardinality(S) = 0
    BY <1>4, FS_EmptySet
  <2>2. 0 <= 2 * Requests - 1 + Cardinality(Threads) - 1
    BY <1>0
  <2>. QED
    BY <2>1, <2>2
<1>5. CASE S # {}
  <2> HIDE DEF S, A, O
  <2>1. /\ IsFiniteSet(A \cup O)
        /\ Cardinality(A \cup O) = Cardinality(A) + Cardinality(O) - Cardinality(A \cap O)
    BY <1>1, FS_Union
  <2>2. Cardinality(A \cap O) \in Nat
    BY <1>1, FS_Intersection, FS_CardinalityType
  <2>3. Cardinality(S) \in Nat /\ Cardinality(S) <= Cardinality(A \cup O)
    BY <1>2, <2>1, FS_Subset, FS_CardinalityType
  <2>4. Cardinality(S) <= 2 * Requests - 1 + Cardinality(Threads) - 1
    BY <1>0, <1>1, <1>3, <1>5, <2>1, <2>2, <2>3
  <2>. QED
    BY <2>4 DEF S
<1>. QED
  BY <1>4, <1>5

\* In any span of the length of a window a tenant gets less than two budgets through,
\* and one request more for each thread that the others may have overtaken.
THEOREM BurstsAreBounded == Spec => []BurstBound
<1>1. LimiterInv /\ BurstInv => BurstBound
  BY BurstFollows
<1>. QED
  BY <1>1, BurstInvHolds, PTL
=============================================================================
