-------------------------- MODULE TenantRateLimiter --------------------------
(***************************************************************************)
(* The fixed-window limiter that every authenticated request passes: one   *)
(* window per tenant and process, guarded by one lock.  A thread reads the *)
(* clock before it takes the lock, so that it may come to the window with  *)
(* a time that others have left behind.                                    *)
(***************************************************************************)
EXTENDS Tables, Integers, Sequences, FiniteSets

CONSTANTS
  Tenants,
  Threads,       \* requests in check() at a time
  Requests,      \* requests_per_window
  WindowSeconds,
  Ticks,         \* clock readings to the second
  MaxTime,       \* bound: the last clock reading
  MaxLog         \* bound: the requests recorded in the history

ASSUME LimiterAssumption ==
  /\ Requests \in Nat \ {0} /\ WindowSeconds \in Nat \ {0} /\ Ticks \in Nat \ {0}
  /\ IsFiniteSet(Threads)
  /\ MaxTime \in Nat /\ MaxLog \in Nat

VARIABLES
  clock,         \* the monotonic clock, in ticks
  windows,       \* table: tenant -> its window
  thread,        \* thread -> where it is in check()
  accepted,      \* history: the requests let through, each with the window that
                 \* counted it and the clock reading it came with
  refused        \* history: the requests refused, likewise, and what they were told

vars == <<clock, windows, thread, accepted, refused>>

Length == WindowSeconds * Ticks
Time == 0 .. MaxTime
Window == [started_at : Time, request_count : Nat]

Thread ==
       [pc : {"idle"}]
  \cup [pc : {"entering"}, tenant : Tenants, now : Time]
  \cup [pc : {"inside"}, tenant : Tenants, now : Time, seen : SUBSET Window]

Accepted == [tenant : Tenants, started_at : Time, now : Time]
Refused == [tenant : Tenants, started_at : Time, now : Time, retry_after : Nat]

TypeOK ==
  /\ clock \in Time
  /\ IsTable(windows, Tenants, Window)
  /\ thread \in [Threads -> Thread]
  /\ accepted \in Seq(Accepted)
  /\ refused \subseteq Refused

Idle == [pc |-> "idle"]

Init ==
  /\ clock = 0
  /\ windows = EmptyTable
  /\ thread = [p \in Threads |-> Idle]
  /\ accepted = << >>
  /\ refused = {}

At(p, pc) == thread[p].pc = pc

Tick == clock < MaxTime /\ clock' = clock + 1 /\ UNCHANGED <<windows, thread, accepted, refused>>

\* now = self._clock(), outside the lock.
ReadClock(p) ==
  /\ At(p, "idle") /\ Len(accepted) + Cardinality(refused) < MaxLog
  /\ \E t \in Tenants : thread' = [thread EXCEPT ![p] = [pc |-> "entering", tenant |-> t, now |-> clock]]
  /\ UNCHANGED <<clock, windows, accepted, refused>>

\* Inside the lock the thread sees its tenant's window, if there is one.
See(p) ==
  /\ thread' = [thread EXCEPT ![p] =
       [pc |-> "inside", tenant |-> @.tenant, now |-> @.now,
        seen |-> {windows[t] : t \in {@.tenant} \cap DOMAIN windows}]]
  /\ UNCHANGED <<clock, windows, accepted, refused>>

\* Mutant: the window is read and replaced without the lock.
EnterUnlocked(p) == At(p, "entering") /\ See(p)

Enter(p) == At(p, "entering") /\ (\A o \in Threads : ~At(o, "inside")) /\ See(p)

\* The windows seen that still count.
Running(p) == {w \in thread[p].seen : thread[p].now - w.started_at < Length}

\* The request is counted in the window w, which is stored, and let through.
Accept(p, w) ==
  /\ windows' = With(windows, thread[p].tenant, w)
  /\ accepted' = Append(accepted, [tenant |-> thread[p].tenant, started_at |-> w.started_at,
                                   now |-> thread[p].now])
  /\ thread' = [thread EXCEPT ![p] = Idle]
  /\ UNCHANGED <<clock, refused>>

\* Mutant: the request that opens a window is not counted in it.
OpenWindowUncounted(p) ==
  /\ At(p, "inside") /\ Running(p) = {}
  /\ Accept(p, [started_at |-> thread[p].now, request_count |-> 0])

OpenWindow(p) ==
  /\ At(p, "inside") /\ Running(p) = {}
  /\ Accept(p, [started_at |-> thread[p].now, request_count |-> 1])

CountRequest(p) ==
  /\ At(p, "inside")
  /\ \E w \in Running(p) :
       /\ w.request_count < Requests
       /\ Accept(p, [w EXCEPT !.request_count = @ + 1])

\* Mutant: the time left is rounded down.
RetryAfterFloor(left) == IF left \div Ticks > 1 THEN left \div Ticks ELSE 1

\* max(1, ceil(seconds left)).
RetryAfter(left) == LET seconds == (left + Ticks - 1) \div Ticks IN IF seconds > 1 THEN seconds ELSE 1

Refuse(p) ==
  /\ At(p, "inside")
  /\ \E w \in Running(p) :
       /\ w.request_count >= Requests
       /\ refused' = refused \cup
            {[tenant |-> thread[p].tenant, started_at |-> w.started_at, now |-> thread[p].now,
              retry_after |-> RetryAfter(Length - (thread[p].now - w.started_at))]}
  /\ thread' = [thread EXCEPT ![p] = Idle]
  /\ UNCHANGED <<clock, windows, accepted>>

Check(p) == ReadClock(p) \/ Enter(p) \/ OpenWindow(p) \/ CountRequest(p) \/ Refuse(p)

Next == Tick \/ \E p \in Threads : Check(p)

Spec == Init /\ [][Next]_vars

-----------------------------------------------------------------------------
(* Properties.                                                             *)

AcceptedOf(t, P(_)) == {i \in 1 .. Len(accepted) : accepted[i].tenant = t /\ P(accepted[i])}

\* No window lets more requests through than the budget, however many threads come
\* to it at once (the lock of check()).
BudgetPerWindow ==
  \A t \in Tenants, s \in Time :
    LET InWindow(a) == a.started_at = s IN Cardinality(AcceptedOf(t, InWindow)) <= Requests

\* What a tenant gets through in any span of the length of a window is less than two
\* budgets -- the price of fixed windows -- and one request more for each other
\* thread that may have been overtaken between its clock reading and the lock.
BurstBound ==
  \A t \in Tenants, from \in Time :
    LET InSpan(a) == a.now >= from /\ a.now < from + Length IN
      Cardinality(AcceptedOf(t, InSpan)) <= 2 * Requests - 1 + Cardinality(Threads) - 1

\* Retry-After is honest: a client that waits as long as it was told is not refused
\* again by the window that refused it.
RetryAfterHonest ==
  \A r, s \in refused :
    r.tenant = s.tenant /\ r.started_at = s.started_at => s.now < r.now + r.retry_after * Ticks
=============================================================================
