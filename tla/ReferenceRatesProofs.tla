------------------------ MODULE ReferenceRatesProofs ------------------------
(***************************************************************************)
(* Proofs about ReferenceRates, for any number of threads and currencies,  *)
(* any time to live and any bound on the attempts.                         *)
(***************************************************************************)
EXTENDS ReferenceRates, TLAPS

\* One thread at a time holds the lock for a fetch, and what it fetches had expired.
OneFetch ==
  \A p \in Threads : At(p, "fetching") =>
    /\ \A q \in Threads : At(q, "fetching") => p = q
    /\ ~Fresh(thread[p].currency)

\* A cached rate expires one time to live after it was retrieved.
CacheHonest ==
  \A c \in DOMAIN cache :
    cache[c].expires = cache[c].retrieved + TTL /\ cache[c].retrieved <= clock

\* What was fetched is cached, until the same expiry or a later one.
FetchedIsCached ==
  \A i \in DOMAIN fetched :
    /\ fetched[i].currency \in DOMAIN cache
    /\ fetched[i].at + TTL <= cache[fetched[i].currency].expires

\* The counters lag behind the attempts by the fetch under way, and tell the outcome
\* when there is none.
CountersTell ==
  /\ health.consecutive <= health.failures
  /\ LockFree => health.attempts = health.successes + health.failures /\ Status = outcome
  /\ ~LockFree => health.attempts = health.successes + health.failures + 1

RatesInv ==
  /\ TypeOK
  /\ OneFetch
  /\ CacheHonest
  /\ FetchedIsCached
  /\ CountersTell
  /\ ServedFresh
  /\ NoStampede
  /\ SnapshotTellsLastOutcome

-----------------------------------------------------------------------------
(* Types.                                                                  *)

\* A request has the fields of where it is.
LEMMA ThreadFields ==
  ASSUME NEW t \in Thread
  PROVE  /\ t.pc \in {"waiting", "fetching"} => t.currency \in Currencies
         /\ t.pc = "fetching" => /\ t.attempt \in 1 .. MaxAttempts
                                /\ t = [pc |-> "fetching", currency |-> t.currency, attempt |-> t.attempt]
         /\ t.pc = "served" => t.retrieved \in Time /\ t.at \in Time
         /\ t.pc = "shown" => t.snapshot \in HealthSnapshot
  BY DEF Thread

LEMMA ThreadFormed ==
  /\ Idle \in Thread /\ [pc |-> "waiting_health"] \in Thread /\ [pc |-> "failed"] \in Thread
  /\ \A c \in Currencies :
       /\ [pc |-> "waiting", currency |-> c] \in Thread
       /\ \A n \in 1 .. MaxAttempts : [pc |-> "fetching", currency |-> c, attempt |-> n] \in Thread
       /\ \A r \in Time, a \in Time :
            [pc |-> "served", currency |-> c, retrieved |-> r, at |-> a] \in Thread
  /\ \A s \in HealthSnapshot : [pc |-> "shown", snapshot |-> s] \in Thread
  BY DEF Thread, Idle

\* A step of one thread leaves the others where they are.
LEMMA GotoMoves ==
  ASSUME NEW p \in Threads, NEW t \in Thread, thread \in [Threads -> Thread], Goto(p, t)
  PROVE  /\ thread' \in [Threads -> Thread]
         /\ thread'[p] = t
         /\ \A q \in Threads : q # p => thread'[q] = thread[q]
  BY DEF Goto

LEMMA HealthTyped ==
  ASSUME NEW h \in Health
  PROVE  /\ [h EXCEPT !.hits = @ + 1] \in Health
         /\ [h EXCEPT !.attempts = @ + 1] \in Health
         /\ [h EXCEPT !.successes = @ + 1, !.consecutive = 0] \in Health
         /\ [h EXCEPT !.failures = @ + 1, !.consecutive = @ + 1] \in Health
<1>1. h.attempts + 1 \in Nat /\ h.successes + 1 \in Nat /\ h.failures + 1 \in Nat
      /\ h.consecutive + 1 \in Nat /\ h.hits + 1 \in Nat
  BY DEF Health
<1>2. [h EXCEPT !.hits = @ + 1] \in Health
  BY <1>1 DEF Health
<1>3. [h EXCEPT !.attempts = @ + 1] \in Health
  BY <1>1 DEF Health
<1>4. [h EXCEPT !.successes = @ + 1, !.consecutive = 0] \in Health
  BY <1>1 DEF Health
<1>5. [h EXCEPT !.failures = @ + 1, !.consecutive = @ + 1] \in Health
  BY <1>1 DEF Health
<1>6. QED
  BY <1>2, <1>3, <1>4, <1>5

LEMMA TypesInit == Init => TypeOK
<1> SUFFICES ASSUME Init PROVE TypeOK
  OBVIOUS
<1>1. clock \in Time
  BY RatesAssumption DEF Init, Time
<1>2. IsTable(cache, Currencies, Cached)
  BY DEF Init, IsTable, EmptyTable
<1>3. health \in Health
  BY DEF Init, Health
<1>4. thread \in [Threads -> Thread]
  BY ThreadFormed DEF Init
<1>5. fetched \in Seq([currency : Currencies, at : Time]) /\ outcome \in HealthStatus
  BY DEF Init, HealthStatus
<1>6. QED
  BY <1>1, <1>2, <1>3, <1>4, <1>5 DEF TypeOK

LEMMA TypesNext == TypeOK /\ [Next]_vars => TypeOK'
<1> SUFFICES ASSUME TypeOK, [Next]_vars PROVE TypeOK'
  OBVIOUS
<1> USE DEF TypeOK
<1>1. CASE Tick
  BY <1>1, RatesAssumption DEF Tick, Time
<1>2. ASSUME NEW p \in Threads, AskRate(p) PROVE TypeOK'
  <2>1. PICK c \in Currencies : Goto(p, [pc |-> "waiting", currency |-> c])
    BY <1>2 DEF AskRate
  <2>2. thread' \in [Threads -> Thread]
    BY <2>1, ThreadFormed, GotoMoves
  <2>3. QED
    BY <1>2, <2>2 DEF AskRate
<1>3. ASSUME NEW p \in Threads, AskHealth(p) PROVE TypeOK'
  BY <1>3, ThreadFormed, GotoMoves DEF AskHealth
<1>4. ASSUME NEW p \in Threads, HitCache(p) PROVE TypeOK'
  <2> DEFINE c == thread[p].currency
  <2>1. c \in Currencies /\ c \in DOMAIN cache
    BY <1>4, ThreadFields DEF HitCache, At, Fresh
  <2>2. cache[c].retrieved \in Time
    BY <2>1 DEF IsTable, Cached
  <2>3. Served(c, cache[c]) \in Thread
    BY <2>1, <2>2, ThreadFormed DEF Served
  <2>4. thread' \in [Threads -> Thread]
    BY <1>4, <2>3, GotoMoves DEF HitCache
  <2>5. health' \in Health
    BY <1>4, HealthTyped DEF HitCache
  <2>6. QED
    BY <1>4, <2>4, <2>5 DEF HitCache
<1>5. ASSUME NEW p \in Threads, BeginFetch(p) PROVE TypeOK'
  <2>1. thread[p].currency \in Currencies /\ 1 \in 1 .. MaxAttempts
    BY <1>5, ThreadFields, RatesAssumption DEF BeginFetch, At
  <2>2. thread' \in [Threads -> Thread]
    BY <1>5, <2>1, ThreadFormed, GotoMoves DEF BeginFetch
  <2>3. health' \in Health
    BY <1>5, HealthTyped DEF BeginFetch
  <2>4. QED
    BY <1>5, <2>2, <2>3 DEF BeginFetch
<1>6. ASSUME NEW p \in Threads, FetchSucceeds(p) PROVE TypeOK'
  <2> DEFINE c == thread[p].currency
             rate == [expires |-> clock + TTL, retrieved |-> clock]
  <2>1. c \in Currencies
    BY <1>6, ThreadFields DEF FetchSucceeds, At
  <2>2. rate \in Cached
    BY RatesAssumption DEF Cached, Time
  <2>3. IsTable(cache, Currencies, Cached)'
    BY <1>6, <2>1, <2>2 DEF FetchSucceeds, IsTable, With
  <2>4. Served(c, rate) \in Thread
    BY <2>1, ThreadFormed DEF Served
  <2>5. thread' \in [Threads -> Thread]
    BY <1>6, <2>4, GotoMoves DEF FetchSucceeds
  <2>6. health' \in Health
    BY <1>6, HealthTyped DEF FetchSucceeds
  <2>7. [currency |-> c, at |-> clock] \in [currency : Currencies, at : Time]
    BY <2>1
  <2>8. fetched' \in Seq([currency : Currencies, at : Time])
    BY <1>6, <2>7 DEF FetchSucceeds
  <2>9. QED
    BY <1>6, <2>3, <2>5, <2>6, <2>8 DEF FetchSucceeds, HealthStatus
<1>7. ASSUME NEW p \in Threads, RetryAttempt(p) PROVE TypeOK'
  <2>1. /\ thread[p].currency \in Currencies /\ thread[p].attempt + 1 \in 1 .. MaxAttempts
        /\ [thread[p] EXCEPT !.attempt = @ + 1]
             = [pc |-> "fetching", currency |-> thread[p].currency,
                attempt |-> thread[p].attempt + 1]
    BY <1>7, ThreadFields, RatesAssumption DEF RetryAttempt, At
  <2>2. thread' \in [Threads -> Thread]
    BY <1>7, <2>1, ThreadFormed, GotoMoves DEF RetryAttempt
  <2>3. QED
    BY <1>7, <2>2 DEF RetryAttempt
<1>8. ASSUME NEW p \in Threads, FetchFails(p) PROVE TypeOK'
  <2>1. thread' \in [Threads -> Thread]
    BY <1>8, ThreadFormed, GotoMoves DEF FetchFails
  <2>2. health' \in Health
    BY <1>8, HealthTyped DEF FetchFails
  <2>3. QED
    BY <1>8, <2>1, <2>2 DEF FetchFails, HealthStatus
<1>9. ASSUME NEW p \in Threads, ReadHealth(p) PROVE TypeOK'
  <2>1. Status \in HealthStatus
    BY DEF Status, HealthStatus
  <2>2. [status |-> Status, counters |-> health, outcome |-> outcome] \in HealthSnapshot
    BY <2>1 DEF HealthSnapshot
  <2>3. thread' \in [Threads -> Thread]
    BY <1>9, <2>2, ThreadFormed, GotoMoves DEF ReadHealth, Show
  <2>4. QED
    BY <1>9, <2>3 DEF ReadHealth, Show
<1>10. ASSUME NEW p \in Threads, Deliver(p) PROVE TypeOK'
  BY <1>10, ThreadFormed, GotoMoves DEF Deliver
<1>11. CASE UNCHANGED vars
  BY <1>11 DEF vars
<1>12. QED
  BY <1>1, <1>2, <1>3, <1>4, <1>5, <1>6, <1>7, <1>8, <1>9, <1>10, <1>11 DEF Next, Attempt

-----------------------------------------------------------------------------
(* The invariant.                                                          *)

LEMMA CachedFields ==
  ASSUME TypeOK, NEW c \in DOMAIN cache
  PROVE  cache[c].expires \in Nat /\ cache[c].retrieved \in Time
  BY DEF TypeOK, IsTable, Cached

\* Until a fetch begins or ends, the locks, the cache and the counters of the fetches
\* say what they said; time only passes.
LEMMA CalmStep ==
  ASSUME RatesInv, TypeOK', clock <= clock', UNCHANGED <<cache, fetched, outcome>>,
         UNCHANGED <<health.attempts, health.successes, health.failures, health.consecutive>>,
         \A q \in Threads :
           /\ thread'[q].pc = "fetching" <=> thread[q].pc = "fetching"
           /\ thread[q].pc = "fetching" => thread'[q].currency = thread[q].currency
  PROVE  OneFetch' /\ CacheHonest' /\ FetchedIsCached' /\ CountersTell' /\ NoStampede'
<1> clock \in Int /\ clock' \in Int
  BY DEF RatesInv, TypeOK, Time
<1>1. \A c : ~Fresh(c) => ~Fresh(c)'
  BY CachedFields DEF RatesInv, Fresh
<1>2. OneFetch'
  BY <1>1 DEF RatesInv, OneFetch, At
<1>3. CacheHonest'
  BY CachedFields DEF RatesInv, CacheHonest, Time
<1>4. FetchedIsCached' /\ NoStampede'
  BY DEF RatesInv, FetchedIsCached, NoStampede
<1>5. CountersTell'
  BY DEF RatesInv, CountersTell, LockFree, Status, At
<1>6. QED
  BY <1>2, <1>3, <1>4, <1>5

\* A thread that was not served or shown anything by this step keeps what it was.
LEMMA AnswersStay ==
  ASSUME RatesInv,
         \A q \in Threads : thread'[q] = thread[q] \/ thread'[q].pc \notin {"served", "shown"}
  PROVE  ServedFresh' /\ SnapshotTellsLastOutcome'
  BY DEF RatesInv, ServedFresh, SnapshotTellsLastOutcome, At

LEMMA RatesInvInit == Init => RatesInv
<1> SUFFICES ASSUME Init PROVE RatesInv
  OBVIOUS
<1>1. TypeOK
  BY TypesInit
<1>2. OneFetch /\ ServedFresh /\ SnapshotTellsLastOutcome /\ LockFree
  BY DEF Init, Idle, OneFetch, ServedFresh, SnapshotTellsLastOutcome, LockFree, At
<1>3. CacheHonest
  BY DEF Init, CacheHonest, EmptyTable
<1>4. FetchedIsCached /\ NoStampede
  BY DEF Init, FetchedIsCached, NoStampede
<1>5. CountersTell
  BY <1>2 DEF Init, CountersTell, Status
<1>6. QED
  BY <1>1, <1>2, <1>3, <1>4, <1>5 DEF RatesInv

LEMMA RatesInvBegin ==
  ASSUME RatesInv, TypeOK', NEW p \in Threads, BeginFetch(p)
  PROVE  RatesInv'
<1> DEFINE t == [pc |-> "fetching", currency |-> thread[p].currency, attempt |-> 1]
<1>1. /\ thread'[p] = t
      /\ \A q \in Threads : q # p => thread'[q] = thread[q]
  BY DEF BeginFetch, Goto, RatesInv, TypeOK
<1>2. OneFetch'
  BY <1>1 DEF BeginFetch, OneFetch, LockFree, Fresh, At
<1>3. CacheHonest' /\ FetchedIsCached' /\ NoStampede'
  BY DEF BeginFetch, RatesInv, CacheHonest, FetchedIsCached, NoStampede
<1>4. CountersTell'
  <2>1. LockFree /\ ~LockFree'
    BY <1>1 DEF BeginFetch, LockFree, At
  <2>2. /\ health'.attempts = health.attempts + 1 /\ health'.successes = health.successes
        /\ health'.failures = health.failures /\ health'.consecutive = health.consecutive
    BY DEF BeginFetch, RatesInv, TypeOK, Health
  <2>3. QED
    BY <2>1, <2>2 DEF RatesInv, CountersTell
<1>5. ServedFresh' /\ SnapshotTellsLastOutcome'
  BY <1>1, AnswersStay
<1>6. QED
  BY <1>2, <1>3, <1>4, <1>5 DEF RatesInv

\* Two fetches of one currency are a time to live apart: the second began when the
\* rate of the first had expired.
LEMMA RatesInvSucceed ==
  ASSUME RatesInv, TypeOK', NEW p \in Threads, FetchSucceeds(p)
  PROVE  RatesInv'
<1> DEFINE c == thread[p].currency
           rate == [expires |-> clock + TTL, retrieved |-> clock]
<1>0. clock \in Int /\ TTL \in Nat \ {0} /\ TypeOK /\ At(p, "fetching")
  BY RatesAssumption DEF RatesInv, TypeOK, Time, FetchSucceeds
<1>1. /\ thread'[p] = Served(c, rate)
      /\ \A q \in Threads : q # p => thread'[q] = thread[q]
  BY DEF FetchSucceeds, Goto, RatesInv, TypeOK
<1>2. /\ DOMAIN cache' = DOMAIN cache \cup {c} /\ cache'[c] = rate
      /\ \A x \in DOMAIN cache : x # c => cache'[x] = cache[x]
  <2>1. cache' = With(cache, c, rate)
    BY DEF FetchSucceeds
  <2> HIDE DEF c, rate
  <2>2. QED
    BY <2>1 DEF With
<1>3. \A q \in Threads : thread'[q].pc # "fetching"
  BY <1>0, <1>1 DEF RatesInv, OneFetch, At, Served
<1>4. c \in DOMAIN cache => cache[c].expires \in Nat /\ cache[c].expires <= clock
  BY <1>0, CachedFields DEF RatesInv, OneFetch, Fresh
<1>5. /\ Len(fetched') = Len(fetched) + 1
      /\ fetched'[Len(fetched) + 1] = [currency |-> c, at |-> clock]
      /\ \A i \in 1 .. Len(fetched) : fetched'[i] = fetched[i]
      /\ DOMAIN fetched = 1 .. Len(fetched) /\ DOMAIN fetched' = 1 .. Len(fetched')
      /\ Len(fetched) \in Nat
      /\ \A i \in 1 .. Len(fetched) : fetched[i].at \in Int
  <2> DEFINE Fetch == [currency : Currencies, at : Time]
             e == [currency |-> c, at |-> clock]
  <2>1. fetched \in Seq(Fetch) /\ fetched' = Append(fetched, e)
    BY DEF FetchSucceeds, RatesInv, TypeOK
  <2>2. \A f \in Fetch : f.at \in Int
    BY RatesAssumption DEF Time
  <2> HIDE DEF Fetch, e
  <2>3. \A i \in 1 .. Len(fetched) : fetched[i] \in Fetch
    BY <2>1
  <2>4. /\ Len(fetched') = Len(fetched) + 1 /\ fetched'[Len(fetched) + 1] = e
        /\ \A i \in 1 .. Len(fetched) : fetched'[i] = fetched[i]
        /\ DOMAIN fetched = 1 .. Len(fetched) /\ DOMAIN fetched' = 1 .. Len(fetched')
        /\ Len(fetched) \in Nat
    BY <2>1
  <2>5. QED
    BY <2>2, <2>3, <2>4 DEF e
<1>6. \A i \in 1 .. Len(fetched) :
        fetched[i].currency = c => fetched[i].at + TTL <= clock
  BY <1>0, <1>4, <1>5 DEF RatesInv, FetchedIsCached
<1>7. NoStampede'
  <2> SUFFICES ASSUME NEW i \in 1 .. Len(fetched'), NEW j \in 1 .. Len(fetched'), i < j,
                      fetched'[i].currency = fetched'[j].currency
               PROVE  fetched'[i].at + TTL <= fetched'[j].at
    BY DEF NoStampede
  <2>1. i \in 1 .. Len(fetched)
    BY <1>5
  <2>2. CASE j = Len(fetched) + 1
    BY <1>5, <1>6, <2>1, <2>2
  <2>3. CASE j \in 1 .. Len(fetched)
    BY <1>5, <2>1, <2>3 DEF RatesInv, NoStampede
  <2>4. QED
    BY <1>5, <2>2, <2>3
<1>8. FetchedIsCached'
  <2> SUFFICES ASSUME NEW i \in 1 .. Len(fetched')
               PROVE  /\ fetched'[i].currency \in DOMAIN cache'
                      /\ fetched'[i].at + TTL <= cache'[fetched'[i].currency].expires
    BY <1>5 DEF FetchedIsCached
  <2>1. CASE i = Len(fetched) + 1
    BY <1>0, <1>2, <1>5, <2>1
  <2>2. CASE i \in 1 .. Len(fetched) /\ fetched[i].currency = c
    BY <1>0, <1>2, <1>5, <1>6, <2>2
  <2>3. CASE i \in 1 .. Len(fetched) /\ fetched[i].currency # c
    BY <1>2, <1>5, <2>3 DEF RatesInv, FetchedIsCached
  <2>4. QED
    BY <1>5, <2>1, <2>2, <2>3
<1>9. CacheHonest'
  BY <1>0, <1>2 DEF FetchSucceeds, RatesInv, CacheHonest
<1>10. CountersTell'
  <2>1. LockFree' /\ ~LockFree
    BY <1>0, <1>3 DEF LockFree, At
  <2>2. /\ health'.attempts = health.attempts /\ health'.successes = health.successes + 1
        /\ health'.failures = health.failures /\ health'.consecutive = 0
        /\ health.attempts \in Nat /\ health.successes \in Nat /\ health.failures \in Nat
    BY DEF FetchSucceeds, RatesInv, TypeOK, Health
  <2>3. outcome' = "LAST_ATTEMPT_SUCCEEDED"
    BY DEF FetchSucceeds
  <2>4. QED
    BY <2>1, <2>2, <2>3 DEF RatesInv, CountersTell, Status
<1>11. OneFetch'
  BY <1>3 DEF OneFetch, At
<1>12. ServedFresh'
  BY <1>0, <1>1 DEF RatesInv, ServedFresh, At, Served
<1>13. SnapshotTellsLastOutcome'
  BY <1>1 DEF RatesInv, SnapshotTellsLastOutcome, At, Served
<1>14. QED
  BY <1>7, <1>8, <1>9, <1>10, <1>11, <1>12, <1>13 DEF RatesInv

LEMMA RatesInvFail ==
  ASSUME RatesInv, TypeOK', NEW p \in Threads, FetchFails(p)
  PROVE  RatesInv'
<1>0. At(p, "fetching")
  BY DEF FetchFails
<1>1. /\ thread'[p] = [pc |-> "failed"]
      /\ \A q \in Threads : q # p => thread'[q] = thread[q]
  BY DEF FetchFails, Goto, RatesInv, TypeOK
<1>2. \A q \in Threads : thread'[q].pc # "fetching"
  BY <1>0, <1>1 DEF RatesInv, OneFetch, At
<1>3. OneFetch'
  BY <1>2 DEF OneFetch, At
<1>4. CacheHonest' /\ FetchedIsCached' /\ NoStampede'
  BY DEF FetchFails, RatesInv, CacheHonest, FetchedIsCached, NoStampede
<1>5. CountersTell'
  <2>1. LockFree' /\ ~LockFree
    BY <1>0, <1>2 DEF LockFree, At
  <2>2. /\ health'.attempts = health.attempts /\ health'.successes = health.successes
        /\ health'.failures = health.failures + 1
        /\ health'.consecutive = health.consecutive + 1
        /\ health.attempts \in Nat /\ health.successes \in Nat /\ health.failures \in Nat
        /\ health.consecutive \in Nat
    BY DEF FetchFails, RatesInv, TypeOK, Health
  <2>3. outcome' = "LAST_ATTEMPT_FAILED"
    BY DEF FetchFails
  <2>4. QED
    BY <2>1, <2>2, <2>3 DEF RatesInv, CountersTell, Status
<1>6. ServedFresh' /\ SnapshotTellsLastOutcome'
  BY <1>1, AnswersStay
<1>7. QED
  BY <1>3, <1>4, <1>5, <1>6 DEF RatesInv

\* The steps of a thread that neither begin nor end a fetch.
LEMMA RatesInvElse ==
  ASSUME RatesInv, TypeOK', NEW p \in Threads,
         AskRate(p) \/ AskHealth(p) \/ HitCache(p) \/ RetryAttempt(p) \/ ReadHealth(p) \/ Deliver(p)
  PROVE  RatesInv'
<1>0. /\ \A q \in Threads : q # p => thread'[q] = thread[q]
      /\ thread \in [Threads -> Thread] /\ health \in Health
  BY DEF AskRate, AskHealth, HitCache, RetryAttempt, ReadHealth, Show, Deliver, Goto, RatesInv, TypeOK
<1>1. /\ thread'[p].pc = "fetching" <=> thread[p].pc = "fetching"
      /\ thread[p].pc = "fetching" => thread'[p].currency = thread[p].currency
  <2>1. CASE RetryAttempt(p)
    <3>1. [thread[p] EXCEPT !.attempt = @ + 1]
            = [pc |-> "fetching", currency |-> thread[p].currency,
               attempt |-> thread[p].attempt + 1]
      BY <1>0, <2>1, ThreadFields DEF RetryAttempt, At
    <3>2. QED
      BY <1>0, <2>1, <3>1 DEF RetryAttempt, Goto, At
  <2>2. CASE AskRate(p)
    BY <1>0, <2>2 DEF AskRate, Goto, At
  <2>3. CASE AskHealth(p)
    BY <1>0, <2>3 DEF AskHealth, Goto, At
  <2>4. CASE HitCache(p)
    BY <1>0, <2>4 DEF HitCache, Goto, At, Served
  <2>5. CASE ReadHealth(p)
    BY <1>0, <2>5 DEF ReadHealth, Show, Goto, At
  <2>6. CASE Deliver(p)
    BY <1>0, <2>6 DEF Deliver, Goto, Idle
  <2>7. QED
    BY <2>1, <2>2, <2>3, <2>4, <2>5, <2>6
<1>2. /\ clock' = clock /\ clock \in Int /\ UNCHANGED <<cache, fetched, outcome>>
      /\ UNCHANGED <<health.attempts, health.successes, health.failures, health.consecutive>>
  BY <1>0 DEF AskRate, AskHealth, HitCache, RetryAttempt, ReadHealth, Show, Deliver, Health,
              RatesInv, TypeOK, Time
<1>3. OneFetch' /\ CacheHonest' /\ FetchedIsCached' /\ CountersTell' /\ NoStampede'
  <2>1. clock <= clock'
    BY <1>2
  <2>2. QED
    BY <1>0, <1>1, <1>2, <2>1, CalmStep
<1>4. ServedFresh' /\ SnapshotTellsLastOutcome'
  <2>1. CASE HitCache(p)
    <3> DEFINE c == thread[p].currency
    <3>1. /\ c \in DOMAIN cache /\ cache[c].expires > clock
          /\ thread'[p] = Served(c, cache[c])
      BY <1>0, <2>1 DEF HitCache, Goto, Fresh
    <3>2. clock - cache[c].retrieved < TTL
      BY <1>2, <3>1, CachedFields, RatesAssumption DEF RatesInv, CacheHonest, Time
    <3>3. ServedFresh'
      BY <1>0, <3>1, <3>2 DEF RatesInv, ServedFresh, Served, At
    <3>4. SnapshotTellsLastOutcome'
      BY <1>0, <3>1 DEF RatesInv, SnapshotTellsLastOutcome, Served, At
    <3>5. QED
      BY <3>3, <3>4
  <2>2. CASE ReadHealth(p)
    <3>1. thread'[p] = [pc |-> "shown", snapshot |-> [status |-> Status, counters |-> health,
                                                      outcome |-> outcome]]
      BY <1>0, <2>2 DEF ReadHealth, Show, Goto
    <3>2. /\ health.attempts = health.successes + health.failures /\ Status = outcome
          /\ health.consecutive <= health.failures
      BY <2>2 DEF ReadHealth, RatesInv, CountersTell
    <3>3. ServedFresh'
      BY <1>0, <3>1 DEF RatesInv, ServedFresh, At
    <3>4. SnapshotTellsLastOutcome'
      BY <1>0, <3>1, <3>2 DEF RatesInv, SnapshotTellsLastOutcome, At
    <3>5. QED
      BY <3>3, <3>4
  <2>3. CASE RetryAttempt(p)
    BY <1>0, <1>1, <2>3, AnswersStay DEF RetryAttempt, At
  <2>4. CASE AskRate(p) \/ AskHealth(p) \/ Deliver(p)
    <3>1. thread'[p].pc \notin {"served", "shown"}
      BY <1>0, <2>4 DEF AskRate, AskHealth, Deliver, Goto, Idle
    <3>2. QED
      BY <1>0, <3>1, AnswersStay
  <2>5. QED
    BY <2>1, <2>2, <2>3, <2>4
<1>5. QED
  BY <1>3, <1>4 DEF RatesInv

LEMMA RatesInvNext == RatesInv /\ [Next]_vars => RatesInv'
<1> SUFFICES ASSUME RatesInv, [Next]_vars PROVE RatesInv'
  OBVIOUS
<1>1. TypeOK'
  BY TypesNext DEF RatesInv
<1>2. CASE Tick \/ UNCHANGED vars
  <2>1. /\ clock <= clock' /\ UNCHANGED <<cache, health, thread, fetched, outcome>>
    BY <1>2, RatesAssumption DEF Tick, vars, RatesInv, TypeOK, Time
  <2>2. OneFetch' /\ CacheHonest' /\ FetchedIsCached' /\ CountersTell' /\ NoStampede'
    BY <1>1, <2>1, CalmStep
  <2>3. ServedFresh' /\ SnapshotTellsLastOutcome'
    BY <2>1, AnswersStay
  <2>4. QED
    BY <1>1, <2>2, <2>3 DEF RatesInv
<1>3. ASSUME NEW p \in Threads, BeginFetch(p) PROVE RatesInv'
  BY <1>1, <1>3, RatesInvBegin
<1>4. ASSUME NEW p \in Threads, FetchSucceeds(p) PROVE RatesInv'
  BY <1>1, <1>4, RatesInvSucceed
<1>5. ASSUME NEW p \in Threads, FetchFails(p) PROVE RatesInv'
  BY <1>1, <1>5, RatesInvFail
<1>6. ASSUME NEW p \in Threads,
             AskRate(p) \/ AskHealth(p) \/ HitCache(p) \/ RetryAttempt(p) \/ ReadHealth(p) \/ Deliver(p)
      PROVE  RatesInv'
  BY <1>1, <1>6, RatesInvElse
<1>7. QED
  BY <1>2, <1>3, <1>4, <1>5, <1>6 DEF Next, Attempt

LEMMA RatesInvHolds == Spec => []RatesInv
  BY RatesInvInit, RatesInvNext, PTL DEF Spec

\* The types of the cache, its counters and the requests in flight.
THEOREM RatesTyped == Spec => []TypeOK
<1>1. RatesInv => TypeOK
  BY DEF RatesInv
<1>2. QED
  BY <1>1, RatesInvHolds, PTL

\* No thread is ever served a rate past its time to live.
THEOREM NoStaleRate == Spec => []ServedFresh
<1>1. RatesInv => ServedFresh
  BY DEF RatesInv
<1>2. QED
  BY <1>1, RatesInvHolds, PTL

\* However many threads miss the cache, successful fetches of a currency are a time to
\* live apart.
THEOREM OneFetchPerTTL == Spec => []NoStampede
<1>1. RatesInv => NoStampede
  BY DEF RatesInv
<1>2. QED
  BY <1>1, RatesInvHolds, PTL

\* Every health snapshot adds up and shows how the last fetch ended.
THEOREM HealthIsHonest == Spec => []SnapshotTellsLastOutcome
<1>1. RatesInv => SnapshotTellsLastOutcome
  BY DEF RatesInv
<1>2. QED
  BY <1>1, RatesInvHolds, PTL
=============================================================================
