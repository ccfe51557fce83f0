--------------------------- MODULE ReferenceRates ---------------------------
(***************************************************************************)
(* The cache of ECB reference rates: one lock around a table of rates with *)
(* a time to live, the upstream fetch included, and counters of what the   *)
(* fetches came to, which the passive health read shows under the same     *)
(* lock.  A fetch is a bounded number of HTTP attempts.                    *)
(***************************************************************************)
EXTENDS Tables, Integers, Sequences

CONSTANTS
  Threads,       \* requests in flight at a time
  Currencies,    \* the currencies asked for, valid three-letter codes
  TTL,           \* ttl_seconds
  MaxAttempts,   \* max_attempts of the HTTP client
  MaxTime,       \* bound: the last clock reading
  MaxRequests    \* bound: the rate requests counted

ASSUME RatesAssumption ==
  /\ TTL \in Nat \ {0} /\ MaxAttempts \in Nat \ {0}
  /\ MaxTime \in Nat /\ MaxRequests \in Nat

VARIABLES
  clock,         \* the monotonic clock
  cache,         \* table: currency -> the rate and when it expires
  health,        \* the counters
  thread,        \* thread -> the request it serves
  fetched,       \* history: the successful fetches
  outcome        \* history: how the last fetch ended

vars == <<clock, cache, health, thread, fetched, outcome>>

Time == 0 .. MaxTime

\* A rate is told from others by when it was retrieved.
Cached == [expires : Nat, retrieved : Time]
Health == [attempts : Nat, successes : Nat, failures : Nat, consecutive : Nat, hits : Nat]
HealthStatus == {"NOT_OBSERVED", "LAST_ATTEMPT_SUCCEEDED", "LAST_ATTEMPT_FAILED"}
HealthSnapshot == [status : HealthStatus, counters : Health, outcome : HealthStatus]

\* The lock is held while fetching; attempt counts the HTTP attempts under way or
\* made.  A snapshot is kept with the outcome that it should show.
Thread ==
       [pc : {"idle", "waiting_health", "failed"}]
  \cup [pc : {"waiting"}, currency : Currencies]
  \cup [pc : {"fetching"}, currency : Currencies, attempt : 1 .. MaxAttempts]
  \cup [pc : {"served"}, currency : Currencies, retrieved : Time, at : Time]
  \cup [pc : {"shown"}, snapshot : HealthSnapshot]

TypeOK ==
  /\ clock \in Time
  /\ IsTable(cache, Currencies, Cached)
  /\ health \in Health
  /\ thread \in [Threads -> Thread]
  /\ fetched \in Seq([currency : Currencies, at : Time])
  /\ outcome \in HealthStatus

Idle == [pc |-> "idle"]

Init ==
  /\ clock = 0
  /\ cache = EmptyTable
  /\ health = [attempts |-> 0, successes |-> 0, failures |-> 0, consecutive |-> 0, hits |-> 0]
  /\ thread = [p \in Threads |-> Idle]
  /\ fetched = << >>
  /\ outcome = "NOT_OBSERVED"

At(p, pc) == thread[p].pc = pc
Goto(p, t) == thread' = [thread EXCEPT ![p] = t]

Tick ==
  clock < MaxTime /\ clock' = clock + 1 /\ UNCHANGED <<cache, health, thread, fetched, outcome>>

AskRate(p) ==
  /\ At(p, "idle") /\ health.attempts + health.hits < MaxRequests
  /\ \E c \in Currencies : Goto(p, [pc |-> "waiting", currency |-> c])
  /\ UNCHANGED <<clock, cache, health, fetched, outcome>>

AskHealth(p) ==
  /\ At(p, "idle") /\ Goto(p, [pc |-> "waiting_health"])
  /\ UNCHANGED <<clock, cache, health, fetched, outcome>>

LockFree == \A p \in Threads : ~At(p, "fetching")

Fresh(c) == c \in DOMAIN cache /\ cache[c].expires > clock

Served(c, rate) == [pc |-> "served", currency |-> c, retrieved |-> rate.retrieved, at |-> clock]

HitCache(p) ==
  /\ At(p, "waiting") /\ LockFree /\ Fresh(thread[p].currency)
  /\ health' = [health EXCEPT !.hits = @ + 1]
  /\ Goto(p, Served(thread[p].currency, cache[thread[p].currency]))
  /\ UNCHANGED <<clock, cache, fetched, outcome>>

\* Mutant: the lock is let go while the rate is fetched.
BeginFetchUnlocked(p) ==
  /\ At(p, "waiting") /\ ~Fresh(thread[p].currency)
  /\ health' = [health EXCEPT !.attempts = @ + 1]
  /\ Goto(p, [pc |-> "fetching", currency |-> thread[p].currency, attempt |-> 1])
  /\ UNCHANGED <<clock, cache, fetched, outcome>>

BeginFetch(p) ==
  /\ At(p, "waiting") /\ LockFree /\ ~Fresh(thread[p].currency)
  /\ health' = [health EXCEPT !.attempts = @ + 1]
  /\ Goto(p, [pc |-> "fetching", currency |-> thread[p].currency, attempt |-> 1])
  /\ UNCHANGED <<clock, cache, fetched, outcome>>

\* A usable observation: cached from now on, and returned.
FetchSucceeds(p) ==
  /\ At(p, "fetching")
  /\ LET c == thread[p].currency
         rate == [expires |-> clock + TTL, retrieved |-> clock] IN
     /\ cache' = With(cache, c, rate)
     /\ fetched' = Append(fetched, [currency |-> c, at |-> clock])
     /\ Goto(p, Served(c, rate))
  /\ health' = [health EXCEPT !.successes = @ + 1, !.consecutive = 0]
  /\ outcome' = "LAST_ATTEMPT_SUCCEEDED"
  /\ UNCHANGED clock

\* Mutant: the count of attempts starts over instead of ending the fetch.
RetryAttemptUncounted(p) ==
  /\ At(p, "fetching")
  /\ Goto(p, [thread[p] EXCEPT !.attempt = (@ % MaxAttempts) + 1])
  /\ UNCHANGED <<clock, cache, health, fetched, outcome>>

\* A transport error or a 4xx or 5xx answer: another attempt after a pause.
RetryAttempt(p) ==
  /\ At(p, "fetching") /\ thread[p].attempt < MaxAttempts
  /\ Goto(p, [thread[p] EXCEPT !.attempt = @ + 1])
  /\ UNCHANGED <<clock, cache, health, fetched, outcome>>

\* Mutant: a failure falls back on the rate that has expired.
FetchFailsOver(p) ==
  /\ At(p, "fetching")
  /\ health' = [health EXCEPT !.failures = @ + 1, !.consecutive = @ + 1]
  /\ outcome' = "LAST_ATTEMPT_FAILED"
  /\ Goto(p, IF thread[p].currency \in DOMAIN cache
             THEN Served(thread[p].currency, cache[thread[p].currency]) ELSE [pc |-> "failed"])
  /\ UNCHANGED <<clock, cache, fetched>>

\* The last attempt failed like the others, or one failed for good: a redirect, a
\* response too large or without a usable observation, no provider.
FetchFails(p) ==
  /\ At(p, "fetching")
  /\ health' = [health EXCEPT !.failures = @ + 1, !.consecutive = @ + 1]
  /\ outcome' = "LAST_ATTEMPT_FAILED"
  /\ Goto(p, [pc |-> "failed"])
  /\ UNCHANGED <<clock, cache, fetched>>

Attempt(p) == FetchSucceeds(p) \/ RetryAttempt(p) \/ FetchFails(p)

Status ==
  IF health.attempts = 0 THEN "NOT_OBSERVED"
  ELSE IF health.consecutive > 0 THEN "LAST_ATTEMPT_FAILED"
  ELSE "LAST_ATTEMPT_SUCCEEDED"

Show(p) ==
  /\ Goto(p, [pc |-> "shown", snapshot |-> [status |-> Status, counters |-> health,
                                            outcome |-> outcome]])
  /\ UNCHANGED <<clock, cache, health, fetched, outcome>>

\* Mutant: the health read does not wait for the lock.
ReadHealthUnlocked(p) == At(p, "waiting_health") /\ Show(p)

ReadHealth(p) == At(p, "waiting_health") /\ LockFree /\ Show(p)

Deliver(p) ==
  /\ thread[p].pc \in {"served", "failed", "shown"} /\ Goto(p, Idle)
  /\ UNCHANGED <<clock, cache, health, fetched, outcome>>

Next ==
  \/ Tick
  \/ \E p \in Threads :
       AskRate(p) \/ AskHealth(p) \/ HitCache(p) \/ BeginFetch(p) \/ Attempt(p)
         \/ ReadHealth(p) \/ Deliver(p)

Spec == Init /\ [][Next]_vars

\* Every HTTP attempt ends, by its timeouts.
FairSpec == Spec /\ \A p \in Threads : WF_vars(Attempt(p))

-----------------------------------------------------------------------------
(* Properties.                                                             *)

\* Nobody is served a rate that is older than the time to live, not even when ECB
\* fails: a failed fetch is never papered over with what is in the cache.
ServedFresh == \A p \in Threads : At(p, "served") => thread[p].at - thread[p].retrieved < TTL

\* However many requests miss the cache at once, ECB is asked successfully for a
\* currency once per time to live.
NoStampede ==
  \A i, j \in 1 .. Len(fetched) :
    i < j /\ fetched[i].currency = fetched[j].currency => fetched[i].at + TTL <= fetched[j].at

\* A health snapshot is consistent and up to date: every fetch it counts has ended,
\* and it shows how the last one ended, whatever hits the cache had since.
SnapshotTellsLastOutcome ==
  \A p \in Threads : At(p, "shown") =>
    LET shown == thread[p].snapshot IN
    /\ shown.counters.attempts = shown.counters.successes + shown.counters.failures
    /\ shown.counters.consecutive <= shown.counters.failures
    /\ shown.status = shown.outcome

\* Whoever holds the lock for a fetch lets go of it, so that cache hits and health
\* reads wait for a bounded number of attempts only.
FetchEnds == \A p \in Threads : At(p, "fetching") ~> ~At(p, "fetching")
=============================================================================
