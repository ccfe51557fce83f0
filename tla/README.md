# Verification of the trade-agent service

TLA+ models of the service under `src/src/trade_agent`, the TLC configurations that
check them, and proofs about them that TLAPS checks.  The models are translated from the
Python source; `PROJECT.json` maps every definition to the lines it stands for, and says
for every property which change of the code would break it.

## 1. The system

A FastAPI service keeps trade *opportunities* for several tenants.  For an opportunity a
*research run* is opened, an *evidence bundle* is submitted for it, evaluated without side
effects (validation, matching, landed cost, ranking) and persisted as one immutable
*decision report*; people then review the run, or have it recalculated by a *successor*
run.  Every command carries the version of the row its client has seen.  The state is in
PostgreSQL (SQLite serves local use and tests; the engine is created without an
isolation level, so transactions are READ COMMITTED), and the
service may run as several processes, each with a thread pool for its synchronous handlers.

### Components

| Component | State | Operations | What makes it correct |
|---|---|---|---|
| Workflow tables (`domain/workflow.py`) | none | transition tables; the status a disposition or a decision leads to | terminal states are terminal, result statuses come only from results and reviews |
| Research runs (`infrastructure/repository.py`, `application/completion.py`, `application/recalculation.py`) | `research_runs`, `decision_reports`, `research_reviews`, `audit_events`, `idempotency_records` | create, manual transition, persist a result, review, create a successor | no lost update, report and status agree, ledger and report are one write, exactly one winner per version, a review is the last word |
| Opportunities (`repository.py`) | `opportunities`, `audit_events` | create, change stage, update context | the two kinds of change share a version and never overwrite each other |
| Supplier identity claims (`repository.py`, `application/supplier_identity.py`) | `supplier_identity_claims`, `supplier_identity_claim_reviews`, `audit_events` | publish (with a result), review, list the queue | the ledger is a chain, the state shown is its fold, a paged walk misses nothing that stayed |
| Evidence sources (`repository.py`) | `sources`, shared by all tenants | resolve or insert a name | unique names, none without a result, no result lost for good to a collision |
| Rate limiter (`api/rate_limit.py`) | one window per tenant, in memory | check | the budget holds in each window, bursts are bounded, `Retry-After` is honest |
| Reference rates (`application/reference_rates.py`, `providers/`) | cache, health counters, in memory | fetch or hit, read health | nothing stale is served, no stampede, health is a consistent snapshot |
| Evaluation of a bundle (`providers/evidence_bundle.py`, `domain/models.py`, `application/validation.py`, `matching.py`, `ranking.py`, `calculation/landed_cost.py`, `application/research.py`) | none | parse, validate, match, rank, calculate | limits and ties, rounding, the path of a conversion, a verdict that never softens, nothing accepted that the tables refuse |
| Views and report (`application/*_coverage.py`, `data_gaps.py`, ..., `reporting/markdown.py`, read side of `repository.py`) | rows of a stored result | render the report, rebuild the views | the report and the API tell the same of a run |
| Listings, review queue of runs, choice of the latest decision (`repository.py`, `application/pagination.py`) | none of their own | keyset pages | no item twice, none missed |
| HTTP surface (`api/app.py`, `schemas.py`, `middleware.py`, `auth.py`, `infrastructure/readiness.py`) | none but the buffered body | routing, error codes, roles, body limit | a tenant sees only its own; a body is replayed as it came |
| Request parsing, CLI, configuration, logging, UI, migrations | none | I/O and text | — |

### How they interact

* Every command of the first four components is one HTTP request, one worker thread and
  one or two database transactions.  Workers share nothing but the database; what keeps
  them apart is `SELECT ... FOR UPDATE`, unique constraints and the expected version.
* Submitting a result first looks in the idempotency ledger, then evaluates the bundle
  *outside* any writing transaction, then opens one that looks in the ledger again, takes
  the row lock, checks, and writes sources, evidence, claims, report, status, audit
  event and idempotency record.  A violated unique constraint rolls all of it back, and the
  answer then comes from the ledger, or is a 500.
* Results of different runs meet in the table of sources, whose names are unique across
  tenants.
* The rate limiter and the rate cache live in one process and are shared by its threads
  under a `threading.Lock` each.

### What is hard

The hazards are listed with their lines in `PROJECT.json`: interleavings of commands on
one row; a ledger lookup that is stale when the lock is obtained; crashes and lost
answers; retries during and after the first attempt; inserts that fail half-way;
collisions and deadlocks on source names; a walk through a queue that changes between the
pages; clock readings that are overtaken on the way to a lock; a lock that is held during
network calls; and the numeric edges of the pure functions.

## 2. The modules

| Module | Models | Proofs, instances |
|---|---|---|
| `Tables` | a table as a function from key to row: unique key = membership in the domain | |
| `Workflow` | the statuses, tables and decisions of `domain/workflow.py` | |
| `VersionedHistory` | the abstract promise: an aggregate changes in atomic steps along a relation, one version and one history entry each | proved in `OpportunityLifecycleProofs` |
| `ResearchRuns` | runs, reports, reviews, audit trail, both idempotency ledgers | `ResearchRunsProofs`, `MCRuns` |
| `OpportunityLifecycle` | opportunities and their audit trail | `OpportunityLifecycleProofs`, `MCOpportunities` |
| `IdentityReviews` | identity claims, their review ledger and the paged queue | `IdentityReviewsProofs`, `MCIdentityReviews` |
| `SourceRegistry` | resolution of source names inside the results' transactions | `SourceRegistryProofs`, `MCSources` |
| `TenantRateLimiter` | the fixed-window limiter | `TenantRateLimiterProofs`, `MCRateLimiter` |
| `ReferenceRates` | the cache of reference rates, the attempts of the HTTP client, the health snapshot | `ReferenceRatesProofs`, `MCReferenceRates` |
| `Decimals`, `CaseModel` | amounts, ratios, rounding; the records of a case and what their constructors refuse | |
| `EvidenceBundle` | the reading of a bundle into a case | |
| `LandedCost`, `ProductMatching`, `SupplierRanking`, `ValidationPolicy` | the calculations and the policy, one operator per idea | |
| `CaseViews` | the summaries that report and API share (freshness, coverage, gaps, sensitivity, ...) | |
| `ResultTables`, `StoredViews` | the rows of a result with their constraints; the views rebuilt from them | |
| `ReportViews` | the report, section by section | |
| `Evaluation` | the sequence of these from the request to the rows, and its properties | `EvaluationProofs`, `MCEvaluation` |
| `FoldTheory` | no code: what a fold over a sequence computes, for the proofs about `Evaluation` | is one |

`ResearchRuns`, `OpportunityLifecycle` and `IdentityReviews` each instantiate
`VersionedHistory` under a refinement mapping and have its specification as a property.
`SourceRegistry` details one step of `ResearchRuns` (the action `SourceNameTaken` is what
a run sees of it), and `Evaluation` another: what `ResearchRuns` takes for the disposition of a
bundle (`OutcomesOf`) is what `Evaluation` computes, and `NeverPassesAlone` discharges the
premise of `CompletedOnlyByApproval`.

### ResearchRuns

*State.*  Each variable but one is a table or, for the children of a run, a function to
sequences in order of insertion.  Evidence, offers, cost components and the like are
immutable children of the report that no command reads back: they are abstracted to the
bundle they came from, and have their own model in `ResultTables`.  `session` is the control state of the workers:

    idle -> looked -> begun -> holding -> done -> idle
                                  |         ^
                                  v         |
                               integrity ---+

*Steps.*  A step ends where another transaction may run or where this one becomes
visible: the first ledger lookup (`Ask...`), the second (`LookAgain`), the row lock with
the checks under it (`LockRun`), flush and commit (`Commit...`), the handler of
`IntegrityError` (`Recover`), the answer reaching the client (`Deliver`).  Between
obtaining the lock and committing nothing of a transaction is visible to others, so its
writes are one action.  `Crash` is possible at every moment: the transaction is rolled
back and the lock goes.  A lost answer is a `Deliver` after which the client asks again.

*Locks.*  A worker `holding` a run's row excludes others from `LockRun` of that run.
The row it read is kept in the session and is what the flush computes from, so that a
missing lock would show as a lost update (and does, in the mutants).  Foreign keys make
PostgreSQL take KEY SHARE locks on parents as well; these conflict with the `FOR UPDATE`
lock of a run only where its own transaction holds both, or make an insert of a child wait
for it, and add no cycles.

*Inputs.*  `OutcomesOf` gives the dispositions that evaluating a bundle may yield.  It
is a set since evaluation reads the clock.  `Fits` are the bundles that pass the
comparison of product, quantity and destination with the opportunity, and whose rows can
be written.  Keys, reasons, requested statuses and expected versions are any from small
sets.

*Left out.*  `PASSED` is in the tables of the code, and so in `Workflow`, but
validation always adds a due-diligence warning to a retained offer and no evaluation yields
it (`NeverPassesAlone`, and the theorem `OffersAlwaysAskForMore`); the instances do not
offer it, and `CompletedOnlyByApproval` says what follows.  The
check for an existing report under the lock is in the model, but no state reaches it: a
`RUNNING` run has none (`ReportGatesStatus`).

### OpportunityLifecycle

The same steps without ledgers.  The flush writes the columns that the request changed,
and the version; the answer is the object in memory.  An empty PATCH is refused before a
transaction is opened.

### IdentityReviews

A claim's state is not stored: `CurrentStatus` and `CurrentVersion` fold the rows of the
review table, highest version first, in a statement after the lock.  The locking select
joins the claim to its run, so that both rows are locked and two claims of a run cannot be
reviewed at the same time.  Claims are numbered in the order of `(created_at, id)`; a
cursor stands for the claims older than the last one shown.  A result publishes all claims
of its run in one step, in any order of runs, so that old claims can appear late behind a
cursor.

### SourceRegistry

One action per SELECT and per INSERT of a name.  An INSERT waits for an open transaction
that has inserted the name, fails if the name has been committed, and takes part in
deadlocks, of which PostgreSQL ends one transaction.

### TenantRateLimiter

`ReadClock` is apart from `Enter`, since the code reads the clock before it takes the
lock.  Time is counted in ticks, several to the second, for the rounding of `Retry-After`.
A single tenant is enough: windows of different tenants share only the lock.  With an old
clock reading the remaining time exceeds a window, and so may `Retry-After`; no document
promises otherwise, and the model shows it to be honest still.

### ReferenceRates

The lock is held while fetching, as in the code, which calls the provider inside `with
self._lock`.  An HTTP attempt succeeds, fails and is repeated up to `MaxAttempts`, or fails
for good.  URL checks and the parsing of ECB's answer are part of "fails for good".
`fetched` and `outcome` are history variables for the properties.

### Evaluation and the modules it is built from

*State.*  `stage` is the control state of `complete_research`, `evaluate` and
`persist_research_result`; the other variables are what the function has in its hands: the
bundle, the case, the verdict, matches, rankings, scenarios, the report, and the rows that
are stored in the end.  Each step that can raise has a partner `Refuse...`, after which
another bundle may come.

*Data.*  A bundle is a record whose fields may be `Absent` or `Malformed`.  Texts are
members of small sets: what matters of a text is whether it strips to nothing, what it
is case-folded, whether it is a URL, a currency or too unsafe to be stored
(`UnsafeTexts` stands for control characters and excess length alike).  A product name is the
sequence of its normalised words.  Amounts are integers in a unit that may be as fine as any amount
needs: `Cent` units are a cent, `AmountStep` of them one place of a column of amounts, and `RateScale` is
what the places of a column of rates divide 1 into.  The instance has 10, 5 and 100, so that there is
something to round at every scale; in the code a step is 1e-8 and 1e-12.  Rates and multipliers are exact ratios, and the reciprocal of a rate
is exact where Python keeps 28 digits.  Issues are a set of code, severity and subject;
messages, and the order of the list, are left out.  Views are unsorted.

*Rows.*  `ResultTables` writes a result as the code does: evidence deduplicated by its
fingerprint, usages in three tables, rankings, components, scenarios, issues; a quoted price and a
rate are rounded to the scale of their columns (`StoredAmount`, `StoredRate`), while calculated
amounts are whole cents and stay as they are (lemma `CentsHeld`).  `RowsFit` is
the conjunction of the constraints of the tables, and of `WithinColumns`: whether a column has room for a
value, which the constant `Holds` decides, for the columns that take what no constructor has
measured (`Unmeasured`, the notes, the id of the case, the report).  Where a constructor measures a text,
as it does for terms and claims, `UnsafeTexts` covers the width.  `StoredViews` joins the rows again, view
by view, as the reading functions of the repository do, and `ReportViews` gathers the
same sections from the result in memory.

*Left out.*  The transformation of a price (folded into its raw
value), the prefix `anonymous:` of a series of quantities, the formula and the label of a component (the label is
as unmeasured as its code), and every sentence of the report.

## 3. What is checked

| Run | Instance | Shows |
|---|---|---|
| `runs_race` | 2 workers, a run and its successors (3 ids), 2 keys, 2 opportunities, versions 1–3, up to 5 audit events | `TypeOK`; `ReportGatesStatus`, `LedgerMatchesReports`, `ReviewClosesRun`, `SuccessorLineage`: the tables agree with each other under races, crashes and rollbacks; `AcknowledgedIsRecorded`, `OneWinnerPerVersion`: what a client is told is so; `VersionedRuns`, the refinement, by commands that race |
| `runs_history` | 1 worker, 2 runs, 2 keys, 3 bundles, versions 1–4 | `CompletedOnlyByApproval`, `NothingRewritten` over long histories, with failures and restarts |
| `runs_service` | 2 workers, 2 tenants, one of which owns the runs, fair | `ForeignTenantLearnsNothing`: an answer never betrays another tenant's run; `EveryRequestServed` |
| `runs_retry` | 2 workers, 1 run, fair | violates `ExactRetryReplays`: first finding below |
| `opportunities` | 2 workers, 2 tenants, 2 fields, a stage that is final and one that is not | `OneWinnerPerVersion`, `AcknowledgedStays`, `VersionedOpportunities`, `StepsTouchWhatTheyRecord` |
| `identity_reviews` | 2 reviewers, 3 claims of 2 runs, pages of 1, 2 filters | `LedgerIsAChain`, `VersionedClaim` under races; `WalkNeverRepeats`, `WalkMissesNothingSteady` while the queue changes |
| `sources` | 3 workers, 4 results on 4 names in crossing orders, 1 crash, fair | `SourcesMatchResults`, `NamesStayUnique`, `EveryResultPersisted` |
| `rate_limiter` | 2 threads, 2 requests per window, windows of two ticks | `BudgetPerWindow`, `BurstBound`, `RetryAfterHonest` |
| `reference_rates` | 2 threads, 2 currencies, 2 attempts, fair | `ServedFresh`, `NoStampede`, `SnapshotTellsLastOutcome`, `FetchEnds` |
| `evaluation` | some 1,400 bundles, 2 readings of the clock, columns of few places and widths | the ten properties of the next paragraph |
| `report_freshness` | bundles with claims | violates `ReportFreshnessMatchesStored`: second finding |
| `anonymous_suppliers` | offers by any of five names | violates `AnonymousNeverMerged`: third finding |

*The properties of the evaluation.*  `ConcernOnlyGrows` and `NeverPassesAlone` are about
the verdict, which three stages rebuild one after the other.  `UnrankedHasReason` and
`RankIsCompetition` hold the ranking against a definition by counting.
`ConversionTakesShortestPath` holds the breadth-first search against the set of all walks,
`RoundingStaysClose` the rounded components against the exact figures.
`DatabaseRefusesNothingElse` names the three ways a result that was accepted is refused by the
tables, which end as a 500 instead of a 422 because no check along the way looks at them: a value
that its column has no room for, where nothing measures it before (a market layer, a rate type or a
component code of more than 50 or 100 characters, a supplier's name of more than 200 that becomes
the subject of an issue, a number out of range, ...); a negative purchase price; and a
positive rate that becomes 0 at the scale of its column.  Everything else -- every key, every
other check, the width of every text that a constructor has measured -- holds before the insert;
a component code twice, for one, is answered with 422.
`CatalogExplainsFreshness`, `ViewsAgreeWithValidation` and
`ReportTellsWhatIsStored` compare readers that share no code: catalog and freshness,
freshness and validation, report and API, API and the decision of the opportunity.  The report
prints a quoted price and a rate in full, where the API returns what `Numeric(28, 8)` and
`Numeric(28, 12)` keep of it, so that the two are compared at the scale of the columns (`AtScale`);
everything derived from them, which is computed once, in memory, is compared exactly.

*Scope of some properties.*  `ForeignTenantLearnsNothing` is about runs and their ledgers, not about
claims, opportunities or the wait for a lock.  `LedgerIsAChain` and `VersionedClaim` would not see a fold
read before the lock: the unique key of claim and version turns it into an error that nothing
handles, and that this does not happen is the theorem `ReviewsNeverCollide`.  `SuccessorLineage` is
checked with one tenant, with several only proved (`SuccessorsHaveLineage`).

*Bounds.*  Row locks, versions and unique keys relate two requests at a time, hence two
workers (three where a cycle of three is a case of its own: sources).  The
versions clients may expect end the histories: with 1–3 a run is started, given its
result and reviewed, and there is an outdated version at every step; with 1–4 it also
fails and is started again.  Once no version can match, requests are still answered, with
conflicts, so that no bound ends in a deadlock, except where a run's configuration says
so: in `rate_limiter` the clock ends, and in the runs of the evaluation a stored result is
final.  In `runs_race` three uuids give a run and two successors, of one key or of two, for one
opportunity or the other: a second successor for a key, or one for another run's opportunity, is
within reach of a mistake.  Its histories begin with one run (`OneRoot`) and are followed up to five audit
events in all (`FewChanges`; the states after the fifth are checked, not continued): created,
started, given its result, succeeded twice or reviewed.  Elsewhere two uuids are enough.
When none is left `CommitSuccessor` is not enabled, which is why `EveryRequestServed` excepts that case, and a worker that holds the lock
then may still crash.  The reviewers of claims have a single decision, since only the
move out of the first filter matters to a walk; three claims in pages of one are the least with
something before, at and behind a cursor.  Symmetry is used among workers, in `runs_race`
also among uuids, keys and opportunities, and in no run of a liveness property.

The bundles of `evaluation` vary one quiet bundle by families: names, products and prices of an
offer; its terms; age and kind of evidence, at each limit and one second past it;
claims; duplicates; three offers with ties, outliers and two groups; every sequence of up to
four of five rates, and two ways of different length in every order; costs that round at
each step; scenarios; prices and rates with more places than their columns, up to a rate that
vanishes; values that nothing measures before the insert; and what no reader takes.  Families are not crossed with each other: the
policy looks at each field, or at pairs within a family.

*Fairness.*  `runs_service`: a worker goes on with its request (weak fairness of its
steps), and PostgreSQL queues the waiters of a row lock, so that a waiter is not overtaken
for ever (strong fairness of `LockRun`).  Nothing forces a client to ask or a worker to
crash.  `sources`: transactions go on, clients send a failed result again, and a waiter that
is woken again and again inserts its row eventually.  `EveryResultPersisted` has a premise of
its own: from some moment on no retry comes before the waiters of the failed transaction have
moved (`RetriesComeLater`).  Without it TLC finds three results that defeat each other for
ever; the code has no retry of its own, so this is about what its clients do.
`reference_rates`: every HTTP attempt ends, by its timeouts.

### Findings

*A concurrent exact retry is told of a conflict* (`runs_retry`).
`src/README.md:403-404` says "An exact retry returns the original immutable completion
with `idempotency_replayed=true`", and `src/docs/architecture.md:54-56` that
"Same-key/same-hash retries replay the snapshot; ... including after a concurrent
unique-key race."  `persist_research_result` looks in the ledger before it waits for the
row lock and not again after it.  TLC lets two workers submit the
same result; both find nothing, one commits, the other obtains the lock, sees
a version that is no longer the expected one and answers 409 `VERSION_CONFLICT` although
the ledger holds its completion.  The `IntegrityError` branch, which would replay it, is
not reached, since the version check comes first.  The client that retries once more is
answered with the stored completion; nothing is written twice (`LedgerMatchesReports`,
`OneWinnerPerVersion`).

*The report does not count the evidence of claims* (`report_freshness`).
`src/README.md:351-352` says "Evidence usage and freshness counts include claims".  The API
counts them, the freshness section of the report gathers the evidence of prices and rates
only (`reporting/markdown.py:198-213`).

*A blank supplier name is an identified supplier in the coverage* (`anonymous_suppliers`).
`src/README.md:338-339` says "Anonymous observations are listed separately and never merged
into a synthetic supplier".  The reader accepts a blank name, validation, ranking and quantity series
take it for anonymous, `supplier_coverage.py:45` only `None`.

## 4. What is proved

Every theorem holds for every value of the constants under the named assumption of its
module (`RunsAssumption`, `OpportunityAssumption`, `ClaimsAssumption`, `SourceAssumption`, `RatesAssumption`,
`LimiterAssumption`, `BundlesAssumption`, `ScaleAssumption`; `HistoryAssumption` is a hypothesis of its theorem).  They
ask only that constants have the types their comments say, and `BundlesAssumption` that a bundle
is an object whose fields are absent, malformed or of the kind the model abstracts them to (times are
numbers or lack their zone, as the readings of the clock are numbers); `ScaleAssumption` that half a cent
is a number of units and that the columns hold every cent.  TLC evaluates them in the runs.
Every safety invariant and action property of the passing runs is stated by a theorem.

**Research runs**:

* `TypeCorrect`.  The types alone are not inductive: the replay of a
  successor reads the run whose id the ledger stored, so the ledger must name runs that
  exist (`LedgerNamesRuns`).
* `ReportsGateStatuses`, from the invariant `SafetyInv`, which has three parts.
  `TypeInv` is the above.  `LockInv`: whoever holds a lock holds the row as it
  is in the table, with the verdict that was reached on it (`HoldersSeeTheirRow`), and nobody
  else holds it (`OneHolder`); without it a commit could be made on a stale row.
  `RecordInv`: runs, audit and reviews have the same keys, the last audit event carries the
  version and status of the row, and `ReportGatesStatus` itself.  A step either only moves a
  session (`SafeGoto`, `SafeLock`), writes a row under its lock (`SafeWrite`), or inserts a run
  (`SafeInsert`); each of these is a lemma, and the actions are cases of them.
* `RunsImplementHistory`: research runs implement the versioned history.  Every commit maps to
  `Advance`, every insert to `Open`, and all other steps to stuttering.

The second half of `ResearchRunsProofs` builds on `SafetyInv`.  Its lemma `StepEffects` says what a
step can do to the tables: it is `Quiet`, creates a run, or is one of the four commits
(`StatusWritten`, `ReviewWritten`, `ResultWritten`, `SuccessorWritten`), each with what it found
under its lock.  The theorems are then arguments over seven cases, not over the twenty-odd actions:

* `RecordsAreImmutable` (`NothingRewritten`) directly;
* `SuccessorsHaveLineage` (`SuccessorLineage`), inductive as it stands;
* `ReviewsAreFinal` (`ReviewClosesRun`), strengthened by `OutcomeStands`: a run with a review is
  terminal, and one with a report and no review still has the status the report gave it;
* `ResultsAreRetryable` (`LedgerMatchesReports`), strengthened by `StoredAtVersion`: a stored
  answer has the version after the one its request expected, so that a later event
  never takes its place in the audit trail;
* `SuccessIsRecorded` (`AcknowledgedIsRecorded`) and `OneWinner` (`OneWinnerPerVersion`) together, from
  `AnswersInv`: an answer tells of the event at its version, and the answer of a result has
  its ledger entry, so that two winners of one version would be two events in one place;
* `TenantsAreSeparate` (`ForeignTenantLearnsNothing`) and `OnlyApprovalCompletes`
  (`CompletedOnlyByApproval`) are about what a request carries on its way, so they rest on a
  second case analysis, `StepServes`: a session never makes up a disposition, and gets to a lock,
  a rollback or a record only with a run its tenant can see (`ServedOwners`).  With
  `OutcomesHonest` (nothing says PASSED unless an evaluation may) and `ReviewsDecide` (a review
  leads where its decision says), `ReviewInv` then leaves an approval as the only way to COMPLETED.

**Opportunities**: `AnswersAreKept` (`AcknowledgedStays`), `OneWinner` (`OneWinnerPerVersion`),
`StepsAreRecorded` (`StepsTouchWhatTheyRecord`) and `OpportunitiesImplementHistory`
(`VersionedOpportunities`).  Invariant `OpportunityInv`: the locks as for runs; the trail has one
event per version and replays to the status of the row (`TrailExplainsRow`); the answers
themselves.  The two commits are one kind of step to the proofs, `Effect`: what is written,
and that the event says so.  `StaysAfterEvent` is the core: an event that does not name what an
answer set leaves it in force.

**The abstract promise**: `HistoryAlwaysExplainsRow`, in `OpportunityLifecycleProofs` but about
an arbitrary aggregate of its own, `Aggregate`.  Invariant: `HistoryInv`, which adds that
histories are non-empty sequences and row and history have the same domain.

**Identity reviews**: `LedgersAreChains` (`LedgerIsAChain`) and `ReviewsNeverCollide`, which says that
the unique key of claim and version, whose violation nothing handles, is never violated.
Invariant `ChainInv`: the versions of a claim's reviews are 1 to the length of its audit
trail (`Numbered`); a reviewer with the lock saw the review on top (`HoldersSeeTheTop`); and the locks
of one run exclude each other (`OneHolder`), from which the fold that was read is still the
fold when the review is written.  `ClaimsImplementHistory` (`VersionedClaim`) adds that only
published claims are reviewed (`PublishedFirst`), so that a history opens at version 0.
`WalksNeverRepeat` (`WalkNeverRepeats`) and `WalksMissNothing` (`WalkMissesNothingSteady`) are about
the walk through the queue, and rest on `WalkInv`: the cursor is at or below everything shown
(`CursorBelowSeen`), and what was in the queue from the beginning of the walk and is above the cursor
has been shown (`NothingSkipped`).  A page is the first claims below the cursor in the order of
their ranks; that it has them all or is full is where the proof needs the claims of a run to be
finitely many, which `ClaimsAssumption` says.

**Evidence sources**: `TypeCorrect`, `NamesAlwaysUnique` (`NamesStayUnique`) and
`SourcesAlwaysMatchResults` (`SourcesMatchResults`).  Invariant `RegistryInv`: both properties, and for
each open transaction its `Progress`: the names it has passed are committed or its own, and
what it inserted are names of its result.  The wait for uncommitted rows keeps the names of two
transactions apart, so that a commit adds names nobody else holds; when it commits, a
transaction has passed every name, so the sources gain just the names of its result.

**Rate limiter**: `LimiterTyped`, `BudgetHolds` (`BudgetPerWindow`), `RetryAfterIsHonest`
(`RetryAfterHonest`) and `BurstsAreBounded` (`BurstBound`).  The first three rest on
`LimiterInv`: one thread is inside the lock and sees the stored window (`OneInside`), whose
counter is the number of requests accepted in it (`WindowCounts`), and no older window comes
back (`WindowIsLatest`).  `BurstBound` sums over what a span of one window length can meet.  Its
invariant `BurstInv` orders the windows a tenant ever had: the start of each is the reading of the
thread that opened it (`OpenersCounted`), they are at least a length apart (`WindowsApart`), and
the stored one is the last (`StoredIsLast`), so that a span meets two windows at most, the earlier
one without its opener: less than two budgets.  Only a thread that read the clock before
another opened a window can be counted in the wrong one; such requests and the threads that may
still make one are fewer than the threads (`FewOvertaken`), which are therefore assumed finite.

**Reference rates**: `RatesTyped`, `NoStaleRate` (`ServedFresh`), `OneFetchPerTTL`
(`NoStampede`), `HealthIsHonest` (`SnapshotTellsLastOutcome`).  Invariant `RatesInv`: one fetch at a
time, of what has expired (`OneFetch`); every successful fetch is covered by a cache entry
that expires a TTL after it or later (`FetchedIsCached`); the counters lag by the fetch under way
(`CountersTell`).

**Evaluation**: `ConcernGrows` (`ConcernOnlyGrows`), `NeverPasses` (`NeverPassesAlone`, the premise
that `OnlyApprovalCompletes` rests on), `UnrankedIsExplained` (`UnrankedHasReason`),
`RanksAreCompetition` (`RankIsCompetition`), `RoundingCloses` (`RoundingStaysClose`) and
`ConversionIsShortest` (`ConversionTakesShortestPath`), all from the
invariant `EvaluationInv` of `EvaluationHolds`, for every set of bundles, clock and opportunity.  The
invariant says what has been recorded at each stage: a case that is typed (`CaseIsTyped`), nothing
ahead of its stage (`NothingYet`), matches, rankings and costs that are those of the case
(`MatchesRecorded`, `RankingsRecorded`, `CostsRecorded`), and a validation that has a concern since
the ranking (`Concerned`).  The argument has five parts:

* *Folds.*  `FoldSteps` of `FoldTheory`: a left fold whose body keeps its accumulator in a set is a
  chain of steps, so that what holds of the base and is kept by the body holds of the result.
  Induction over numbers is not taken from the library (its theorem has an operator for a
  parameter): `LeastNumber` derives it from the well-foundedness of the finite sets, `UpTo` is induction
  up to a number with a set in place of the predicate.  `FoldTheory` is instantiated once for each loop
  and every instance repeats what it extends, so it extends next to nothing and takes the induction as
  a hypothesis of `FoldSteps`; `NumbersInduct` discharges it wherever the theorem is cited.
* *Types.*  What a bundle may be is `BundleShape`, objects with fields that may be absent or malformed;
  `ParsedIsTyped` says that what is read from one is a typed case, `CleanIsTyped` that dropping
  duplicates keeps it so, `PathRatePositive` that the search for a conversion, a fold in a fold, finds a
  ratio of positive numbers or nothing, and `DraftTyped` that a ranking before its ranks is typed.
* *Ranks.*  The sorted sequence of a group exists, has each offer once, and the first place an
  offer's score and price have in it is one more than the number of offers that are better.
* *Concerns.*  Each stage of the validation only adds (`LaterStagesOnlyAdd`).  A case without offers
  has an issue about that (`NoOfferIsAnIssue`), and an offer either lacks its supplier's name or asks
  for the due diligence of it (`OffersAlwaysAskForMore`); dropping duplicates never takes
  the last offer.
* *The search for a rate* (`SearchIsShortest`, for any rates).  `WithinSteps` and `WalkSteps` unfold
  the recursive definitions the search is held against.  Its invariant is `Seeking`: what is
  visited lies between all that is at most d arcs away and all that is at most d + 1; the queue is the
  rest of level d followed by what is known of the next, each entry with the rate of a walk of that
  length; whatever was visited has had its turn, waits for it or has it now; and as many currencies were
  visited as have left the queue or are in it.  One arc (`FollowSeeks`), one turn (`TurnSeeks`) and
  one level (`NextLevel`) keep it, and the arc that meets the target has a walk of d + 1 arcs
  where no walk of d leads (`Arrived`).  The currencies are at most twice the rates and one
  (`CurrenciesFew`), so the turns the model allows for are enough, as the loop of the code that
  runs until its queue is empty would be; and as every new distance takes a new rate (`InsideGrows`), the
  shortest walk has no more arcs than there are rates.

The four invariants about what is stored need a second invariant, `RecordInv` of `RecordHolds`.
`EvaluationInv` knows the types of a case and that each stage did its work, but no longer the
bundle; two computations from one result can only be compared if both are traced back to it.
So `RecordInv` says that case, costs, report and rows are functions of the bundle that was sent
(`FromBundle`, `CostsKept`, `ReportKept`, `RowsKept`), and that the issues about the age of evidence are
those the clock reading of the validation calls for (`IssuesKept`).  `BundleRecorded` adds what the records were
accepted on: the fields each of them has, a time for each piece of evidence, claims with ids of their own
that are about observations of the case.

* *The rows of evidence* (`CatalogAndFreshnessAgree`, `CatalogExplainsFreshness`).  The table holds each piece of
  evidence the case stands on once, under a number of its own (`EvidenceRowsFacts`, over the fold
  that caches them).  The catalog lists the usages of a row from three tables, the freshness
  adds up how many each has; the rows of each table have keys of their own, so the two counts are one
  (`UsagesCounted`), and every row has a usage because it was cached for one (`EveryRowUsed`).
* *Views and validation* (`ViewsFollowValidation`, `ViewsAgreeWithValidation`).  `FreshnessCounts`: a status is
  counted exactly when some piece of evidence has the age for it, which is when the
  validation raised its issue (`IssuesKept`); every piece has a time to judge it by (`EvidenceIsDated`).
  `GapsFollow` is the status of the gaps.
* *The constraints of the tables* (`AcceptedResultsFit`, `DatabaseRefusesNothingElse`), one lemma for each table.
  The unique keys are carried through the joins of the rows by `FlattenKeyed`; the scores stay within
  100 because a draft has at most 75 points before the 25 for the price (`DraftWithin`, `PriceWithin`); the names of
  scenarios are distinct since there are as many as scenarios (`ScenarioNames`); no amount is negative
  if no purchase price is (`SubtotalNat`, `AmountsNat`); and the terms of an offer and the identity in a claim
  have been measured (`OffersFit`, `ClaimsFitTable`).  The three hypotheses of the property are the three reasons
  the tables have left.  `RateVanishes` says exactly which rates the third is about: those below half a
  step of the scale.
* *The report and the views of the rows* (`ReportTellsTheRows`, `ReportTellsWhatIsStored`).  A result is taken apart into
  rows whose evidence is an id and whose scenario is a name, and joined again: an observation, a
  claim, a rate, a ranking and a component each come back from their rows, with their scenario and no other
  (`OfferAgain`, `ClaimAgain`, `RateAgain`, `RankingsAgain`, `ComponentsAgain`), an observation with the price
  and a rate with the figure that its column keeps.  The views that tell no price see the same
  observation (`QuotedAgain`); the two sections that do are compared at the scale (`SectionAtScale`).  From there each section of the report
  is the section of the view (`OfferViewsAgain` to `SummaryAgain`).  `LeaderComplete` is why no reader gives up: an
  offer of the first rank has a supplier and a price.

`RoundingError`, `RoundingKeepsOrder` and `ComponentsStayClose` are the facts about the arithmetic:
half-up rounding is off by half a unit at most and never swaps two amounts.

The parts of the inductive invariants of the state machines with several actors were checked by TLC
in the instance of their module before they were proved; those of the evaluation, which is
sequential, and of its search were proved directly.

*Model-checked only.*  Liveness (`EveryRequestServed`, `EveryResultPersisted`, `FetchEnds`) and
anything about `ENABLED` are out of the prover's reach: these three properties are what the passing
runs check and no theorem states.  The properties of the violation runs are false, and their
counterexamples are TLC's.

## 5. What is not modelled, and why

* *Listings, review queue of runs, which run the latest decision picks*: read-only queries with
  the keyset of the identity queue, which is modelled.  What the decision tells of the run it
  picks is checked (`ReportTellsWhatIsStored`).
* *Request parsing*: regular expressions over natural-language text.
* *HTTP surface*: handlers delegate; their error codes are in the models of the commands.
  Middleware buffers bodies, authentication compares digests, roles are a table,
  readiness asks the database.
* *Configuration, logging, command line, static UI, migrations*: start-up, I/O and
  presentation.  The constraints the migrations create are in `ResultTables` and in the keys of
  the tables.
* *Layout of the report, messages and order of issues, order of views.*
* *SQLite* ignores `FOR UPDATE` and the widths and scales of columns; it serves local use and tests.

## 6. What could follow

A model of the keyset over rows that commit late with an early time would show what a listing can
miss; one of request parsing would need its grammar first.  With a prover that reaches `ENABLED`, the three
liveness properties: the variants are the stages of a session and the requests still to be served.
