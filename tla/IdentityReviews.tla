-------------------------- MODULE IdentityReviews ---------------------------
(***************************************************************************)
(* Reviews of supplier identity claims.  A claim is published, immutable,  *)
(* with the result of its run; reviewers append to a ledger; the state of  *)
(* a claim is never stored but folded from the highest version in the      *)
(* ledger.  The review queue is a projection of that fold, which clients   *)
(* walk page by page, one request per page, while reviews go on.           *)
(***************************************************************************)
EXTENDS Workflow, Tables, Integers, Sequences, FiniteSets

CONSTANTS
  Tenants,
  RunIds,        \* research runs
  TenantOf,      \* [RunIds -> Tenants]
  Claims,        \* claims, numbered in the order of (created_at, id)
  RunOf,         \* [Claims -> RunIds]
  Workers,       \* review requests in flight at a time
  Versions,      \* bound: the expected_version values clients send
  Decisions,     \* bound: the decisions reviewers take
  Filters,       \* bound: the status filters of the queue requests, as sets
  Limit,         \* the page size of a queue request
  Watched        \* the claim whose history VersionedClaim follows

ACTIONABLE == {"UNREVIEWED", "INCONCLUSIVE"}

\* A queue request asks for one actionable status, or for all of them.
AllFilters == {{s} : s \in ACTIONABLE} \cup {ACTIONABLE}

ASSUME ClaimsAssumption ==
  /\ TenantOf \in [RunIds -> Tenants]
  /\ Claims \subseteq Nat \ {0}
  /\ RunOf \in [Claims -> RunIds]
  /\ \A r \in RunIds : IsFiniteSet({c \in Claims : RunOf[c] = r})
  /\ Versions \subseteq Nat
  /\ Decisions \subseteq SupplierIdentityReviewDecision
  /\ Filters \subseteq AllFilters
  /\ Limit \in Nat \ {0}
  /\ Watched \in Claims

VARIABLES
  published,     \* the claims whose result is committed
  reviews,       \* rows of supplier_identity_claim_reviews
  audit,         \* claim -> its audit events, in order
  session,       \* worker -> the review request it serves
  walk,          \* a client's walk through the queue of its tenant
  steady         \* history: the claims that were listed when the walk began and
                 \* have stayed so
db == <<published, reviews, audit>>
vars == <<db, session, walk, steady>>

-----------------------------------------------------------------------------
ReviewRow == [claim : Claims, decision : SupplierIdentityReviewDecision,
              previous_status : SupplierIdentityReviewStatus, previous_version : Nat,
              resulting_version : Nat]

AuditEvent == [decision : SupplierIdentityReviewDecision,
               previous_version : Nat, resulting_version : Nat]

Request == [tenant : Tenants, claim : Claims, decision : Decisions,
            expected : Versions]

Code == {"OK", "NOT_FOUND", "VERSION_CONFLICT", "INTERNAL_ERROR"}

Session ==
       [pc : {"idle"}]
  \cup [pc : {"begun"}, req : Request]
  \cup [pc : {"holding"}, req : Request, status : SupplierIdentityReviewStatus, version : Nat]
  \cup [pc : {"done"}, req : Request, code : Code, version : Nat]

\* The cursor of a walk stands for the claims older than the last item of the
\* page before.
Walk == [tenant : Tenants, statuses : AllFilters, more : BOOLEAN,
         older : SUBSET Claims, seen : Seq(Claims)]

TypeOK ==
  /\ published \subseteq Claims
  /\ reviews \subseteq ReviewRow
  /\ audit \in [Claims -> Seq(AuditEvent)]
  /\ session \in [Workers -> Session]
  /\ walk \in Walk
  /\ steady \subseteq Claims

-----------------------------------------------------------------------------
(* The fold.                                                               *)

ReviewsOf(c) == {r \in reviews : r.claim = c}

\* Mutant: the reviews are read oldest first.
EarliestFirst(c) ==
  CHOOSE r \in ReviewsOf(c) : \A s \in ReviewsOf(c) : s.resulting_version >= r.resulting_version

Latest(c) == CHOOSE r \in ReviewsOf(c) : \A s \in ReviewsOf(c) : s.resulting_version <= r.resulting_version

CurrentVersion(c) == IF ReviewsOf(c) = {} THEN 0 ELSE Latest(c).resulting_version
\* Mutant: the status is read from the column of the superseded one.
SupersededStatus(c) == IF ReviewsOf(c) = {} THEN "UNREVIEWED" ELSE Latest(c).previous_status

CurrentStatus(c) == IF ReviewsOf(c) = {} THEN "UNREVIEWED" ELSE Latest(c).decision

Listed(tenant, statuses) ==
  {c \in published : TenantOf[RunOf[c]] = tenant /\ CurrentStatus(c) \in statuses}

-----------------------------------------------------------------------------
Idle == [pc |-> "idle"]

Init ==
  /\ published = {}
  /\ reviews = {}
  /\ audit = [c \in Claims |-> << >>]
  /\ session = [w \in Workers |-> Idle]
  /\ walk \in [tenant : Tenants, statuses : {ACTIONABLE}, more : {FALSE}, older : {{}},
               seen : {<< >>}]
  /\ steady = {}

At(w, pc) == session[w].pc = pc
Goto(w, s) == session' = [session EXCEPT ![w] = s] /\ UNCHANGED <<db, walk, steady>>
Done(q, code, version) == [pc |-> "done", req |-> q, code |-> code, version |-> version]

\* The result of a run is committed, and all of its claims with it.
PublishClaims ==
  \E r \in RunIds :
    LET new == {c \in Claims : RunOf[c] = r} IN
    /\ ~(new \subseteq published)
    /\ published' = published \cup new
    /\ UNCHANGED <<reviews, audit, session, walk, steady>>

AskReview(w) ==
  /\ At(w, "idle")
  /\ \E q \in Request : Goto(w, [pc |-> "begun", req |-> q])

Visible(q) == q.claim \in published /\ TenantOf[RunOf[q.claim]] = q.tenant

\* The select joins the claim to its run, so that FOR UPDATE locks both rows.
Locked(r) == \E v \in Workers : At(v, "holding") /\ RunOf[session[v].req.claim] = r

\* The lock, then the fold in a statement of its own, which sees what was
\* committed before the lock was granted, then the version check.
LockClaim(w) ==
  /\ At(w, "begun")
  /\ LET q == session[w].req IN
     \/ ~Visible(q) /\ Goto(w, Done(q, "NOT_FOUND", 0))
     \/ /\ Visible(q) /\ ~Locked(RunOf[q.claim])
        /\ Goto(w, IF CurrentVersion(q.claim) = q.expected
                   THEN [pc |-> "holding", req |-> q, status |-> CurrentStatus(q.claim),
                         version |-> CurrentVersion(q.claim)]
                   ELSE Done(q, "VERSION_CONFLICT", 0))

\* One transaction appends the review and its audit event; (claim, version) is
\* unique, and a violation is an unhandled error.
CommitReview(w) ==
  /\ At(w, "holding")
  /\ LET s == session[w]
         c == s.req.claim
         version == s.version + 1 IN
     IF \E r \in ReviewsOf(c) : r.resulting_version = version
     THEN Goto(w, Done(s.req, "INTERNAL_ERROR", 0))
     ELSE /\ reviews' = reviews \cup
               {[claim |-> c, decision |-> s.req.decision, previous_status |-> s.status,
                 previous_version |-> s.version, resulting_version |-> version]}
          /\ audit' = [audit EXCEPT ![c] =
               Append(@, [decision |-> s.req.decision, previous_version |-> s.version,
                          resulting_version |-> version])]
          /\ session' = [session EXCEPT ![w] = Done(s.req, "OK", version)]
          /\ steady' = IF s.req.decision \notin walk.statuses THEN steady \ {c} ELSE steady
          /\ UNCHANGED <<published, walk>>

Deliver(w) == At(w, "done") /\ Goto(w, Idle)
Crash(w) == ~At(w, "idle") /\ Goto(w, Idle)

-----------------------------------------------------------------------------
(* Walking the queue: (created_at, id) descending, limit + 1 rows fetched  *)
(* to tell whether there is a next page, the cursor naming the last item.  *)

BeginWalk ==
  /\ ~walk.more
  /\ \E t \in Tenants, statuses \in Filters :
       /\ walk' = [tenant |-> t, statuses |-> statuses, more |-> TRUE, older |-> Claims,
                   seen |-> << >>]
       /\ steady' = Listed(t, statuses)
  /\ UNCHANGED <<db, session>>

\* The n newest claims of S, and S in the order of the queue.
Newest(S, n) == {c \in S : Cardinality({d \in S : d > c}) < n}
Descending(S) == [i \in 1 .. Cardinality(S) |->
                    CHOOSE c \in S : Cardinality({d \in S : d > c}) = i - 1]

\* Mutant: the cursor includes the item it names.
ReadPageInclusive ==
  /\ walk.more
  /\ LET matching == Listed(walk.tenant, walk.statuses) \cap walk.older
         fetched == Newest(matching, Limit + 1)
         page == Newest(fetched, Limit) IN
     walk' = [walk EXCEPT
       !.seen = @ \o Descending(page),
       !.more = Cardinality(fetched) > Limit,
       !.older = IF Cardinality(fetched) > Limit
                 THEN {c \in Claims : \A d \in page : c <= d} ELSE {}]
  /\ UNCHANGED <<db, session, steady>>

\* Mutant: the cursor names the row fetched beyond the page.
ReadPageSkipping ==
  /\ walk.more
  /\ LET matching == Listed(walk.tenant, walk.statuses) \cap walk.older
         fetched == Newest(matching, Limit + 1)
         page == Newest(fetched, Limit) IN
     walk' = [walk EXCEPT
       !.seen = @ \o Descending(page),
       !.more = Cardinality(fetched) > Limit,
       !.older = IF Cardinality(fetched) > Limit
                 THEN {c \in Claims : \A d \in fetched : c < d} ELSE {}]
  /\ UNCHANGED <<db, session, steady>>

ReadPage ==
  /\ walk.more
  /\ LET matching == Listed(walk.tenant, walk.statuses) \cap walk.older
         fetched == Newest(matching, Limit + 1)
         page == Newest(fetched, Limit) IN
     walk' = [walk EXCEPT
       !.seen = @ \o Descending(page),
       !.more = Cardinality(fetched) > Limit,
       !.older = IF Cardinality(fetched) > Limit
                 THEN {c \in Claims : \A d \in page : c < d} ELSE {}]
  /\ UNCHANGED <<db, session, steady>>

Next ==
  \/ PublishClaims
  \/ BeginWalk \/ ReadPage
  \/ \E w \in Workers :
       AskReview(w) \/ LockClaim(w) \/ CommitReview(w) \/ Deliver(w) \/ Crash(w)

Spec == Init /\ [][Next]_vars

-----------------------------------------------------------------------------
(* Properties.                                                             *)

\* The ledger of a claim is one unbroken chain: versions 1, 2, ... once each, and
\* every review supersedes exactly the state its predecessor left.
LedgerIsAChain ==
  \A r \in reviews :
    /\ r.resulting_version = r.previous_version + 1
    /\ \A s \in reviews :
         s.claim = r.claim /\ s.resulting_version = r.resulting_version => s = r
    /\ r.previous_version = 0 => r.previous_status = "UNREVIEWED"
    /\ r.previous_version > 0 =>
         \E s \in reviews : /\ s.claim = r.claim
                            /\ s.resulting_version = r.previous_version
                            /\ s.decision = r.previous_status

\* A claim is a versioned aggregate whose row is the fold over its reviews and
\* whose history is told by its audit trail: the live projection and the audit
\* trail agree at every moment.  (The commit of a result publishes several claims
\* in one step, so the instance follows one of them.)
WatchedRow ==
  [c \in {Watched} \cap published |-> [state |-> CurrentStatus(c), version |-> CurrentVersion(c)]]
WatchedHistory ==
  [c \in {Watched} \cap published |->
     [i \in 1 .. Len(audit[c]) + 1 |-> IF i = 1 THEN "UNREVIEWED" ELSE audit[c][i - 1].decision]]

History == INSTANCE VersionedHistory WITH
  Ids <- {Watched}, States <- SupplierIdentityReviewStatus, Initial <- {"UNREVIEWED"},
  Legal <- SupplierIdentityReviewStatus \X SupplierIdentityReviewDecision, First <- 0,
  row <- WatchedRow, history <- WatchedHistory

VersionedClaim == History!Spec

\* A walk lists no claim twice and goes from newer to older, whatever is reviewed
\* or published between its pages.
WalkNeverRepeats ==
  \A i, j \in 1 .. Len(walk.seen) : i < j => walk.seen[i] > walk.seen[j]

\* A walk that has ended has listed every claim that was in the queue when it began
\* and never left it: no reviewer's decision makes another claim be skipped.
WalkMissesNothingSteady ==
  ~walk.more => \A c \in steady : \E i \in 1 .. Len(walk.seen) : walk.seen[i] = c
=============================================================================
