----------------------- MODULE IdentityReviewsProofs -----------------------
(***************************************************************************)
(* Proofs about the ledger of IdentityReviews and about the walk through   *)
(* its queue, for every value of the constants.                            *)
(***************************************************************************)
EXTENDS IdentityReviews, FiniteSetTheorems, FunctionTheorems, SequenceTheorems, TLAPS

-----------------------------------------------------------------------------
(* The inductive invariant.  The ledger of a claim has the versions 1 to n *)
(* where n is the length of its audit trail, so that the fold is at n; a   *)
(* reviewer who holds the row lock still sees that fold, since the lock is *)
(* on the run, and whoever else reviews a claim of the run has to wait.    *)

LedgerTyped ==
  /\ reviews \subseteq ReviewRow
  /\ audit \in [Claims -> Seq(AuditEvent)]
  /\ session \in [Workers -> Session]

Depth(c) == Len(audit[c])

Numbered ==
  /\ \A r \in reviews : r.resulting_version \in 1 .. Depth(r.claim)
  /\ \A c \in Claims : \A n \in 1 .. Depth(c) :
       \E r \in reviews : r.claim = c /\ r.resulting_version = n

\* The state that the last review of the claim left.
OnTop(c, status, version) ==
  /\ version = Depth(c)
  /\ version = 0 => status = "UNREVIEWED"
  /\ version > 0 => \E r \in reviews : /\ r.claim = c /\ r.resulting_version = version
                                       /\ r.decision = status

HoldersSeeTheTop ==
  \A w \in Workers : At(w, "holding") =>
    OnTop(session[w].req.claim, session[w].status, session[w].version)

OneHolder ==
  \A v, w \in Workers :
    /\ At(v, "holding") /\ At(w, "holding")
    /\ RunOf[session[v].req.claim] = RunOf[session[w].req.claim]
    => v = w

\* No commit meets a version that is taken: the unhandled error never happens.
NoneCollides ==
  \A w \in Workers : At(w, "done") => session[w].code # "INTERNAL_ERROR"

ChainInv ==
  /\ LedgerTyped /\ Numbered /\ LedgerIsAChain
  /\ HoldersSeeTheTop /\ OneHolder /\ NoneCollides

-----------------------------------------------------------------------------
LEMMA SessionShapes ==
  ASSUME NEW s \in Session
  PROVE  /\ s.pc = "begun" => s.req \in Request
         /\ s.pc = "holding" => /\ s.req \in Request /\ s.version \in Nat
                                /\ s.status \in SupplierIdentityReviewStatus
         /\ s.pc = "done" => s.req \in Request
  BY DEF Session

LEMMA SessionsFormed ==
  /\ Idle \in Session
  /\ \A q \in Request : [pc |-> "begun", req |-> q] \in Session
  /\ \A q \in Request, code \in Code, n \in Nat : Done(q, code, n) \in Session
  /\ \A q \in Request, status \in SupplierIdentityReviewStatus, n \in Nat :
       [pc |-> "holding", req |-> q, status |-> status, version |-> n] \in Session
  BY DEF Session, Idle, Done

LEMMA DepthTyped ==
  ASSUME LedgerTyped, NEW c \in Claims
  PROVE  Depth(c) \in Nat
<1>1. audit[c] \in Seq(AuditEvent)
  BY DEF LedgerTyped
<1>2. QED
  BY <1>1 DEF Depth

\* The fold over the reviews finds the last one (current_supplier_identity_review_state).
LEMMA FoldIsOnTop ==
  ASSUME ChainInv, NEW c \in Claims
  PROVE  /\ OnTop(c, CurrentStatus(c), CurrentVersion(c))
         /\ CurrentVersion(c) \in Nat
         /\ CurrentStatus(c) \in SupplierIdentityReviewStatus
<1> DEFINE n == Depth(c)
<1>0. n \in Nat /\ LedgerTyped /\ Numbered
  BY DepthTyped DEF ChainInv
<1>1. CASE n = 0
  <2>1. ReviewsOf(c) = {}
    <3>1. SUFFICES ASSUME NEW r \in reviews, r.claim = c PROVE FALSE
      BY DEF ReviewsOf
    <3>2. r.resulting_version \in 1 .. n
      BY <1>0, <3>1 DEF Numbered
    <3> HIDE DEF n
    <3>3. QED
      BY <1>1, <3>2
  <2>2. CurrentVersion(c) = 0 /\ CurrentStatus(c) = "UNREVIEWED"
    BY <2>1 DEF CurrentVersion, CurrentStatus
  <2>3. QED
    BY <1>1, <2>2 DEF OnTop, SupplierIdentityReviewStatus
<1>2. CASE n > 0
  <2>1. n \in 1 .. n
    <3> HIDE DEF n
    <3>1. QED
      BY <1>0, <1>2
  <2>2. PICK top \in reviews : top.claim = c /\ top.resulting_version = n
    BY <1>0, <2>1 DEF Numbered
  <2>3. \A r \in ReviewsOf(c) : r.resulting_version \in 1 .. n
    BY <1>0 DEF Numbered, ReviewsOf
  <2> HIDE DEF n
  <2>4. top \in ReviewsOf(c) /\ \A s \in ReviewsOf(c) : s.resulting_version <= top.resulting_version
    BY <2>2, <2>3 DEF ReviewsOf
  <2>5. /\ Latest(c) \in ReviewsOf(c)
        /\ \A s \in ReviewsOf(c) : s.resulting_version <= Latest(c).resulting_version
    BY <2>4 DEF Latest
  <2>6. Latest(c).resulting_version = n
    BY <1>0, <2>2, <2>3, <2>4, <2>5
  <2>7. Latest(c) \in reviews /\ Latest(c).claim = c
    BY <2>5 DEF ReviewsOf
  <2>8. CurrentVersion(c) = n /\ CurrentStatus(c) = Latest(c).decision
    BY <2>4, <2>6 DEF CurrentVersion, CurrentStatus
  <2>9. Latest(c).decision \in SupplierIdentityReviewStatus
    BY <1>0, <2>7 DEF LedgerTyped, ReviewRow, SupplierIdentityReviewStatus
  <2>10. OnTop(c, CurrentStatus(c), CurrentVersion(c))
    BY <1>0, <1>2, <2>6, <2>7, <2>8 DEF OnTop, n
  <2>11. QED
    BY <1>0, <2>8, <2>9, <2>10
<1>3. n = 0 \/ n > 0
  <2> HIDE DEF n
  <2>1. QED
    BY <1>0
<1>4. QED
  BY <1>1, <1>2, <1>3

\* A step that leaves the ledger and moves one session outside the lock.
LEMMA SessionMoves ==
  ASSUME ChainInv, NEW w \in Workers, NEW s \in Session, Goto(w, s),
         s.pc # "holding", s.pc = "done" => s.code # "INTERNAL_ERROR"
  PROVE  ChainInv'
<1>1. /\ UNCHANGED <<reviews, audit>> /\ session' = [session EXCEPT ![w] = s]
      /\ session \in [Workers -> Session]
  BY DEF Goto, db, ChainInv, LedgerTyped
<1>2. /\ session'[w] = s /\ session' \in [Workers -> Session]
      /\ \A v \in Workers : v # w => session'[v] = session[v]
  BY <1>1
<1>3. LedgerTyped' /\ Numbered' /\ LedgerIsAChain'
  BY <1>1, <1>2 DEF ChainInv, LedgerTyped, Numbered, Depth, LedgerIsAChain
<1>4. HoldersSeeTheTop'
  BY <1>1, <1>2 DEF ChainInv, HoldersSeeTheTop, At, OnTop, Depth
<1>5. OneHolder' /\ NoneCollides'
  BY <1>1, <1>2 DEF ChainInv, OneHolder, NoneCollides, At
<1>6. QED
  BY <1>3, <1>4, <1>5 DEF ChainInv

LEMMA LockStep ==
  ASSUME ChainInv, NEW w \in Workers, LockClaim(w)
  PROVE  ChainInv'
<1> DEFINE q == session[w].req
           held == [pc |-> "holding", req |-> q, status |-> CurrentStatus(q.claim),
                    version |-> CurrentVersion(q.claim)]
<1>1. q \in Request /\ q.claim \in Claims /\ session \in [Workers -> Session]
  BY SessionShapes DEF LockClaim, At, ChainInv, LedgerTyped, Request
<1>2. ASSUME NEW code \in {"NOT_FOUND", "VERSION_CONFLICT"}, Goto(w, Done(q, code, 0))
      PROVE  ChainInv'
  <2>1. Done(q, code, 0) \in Session
    BY <1>1, SessionsFormed DEF Code
  <2>2. Done(q, code, 0).pc = "done" /\ Done(q, code, 0).code = code
    BY DEF Done
  <2>3. QED
    BY <1>2, <2>1, <2>2, SessionMoves
<1>3. CASE ~Locked(RunOf[q.claim]) /\ Goto(w, held)
  <2>1. held \in Session /\ held.pc = "holding" /\ held.req = q
        /\ held.status = CurrentStatus(q.claim) /\ held.version = CurrentVersion(q.claim)
    BY <1>1, FoldIsOnTop, SessionsFormed
  <2>2. UNCHANGED <<reviews, audit>> /\ session' = [session EXCEPT ![w] = held]
    BY <1>3 DEF Goto, db
  <2> HIDE DEF held
  <2>3. /\ session'[w] = held /\ session' \in [Workers -> Session]
        /\ \A v \in Workers : v # w => session'[v] = session[v]
    BY <1>1, <2>1, <2>2
  <2>4. LedgerTyped' /\ Numbered' /\ LedgerIsAChain'
    BY <2>2, <2>3 DEF ChainInv, LedgerTyped, Numbered, Depth, LedgerIsAChain
  <2>5. OnTop(q.claim, held.status, held.version)
    BY <1>1, <2>1, FoldIsOnTop
  <2>6. HoldersSeeTheTop'
    BY <2>1, <2>2, <2>3, <2>5 DEF ChainInv, HoldersSeeTheTop, At, OnTop, Depth
  <2>7. OneHolder' /\ NoneCollides'
    BY <1>3, <2>1, <2>3 DEF ChainInv, OneHolder, NoneCollides, At, Locked
  <2>8. QED
    BY <2>4, <2>6, <2>7 DEF ChainInv
<1>4. QED
  BY <1>2, <1>3 DEF LockClaim

\* The review is put on top of the ledger of its claim.
LEMMA CommitStep ==
  ASSUME ChainInv, NEW w \in Workers, CommitReview(w)
  PROVE  ChainInv'
<1>0. PICK q, c, old :
        q = session[w].req /\ c = session[w].req.claim /\ old = session[w].version
  OBVIOUS
<1> DEFINE new == [claim |-> c, decision |-> q.decision, previous_status |-> session[w].status,
                   previous_version |-> old, resulting_version |-> old + 1]
           event == [decision |-> q.decision, previous_version |-> old, resulting_version |-> old + 1]
<1>1. /\ q \in Request /\ c \in Claims /\ q.decision \in SupplierIdentityReviewDecision
      /\ session[w].status \in SupplierIdentityReviewStatus
      /\ session \in [Workers -> Session] /\ At(w, "holding")
  BY <1>0, SessionShapes, ClaimsAssumption
     DEF CommitReview, At, ChainInv, LedgerTyped, Request
<1>2. old = Depth(c) /\ old \in Nat /\ OnTop(c, session[w].status, old)
  BY <1>0, <1>1, DepthTyped DEF ChainInv, HoldersSeeTheTop, OnTop
<1>3. \A r \in ReviewsOf(c) : r.resulting_version # old + 1
  <2>1. \A r \in ReviewsOf(c) : r.resulting_version \in 1 .. old
    BY <1>2 DEF ChainInv, Numbered, ReviewsOf
  <2>2. QED
    BY <1>2, <2>1
<1>4. /\ reviews' = reviews \cup {new}
      /\ audit' = [audit EXCEPT ![c] = Append(audit[c], event)]
      /\ session' = [session EXCEPT ![w] = Done(q, "OK", old + 1)]
  BY <1>0, <1>3 DEF CommitReview
<1>5. /\ new \in ReviewRow /\ event \in AuditEvent
      /\ new.claim = c /\ new.decision = q.decision /\ new.previous_status = session[w].status
      /\ new.previous_version = old /\ new.resulting_version = old + 1
  BY <1>1, <1>2 DEF ReviewRow, AuditEvent
<1>6. /\ Done(q, "OK", old + 1) \in Session
      /\ Done(q, "OK", old + 1).pc = "done" /\ Done(q, "OK", old + 1).code = "OK"
  BY <1>1, <1>2, SessionsFormed DEF Code, Done
<1> DEFINE answered == Done(q, "OK", old + 1)
<1> HIDE DEF new, event, answered
<1>7. /\ session'[w].pc = "done" /\ session'[w].code = "OK"
      /\ session' \in [Workers -> Session]
      /\ \A v \in Workers : v # w => session'[v] = session[v]
  <2>1. session' = [session EXCEPT ![w] = answered] /\ answered \in Session
        /\ answered.pc = "done" /\ answered.code = "OK"
    BY <1>4, <1>6 DEF answered
  <2>2. QED
    BY <1>1, <2>1
<1>8. /\ audit'[c] \in Seq(AuditEvent) /\ Depth(c)' = old + 1
      /\ \A d \in Claims : d # c => audit'[d] = audit[d]
      /\ audit' \in [Claims -> Seq(AuditEvent)]
  <2>1. audit \in [Claims -> Seq(AuditEvent)] /\ audit[c] \in Seq(AuditEvent)
    BY <1>1 DEF ChainInv, LedgerTyped
  <2>2. Append(audit[c], event) \in Seq(AuditEvent) /\ Len(Append(audit[c], event)) = Len(audit[c]) + 1
    BY <1>5, <2>1
  <2>3. QED
    BY <1>1, <1>2, <1>4, <2>1, <2>2 DEF Depth
<1>9. LedgerTyped'
  BY <1>4, <1>5, <1>7, <1>8 DEF ChainInv, LedgerTyped
<1>10. Numbered'
  <2>1. ASSUME NEW r \in reviews'
        PROVE  r.resulting_version \in 1 .. Depth(r.claim)'
    <3>1. CASE r = new
      BY <1>2, <1>5, <1>8, <3>1
    <3>2. CASE r # new
      <4>1. r \in reviews /\ r.resulting_version \in 1 .. Depth(r.claim) /\ r.claim \in Claims
        BY <1>4, <2>1, <3>2 DEF ChainInv, Numbered, LedgerTyped, ReviewRow
      <4>2. CASE r.claim = c
        <5>1. r.resulting_version \in 1 .. old
          BY <1>2, <4>1, <4>2
        <5>2. QED
          BY <1>2, <1>8, <4>2, <5>1
      <4>3. CASE r.claim # c
        BY <1>8, <4>1, <4>3 DEF Depth
      <4>4. QED
        BY <4>2, <4>3
    <3>3. QED
      BY <3>1, <3>2
  <2>2. ASSUME NEW d \in Claims, NEW n \in 1 .. Depth(d)'
        PROVE  \E r \in reviews' : r.claim = d /\ r.resulting_version = n
    <3>1. CASE d # c
      <4>1. n \in 1 .. Depth(d)
        BY <1>8, <2>2, <3>1 DEF Depth
      <4>2. PICK r \in reviews : r.claim = d /\ r.resulting_version = n
        BY <4>1 DEF ChainInv, Numbered
      <4>3. QED
        BY <1>4, <4>2
    <3>2. CASE d = c /\ n = old + 1
      BY <1>4, <1>5, <3>2
    <3>3. CASE d = c /\ n # old + 1
      <4>1. n \in 1 .. old
        BY <1>2, <1>8, <2>2, <3>3
      <4>2. PICK r \in reviews : r.claim = d /\ r.resulting_version = n
        BY <1>2, <3>3, <4>1 DEF ChainInv, Numbered
      <4>3. QED
        BY <1>4, <4>2
    <3>4. QED
      BY <3>1, <3>2, <3>3
  <2>3. QED
    BY <2>1, <2>2 DEF Numbered
<1>11. LedgerIsAChain'
  <2>1. ASSUME NEW r \in reviews, r.claim = c
        PROVE  r.resulting_version # old + 1
    BY <1>3, <2>1 DEF ReviewsOf
  <2>2. ASSUME NEW r \in reviews'
        PROVE  /\ r.resulting_version = r.previous_version + 1
               /\ \A s \in reviews' :
                    s.claim = r.claim /\ s.resulting_version = r.resulting_version => s = r
    BY <1>4, <1>5, <2>1, <2>2 DEF ChainInv, LedgerIsAChain
  <2>3. ASSUME NEW r \in reviews'
        PROVE  /\ r.previous_version = 0 => r.previous_status = "UNREVIEWED"
               /\ r.previous_version > 0 =>
                    \E s \in reviews' : /\ s.claim = r.claim
                                        /\ s.resulting_version = r.previous_version
                                        /\ s.decision = r.previous_status
    <3>1. CASE r = new
      BY <1>2, <1>4, <1>5, <3>1 DEF OnTop
    <3>2. CASE r \in reviews
      BY <1>4, <3>2 DEF ChainInv, LedgerIsAChain
    <3>3. QED
      BY <1>4, <3>1, <3>2
  <2>4. QED
    BY <2>2, <2>3 DEF LedgerIsAChain
<1>12. HoldersSeeTheTop'
  <2> SUFFICES ASSUME NEW v \in Workers, At(v, "holding")'
               PROVE  OnTop(session[v].req.claim, session[v].status, session[v].version)'
    BY DEF HoldersSeeTheTop
  <2>1. v # w /\ session'[v] = session[v] /\ At(v, "holding")
    BY <1>7 DEF At
  <2>2. session[v].req.claim # c /\ session[v].req.claim \in Claims
    <3>1. session[v].req.claim \in Claims
      BY <1>1, <2>1, SessionShapes DEF At, Request
    <3>2. QED
      BY <1>0, <1>1, <2>1, <3>1 DEF ChainInv, OneHolder
  <2>3. OnTop(session[v].req.claim, session[v].status, session[v].version)
    BY <2>1 DEF ChainInv, HoldersSeeTheTop
  <2>4. QED
    BY <1>4, <1>8, <2>1, <2>2, <2>3 DEF OnTop, Depth
<1>13. OneHolder' /\ NoneCollides'
  BY <1>7 DEF ChainInv, OneHolder, NoneCollides, At
<1>14. QED
  BY <1>9, <1>10, <1>11, <1>12, <1>13 DEF ChainInv

LEMMA ChainInvInit == Init => ChainInv
<1> SUFFICES ASSUME Init PROVE ChainInv
  OBVIOUS
<1>1. /\ reviews = {} /\ audit = [x \in Claims |-> << >>]
      /\ session = [w \in Workers |-> Idle]
  BY DEF Init
<1>2. LedgerTyped
  BY <1>1, SessionsFormed DEF LedgerTyped
<1>3. Numbered /\ LedgerIsAChain
  BY <1>1 DEF Numbered, Depth, LedgerIsAChain
<1>4. HoldersSeeTheTop /\ OneHolder /\ NoneCollides
  BY <1>1 DEF HoldersSeeTheTop, OneHolder, NoneCollides, At, Idle
<1>5. QED
  BY <1>2, <1>3, <1>4 DEF ChainInv

LEMMA ChainInvNext == ChainInv /\ [Next]_vars => ChainInv'
<1> SUFFICES ASSUME ChainInv, [Next]_vars PROVE ChainInv'
  OBVIOUS
<1>1. CASE UNCHANGED <<reviews, audit, session>>
  BY <1>1 DEF ChainInv, LedgerTyped, Numbered, Depth, LedgerIsAChain, HoldersSeeTheTop, OnTop,
     OneHolder, NoneCollides, At
<1>2. CASE UNCHANGED vars \/ PublishClaims \/ BeginWalk \/ ReadPage
  BY <1>1, <1>2 DEF vars, db, PublishClaims, BeginWalk, ReadPage
<1>3. ASSUME NEW w \in Workers, AskReview(w)
      PROVE  ChainInv'
  <2>1. PICK q \in Request : Goto(w, [pc |-> "begun", req |-> q])
    BY <1>3 DEF AskReview
  <2>2. QED
    BY <2>1, SessionsFormed, SessionMoves
<1>4. ASSUME NEW w \in Workers, LockClaim(w)
      PROVE  ChainInv'
  BY <1>4, LockStep
<1>5. ASSUME NEW w \in Workers, CommitReview(w)
      PROVE  ChainInv'
  BY <1>5, CommitStep
<1>6. ASSUME NEW w \in Workers, Deliver(w) \/ Crash(w)
      PROVE  ChainInv'
  <2>1. Goto(w, Idle) /\ Idle \in Session /\ Idle.pc = "idle"
    BY <1>6, SessionsFormed DEF Deliver, Crash, Idle
  <2>2. QED
    BY <2>1, SessionMoves
<1>7. QED
  BY <1>2, <1>3, <1>4, <1>5, <1>6 DEF Next

LEMMA ChainInvHolds == Spec => []ChainInv
  BY ChainInvInit, ChainInvNext, PTL DEF Spec

\* The ledger of a claim is one unbroken chain, whoever reviews it at the same time
\* and whichever of their processes die: versions 1, 2, ... once each, and every
\* review supersedes the state its predecessor left.
THEOREM LedgersAreChains == Spec => []LedgerIsAChain
<1>1. ChainInv => LedgerIsAChain
  BY DEF ChainInv
<1>2. QED
  BY <1>1, ChainInvHolds, PTL

\* Under the row locks the unique constraint on claim and version is never violated:
\* no reviewer meets the unhandled error.
THEOREM ReviewsNeverCollide == Spec => []NoneCollides
<1>1. ChainInv => NoneCollides
  BY DEF ChainInv
<1>2. QED
  BY <1>1, ChainInvHolds, PTL

-----------------------------------------------------------------------------
(* Refinement.                                                             *)

\* Only a published claim is reviewed.
PublishedFirst ==
  /\ published \subseteq Claims
  /\ \A w \in Workers : At(w, "holding") => session[w].req.claim \in published
  /\ \A c \in Claims : c \notin published => Depth(c) = 0

\* What a granted review appends to the ledger and to the audit trail.
LEMMA ReviewIsAppended ==
  ASSUME ChainInv, NEW w \in Workers, CommitReview(w), NEW c, c = session[w].req.claim
  PROVE  \E review \in ReviewRow, event \in AuditEvent :
           /\ c \in Claims /\ review.claim = c /\ review.resulting_version = Depth(c) + 1
           /\ review.decision = event.decision
           /\ reviews' = reviews \cup {review}
           /\ audit' = [audit EXCEPT ![c] = Append(audit[c], event)]
           /\ session'[w].pc = "done" /\ At(w, "holding")
           /\ \A v \in Workers : v # w => session'[v] = session[v]
           /\ UNCHANGED published
           /\ steady' = IF review.decision \notin walk.statuses THEN steady \ {c} ELSE steady
           /\ UNCHANGED walk
<1>0. PICK q, old : q = session[w].req /\ old = session[w].version
  OBVIOUS
<1> DEFINE new == [claim |-> c, decision |-> q.decision, previous_status |-> session[w].status,
                   previous_version |-> old, resulting_version |-> old + 1]
           event == [decision |-> q.decision, previous_version |-> old, resulting_version |-> old + 1]
<1>1. /\ q \in Request /\ c \in Claims /\ q.decision \in SupplierIdentityReviewDecision
      /\ session[w].status \in SupplierIdentityReviewStatus
      /\ session \in [Workers -> Session] /\ At(w, "holding")
  BY <1>0, SessionShapes, ClaimsAssumption
     DEF CommitReview, At, ChainInv, LedgerTyped, Request
<1>2. old = Depth(c) /\ old \in Nat
  BY <1>0, <1>1, DepthTyped DEF ChainInv, HoldersSeeTheTop, OnTop
<1>3. \A r \in ReviewsOf(c) : r.resulting_version # old + 1
  <2>1. \A r \in ReviewsOf(c) : r.resulting_version \in 1 .. old
    BY <1>2 DEF ChainInv, Numbered, ReviewsOf
  <2>. QED
    BY <1>2, <2>1
<1>4. /\ reviews' = reviews \cup {new}
      /\ audit' = [audit EXCEPT ![c] = Append(audit[c], event)]
      /\ session' = [session EXCEPT ![w] = Done(q, "OK", old + 1)]
      /\ steady' = IF new.decision \notin walk.statuses THEN steady \ {c} ELSE steady
      /\ UNCHANGED <<published, walk>>
  BY <1>0, <1>3 DEF CommitReview
<1>5. /\ new \in ReviewRow /\ event \in AuditEvent
      /\ new.claim = c /\ new.decision = event.decision /\ new.resulting_version = old + 1
  BY <1>1, <1>2 DEF ReviewRow, AuditEvent
<1>6. Done(q, "OK", old + 1).pc = "done"
  BY DEF Done
<1> DEFINE answered == Done(q, "OK", old + 1)
<1> HIDE DEF new, event, answered
<1>7. session'[w].pc = "done" /\ \A v \in Workers : v # w => session'[v] = session[v]
  <2>1. session' = [session EXCEPT ![w] = answered] /\ answered.pc = "done"
    BY <1>4, <1>6 DEF answered
  <2>. QED
    BY <1>1, <2>1
<1>. QED
  BY <1>1, <1>2, <1>4, <1>5, <1>7

LEMMA PublishedStep ==
  ASSUME ChainInv, PublishedFirst, [Next]_vars
  PROVE  PublishedFirst'
<1>1. CASE UNCHANGED vars \/ BeginWalk \/ ReadPage
  <2>1. UNCHANGED <<published, audit, session>>
    BY <1>1 DEF vars, db, BeginWalk, ReadPage
  <2>. QED
    BY <2>1 DEF PublishedFirst, At, Depth
<1>2. CASE PublishClaims
  BY <1>2 DEF PublishClaims, PublishedFirst, At, Depth
<1>3. ASSUME NEW w \in Workers, NEW s, Goto(w, s),
             s.pc = "holding" => s.req.claim \in published
      PROVE  PublishedFirst'
  <2>1. UNCHANGED <<published, audit>> /\ session' = [session EXCEPT ![w] = s]
        /\ session \in [Workers -> Session]
    BY <1>3 DEF Goto, db, ChainInv, LedgerTyped
  <2>2. session'[w] = s /\ \A v \in Workers : v # w => session'[v] = session[v]
    BY <2>1
  <2>. QED
    BY <1>3, <2>1, <2>2 DEF PublishedFirst, At, Depth
<1>4. ASSUME NEW w \in Workers, AskReview(w) \/ LockClaim(w) \/ Deliver(w) \/ Crash(w)
      PROVE  PublishedFirst'
  <2>1. CASE AskReview(w)
    BY <1>3, <2>1 DEF AskReview
  <2>2. CASE LockClaim(w)
    <3> DEFINE q == session[w].req
               held == [pc |-> "holding", req |-> q, status |-> CurrentStatus(q.claim),
                        version |-> CurrentVersion(q.claim)]
    <3>1. \/ \E code : Goto(w, Done(q, code, 0))
          \/ q.claim \in published /\ Goto(w, held)
      BY <2>2 DEF LockClaim, Visible
    <3>2. \A code : Done(q, code, 0).pc # "holding"
      BY DEF Done
    <3>3. held.req.claim = q.claim
      OBVIOUS
    <3> HIDE DEF held
    <3>. QED
      BY <1>3, <3>1, <3>2, <3>3
  <2>3. CASE Deliver(w) \/ Crash(w)
    BY <1>3, <2>3 DEF Deliver, Crash, Idle
  <2>. QED
    BY <1>4, <2>1, <2>2, <2>3
<1>5. ASSUME NEW w \in Workers, CommitReview(w)
      PROVE  PublishedFirst'
  <2>0. PICK c : c = session[w].req.claim
    OBVIOUS
  <2>1. PICK review \in ReviewRow, event \in AuditEvent :
          /\ c \in Claims /\ review.claim = c /\ review.resulting_version = Depth(c) + 1
          /\ review.decision = event.decision
          /\ reviews' = reviews \cup {review}
          /\ audit' = [audit EXCEPT ![c] = Append(audit[c], event)]
          /\ session'[w].pc = "done" /\ At(w, "holding")
          /\ \A v \in Workers : v # w => session'[v] = session[v]
          /\ UNCHANGED published
    BY <1>5, <2>0, ReviewIsAppended
  <2>2. c \in published /\ audit \in [Claims -> Seq(AuditEvent)]
    BY <2>0, <2>1 DEF PublishedFirst, ChainInv, LedgerTyped
  <2>3. \A d \in Claims : d # c => audit'[d] = audit[d]
    BY <2>1, <2>2
  <2>. QED
    BY <2>1, <2>2, <2>3 DEF PublishedFirst, At, Depth
<1>. QED
  BY <1>1, <1>2, <1>4, <1>5 DEF Next

LEMMA PublishedInit == Init => PublishedFirst
  BY DEF Init, PublishedFirst, At, Idle, Depth

\* The fold of every claim, as a formula of the state before or after a step.
FoldsOnTop == \A c \in Claims : OnTop(c, CurrentStatus(c), CurrentVersion(c))

LEMMA FoldFound == ChainInv => FoldsOnTop
  BY FoldIsOnTop DEF FoldsOnTop

\* A committed review of the claim is one step of its abstract history.
LEMMA ReviewAdvances ==
  ASSUME ChainInv, ChainInv', PublishedFirst, NEW w \in Workers, CommitReview(w),
         session[w].req.claim = Watched
  PROVE  History!Advance(Watched)
<1> DEFINE c == Watched
<1>1. PICK review \in ReviewRow, event \in AuditEvent :
           /\ c \in Claims /\ review.claim = c /\ review.resulting_version = Depth(c) + 1
           /\ review.decision = event.decision
           /\ reviews' = reviews \cup {review}
           /\ audit' = [audit EXCEPT ![c] = Append(audit[c], event)]
           /\ At(w, "holding") /\ UNCHANGED published
  BY ReviewIsAppended
<1>2. c \in published /\ audit[c] \in Seq(AuditEvent) /\ Depth(c) \in Nat
      /\ audit \in [Claims -> Seq(AuditEvent)]
  BY <1>1, DepthTyped DEF PublishedFirst, ChainInv, LedgerTyped
<1>3. event.decision \in SupplierIdentityReviewDecision
      /\ event.decision \in SupplierIdentityReviewStatus
  BY <1>1 DEF AuditEvent, SupplierIdentityReviewStatus
<1>4. OnTop(c, CurrentStatus(c), CurrentVersion(c))'
  <2>1. ChainInv' => FoldsOnTop'
    BY FoldFound, PTL
  <2>. QED
    BY <1>1, <2>1 DEF FoldsOnTop
<1>5. /\ audit'[c] = Append(audit[c], event) /\ Depth(c)' = Depth(c) + 1
  BY <1>1, <1>2 DEF Depth
<1>6. CurrentVersion(c)' = Depth(c) + 1
  BY <1>1, <1>4, <1>5 DEF OnTop
<1>7. CurrentStatus(c)' = event.decision
  <2>1. PICK r \in reviews' : /\ r.claim = c /\ r.resulting_version = Depth(c) + 1
                              /\ r.decision = CurrentStatus(c)'
    BY <1>1, <1>2, <1>4, <1>5, <1>6 DEF OnTop
  <2>2. review \in reviews'
    BY <1>1
  <2>3. r = review
    BY <1>1, <2>1, <2>2 DEF ChainInv, LedgerIsAChain
  <2>. QED
    BY <1>1, <2>1, <2>3
<1>8. /\ OnTop(c, CurrentStatus(c), CurrentVersion(c))
      /\ CurrentStatus(c) \in SupplierIdentityReviewStatus
  BY <1>1, FoldIsOnTop
<1>9. CurrentVersion(c) = Depth(c)
  BY <1>8 DEF OnTop
<1>10. /\ WatchedRow = [x \in {c} |-> [state |-> CurrentStatus(c), version |-> Depth(c)]]
       /\ WatchedRow' = [x \in {c} |-> [state |-> event.decision, version |-> Depth(c) + 1]]
  <2>1. {c} \cap published = {c} /\ {c} \cap published' = {c}
    BY <1>1, <1>2
  <2>. QED
    BY <1>6, <1>7, <1>9, <2>1 DEF WatchedRow
<1> DEFINE Told(trail) ==
      [i \in 1 .. Len(trail) + 1 |-> IF i = 1 THEN "UNREVIEWED" ELSE trail[i - 1].decision]
<1>11. /\ WatchedHistory = [x \in {c} |-> Told(audit[c])]
       /\ WatchedHistory' = [x \in {c} |-> Told(audit'[c])]
  <2>1. {c} \cap published = {c} /\ {c} \cap published' = {c}
    BY <1>1, <1>2
  <2>. QED
    BY <2>1 DEF WatchedHistory
<1>12. Told(audit'[c]) = Append(Told(audit[c]), event.decision)
  <2> DEFINE old == audit[c]
             new == audit'[c]
  <2>1. /\ Len(old) \in Nat /\ Len(new) = Len(old) + 1 /\ new[Len(old) + 1] = event
        /\ \A i \in 1 .. Len(old) : new[i] = old[i]
    BY <1>2, <1>5
  <2> DEFINE Before(i) == IF i = 1 THEN "UNREVIEWED" ELSE old[i - 1].decision
             After(i) == IF i = 1 THEN "UNREVIEWED" ELSE new[i - 1].decision
  <2>2. PICK k \in Nat : k = Len(old)
    BY <2>1
  <2>3. (\A i \in 1 .. k + 1 : After(i) = Before(i)) /\ After(k + 2) = event.decision
    <3>1. ASSUME NEW i \in 1 .. k + 1, i # 1 PROVE i - 1 \in 1 .. Len(old)
      BY <2>2, <3>1
    <3>2. k + 2 # 1 /\ (k + 2) - 1 = Len(old) + 1
      BY <2>2
    <3>. QED
      BY <2>1, <3>1, <3>2
  <2>4. /\ Told(old) = [i \in 1 .. k + 1 |-> Before(i)]
        /\ Told(new) = [i \in 1 .. k + 2 |-> After(i)]
    BY <2>1, <2>2
  <2> HIDE DEF Before, After
  <2>5. [i \in 1 .. k + 2 |-> After(i)] = Append([i \in 1 .. k + 1 |-> Before(i)], event.decision)
    BY <2>3
  <2> HIDE DEF Told
  <2>. QED
    BY <2>4, <2>5
<1> HIDE DEF Told
<1>13. /\ WatchedRow' = [WatchedRow EXCEPT ![c] = [state |-> event.decision,
                                                   version |-> WatchedRow[c].version + 1]]
       /\ c \in DOMAIN WatchedRow /\ WatchedRow[c].state = CurrentStatus(c)
  BY <1>10
<1>14. WatchedHistory' = [WatchedHistory EXCEPT ![c] = Append(WatchedHistory[c], event.decision)]
  BY <1>11, <1>12
<1>15. <<WatchedRow[c].state, event.decision>> \in
         SupplierIdentityReviewStatus \X SupplierIdentityReviewDecision
  BY <1>3, <1>8, <1>13
<1>. QED
  BY <1>3, <1>13, <1>14, <1>15 DEF History!Advance

\* Its publication opens the history.
LEMMA PublicationOpens ==
  ASSUME ChainInv, PublishedFirst, PublishClaims, Watched \in published' \ published
  PROVE  History!Open(Watched)
<1> DEFINE c == Watched
<1>1. UNCHANGED <<reviews, audit>> /\ c \in Claims /\ Depth(c) = 0
  BY ClaimsAssumption DEF PublishClaims, PublishedFirst
<1>2. CurrentVersion(c) = 0 /\ CurrentStatus(c) = "UNREVIEWED"
  BY <1>1, FoldIsOnTop DEF OnTop
<1>3. CurrentVersion(c)' = 0 /\ CurrentStatus(c)' = "UNREVIEWED"
  BY <1>1, <1>2 DEF CurrentVersion, CurrentStatus, Latest, ReviewsOf
<1>4. {c} \cap published = {} /\ {c} \cap published' = {c}
  OBVIOUS
<1>5. /\ DOMAIN WatchedRow = {} /\ DOMAIN WatchedHistory = {}
      /\ WatchedRow' = [x \in {c} |-> [state |-> "UNREVIEWED", version |-> 0]]
  BY <1>3, <1>4 DEF WatchedRow, WatchedHistory
<1>6. WatchedHistory' = [x \in {c} |-> <<"UNREVIEWED">>]
  <2>1. Len(audit'[c]) = 0
    BY <1>1 DEF Depth
  <2>2. WatchedHistory' = [x \in {c} |-> [i \in 1 .. 1 |-> "UNREVIEWED"]]
    BY <1>4, <2>1 DEF WatchedHistory
  <2>3. [i \in 1 .. 1 |-> "UNREVIEWED"] = <<"UNREVIEWED">>
    OBVIOUS
  <2>. QED
    BY <2>2, <2>3
<1>. QED
  BY <1>5, <1>6 DEF History!Open, History!With

LEMMA StepRefines ==
  ASSUME ChainInv, ChainInv', PublishedFirst, [Next]_vars
  PROVE  [History!Next]_(History!vars)
<1>1. ASSUME UNCHANGED <<reviews, audit>>, Watched \in published <=> Watched \in published'
      PROVE  UNCHANGED History!vars
  <2>1. {Watched} \cap published = {Watched} \cap published'
    BY <1>1
  <2>2. /\ CurrentStatus(Watched)' = CurrentStatus(Watched)
        /\ CurrentVersion(Watched)' = CurrentVersion(Watched)
    BY <1>1 DEF CurrentStatus, CurrentVersion, Latest, ReviewsOf
  <2>3. WatchedRow' = WatchedRow
    BY <2>1, <2>2 DEF WatchedRow
  <2>4. WatchedHistory' = WatchedHistory
    BY <1>1, <2>1 DEF WatchedHistory
  <2>. QED
    BY <2>3, <2>4 DEF History!vars
<1>2. CASE UNCHANGED vars \/ BeginWalk \/ ReadPage
  BY <1>1, <1>2 DEF vars, db, BeginWalk, ReadPage
<1>3. CASE PublishClaims
  <2>1. UNCHANGED <<reviews, audit>> /\ published \subseteq published'
    BY <1>3 DEF PublishClaims
  <2>2. CASE Watched \in published' \ published
    BY <1>3, <2>2, PublicationOpens DEF History!Next
  <2>3. CASE Watched \notin published' \ published
    BY <1>1, <2>1, <2>3
  <2>. QED
    BY <2>2, <2>3
<1>4. ASSUME NEW w \in Workers, AskReview(w) \/ LockClaim(w) \/ Deliver(w) \/ Crash(w)
      PROVE  UNCHANGED History!vars
  <2>1. UNCHANGED db
    BY <1>4 DEF AskReview, LockClaim, Deliver, Crash, Goto
  <2>. QED
    BY <1>1, <2>1 DEF db
<1>5. ASSUME NEW w \in Workers, CommitReview(w)
      PROVE  [History!Next]_(History!vars)
  <2>1. CASE session[w].req.claim = Watched
    BY <1>5, <2>1, ReviewAdvances DEF History!Next
  <2>2. CASE session[w].req.claim # Watched
    <3>0. PICK c : c = session[w].req.claim /\ c # Watched
      BY <2>2
    <3>1. PICK review \in ReviewRow, event \in AuditEvent :
            /\ c \in Claims /\ review.claim = c /\ review.resulting_version = Depth(c) + 1
            /\ review.decision = event.decision
            /\ reviews' = reviews \cup {review}
            /\ audit' = [audit EXCEPT ![c] = Append(audit[c], event)]
            /\ session'[w].pc = "done" /\ At(w, "holding")
            /\ \A v \in Workers : v # w => session'[v] = session[v]
            /\ UNCHANGED published
      BY <1>5, <3>0, ReviewIsAppended
    <3>2. ReviewsOf(Watched)' = ReviewsOf(Watched)
      BY <3>0, <3>1 DEF ReviewsOf
    <3>3. /\ CurrentStatus(Watched)' = CurrentStatus(Watched)
          /\ CurrentVersion(Watched)' = CurrentVersion(Watched)
      BY <3>2 DEF CurrentStatus, CurrentVersion, Latest
    <3>4. audit'[Watched] = audit[Watched]
      BY <3>0, <3>1, ClaimsAssumption DEF ChainInv, LedgerTyped
    <3>5. WatchedRow' = WatchedRow
      BY <3>1, <3>3 DEF WatchedRow
    <3>6. WatchedHistory' = WatchedHistory
      <4> DEFINE Told(trail) ==
            [i \in 1 .. Len(trail) + 1 |-> IF i = 1 THEN "UNREVIEWED" ELSE trail[i - 1].decision]
      <4>1. /\ WatchedHistory = [d \in {Watched} \cap published |-> Told(audit[d])]
            /\ WatchedHistory' = [d \in {Watched} \cap published |-> Told(audit'[d])]
        BY <3>1 DEF WatchedHistory
      <4>2. \A d \in {Watched} \cap published : Told(audit'[d]) = Told(audit[d])
        BY <3>4
      <4> HIDE DEF Told
      <4>. QED
        BY <4>1, <4>2
    <3>. QED
      BY <3>5, <3>6 DEF History!vars
  <2>. QED
    BY <2>1, <2>2
<1>. QED
  BY <1>2, <1>3, <1>4, <1>5 DEF Next

\* A claim is a versioned aggregate, although its state is stored nowhere: the fold
\* over its reviews is its row, its audit trail is its history, and each review that
\* is committed is one step of both.
THEOREM ClaimsImplementHistory == Spec => VersionedClaim
<1>1. Init => History!Init
  <2> SUFFICES ASSUME Init PROVE History!Init
    OBVIOUS
  <2>1. {Watched} \cap published = {}
    BY DEF Init
  <2>2. /\ WatchedRow = [x \in {} |-> [state |-> CurrentStatus(x), version |-> CurrentVersion(x)]]
        /\ DOMAIN WatchedHistory = {}
        /\ WatchedHistory = [x \in DOMAIN WatchedHistory |-> WatchedHistory[x]]
    BY <2>1 DEF WatchedRow, WatchedHistory
  <2>. QED
    BY <2>2 DEF History!Init, History!EmptyTable
<1>2. ChainInv /\ ChainInv' /\ PublishedFirst /\ [Next]_vars => [History!Next]_(History!vars)
  BY StepRefines
<1>3. ChainInv /\ PublishedFirst /\ [Next]_vars => PublishedFirst'
  BY PublishedStep
<1>. QED
  BY <1>1, <1>2, <1>3, PublishedInit, ChainInvHolds, PTL DEF Spec, VersionedClaim, History!Spec

-----------------------------------------------------------------------------
(* The order of the queue: what a page takes and in which order.           *)

Above(S, c) == {d \in S : d > c}
Rank(S, c) == Cardinality(Above(S, c))

\* A claim has fewer above it than the set has claims, and the higher of two fewer
\* than the lower.
LEMMA RanksOrdered ==
  ASSUME NEW S \in SUBSET Nat, IsFiniteSet(S)
  PROVE  /\ \A c \in S : Rank(S, c) \in 0 .. Cardinality(S) - 1
         /\ \A c \in S : \A d \in S : d > c => Rank(S, d) < Rank(S, c)
<1>0. Cardinality(S) \in Nat
  BY FS_CardinalityType
<1>1. ASSUME NEW c \in S PROVE IsFiniteSet(Above(S, c)) /\ Rank(S, c) \in Nat
  <2>1. Above(S, c) \in SUBSET S
    BY DEF Above
  <2>. QED
    BY <2>1, FS_Subset, FS_CardinalityType DEF Rank
<1>2. ASSUME NEW c \in S PROVE Rank(S, c) \in 0 .. Cardinality(S) - 1
  <2>1. Above(S, c) \in SUBSET S /\ Above(S, c) # S
    BY DEF Above
  <2>2. Rank(S, c) <= Cardinality(S) /\ Rank(S, c) # Cardinality(S)
    BY <2>1, FS_Subset DEF Rank
  <2>. QED
    BY <1>0, <1>1, <2>2
<1>3. ASSUME NEW c \in S, NEW d \in S, d > c PROVE Rank(S, d) < Rank(S, c)
  <2>1. Above(S, d) \in SUBSET Above(S, c) /\ d \in Above(S, c) /\ d \notin Above(S, d)
    <3>1. c \in Nat /\ d \in Nat /\ \A e \in S : e \in Nat
      OBVIOUS
    <3>2. \A e \in S : e > d => e > c
      BY <1>3, <3>1
    <3>3. ~(d > d)
      BY <3>1
    <3>4. Above(S, d) \in SUBSET Above(S, c)
      BY <3>2 DEF Above
    <3>5. d \in Above(S, c)
      BY <1>3 DEF Above
    <3>6. d \notin Above(S, d)
      BY <3>3 DEF Above
    <3>. QED
      BY <3>4, <3>5, <3>6
  <2>2. Rank(S, d) <= Rank(S, c) /\ Rank(S, d) # Rank(S, c)
    BY <1>1, <2>1, FS_Subset DEF Rank
  <2>. QED
    BY <1>1, <2>2
<1>. QED
  BY <1>2, <1>3

LEMMA RanksDistinct ==
  ASSUME NEW S \in SUBSET Nat, IsFiniteSet(S), NEW c \in S, NEW d \in S,
         Rank(S, c) = Rank(S, d)
  PROVE  c = d
<1>1. Cardinality(S) \in Nat
  BY FS_CardinalityType
<1>2. Rank(S, c) \in Int /\ Rank(S, d) \in Int
  BY <1>1, RanksOrdered
<1>3. ~(c > d) /\ ~(d > c)
  BY <1>2, RanksOrdered
<1>. QED
  BY <1>3

\* Every position is taken: the ranks are an injection into as many numbers.
LEMMA RanksTaken ==
  ASSUME NEW S \in SUBSET Nat, IsFiniteSet(S), NEW i \in 1 .. Cardinality(S)
  PROVE  \E c \in S : Rank(S, c) = i - 1
<1> DEFINE n == Cardinality(S)
           rank == [c \in S |-> Rank(S, c)]
<1>0. n \in Nat
  BY FS_CardinalityType
<1> HIDE DEF n
<1>1. rank \in [S -> 0 .. n - 1]
  BY RanksOrdered DEF n
<1>2. ASSUME NEW c \in S, NEW d \in S, rank[c] = rank[d] PROVE c = d
  BY <1>2, RanksDistinct
<1>3. rank \in Injection(S, 0 .. n - 1)
  <2>. HIDE DEF rank
  <2>. QED
    BY <1>1, <1>2, Fun_IsInj
<1>4. IsFiniteSet(0 .. n - 1) /\ Cardinality(0 .. n - 1) = Cardinality(S)
  <2>1. 0 \in Int /\ n - 1 \in Int
    BY <1>0
  <2>2. /\ IsFiniteSet(0 .. n - 1)
        /\ Cardinality(0 .. n - 1) = IF 0 > n - 1 THEN 0 ELSE (n - 1) - 0 + 1
    BY <2>1, FS_Interval
  <2>. QED
    BY <1>0, <2>2 DEF n
<1>5. rank \in Surjection(S, 0 .. n - 1)
  <2>. HIDE DEF rank
  <2>. QED
    BY <1>3, <1>4, FS_Injection
<1>6. i - 1 \in 0 .. n - 1
  BY <1>0 DEF n
<1>7. PICK c \in S : rank[c] = i - 1
  <2>. HIDE DEF rank
  <2>. QED
    BY <1>5, <1>6 DEF Surjection
<1>. QED
  BY <1>7

\* The order of the queue lists every claim once, from newer to older.
LEMMA DescendingOrders ==
  ASSUME NEW S \in SUBSET Nat, IsFiniteSet(S)
  PROVE  /\ Cardinality(S) \in Nat
         /\ Descending(S) \in Seq(S) /\ Len(Descending(S)) = Cardinality(S)
         /\ \A i \in 1 .. Cardinality(S) : Descending(S)[i] \in S
         /\ \A i, j \in 1 .. Cardinality(S) : i < j => Descending(S)[i] > Descending(S)[j]
         /\ \A c \in S : \E i \in 1 .. Cardinality(S) : Descending(S)[i] = c
<1> DEFINE n == Cardinality(S)
           D == Descending(S)
<1>0. n \in Nat
  BY FS_CardinalityType
<1>1. D = [i \in 1 .. n |-> CHOOSE c \in S : Rank(S, c) = i - 1]
  BY DEF Descending, Rank, Above
<1> HIDE DEF n, D
<1>2. ASSUME NEW i \in 1 .. n PROVE D[i] \in S /\ Rank(S, D[i]) = i - 1
  <2>1. \E c \in S : Rank(S, c) = i - 1
    BY RanksTaken DEF n
  <2>. QED
    BY <1>1, <2>1
<1>3. D \in [1 .. n -> S]
  BY <1>1, <1>2
<1>4. D \in Seq(S) /\ Len(D) = n
  BY <1>0, <1>3, SeqDef
<1>5. ASSUME NEW i \in 1 .. n, NEW j \in 1 .. n, i < j PROVE D[i] > D[j]
  <2>1. D[i] \in Nat /\ D[j] \in Nat /\ Rank(S, D[i]) < Rank(S, D[j])
    <3>1. D[i] \in S /\ D[j] \in S /\ Rank(S, D[i]) = i - 1 /\ Rank(S, D[j]) = j - 1
      BY <1>2
    <3>2. i - 1 < j - 1
      BY <1>5
    <3>. QED
      BY <3>1, <3>2
  <2>2. D[i] # D[j] /\ ~(D[j] > D[i])
    <3>1. i - 1 < j - 1 /\ ~(j - 1 < i - 1) /\ i - 1 # j - 1
      BY <1>5
    <3>. QED
      BY <1>2, <3>1, RanksOrdered
  <2>. QED
    BY <2>1, <2>2
<1>6. ASSUME NEW c \in S PROVE \E i \in 1 .. n : D[i] = c
  <2>1. Rank(S, c) + 1 \in 1 .. n /\ Rank(S, c) \in Int
    BY <1>0, RanksOrdered DEF n
  <2> DEFINE i == Rank(S, c) + 1
  <2>2. i \in 1 .. n /\ i - 1 = Rank(S, c)
    BY <2>1
  <2>3. D[i] \in S /\ Rank(S, D[i]) = Rank(S, c)
    <3>. HIDE DEF i
    <3>. QED
      BY <1>2, <2>2
  <2>4. D[i] = c
    <3>1. PICK x \in S : x = D[i]
      BY <2>3
    <3>2. Rank(S, x) = Rank(S, c)
      BY <2>3, <3>1
    <3>3. x = c
      BY <3>2, RanksDistinct
    <3>. QED
      BY <3>1, <3>3
  <2>. QED
    BY <2>2, <2>4
<1>. QED
  BY <1>0, <1>2, <1>4, <1>5, <1>6 DEF n, D

\* A page is what no other claim of the set is above, and is full unless it is all.
LEMMA NewestOnTop ==
  ASSUME NEW S \in SUBSET Nat, IsFiniteSet(S), NEW n \in Nat
  PROVE  /\ Newest(S, n) \in SUBSET S /\ IsFiniteSet(Newest(S, n))
         /\ Cardinality(Newest(S, n)) \in Nat
         /\ \A c \in Newest(S, n) : \A d \in S : d > c => d \in Newest(S, n)
         /\ n > 0 /\ S # {} => Newest(S, n) # {}
         /\ Cardinality(S) <= n => Newest(S, n) = S
         /\ Cardinality(Newest(S, n)) < n => Newest(S, n) = S
<1> DEFINE P == Newest(S, n)
<1>0. P = {c \in S : Rank(S, c) < n} /\ Cardinality(S) \in Nat
  BY FS_CardinalityType DEF Newest, Rank, Above
<1> HIDE DEF P
<1>1. P \in SUBSET S /\ IsFiniteSet(P) /\ Cardinality(P) \in Nat
  BY <1>0, FS_Subset, FS_CardinalityType
<1>2. \A c \in S : Rank(S, c) \in Int /\ Rank(S, c) < Cardinality(S)
  BY <1>0, RanksOrdered
<1>3. ASSUME NEW c \in P, NEW d \in S, d > c PROVE d \in P
  <2>1. Rank(S, d) < Rank(S, c) /\ Rank(S, c) < n
    BY <1>0, <1>3, RanksOrdered
  <2>. QED
    BY <1>0, <1>2, <2>1
<1>4. ASSUME n > 0, S # {} PROVE P # {}
  <2>1. Cardinality(S) # 0
    BY <1>4, FS_EmptySet
  <2>2. 1 \in 1 .. Cardinality(S)
    BY <1>0, <2>1
  <2>3. PICK c \in S : Rank(S, c) = 1 - 1
    BY <2>2, RanksTaken
  <2>. QED
    BY <1>0, <1>4, <2>3
<1>5. ASSUME Cardinality(S) <= n PROVE P = S
  <2>1. \A c \in S : Rank(S, c) < n
    BY <1>0, <1>2, <1>5
  <2>. QED
    BY <1>0, <2>1
<1>6. ASSUME Cardinality(P) < n PROVE P = S
  <2>1. SUFFICES ASSUME n < Cardinality(S) PROVE FALSE
    BY <1>0, <1>5
  <2> DEFINE f == [i \in 1 .. n |-> Descending(S)[i]]
  <2>2. ASSUME NEW i \in 1 .. n PROVE Descending(S)[i] \in P
    <3>1. i \in 1 .. Cardinality(S)
      BY <1>0, <2>1
    <3>2. Descending(S)[i] = CHOOSE c \in S : Rank(S, c) = i - 1
      BY <3>1 DEF Descending, Rank, Above
    <3>3. Descending(S)[i] \in S /\ Rank(S, Descending(S)[i]) = i - 1
      BY <3>1, <3>2, RanksTaken
    <3>. QED
      BY <1>0, <3>3
  <2>3. f \in [1 .. n -> P]
    BY <2>2
  <2>4. ASSUME NEW i \in 1 .. n, NEW j \in 1 .. n, f[i] = f[j] PROVE i = j
    <3>1. i \in 1 .. Cardinality(S) /\ j \in 1 .. Cardinality(S)
      BY <1>0, <2>1
    <3>2. Descending(S)[i] = Descending(S)[j] /\ Descending(S)[i] \in Nat
      BY <2>4, <3>1, DescendingOrders
    <3>3. ~(i < j) /\ ~(j < i)
      BY <3>1, <3>2, DescendingOrders
    <3>. QED
      BY <3>3
  <2>5. f \in Injection(1 .. n, P)
    <3>. HIDE DEF f
    <3>. QED
      BY <2>3, <2>4, Fun_IsInj
  <2>6. Cardinality(1 .. n) <= Cardinality(P)
    BY <1>1, <2>5, FS_Injection
  <2>7. Cardinality(1 .. n) = n
    BY FS_Interval
  <2>. QED
    BY <1>1, <1>6, <2>6, <2>7
<1>. QED
  BY <1>1, <1>3, <1>4, <1>5, <1>6 DEF P

-----------------------------------------------------------------------------
(* The walk.                                                               *)

\* Everything the cursor still has before it is below everything it has passed.
CursorBelowSeen ==
  \A i \in 1 .. Len(walk.seen) : \A c \in walk.older : c < walk.seen[i]

\* What has stayed in the queue is before the cursor or has been listed.
NothingSkipped ==
  \A c \in steady :
    \/ walk.more /\ c \in walk.older
    \/ \E i \in 1 .. Len(walk.seen) : walk.seen[i] = c

WalkInv ==
  /\ published \subseteq Claims /\ IsFiniteSet(published)
  /\ walk \in Walk
  /\ steady \subseteq Listed(walk.tenant, walk.statuses)
  /\ WalkNeverRepeats /\ CursorBelowSeen /\ NothingSkipped

\* Where the elements of a concatenation come from.
LEMMA Joined ==
  ASSUME NEW S, NEW s \in Seq(S), NEW t \in Seq(S),
         NEW m \in Nat, m = Len(s), NEW n \in Nat, n = Len(t)
  PROVE  /\ s \o t \in Seq(S) /\ Len(s \o t) = m + n
         /\ \A i \in 1 .. m : (s \o t)[i] = s[i]
         /\ \A i \in 1 .. n : (s \o t)[m + i] = t[i]
         /\ \A i \in m + 1 .. m + n : (s \o t)[i] = t[i - m] /\ i - m \in 1 .. n
<1>1. /\ s \o t \in Seq(S) /\ Len(s \o t) = m + n
      /\ \A i \in 1 .. m + n : (s \o t)[i] = IF i <= m THEN s[i] ELSE t[i - m]
  BY ConcatProperties
<1>2. \A i \in 1 .. m : i \in 1 .. m + n /\ i <= m
  OBVIOUS
<1>3. \A i \in 1 .. n : m + i \in 1 .. m + n /\ ~(m + i <= m) /\ (m + i) - m = i
  OBVIOUS
<1>4. \A i \in m + 1 .. m + n : i \in 1 .. m + n /\ ~(i <= m) /\ i - m \in 1 .. n
  OBVIOUS
<1>. QED
  BY <1>1, <1>2, <1>3, <1>4

LEMMA StatusUnchanged ==
  ASSUME NEW c, UNCHANGED ReviewsOf(c)
  PROVE  UNCHANGED CurrentStatus(c)
BY DEF CurrentStatus, Latest

\* The reviewed claim has the status decided, the others keep theirs.
LEMMA StatusDecided ==
  ASSUME ChainInv, ChainInv', NEW w \in Workers, CommitReview(w)
  PROVE  \E c \in Claims : \E decision :
           /\ CurrentStatus(c)' = decision
           /\ \A d : d # c => UNCHANGED CurrentStatus(d)
           /\ steady' = IF decision \notin walk.statuses THEN steady \ {c} ELSE steady
           /\ UNCHANGED <<published, walk>>
<1>0. PICK c : c = session[w].req.claim
  OBVIOUS
<1>1. PICK review \in ReviewRow, event \in AuditEvent :
           /\ c \in Claims /\ review.claim = c /\ review.resulting_version = Depth(c) + 1
           /\ review.decision = event.decision
           /\ reviews' = reviews \cup {review}
           /\ audit' = [audit EXCEPT ![c] = Append(audit[c], event)]
           /\ session'[w].pc = "done" /\ At(w, "holding")
           /\ \A v \in Workers : v # w => session'[v] = session[v]
           /\ UNCHANGED published
           /\ steady' = IF review.decision \notin walk.statuses THEN steady \ {c} ELSE steady
           /\ UNCHANGED walk
  BY <1>0, ReviewIsAppended
<1>2. audit[c] \in Seq(AuditEvent) /\ Depth(c) \in Nat /\ audit \in [Claims -> Seq(AuditEvent)]
  BY <1>1, DepthTyped DEF ChainInv, LedgerTyped
<1>3. audit'[c] = Append(audit[c], event) /\ Depth(c)' = Depth(c) + 1
  BY <1>1, <1>2 DEF Depth
<1>4. OnTop(c, CurrentStatus(c), CurrentVersion(c))'
  <2>1. ChainInv' => FoldsOnTop'
    BY FoldFound, PTL
  <2>. QED
    BY <1>1, <2>1 DEF FoldsOnTop
<1>5. CurrentStatus(c)' = review.decision
  <2>1. PICK r \in reviews' : /\ r.claim = c /\ r.resulting_version = Depth(c) + 1
                              /\ r.decision = CurrentStatus(c)'
    BY <1>1, <1>2, <1>3, <1>4 DEF OnTop
  <2>2. review \in reviews'
    BY <1>1
  <2>3. r = review
    BY <1>1, <2>1, <2>2 DEF ChainInv, LedgerIsAChain
  <2>. QED
    BY <2>1, <2>3
<1>6. ASSUME NEW d, d # c PROVE UNCHANGED CurrentStatus(d)
  <2>1. UNCHANGED ReviewsOf(d)
    BY <1>1, <1>6 DEF ReviewsOf
  <2>. QED
    BY <2>1, StatusUnchanged
<1>. QED
  BY <1>1, <1>5, <1>6

LEMMA CommitKeepsWalk ==
  ASSUME ChainInv, ChainInv', WalkInv, NEW w \in Workers, CommitReview(w)
  PROVE  WalkInv'
<1>1. PICK c \in Claims : \E decision :
           /\ CurrentStatus(c)' = decision
           /\ \A d : d # c => UNCHANGED CurrentStatus(d)
           /\ steady' = IF decision \notin walk.statuses THEN steady \ {c} ELSE steady
           /\ UNCHANGED <<published, walk>>
  BY StatusDecided
<1>2. PICK decision :
           /\ CurrentStatus(c)' = decision
           /\ \A d : d # c => UNCHANGED CurrentStatus(d)
           /\ steady' = IF decision \notin walk.statuses THEN steady \ {c} ELSE steady
           /\ UNCHANGED <<published, walk>>
  BY <1>1
<1>3. steady' \subseteq steady /\ \A d \in steady' : d = c => decision \in walk.statuses
  BY <1>2
<1>4. ASSUME NEW d \in steady' PROVE d \in Listed(walk.tenant, walk.statuses)'
  <2>1. d \in published /\ TenantOf[RunOf[d]] = walk.tenant /\ CurrentStatus(d) \in walk.statuses
    BY <1>3 DEF WalkInv, Listed
  <2>2. CurrentStatus(d)' \in walk.statuses
    BY <1>2, <1>3, <2>1
  <2>. QED
    BY <1>2, <2>1, <2>2 DEF Listed
<1>5. WalkNeverRepeats' /\ CursorBelowSeen' /\ NothingSkipped'
  BY <1>2, <1>3 DEF WalkInv, WalkNeverRepeats, CursorBelowSeen, NothingSkipped
<1>6. published' \subseteq Claims /\ IsFiniteSet(published') /\ walk' \in Walk
  BY <1>2 DEF WalkInv
<1>. QED
  BY <1>4, <1>5, <1>6 DEF WalkInv

LEMMA PublicationKeepsWalk ==
  ASSUME WalkInv, PublishClaims
  PROVE  WalkInv'
<1>1. PICK r \in RunIds :
        /\ published' = published \cup {c \in Claims : RunOf[c] = r}
        /\ UNCHANGED <<reviews, walk, steady>>
  BY DEF PublishClaims
<1>2. published' \subseteq Claims /\ IsFiniteSet(published')
  BY <1>1, ClaimsAssumption, FS_Union DEF WalkInv
<1>3. \A c : UNCHANGED CurrentStatus(c)
  BY <1>1, StatusUnchanged DEF ReviewsOf
<1>4. steady' \subseteq Listed(walk.tenant, walk.statuses)'
  BY <1>1, <1>3 DEF WalkInv, Listed
<1>5. WalkNeverRepeats' /\ CursorBelowSeen' /\ NothingSkipped' /\ walk' \in Walk
  BY <1>1 DEF WalkInv, WalkNeverRepeats, CursorBelowSeen, NothingSkipped
<1>. QED
  BY <1>2, <1>4, <1>5 DEF WalkInv

LEMMA BeginKeepsWalk ==
  ASSUME WalkInv, BeginWalk
  PROVE  WalkInv'
<1>1. PICK t \in Tenants, statuses \in Filters :
        /\ walk' = [tenant |-> t, statuses |-> statuses, more |-> TRUE, older |-> Claims,
                    seen |-> << >>]
        /\ steady' = Listed(t, statuses)
  BY DEF BeginWalk
<1>2. UNCHANGED <<published, reviews>>
  BY DEF BeginWalk, db
<1>3. walk' \in Walk
  BY <1>1, ClaimsAssumption DEF Walk
<1>4. steady' = Listed(walk.tenant, walk.statuses)' /\ steady' \subseteq Claims
  BY <1>1, <1>2 DEF WalkInv, Listed, CurrentStatus, Latest, ReviewsOf
<1>5. WalkNeverRepeats' /\ CursorBelowSeen'
  BY <1>1 DEF WalkNeverRepeats, CursorBelowSeen
<1>6. NothingSkipped'
  BY <1>1, <1>4 DEF NothingSkipped
<1>. QED
  BY <1>2, <1>3, <1>4, <1>5, <1>6 DEF WalkInv

\* A page lists what is newest of what matches before the cursor; the next one
\* starts strictly below it, and there is none only if nothing that matched is left.
LEMMA PageKeepsWalk ==
  ASSUME WalkInv, ReadPage
  PROVE  WalkInv'
<1> DEFINE matching == Listed(walk.tenant, walk.statuses) \cap walk.older
           fetched == Newest(matching, Limit + 1)
           page == Newest(fetched, Limit)
           more == Cardinality(fetched) > Limit
           older == IF more THEN {c \in Claims : \A d \in page : c < d} ELSE {}
           list == Descending(page)
           seen == walk.seen
<1>1. /\ walk.more
      /\ walk' = [walk EXCEPT !.seen = seen \o list, !.more = more, !.older = older]
      /\ UNCHANGED <<published, reviews, steady>>
  BY DEF ReadPage, db
<1>2. /\ walk \in Walk /\ seen \in Seq(Claims) /\ walk.older \subseteq Claims
      /\ walk.older \subseteq Nat /\ Claims \subseteq Nat /\ Len(seen) \in Nat
      /\ \A i \in 1 .. Len(seen) : seen[i] \in Nat
  <2>1. walk.seen \in Seq(Claims) /\ walk.older \subseteq Claims /\ Claims \subseteq Nat
    <3>1. walk \in Walk
      BY DEF WalkInv
    <3>. QED
      BY <3>1, ClaimsAssumption DEF Walk
  <2>2. Len(walk.seen) \in Nat /\ \A i \in 1 .. Len(walk.seen) : walk.seen[i] \in Claims
    BY <2>1
  <2>. QED
    BY <2>1, <2>2 DEF WalkInv
<1>3. Limit \in Nat /\ Limit > 0
  BY ClaimsAssumption
<1>4. matching \in SUBSET Nat /\ IsFiniteSet(matching) /\ matching \subseteq walk.older
  <2>1. matching \in SUBSET published
    BY DEF Listed
  <2>. QED
    BY <1>2, <2>1, FS_Subset DEF WalkInv
<1> HIDE DEF matching
<1>5. /\ fetched \in SUBSET matching /\ IsFiniteSet(fetched) /\ Cardinality(fetched) \in Nat
      /\ \A c \in fetched : \A d \in matching : d > c => d \in fetched
      /\ matching # {} => fetched # {}
      /\ Cardinality(fetched) < Limit + 1 => fetched = matching
  <2>1. Limit + 1 \in Nat /\ Limit + 1 > 0
    BY <1>3
  <2>. QED
    BY <1>4, <2>1, NewestOnTop
<1> HIDE DEF fetched
<1>6. /\ page \in SUBSET fetched /\ IsFiniteSet(page)
      /\ \A c \in page : \A d \in fetched : d > c => d \in page
      /\ fetched # {} => page # {}
      /\ Cardinality(fetched) <= Limit => page = fetched
  BY <1>3, <1>4, <1>5, NewestOnTop
<1>7. /\ page \in SUBSET Nat /\ page \subseteq walk.older /\ page \subseteq Claims
      /\ \A c \in page : \A d \in matching : d > c => d \in page
      /\ more => page # {}
      /\ ~more => page = matching
  <2>1. fetched = {} => Cardinality(fetched) = 0
    BY FS_EmptySet
  <2>2. page \subseteq matching
    BY <1>5, <1>6
  <2>3. page \in SUBSET Nat /\ page \subseteq walk.older /\ page \subseteq Claims
    BY <1>2, <1>4, <2>2
  <2>4. \A c \in page : \A d \in matching : d > c => d \in page
    BY <1>5, <1>6
  <2>5. more => page # {}
    BY <1>3, <1>6, <2>1
  <2>6. ~more => page = matching
    <3>1. ~more => Cardinality(fetched) <= Limit /\ Cardinality(fetched) < Limit + 1
      BY <1>3, <1>5
    <3>. QED
      BY <1>5, <1>6, <3>1
  <2>. QED
    BY <2>3, <2>4, <2>5, <2>6
<1> HIDE DEF page
<1>8. PICK n \in Nat :
        /\ list \in Seq(page) /\ Len(list) = n
        /\ \A i \in 1 .. n : list[i] \in page
        /\ \A i, j \in 1 .. n : i < j => list[i] > list[j]
        /\ \A c \in page : \E i \in 1 .. n : list[i] = c
  BY <1>6, <1>7, DescendingOrders
<1>9. PICK m \in Nat : m = Len(seen)
  BY <1>2
<1> HIDE DEF list, seen, more, older
<1>10. /\ seen \o list \in Seq(Claims) /\ Len(seen \o list) = m + n
       /\ \A i \in 1 .. m : (seen \o list)[i] = seen[i]
       /\ \A i \in 1 .. n : (seen \o list)[m + i] = list[i]
       /\ \A i \in m + 1 .. m + n : (seen \o list)[i] = list[i - m] /\ i - m \in 1 .. n
  <2>1. list \in Seq(Claims)
    BY <1>7, <1>8, SeqMonotonic
  <2>2. seen \in Seq(Claims) /\ m = Len(seen) /\ n = Len(list)
    BY <1>2, <1>8, <1>9
  <2>. QED
    BY <2>1, <2>2, Joined
<1>11. /\ walk' \in Walk /\ walk'.seen = seen \o list /\ walk'.more = more
       /\ walk'.older = older /\ walk'.tenant = walk.tenant /\ walk'.statuses = walk.statuses
  <2>1. more \in BOOLEAN /\ older \in SUBSET Claims
    BY DEF more, older
  <2>. QED
    BY <1>1, <1>2, <1>10, <2>1 DEF Walk
<1>12. \A i \in 1 .. m : \A c \in walk.older : c < seen[i]
  BY <1>9 DEF WalkInv, CursorBelowSeen, seen
<1>13. WalkNeverRepeats'
  <2> SUFFICES ASSUME NEW i \in 1 .. m + n, NEW j \in 1 .. m + n, i < j
               PROVE  (seen \o list)[i] > (seen \o list)[j]
    BY <1>10, <1>11 DEF WalkNeverRepeats
  <2>1. CASE i \in 1 .. m /\ j \in 1 .. m
    BY <1>9, <1>10, <2>1 DEF WalkInv, WalkNeverRepeats, seen
  <2>2. CASE i \in 1 .. m /\ j \in m + 1 .. m + n
    <3>1. list[j - m] \in walk.older
      BY <1>7, <1>8, <1>10, <2>2
    <3>. QED
      BY <1>2, <1>9, <1>10, <1>12, <2>2, <3>1
  <2>3. CASE i \in m + 1 .. m + n /\ j \in m + 1 .. m + n
    <3>1. i - m < j - m
      OBVIOUS
    <3>. QED
      BY <1>8, <1>10, <2>3, <3>1
  <2>4. (i \in 1 .. m \/ i \in m + 1 .. m + n) /\ (j \in 1 .. m \/ j \in m + 1 .. m + n)
    OBVIOUS
  <2>5. ~(i \in m + 1 .. m + n /\ j \in 1 .. m)
    OBVIOUS
  <2>. QED
    BY <2>1, <2>2, <2>3, <2>4, <2>5
<1>14. CursorBelowSeen'
  <2> SUFFICES ASSUME NEW i \in 1 .. m + n, NEW c \in older
               PROVE  c < (seen \o list)[i]
    BY <1>10, <1>11 DEF CursorBelowSeen
  <2>1. more /\ c \in Claims /\ c \in Nat /\ \A d \in page : c < d
    BY <1>2 DEF older
  <2>2. CASE i \in 1 .. m
    <3>1. PICK d \in page : c < d
      BY <1>7, <2>1
    <3>2. d < seen[i] /\ d \in Nat /\ seen[i] \in Nat
      BY <1>2, <1>7, <1>9, <1>12, <2>2
    <3>. QED
      BY <1>10, <2>1, <2>2, <3>1, <3>2
  <2>3. CASE i \in m + 1 .. m + n
    BY <1>8, <1>10, <2>1, <2>3
  <2>4. i \in 1 .. m \/ i \in m + 1 .. m + n
    OBVIOUS
  <2>. QED
    BY <2>2, <2>3, <2>4
<1>15. NothingSkipped'
  <2> SUFFICES ASSUME NEW c \in steady, ~(more /\ c \in older)
               PROVE  \E i \in 1 .. m + n : (seen \o list)[i] = c
    BY <1>1, <1>10, <1>11 DEF NothingSkipped
  <2>1. CASE \E i \in 1 .. m : seen[i] = c
    BY <1>10, <2>1
  <2>2. CASE c \in walk.older
    <3>1. c \in matching /\ c \in Nat /\ c \in Claims
      BY <1>2, <2>2 DEF matching, WalkInv
    <3>2. c \in page
      <4>1. CASE ~more
        BY <1>7, <3>1, <4>1
      <4>2. CASE more
        <5>1. PICK d \in page : ~(c < d)
          BY <3>1, <4>2 DEF older
        <5>2. d \in Nat
          BY <1>7
        <5>3. c = d \/ c > d
          BY <3>1, <5>1, <5>2
        <5>. QED
          BY <1>7, <3>1, <5>3
      <4>. QED
        BY <4>1, <4>2
    <3>3. PICK i \in 1 .. n : list[i] = c
      BY <1>8, <3>2
    <3>4. m + i \in 1 .. m + n
      OBVIOUS
    <3>. QED
      BY <1>10, <3>3, <3>4
  <2>. QED
    BY <1>1, <1>9, <2>1, <2>2 DEF WalkInv, NothingSkipped, seen
<1>16. steady' \subseteq Listed(walk.tenant, walk.statuses)'
  BY <1>1, <1>11 DEF WalkInv, Listed, CurrentStatus, Latest, ReviewsOf
<1>. QED
  BY <1>1, <1>11, <1>13, <1>14, <1>15, <1>16 DEF WalkInv

LEMMA WalkInit == Init => WalkInv
<1> SUFFICES ASSUME Init PROVE WalkInv
  OBVIOUS
<1>1. /\ published = {} /\ steady = {} /\ walk.seen = << >> /\ walk.older = {}
      /\ walk \in Walk
  <2>1. ACTIONABLE \in AllFilters /\ << >> \in Seq(Claims) /\ {} \in SUBSET Claims
    BY DEF AllFilters
  <2>2. walk \in [tenant : Tenants, statuses : {ACTIONABLE}, more : {FALSE}, older : {{}},
                  seen : {<< >>}]
    BY DEF Init
  <2>3. walk \in Walk
    BY <2>1, <2>2 DEF Walk
  <2>. QED
    BY <2>2, <2>3 DEF Init
<1>. QED
  BY <1>1, FS_EmptySet DEF WalkInv, WalkNeverRepeats, CursorBelowSeen, NothingSkipped

LEMMA WalkStep ==
  ASSUME ChainInv, ChainInv', WalkInv, [Next]_vars
  PROVE  WalkInv'
<1>1. CASE UNCHANGED <<published, reviews, walk, steady>>
  BY <1>1 DEF WalkInv, Listed, CurrentStatus, Latest, ReviewsOf, WalkNeverRepeats,
              CursorBelowSeen, NothingSkipped
<1>2. CASE UNCHANGED vars
  BY <1>1, <1>2 DEF vars, db
<1>3. ASSUME NEW w \in Workers, AskReview(w) \/ LockClaim(w) \/ Deliver(w) \/ Crash(w)
      PROVE  WalkInv'
  <2>1. UNCHANGED <<published, reviews, walk, steady>>
    BY <1>3 DEF AskReview, LockClaim, Deliver, Crash, Goto, db
  <2>. QED
    BY <1>1, <2>1
<1>. QED
  BY <1>2, <1>3, CommitKeepsWalk, PublicationKeepsWalk, BeginKeepsWalk, PageKeepsWalk DEF Next

LEMMA WalkInvHolds == Spec => []WalkInv
<1>1. ChainInv /\ ChainInv' /\ WalkInv /\ [Next]_vars => WalkInv'
  BY WalkStep
<1>. QED
  BY <1>1, WalkInit, ChainInvHolds, PTL DEF Spec

\* A client that follows the cursors sees no claim twice and every page below the
\* one before, whatever is reviewed or published while it reads.
THEOREM WalksNeverRepeat == Spec => []WalkNeverRepeats
<1>1. WalkInv => WalkNeverRepeats
  BY DEF WalkInv
<1>. QED
  BY <1>1, WalkInvHolds, PTL

\* A walk that has come to its end has listed every claim that was in the queue
\* all the time, for any page size and any number of reviewers.
THEOREM WalksMissNothing == Spec => []WalkMissesNothingSteady
<1>1. WalkInv => WalkMissesNothingSteady
  BY DEF WalkInv, NothingSkipped, WalkMissesNothingSteady
<1>. QED
  BY <1>1, WalkInvHolds, PTL

\* Every reachable state of the ledger, its sessions and a walk is well typed.
THEOREM TypeCorrect == Spec => []TypeOK
<1>1. ChainInv /\ WalkInv => TypeOK
  BY DEF ChainInv, LedgerTyped, WalkInv, Listed, TypeOK
<1>. QED
  BY <1>1, ChainInvHolds, WalkInvHolds, PTL
=============================================================================
