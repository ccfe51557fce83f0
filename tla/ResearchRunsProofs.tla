------------------------- MODULE ResearchRunsProofs -------------------------
(***************************************************************************)
(* Proofs about ResearchRuns, for every value of its constants: the rows,  *)
(* locks and versions of the runs and that they implement VersionedHistory *)
(* come first; then what the commands leave behind (reports, idempotency   *)
(* records, reviews, successors, audit events) and what clients have been  *)
(* told of it.                                                             *)
(***************************************************************************)
EXTENDS ResearchRuns, SequenceTheorems, TLAPS

-----------------------------------------------------------------------------
(* Tables.                                                                 *)

\* A new table is empty and well typed.
LEMMA EmptyTableTyped ==
  ASSUME NEW Names, NEW Rows
  PROVE  IsTable(EmptyTable, Names, Rows) /\ DOMAIN EmptyTable = {}
  BY DEF IsTable, EmptyTable

\* An insert (or replacement) of a typed row keeps a table typed.
LEMMA WithTyped ==
  ASSUME NEW Names, NEW Rows, NEW f, IsTable(f, Names, Rows), NEW k \in Names, NEW v \in Rows
  PROVE  IsTable(With(f, k, v), Names, Rows)
  BY DEF IsTable, With

\* What an insert (or replacement) leaves under each key.
LEMMA WithValues ==
  ASSUME NEW f, NEW k, NEW v
  PROVE  /\ DOMAIN With(f, k, v) = DOMAIN f \cup {k}
         /\ With(f, k, v)[k] = v
         /\ \A x \in DOMAIN f : x # k => With(f, k, v)[x] = f[x]
  BY DEF With

\* An update of a row by a typed row keeps a table typed.
LEMMA UpdateTyped ==
  ASSUME NEW Names, NEW Rows, NEW f, IsTable(f, Names, Rows), NEW k,
         NEW v, k \in DOMAIN f => v \in Rows
  PROVE  IsTable([f EXCEPT ![k] = v], Names, Rows)
  BY DEF IsTable

-----------------------------------------------------------------------------
(* What the type of a session says, by its program counter.                *)

InService == {"looked", "begun", "integrity"}

Matching(q, d) ==
  d \in Dispositions \cup {NoDisposition} /\ (q.op = "result" <=> d \in Dispositions)

LEMMA ServiceTyped ==
  ASSUME NEW s \in Session, s.pc \in InService
  PROVE  s.req \in Request /\ Matching(s.req, s.disposition)
  BY DEF Session, SessionRecord, InService, Matching

LEMMA HoldingTyped ==
  ASSUME NEW s \in Session, s.pc = "holding"
  PROVE  /\ s.req \in Request /\ s.row \in Run
         /\ Matching(s.req, s.disposition)
  BY DEF Session, SessionRecord, Matching

LEMMA SessionFormed ==
  /\ Idle \in Session
  /\ \A q \in Request, answer \in Answer :
       [pc |-> "done", req |-> q, answer |-> answer] \in Session
  BY DEF Session, SessionRecord, Idle

LEMMA ServiceFormed ==
  ASSUME NEW q \in Request, NEW d, Matching(q, d), NEW pc \in InService
  PROVE  [pc |-> pc, req |-> q, disposition |-> d] \in Session
  BY DEF Session, SessionRecord, InService, Matching

LEMMA HoldingFormed ==
  ASSUME NEW q \in Request, NEW d, Matching(q, d), NEW row \in Run
  PROVE  [pc |-> "holding", req |-> q, disposition |-> d, row |-> row] \in Session
  BY DEF Session, SessionRecord, Matching

LEMMA AnswerFormed ==
  /\ \A code \in ErrorCode : Error(code) \in Answer
  /\ \A r \in RunIds : \A row : (row.status \in ResearchRunStatus /\ row.version \in Nat)
       => Completed(r, row) \in Completion /\ Completed(r, row) \in Answer
  BY DEF Answer, Completion, Error, Completed

\* A request has the fields of its kind.
LEMMA RequestFields ==
  ASSUME NEW q \in Request
  PROVE  /\ q.tenant \in Tenants /\ q.run \in RunIds /\ q.expected \in Versions
         /\ q.op \in {"transition", "review", "result", "successor"}
         /\ q.op = "transition" => q \in TransitionRequest
         /\ q.op = "review" => q \in ReviewRequest
         /\ q.op = "result" => q \in ResultRequest
         /\ q.op = "successor" => q \in SuccessorRequest
  BY DEF Request, TransitionRequest, ReviewRequest, ResultRequest, SuccessorRequest

LEMMA RequestKinds ==
  TransitionRequest \subseteq Request /\ ReviewRequest \subseteq Request
  /\ ResultRequest \subseteq Request /\ SuccessorRequest \subseteq Request
  BY DEF Request

-----------------------------------------------------------------------------
(* Type correctness.  It is not inductive by itself: a replayed successor  *)
(* is read through the run id that the ledger stored, so that the ledger   *)
(* must name runs that exist.                                              *)

LedgerNamesRuns == \A k \in DOMAIN successorLedger : successorLedger[k].run \in DOMAIN runs

TypeInv == TypeOK /\ LedgerNamesRuns

\* A step that only moves a session keeps the types.
LEMMA SessionStep ==
  ASSUME TypeInv, NEW w \in Workers, NEW s \in Session, Goto(w, s)
  PROVE  TypeInv'
  BY DEF TypeInv, TypeOK, LedgerNamesRuns, Goto, db

LEMMA ServiceStep ==
  ASSUME TypeInv, NEW w \in Workers, NEW q \in Request, NEW d, Matching(q, d),
         NEW pc \in InService, Goto(w, [pc |-> pc, req |-> q, disposition |-> d])
  PROVE  TypeInv'
<1>1. [pc |-> pc, req |-> q, disposition |-> d] \in Session
  BY ServiceFormed
<1>. QED
  BY <1>1, SessionStep

LEMMA ReplayTyped ==
  ASSUME TypeInv, NEW q \in Request, InLedger(q)
  PROVE  Replayed(q) \in Answer
<1>1. CASE q.op = "result"
  <2>1. LedgerKey(q) \in DOMAIN resultLedger
    BY <1>1 DEF InLedger
  <2>2. resultLedger[LedgerKey(q)] \in ResultRecord
    BY <2>1 DEF TypeInv, TypeOK, IsTable
  <2>. QED
    BY <1>1, <2>2, AnswerFormed DEF Replayed, ReplayedResult, ResultRecord, Answer, ErrorCode
<1>2. CASE q.op = "successor"
  <2>1. LedgerKey(q) \in DOMAIN successorLedger
    BY <1>2 DEF InLedger
  <2> DEFINE s == successorLedger[LedgerKey(q)].run
  <2>2. s \in RunIds /\ s \in DOMAIN runs
    BY <2>1 DEF TypeInv, TypeOK, IsTable, LedgerNamesRuns, SuccessorRecord
  <2>3. runs[s].status \in ResearchRunStatus /\ runs[s].version \in Nat
    BY <2>2 DEF TypeInv, TypeOK, IsTable, Run
  <2>. QED
    BY <1>2, <2>2, <2>3, AnswerFormed DEF Replayed, ReplayedSuccessor, ErrorCode
<1>. QED
  BY <1>1, <1>2 DEF InLedger

LEMMA VisibleTyped ==
  ASSUME TypeInv, NEW q \in Request, Visible(q)
  PROVE  runs[q.run] \in Run
  BY DEF TypeInv, TypeOK, IsTable, Visible

LEMMA TypeInvInit == Init => TypeInv
<1> SUFFICES ASSUME Init PROVE TypeInv
  OBVIOUS
<1>1. session \in [Workers -> Session]
  BY SessionFormed DEF Init
<1>. QED
  BY <1>1, EmptyTableTyped DEF Init, TypeInv, TypeOK, LedgerNamesRuns

LEMMA TypeInvAsk ==
  ASSUME TypeInv, NEW w \in Workers, Ask(w) \/ LookAgain(w)
  PROVE  TypeInv'
<1>1. ASSUME NEW q \in Request, NEW answer \in Answer, ReplyOnly(w, q, answer)
      PROVE  TypeInv'
  <2>1. Goto(w, [pc |-> "done", req |-> q, answer |-> answer])
    BY <1>1 DEF ReplyOnly, Reply, Goto
  <2>. QED
    BY <2>1, SessionStep, SessionFormed
<1>2. CASE AskResult(w)
  <2>1. PICK q \in ResultRequest :
          \/ InLedger(q) /\ ReplyOnly(w, q, Replayed(q))
          \/ ReplyOnly(w, q, Error("INVALID_INPUT"))
          \/ \E d \in OutcomesOf[q.bundle] :
               Goto(w, [pc |-> "looked", req |-> q, disposition |-> d])
    BY <1>2 DEF AskResult
  <2>2. q \in Request /\ q.bundle \in Bundles
    BY RequestKinds DEF ResultRequest
  <2>3. CASE InLedger(q) /\ ReplyOnly(w, q, Replayed(q))
    BY <2>2, <2>3, <1>1, ReplayTyped
  <2>4. CASE ReplyOnly(w, q, Error("INVALID_INPUT"))
    BY <2>2, <2>4, <1>1, AnswerFormed DEF ErrorCode
  <2>5. ASSUME NEW d \in OutcomesOf[q.bundle],
               Goto(w, [pc |-> "looked", req |-> q, disposition |-> d])
        PROVE  TypeInv'
    <3>1. d \in Dispositions
      BY <2>2, RunsAssumption DEF RunsAssumption
    <3>2. Matching(q, d)
      BY <3>1 DEF Matching, ResultRequest
    <3>. QED
      BY <2>2, <2>5, <3>2, ServiceStep DEF InService
  <2>. QED
    BY <2>1, <2>3, <2>4, <2>5
<1>3. CASE AskSuccessor(w)
  <2>1. PICK q \in SuccessorRequest :
          \/ InLedger(q) /\ ReplyOnly(w, q, Replayed(q))
          \/ Goto(w, [pc |-> "looked", req |-> q, disposition |-> NoDisposition])
    BY <1>3 DEF AskSuccessor
  <2>2. q \in Request /\ Matching(q, NoDisposition)
    BY RequestKinds DEF Matching, SuccessorRequest, Dispositions, NoDisposition
  <2>. QED
    BY <2>1, <2>2, <1>1, ReplayTyped, ServiceStep DEF InService
<1>4. CASE AskTransition(w) \/ AskReview(w)
  <2>1. PICK q \in TransitionRequest \cup ReviewRequest :
          Goto(w, [pc |-> "begun", req |-> q, disposition |-> NoDisposition])
    BY <1>4 DEF AskTransition, AskReview, Begun
  <2>2. q \in Request /\ Matching(q, NoDisposition)
    BY RequestKinds DEF Matching, TransitionRequest, ReviewRequest, Dispositions, NoDisposition
  <2>. QED
    BY <2>1, <2>2, ServiceStep DEF InService
<1>5. CASE LookAgain(w)
  <2> DEFINE q == session[w].req
  <2>1. q \in Request /\ Matching(q, session[w].disposition)
    BY <1>5, ServiceTyped DEF LookAgain, At, InService, TypeInv, TypeOK
  <2>2. CASE InLedger(q)
    BY <1>5, <2>1, <2>2, <1>1, ReplayTyped DEF LookAgain
  <2>3. CASE ~InLedger(q)
    <3>1. Goto(w, [pc |-> "begun", req |-> q, disposition |-> session[w].disposition])
      BY <1>5, <2>3 DEF LookAgain, Begun
    <3>. QED
      BY <2>1, <3>1, ServiceStep DEF InService
  <2>. QED
    BY <2>2, <2>3
<1>. QED
  BY <1>2, <1>3, <1>4, <1>5 DEF Ask

LEMMA TypeInvLock ==
  ASSUME TypeInv, NEW w \in Workers, LockRun(w)
  PROVE  TypeInv'
<1> DEFINE q == session[w].req
           d == session[w].disposition
<1>1. q \in Request /\ Matching(q, d)
  BY ServiceTyped DEF LockRun, At, InService, TypeInv, TypeOK
<1>2. ASSUME NEW code \in ErrorCode, ReplyOnly(w, q, Error(code))
      PROVE  TypeInv'
  <2>1. Goto(w, [pc |-> "done", req |-> q, answer |-> Error(code)])
    BY <1>2 DEF ReplyOnly, Reply, Goto
  <2>. QED
    BY <1>1, <2>1, SessionStep, SessionFormed, AnswerFormed
<1>3. CASE ~Visible(q) /\ ReplyOnly(w, q, Error("NOT_FOUND"))
  BY <1>2, <1>3 DEF ErrorCode
<1>4. CASE Visible(q) /\ Verdict(q, runs[q.run]) = "OK"
           /\ Goto(w, [pc |-> "holding", req |-> q, disposition |-> d, row |-> runs[q.run]])
  <2>1. [pc |-> "holding", req |-> q, disposition |-> d, row |-> runs[q.run]] \in Session
    BY <1>1, <1>4, VisibleTyped, HoldingFormed
  <2>. QED
    BY <1>4, <2>1, SessionStep
<1>5. CASE Verdict(q, runs[q.run]) # "OK"
           /\ ReplyOnly(w, q, Error(Verdict(q, runs[q.run])))
  <2>1. Verdict(q, runs[q.run]) \in ErrorCode
    BY <1>5 DEF Verdict, ErrorCode
  <2>. QED
    BY <1>2, <1>5, <2>1
<1>. QED
  BY <1>3, <1>4, <1>5 DEF LockRun

\* The row a commit writes back, and the audit event it appends.
LEMMA MovedTyped ==
  ASSUME TypeInv, NEW w \in Workers, At(w, "holding"), NEW status \in ResearchRunStatus
  PROVE  /\ Moved(w, status) \in Run
         /\ Moved(w, status).status = status
         /\ Moved(w, status).version = session[w].row.version + 1
<1> DEFINE read == session[w].row
           half == [read EXCEPT !.status = status]
<1>1. read \in Run
  BY HoldingTyped DEF At, TypeInv, TypeOK
<1>2. half \in Run /\ half.status = status
  BY <1>1 DEF Run
<1>3. read.version \in Nat
  BY <1>1 DEF Run
<1>4. Moved(w, status) = [half EXCEPT !.version = read.version + 1]
  BY DEF Moved
<1> HIDE DEF half, read
<1>5. /\ [half EXCEPT !.version = read.version + 1] \in Run
      /\ [half EXCEPT !.version = read.version + 1].status = status
      /\ [half EXCEPT !.version = read.version + 1].version = read.version + 1
  BY <1>2, <1>3 DEF Run
<1>. QED
  BY <1>4, <1>5 DEF read

LEMMA WriteRunTyped ==
  ASSUME TypeInv, NEW w \in Workers, NEW row \in Run, NEW action \in AuditAction,
         WriteRun(w, row, action)
  PROVE  /\ IsTable(runs', RunIds, Run)
         /\ IsTable(audit', RunIds, Seq(AuditEvent))
         /\ DOMAIN runs' = DOMAIN runs
<1> DEFINE r == session[w].req.run
           event == [action |-> action, status |-> row.status, version |-> row.version]
<1>1. IsTable(runs', RunIds, Run) /\ DOMAIN runs' = DOMAIN runs
  BY UpdateTyped DEF WriteRun, TypeInv, TypeOK
<1>2. event \in AuditEvent
  BY DEF AuditEvent, Run
<1>3. r \in DOMAIN audit => Append(audit[r], event) \in Seq(AuditEvent)
  BY <1>2 DEF TypeInv, TypeOK, IsTable
<1>4. audit' = [audit EXCEPT ![r] = Append(audit[r], event)]
  BY DEF WriteRun
<1>5. IsTable(audit', RunIds, Seq(AuditEvent))
  BY <1>3, <1>4, UpdateTyped DEF TypeInv, TypeOK
<1>. QED
  BY <1>1, <1>5

LEMMA StatusFacts ==
  /\ Targets \subseteq ResearchRunStatus
  /\ \A decision : ReviewTarget(decision) \in {"COMPLETED", "CANCELLED"}
  /\ \A d \in Dispositions :
       OutcomeStatus(d) \in {"COMPLETED", "NEEDS_VERIFICATION", "NEEDS_HUMAN_REVIEW"}
  /\ {"CREATED", "COMPLETED", "CANCELLED", "NEEDS_VERIFICATION", "NEEDS_HUMAN_REVIEW"}
       \subseteq ResearchRunStatus
  BY RunsAssumption DEF RunsAssumption, ReviewTarget, OutcomeStatus, ResearchRunStatus, Dispositions

\* A reply sent together with a write.
LEMMA ReplyTyped ==
  ASSUME TypeInv, NEW w \in Workers, NEW q \in Request, NEW answer \in Answer,
         Reply(w, q, answer)
  PROVE  session' \in [Workers -> Session]
  BY SessionFormed DEF Reply, TypeInv, TypeOK

LEMMA TypeInvCommitTransition ==
  ASSUME TypeInv, NEW w \in Workers, CommitTransition(w)
  PROVE  TypeInv'
<1> DEFINE q == session[w].req
           row == Moved(w, q.target)
<1>1. q \in Request /\ q.run \in RunIds /\ q.target \in ResearchRunStatus
  BY HoldingTyped, RequestFields, StatusFacts
     DEF CommitTransition, At, TypeInv, TypeOK, TransitionRequest
<1>2. row \in Run
  BY <1>1, MovedTyped DEF CommitTransition
<1>3. WriteRun(w, row, "STATUS_CHANGED") /\ Reply(w, q, Completed(q.run, row))
  BY DEF CommitTransition
<1>4. Completed(q.run, row) \in Answer
  BY <1>1, <1>2, AnswerFormed DEF Run
<1>5. session' \in [Workers -> Session]
  BY <1>1, <1>3, <1>4, ReplyTyped
<1>6. UNCHANGED <<reports, reviews, resultLedger, successorLedger>>
  BY DEF CommitTransition
<1>. QED
  BY <1>2, <1>3, <1>5, <1>6, WriteRunTyped DEF TypeInv, TypeOK, LedgerNamesRuns, AuditAction

LEMMA TypeInvCommitReview ==
  ASSUME TypeInv, NEW w \in Workers, CommitReview(w)
  PROVE  TypeInv'
<1> DEFINE q == session[w].req
           row == Moved(w, ReviewTarget(q.decision))
           review == [decision |-> q.decision, from |-> session[w].row.status,
                      to |-> row.status, version |-> row.version]
<1>1. q \in Request /\ q.run \in RunIds /\ q.decision \in ResearchReviewDecision
  BY HoldingTyped, RequestFields DEF CommitReview, At, TypeInv, TypeOK, ReviewRequest
<1>2. row \in Run
  BY StatusFacts, MovedTyped DEF CommitReview
<1>3. WriteRun(w, row, "REVIEW_RECORDED") /\ Reply(w, q, Completed(q.run, row))
  BY DEF CommitReview
<1>4. Completed(q.run, row) \in Answer
  BY <1>1, <1>2, AnswerFormed DEF Run
<1>5. session' \in [Workers -> Session]
  BY <1>1, <1>3, <1>4, ReplyTyped
<1>6. IsTable(reviews', RunIds, Seq(Review))
  <2>1. session[w].row \in Run
    BY HoldingTyped DEF CommitReview, At, TypeInv, TypeOK
  <2>2. review \in Review
    BY <1>1, <1>2, <2>1 DEF Review, Run
  <2>3. q.run \in DOMAIN reviews => Append(reviews[q.run], review) \in Seq(Review)
    BY <2>2 DEF TypeInv, TypeOK, IsTable
  <2>4. reviews' = [reviews EXCEPT ![q.run] = Append(reviews[q.run], review)]
    BY DEF CommitReview
  <2>. QED
    BY <2>3, <2>4, UpdateTyped DEF TypeInv, TypeOK
<1>7. UNCHANGED <<reports, resultLedger, successorLedger>>
  BY DEF CommitReview
<1>. QED
  BY <1>2, <1>3, <1>5, <1>6, <1>7, WriteRunTyped DEF TypeInv, TypeOK, LedgerNamesRuns, AuditAction

LEMMA TypeInvRollback ==
  ASSUME TypeInv, NEW w \in Workers, At(w, "holding"), Rollback(w)
  PROVE  TypeInv'
<1>1. session[w].req \in Request /\ Matching(session[w].req, session[w].disposition)
  BY HoldingTyped DEF At, TypeInv, TypeOK
<1>. QED
  BY <1>1, ServiceStep DEF Rollback, InService

LEMMA TypeInvCommitResult ==
  ASSUME TypeInv, NEW w \in Workers, CommitResult(w)
  PROVE  TypeInv'
<1> DEFINE q == session[w].req
           d == session[w].disposition
           row == Moved(w, OutcomeStatus(d))
           response == Completed(q.run, [row EXCEPT !.version = q.expected + 1])
           report == [bundle |-> q.bundle, disposition |-> d]
           record == [hash |-> ResultHash(q), response |-> response]
<1>1. q \in Request /\ d \in Dispositions /\ q \in ResultRequest
  BY HoldingTyped, RequestFields DEF CommitResult, At, TypeInv, TypeOK, Matching
<1>2. /\ q.run \in RunIds /\ q.bundle \in Bundles /\ q.expected \in Nat
      /\ LedgerKey(q) \in LedgerKeys /\ ResultHash(q) \in Versions \X Bundles
  BY <1>1, RunsAssumption DEF ResultRequest, LedgerKey, LedgerKeys, ResultHash, RunsAssumption
<1>3. row \in Run
  BY <1>1, StatusFacts, MovedTyped DEF CommitResult
<1>4. response \in Completion /\ response \in Answer
  <2> HIDE DEF row
  <2>1. [row EXCEPT !.version = q.expected + 1].status = row.status
        /\ [row EXCEPT !.version = q.expected + 1].version = q.expected + 1
    BY <1>3 DEF Run
  <2>. QED
    BY <1>2, <1>3, <2>1, AnswerFormed DEF Run
<1>5. report \in Report /\ record \in ResultRecord
  BY <1>1, <1>2, <1>4 DEF Report, ResultRecord
<1>6. CASE Rollback(w)
  BY <1>6, TypeInvRollback DEF CommitResult
<1>7. CASE /\ WriteRun(w, row, "RESULTS_PERSISTED")
           /\ reports' = With(reports, q.run, report)
           /\ resultLedger' = With(resultLedger, LedgerKey(q), record)
           /\ Reply(w, q, response)
           /\ UNCHANGED <<reviews, successorLedger>>
  <2>1. IsTable(reports', RunIds, Report)
    BY <1>2, <1>5, <1>7, WithTyped DEF TypeInv, TypeOK
  <2>2. IsTable(resultLedger', LedgerKeys, ResultRecord)
    BY <1>2, <1>5, <1>7, WithTyped DEF TypeInv, TypeOK
  <2>3. session' \in [Workers -> Session]
    BY <1>1, <1>4, <1>7, ReplyTyped
  <2>. QED
    BY <1>3, <1>7, <2>1, <2>2, <2>3, WriteRunTyped
       DEF TypeInv, TypeOK, LedgerNamesRuns, AuditAction
<1>. QED
  BY <1>6, <1>7 DEF CommitResult

\* The tables after a run has been inserted under a fresh id.
LEMMA InsertRunTyped ==
  ASSUME TypeInv, NEW r \in RunIds, NEW row \in Run, NEW event \in AuditEvent,
         runs' = With(runs, r, row),
         reviews' = With(reviews, r, << >>),
         audit' = With(audit, r, <<event>>)
  PROVE  /\ IsTable(runs', RunIds, Run)
         /\ IsTable(reviews', RunIds, Seq(Review))
         /\ IsTable(audit', RunIds, Seq(AuditEvent))
         /\ DOMAIN runs' = DOMAIN runs \cup {r}
<1>1. << >> \in Seq(Review) /\ <<event>> \in Seq(AuditEvent)
  OBVIOUS
<1>. QED
  BY <1>1, WithTyped, WithValues DEF TypeInv, TypeOK

LEMMA TypeInvCreateRun ==
  ASSUME TypeInv, CreateRun
  PROVE  TypeInv'
<1>1. PICK t \in Tenants, o \in Opportunities, r \in RunIds :
        /\ runs' = With(runs, r, [tenant |-> t, opportunity |-> o, supersedes |-> NoRun,
                                  status |-> "CREATED", version |-> 1])
        /\ reviews' = With(reviews, r, << >>)
        /\ audit' = With(audit, r, <<[action |-> "CREATED", status |-> "CREATED", version |-> 1]>>)
  BY DEF CreateRun
<1>2. /\ [tenant |-> t, opportunity |-> o, supersedes |-> NoRun,
          status |-> "CREATED", version |-> 1] \in Run
      /\ [action |-> "CREATED", status |-> "CREATED", version |-> 1] \in AuditEvent
  BY StatusFacts DEF Run, AuditEvent, AuditAction
<1>3. UNCHANGED <<reports, resultLedger, successorLedger, session>>
  BY DEF CreateRun
<1>. QED
  BY <1>1, <1>2, <1>3, InsertRunTyped DEF TypeInv, TypeOK, LedgerNamesRuns

LEMMA TypeInvCommitSuccessor ==
  ASSUME TypeInv, NEW w \in Workers, CommitSuccessor(w)
  PROVE  TypeInv'
<1> DEFINE q == session[w].req
           row == [tenant |-> q.tenant, opportunity |-> session[w].row.opportunity,
                   supersedes |-> q.run, status |-> "CREATED", version |-> 1]
           event == [action |-> "CREATED_AS_RECALCULATION", status |-> "CREATED", version |-> 1]
<1>1. q \in Request /\ q \in SuccessorRequest /\ session[w].row \in Run
  BY HoldingTyped, RequestFields DEF CommitSuccessor, At, TypeInv, TypeOK
<1>2. /\ q.run \in RunIds /\ q.tenant \in Tenants
      /\ LedgerKey(q) \in LedgerKeys /\ SuccessorHash(q) \in Versions \X Reasons
  BY <1>1 DEF SuccessorRequest, LedgerKey, LedgerKeys, SuccessorHash
<1>3. row \in Run /\ event \in AuditEvent
  BY <1>1, <1>2, StatusFacts DEF Run, AuditEvent, AuditAction
<1>4. CASE Rollback(w)
  BY <1>4, TypeInvRollback DEF CommitSuccessor
<1>5. ASSUME NEW s \in RunIds,
             runs' = With(runs, s, row),
             reviews' = With(reviews, s, << >>),
             audit' = With(audit, s, <<event>>),
             successorLedger' = With(successorLedger, LedgerKey(q),
                                     [hash |-> SuccessorHash(q), run |-> s]),
             Reply(w, q, Completed(s, row)),
             UNCHANGED <<reports, resultLedger>>
      PROVE  TypeInv'
  <2> DEFINE record == [hash |-> SuccessorHash(q), run |-> s]
  <2>1. record \in SuccessorRecord
    BY <1>2 DEF SuccessorRecord
  <2>2. IsTable(successorLedger', LedgerKeys, SuccessorRecord)
    BY <1>2, <1>5, <2>1, WithTyped DEF TypeInv, TypeOK
  <2>3. Completed(s, row) \in Answer
    BY StatusFacts, AnswerFormed
  <2>4. session' \in [Workers -> Session]
    BY <1>1, <1>5, <2>3, ReplyTyped
  <2>5. /\ IsTable(runs', RunIds, Run) /\ IsTable(reviews', RunIds, Seq(Review))
        /\ IsTable(audit', RunIds, Seq(AuditEvent)) /\ DOMAIN runs' = DOMAIN runs \cup {s}
    BY <1>3, <1>5, InsertRunTyped
  <2>6. LedgerNamesRuns'
    <3>1. \A k \in DOMAIN successorLedger' : successorLedger'[k].run \in DOMAIN runs \cup {s}
      BY <1>5, WithValues DEF TypeInv, LedgerNamesRuns, With
    <3>. QED
      BY <2>5, <3>1 DEF LedgerNamesRuns
  <2>. QED
    BY <1>5, <2>2, <2>4, <2>5, <2>6 DEF TypeInv, TypeOK
<1>. QED
  BY <1>4, <1>5 DEF CommitSuccessor

LEMMA TypeInvLeave ==
  ASSUME TypeInv, NEW w \in Workers,
         SourceNameTaken(w) \/ Recover(w) \/ Deliver(w) \/ Crash(w)
  PROVE  TypeInv'
<1>1. CASE SourceNameTaken(w)
  BY <1>1, TypeInvRollback DEF SourceNameTaken
<1>2. CASE Recover(w)
  <2> DEFINE q == session[w].req
             answer == IF InLedger(q) THEN Replayed(q) ELSE Error("INTERNAL_ERROR")
  <2>1. q \in Request
    BY <1>2, ServiceTyped DEF Recover, At, InService, TypeInv, TypeOK
  <2>2. answer \in Answer
    BY <2>1, ReplayTyped, AnswerFormed DEF ErrorCode
  <2>3. Goto(w, [pc |-> "done", req |-> q, answer |-> answer])
    BY <1>2 DEF Recover, ReplyOnly, Reply, Goto
  <2>. QED
    BY <2>1, <2>2, <2>3, SessionFormed, SessionStep
<1>3. CASE Deliver(w) \/ Crash(w)
  BY <1>3, SessionFormed, SessionStep DEF Deliver, Crash
<1>. QED
  BY <1>1, <1>2, <1>3

LEMMA TypeInvNext == TypeInv /\ [Next]_vars => TypeInv'
<1> SUFFICES ASSUME TypeInv, [Next]_vars PROVE TypeInv'
  OBVIOUS
<1>1. CASE UNCHANGED vars
  BY <1>1 DEF vars, db, TypeInv, TypeOK, LedgerNamesRuns
<1>2. CASE CreateRun
  BY <1>2, TypeInvCreateRun
<1>3. ASSUME NEW w \in Workers, Ask(w) \/ LookAgain(w)
      PROVE  TypeInv'
  BY <1>3, TypeInvAsk
<1>4. ASSUME NEW w \in Workers, LockRun(w)
      PROVE  TypeInv'
  BY <1>4, TypeInvLock
<1>5. ASSUME NEW w \in Workers, Commit(w)
      PROVE  TypeInv'
  BY <1>5, TypeInvCommitTransition, TypeInvCommitReview, TypeInvCommitResult,
     TypeInvCommitSuccessor DEF Commit
<1>6. ASSUME NEW w \in Workers, SourceNameTaken(w) \/ Recover(w) \/ Deliver(w) \/ Crash(w)
      PROVE  TypeInv'
  BY <1>6, TypeInvLeave
<1>. QED
  BY <1>1, <1>2, <1>3, <1>4, <1>5, <1>6 DEF Next

\* Type correctness of the research-run commands.
THEOREM TypeCorrect == Spec => []TypeOK
<1>1. Spec => []TypeInv
  BY TypeInvInit, TypeInvNext, PTL DEF Spec
<1>2. TypeInv => TypeOK
  BY DEF TypeInv
<1>. QED
  BY <1>1, <1>2, PTL

-----------------------------------------------------------------------------
(* What the row locks give.  A worker that holds a run still sees the row  *)
(* it read, its command is still permitted, and no other worker holds the  *)
(* same run; hence the checks made under the lock still hold when the      *)
(* commit writes.  With that, reports and statuses agree and the audit     *)
(* trail replays to the row.                                               *)

Granted(q, row) ==
  /\ row.version = q.expected
  /\ Permitted(q, row)
  /\ q.op = "result" => q.run \notin DOMAIN reports

HoldersSeeTheirRow ==
  \A w \in Workers : At(w, "holding") =>
    /\ session[w].req.run \in DOMAIN runs
    /\ session[w].row = runs[session[w].req.run]
    /\ session[w].row.tenant = session[w].req.tenant
    /\ Granted(session[w].req, session[w].row)

OneHolder ==
  \A v, w \in Workers :
    At(v, "holding") /\ At(w, "holding") /\ session[v].req.run = session[w].req.run => v = w

SameRuns ==
  /\ DOMAIN audit = DOMAIN runs
  /\ DOMAIN reviews = DOMAIN runs
  /\ DOMAIN reports \subseteq DOMAIN runs

Chronicled(r) ==
  /\ Len(audit[r]) = runs[r].version
  /\ runs[r].version >= 1
  /\ audit[r][Len(audit[r])].status = runs[r].status
  /\ \A i \in 1 .. Len(audit[r]) : audit[r][i].version = i

AuditMatchesRow == \A r \in DOMAIN runs : Chronicled(r)

LockInv == HoldersSeeTheirRow /\ OneHolder
RecordInv == SameRuns /\ AuditMatchesRow /\ ReportGatesStatus
SafetyInv == TypeInv /\ LockInv /\ RecordInv

LEMMA VerdictGrants ==
  ASSUME NEW q, NEW row, Verdict(q, row) = "OK"
  PROVE  Granted(q, row)
  BY DEF Verdict, Granted

\* What a granted command may turn its run into.
LEMMA GrantedStatus ==
  ASSUME NEW q \in Request, NEW row \in Run, Permitted(q, row)
  PROVE  /\ q.op = "transition" =>
              /\ row.status \in {"CREATED", "RUNNING", "FAILED"}
              /\ q.target \in {"RUNNING", "FAILED", "CANCELLED"}
              /\ q.target \in RESEARCH_TRANSITIONS[row.status]
         /\ q.op = "review" =>
              /\ row.status \in REVIEWABLE_RESEARCH_STATUSES
              /\ ReviewTarget(q.decision) \in RESEARCH_TRANSITIONS[row.status]
         /\ q.op = "result" =>
              /\ row.status = "RUNNING"
              /\ \A d \in Dispositions : OutcomeStatus(d) \in RESEARCH_TRANSITIONS[row.status]
         /\ q.op = "successor" => q.run \in DOMAIN reports
<1>1. row.status \in ResearchRunStatus
  BY DEF Run
<1>2. CASE q.op = "transition"
  <2>1. q.target \in MANUAL_RESEARCH_TRANSITIONS[row.status]
    BY <1>2 DEF Permitted
  <2>. QED
    BY <1>1, <1>2, <2>1
       DEF MANUAL_RESEARCH_TRANSITIONS, RESEARCH_TRANSITIONS, ResearchRunStatus
<1>3. CASE q.op = "review"
  BY <1>3 DEF Permitted, ReviewPermitted
<1>4. CASE q.op = "result"
  <2>1. row.status = "RUNNING"
    BY <1>4 DEF Permitted
  <2>. QED
    BY <1>4, <2>1
       DEF RESEARCH_TRANSITIONS, ResearchRunStatus, OutcomeStatus, Dispositions
<1>5. CASE q.op = "successor"
  BY <1>5 DEF Permitted
<1>. QED
  BY <1>2, <1>3, <1>4, <1>5, RequestFields

\* A step that only moves a session, and not into a transaction that holds a row.
LEMMA SafeGoto ==
  ASSUME LockInv, RecordInv, session \in [Workers -> Session],
         NEW w \in Workers, NEW s, s.pc # "holding", Goto(w, s)
  PROVE  LockInv' /\ RecordInv'
<1>1. /\ \A v \in Workers : At(v, "holding")' => v # w /\ session'[v] = session[v] /\ At(v, "holding")
      /\ UNCHANGED db
  BY DEF Goto, At
<1>2. HoldersSeeTheirRow'
  <2>1. \A q, row : Granted(q, row) => Granted(q, row)'
    BY <1>1 DEF db, Granted, Permitted
  <2>. QED
    BY <1>1, <2>1 DEF LockInv, HoldersSeeTheirRow, db
<1>4. OneHolder'
  BY <1>1 DEF LockInv, OneHolder
<1>3. RecordInv'
  BY <1>1 DEF RecordInv, SameRuns, AuditMatchesRow, Chronicled, ReportGatesStatus, db
<1>. QED
  BY <1>2, <1>3, <1>4 DEF LockInv

\* The row lock is free: the reader sees the current row and is the only holder.
LEMMA SafeLock ==
  ASSUME SafetyInv, NEW w \in Workers, LockRun(w)
  PROVE  LockInv' /\ RecordInv'
<1> DEFINE q == session[w].req
           held == [pc |-> "holding", req |-> q, disposition |-> session[w].disposition,
                    row |-> runs[q.run]]
<1>0. session \in [Workers -> Session] /\ LockInv /\ RecordInv
  BY DEF SafetyInv, TypeInv, TypeOK
<1>1. ASSUME NEW code, ReplyOnly(w, q, Error(code))
      PROVE  LockInv' /\ RecordInv'
  <2>1. Goto(w, [pc |-> "done", req |-> q, answer |-> Error(code)])
    BY <1>1 DEF ReplyOnly, Reply, Goto
  <2>. QED
    BY <1>0, <2>1, SafeGoto
<1>2. CASE Visible(q) /\ ~Locked(q.run) /\ Verdict(q, runs[q.run]) = "OK" /\ Goto(w, held)
  <2>1. UNCHANGED db /\ session'[w] = held
    BY <1>0, <1>2 DEF Goto
  <2>2. \A v \in Workers : v # w => session'[v] = session[v]
    BY <1>0, <1>2 DEF Goto
  <2>3. RecordInv'
    BY <1>0, <2>1 DEF RecordInv, SameRuns, AuditMatchesRow, Chronicled, ReportGatesStatus, db
  <2>4. HoldersSeeTheirRow'
    <3>1. \A p, row : Granted(p, row) => Granted(p, row)'
      BY <2>1 DEF db, Granted, Permitted
    <3>2. Granted(q, runs[q.run])
      BY <1>2, VerdictGrants
    <3>. QED
      BY <1>0, <1>2, <2>1, <2>2, <3>1, <3>2 DEF LockInv, HoldersSeeTheirRow, At, Visible, db
  <2>5. OneHolder'
    BY <1>0, <1>2, <2>1, <2>2 DEF LockInv, OneHolder, At, Locked
  <2>. QED
    BY <2>3, <2>4, <2>5 DEF LockInv
<1>. QED
  BY <1>1, <1>2 DEF LockRun

\* A holder writes its run: a permitted status, the next version, one audit
\* event.  Nothing else about any run changes, and the lock is released.
LEMMA SafeWrite ==
  ASSUME SafetyInv, NEW w \in Workers, At(w, "holding"),
         NEW status \in ResearchRunStatus, NEW action \in AuditAction,
         NEW q, q = session[w].req, NEW answer,
         WriteRun(w, Moved(w, status), action),
         Reply(w, q, answer),
         DOMAIN reviews' = DOMAIN reviews,
         DOMAIN reports \subseteq DOMAIN reports',
         DOMAIN reports' \subseteq DOMAIN reports \cup {q.run},
         q.run \in DOMAIN reports' =>
           status \in {"NEEDS_VERIFICATION", "NEEDS_HUMAN_REVIEW"} \cup Terminal,
         status \in REVIEWABLE_RESEARCH_STATUSES \cup {"COMPLETED"} => q.run \in DOMAIN reports'
  PROVE  LockInv' /\ RecordInv'
<1> DEFINE r == q.run
           row == Moved(w, status)
           event == [action |-> action, status |-> row.status, version |-> row.version]
<1>0. session \in [Workers -> Session] /\ LockInv /\ RecordInv /\ TypeInv
  BY DEF SafetyInv, TypeInv, TypeOK
<1>1. /\ r \in DOMAIN runs /\ r \in DOMAIN audit
      /\ session[w].row = runs[r]
      /\ runs[r] \in Run /\ audit[r] \in Seq(AuditEvent)
  BY <1>0 DEF LockInv, HoldersSeeTheirRow, RecordInv, SameRuns, TypeInv, TypeOK, IsTable
<1>2. row.status = status /\ row.version = runs[r].version + 1
  BY <1>0, <1>1, MovedTyped
<1>3. /\ session'[w].pc = "done"
      /\ \A v \in Workers : v # w => session'[v] = session[v]
  BY <1>0 DEF Reply
<1>4. /\ DOMAIN runs' = DOMAIN runs /\ DOMAIN audit' = DOMAIN audit
      /\ runs'[r] = row /\ audit'[r] = Append(audit[r], event)
      /\ \A x \in DOMAIN runs : x # r => runs'[x] = runs[x]
      /\ \A x \in DOMAIN audit : x # r => audit'[x] = audit[x]
  BY <1>0, <1>1 DEF WriteRun, TypeInv, TypeOK, IsTable
<1> HIDE DEF row
<1>5. HoldersSeeTheirRow'
  <2> SUFFICES ASSUME NEW v \in Workers, At(v, "holding")'
               PROVE  (/\ session[v].req.run \in DOMAIN runs
                       /\ session[v].row = runs[session[v].req.run]
                       /\ session[v].row.tenant = session[v].req.tenant
                       /\ Granted(session[v].req, session[v].row))'
    BY DEF HoldersSeeTheirRow
  <2>1. v # w /\ session'[v] = session[v] /\ At(v, "holding")
    BY <1>3 DEF At
  <2>2. session[v].req.run # r
    BY <1>0, <2>1 DEF LockInv, OneHolder
  <2>3. /\ session[v].req.run \in DOMAIN runs
        /\ session[v].row = runs[session[v].req.run]
        /\ session[v].row.tenant = session[v].req.tenant
        /\ Granted(session[v].req, session[v].row)
    BY <1>0, <2>1 DEF LockInv, HoldersSeeTheirRow
  <2>4. Granted(session[v].req, session[v].row)'
    BY <1>4, <2>1, <2>2, <2>3 DEF Granted, Permitted
  <2>. QED
    BY <1>4, <2>1, <2>2, <2>3, <2>4
<1>6. OneHolder'
  BY <1>0, <1>3 DEF LockInv, OneHolder, At
<1>7. SameRuns'
  BY <1>0, <1>1, <1>4 DEF RecordInv, SameRuns
<1>8. AuditMatchesRow'
  <2> SUFFICES ASSUME NEW x \in DOMAIN runs' PROVE Chronicled(x)'
    BY DEF AuditMatchesRow
  <2>1. Chronicled(x) /\ x \in DOMAIN runs /\ x \in DOMAIN audit
    BY <1>0, <1>4 DEF RecordInv, AuditMatchesRow, SameRuns
  <2>2. CASE x # r
    BY <1>4, <2>1, <2>2 DEF Chronicled
  <2>3. CASE x = r
    <3>1. event.status = status /\ event.version = runs[r].version + 1
      BY <1>2
    <3>2. Len(audit[r]) = runs[r].version /\ runs[r].version \in Nat
      BY <1>1, <2>1, <2>3 DEF Chronicled, Run
    <3> HIDE DEF event
    <3>3. /\ Len(audit'[r]) = Len(audit[r]) + 1
          /\ audit'[r][Len(audit[r]) + 1] = event
          /\ \A i \in 1 .. Len(audit[r]) : audit'[r][i] = audit[r][i]
      BY <1>1, <1>4
    <3>4. /\ Len(audit'[r]) = runs'[r].version
          /\ runs'[r].version >= 1
          /\ audit'[r][Len(audit'[r])].status = runs'[r].status
      BY <1>2, <1>4, <3>1, <3>2, <3>3
    <3>5. \A i \in 1 .. Len(audit[r]) : audit[r][i].version = i
      BY <2>1, <2>3 DEF Chronicled
    <3>6. ASSUME NEW i \in 1 .. Len(audit'[r])
          PROVE  audit'[r][i].version = i
      <4> DEFINE n == Len(audit[r])
      <4>0. n \in Nat /\ i \in 1 .. n + 1
        BY <3>2, <3>3
      <4>1. i \in 1 .. n \/ i = n + 1
        <5> HIDE DEF n
        <5>. QED BY <4>0
      <4>. QED
        BY <3>1, <3>2, <3>3, <3>5, <4>1
    <3>. QED
      BY <2>3, <3>4, <3>6 DEF Chronicled
  <2>. QED
    BY <2>2, <2>3
<1>9. ReportGatesStatus'
  BY <1>0, <1>2, <1>4 DEF RecordInv, ReportGatesStatus
<1>. QED
  BY <1>5, <1>6, <1>7, <1>8, <1>9 DEF LockInv, RecordInv

\* A run inserted under a fresh id disturbs no other run and no holder.
LEMMA SafeInsert ==
  ASSUME SafetyInv, NEW r \in RunIds, r \notin DOMAIN runs,
         NEW row \in Run, row.status = "CREATED", row.version = 1,
         NEW event \in AuditEvent, event.status = "CREATED", event.version = 1,
         runs' = With(runs, r, row),
         reviews' = With(reviews, r, << >>),
         audit' = With(audit, r, <<event>>),
         UNCHANGED reports,
         \A v \in Workers : At(v, "holding")' => session'[v] = session[v]
  PROVE  LockInv' /\ RecordInv'
<1>0. LockInv /\ RecordInv
  BY DEF SafetyInv
<1>1. /\ DOMAIN runs' = DOMAIN runs \cup {r} /\ runs'[r] = row
      /\ \A x \in DOMAIN runs : x # r /\ runs'[x] = runs[x]
      /\ DOMAIN audit' = DOMAIN audit \cup {r} /\ audit'[r] = <<event>>
      /\ \A x \in DOMAIN audit : x # r /\ audit'[x] = audit[x]
      /\ DOMAIN reviews' = DOMAIN reviews \cup {r}
  BY <1>0 DEF RecordInv, SameRuns, With
<1>2. HoldersSeeTheirRow'
  <2> SUFFICES ASSUME NEW v \in Workers, At(v, "holding")'
               PROVE  (/\ session[v].req.run \in DOMAIN runs
                       /\ session[v].row = runs[session[v].req.run]
                       /\ session[v].row.tenant = session[v].req.tenant
                       /\ Granted(session[v].req, session[v].row))'
    BY DEF HoldersSeeTheirRow
  <2>1. session'[v] = session[v] /\ At(v, "holding")
    BY DEF At
  <2>2. /\ session[v].req.run \in DOMAIN runs
        /\ session[v].row = runs[session[v].req.run]
        /\ session[v].row.tenant = session[v].req.tenant
        /\ Granted(session[v].req, session[v].row)
    BY <1>0, <2>1 DEF LockInv, HoldersSeeTheirRow
  <2>3. Granted(session[v].req, session[v].row)'
    BY <2>1, <2>2 DEF Granted, Permitted
  <2>. QED
    BY <1>1, <2>1, <2>2, <2>3
<1>3. OneHolder'
  BY <1>0 DEF LockInv, OneHolder, At
<1>4. SameRuns'
  BY <1>0, <1>1 DEF RecordInv, SameRuns
<1>5. AuditMatchesRow'
  <2> SUFFICES ASSUME NEW x \in DOMAIN runs' PROVE Chronicled(x)'
    BY DEF AuditMatchesRow
  <2>1. CASE x # r
    BY <1>0, <1>1, <2>1 DEF RecordInv, AuditMatchesRow, SameRuns, Chronicled
  <2>2. CASE x = r
    <3>1. audit'[r] = <<event>> /\ runs'[r].version = 1 /\ runs'[r].status = "CREATED"
      BY <1>1
    <3>2. Len(<<event>>) = 1 /\ <<event>>[1] = event
      OBVIOUS
    <3>3. \A i \in 1 .. 1 : i = 1
      OBVIOUS
    <3>4. Len(audit'[r]) = 1 /\ audit'[r][1] = event
      BY <3>1, <3>2
    <3>5. \A i \in 1 .. Len(audit'[r]) : audit'[r][i].version = i
      BY <3>3, <3>4
    <3>6. /\ Len(audit'[r]) = runs'[r].version /\ runs'[r].version >= 1
          /\ audit'[r][Len(audit'[r])].status = runs'[r].status
      BY <3>1, <3>4
    <3>. QED
      BY <2>2, <3>5, <3>6 DEF Chronicled
  <2>. QED
    BY <2>1, <2>2
<1>6. ReportGatesStatus'
  BY <1>0, <1>1 DEF RecordInv, ReportGatesStatus, SameRuns, REVIEWABLE_RESEARCH_STATUSES
<1>. QED
  BY <1>2, <1>3, <1>4, <1>5, <1>6 DEF LockInv, RecordInv

\* A rollback, a reply, an arrival: the steps that write nothing.
LEMMA SafeQuiet ==
  ASSUME SafetyInv, NEW w \in Workers,
         \/ Ask(w) \/ LookAgain(w) \/ SourceNameTaken(w) \/ Recover(w) \/ Deliver(w) \/ Crash(w)
         \/ Rollback(w)
  PROVE  LockInv' /\ RecordInv'
<1>1. \E s : s.pc # "holding" /\ Goto(w, s)
  <2>1. ASSUME NEW q, NEW answer, ReplyOnly(w, q, answer)
        PROVE  \E s : s.pc # "holding" /\ Goto(w, s)
    <3>1. Goto(w, [pc |-> "done", req |-> q, answer |-> answer])
      BY <2>1 DEF ReplyOnly, Reply, Goto
    <3>. QED
      BY <3>1
  <2>2. CASE AskResult(w)
    BY <2>1, <2>2 DEF AskResult
  <2>3. CASE AskSuccessor(w)
    BY <2>1, <2>3 DEF AskSuccessor
  <2>4. CASE AskTransition(w) \/ AskReview(w)
    BY <2>4 DEF AskTransition, AskReview, Begun
  <2>5. CASE LookAgain(w)
    BY <2>1, <2>5 DEF LookAgain, Begun
  <2>6. CASE SourceNameTaken(w) \/ Rollback(w)
    BY <2>6 DEF SourceNameTaken, Rollback
  <2>7. CASE Recover(w)
    BY <2>1, <2>7 DEF Recover
  <2>8. CASE Deliver(w) \/ Crash(w)
    BY <2>8 DEF Deliver, Crash, Idle
  <2>. QED
    BY <2>2, <2>3, <2>4, <2>5, <2>6, <2>7, <2>8 DEF Ask
<1>. QED
  BY <1>1, SafeGoto DEF SafetyInv, TypeInv, TypeOK

\* What the locks grant the worker that is about to commit.
LEMMA HolderGranted ==
  ASSUME SafetyInv, NEW w \in Workers, At(w, "holding")
  PROVE  /\ session[w].req \in Request /\ session[w].row \in Run
         /\ Matching(session[w].req, session[w].disposition)
         /\ session[w].req.run \in DOMAIN runs
         /\ session[w].row = runs[session[w].req.run]
         /\ Granted(session[w].req, session[w].row)
  BY HoldingTyped DEF SafetyInv, TypeInv, TypeOK, LockInv, HoldersSeeTheirRow, At

LEMMA SafeCommit ==
  ASSUME SafetyInv, NEW w \in Workers, Commit(w)
  PROVE  LockInv' /\ RecordInv'
<1> DEFINE q == session[w].req
           d == session[w].disposition
<1>0. /\ At(w, "holding") /\ q \in Request /\ Matching(q, d)
      /\ q.run \in DOMAIN runs /\ Permitted(q, runs[q.run]) /\ runs[q.run] \in Run
  BY HolderGranted DEF Commit, CommitTransition, CommitReview, CommitResult, CommitSuccessor, Granted
<1>00. RecordInv
  BY DEF SafetyInv
<1>1. CASE CommitTransition(w)
  <2>1. /\ runs[q.run].status \in {"CREATED", "RUNNING", "FAILED"}
        /\ q.target \in {"RUNNING", "FAILED", "CANCELLED"}
    BY <1>0, <1>1, GrantedStatus DEF CommitTransition
  <2>2. q.run \notin DOMAIN reports
    BY <1>0, <1>00, <2>1 DEF RecordInv, ReportGatesStatus, Terminal
  <2>3. q.target \in ResearchRunStatus
    BY <2>1 DEF ResearchRunStatus
  <2>4. /\ WriteRun(w, Moved(w, q.target), "STATUS_CHANGED")
        /\ Reply(w, q, Completed(q.run, Moved(w, q.target)))
        /\ UNCHANGED <<reports, reviews>>
    BY <1>1 DEF CommitTransition
  <2>. QED
    BY <1>0, <2>1, <2>2, <2>3, <2>4, SafeWrite DEF AuditAction, REVIEWABLE_RESEARCH_STATUSES
<1>2. CASE CommitReview(w)
  <2> DEFINE target == ReviewTarget(q.decision)
  <2>1. runs[q.run].status \in REVIEWABLE_RESEARCH_STATUSES
    BY <1>0, <1>2, GrantedStatus DEF CommitReview
  <2>2. q.run \in DOMAIN reports
    BY <1>0, <1>00, <2>1 DEF RecordInv, ReportGatesStatus
  <2>3. target \in Terminal /\ target \in ResearchRunStatus
    BY StatusFacts DEF Terminal, ResearchRunStatus
  <2>4. /\ WriteRun(w, Moved(w, target), "REVIEW_RECORDED")
        /\ Reply(w, q, Completed(q.run, Moved(w, target)))
        /\ DOMAIN reviews' = DOMAIN reviews /\ UNCHANGED reports
    BY <1>2 DEF CommitReview
  <2>. QED
    BY <1>0, <2>2, <2>3, <2>4, SafeWrite DEF AuditAction
<1>3. CASE CommitResult(w)
  <2> DEFINE target == OutcomeStatus(d)
             report == [bundle |-> q.bundle, disposition |-> d]
  <2>1. target \in {"COMPLETED", "NEEDS_VERIFICATION", "NEEDS_HUMAN_REVIEW"}
        /\ target \in ResearchRunStatus
    BY <1>0, <1>3, StatusFacts DEF CommitResult, Matching, ResearchRunStatus
  <2>2. CASE Rollback(w)
    BY <2>2, SafeQuiet
  <2>3. ASSUME NEW answer,
               WriteRun(w, Moved(w, target), "RESULTS_PERSISTED"), Reply(w, q, answer),
               reports' = With(reports, q.run, report), UNCHANGED reviews
        PROVE  LockInv' /\ RecordInv'
    <3>1. DOMAIN reports' = DOMAIN reports \cup {q.run}
      BY <2>3 DEF With
    <3>. QED
      BY <1>0, <2>1, <2>3, <3>1, SafeWrite DEF AuditAction, Terminal
  <2>. QED
    BY <1>3, <2>2, <2>3 DEF CommitResult
<1>4. CASE CommitSuccessor(w)
  <2> DEFINE row == [tenant |-> q.tenant, opportunity |-> session[w].row.opportunity,
                     supersedes |-> q.run, status |-> "CREATED", version |-> 1]
             event == [action |-> "CREATED_AS_RECALCULATION", status |-> "CREATED",
                       version |-> 1]
  <2>1. CASE Rollback(w)
    BY <2>1, SafeQuiet
  <2>2. ASSUME NEW s \in RunIds \ DOMAIN runs, runs' = With(runs, s, row),
               reviews' = With(reviews, s, << >>), audit' = With(audit, s, <<event>>),
               Reply(w, q, Completed(s, row)), UNCHANGED reports
        PROVE  LockInv' /\ RecordInv'
    <3>1. row \in Run /\ event \in AuditEvent
      BY <1>0, HolderGranted, RequestFields, StatusFacts DEF Run, AuditEvent, AuditAction
    <3>2. \A v \in Workers : At(v, "holding")' => session'[v] = session[v]
      BY <2>2 DEF Reply, At, SafetyInv, TypeInv, TypeOK
    <3>. QED
      BY <2>2, <3>1, <3>2, SafeInsert
  <2>. QED
    BY <1>4, <2>1, <2>2 DEF CommitSuccessor
<1>. QED
  BY <1>1, <1>2, <1>3, <1>4 DEF Commit

LEMMA SafetyInvInit == Init => SafetyInv
<1> SUFFICES ASSUME Init PROVE SafetyInv
  OBVIOUS
<1>1. TypeInv
  BY TypeInvInit
<1>2. LockInv
  BY DEF Init, LockInv, HoldersSeeTheirRow, OneHolder, At, Idle
<1>3. RecordInv
  BY EmptyTableTyped DEF Init, RecordInv, SameRuns, AuditMatchesRow, ReportGatesStatus
<1>. QED
  BY <1>1, <1>2, <1>3 DEF SafetyInv

LEMMA SafetyInvNext == SafetyInv /\ [Next]_vars => SafetyInv'
<1> SUFFICES ASSUME SafetyInv, [Next]_vars PROVE LockInv' /\ RecordInv'
  BY TypeInvNext DEF SafetyInv
<1>1. CASE UNCHANGED vars
  <2>1. \A q, row : Granted(q, row) => Granted(q, row)'
    BY <1>1 DEF vars, db, Granted, Permitted
  <2>2. LockInv'
    BY <1>1, <2>1 DEF SafetyInv, LockInv, HoldersSeeTheirRow, OneHolder, At, vars, db
  <2>3. RecordInv'
    BY <1>1 DEF SafetyInv, RecordInv, SameRuns, AuditMatchesRow, Chronicled, ReportGatesStatus, vars, db
  <2>. QED
    BY <2>2, <2>3
<1>2. CASE CreateRun
  <2>1. PICK t \in Tenants, o \in Opportunities, r \in RunIds \ DOMAIN runs :
          /\ runs' = With(runs, r, [tenant |-> t, opportunity |-> o, supersedes |-> NoRun,
                                    status |-> "CREATED", version |-> 1])
          /\ reviews' = With(reviews, r, << >>)
          /\ audit' = With(audit, r, <<[action |-> "CREATED", status |-> "CREATED",
                                        version |-> 1]>>)
          /\ UNCHANGED <<reports, session>>
    BY <1>2 DEF CreateRun
  <2>2. /\ [tenant |-> t, opportunity |-> o, supersedes |-> NoRun,
            status |-> "CREATED", version |-> 1] \in Run
        /\ [action |-> "CREATED", status |-> "CREATED", version |-> 1] \in AuditEvent
    BY StatusFacts DEF Run, AuditEvent, AuditAction
  <2>. QED
    BY <2>1, <2>2, SafeInsert
<1>3. ASSUME NEW w \in Workers,
             \/ Ask(w) \/ LookAgain(w) \/ SourceNameTaken(w) \/ Recover(w)
             \/ Deliver(w) \/ Crash(w)
      PROVE  LockInv' /\ RecordInv'
  BY <1>3, SafeQuiet
<1>4. ASSUME NEW w \in Workers, LockRun(w)
      PROVE  LockInv' /\ RecordInv'
  BY <1>4, SafeLock
<1>5. ASSUME NEW w \in Workers, Commit(w)
      PROVE  LockInv' /\ RecordInv'
  BY <1>5, SafeCommit
<1>. QED
  BY <1>1, <1>2, <1>3, <1>4, <1>5 DEF Next

LEMMA SafetyInvHolds == Spec => []SafetyInv
  BY SafetyInvInit, SafetyInvNext, PTL DEF Spec

\* Reports and run statuses agree in every reachable state: a run that is under
\* review or completed has its report, and a run with a report is never runnable.
THEOREM ReportsGateStatuses == Spec => []ReportGatesStatus
<1>1. SafetyInv => ReportGatesStatus
  BY DEF SafetyInv, RecordInv
<1>. QED
  BY <1>1, SafetyInvHolds, PTL

-----------------------------------------------------------------------------
(* The research runs implement VersionedHistory.                           *)

LEMMA StatusesAppend ==
  ASSUME NEW events \in Seq(AuditEvent), NEW event \in AuditEvent
  PROVE  Statuses(Append(events, event)) = Append(Statuses(events), event.status)
<1> DEFINE n == Len(events)
           longer == Append(events, event)
           old == Statuses(events)
<1>1. n \in Nat /\ Len(longer) = n + 1 /\ longer[n + 1] = event
      /\ \A i \in 1 .. n : longer[i] = events[i]
  OBVIOUS
<1>2. old \in [1 .. n -> ResearchRunStatus]
  <2>1. \A i \in 1 .. n : events[i].status \in ResearchRunStatus
    <3>1. \A i \in 1 .. n : events[i] \in AuditEvent
      BY ElementOfSeq
    <3>. QED
      BY <3>1 DEF AuditEvent
  <2>2. old = [i \in 1 .. n |-> events[i].status]
    BY DEF Statuses
  <2> HIDE DEF old, n
  <2>. QED
    BY <2>1, <2>2
<1>3. old \in Seq(ResearchRunStatus) /\ Len(old) = n
  BY <1>1, <1>2, SeqDef, LenProperties
<1>4. event.status \in ResearchRunStatus
  BY DEF AuditEvent
<1>5. /\ Append(old, event.status) = [i \in 1 .. n + 1 |-> IF i = n + 1 THEN event.status ELSE old[i]]
  BY <1>3, <1>4
<1>6. Statuses(longer) = [i \in 1 .. n + 1 |-> longer[i].status]
  BY <1>1 DEF Statuses
<1>7. ASSUME NEW i \in 1 .. n + 1
      PROVE  longer[i].status = IF i = n + 1 THEN event.status ELSE old[i]
  <2>1. CASE i = n + 1
    BY <1>1, <2>1
  <2>2. CASE i # n + 1
    <3>1. i \in 1 .. n
      BY <1>1, <2>2
    <3>2. old[i] = events[i].status
      BY <3>1 DEF Statuses
    <3>. QED
      BY <1>1, <2>2, <3>1, <3>2
  <2>. QED
    BY <2>1, <2>2
<1>. QED
  BY <1>5, <1>6, <1>7

\* A commit on a held run is one step of the abstract history.
LEMMA WriteAdvances ==
  ASSUME SafetyInv, NEW w \in Workers, At(w, "holding"),
         NEW status \in ResearchRunStatus,
         status \in RESEARCH_TRANSITIONS[session[w].row.status],
         NEW action \in AuditAction, WriteRun(w, Moved(w, status), action)
  PROVE  History!Advance(session[w].req.run)
<1> DEFINE r == session[w].req.run
           old == audit[r]
           event == [action |-> action, status |-> status, version |-> runs[r].version + 1]
<1>1. /\ r \in DOMAIN runs /\ r \in DOMAIN audit /\ DOMAIN audit = DOMAIN runs
      /\ session[w].row = runs[r] /\ runs[r] \in Run /\ old \in Seq(AuditEvent)
  BY HolderGranted DEF SafetyInv, RecordInv, SameRuns, TypeInv, TypeOK, IsTable
<1>2. /\ Moved(w, status).status = status
      /\ Moved(w, status).version = runs[r].version + 1
  BY <1>1, MovedTyped DEF SafetyInv
<1>3. /\ runs' = [runs EXCEPT ![r] = Moved(w, status)]
      /\ audit' = [audit EXCEPT ![r] = Append(old, event)]
  BY <1>2 DEF WriteRun
<1>4. Statuses(Append(old, event)) = Append(Statuses(old), status)
  <2>1. event \in AuditEvent
    BY <1>1 DEF AuditEvent, Run
  <2>. QED
    BY <1>1, <2>1, StatusesAppend
<1>5. RunRow' = [RunRow EXCEPT ![r] = [state |-> status, version |-> RunRow[r].version + 1]]
  BY <1>1, <1>2, <1>3 DEF RunRow
<1>6. RunHistory' = [RunHistory EXCEPT ![r] = Append(RunHistory[r], status)]
  BY <1>1, <1>3, <1>4 DEF RunHistory
<1>7. <<RunRow[r].state, status>> \in LegalChanges /\ r \in DOMAIN RunRow
  BY <1>1 DEF LegalChanges, RunRow, Run
<1>. QED
  BY <1>5, <1>6, <1>7 DEF History!Advance

\* So is the insertion of a run.
LEMMA InsertOpens ==
  ASSUME SafetyInv, NEW r \in RunIds, r \notin DOMAIN runs,
         NEW row, row.status = "CREATED", row.version = 1,
         NEW event, event.status = "CREATED",
         runs' = With(runs, r, row), audit' = With(audit, r, <<event>>)
  PROVE  History!Open(r)
<1>1. DOMAIN audit = DOMAIN runs
  BY DEF SafetyInv, RecordInv, SameRuns
<1>2. RunRow' = History!With(RunRow, r, [state |-> "CREATED", version |-> 1])
  BY DEF RunRow, With, History!With
<1>3. Statuses(<<event>>) = <<"CREATED">>
  BY DEF Statuses
<1>4. RunHistory' = History!With(RunHistory, r, <<"CREATED">>)
  BY <1>1, <1>3 DEF RunHistory, With, History!With
<1>. QED
  BY <1>2, <1>4 DEF History!Open, RunRow

LEMMA StepRefines ==
  ASSUME SafetyInv, [Next]_vars
  PROVE  [History!Next]_(History!vars)
<1>1. ASSUME UNCHANGED <<runs, audit>>
      PROVE  UNCHANGED History!vars
  BY <1>1 DEF History!vars, RunRow, RunHistory
<1>2. ASSUME NEW w \in Workers, Goto(w, session'[w]) \/ UNCHANGED db
      PROVE  UNCHANGED History!vars
  BY <1>1, <1>2 DEF Goto, db
<1>3. CASE UNCHANGED vars
  BY <1>1, <1>3 DEF vars, db
<1>4. CASE CreateRun
  <2>1. PICK t \in Tenants, o \in Opportunities, r \in RunIds \ DOMAIN runs :
          /\ runs' = With(runs, r, [tenant |-> t, opportunity |-> o, supersedes |-> NoRun,
                                    status |-> "CREATED", version |-> 1])
          /\ audit' = With(audit, r, <<[action |-> "CREATED", status |-> "CREATED",
                                        version |-> 1]>>)
    BY <1>4 DEF CreateRun
  <2>2. History!Open(r)
    BY <2>1, InsertOpens
  <2>. QED
    BY <2>2 DEF History!Next
<1>5. ASSUME NEW w \in Workers,
             \/ Ask(w) \/ LookAgain(w) \/ LockRun(w) \/ SourceNameTaken(w)
             \/ Recover(w) \/ Deliver(w) \/ Crash(w) \/ Rollback(w)
      PROVE  UNCHANGED History!vars
  BY <1>1, <1>5 DEF Ask, AskResult, AskSuccessor, AskTransition, AskReview, LookAgain, LockRun,
     SourceNameTaken, Rollback, Recover, Deliver, Crash, ReplyOnly, Goto, db
<1>6. ASSUME NEW w \in Workers, Commit(w)
      PROVE  [History!Next]_(History!vars)
  <2> DEFINE q == session[w].req
             d == session[w].disposition
  <2>1. /\ At(w, "holding") /\ q \in Request /\ q.run \in RunIds /\ Matching(q, d)
        /\ session[w].row \in Run /\ Permitted(q, session[w].row)
    BY <1>6, HolderGranted, RequestFields
       DEF Commit, CommitTransition, CommitReview, CommitResult, CommitSuccessor, Granted
  <2>2. CASE CommitTransition(w)
    <3>1. WriteRun(w, Moved(w, q.target), "STATUS_CHANGED") /\ q.op = "transition"
      BY <2>2 DEF CommitTransition
    <3>2. q.target \in RESEARCH_TRANSITIONS[session[w].row.status]
          /\ q.target \in ResearchRunStatus
      BY <2>1, <3>1, GrantedStatus DEF ResearchRunStatus
    <3>3. History!Advance(q.run)
      BY <2>1, <3>1, <3>2, WriteAdvances DEF AuditAction
    <3>. QED
      BY <2>1, <3>3 DEF History!Next
  <2>3. CASE CommitReview(w)
    <3>1. WriteRun(w, Moved(w, ReviewTarget(q.decision)), "REVIEW_RECORDED") /\ q.op = "review"
      BY <2>3 DEF CommitReview
    <3>2. ReviewTarget(q.decision) \in RESEARCH_TRANSITIONS[session[w].row.status]
          /\ ReviewTarget(q.decision) \in ResearchRunStatus
      BY <2>1, <3>1, GrantedStatus, StatusFacts
    <3>3. History!Advance(q.run)
      BY <2>1, <3>1, <3>2, WriteAdvances DEF AuditAction
    <3>. QED
      BY <2>1, <3>3 DEF History!Next
  <2>4. CASE CommitResult(w)
    <3>1. d \in Dispositions /\ q.op = "result"
      BY <2>1, <2>4 DEF CommitResult, Matching
    <3>2. OutcomeStatus(d) \in RESEARCH_TRANSITIONS[session[w].row.status]
          /\ OutcomeStatus(d) \in ResearchRunStatus
      BY <2>1, <3>1, GrantedStatus, StatusFacts
    <3>3. Rollback(w) \/ WriteRun(w, Moved(w, OutcomeStatus(d)), "RESULTS_PERSISTED")
      BY <2>4 DEF CommitResult
    <3>4. CASE Rollback(w)
      BY <1>5, <3>4
    <3>5. CASE WriteRun(w, Moved(w, OutcomeStatus(d)), "RESULTS_PERSISTED")
      <4>1. History!Advance(q.run)
        BY <2>1, <3>2, <3>5, WriteAdvances DEF AuditAction
      <4>. QED
        BY <2>1, <4>1 DEF History!Next
    <3>. QED
      BY <3>3, <3>4, <3>5
  <2>5. CASE CommitSuccessor(w)
    <3>1. CASE Rollback(w)
      BY <1>5, <3>1
    <3>2. ASSUME NEW s \in RunIds \ DOMAIN runs,
                 runs' = With(runs, s, [tenant |-> q.tenant,
                                        opportunity |-> session[w].row.opportunity,
                                        supersedes |-> q.run, status |-> "CREATED",
                                        version |-> 1]),
                 audit' = With(audit, s, <<[action |-> "CREATED_AS_RECALCULATION",
                                            status |-> "CREATED", version |-> 1]>>)
          PROVE  [History!Next]_(History!vars)
      <4>1. History!Open(s)
        BY <3>2, InsertOpens
      <4>. QED
        BY <4>1 DEF History!Next
    <3>. QED
      BY <2>5, <3>1, <3>2 DEF CommitSuccessor
  <2>. QED
    BY <1>6, <2>2, <2>3, <2>4, <2>5 DEF Commit
<1>. QED
  BY <1>3, <1>4, <1>5, <1>6 DEF Next

\* Every run is a versioned aggregate: whatever requests race, are retried or die,
\* its row moves in single permitted steps, one version and one audit event each.
THEOREM RunsImplementHistory == Spec => VersionedRuns
<1>1. Init => History!Init
  BY DEF Init, History!Init, RunRow, RunHistory, EmptyTable, History!EmptyTable
<1>2. SafetyInv /\ [Next]_vars => [History!Next]_(History!vars)
  BY StepRefines
<1>. QED
  BY <1>1, <1>2, SafetyInvHolds, PTL DEF Spec, VersionedRuns, History!Spec

-----------------------------------------------------------------------------
(* The effects of the steps on the tables, apart from the locks.           *)

Advanced(r, status, action) ==
  /\ r \in DOMAIN runs
  /\ DOMAIN runs' = DOMAIN runs /\ DOMAIN audit' = DOMAIN audit
  /\ runs'[r].status = status /\ runs'[r].version = runs[r].version + 1
  /\ runs'[r].tenant = runs[r].tenant /\ runs'[r].opportunity = runs[r].opportunity
  /\ runs'[r].supersedes = runs[r].supersedes
  /\ \A x \in DOMAIN runs : x # r => runs'[x] = runs[x]
  /\ audit'[r] = Append(audit[r], [action |-> action, status |-> status,
                                   version |-> runs[r].version + 1])
  /\ \A x \in DOMAIN audit : x # r => audit'[x] = audit[x]

Inserted(r, tenant, opportunity, supersedes, action) ==
  /\ r \in RunIds \ DOMAIN runs
  /\ DOMAIN runs' = DOMAIN runs \cup {r} /\ DOMAIN audit' = DOMAIN audit \cup {r}
  /\ DOMAIN reviews' = DOMAIN reviews \cup {r}
  /\ runs'[r] = [tenant |-> tenant, opportunity |-> opportunity, supersedes |-> supersedes,
                 status |-> "CREATED", version |-> 1]
  /\ audit'[r] = <<[action |-> action, status |-> "CREATED", version |-> 1]>>
  /\ reviews'[r] = << >>
  /\ \A x \in DOMAIN runs : x # r /\ runs'[x] = runs[x] /\ audit'[x] = audit[x]
                                  /\ reviews'[x] = reviews[x]

Answered(w, q, run, status, version) ==
  session' = [session EXCEPT ![w] =
    [pc |-> "done", req |-> q,
     answer |-> [code |-> "OK", run |-> run, status |-> status, version |-> version]]]

RunCreated ==
  /\ \E r \in RunIds, t \in Tenants, o \in Opportunities : Inserted(r, t, o, NoRun, "CREATED")
  /\ UNCHANGED <<reports, resultLedger, successorLedger, session>>

StatusWritten(w, q) ==
  /\ q \in TransitionRequest
  /\ q.run \notin DOMAIN reports
  /\ runs[q.run].status \in {"CREATED", "RUNNING", "FAILED"}
  /\ q.target \in {"RUNNING", "FAILED", "CANCELLED"}
  /\ runs[q.run].version = q.expected
  /\ Advanced(q.run, q.target, "STATUS_CHANGED")
  /\ Answered(w, q, q.run, q.target, q.expected + 1)
  /\ UNCHANGED <<reports, reviews, resultLedger, successorLedger>>

ReviewWritten(w, q) ==
  /\ q \in ReviewRequest
  /\ q.run \in DOMAIN reports
  /\ runs[q.run].status \in REVIEWABLE_RESEARCH_STATUSES
  /\ runs[q.run].version = q.expected
  /\ Advanced(q.run, ReviewTarget(q.decision), "REVIEW_RECORDED")
  /\ DOMAIN reviews' = DOMAIN reviews
  /\ reviews'[q.run] = Append(reviews[q.run],
       [decision |-> q.decision, from |-> runs[q.run].status,
        to |-> ReviewTarget(q.decision), version |-> q.expected + 1])
  /\ \A x \in DOMAIN reviews : x # q.run => reviews'[x] = reviews[x]
  /\ Answered(w, q, q.run, ReviewTarget(q.decision), q.expected + 1)
  /\ UNCHANGED <<reports, resultLedger, successorLedger>>

ResultWritten(w, q, d) ==
  /\ q \in ResultRequest /\ d \in Dispositions
  /\ q.run \notin DOMAIN reports /\ LedgerKey(q) \notin DOMAIN resultLedger
  /\ runs[q.run].status = "RUNNING"
  /\ runs[q.run].version = q.expected /\ runs[q.run].tenant = q.tenant
  /\ Advanced(q.run, OutcomeStatus(d), "RESULTS_PERSISTED")
  /\ reports' = With(reports, q.run, [bundle |-> q.bundle, disposition |-> d])
  /\ resultLedger' = With(resultLedger, LedgerKey(q),
       [hash |-> ResultHash(q),
        response |-> [code |-> "OK", run |-> q.run, status |-> OutcomeStatus(d),
                      version |-> q.expected + 1]])
  /\ Answered(w, q, q.run, OutcomeStatus(d), q.expected + 1)
  /\ UNCHANGED <<reviews, successorLedger>>

SuccessorWritten(w, q, s) ==
  /\ q \in SuccessorRequest
  /\ q.run \in DOMAIN reports /\ LedgerKey(q) \notin DOMAIN successorLedger
  /\ runs[q.run].tenant = q.tenant
  /\ Inserted(s, q.tenant, runs[q.run].opportunity, q.run, "CREATED_AS_RECALCULATION")
  /\ successorLedger' = With(successorLedger, LedgerKey(q), [hash |-> SuccessorHash(q), run |-> s])
  /\ Answered(w, q, s, "CREATED", 1)
  /\ UNCHANGED <<reports, resultLedger>>

\* A step that writes nothing tells a client of success only from the ledger.
Quiet ==
  /\ UNCHANGED db
  /\ \/ UNCHANGED session
     \/ \E w \in Workers : \E s :
          /\ session' = [session EXCEPT ![w] = s]
          /\ s.pc = "done" =>
               /\ s.req \in Request
               /\ s.answer.code = "OK" => InLedger(s.req) /\ s.answer = Replayed(s.req)

Written ==
  \E w \in Workers :
    \/ \E q : StatusWritten(w, q) \/ ReviewWritten(w, q)
    \/ \E q, d : ResultWritten(w, q, d)
    \/ \E q, s : SuccessorWritten(w, q, s)

-----------------------------------------------------------------------------
(* The inductive invariants.                                               *)

StoredAtVersion ==
  \A k \in DOMAIN resultLedger :
    /\ resultLedger[k].response.version \in 1 .. Len(audit[k[2]])
    /\ resultLedger[k].response.version = resultLedger[k].hash[1] + 1

OutcomeStands ==
  \A r \in DOMAIN runs :
    /\ Len(reviews[r]) = 1 => runs[r].status \in Terminal
    /\ r \in DOMAIN reports /\ Len(reviews[r]) = 0 =>
         runs[r].status = OutcomeStatus(reports[r].disposition)

-----------------------------------------------------------------------------
(* Every step is quiet, creates a run, or is one of the four commits.      *)

\* A reply that tells of success only what the ledger holds is quiet.
LEMMA QuietReply ==
  ASSUME NEW w \in Workers, NEW q \in Request, NEW answer, ReplyOnly(w, q, answer),
         answer.code = "OK" => InLedger(q) /\ answer = Replayed(q)
  PROVE  Quiet
<1> DEFINE s == [pc |-> "done", req |-> q, answer |-> answer]
<1>1. session' = [session EXCEPT ![w] = s] /\ UNCHANGED db
  BY DEF ReplyOnly, Reply
<1>2. s.pc = "done" => /\ s.req \in Request
                       /\ s.answer.code = "OK" => InLedger(s.req) /\ s.answer = Replayed(s.req)
  OBVIOUS
<1> HIDE DEF s
<1>3. QED
  BY <1>1, <1>2 DEF Quiet

LEMMA QuietGoto ==
  ASSUME NEW w \in Workers, NEW s, s.pc # "done", Goto(w, s)
  PROVE  Quiet
  BY DEF Goto, Quiet

LEMMA QuietSteps ==
  ASSUME SafetyInv, NEW w \in Workers,
         \/ Ask(w) \/ LookAgain(w) \/ LockRun(w) \/ SourceNameTaken(w) \/ Rollback(w)
         \/ Recover(w) \/ Deliver(w) \/ Crash(w)
  PROVE  Quiet
<1> DEFINE q == session[w].req
<1>1. session \in [Workers -> Session]
  BY DEF SafetyInv, TypeInv, TypeOK
<1>2. \A code \in ErrorCode : Error(code).code # "OK"
  BY DEF Error, ErrorCode
<1>3. CASE AskResult(w)
  <2>1. PICK p \in ResultRequest :
          \/ InLedger(p) /\ ReplyOnly(w, p, Replayed(p))
          \/ ReplyOnly(w, p, Error("INVALID_INPUT"))
          \/ \E d : Goto(w, [pc |-> "looked", req |-> p, disposition |-> d])
    BY <1>3 DEF AskResult
  <2>2. p \in Request
    BY RequestKinds
  <2>3. QED
    BY <1>2, <2>1, <2>2, QuietReply, QuietGoto DEF ErrorCode
<1>4. CASE AskSuccessor(w)
  <2>1. PICK p \in SuccessorRequest :
          \/ InLedger(p) /\ ReplyOnly(w, p, Replayed(p))
          \/ Goto(w, [pc |-> "looked", req |-> p, disposition |-> NoDisposition])
    BY <1>4 DEF AskSuccessor
  <2>2. p \in Request
    BY RequestKinds
  <2>3. QED
    BY <2>1, <2>2, QuietReply, QuietGoto
<1>5. CASE AskTransition(w) \/ AskReview(w)
  BY <1>5, QuietGoto DEF AskTransition, AskReview, Begun
<1>6. CASE LookAgain(w)
  <2>1. q \in Request
    BY <1>1, <1>6, ServiceTyped DEF LookAgain, At, InService
  <2>2. \/ InLedger(q) /\ ReplyOnly(w, q, Replayed(q))
        \/ Goto(w, [pc |-> "begun", req |-> q, disposition |-> session[w].disposition])
    BY <1>6 DEF LookAgain, Begun
  <2>3. QED
    BY <2>1, <2>2, QuietReply, QuietGoto
<1>7. CASE LockRun(w)
  <2>1. q \in Request
    BY <1>1, <1>7, ServiceTyped DEF LockRun, At, InService
  <2>2. \/ \E code \in ErrorCode : ReplyOnly(w, q, Error(code))
        \/ Goto(w, [pc |-> "holding", req |-> q, disposition |-> session[w].disposition,
                    row |-> runs[q.run]])
    BY <1>7 DEF LockRun, ErrorCode, Verdict
  <2>3. QED
    BY <1>2, <2>1, <2>2, QuietReply, QuietGoto
<1>8. CASE SourceNameTaken(w) \/ Rollback(w)
  BY <1>8, QuietGoto DEF SourceNameTaken, Rollback
<1>9. CASE Recover(w)
  <2>1. q \in Request
    BY <1>1, <1>9, ServiceTyped DEF Recover, At, InService
  <2>2. \/ InLedger(q) /\ ReplyOnly(w, q, Replayed(q))
        \/ ReplyOnly(w, q, Error("INTERNAL_ERROR"))
    BY <1>9 DEF Recover
  <2>3. QED
    BY <1>2, <2>1, <2>2, QuietReply DEF ErrorCode
<1>10. CASE Deliver(w) \/ Crash(w)
  BY <1>10, QuietGoto DEF Deliver, Crash, Idle
<1>11. QED
  BY <1>3, <1>4, <1>5, <1>6, <1>7, <1>8, <1>9, <1>10 DEF Ask

\* What a holder writes, in terms of the row in the table.
LEMMA WriteIsAdvance ==
  ASSUME SafetyInv, NEW w \in Workers, At(w, "holding"),
         NEW status \in ResearchRunStatus, NEW action,
         WriteRun(w, Moved(w, status), action)
  PROVE  Advanced(session[w].req.run, status, action)
<1> DEFINE r == session[w].req.run
           old == runs[r]
           new == [old EXCEPT !.status = status, !.version = old.version + 1]
<1>1. /\ r \in DOMAIN runs /\ r \in DOMAIN audit
      /\ session[w].row = runs[r] /\ runs[r] \in Run
  BY HolderGranted DEF SafetyInv, RecordInv, SameRuns
<1>2. Moved(w, status) = new
  BY <1>1 DEF Moved
<1>3. /\ new.status = status /\ new.version = old.version + 1
      /\ new.tenant = old.tenant /\ new.opportunity = old.opportunity
      /\ new.supersedes = old.supersedes
  <2> HIDE DEF old
  <2>1. old \in Run
    BY <1>1 DEF old
  <2>2. QED
    BY <2>1 DEF Run
<1> HIDE DEF new
<1>4. /\ runs' = [runs EXCEPT ![r] = new]
      /\ audit' = [audit EXCEPT ![r] = Append(audit[r],
                     [action |-> action, status |-> new.status, version |-> new.version])]
  BY <1>2 DEF WriteRun
<1>5. QED
  BY <1>1, <1>3, <1>4 DEF Advanced

LEMMA InsertIsInserted ==
  ASSUME SafetyInv, NEW r \in RunIds \ DOMAIN runs, NEW t, NEW o, NEW source, NEW action,
         runs' = With(runs, r, [tenant |-> t, opportunity |-> o, supersedes |-> source,
                                status |-> "CREATED", version |-> 1]),
         reviews' = With(reviews, r, << >>),
         audit' = With(audit, r, <<[action |-> action, status |-> "CREATED", version |-> 1]>>)
  PROVE  Inserted(r, t, o, source, action)
<1>1. DOMAIN audit = DOMAIN runs /\ DOMAIN reviews = DOMAIN runs
  BY DEF SafetyInv, RecordInv, SameRuns
<1>2. QED
  BY <1>1 DEF With, Inserted

LEMMA CommitsWrite ==
  ASSUME SafetyInv, NEW w \in Workers, Commit(w)
  PROVE  Quiet \/ Written
<1> DEFINE q == session[w].req
           d == session[w].disposition
           row == session[w].row
<1>1. /\ At(w, "holding") /\ q \in Request /\ Matching(q, d)
      /\ q.run \in DOMAIN runs /\ row = runs[q.run] /\ runs[q.run] \in Run
      /\ runs[q.run].version = q.expected /\ Permitted(q, runs[q.run])
      /\ q.op = "result" => q.run \notin DOMAIN reports
      /\ runs[q.run].tenant = q.tenant
  BY HolderGranted DEF Commit, CommitTransition, CommitReview, CommitResult, CommitSuccessor,
     Granted, SafetyInv, LockInv, HoldersSeeTheirRow
<1>2. CASE CommitTransition(w)
  <2>1. q.op = "transition"
    BY <1>2 DEF CommitTransition
  <2>2. /\ q \in TransitionRequest
        /\ runs[q.run].status \in {"CREATED", "RUNNING", "FAILED"}
        /\ q.target \in {"RUNNING", "FAILED", "CANCELLED"}
        /\ q.target \in ResearchRunStatus
    BY <1>1, <2>1, RequestFields, GrantedStatus DEF ResearchRunStatus
  <2>3. q.run \notin DOMAIN reports
    BY <1>1, <2>2 DEF SafetyInv, RecordInv, ReportGatesStatus, Terminal
  <2>4. Advanced(q.run, q.target, "STATUS_CHANGED")
    BY <1>1, <1>2, <2>2, WriteIsAdvance DEF CommitTransition
  <2>5. Moved(w, q.target).status = q.target /\ Moved(w, q.target).version = q.expected + 1
    BY <1>1, <2>2, MovedTyped DEF SafetyInv
  <2>6. Answered(w, q, q.run, q.target, q.expected + 1)
    BY <1>2, <2>5 DEF CommitTransition, Reply, Answered, Completed
  <2>7. StatusWritten(w, q)
    BY <1>1, <1>2, <2>2, <2>3, <2>4, <2>6 DEF StatusWritten, CommitTransition
  <2>8. QED
    BY <2>7 DEF Written
<1>3. CASE CommitReview(w)
  <2> DEFINE target == ReviewTarget(q.decision)
  <2>1. q.op = "review"
    BY <1>3 DEF CommitReview
  <2>2. /\ q \in ReviewRequest /\ target \in ResearchRunStatus
        /\ runs[q.run].status \in REVIEWABLE_RESEARCH_STATUSES
    BY <1>1, <2>1, RequestFields, GrantedStatus, StatusFacts
  <2>3. q.run \in DOMAIN reports /\ q.run \in DOMAIN reviews
    BY <1>1, <2>2 DEF SafetyInv, RecordInv, ReportGatesStatus, SameRuns
  <2>4. Advanced(q.run, target, "REVIEW_RECORDED")
    BY <1>1, <1>3, <2>2, WriteIsAdvance DEF CommitReview
  <2>5. Moved(w, target).status = target /\ Moved(w, target).version = q.expected + 1
    BY <1>1, <2>2, MovedTyped DEF SafetyInv
  <2>6. Answered(w, q, q.run, target, q.expected + 1)
    BY <1>3, <2>5 DEF CommitReview, Reply, Answered, Completed
  <2>7. reviews' = [reviews EXCEPT ![q.run] = Append(reviews[q.run],
          [decision |-> q.decision, from |-> runs[q.run].status, to |-> target,
           version |-> q.expected + 1])]
    BY <1>1, <1>3, <2>5 DEF CommitReview
  <2>8. ReviewWritten(w, q)
    BY <1>1, <1>3, <2>2, <2>3, <2>4, <2>6, <2>7 DEF ReviewWritten, CommitReview
  <2>9. QED
    BY <2>8 DEF Written
<1>4. CASE CommitResult(w)
  <2> DEFINE target == OutcomeStatus(d)
             moved == Moved(w, target)
             next == [moved EXCEPT !.version = q.expected + 1]
  <2>1. q.op = "result"
    BY <1>4 DEF CommitResult
  <2>2. /\ q \in ResultRequest /\ d \in Dispositions /\ target \in ResearchRunStatus
        /\ runs[q.run].status = "RUNNING"
    BY <1>1, <2>1, RequestFields, GrantedStatus, StatusFacts DEF Matching
  <2>3. CASE Rollback(w)
    BY <2>3, QuietSteps
  <2>4. CASE ~Rollback(w)
    <3>1. /\ LedgerKey(q) \notin DOMAIN resultLedger
          /\ WriteRun(w, moved, "RESULTS_PERSISTED")
          /\ reports' = With(reports, q.run, [bundle |-> q.bundle, disposition |-> d])
          /\ resultLedger' = With(resultLedger, LedgerKey(q),
                 [hash |-> ResultHash(q), response |-> Completed(q.run, next)])
          /\ Reply(w, q, Completed(q.run, next))
          /\ UNCHANGED <<reviews, successorLedger>>
      BY <1>4, <2>4 DEF CommitResult
    <3>2. moved \in Run /\ moved.status = target
      BY <1>1, <2>2, MovedTyped DEF SafetyInv
    <3>3. next.status = target /\ next.version = q.expected + 1
      <4> HIDE DEF moved
      <4>1. QED
        BY <3>2 DEF Run
    <3>4. Advanced(q.run, target, "RESULTS_PERSISTED")
      BY <1>1, <2>2, <3>1, WriteIsAdvance
    <3> HIDE DEF next, moved
    <3>5. Completed(q.run, next) = [code |-> "OK", run |-> q.run, status |-> target,
                                    version |-> q.expected + 1]
      BY <3>3 DEF Completed
    <3>6. Answered(w, q, q.run, target, q.expected + 1)
      BY <3>1, <3>5 DEF Reply, Answered
    <3>7. ResultWritten(w, q, d)
      BY <1>1, <2>1, <2>2, <3>1, <3>4, <3>5, <3>6 DEF ResultWritten
    <3>8. QED
      BY <3>7 DEF Written
  <2>5. QED
    BY <2>3, <2>4
<1>5. CASE CommitSuccessor(w)
  <2>1. q.op = "successor"
    BY <1>5 DEF CommitSuccessor
  <2>2. q \in SuccessorRequest /\ q.run \in DOMAIN reports
    BY <1>1, <2>1, RequestFields, GrantedStatus
  <2>3. CASE Rollback(w)
    BY <2>3, QuietSteps
  <2>4. CASE ~Rollback(w)
    <3> DEFINE new == [tenant |-> q.tenant, opportunity |-> runs[q.run].opportunity,
                       supersedes |-> q.run, status |-> "CREATED", version |-> 1]
    <3>1. LedgerKey(q) \notin DOMAIN successorLedger
      BY <1>5, <2>4 DEF CommitSuccessor
    <3>2. PICK s \in RunIds \ DOMAIN runs :
            /\ runs' = With(runs, s, new)
            /\ reviews' = With(reviews, s, << >>)
            /\ audit' = With(audit, s, <<[action |-> "CREATED_AS_RECALCULATION",
                                          status |-> "CREATED", version |-> 1]>>)
            /\ successorLedger' = With(successorLedger, LedgerKey(q),
                                       [hash |-> SuccessorHash(q), run |-> s])
            /\ Reply(w, q, Completed(s, new))
            /\ UNCHANGED <<reports, resultLedger>>
      BY <1>1, <1>5, <2>4 DEF CommitSuccessor
    <3>3. Inserted(s, q.tenant, runs[q.run].opportunity, q.run, "CREATED_AS_RECALCULATION")
      BY <3>2, InsertIsInserted
    <3>4. Answered(w, q, s, "CREATED", 1)
      BY <3>2 DEF Reply, Answered, Completed
    <3>5. SuccessorWritten(w, q, s)
      BY <1>1, <2>2, <3>1, <3>2, <3>3, <3>4 DEF SuccessorWritten
    <3>6. QED
      BY <3>5 DEF Written
  <2>5. QED
    BY <2>3, <2>4
<1>6. QED
  BY <1>2, <1>3, <1>4, <1>5 DEF Commit

LEMMA StepEffects ==
  ASSUME SafetyInv, [Next]_vars
  PROVE  Quiet \/ RunCreated \/ Written
<1>1. CASE UNCHANGED vars
  BY <1>1 DEF vars, Quiet
<1>2. CASE CreateRun
  <2>1. PICK t \in Tenants, o \in Opportunities, r \in RunIds \ DOMAIN runs :
          /\ runs' = With(runs, r, [tenant |-> t, opportunity |-> o, supersedes |-> NoRun,
                                    status |-> "CREATED", version |-> 1])
          /\ reviews' = With(reviews, r, << >>)
          /\ audit' = With(audit, r, <<[action |-> "CREATED", status |-> "CREATED",
                                        version |-> 1]>>)
    BY <1>2 DEF CreateRun
  <2>2. Inserted(r, t, o, NoRun, "CREATED")
    BY <2>1, InsertIsInserted
  <2>3. UNCHANGED <<reports, resultLedger, successorLedger, session>>
    BY <1>2 DEF CreateRun
  <2>4. QED
    BY <2>2, <2>3 DEF RunCreated
<1>3. ASSUME NEW w \in Workers, Commit(w)
      PROVE  Quiet \/ Written
  BY <1>3, CommitsWrite
<1>4. ASSUME NEW w \in Workers,
             \/ Ask(w) \/ LookAgain(w) \/ LockRun(w) \/ SourceNameTaken(w)
             \/ Recover(w) \/ Deliver(w) \/ Crash(w)
      PROVE  Quiet
  BY <1>4, QuietSteps
<1>5. QED
  BY <1>1, <1>2, <1>3, <1>4 DEF Next

-----------------------------------------------------------------------------
(* Nothing that was recorded is rewritten.                                 *)

LEMMA Appended ==
  ASSUME NEW S, NEW s \in Seq(S), NEW e
  PROVE  /\ Len(s) \in Nat
         /\ Len(Append(s, e)) = Len(s) + 1
         /\ Append(s, e)[Len(s) + 1] = e
         /\ \A i \in 1 .. Len(s) : Append(s, e)[i] = s[i]
<1>1. s \in Seq(S \cup {e}) /\ e \in S \cup {e}
  OBVIOUS
<1>2. QED
  BY <1>1

LEMMA SafetyTypes ==
  ASSUME SafetyInv
  PROVE  /\ DOMAIN audit = DOMAIN runs /\ DOMAIN reviews = DOMAIN runs
         /\ DOMAIN reports \subseteq DOMAIN runs
         /\ DOMAIN runs \subseteq RunIds
         /\ \A r \in DOMAIN runs :
              /\ runs[r] \in Run /\ audit[r] \in Seq(AuditEvent) /\ reviews[r] \in Seq(Review)
              /\ Len(audit[r]) = runs[r].version /\ runs[r].version \in Nat \ {0}
              /\ audit[r][runs[r].version].status = runs[r].status
              /\ audit[r][runs[r].version].version = runs[r].version
         /\ \A k \in DOMAIN resultLedger : resultLedger[k] \in ResultRecord
         /\ session \in [Workers -> Session]
<1>1. TypeOK /\ SameRuns /\ AuditMatchesRow
  BY DEF SafetyInv, TypeInv, RecordInv
<1>2. ASSUME NEW r \in DOMAIN runs
      PROVE  /\ runs[r] \in Run /\ audit[r] \in Seq(AuditEvent) /\ reviews[r] \in Seq(Review)
             /\ Len(audit[r]) = runs[r].version /\ runs[r].version \in Nat \ {0}
             /\ audit[r][runs[r].version].status = runs[r].status
             /\ audit[r][runs[r].version].version = runs[r].version
  <2>1. runs[r] \in Run /\ audit[r] \in Seq(AuditEvent) /\ reviews[r] \in Seq(Review)
    BY <1>1 DEF TypeOK, SameRuns, IsTable
  <2>2. Chronicled(r)
    BY <1>1 DEF AuditMatchesRow
  <2>3. runs[r].version \in Nat
    BY <2>1 DEF Run
  <2>4. QED
    BY <2>1, <2>2, <2>3 DEF Chronicled
<1>3. QED
  BY <1>1, <1>2 DEF TypeOK, SameRuns, IsTable

\* An advance adds one event to the trail of its run.
LEMMA AdvancedTrail ==
  ASSUME SafetyInv, NEW r, NEW status, NEW action, Advanced(r, status, action)
  PROVE  /\ Extended(audit, audit') /\ DOMAIN audit' = DOMAIN runs
         /\ Len(audit'[r]) = runs[r].version + 1
         /\ audit'[r][runs[r].version + 1] =
              [action |-> action, status |-> status, version |-> runs[r].version + 1]
<1>1. /\ r \in DOMAIN audit /\ audit[r] \in Seq(AuditEvent) /\ Len(audit[r]) = runs[r].version
      /\ DOMAIN audit = DOMAIN runs /\ DOMAIN audit' = DOMAIN audit
      /\ \A x \in DOMAIN audit : Len(audit[x]) \in Nat
  BY SafetyTypes DEF Advanced
<1>2. \A x \in DOMAIN audit : x # r => audit'[x] = audit[x]
  BY DEF Advanced
<1> DEFINE event == [action |-> action, status |-> status, version |-> runs[r].version + 1]
<1>3. audit'[r] = Append(audit[r], event)
  BY DEF Advanced
<1> HIDE DEF event
<1>4. /\ Len(audit'[r]) = Len(audit[r]) + 1 /\ audit'[r][Len(audit[r]) + 1] = event
      /\ \A i \in 1 .. Len(audit[r]) : audit'[r][i] = audit[r][i]
  BY <1>1, <1>3, Appended
<1>5. Extended(audit, audit')
  <2> SUFFICES ASSUME NEW x \in DOMAIN audit
               PROVE  \A i \in 1 .. Len(audit[x]) : i <= Len(audit'[x]) /\ audit'[x][i] = audit[x][i]
    BY <1>1 DEF Extended
  <2>1. CASE x = r
    BY <1>1, <1>4, <2>1
  <2>2. CASE x # r
    BY <1>1, <1>2, <2>2
  <2>3. QED
    BY <2>1, <2>2
<1>6. QED
  BY <1>1, <1>4, <1>5 DEF event

\* An insertion leaves the trails of the other runs.
LEMMA InsertedTrail ==
  ASSUME SafetyInv, NEW r, NEW t, NEW o, NEW source, NEW action, Inserted(r, t, o, source, action)
  PROVE  Extended(audit, audit') /\ Extended(reviews, reviews')
<1>1. DOMAIN audit = DOMAIN runs /\ DOMAIN reviews = DOMAIN runs
      /\ \A x \in DOMAIN runs : Len(audit[x]) \in Nat
  BY SafetyTypes
<1>2. \A x \in DOMAIN runs : audit'[x] = audit[x] /\ reviews'[x] = reviews[x]
  BY DEF Inserted
<1>3. DOMAIN runs \subseteq DOMAIN audit' /\ DOMAIN runs \subseteq DOMAIN reviews'
  BY <1>1 DEF Inserted
<1>4. \A x \in DOMAIN runs : Len(reviews[x]) \in Nat
  <2>1. ASSUME NEW x \in DOMAIN runs PROVE Len(reviews[x]) \in Nat
    <3>1. reviews[x] \in Seq(Review)
      BY SafetyTypes
    <3>2. QED
      BY <3>1
  <2>2. QED
    BY <2>1
<1>5. QED
  BY <1>1, <1>2, <1>3, <1>4 DEF Extended

LEMMA Unextended ==
  ASSUME SafetyInv
  PROVE  /\ audit' = audit => Extended(audit, audit')
         /\ reviews' = reviews => Extended(reviews, reviews')
<1>1. ASSUME NEW x \in DOMAIN runs PROVE Len(reviews[x]) \in Nat /\ Len(audit[x]) \in Nat
  <2>1. reviews[x] \in Seq(Review) /\ audit[x] \in Seq(AuditEvent)
    BY SafetyTypes
  <2>2. QED
    BY <2>1
<1>2. DOMAIN audit = DOMAIN runs /\ DOMAIN reviews = DOMAIN runs
  BY SafetyTypes
<1>3. QED
  BY <1>1, <1>2 DEF Extended

LEMMA KeptFacts ==
  /\ \A old, new : new = old => Kept(old, new)
  /\ \A old, k, v : k \notin DOMAIN old => Kept(old, With(old, k, v))
  BY DEF Kept, With

TerminalKept == \A r \in DOMAIN runs : runs[r].status \in Terminal => runs'[r] = runs[r]

LEMMA NothingRewrittenStep ==
  ASSUME SafetyInv, [Next]_vars
  PROVE  /\ Kept(reports, reports') /\ Kept(resultLedger, resultLedger')
         /\ Kept(successorLedger, successorLedger')
         /\ Extended(reviews, reviews') /\ Extended(audit, audit')
         /\ TerminalKept
<1>1. CASE Quiet
  BY <1>1, KeptFacts, Unextended DEF Quiet, db, TerminalKept
<1>2. CASE RunCreated
  <2>1. PICK r, t, o : Inserted(r, t, o, NoRun, "CREATED")
    BY <1>2 DEF RunCreated
  <2>2. TerminalKept
    BY <2>1 DEF Inserted, TerminalKept
  <2>3. QED
    BY <1>2, <2>1, <2>2, KeptFacts, InsertedTrail DEF RunCreated
<1>3. ASSUME NEW w, NEW q, StatusWritten(w, q)
      PROVE  /\ Kept(reports, reports') /\ Kept(resultLedger, resultLedger')
             /\ Kept(successorLedger, successorLedger')
             /\ Extended(reviews, reviews') /\ Extended(audit, audit')
             /\ TerminalKept
  <2>1. Advanced(q.run, q.target, "STATUS_CHANGED") /\ runs[q.run].status \notin Terminal
    BY <1>3 DEF StatusWritten, Terminal
  <2>2. TerminalKept
    BY <2>1 DEF Advanced, TerminalKept
  <2>3. QED
    BY <1>3, <2>1, <2>2, KeptFacts, Unextended, AdvancedTrail DEF StatusWritten
<1>4. ASSUME NEW w, NEW q, ReviewWritten(w, q)
      PROVE  /\ Kept(reports, reports') /\ Kept(resultLedger, resultLedger')
             /\ Kept(successorLedger, successorLedger')
             /\ Extended(reviews, reviews') /\ Extended(audit, audit')
             /\ TerminalKept
  <2>1. /\ Advanced(q.run, ReviewTarget(q.decision), "REVIEW_RECORDED")
        /\ runs[q.run].status \notin Terminal
    BY <1>4 DEF ReviewWritten, Terminal, REVIEWABLE_RESEARCH_STATUSES
  <2>2. TerminalKept
    BY <2>1 DEF Advanced, TerminalKept
  <2>3. Extended(reviews, reviews')
    <3> DEFINE entry == [decision |-> q.decision, from |-> runs[q.run].status,
                         to |-> ReviewTarget(q.decision), version |-> q.expected + 1]
    <3>1. /\ reviews'[q.run] = Append(reviews[q.run], entry)
          /\ DOMAIN reviews' = DOMAIN reviews
          /\ \A x \in DOMAIN reviews : x # q.run => reviews'[x] = reviews[x]
      BY <1>4 DEF ReviewWritten
    <3> HIDE DEF entry
    <3>2. ASSUME NEW x \in DOMAIN reviews
          PROVE  \A i \in 1 .. Len(reviews[x]) :
                   i <= Len(reviews'[x]) /\ reviews'[x][i] = reviews[x][i]
      <4>1. reviews[x] \in Seq(Review)
        BY SafetyTypes
      <4>2. Len(reviews[x]) \in Nat
        BY <4>1
      <4>3. CASE x = q.run
        BY <3>1, <4>1, <4>2, <4>3, Appended
      <4>4. CASE x # q.run
        BY <3>1, <4>2, <4>4
      <4>5. QED
        BY <4>3, <4>4
    <3>3. QED
      BY <3>1, <3>2 DEF Extended
  <2>4. QED
    BY <1>4, <2>1, <2>2, <2>3, KeptFacts, AdvancedTrail DEF ReviewWritten
<1>5. ASSUME NEW w, NEW q, NEW d, ResultWritten(w, q, d)
      PROVE  /\ Kept(reports, reports') /\ Kept(resultLedger, resultLedger')
             /\ Kept(successorLedger, successorLedger')
             /\ Extended(reviews, reviews') /\ Extended(audit, audit')
             /\ TerminalKept
  <2>1. /\ Advanced(q.run, OutcomeStatus(d), "RESULTS_PERSISTED")
        /\ runs[q.run].status \notin Terminal
    BY <1>5 DEF ResultWritten, Terminal
  <2>2. TerminalKept
    BY <2>1 DEF Advanced, TerminalKept
  <2>3. Kept(reports, reports') /\ Kept(resultLedger, resultLedger')
    BY <1>5, KeptFacts DEF ResultWritten
  <2>4. QED
    BY <1>5, <2>1, <2>2, <2>3, KeptFacts, Unextended, AdvancedTrail DEF ResultWritten
<1>6. ASSUME NEW w, NEW q, NEW s, SuccessorWritten(w, q, s)
      PROVE  /\ Kept(reports, reports') /\ Kept(resultLedger, resultLedger')
             /\ Kept(successorLedger, successorLedger')
             /\ Extended(reviews, reviews') /\ Extended(audit, audit')
             /\ TerminalKept
  <2>1. Inserted(s, q.tenant, runs[q.run].opportunity, q.run, "CREATED_AS_RECALCULATION")
    BY <1>6 DEF SuccessorWritten
  <2>2. TerminalKept
    BY <2>1 DEF Inserted, TerminalKept
  <2>3. Kept(successorLedger, successorLedger')
    BY <1>6, KeptFacts DEF SuccessorWritten
  <2>4. QED
    BY <1>6, <2>1, <2>2, <2>3, KeptFacts, InsertedTrail DEF SuccessorWritten
<1>7. QED
  BY <1>1, <1>2, <1>3, <1>4, <1>5, <1>6, StepEffects DEF Written

\* No step rewrites or removes a report, an idempotency record, a review or an audit
\* event, and a run that is completed or cancelled keeps its row, whatever requests
\* race, are retried or die.
THEOREM RecordsAreImmutable == Spec => NothingRewritten
<1>1. SafetyInv /\ [Next]_vars =>
        [/\ Kept(reports, reports')
         /\ Kept(resultLedger, resultLedger')
         /\ Kept(successorLedger, successorLedger')
         /\ Extended(reviews, reviews')
         /\ Extended(audit, audit')
         /\ \A r \in DOMAIN runs : runs[r].status \in Terminal => runs'[r] = runs[r]]_vars
  BY NothingRewrittenStep DEF TerminalKept
<1>2. QED
  BY <1>1, SafetyInvHolds, PTL DEF Spec, NothingRewritten

-----------------------------------------------------------------------------
(* Successors and their idempotency records.                               *)

LEMMA LineageKept ==
  ASSUME SuccessorLineage, DOMAIN runs' = DOMAIN runs, DOMAIN reports \subseteq DOMAIN reports',
         \A r \in DOMAIN runs : /\ runs'[r].tenant = runs[r].tenant
                                /\ runs'[r].opportunity = runs[r].opportunity
                                /\ runs'[r].supersedes = runs[r].supersedes,
         DOMAIN reports \subseteq DOMAIN runs,
         UNCHANGED successorLedger
  PROVE  SuccessorLineage'
<1>1. ASSUME NEW s \in DOMAIN runs', runs'[s].supersedes # NoRun
      PROVE  /\ runs'[s].supersedes \in DOMAIN reports'
             /\ runs'[s].tenant = runs'[runs'[s].supersedes].tenant
             /\ runs'[s].opportunity = runs'[runs'[s].supersedes].opportunity
             /\ \E k \in DOMAIN successorLedger' :
                  /\ k[1] = runs'[s].tenant /\ k[2] = runs'[s].supersedes
                  /\ \A j \in DOMAIN successorLedger' : successorLedger'[j].run = s <=> j = k
  BY <1>1 DEF SuccessorLineage
<1>2. \A k \in DOMAIN successorLedger' :
        /\ successorLedger'[k].run \in DOMAIN runs'
        /\ runs'[successorLedger'[k].run].supersedes = k[2]
  BY DEF SuccessorLineage
<1>3. QED
  BY <1>1, <1>2 DEF SuccessorLineage

LEMMA LineageStep ==
  ASSUME SafetyInv, SuccessorLineage, [Next]_vars
  PROVE  SuccessorLineage'
<1>1. CASE Quiet
  BY <1>1 DEF Quiet, db, SuccessorLineage
<1>2. CASE RunCreated
  <2>1. PICK r, t, o : r \in RunIds /\ Inserted(r, t, o, NoRun, "CREATED")
    BY <1>2 DEF RunCreated
  <2>2. /\ DOMAIN runs' = DOMAIN runs \cup {r} /\ runs'[r].supersedes = NoRun
        /\ \A x \in DOMAIN runs : x # r /\ runs'[x] = runs[x]
    BY <2>1 DEF Inserted
  <2>3. reports' = reports /\ successorLedger' = successorLedger
        /\ DOMAIN reports \subseteq DOMAIN runs
    BY <1>2, SafetyTypes DEF RunCreated
  <2>4. QED
    BY <2>2, <2>3 DEF SuccessorLineage
<1>3. ASSUME NEW r, NEW status, NEW action, Advanced(r, status, action),
             DOMAIN reports \subseteq DOMAIN reports', UNCHANGED successorLedger
      PROVE  SuccessorLineage'
  BY <1>3, SafetyTypes, LineageKept DEF Advanced
<1>4. ASSUME NEW w, NEW q, StatusWritten(w, q) \/ ReviewWritten(w, q)
      PROVE  SuccessorLineage'
  BY <1>3, <1>4 DEF StatusWritten, ReviewWritten
<1>5. ASSUME NEW w, NEW q, NEW d, ResultWritten(w, q, d)
      PROVE  SuccessorLineage'
  BY <1>3, <1>5 DEF ResultWritten, With
<1>6. ASSUME NEW w, NEW q, NEW s, SuccessorWritten(w, q, s)
      PROVE  SuccessorLineage'
  <2> DEFINE key == LedgerKey(q)
  <2>1. /\ s \in RunIds \ DOMAIN runs /\ DOMAIN runs' = DOMAIN runs \cup {s}
        /\ runs'[s].tenant = q.tenant /\ runs'[s].opportunity = runs[q.run].opportunity
        /\ runs'[s].supersedes = q.run
        /\ \A x \in DOMAIN runs : x # s /\ runs'[x] = runs[x]
    BY <1>6 DEF SuccessorWritten, Inserted
  <2>2. /\ reports' = reports /\ q.run \in DOMAIN reports /\ runs[q.run].tenant = q.tenant
        /\ DOMAIN reports \subseteq DOMAIN runs
        /\ key[1] = q.tenant /\ key[2] = q.run
    BY <1>6, SafetyTypes DEF SuccessorWritten, LedgerKey
  <2>3. /\ key \notin DOMAIN successorLedger
        /\ DOMAIN successorLedger' = DOMAIN successorLedger \cup {key}
        /\ successorLedger'[key].run = s
        /\ \A k \in DOMAIN successorLedger : k # key /\ successorLedger'[k] = successorLedger[k]
    BY <1>6 DEF SuccessorWritten, With
  <2>4. \A k \in DOMAIN successorLedger : successorLedger[k].run \in DOMAIN runs
    BY DEF SuccessorLineage
  <2> HIDE DEF key
  <2>5. \A k \in DOMAIN successorLedger' :
          /\ successorLedger'[k].run \in DOMAIN runs'
          /\ runs'[successorLedger'[k].run].supersedes = k[2]
    BY <2>1, <2>2, <2>3, <2>4 DEF SuccessorLineage
  <2>6. ASSUME NEW x \in DOMAIN runs', runs'[x].supersedes # NoRun
        PROVE  /\ runs'[x].supersedes \in DOMAIN reports'
               /\ runs'[x].tenant = runs'[runs'[x].supersedes].tenant
               /\ runs'[x].opportunity = runs'[runs'[x].supersedes].opportunity
               /\ \E k \in DOMAIN successorLedger' :
                    /\ k[1] = runs'[x].tenant /\ k[2] = runs'[x].supersedes
                    /\ \A j \in DOMAIN successorLedger' : successorLedger'[j].run = x <=> j = k
    <3>1. CASE x = s
      BY <2>1, <2>2, <2>3, <2>4, <3>1
    <3>2. CASE x # s
      <4>1. x \in DOMAIN runs /\ runs'[x] = runs[x] /\ runs[x].supersedes # NoRun
        BY <2>1, <2>6, <3>2
      <4>2. /\ runs[x].supersedes \in DOMAIN reports
            /\ runs[x].tenant = runs[runs[x].supersedes].tenant
            /\ runs[x].opportunity = runs[runs[x].supersedes].opportunity
        BY <4>1 DEF SuccessorLineage
      <4>3. PICK k \in DOMAIN successorLedger :
              /\ k[1] = runs[x].tenant /\ k[2] = runs[x].supersedes
              /\ \A j \in DOMAIN successorLedger : successorLedger[j].run = x <=> j = k
        BY <4>1 DEF SuccessorLineage
      <4>4. \A j \in DOMAIN successorLedger' : successorLedger'[j].run = x <=> j = k
        BY <2>3, <3>2, <4>3
      <4>5. QED
        BY <2>1, <2>2, <2>3, <4>1, <4>2, <4>3, <4>4
    <3>3. QED
      BY <3>1, <3>2
  <2>7. QED
    BY <2>5, <2>6 DEF SuccessorLineage
<1>7. QED
  BY <1>1, <1>2, <1>4, <1>5, <1>6, StepEffects DEF Written

\* Successors and their idempotency records correspond one to one, and a successor
\* belongs to the tenant and the opportunity of the run it supersedes.
THEOREM SuccessorsHaveLineage == Spec => []SuccessorLineage
<1>1. Init => SuccessorLineage
  BY EmptyTableTyped DEF Init, SuccessorLineage
<1>2. SafetyInv /\ SuccessorLineage /\ [Next]_vars => SuccessorLineage'
  BY LineageStep
<1>3. QED
  BY <1>1, <1>2, SafetyInvHolds, PTL DEF Spec

-----------------------------------------------------------------------------
(* A review is the last word on a run.                                     *)

ReviewInv == ReviewClosesRun /\ OutcomeStands

\* What ReviewInv says of one run.
Reviewed(r) ==
  /\ Len(reviews[r]) <= 1
  /\ Len(reviews[r]) = 1 =>
       /\ r \in DOMAIN reports
       /\ reviews[r][1].from = OutcomeStatus(reports[r].disposition)
       /\ reviews[r][1].to = runs[r].status
       /\ reviews[r][1].version = Len(audit[r])
       /\ audit[r][Len(audit[r])].action = "REVIEW_RECORDED"
       /\ runs[r].status \in Terminal
  /\ r \in DOMAIN reports /\ Len(reviews[r]) = 0 =>
       runs[r].status = OutcomeStatus(reports[r].disposition)

LEMMA ReviewedRuns ==
  ASSUME DOMAIN reviews = DOMAIN runs
  PROVE  ReviewInv <=> \A r \in DOMAIN runs : Reviewed(r)
  BY DEF ReviewInv, ReviewClosesRun, OutcomeStands, Reviewed

LEMMA NoReviewYet ==
  ASSUME NEW r, Reviewed(r), reviews[r] \in Seq(Review),
         r \notin DOMAIN reports \/ runs[r].status \notin Terminal
  PROVE  Len(reviews[r]) = 0
<1>1. \A n \in Nat : n <= 1 /\ n # 1 => n = 0
  OBVIOUS
<1>2. Len(reviews[r]) \in Nat
  OBVIOUS
<1>3. Len(reviews[r]) <= 1 /\ Len(reviews[r]) # 1
  BY DEF Reviewed
<1>4. QED
  BY <1>1, <1>2, <1>3

LEMMA ReviewStep ==
  ASSUME SafetyInv, SafetyInv', ReviewInv, [Next]_vars
  PROVE  ReviewInv'
<1>0. /\ DOMAIN reviews = DOMAIN runs /\ DOMAIN reviews' = DOMAIN runs'
      /\ \A r \in DOMAIN runs : Reviewed(r)
  BY ReviewedRuns, SafetyTypes DEF SafetyInv, RecordInv, SameRuns
<1> SUFFICES ASSUME NEW r \in DOMAIN runs' PROVE Reviewed(r)'
  <2>1. ReviewInv' <=> \A r \in DOMAIN runs' : Reviewed(r)'
    BY <1>0 DEF ReviewInv, ReviewClosesRun, OutcomeStands, Reviewed
  <2>2. QED
    BY <2>1
<1>1. CASE Quiet
  BY <1>0, <1>1 DEF Quiet, db, Reviewed
<1>2. ASSUME NEW x, NEW t, NEW o, NEW source, NEW action, Inserted(x, t, o, source, action),
             UNCHANGED reports
      PROVE  Reviewed(r)'
  <2>1. x \notin DOMAIN reports /\ DOMAIN reports \subseteq DOMAIN runs
        /\ DOMAIN runs' = DOMAIN runs \cup {x}
        /\ reviews'[x] = << >>
        /\ \A y \in DOMAIN runs : /\ runs'[y] = runs[y] /\ audit'[y] = audit[y]
                                   /\ reviews'[y] = reviews[y]
    BY <1>2, SafetyTypes DEF Inserted
  <2>2. CASE r = x
    BY <1>2, <2>1, <2>2 DEF Reviewed
  <2>3. CASE r # x
    BY <1>0, <1>2, <2>1, <2>3 DEF Reviewed
  <2>4. QED
    BY <2>2, <2>3
<1>3. CASE RunCreated
  BY <1>2, <1>3 DEF RunCreated
<1>4. ASSUME NEW w, NEW q, NEW s, SuccessorWritten(w, q, s)
      PROVE  Reviewed(r)'
  BY <1>2, <1>4 DEF SuccessorWritten
<1>5. ASSUME NEW w, NEW q, StatusWritten(w, q)
      PROVE  Reviewed(r)'
  <2>1. /\ q.run \notin DOMAIN reports /\ UNCHANGED <<reports, reviews>>
        /\ r \in DOMAIN runs
        /\ r # q.run => runs'[r] = runs[r] /\ audit'[r] = audit[r]
    BY <1>0, <1>5, SafetyTypes DEF StatusWritten, Advanced
  <2>2. QED
    BY <1>0, <2>1 DEF Reviewed
<1>6. ASSUME NEW w, NEW q, ReviewWritten(w, q)
      PROVE  Reviewed(r)'
  <2> DEFINE target == ReviewTarget(q.decision)
             entry == [decision |-> q.decision, from |-> runs[q.run].status,
                       to |-> target, version |-> q.expected + 1]
  <2>1. /\ q.run \in DOMAIN reports /\ UNCHANGED reports /\ r \in DOMAIN runs
        /\ q.run \in DOMAIN runs
        /\ runs[q.run].status \in REVIEWABLE_RESEARCH_STATUSES
        /\ runs[q.run].version = q.expected
        /\ Advanced(q.run, target, "REVIEW_RECORDED")
        /\ reviews'[q.run] = Append(reviews[q.run], entry)
        /\ r # q.run => runs'[r] = runs[r] /\ audit'[r] = audit[r] /\ reviews'[r] = reviews[r]
    BY <1>0, <1>6, SafetyTypes DEF ReviewWritten, Advanced
  <2>2. CASE r # q.run
    BY <1>0, <2>1, <2>2 DEF Reviewed
  <2>3. CASE r = q.run
    <3>1. reviews[r] \in Seq(Review) /\ Reviewed(r)
      BY <1>0, <2>1, <2>3, SafetyTypes
    <3>3. runs[r].status \notin Terminal
      BY <2>1, <2>3 DEF Terminal, REVIEWABLE_RESEARCH_STATUSES
    <3>4. Len(reviews[r]) = 0
      BY <3>1, <3>3, NoReviewYet
    <3>5. runs[r].status = OutcomeStatus(reports[r].disposition)
      BY <2>1, <2>3, <3>1, <3>4 DEF Reviewed
    <3>6. Len(reviews'[r]) = 1 /\ reviews'[r][1] = entry
      <4> HIDE DEF entry
      <4>1. reviews'[r] = Append(reviews[r], entry)
        BY <2>1, <2>3
      <4>2. /\ Len(Append(reviews[r], entry)) = Len(reviews[r]) + 1
            /\ Append(reviews[r], entry)[Len(reviews[r]) + 1] = entry
        BY <3>1, Appended
      <4>3. QED
        BY <3>4, <4>1, <4>2
    <3>7. /\ Len(audit'[r]) = q.expected + 1
          /\ audit'[r][q.expected + 1].action = "REVIEW_RECORDED"
      <4> HIDE DEF target
      <4>1. Advanced(r, target, "REVIEW_RECORDED") /\ runs[r].version = q.expected
        BY <2>1, <2>3
      <4>2. /\ Len(audit'[r]) = runs[r].version + 1
            /\ audit'[r][runs[r].version + 1] =
                 [action |-> "REVIEW_RECORDED", status |-> target, version |-> runs[r].version + 1]
        BY <4>1, AdvancedTrail
      <4>3. QED
        BY <4>1, <4>2
    <3>8. runs'[r].status = target /\ target \in Terminal
      BY <2>1, <2>3, StatusFacts DEF Advanced, Terminal
    <3>9. QED
      BY <2>1, <2>3, <3>5, <3>6, <3>7, <3>8 DEF Reviewed
  <2>4. QED
    BY <2>2, <2>3
<1>7. ASSUME NEW w, NEW q, NEW d, ResultWritten(w, q, d)
      PROVE  Reviewed(r)'
  <2>1. /\ UNCHANGED reviews /\ r \in DOMAIN runs
        /\ q.run \in DOMAIN runs /\ q.run \notin DOMAIN reports
        /\ DOMAIN reports' = DOMAIN reports \cup {q.run}
        /\ reports'[q.run].disposition = d
        /\ \A x \in DOMAIN reports : reports'[x] = reports[x]
        /\ runs'[q.run].status = OutcomeStatus(d)
        /\ r # q.run => runs'[r] = runs[r] /\ audit'[r] = audit[r]
    BY <1>0, <1>7, SafetyTypes DEF ResultWritten, Advanced, With
  <2>2. CASE r # q.run
    BY <1>0, <2>1, <2>2 DEF Reviewed
  <2>3. CASE r = q.run
    <3>1. reviews[r] \in Seq(Review) /\ Reviewed(r)
      BY <1>0, <2>1, SafetyTypes
    <3>2. Len(reviews[r]) = 0
      BY <2>1, <2>3, <3>1, NoReviewYet
    <3>3. QED
      BY <2>1, <2>3, <3>2 DEF Reviewed
  <2>4. QED
    BY <2>2, <2>3
<1>8. QED
  BY <1>1, <1>3, <1>4, <1>5, <1>6, <1>7, StepEffects DEF Written

LEMMA ReviewInvHolds == Spec => []ReviewInv
<1>1. Init => ReviewInv
  BY EmptyTableTyped DEF Init, ReviewInv, ReviewClosesRun, OutcomeStands
<1>2. SafetyInv /\ SafetyInv' /\ ReviewInv /\ [Next]_vars => ReviewInv'
  BY ReviewStep
<1>. QED
  BY <1>1, <1>2, SafetyInvHolds, PTL DEF Spec

\* A run has one review at most, of the report it has, and nothing is recorded of it
\* after the review.
THEOREM ReviewsAreFinal == Spec => []ReviewClosesRun
  BY ReviewInvHolds, PTL DEF ReviewInv

-----------------------------------------------------------------------------
(* Reports and the idempotency records of results.                         *)

LedgerInv == LedgerMatchesReports /\ StoredAtVersion

\* What LedgerInv says of one report, and of one record.
Backed(r) ==
  \E k \in DOMAIN resultLedger :
    /\ k[1] = runs[r].tenant /\ k[2] = r
    /\ resultLedger[k].hash[2] = reports[r].bundle
    /\ \A j \in DOMAIN resultLedger : j[2] = r => j = k

Replayable(k) ==
  LET response == resultLedger[k].response IN
  /\ response.run = k[2] /\ k[2] \in DOMAIN reports
  /\ response.status = OutcomeStatus(reports[k[2]].disposition)
  /\ audit[k[2]][response.version] =
       [action |-> "RESULTS_PERSISTED", status |-> response.status, version |-> response.version]
  /\ response.version \in 1 .. Len(audit[k[2]])
  /\ response.version = resultLedger[k].hash[1] + 1

LEMMA LedgerParts ==
  LedgerInv <=> /\ \A r \in DOMAIN reports : Backed(r)
                /\ \A k \in DOMAIN resultLedger : Replayable(k)
  BY DEF LedgerInv, LedgerMatchesReports, StoredAtVersion, Backed, Replayable

\* Steps that write neither reports nor records of results.
LEMMA LedgerKept ==
  ASSUME LedgerInv, UNCHANGED <<reports, resultLedger>>, Extended(audit, audit'),
         \A x \in DOMAIN audit' : Len(audit'[x]) \in Nat,
         DOMAIN reports \subseteq DOMAIN audit,
         \A r \in DOMAIN reports : runs'[r].tenant = runs[r].tenant
  PROVE  LedgerInv'
<1>1. ASSUME NEW r \in DOMAIN reports'
      PROVE  Backed(r)'
  <2>1. Backed(r) /\ r \in DOMAIN reports
    BY <1>1, LedgerParts
  <2>2. QED
    BY <2>1 DEF Backed
<1>2. ASSUME NEW k \in DOMAIN resultLedger'
      PROVE  Replayable(k)'
  <2> DEFINE version == resultLedger[k].response.version
  <2>1. Replayable(k) /\ k \in DOMAIN resultLedger
    BY <1>2, LedgerParts
  <2>2. k[2] \in DOMAIN audit /\ k[2] \in DOMAIN audit' /\ version \in 1 .. Len(audit[k[2]])
    BY <2>1 DEF Replayable, Extended
  <2>3. /\ version <= Len(audit'[k[2]]) /\ audit'[k[2]][version] = audit[k[2]][version]
        /\ Len(audit'[k[2]]) \in Nat
    BY <2>2 DEF Extended
  <2>4. version \in Int /\ version >= 1
    BY <2>2
  <2>5. version \in 1 .. Len(audit'[k[2]])
    <3> HIDE DEF version
    <3>1. QED
      BY <2>3, <2>4
  <2>6. QED
    BY <2>1, <2>3, <2>5 DEF Replayable
<1>3. QED
  BY <1>1, <1>2 DEF LedgerInv, LedgerMatchesReports, StoredAtVersion, Backed, Replayable

LEMMA LedgerStep ==
  ASSUME SafetyInv, SafetyInv', LedgerInv, [Next]_vars
  PROVE  LedgerInv'
<1>0. /\ Extended(audit, audit')
      /\ DOMAIN audit = DOMAIN runs /\ DOMAIN reports \subseteq DOMAIN runs
  BY NothingRewrittenStep, SafetyTypes
<1>00. ASSUME NEW x \in DOMAIN audit'
       PROVE  Len(audit'[x]) \in Nat
  <2>1. audit'[x] \in Seq(AuditEvent)
    BY DEF SafetyInv, TypeInv, TypeOK, IsTable
  <2>2. QED
    BY <2>1
<1>1. CASE Quiet
  BY <1>0, <1>00, <1>1, LedgerKept DEF Quiet, db
<1>2. ASSUME NEW r, NEW t, NEW o, NEW source, NEW action, Inserted(r, t, o, source, action),
             UNCHANGED <<reports, resultLedger>>
      PROVE  LedgerInv'
  <2>1. \A x \in DOMAIN reports : runs'[x].tenant = runs[x].tenant
    BY <1>0, <1>2 DEF Inserted
  <2>2. QED
    BY <1>0, <1>00, <1>2, <2>1, LedgerKept
<1>3. ASSUME NEW r, NEW status, NEW action, Advanced(r, status, action),
             UNCHANGED <<reports, resultLedger>>
      PROVE  LedgerInv'
  <2>1. \A x \in DOMAIN reports : runs'[x].tenant = runs[x].tenant
    BY <1>0, <1>3 DEF Advanced
  <2>2. QED
    BY <1>0, <1>00, <1>3, <2>1, LedgerKept
<1>4. CASE RunCreated
  BY <1>2, <1>4 DEF RunCreated
<1>5. ASSUME NEW w, NEW q, StatusWritten(w, q) \/ ReviewWritten(w, q)
      PROVE  LedgerInv'
  BY <1>3, <1>5 DEF StatusWritten, ReviewWritten
<1>6. ASSUME NEW w, NEW q, NEW s, SuccessorWritten(w, q, s)
      PROVE  LedgerInv'
  BY <1>2, <1>6 DEF SuccessorWritten
<1>7. ASSUME NEW w, NEW q, NEW d, ResultWritten(w, q, d)
      PROVE  LedgerInv'
  <2> DEFINE key == LedgerKey(q)
             response == [code |-> "OK", run |-> q.run, status |-> OutcomeStatus(d),
                          version |-> q.expected + 1]
  <2>1. /\ q.run \in DOMAIN runs /\ q.run \notin DOMAIN reports
        /\ runs[q.run].tenant = q.tenant /\ runs[q.run].version = q.expected
        /\ runs'[q.run].tenant = runs[q.run].tenant
        /\ \A x \in DOMAIN runs : x # q.run => runs'[x] = runs[x] /\ audit'[x] = audit[x]
    BY <1>0, <1>7 DEF ResultWritten, Advanced
  <2>2. /\ DOMAIN reports' = DOMAIN reports \cup {q.run}
        /\ reports'[q.run] = [bundle |-> q.bundle, disposition |-> d]
        /\ \A x \in DOMAIN reports : reports'[x] = reports[x]
    BY <1>7 DEF ResultWritten, With
  <2>3. /\ key \notin DOMAIN resultLedger
        /\ DOMAIN resultLedger' = DOMAIN resultLedger \cup {key}
        /\ resultLedger'[key] = [hash |-> ResultHash(q), response |-> response]
        /\ \A k \in DOMAIN resultLedger : resultLedger'[k] = resultLedger[k]
    BY <1>7 DEF ResultWritten, With
  <2>4. key[1] = q.tenant /\ key[2] = q.run /\ ResultHash(q)[1] = q.expected
        /\ ResultHash(q)[2] = q.bundle
    BY DEF LedgerKey, ResultHash
  <2>5. q.expected \in Nat /\ Len(audit'[q.run]) = q.expected + 1
        /\ audit'[q.run][q.expected + 1] =
             [action |-> "RESULTS_PERSISTED", status |-> OutcomeStatus(d),
              version |-> q.expected + 1]
    <3>1. Advanced(q.run, OutcomeStatus(d), "RESULTS_PERSISTED")
      BY <1>7 DEF ResultWritten
    <3>2. runs[q.run].version \in Nat
      BY <2>1, SafetyTypes
    <3>3. QED
      BY <2>1, <3>1, <3>2, AdvancedTrail
  <2> HIDE DEF key
  <2>6. \A k \in DOMAIN resultLedger : k[2] # q.run /\ Replayable(k)
    BY <2>1, LedgerParts DEF Replayable
  <2>7. ASSUME NEW k \in DOMAIN resultLedger'
        PROVE  Replayable(k)'
    <3>1. CASE k = key
      <4>1. resultLedger'[k].response = response /\ resultLedger'[k].hash = ResultHash(q)
        BY <2>3, <3>1
      <4>2. q.expected + 1 \in 1 .. Len(audit'[q.run])
        BY <2>5
      <4>3. QED
        BY <2>2, <2>4, <2>5, <3>1, <4>1, <4>2 DEF Replayable
    <3>2. CASE k # key
      <4>1. /\ k \in DOMAIN resultLedger /\ Replayable(k)
            /\ resultLedger'[k] = resultLedger[k] /\ k[2] # q.run
        BY <2>3, <2>6, <2>7, <3>2
      <4>2. k[2] \in DOMAIN reports /\ k[2] \in DOMAIN runs
        BY <1>0, <4>1 DEF Replayable
      <4>3. reports'[k[2]] = reports[k[2]] /\ audit'[k[2]] = audit[k[2]]
        BY <2>1, <2>2, <4>1, <4>2
      <4>4. QED
        BY <2>2, <4>1, <4>2, <4>3 DEF Replayable
    <3>3. QED
      BY <3>1, <3>2
  <2>8. ASSUME NEW r \in DOMAIN reports'
        PROVE  Backed(r)'
    <3>1. CASE r = q.run
      BY <2>1, <2>2, <2>3, <2>4, <2>6, <3>1 DEF Backed
    <3>2. CASE r # q.run
      <4>1. /\ r \in DOMAIN reports /\ Backed(r)
            /\ reports'[r] = reports[r] /\ runs'[r] = runs[r]
        BY <1>0, <2>1, <2>2, <2>8, <3>2, LedgerParts
      <4>2. PICK k \in DOMAIN resultLedger :
              /\ k[1] = runs[r].tenant /\ k[2] = r
              /\ resultLedger[k].hash[2] = reports[r].bundle
              /\ \A j \in DOMAIN resultLedger : j[2] = r => j = k
        BY <4>1 DEF Backed
      <4>3. \A j \in DOMAIN resultLedger' : j[2] = r => j = k
        BY <2>3, <2>4, <3>2, <4>2
      <4>4. QED
        BY <2>3, <4>1, <4>2, <4>3 DEF Backed
    <3>3. QED
      BY <3>1, <3>2
  <2>9. QED
    BY <2>7, <2>8 DEF LedgerInv, LedgerMatchesReports, StoredAtVersion, Backed, Replayable
<1>8. QED
  BY <1>1, <1>4, <1>5, <1>6, <1>7, StepEffects DEF Written

LEMMA LedgerInvHolds == Spec => []LedgerInv
<1>1. Init => LedgerInv
  BY EmptyTableTyped DEF Init, LedgerInv, LedgerMatchesReports, StoredAtVersion
<1>2. SafetyInv /\ SafetyInv' /\ LedgerInv /\ [Next]_vars => LedgerInv'
  BY LedgerStep
<1>3. QED
  BY <1>1, <1>2, SafetyInvHolds, PTL DEF Spec

\* The idempotency record of a result and the report it stands for are written
\* together or not at all, one of each for a run, and the stored response is the
\* state the report put the run in.
THEOREM ResultsAreRetryable == Spec => []LedgerMatchesReports
<1>1. LedgerInv => LedgerMatchesReports
  BY DEF LedgerInv
<1>2. QED
  BY <1>1, LedgerInvHolds, PTL

-----------------------------------------------------------------------------
(* What clients have been told.                                            *)

\* A success that is in the audit trail and, for a result, in the ledger.
Told(q, answer) ==
  /\ answer.run \in DOMAIN audit
  /\ answer.version \in 1 .. Len(audit[answer.run])
  /\ LET event == audit[answer.run][answer.version] IN
     /\ event.status = answer.status /\ event.version = answer.version
     /\ q.op = "transition" => event.action = "STATUS_CHANGED"
     /\ q.op = "review" => event.action = "REVIEW_RECORDED"
     /\ q.op = "result" => event.action = "RESULTS_PERSISTED"
  /\ q.op \in RunChanging => answer.run = q.run /\ answer.version = q.expected + 1
  /\ q.op = "result" => /\ LedgerKey(q) \in DOMAIN resultLedger
                        /\ resultLedger[LedgerKey(q)].hash = ResultHash(q)

Acknowledged(w) == DoneOK(w) => Told(RequestOf(w), session[w].answer)

AnswersInv == (\A w \in Workers : Acknowledged(w)) /\ OneWinnerPerVersion

LEMMA ToldKept ==
  ASSUME NEW q, NEW answer, Told(q, answer),
         Extended(audit, audit'), Kept(resultLedger, resultLedger'),
         \A x \in DOMAIN audit' : Len(audit'[x]) \in Nat
  PROVE  Told(q, answer)'
<1> DEFINE r == answer.run
           v == answer.version
<1>1. /\ r \in DOMAIN audit /\ r \in DOMAIN audit' /\ v \in 1 .. Len(audit[r])
      /\ v <= Len(audit'[r]) /\ audit'[r][v] = audit[r][v] /\ Len(audit'[r]) \in Nat
  BY DEF Told, Extended
<1>2. v \in 1 .. Len(audit'[r])
  <2> HIDE DEF r, v
  <2>1. QED
    BY <1>1
<1>3. q.op = "result" => /\ LedgerKey(q) \in DOMAIN resultLedger'
                         /\ resultLedger'[LedgerKey(q)].hash = ResultHash(q)
  BY DEF Told, Kept
<1>4. QED
  BY <1>1, <1>2, <1>3 DEF Told

\* What is replayed from the ledger was told of something recorded.
LEMMA ReplayTold ==
  ASSUME SafetyInv, LedgerInv, NEW q \in Request, InLedger(q), Replayed(q).code = "OK"
  PROVE  Told(q, Replayed(q)) /\ q.op \in {"result", "successor"}
<1>0. \A code \in ErrorCode : Error(code).code # "OK"
  BY DEF Error, ErrorCode
<1>1. CASE q.op = "result"
  <2> DEFINE k == LedgerKey(q)
  <2>1. k \in DOMAIN resultLedger
    BY <1>1 DEF InLedger
  <2>2. resultLedger[k].hash = ResultHash(q) /\ Replayed(q) = resultLedger[k].response
    BY <1>0, <1>1 DEF Replayed, ReplayedResult, ErrorCode
  <2>3. Replayable(k)
    BY <2>1, LedgerParts
  <2>4. k[2] = q.run /\ ResultHash(q)[1] = q.expected
    BY DEF LedgerKey, ResultHash
  <2>5. q.run \in DOMAIN audit
    BY <2>3, <2>4, SafetyTypes DEF Replayable
  <2> HIDE DEF k
  <2>6. QED
    BY <1>1, <2>1, <2>2, <2>3, <2>4, <2>5 DEF Told, Replayable, k
<1>2. CASE q.op = "successor"
  <2> DEFINE s == successorLedger[LedgerKey(q)].run
  <2>1. LedgerKey(q) \in DOMAIN successorLedger
    BY <1>2 DEF InLedger
  <2>2. s \in DOMAIN runs
    BY <2>1 DEF SafetyInv, TypeInv, LedgerNamesRuns
  <2>3. Replayed(q) = Completed(s, runs[s])
    BY <1>0, <1>2 DEF Replayed, ReplayedSuccessor, ErrorCode
  <2> HIDE DEF s
  <2>4. /\ s \in DOMAIN audit /\ runs[s].version \in 1 .. Len(audit[s])
        /\ audit[s][runs[s].version].status = runs[s].status
        /\ audit[s][runs[s].version].version = runs[s].version
    BY <2>2, SafetyTypes
  <2>5. QED
    BY <1>2, <2>3, <2>4 DEF Told, Completed, RunChanging
<1>3. QED
  BY <1>1, <1>2, RequestFields DEF InLedger

\* A commit tells its client of the event that it appends.
LEMMA AdvanceTold ==
  ASSUME SafetyInv, NEW q, NEW status, NEW action, Advanced(q.run, status, action),
         runs[q.run].version = q.expected,
         q.op = "transition" => action = "STATUS_CHANGED",
         q.op = "review" => action = "REVIEW_RECORDED",
         q.op = "result" =>
           /\ action = "RESULTS_PERSISTED"
           /\ LedgerKey(q) \in DOMAIN resultLedger'
           /\ resultLedger'[LedgerKey(q)].hash = ResultHash(q),
         NEW answer, answer = [code |-> "OK", run |-> q.run, status |-> status,
                               version |-> q.expected + 1]
  PROVE  Told(q, answer)'
<1>1. q.expected \in Nat /\ q.run \in DOMAIN runs
  BY SafetyTypes DEF Advanced
<1>2. /\ q.run \in DOMAIN audit' /\ Len(audit'[q.run]) = q.expected + 1
      /\ audit'[q.run][q.expected + 1] =
           [action |-> action, status |-> status, version |-> q.expected + 1]
  BY <1>1, AdvancedTrail
<1>3. q.expected + 1 \in 1 .. Len(audit'[q.run])
  BY <1>1, <1>2
<1>4. QED
  BY <1>2, <1>3 DEF Told

\* Two successes at the same version of a run, one of them a result: both are answers
\* to the same command.
LEMMA SameCommand ==
  ASSUME LedgerInv, NEW p \in Request, NEW q \in Request, NEW a, NEW b,
         Told(p, a), Told(q, b), p.op \in RunChanging, q.op = "result",
         p.run = q.run, p.expected = q.expected
  PROVE  p.op = "result" /\ p = q
<1>1. a.run = b.run /\ a.version = b.version
  BY DEF Told, RunChanging
<1>2. p.op = "result"
  BY <1>1 DEF Told, RunChanging
<1>3. LedgerKey(p) = LedgerKey(q)
  <2>1. LedgerKey(p) \in DOMAIN resultLedger /\ LedgerKey(q) \in DOMAIN resultLedger
    BY <1>2 DEF Told
  <2>2. LedgerKey(p)[2] = q.run /\ LedgerKey(q)[2] = q.run
    BY DEF LedgerKey
  <2>3. Replayable(LedgerKey(q))
    BY <2>1, LedgerParts
  <2>4. q.run \in DOMAIN reports
    BY <2>2, <2>3 DEF Replayable
  <2>5. Backed(q.run)
    BY <2>4, LedgerParts
  <2>6. QED
    BY <2>1, <2>2, <2>5 DEF Backed
<1>4. ResultHash(p) = ResultHash(q)
  BY <1>2, <1>3 DEF Told
<1>5. p \in ResultRequest /\ q \in ResultRequest
  BY <1>2, RequestFields
<1>6. /\ p.tenant = q.tenant /\ p.key = q.key /\ p.bundle = q.bundle
  BY <1>3, <1>4 DEF LedgerKey, ResultHash
<1>7. QED
  BY <1>2, <1>5, <1>6 DEF ResultRequest

\* One worker alone moves: what the others were told still stands.
LEMMA OthersStand ==
  ASSUME SafetyInv, SafetyInv', [Next]_vars, NEW v \in Workers, Acknowledged(v),
         session'[v] = session[v]
  PROVE  Acknowledged(v)'
<1>1. Extended(audit, audit') /\ Kept(resultLedger, resultLedger')
  BY NothingRewrittenStep
<1>2. ASSUME NEW x \in DOMAIN audit'
      PROVE  Len(audit'[x]) \in Nat
  <2>1. audit'[x] \in Seq(AuditEvent)
    BY DEF SafetyInv, TypeInv, TypeOK, IsTable
  <2>2. QED
    BY <2>1
<1>3. PICK q, answer : q = session[v].req /\ answer = session[v].answer
  OBVIOUS
<1>4. SUFFICES ASSUME DoneOK(v)' PROVE Told(q, answer)'
  BY <1>3 DEF Acknowledged, RequestOf
<1>5. Told(q, answer)
  BY <1>3, <1>4 DEF Acknowledged, DoneOK, At, RequestOf
<1>6. QED
  BY <1>1, <1>2, <1>5, ToldKept

\* The successes another worker has been told of, at the version q expects of its run.
Rivals(w, q) ==
  {v \in Workers \ {w} : /\ DoneOK(v) /\ RequestOf(v).op \in RunChanging
                         /\ RequestOf(v).run = q.run /\ RequestOf(v).expected = q.expected}

LEMMA OneMoves ==
  ASSUME SafetyInv, SafetyInv', [Next]_vars, AnswersInv, NEW w \in Workers, NEW s,
         session' = [session EXCEPT ![w] = s],
         s.pc = "done" /\ s.answer.code = "OK" =>
           /\ Told(s.req, s.answer)'
           /\ s.req.op \in RunChanging =>
                \A v \in Rivals(w, s.req) : s.req.op = "result" /\ RequestOf(v) = s.req
  PROVE  AnswersInv'
<1>1. /\ session'[w] = s
      /\ \A v \in Workers : v # w => session'[v] = session[v]
  BY SafetyTypes
<1>2. ASSUME NEW v \in Workers
      PROVE  Acknowledged(v)'
  <2>1. CASE v = w
    BY <1>1, <2>1 DEF Acknowledged, DoneOK, At, RequestOf
  <2>2. CASE v # w
    BY <1>1, <2>2, OthersStand DEF AnswersInv
  <2>3. QED
    BY <2>1, <2>2
<1>3. OneWinnerPerVersion'
  <2> SUFFICES ASSUME NEW u \in Workers, NEW v \in Workers, u # v, DoneOK(u)', DoneOK(v)',
                      session'[u].req.op \in RunChanging, session'[v].req.op \in RunChanging,
                      session'[u].req.run = session'[v].req.run,
                      session'[u].req.expected = session'[v].req.expected
               PROVE  session'[u].req.op = "result" /\ session'[u].req = session'[v].req
    BY DEF OneWinnerPerVersion, RequestOf
  <2>1. CASE u # w /\ v # w
    <3>1. session'[u] = session[u] /\ session'[v] = session[v]
      BY <1>1, <2>1
    <3>2. QED
      BY <3>1 DEF AnswersInv, OneWinnerPerVersion, DoneOK, At, RequestOf
  <2>2. CASE u = w
    <3>1. session'[v] = session[v] /\ v # w /\ s.pc = "done" /\ s.answer.code = "OK"
      BY <1>1, <2>2 DEF DoneOK, At
    <3>2. v \in Rivals(w, s.req)
      BY <1>1, <2>2, <3>1 DEF Rivals, DoneOK, At, RequestOf
    <3>3. QED
      BY <1>1, <2>2, <3>1, <3>2 DEF RequestOf
  <2>3. CASE v = w
    <3>1. session'[u] = session[u] /\ u # w /\ s.pc = "done" /\ s.answer.code = "OK"
      BY <1>1, <2>3 DEF DoneOK, At
    <3>2. u \in Rivals(w, s.req)
      BY <1>1, <2>3, <3>1 DEF Rivals, DoneOK, At, RequestOf
    <3>3. QED
      BY <1>1, <2>3, <3>1, <3>2 DEF RequestOf
  <2>4. QED
    BY <2>1, <2>2, <2>3
<1>4. QED
  BY <1>2, <1>3 DEF AnswersInv

\* A commit has no rival: whoever was told of the next version of the run would have
\* left its event in the trail.
LEMMA CommitHasNoRival ==
  ASSUME SafetyInv, AnswersInv, NEW w, NEW q, q.run \in DOMAIN runs,
         runs[q.run].version = q.expected
  PROVE  Rivals(w, q) = {}
<1> SUFFICES ASSUME NEW v \in Rivals(w, q) PROVE FALSE
  OBVIOUS
<1>1. Told(RequestOf(v), session[v].answer)
  BY DEF Rivals, AnswersInv, Acknowledged
<1>2. /\ session[v].answer.run = q.run /\ session[v].answer.version = q.expected + 1
      /\ session[v].answer.version \in 1 .. Len(audit[q.run])
  BY <1>1 DEF Rivals, Told
<1>3. Len(audit[q.run]) = q.expected /\ q.expected \in Nat
  BY SafetyTypes
<1>4. q.expected + 1 \in 1 .. q.expected
  BY <1>2, <1>3
<1>5. QED
  BY <1>3, <1>4

LEMMA AnswersStep ==
  ASSUME SafetyInv, SafetyInv', LedgerInv, AnswersInv, [Next]_vars
  PROVE  AnswersInv'
<1>1. ASSUME UNCHANGED session
      PROVE  AnswersInv'
  <2>1. \A v \in Workers : Acknowledged(v)'
    BY <1>1, OthersStand DEF AnswersInv
  <2>2. OneWinnerPerVersion'
    BY <1>1 DEF AnswersInv, OneWinnerPerVersion, DoneOK, At, RequestOf
  <2>3. QED
    BY <2>1, <2>2 DEF AnswersInv
<1>2. CASE Quiet
  <2>1. CASE UNCHANGED session
    BY <1>1, <2>1
  <2>2. ASSUME NEW w \in Workers, NEW s, session' = [session EXCEPT ![w] = s],
               s.pc = "done" =>
                 /\ s.req \in Request
                 /\ s.answer.code = "OK" => InLedger(s.req) /\ s.answer = Replayed(s.req)
        PROVE  AnswersInv'
    <3>1. ASSUME s.pc = "done", s.answer.code = "OK"
          PROVE  /\ Told(s.req, s.answer)'
                 /\ s.req.op \in RunChanging =>
                      \A v \in Rivals(w, s.req) : s.req.op = "result" /\ RequestOf(v) = s.req
      <4>1. Told(s.req, s.answer) /\ s.req.op \in {"result", "successor"} /\ s.req \in Request
        BY <2>2, <3>1, ReplayTold
      <4>2. Told(s.req, s.answer)'
        BY <1>2, <4>1 DEF Quiet, db, Told
      <4>3. ASSUME s.req.op \in RunChanging, NEW v \in Rivals(w, s.req)
            PROVE  s.req.op = "result" /\ RequestOf(v) = s.req
        <5>1. s.req.op = "result"
          BY <4>1, <4>3 DEF RunChanging
        <5>2. Told(RequestOf(v), session[v].answer)
          BY DEF Rivals, AnswersInv, Acknowledged
        <5>3. RequestOf(v) \in Request
          <6>1. session[v] \in Session /\ session[v].pc = "done"
            BY SafetyTypes DEF Rivals, DoneOK, At
          <6>2. QED
            BY <6>1 DEF Session, SessionRecord, RequestOf
        <5>4. QED
          BY <4>1, <5>1, <5>2, <5>3, SameCommand DEF Rivals
      <4>4. QED
        BY <4>2, <4>3
    <3>2. QED
      BY <2>2, <3>1, OneMoves
  <2>3. QED
    BY <1>2, <2>1, <2>2 DEF Quiet
<1>3. CASE RunCreated
  BY <1>1, <1>3 DEF RunCreated
<1>4. ASSUME NEW w \in Workers, NEW q, NEW status, NEW action, Advanced(q.run, status, action),
             runs[q.run].version = q.expected,
             q.op = "transition" => action = "STATUS_CHANGED",
             q.op = "review" => action = "REVIEW_RECORDED",
             q.op = "result" =>
               /\ action = "RESULTS_PERSISTED"
               /\ LedgerKey(q) \in DOMAIN resultLedger'
               /\ resultLedger'[LedgerKey(q)].hash = ResultHash(q),
             Answered(w, q, q.run, status, q.expected + 1)
      PROVE  AnswersInv'
  <2> DEFINE answer == [code |-> "OK", run |-> q.run, status |-> status,
                        version |-> q.expected + 1]
             s == [pc |-> "done", req |-> q, answer |-> answer]
  <2>1. Told(q, answer)'
    BY <1>4, AdvanceTold
  <2>2. Rivals(w, q) = {}
    BY <1>4, CommitHasNoRival DEF Advanced
  <2>3. session' = [session EXCEPT ![w] = s]
    BY <1>4 DEF Answered
  <2>4. s.req = q /\ s.answer = answer
    OBVIOUS
  <2> HIDE DEF s, answer
  <2>5. QED
    BY <2>1, <2>2, <2>3, <2>4, OneMoves
<1>5. ASSUME NEW w \in Workers, NEW q, StatusWritten(w, q)
      PROVE  AnswersInv'
  <2>1. q.op = "transition"
    BY <1>5 DEF StatusWritten, TransitionRequest
  <2>2. QED
    BY <1>4, <1>5, <2>1 DEF StatusWritten
<1>6. ASSUME NEW w \in Workers, NEW q, ReviewWritten(w, q)
      PROVE  AnswersInv'
  <2>1. q.op = "review"
    BY <1>6 DEF ReviewWritten, ReviewRequest
  <2>2. QED
    BY <1>4, <1>6, <2>1 DEF ReviewWritten
<1>7. ASSUME NEW w \in Workers, NEW q, NEW d, ResultWritten(w, q, d)
      PROVE  AnswersInv'
  <2>1. q.op = "result"
    BY <1>7 DEF ResultWritten, ResultRequest
  <2>2. /\ LedgerKey(q) \in DOMAIN resultLedger'
        /\ resultLedger'[LedgerKey(q)].hash = ResultHash(q)
    BY <1>7 DEF ResultWritten, With
  <2>3. QED
    BY <1>4, <1>7, <2>1, <2>2 DEF ResultWritten
<1>8. ASSUME NEW w \in Workers, NEW q, NEW r, SuccessorWritten(w, q, r)
      PROVE  AnswersInv'
  <2> DEFINE answer == [code |-> "OK", run |-> r, status |-> "CREATED", version |-> 1]
             s == [pc |-> "done", req |-> q, answer |-> answer]
  <2>1. q.op = "successor"
    BY <1>8 DEF SuccessorWritten, SuccessorRequest
  <2>2. /\ r \in DOMAIN audit'
        /\ audit'[r] = <<[action |-> "CREATED_AS_RECALCULATION", status |-> "CREATED",
                          version |-> 1]>>
    BY <1>8 DEF SuccessorWritten, Inserted
  <2>3. 1 \in 1 .. Len(audit'[r]) /\ audit'[r][1].status = "CREATED" /\ audit'[r][1].version = 1
    <3> DEFINE event == [action |-> "CREATED_AS_RECALCULATION", status |-> "CREATED",
                         version |-> 1]
    <3>1. event.status = "CREATED" /\ event.version = 1 /\ audit'[r] = <<event>>
      BY <2>2
    <3> HIDE DEF event
    <3>2. Len(<<event>>) = 1 /\ <<event>>[1] = event /\ 1 \in 1 .. 1
      OBVIOUS
    <3>3. QED
      BY <3>1, <3>2
  <2>4. Told(q, answer)'
    BY <2>1, <2>2, <2>3 DEF Told, RunChanging
  <2>5. session' = [session EXCEPT ![w] = s]
    BY <1>8 DEF SuccessorWritten, Answered
  <2>6. s.req = q /\ s.answer = answer /\ q.op \notin RunChanging
    BY <2>1 DEF RunChanging
  <2> HIDE DEF s, answer
  <2>7. QED
    BY <2>4, <2>5, <2>6, OneMoves
<1>9. QED
  BY <1>2, <1>3, <1>5, <1>6, <1>7, <1>8, StepEffects DEF Written

LEMMA AnswersInvHolds == Spec => []AnswersInv
<1>1. Init => AnswersInv
  BY DEF Init, AnswersInv, Acknowledged, OneWinnerPerVersion, DoneOK, At, Idle
<1>2. SafetyInv /\ SafetyInv' /\ LedgerInv /\ AnswersInv /\ [Next]_vars => AnswersInv'
  BY AnswersStep
<1>3. QED
  BY <1>1, <1>2, SafetyInvHolds, LedgerInvHolds, PTL DEF Spec

\* A client is told of success only for a change that is in the audit trail, at the
\* version it is told and on top of the version it expected.
THEOREM SuccessIsRecorded == Spec => []AcknowledgedIsRecorded
<1>1. AnswersInv => AcknowledgedIsRecorded
  BY DEF AnswersInv, Acknowledged, Told, AcknowledgedIsRecorded
<1>2. QED
  BY <1>1, AnswersInvHolds, PTL

\* Of the requests that expect the same version of a run, one at most changes it,
\* however many workers there are and whatever dies between their steps.
THEOREM OneWinner == Spec => []OneWinnerPerVersion
<1>1. AnswersInv => OneWinnerPerVersion
  BY DEF AnswersInv
<1>2. QED
  BY <1>1, AnswersInvHolds, PTL

-----------------------------------------------------------------------------
(* What a step does to the sessions.                                       *)

InFlight == InService \cup {"holding"}

\* What the evaluation of some bundle may yield, or the commands without one.
Evaluated(d) == d = NoDisposition \/ \E b \in Bundles : d \in OutcomesOf[b]

NotForeign == {"NOT_FOUND", "INVALID_INPUT"}

\* The session of w becomes s: the disposition is never made up on the way, and only
\* a request for a run of its own tenant gets as far as a lock or a record.
Serves(w, s) ==
  /\ session' = [session EXCEPT ![w] = s]
  /\ s.pc \in InFlight =>
       \/ Evaluated(s.disposition)
       \/ session[w].pc \in InFlight /\ s.disposition = session[w].disposition
  /\ s.pc = "integrity" => Visible(s.req)
  /\ s.pc = "done" =>
       \/ s.answer.code \in NotForeign
       \/ Visible(s.req)
       \/ session[w].pc = "integrity" /\ s.req = session[w].req

\* What is in a ledger is there for the tenant that has the run.
LEMMA LedgerIsOwn ==
  ASSUME SafetyInv, LedgerMatchesReports, SuccessorLineage, NEW q \in Request, InLedger(q)
  PROVE  Visible(q)
<1>0. DOMAIN reports \subseteq DOMAIN runs /\ q.run \in RunIds
  BY SafetyTypes, RequestFields
<1> DEFINE k == LedgerKey(q)
<1>1. k[1] = q.tenant /\ k[2] = q.run
  BY DEF LedgerKey
<1> HIDE DEF k
<1>2. CASE k \in DOMAIN resultLedger
  <2>1. q.run \in DOMAIN reports
    BY <1>1, <1>2 DEF LedgerMatchesReports
  <2>2. PICK j \in DOMAIN resultLedger :
          /\ j[1] = runs[q.run].tenant /\ j[2] = q.run
          /\ \A i \in DOMAIN resultLedger : i[2] = q.run => i = j
    BY <2>1 DEF LedgerMatchesReports
  <2>3. k = j
    BY <1>1, <1>2, <2>2
  <2>. QED
    BY <1>0, <1>1, <2>1, <2>2, <2>3 DEF Visible
<1>3. CASE k \in DOMAIN successorLedger
  <2> DEFINE s == successorLedger[k].run
  <2>1. s \in DOMAIN runs /\ runs[s].supersedes = q.run /\ q.run # NoRun
    BY <1>0, <1>1, <1>3, RunsAssumption DEF SuccessorLineage
  <2>2. /\ q.run \in DOMAIN reports /\ runs[s].tenant = runs[q.run].tenant
        /\ \E j \in DOMAIN successorLedger :
             /\ j[1] = runs[s].tenant
             /\ \A i \in DOMAIN successorLedger : successorLedger[i].run = s <=> i = j
    BY <2>1 DEF SuccessorLineage
  <2>3. k[1] = runs[s].tenant
    BY <1>3, <2>2
  <2>. QED
    BY <1>0, <1>1, <2>2, <2>3 DEF Visible
<1>. QED
  BY <1>2, <1>3 DEF InLedger, k

LEMMA ReplyServes ==
  ASSUME NEW w \in Workers, NEW q, NEW answer, Reply(w, q, answer),
         \/ answer.code \in NotForeign
         \/ Visible(q)
         \/ session[w].pc = "integrity" /\ q = session[w].req
  PROVE  \E s : Serves(w, s)
<1> DEFINE s == [pc |-> "done", req |-> q, answer |-> answer]
<1>1. session' = [session EXCEPT ![w] = s] /\ s.pc = "done" /\ s.req = q /\ s.answer = answer
  BY DEF Reply
<1> HIDE DEF s
<1>. QED
  BY <1>1 DEF Serves, InFlight, InService

LEMMA GotoServes ==
  ASSUME NEW w \in Workers, NEW s, Goto(w, s), s.pc # "done",
         s.pc \in InFlight =>
           \/ Evaluated(s.disposition)
           \/ session[w].pc \in InFlight /\ s.disposition = session[w].disposition,
         s.pc = "integrity" => Visible(s.req)
  PROVE  \E t : Serves(w, t)
  BY DEF Goto, Serves

LEMMA RollbackServes ==
  ASSUME NEW w \in Workers, At(w, "holding"), Visible(session[w].req), Rollback(w)
  PROVE  \E s : Serves(w, s)
<1> DEFINE s == [pc |-> "integrity", req |-> session[w].req,
                 disposition |-> session[w].disposition]
<1>1. Goto(w, s) /\ s.pc = "integrity" /\ s.req = session[w].req
      /\ s.disposition = session[w].disposition
  BY DEF Rollback
<1>2. session[w].pc \in InFlight
  BY DEF At, InFlight
<1> HIDE DEF s
<1>. QED
  BY <1>1, <1>2, GotoServes

LEMMA StepServes ==
  ASSUME SafetyInv, LedgerMatchesReports, SuccessorLineage, [Next]_vars
  PROVE  UNCHANGED session \/ \E w \in Workers : \E s : Serves(w, s)
<1>1. CASE UNCHANGED vars \/ CreateRun
  BY <1>1 DEF vars, CreateRun
<1>2. ASSUME NEW w \in Workers, AskResult(w)
      PROVE  \E s : Serves(w, s)
  <2>1. PICK q \in ResultRequest :
          \/ InLedger(q) /\ Reply(w, q, Replayed(q))
          \/ Reply(w, q, Error("INVALID_INPUT"))
          \/ \E d \in OutcomesOf[q.bundle] :
               Goto(w, [pc |-> "looked", req |-> q, disposition |-> d])
    BY <1>2 DEF AskResult, ReplyOnly
  <2>2. q \in Request /\ q.bundle \in Bundles
    BY RequestKinds DEF ResultRequest
  <2>3. \A d \in OutcomesOf[q.bundle] : Evaluated(d)
    BY <2>2 DEF Evaluated
  <2>. QED
    BY <2>1, <2>2, <2>3, LedgerIsOwn, ReplyServes, GotoServes DEF Error, NotForeign
<1>3. ASSUME NEW w \in Workers, AskSuccessor(w)
      PROVE  \E s : Serves(w, s)
  <2>1. PICK q \in SuccessorRequest :
          \/ InLedger(q) /\ Reply(w, q, Replayed(q))
          \/ Goto(w, [pc |-> "looked", req |-> q, disposition |-> NoDisposition])
    BY <1>3 DEF AskSuccessor, ReplyOnly
  <2>2. q \in Request
    BY RequestKinds
  <2>. QED
    BY <2>1, <2>2, LedgerIsOwn, ReplyServes, GotoServes DEF Evaluated
<1>4. ASSUME NEW w \in Workers, AskTransition(w) \/ AskReview(w)
      PROVE  \E s : Serves(w, s)
  BY <1>4, GotoServes DEF AskTransition, AskReview, Begun, Evaluated
<1>5. ASSUME NEW w \in Workers, LookAgain(w)
      PROVE  \E s : Serves(w, s)
  <2> DEFINE q == session[w].req
             s == [pc |-> "begun", req |-> q, disposition |-> session[w].disposition]
  <2>1. q \in Request /\ session[w].pc \in InFlight
    BY <1>5, SafetyTypes, ServiceTyped DEF LookAgain, At, InService, InFlight
  <2>2. (InLedger(q) /\ Reply(w, q, Replayed(q))) \/ Goto(w, s)
    BY <1>5 DEF LookAgain, Begun, ReplyOnly
  <2>3. s.pc = "begun" /\ s.disposition = session[w].disposition
    OBVIOUS
  <2> HIDE DEF s
  <2>. QED
    BY <2>1, <2>2, <2>3, LedgerIsOwn, ReplyServes, GotoServes
<1>6. ASSUME NEW w \in Workers, LockRun(w)
      PROVE  \E s : Serves(w, s)
  <2> DEFINE q == session[w].req
             s == [pc |-> "holding", req |-> q, disposition |-> session[w].disposition,
                   row |-> runs[q.run]]
  <2>1. session[w].pc \in InFlight
    BY <1>6 DEF LockRun, At, InService, InFlight
  <2>2. \/ Reply(w, q, Error("NOT_FOUND"))
        \/ Visible(q) /\ Reply(w, q, Error(Verdict(q, runs[q.run])))
        \/ Goto(w, s)
    BY <1>6 DEF LockRun, ReplyOnly
  <2>3. s.pc = "holding" /\ s.disposition = session[w].disposition
    OBVIOUS
  <2>4. Error("NOT_FOUND").code \in NotForeign
    BY DEF Error, NotForeign
  <2> HIDE DEF s
  <2>. QED
    BY <2>1, <2>2, <2>3, <2>4, ReplyServes, GotoServes
<1>7. ASSUME NEW w \in Workers, Commit(w) \/ SourceNameTaken(w)
      PROVE  \E s : Serves(w, s)
  <2>1. At(w, "holding")
    BY <1>7 DEF Commit, CommitTransition, CommitReview, CommitResult, CommitSuccessor,
       SourceNameTaken
  <2>2. Visible(session[w].req)
    BY <2>1 DEF SafetyInv, LockInv, HoldersSeeTheirRow, Visible
  <2>3. Rollback(w) \/ \E answer : Reply(w, session[w].req, answer)
    BY <1>7 DEF Commit, CommitTransition, CommitReview, CommitResult, CommitSuccessor,
       SourceNameTaken
  <2>. QED
    BY <2>1, <2>2, <2>3, RollbackServes, ReplyServes
<1>8. ASSUME NEW w \in Workers, Recover(w)
      PROVE  \E s : Serves(w, s)
  <2>1. session[w].pc = "integrity" /\ \E answer : Reply(w, session[w].req, answer)
    BY <1>8 DEF Recover, ReplyOnly, At
  <2>. QED
    BY <2>1, ReplyServes
<1>9. ASSUME NEW w \in Workers, Deliver(w) \/ Crash(w)
      PROVE  \E s : Serves(w, s)
  BY <1>9, GotoServes DEF Deliver, Crash, Idle, InFlight, InService
<1>. QED
  BY <1>1, <1>2, <1>3, <1>4, <1>5, <1>6, <1>7, <1>8, <1>9 DEF Next, Ask

-----------------------------------------------------------------------------
(* Tenants.                                                                *)

\* A run that a tenant can see stays visible to it.
LEMMA VisibleKept ==
  ASSUME SafetyInv, [Next]_vars, NEW q, Visible(q)
  PROVE  Visible(q)'
<1>1. ASSUME NEW r, NEW status, NEW action, Advanced(r, status, action)
      PROVE  Visible(q)'
  BY <1>1 DEF Advanced, Visible
<1>2. ASSUME NEW r, NEW t, NEW o, NEW source, NEW action, Inserted(r, t, o, source, action)
      PROVE  Visible(q)'
  BY <1>2 DEF Inserted, Visible
<1>3. CASE Quiet
  BY <1>3 DEF Quiet, db, Visible
<1>. QED
  BY <1>1, <1>2, <1>3, StepEffects
     DEF RunCreated, Written, StatusWritten, ReviewWritten, ResultWritten, SuccessorWritten

\* Whoever is told more than that there is nothing asked for a run of its own tenant.
ServedOwners ==
  \A w \in Workers :
    \/ session[w].pc = "integrity"
    \/ session[w].pc = "done" /\ session[w].answer.code \notin NotForeign
    => Visible(session[w].req)

LEMMA OwnersStep ==
  ASSUME SafetyInv, LedgerMatchesReports, SuccessorLineage, ServedOwners, [Next]_vars
  PROVE  ServedOwners'
<1> SUFFICES ASSUME NEW v \in Workers,
                    \/ session'[v].pc = "integrity"
                    \/ session'[v].pc = "done" /\ session'[v].answer.code \notin NotForeign
             PROVE  Visible(session[v].req)'
  BY DEF ServedOwners
<1>1. Visible(session'[v].req)
  <2>1. CASE session'[v] = session[v]
    BY <2>1 DEF ServedOwners
  <2>2. CASE session'[v] # session[v]
    <3>1. session \in [Workers -> Session]
      BY SafetyTypes
    <3>2. PICK w \in Workers : \E s : Serves(w, s)
      BY <2>2, StepServes
    <3>3. PICK s : Serves(w, s)
      BY <3>2
    <3>4. w = v /\ session'[v] = s
      BY <2>2, <3>1, <3>3 DEF Serves
    <3>. QED
      BY <3>3, <3>4 DEF Serves, ServedOwners
  <2>. QED
    BY <2>1, <2>2
<1>2. PICK q : q = session'[v].req
  OBVIOUS
<1>3. Visible(q)'
  BY <1>1, <1>2, VisibleKept
<1>. QED
  BY <1>2, <1>3 DEF Visible

\* Whatever a tenant asks about a run of another one, at any moment of any command, it
\* is answered as if the run did not exist.
THEOREM TenantsAreSeparate == Spec => []ForeignTenantLearnsNothing
<1>1. Init => ServedOwners
  BY DEF Init, ServedOwners, Idle
<1>2. /\ SafetyInv /\ LedgerMatchesReports /\ SuccessorLineage
      /\ ServedOwners /\ [Next]_vars
      => ServedOwners'
  BY OwnersStep
<1>3. ServedOwners => ForeignTenantLearnsNothing
  BY DEF ServedOwners, ForeignTenantLearnsNothing, Visible, At, RequestOf, NotForeign
<1>. QED
  BY <1>1, <1>2, <1>3, SafetyInvHolds, ResultsAreRetryable, SuccessorsHaveLineage, PTL DEF Spec

-----------------------------------------------------------------------------
(* Completion.                                                             *)

NonePasses == \A b \in Bundles : "PASSED" \notin OutcomesOf[b]

\* No report says PASSED unless the evaluation of some bundle may: neither the ones
\* that are stored nor the ones under way.
OutcomesHonest ==
  NonePasses =>
    /\ \A w \in Workers : session[w].pc \in InFlight => session[w].disposition # "PASSED"
    /\ \A r \in DOMAIN reports : reports[r].disposition # "PASSED"

\* A review leads where its decision says.
ReviewsDecide ==
  \A r \in DOMAIN reviews : \A i \in 1 .. Len(reviews[r]) :
    reviews[r][i].to = ReviewTarget(reviews[r][i].decision)

\* A report tells of the disposition that its writer brought along.
LEMMA ReportsStep ==
  ASSUME SafetyInv, [Next]_vars, NEW r \in DOMAIN reports'
  PROVE  \/ r \in DOMAIN reports /\ reports'[r] = reports[r]
         \/ \E w \in Workers :
              At(w, "holding") /\ reports'[r].disposition = session[w].disposition
<1>1. ASSUME UNCHANGED reports
      PROVE  r \in DOMAIN reports /\ reports'[r] = reports[r]
  BY <1>1
<1>2. ASSUME NEW w \in Workers, CommitResult(w), ~UNCHANGED reports
      PROVE  \/ r \in DOMAIN reports /\ reports'[r] = reports[r]
             \/ At(w, "holding") /\ reports'[r].disposition = session[w].disposition
  <2>1. ~Rollback(w)
    BY <1>2 DEF Rollback, Goto, db
  <2>2. /\ At(w, "holding")
        /\ reports' = With(reports, session[w].req.run,
                           [bundle |-> session[w].req.bundle,
                            disposition |-> session[w].disposition])
    BY <1>2, <2>1 DEF CommitResult
  <2>. QED
    BY <2>2 DEF With
<1>3. ASSUME NEW w \in Workers,
             \/ Ask(w) \/ LookAgain(w) \/ LockRun(w) \/ SourceNameTaken(w)
             \/ Recover(w) \/ Deliver(w) \/ Crash(w)
             \/ CommitTransition(w) \/ CommitReview(w) \/ CommitSuccessor(w)
      PROVE  UNCHANGED reports
  BY <1>3 DEF Ask, AskResult, AskSuccessor, AskTransition, AskReview, LookAgain, LockRun,
     SourceNameTaken, Rollback, Recover, Deliver, Crash, CommitTransition, CommitReview,
     CommitSuccessor, ReplyOnly, Goto, db
<1>4. CASE UNCHANGED vars \/ CreateRun
  BY <1>4 DEF vars, db, CreateRun
<1>. QED
  BY <1>1, <1>2, <1>3, <1>4 DEF Next, Commit

LEMMA OutcomesStep ==
  ASSUME SafetyInv, LedgerMatchesReports, SuccessorLineage, OutcomesHonest, [Next]_vars
  PROVE  OutcomesHonest'
<1> SUFFICES ASSUME NonePasses
             PROVE  /\ \A w \in Workers :
                         session'[w].pc \in InFlight => session'[w].disposition # "PASSED"
                    /\ \A r \in DOMAIN reports' : reports'[r].disposition # "PASSED"
  BY DEF OutcomesHonest, NonePasses
<1>1. /\ \A w \in Workers : session[w].pc \in InFlight => session[w].disposition # "PASSED"
      /\ \A r \in DOMAIN reports : reports[r].disposition # "PASSED"
  BY DEF OutcomesHonest
<1>2. \A d : Evaluated(d) => d # "PASSED"
  BY DEF Evaluated, NonePasses, NoDisposition
<1>3. ASSUME NEW v \in Workers, session'[v].pc \in InFlight
      PROVE  session'[v].disposition # "PASSED"
  <2>1. CASE session'[v] = session[v]
    BY <1>1, <1>3, <2>1
  <2>2. CASE session'[v] # session[v]
    <3>1. session \in [Workers -> Session]
      BY SafetyTypes
    <3>2. PICK w \in Workers : \E s : Serves(w, s)
      BY <2>2, StepServes
    <3>3. PICK s : Serves(w, s)
      BY <3>2
    <3>4. w = v /\ session'[v] = s
      BY <2>2, <3>1, <3>3 DEF Serves
    <3>. QED
      BY <1>1, <1>2, <1>3, <3>3, <3>4 DEF Serves
  <2>. QED
    BY <2>1, <2>2
<1>4. ASSUME NEW r \in DOMAIN reports'
      PROVE  reports'[r].disposition # "PASSED"
  BY <1>1, <1>4, ReportsStep DEF At, InFlight
<1>. QED
  BY <1>3, <1>4

LEMMA DecideStep ==
  ASSUME SafetyInv, ReviewsDecide, [Next]_vars
  PROVE  ReviewsDecide'
<1>1. DOMAIN reviews = DOMAIN runs /\ \A r \in DOMAIN runs : reviews[r] \in Seq(Review)
  BY SafetyTypes
<1>2. CASE UNCHANGED reviews
  BY <1>2 DEF ReviewsDecide
<1>3. ASSUME NEW r, NEW t, NEW o, NEW source, NEW action, Inserted(r, t, o, source, action)
      PROVE  ReviewsDecide'
  <2>1. /\ DOMAIN reviews' = DOMAIN reviews \cup {r} /\ Len(reviews'[r]) = 0
        /\ \A x \in DOMAIN reviews : reviews'[x] = reviews[x]
    BY <1>1, <1>3 DEF Inserted
  <2>. QED
    BY <2>1 DEF ReviewsDecide
<1>4. ASSUME NEW w, NEW q, ReviewWritten(w, q)
      PROVE  ReviewsDecide'
  <2> DEFINE entry == [decision |-> q.decision, from |-> runs[q.run].status,
                       to |-> ReviewTarget(q.decision), version |-> q.expected + 1]
             r == q.run
  <2>1. /\ r \in DOMAIN reviews /\ DOMAIN reviews' = DOMAIN reviews
        /\ reviews'[r] = Append(reviews[r], entry) /\ reviews[r] \in Seq(Review)
        /\ \A x \in DOMAIN reviews : x # r => reviews'[x] = reviews[x]
    BY <1>1, <1>4, SafetyTypes DEF ReviewWritten
  <2>2. entry.to = ReviewTarget(entry.decision)
    OBVIOUS
  <2> HIDE DEF entry
  <2>3. /\ Len(reviews'[r]) = Len(reviews[r]) + 1 /\ Len(reviews[r]) \in Nat
        /\ reviews'[r][Len(reviews[r]) + 1] = entry
        /\ \A i \in 1 .. Len(reviews[r]) : reviews'[r][i] = reviews[r][i]
    BY <2>1, Appended
  <2>4. ASSUME NEW i \in 1 .. Len(reviews'[r])
        PROVE  reviews'[r][i].to = ReviewTarget(reviews'[r][i].decision)
    <3>1. CASE i = Len(reviews[r]) + 1
      BY <2>2, <2>3, <3>1
    <3>2. CASE i # Len(reviews[r]) + 1
      <4>1. i \in 1 .. Len(reviews[r])
        BY <2>3, <2>4, <3>2
      <4>. QED
        BY <2>1, <2>3, <4>1 DEF ReviewsDecide
    <3>. QED
      BY <3>1, <3>2
  <2>. QED
    BY <2>1, <2>4 DEF ReviewsDecide
<1>. QED
  BY <1>2, <1>3, <1>4, StepEffects
     DEF Quiet, db, RunCreated, Written, StatusWritten, ResultWritten, SuccessorWritten

LEMMA CompletionFollows ==
  SafetyInv /\ ReviewInv /\ OutcomesHonest /\ ReviewsDecide => CompletedOnlyByApproval
<1> SUFFICES ASSUME SafetyInv, ReviewInv, OutcomesHonest, ReviewsDecide, NonePasses,
                    NEW r \in DOMAIN runs, runs[r].status = "COMPLETED"
             PROVE  Len(reviews[r]) = 1 /\ reviews[r][1].decision = "APPROVE"
  BY DEF CompletedOnlyByApproval, NonePasses
<1>1. r \in DOMAIN reports /\ reports[r].disposition # "PASSED"
  BY DEF SafetyInv, RecordInv, ReportGatesStatus, OutcomesHonest
<1>2. reviews[r] \in Seq(Review) /\ r \in DOMAIN reviews
  BY SafetyTypes
<1>3. reports[r].disposition \in Dispositions
  BY <1>1 DEF SafetyInv, TypeInv, TypeOK, IsTable, Report
<1>4. OutcomeStatus(reports[r].disposition) # "COMPLETED"
  BY <1>1, <1>3 DEF OutcomeStatus, Dispositions
<1>5. Len(reviews[r]) = 1
  <2>1. Len(reviews[r]) # 0
    BY <1>1, <1>4 DEF ReviewInv, OutcomeStands
  <2>2. Len(reviews[r]) <= 1
    BY <1>2 DEF ReviewInv, ReviewClosesRun
  <2>3. PICK n \in Nat : n = Len(reviews[r])
    BY <1>2
  <2>4. n # 0 /\ n <= 1
    BY <2>1, <2>2, <2>3
  <2>5. n = 1
    BY <2>4
  <2>. QED
    BY <2>3, <2>5
<1>6. reviews[r][1].to = "COMPLETED"
  BY <1>2, <1>5 DEF ReviewInv, ReviewClosesRun
<1>7. reviews[r][1].to = ReviewTarget(reviews[r][1].decision)
  <2>1. 1 \in 1 .. Len(reviews[r])
    BY <1>5
  <2>. QED
    BY <1>2, <2>1 DEF ReviewsDecide
<1>. QED
  BY <1>5, <1>6, <1>7 DEF ReviewTarget

\* If the evaluation never passes a case outright -- and it never does, as
\* NeverPassesAlone of the evaluation says -- a run is completed by an approving review
\* and by nothing else.
THEOREM OnlyApprovalCompletes == Spec => []CompletedOnlyByApproval
<1>1. Init => OutcomesHonest /\ ReviewsDecide
  BY EmptyTableTyped DEF Init, OutcomesHonest, ReviewsDecide, Idle, InFlight, InService
<1>2. SafetyInv /\ LedgerMatchesReports /\ SuccessorLineage /\ OutcomesHonest /\ [Next]_vars
      => OutcomesHonest'
  BY OutcomesStep
<1>3. SafetyInv /\ ReviewsDecide /\ [Next]_vars => ReviewsDecide'
  BY DecideStep
<1>. QED
  BY <1>1, <1>2, <1>3, CompletionFollows, SafetyInvHolds, ReviewInvHolds, ResultsAreRetryable,
     SuccessorsHaveLineage, PTL DEF Spec
=============================================================================
