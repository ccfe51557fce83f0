---------------------------- MODULE ResearchRuns ----------------------------
(***************************************************************************)
(* Research runs as TradeRepository keeps them on PostgreSQL: the runs,    *)
(* their immutable reports, reviews and audit trail, and the idempotency   *)
(* records of the two retryable commands (persisting a result, creating a  *)
(* successor).  Every command is an HTTP request served by one worker in   *)
(* the steps between which other workers can run:                          *)
(*                                                                         *)
(*   idle -> looked -> begun -> holding -> done -> idle                    *)
(*                                                                         *)
(* "looked" is a retryable command whose first ledger lookup, made before  *)
(* the evidence is evaluated, found nothing; "begun" is a transaction that *)
(* has yet to obtain the row lock of SELECT ... FOR UPDATE; "holding" has  *)
(* it, with the row as read under it.  A failed insert on a unique         *)
(* constraint rolls back and goes through "integrity".                     *)
(***************************************************************************)
EXTENDS Workflow, Tables, Naturals, Sequences

CONSTANTS
  Tenants,
  Opportunities,
  OwnerOf,         \* [Opportunities -> Tenants]
  RunIds,          \* the uuids a run may be given
  NoRun,           \* NULL in supersedes_research_run_id
  Workers,         \* requests in flight at a time
  Keys,            \* idempotency keys of clients
  Bundles,         \* evidence bundles
  Reasons,         \* recalculation reasons
  Targets,         \* statuses clients ask for by hand
  Versions,        \* bound: the expected_version values clients send
  OutcomesOf,      \* bundle -> what its evaluation may yield, which depends on
                   \* the clock too; {} for a bundle that does not parse
  Fits             \* the pairs <<bundle, opportunity>> that agree on quantity,
                   \* product and destination, and whose rows can be written
                   \* (a repeated cost component code is refused as well)

ASSUME RunsAssumption ==
  /\ OwnerOf \in [Opportunities -> Tenants]
  /\ NoRun \notin RunIds
  /\ Targets \subseteq ResearchRunStatus
  /\ Versions \subseteq Nat
  /\ OutcomesOf \in [Bundles -> SUBSET Dispositions]

VARIABLES
  runs,             \* table: run id -> row of research_runs
  reports,          \* table: run id -> row of decision_reports (unique per run)
  reviews,          \* run id -> its rows of research_reviews, in order
  audit,            \* run id -> its audit events, in order
  resultLedger,     \* idempotency records of scope research-result
  successorLedger,  \* idempotency records of scope research-successor
  session           \* worker -> the request it serves

db == <<runs, reports, reviews, audit, resultLedger, successorLedger>>
vars == <<db, session>>

-----------------------------------------------------------------------------
Run == [tenant : Tenants, opportunity : Opportunities,
        supersedes : RunIds \cup {NoRun}, status : ResearchRunStatus, version : Nat]

Report == [bundle : Bundles, disposition : Dispositions]

Review == [decision : ResearchReviewDecision, from : ResearchRunStatus,
           to : ResearchRunStatus, version : Nat]

AuditAction == {"CREATED", "CREATED_AS_RECALCULATION", "STATUS_CHANGED",
                "REVIEW_RECORDED", "RESULTS_PERSISTED"}

AuditEvent == [action : AuditAction, status : ResearchRunStatus, version : Nat]

TransitionRequest ==
  [op : {"transition"}, tenant : Tenants, run : RunIds, target : Targets,
   expected : Versions]
ReviewRequest ==
  [op : {"review"}, tenant : Tenants, run : RunIds, decision : ResearchReviewDecision,
   expected : Versions]
ResultRequest ==
  [op : {"result"}, tenant : Tenants, run : RunIds, key : Keys, bundle : Bundles,
   expected : Versions]
SuccessorRequest ==
  [op : {"successor"}, tenant : Tenants, run : RunIds, key : Keys, reason : Reasons,
   expected : Versions]
Request == TransitionRequest \cup ReviewRequest \cup ResultRequest \cup SuccessorRequest

ErrorCode == {"NOT_FOUND", "VERSION_CONFLICT", "INVALID_TRANSITION",
              "IDEMPOTENCY_CONFLICT", "INVALID_INPUT", "INTERNAL_ERROR"}
Completion == [code : {"OK"}, run : RunIds, status : ResearchRunStatus, version : Nat]
Answer == Completion \cup [code : ErrorCode]

\* disposition is what evaluating the bundle of a result gave; the other commands
\* have none.
NoDisposition == "NONE"
SessionRecord ==
       [pc : {"idle"}]
  \cup [pc : {"looked", "begun", "integrity"}, req : Request,
        disposition : Dispositions \cup {NoDisposition}]
  \cup [pc : {"holding"}, req : Request,
        disposition : Dispositions \cup {NoDisposition}, row : Run]
  \cup [pc : {"done"}, req : Request, answer : Answer]
Session ==
  {s \in SessionRecord :
     s.pc \notin {"idle", "done"} => (s.req.op = "result" <=> s.disposition \in Dispositions)}

\* Idempotency records are unique on the scope, which holds tenant and run, and
\* the key; the hash stands for the whole payload.
LedgerKey(q) == <<q.tenant, q.run, q.key>>
LedgerKeys == Tenants \X RunIds \X Keys
ResultHash(q) == <<q.expected, q.bundle>>
SuccessorHash(q) == <<q.expected, q.reason>>
ResultRecord == [hash : Versions \X Bundles, response : Completion]
SuccessorRecord == [hash : Versions \X Reasons, run : RunIds]

TypeOK ==
  /\ IsTable(runs, RunIds, Run)
  /\ IsTable(reports, RunIds, Report)
  /\ IsTable(reviews, RunIds, Seq(Review))
  /\ IsTable(audit, RunIds, Seq(AuditEvent))
  /\ IsTable(resultLedger, LedgerKeys, ResultRecord)
  /\ IsTable(successorLedger, LedgerKeys, SuccessorRecord)
  /\ session \in [Workers -> Session]

-----------------------------------------------------------------------------
Idle == [pc |-> "idle"]

Init ==
  /\ runs = EmptyTable
  /\ reports = EmptyTable
  /\ reviews = EmptyTable
  /\ audit = EmptyTable
  /\ resultLedger = EmptyTable
  /\ successorLedger = EmptyTable
  /\ session = [w \in Workers |-> Idle]

Error(code) == [code |-> code]
Completed(r, row) ==
  [code |-> "OK", run |-> r, status |-> row.status, version |-> row.version]

At(w, pc) == session[w].pc = pc

Begun(q, disposition) == [pc |-> "begun", req |-> q, disposition |-> disposition]

\* Session steps; none of them writes to the database.
Goto(w, s) == session' = [session EXCEPT ![w] = s] /\ UNCHANGED db
Reply(w, q, answer) == session' = [session EXCEPT ![w] = [pc |-> "done", req |-> q, answer |-> answer]]
ReplyOnly(w, q, answer) == Reply(w, q, answer) /\ UNCHANGED db

\* POST /opportunities/{id}/research-runs: one transaction that reads the
\* opportunity and inserts the run and its audit event under a fresh uuid.
CreateRun ==
  \E t \in Tenants, o \in Opportunities, r \in RunIds \ DOMAIN runs :
    /\ OwnerOf[o] = t
    /\ runs' = With(runs, r, [tenant |-> t, opportunity |-> o, supersedes |-> NoRun,
                              status |-> "CREATED", version |-> 1])
    /\ reviews' = With(reviews, r, << >>)
    /\ audit' = With(audit, r, <<[action |-> "CREATED", status |-> "CREATED", version |-> 1]>>)
    /\ UNCHANGED <<reports, resultLedger, successorLedger, session>>

-----------------------------------------------------------------------------
(* The ledger lookups.  Each is a read of its own transaction or the first *)
(* statement of the writing transaction; neither takes a lock, and neither *)
(* looks at the run.                                                       *)

ReplayedResult(q) ==
  LET record == resultLedger[LedgerKey(q)] IN
  IF record.hash = ResultHash(q) THEN record.response ELSE Error("IDEMPOTENCY_CONFLICT")

\* The ledger keeps the successor's id; the replay reads the successor afresh.
ReplayedSuccessor(q) ==
  LET record == successorLedger[LedgerKey(q)] IN
  IF record.hash = SuccessorHash(q) THEN Completed(record.run, runs[record.run])
                                    ELSE Error("IDEMPOTENCY_CONFLICT")

InLedger(q) ==
  \/ q.op = "result" /\ LedgerKey(q) \in DOMAIN resultLedger
  \/ q.op = "successor" /\ LedgerKey(q) \in DOMAIN successorLedger

Replayed(q) == IF q.op = "result" THEN ReplayedResult(q) ELSE ReplayedSuccessor(q)

\* complete_research_run_from_bundle: look in the ledger, else parse and evaluate
\* the bundle and go on to persist what came out.
AskResult(w) ==
  /\ At(w, "idle")
  /\ \E q \in ResultRequest :
       IF InLedger(q) THEN ReplyOnly(w, q, Replayed(q))
       ELSE IF OutcomesOf[q.bundle] = {} THEN ReplyOnly(w, q, Error("INVALID_INPUT"))
       ELSE \E d \in OutcomesOf[q.bundle] :
              Goto(w, [pc |-> "looked", req |-> q, disposition |-> d])

\* create_successor_research_run, up to the call of the writer.
AskSuccessor(w) ==
  /\ At(w, "idle")
  /\ \E q \in SuccessorRequest :
       IF InLedger(q) THEN ReplyOnly(w, q, Replayed(q))
       ELSE Goto(w, [pc |-> "looked", req |-> q, disposition |-> NoDisposition])

AskTransition(w) ==
  /\ At(w, "idle")
  /\ \E q \in TransitionRequest : Goto(w, Begun(q, NoDisposition))

AskReview(w) ==
  /\ At(w, "idle")
  /\ \E q \in ReviewRequest : Goto(w, Begun(q, NoDisposition))

\* Mutant: the outcome of the evaluation is lost on the way to the writer.
LookAgainForgetting(w) ==
  /\ At(w, "looked")
  /\ LET q == session[w].req IN
     IF InLedger(q) THEN ReplyOnly(w, q, Replayed(q))
     ELSE Goto(w, Begun(q, NoDisposition))

\* The writing transaction looks in the ledger again before it locks the run.
LookAgain(w) ==
  /\ At(w, "looked")
  /\ LET q == session[w].req IN
     IF InLedger(q) THEN ReplyOnly(w, q, Replayed(q))
     ELSE Goto(w, Begun(q, session[w].disposition))

-----------------------------------------------------------------------------
(* SELECT ... FOR UPDATE and the checks made on the row under the lock.    *)

\* Mutant: the run is selected by its id alone.
VisibleToAll(q) == q.run \in DOMAIN runs

\* A run id of another tenant selects no row, and so locks none.
Visible(q) == q.run \in DOMAIN runs /\ runs[q.run].tenant = q.tenant

Locked(r) == \E v \in Workers : At(v, "holding") /\ session[v].req.run = r

\* Mutant: an operator may ask for whatever the domain permits.
PermittedByDomain(q, row) ==
  /\ q.op = "transition" => q.target \in RESEARCH_TRANSITIONS[row.status]
  /\ q.op = "review"     => ReviewPermitted(row.status, q.decision)
  /\ q.op = "result"     => row.status = "RUNNING"
  /\ q.op = "successor"  => q.run \in DOMAIN reports

\* What the current status must allow, for each command.
Permitted(q, row) ==
  /\ q.op = "transition" => q.target \in MANUAL_RESEARCH_TRANSITIONS[row.status]
  /\ q.op = "review"     => ReviewPermitted(row.status, q.decision)
  /\ q.op = "result"     => row.status = "RUNNING"
  /\ q.op = "successor"  => q.run \in DOMAIN reports

\* The first check that fails, in the order of the code.
Verdict(q, row) ==
  IF row.version # q.expected THEN "VERSION_CONFLICT"
  ELSE IF ~Permitted(q, row) THEN "INVALID_TRANSITION"
  ELSE IF q.op = "result" /\ q.run \in DOMAIN reports THEN "VERSION_CONFLICT"
  ELSE IF q.op = "result" /\ <<q.bundle, row.opportunity>> \notin Fits THEN "INVALID_INPUT"
  ELSE "OK"

\* Mutant: a plain SELECT, without FOR UPDATE.
LockRunWithoutLock(w) ==
  /\ At(w, "begun")
  /\ LET q == session[w].req IN
     \/ /\ ~Visible(q)
        /\ ReplyOnly(w, q, Error("NOT_FOUND"))
     \/ /\ Visible(q)
        /\ IF Verdict(q, runs[q.run]) = "OK"
           THEN Goto(w, [pc |-> "holding", req |-> q,
                         disposition |-> session[w].disposition, row |-> runs[q.run]])
           ELSE ReplyOnly(w, q, Error(Verdict(q, runs[q.run])))

LockRun(w) ==
  /\ At(w, "begun")
  /\ LET q == session[w].req IN
     \/ /\ ~Visible(q)
        /\ ReplyOnly(w, q, Error("NOT_FOUND"))
     \/ /\ Visible(q)
        /\ ~Locked(q.run)
        /\ IF Verdict(q, runs[q.run]) = "OK"
           THEN Goto(w, [pc |-> "holding", req |-> q,
                         disposition |-> session[w].disposition, row |-> runs[q.run]])
           ELSE ReplyOnly(w, q, Error(Verdict(q, runs[q.run])))

-----------------------------------------------------------------------------
(* The writes, flushed and committed as one; the lock goes with the commit.*)

\* The row the worker read, moved to a status; what the flush writes back.
Moved(w, status) ==
  LET row == session[w].row IN [row EXCEPT !.status = status, !.version = row.version + 1]

WriteRun(w, row, action) ==
  LET r == session[w].req.run IN
  /\ runs' = [runs EXCEPT ![r] = row]
  /\ audit' = [audit EXCEPT ![r] =
                 Append(@, [action |-> action, status |-> row.status, version |-> row.version])]

\* Mutant: the client is sent the row as it was read.
CommitTransitionAnsweringOld(w) ==
  /\ At(w, "holding")
  /\ session[w].req.op = "transition"
  /\ LET q == session[w].req IN
     /\ WriteRun(w, Moved(w, q.target), "STATUS_CHANGED")
     /\ Reply(w, q, Completed(q.run, session[w].row))
  /\ UNCHANGED <<reports, reviews, resultLedger, successorLedger>>

CommitTransition(w) ==
  /\ At(w, "holding")
  /\ session[w].req.op = "transition"
  /\ LET q == session[w].req
         row == Moved(w, q.target) IN
     /\ WriteRun(w, row, "STATUS_CHANGED")
     /\ Reply(w, q, Completed(q.run, row))
  /\ UNCHANGED <<reports, reviews, resultLedger, successorLedger>>

CommitReview(w) ==
  /\ At(w, "holding")
  /\ session[w].req.op = "review"
  /\ LET q == session[w].req
         row == Moved(w, ReviewTarget(q.decision)) IN
     /\ WriteRun(w, row, "REVIEW_RECORDED")
     /\ reviews' = [reviews EXCEPT ![q.run] =
          Append(@, [decision |-> q.decision, from |-> session[w].row.status,
                     to |-> row.status, version |-> row.version])]
     /\ Reply(w, q, Completed(q.run, row))
  /\ UNCHANGED <<reports, resultLedger, successorLedger>>

\* A unique constraint that the flush violates: rolled back, then "integrity".
Rollback(w) ==
  Goto(w, [pc |-> "integrity", req |-> session[w].req,
           disposition |-> session[w].disposition])

\* Mutant: the response is stored before the status and the version change.
CommitResultStoringOld(w) ==
  /\ At(w, "holding")
  /\ session[w].req.op = "result"
  /\ LET q == session[w].req
         row == Moved(w, OutcomeStatus(session[w].disposition))
         response == Completed(q.run, session[w].row) IN
     IF q.run \in DOMAIN reports \/ LedgerKey(q) \in DOMAIN resultLedger
     THEN Rollback(w)
     ELSE /\ WriteRun(w, row, "RESULTS_PERSISTED")
          /\ reports' = With(reports, q.run,
                             [bundle |-> q.bundle, disposition |-> session[w].disposition])
          /\ resultLedger' = With(resultLedger, LedgerKey(q),
                                  [hash |-> ResultHash(q), response |-> response])
          /\ Reply(w, q, response)
          /\ UNCHANGED <<reviews, successorLedger>>

CommitResult(w) ==
  /\ At(w, "holding")
  /\ session[w].req.op = "result"
  /\ LET q == session[w].req
         row == Moved(w, OutcomeStatus(session[w].disposition))
         response == Completed(q.run, [row EXCEPT !.version = q.expected + 1]) IN
     IF q.run \in DOMAIN reports \/ LedgerKey(q) \in DOMAIN resultLedger
     THEN Rollback(w)
     ELSE /\ WriteRun(w, row, "RESULTS_PERSISTED")
          /\ reports' = With(reports, q.run,
                             [bundle |-> q.bundle, disposition |-> session[w].disposition])
          /\ resultLedger' = With(resultLedger, LedgerKey(q),
                                  [hash |-> ResultHash(q), response |-> response])
          /\ Reply(w, q, response)
          /\ UNCHANGED <<reviews, successorLedger>>

\* The evidence rows of a result name rows of the table of sources, which all
\* tenants share and whose names are unique: a result that introduces a name
\* another transaction commits first violates that constraint.
SourceNameTaken(w) ==
  /\ At(w, "holding")
  /\ session[w].req.op = "result"
  /\ Rollback(w)

\* Mutant: the idempotency record is put over the one that is there, an upsert.
CommitSuccessorUpserting(w) ==
  /\ At(w, "holding")
  /\ session[w].req.op = "successor"
  /\ LET q == session[w].req IN
     \E s \in RunIds \ DOMAIN runs :
        LET row == [tenant |-> q.tenant, opportunity |-> session[w].row.opportunity,
                    supersedes |-> q.run, status |-> "CREATED", version |-> 1] IN
        /\ runs' = With(runs, s, row)
        /\ reviews' = With(reviews, s, << >>)
        /\ audit' = With(audit, s, <<[action |-> "CREATED_AS_RECALCULATION",
                                      status |-> "CREATED", version |-> 1]>>)
        /\ successorLedger' = With(successorLedger, LedgerKey(q),
                                   [hash |-> SuccessorHash(q), run |-> s])
        /\ Reply(w, q, Completed(s, row))
        /\ UNCHANGED <<reports, resultLedger>>

CommitSuccessor(w) ==
  /\ At(w, "holding")
  /\ session[w].req.op = "successor"
  /\ LET q == session[w].req IN
     IF LedgerKey(q) \in DOMAIN successorLedger
     THEN Rollback(w)
     ELSE \E s \in RunIds \ DOMAIN runs :
            LET row == [tenant |-> q.tenant, opportunity |-> session[w].row.opportunity,
                        supersedes |-> q.run, status |-> "CREATED", version |-> 1] IN
            /\ runs' = With(runs, s, row)
            /\ reviews' = With(reviews, s, << >>)
            /\ audit' = With(audit, s, <<[action |-> "CREATED_AS_RECALCULATION",
                                          status |-> "CREATED", version |-> 1]>>)
            /\ successorLedger' = With(successorLedger, LedgerKey(q),
                                       [hash |-> SuccessorHash(q), run |-> s])
            /\ Reply(w, q, Completed(s, row))
            /\ UNCHANGED <<reports, resultLedger>>

\* Mutant: a violation that left no idempotency record is never answered.
RecoverReplaysOnly(w) ==
  /\ At(w, "integrity")
  /\ InLedger(session[w].req)
  /\ ReplyOnly(w, session[w].req, Replayed(session[w].req))

\* except IntegrityError: answer from the ledger, or let the error out (a 500).
Recover(w) ==
  /\ At(w, "integrity")
  /\ LET q == session[w].req IN
     ReplyOnly(w, q, IF InLedger(q) THEN Replayed(q) ELSE Error("INTERNAL_ERROR"))

-----------------------------------------------------------------------------
\* The response reaches the client, or the connection is gone: either way the
\* worker is free, and a client that heard nothing may ask again.
Deliver(w) == At(w, "done") /\ Goto(w, Idle)

\* The process dies, or the database drops the connection: the open transaction
\* rolls back and its row lock is released.
Crash(w) == ~At(w, "idle") /\ Goto(w, Idle)

Ask(w) == AskResult(w) \/ AskSuccessor(w) \/ AskTransition(w) \/ AskReview(w)
Commit(w) == CommitTransition(w) \/ CommitReview(w) \/ CommitResult(w) \/ CommitSuccessor(w)

Next ==
  \/ CreateRun
  \/ \E w \in Workers :
       \/ Ask(w) \/ LookAgain(w) \/ LockRun(w)
       \/ Commit(w) \/ SourceNameTaken(w) \/ Recover(w)
       \/ Deliver(w) \/ Crash(w)

Spec == Init /\ [][Next]_vars

\* A worker goes on with the request it has.  PostgreSQL queues the waiters of a
\* row lock, so a waiter is not overtaken for ever: strong fairness of LockRun.
Fairness ==
  \A w \in Workers :
    /\ WF_vars(LookAgain(w))
    /\ SF_vars(LockRun(w))
    /\ WF_vars(Commit(w))
    /\ WF_vars(Recover(w))
    /\ WF_vars(Deliver(w))

FairSpec == Spec /\ Fairness

-----------------------------------------------------------------------------
(* Properties.                                                             *)

RequestOf(w) == session[w].req
DoneOK(w) == At(w, "done") /\ session[w].answer.code = "OK"
RunChanging == {"transition", "review", "result"}
Terminal == {"COMPLETED", "CANCELLED"}

\* The decision report and the status of its run agree, whatever sequence of
\* commands produced them: a run under review or completed has a report, and a
\* run with a report never becomes runnable again, so that a second result can
\* never be persisted for it (persist_research_result, record_research_review).
ReportGatesStatus ==
  \A r \in DOMAIN runs :
    /\ r \in DOMAIN reports =>
         runs[r].status \in {"NEEDS_VERIFICATION", "NEEDS_HUMAN_REVIEW"} \cup Terminal
    /\ runs[r].status \in REVIEWABLE_RESEARCH_STATUSES \cup {"COMPLETED"} =>
         r \in DOMAIN reports

\* The idempotency record of a result and the report it stands for are written
\* together or not at all: every report has exactly one record, under its own
\* tenant, and the stored response is the state the report put the run in.
LedgerMatchesReports ==
  /\ \A r \in DOMAIN reports :
       \E k \in DOMAIN resultLedger :
         /\ k[1] = runs[r].tenant /\ k[2] = r
         /\ resultLedger[k].hash[2] = reports[r].bundle
         /\ \A j \in DOMAIN resultLedger : j[2] = r => j = k
  /\ \A k \in DOMAIN resultLedger :
       LET response == resultLedger[k].response IN
         /\ response.run = k[2] /\ k[2] \in DOMAIN reports
         /\ response.status = OutcomeStatus(reports[k[2]].disposition)
         /\ audit[k[2]][response.version] =
              [action |-> "RESULTS_PERSISTED", status |-> response.status,
               version |-> response.version]

\* A review is the last word: at most one per run, about the report the run has,
\* and nothing is recorded of the run after it (record_research_review).
ReviewClosesRun ==
  \A r \in DOMAIN reviews :
    /\ Len(reviews[r]) <= 1
    /\ Len(reviews[r]) = 1 =>
         /\ r \in DOMAIN reports
         /\ reviews[r][1].from = OutcomeStatus(reports[r].disposition)
         /\ reviews[r][1].to = runs[r].status
         /\ reviews[r][1].version = Len(audit[r])
         /\ audit[r][Len(audit[r])].action = "REVIEW_RECORDED"

\* Validation never passes a case outright (every offer carries a due-diligence
\* warning), so only an approving review completes a run.
CompletedOnlyByApproval ==
  (\A b \in Bundles : "PASSED" \notin OutcomesOf[b]) =>
    \A r \in DOMAIN runs :
      runs[r].status = "COMPLETED" =>
        /\ Len(reviews[r]) = 1
        /\ reviews[r][1].decision = "APPROVE"

\* Successors and their idempotency records correspond one to one; a successor
\* belongs to the tenant and opportunity of the run it supersedes, which has its
\* immutable result (persist_successor_research_run).
SuccessorLineage ==
  /\ \A s \in DOMAIN runs :
       LET source == runs[s].supersedes IN
       source # NoRun =>
         /\ source \in DOMAIN reports
         /\ runs[s].tenant = runs[source].tenant
         /\ runs[s].opportunity = runs[source].opportunity
         /\ \E k \in DOMAIN successorLedger :
              /\ k[1] = runs[s].tenant /\ k[2] = source
              /\ \A j \in DOMAIN successorLedger : successorLedger[j].run = s <=> j = k
  /\ \A k \in DOMAIN successorLedger :
       /\ successorLedger[k].run \in DOMAIN runs
       /\ runs[successorLedger[k].run].supersedes = k[2]

\* Whatever a tenant asks about a run of another tenant is answered as if the
\* run did not exist; no ledger entry of the owner answers it either.
ForeignTenantLearnsNothing ==
  \A w \in Workers :
    /\ At(w, "done")
    /\ RequestOf(w).run \in DOMAIN runs
    /\ runs[RequestOf(w).run].tenant # RequestOf(w).tenant
    => session[w].answer.code \in {"NOT_FOUND", "INVALID_INPUT"}

\* A client is told of success only for a change that is in the audit trail, at
\* the version it is told, made by its kind of command on top of the version it
\* expected; so it stays however many commands follow.
AcknowledgedIsRecorded ==
  \A w \in Workers : DoneOK(w) =>
    LET q == RequestOf(w)
        answer == session[w].answer IN
    /\ answer.run \in DOMAIN audit
    /\ answer.version \in 1 .. Len(audit[answer.run])
    /\ LET event == audit[answer.run][answer.version] IN
       /\ event.status = answer.status /\ event.version = answer.version
       /\ q.op = "transition" => event.action = "STATUS_CHANGED"
       /\ q.op = "review" => event.action = "REVIEW_RECORDED"
       /\ q.op = "result" => event.action = "RESULTS_PERSISTED"
    /\ q.op \in RunChanging => answer.run = q.run /\ answer.version = q.expected + 1

\* Of the requests that expect the same version of a run, one at most changes
\* it; two are acknowledged only when both are retries of one result.
OneWinnerPerVersion ==
  \A v, w \in Workers :
    LET p == RequestOf(v)
        q == RequestOf(w) IN
    /\ v # w /\ DoneOK(v) /\ DoneOK(w)
    /\ p.op \in RunChanging /\ q.op \in RunChanging
    /\ p.run = q.run /\ p.expected = q.expected
    => p.op = "result" /\ p = q

\* No step rewrites or removes a report, an idempotency record, a review or an
\* audit event, and a run that is completed or cancelled keeps its row.
Kept(old, new) == \A k \in DOMAIN old : k \in DOMAIN new /\ new[k] = old[k]
Extended(old, new) ==
  \A k \in DOMAIN old :
    k \in DOMAIN new /\ \A i \in 1 .. Len(old[k]) : i <= Len(new[k]) /\ new[k][i] = old[k][i]

NothingRewritten ==
  [][/\ Kept(reports, reports')
     /\ Kept(resultLedger, resultLedger')
     /\ Kept(successorLedger, successorLedger')
     /\ Extended(reviews, reviews')
     /\ Extended(audit, audit')
     /\ \A r \in DOMAIN runs : runs[r].status \in Terminal => runs'[r] = runs[r]]_vars

\* Under the row locks, every run is a versioned aggregate in the sense of
\* VersionedHistory: one atomic change, one version, one audit event.
LegalChanges ==
  {e \in ResearchRunStatus \X ResearchRunStatus : e[2] \in RESEARCH_TRANSITIONS[e[1]]}
RunRow == [r \in DOMAIN runs |-> [state |-> runs[r].status, version |-> runs[r].version]]
Statuses(events) == [i \in 1 .. Len(events) |-> events[i].status]
RunHistory == [r \in DOMAIN audit |-> Statuses(audit[r])]

History == INSTANCE VersionedHistory WITH
  Ids <- RunIds, States <- ResearchRunStatus, Initial <- {"CREATED"},
  Legal <- LegalChanges, First <- 1, row <- RunRow, history <- RunHistory

VersionedRuns == History!Spec

\* Every request that is in service is answered (or its worker crashes), as
\* long as there are uuids left: lock waiters are not starved.
EveryRequestServed ==
  \A w \in Workers :
    session[w].pc \in {"looked", "begun", "holding", "integrity"} ~>
      (session[w].pc \in {"done", "idle"} \/ RunIds \subseteq DOMAIN runs)

\* README.md: "An exact retry returns the original immutable completion": no step
\* answers a result command with a version conflict while the ledger holds that
\* very command.
ExactRetryReplays ==
  [][\A w \in Workers :
       LET q == session[w].req
           stored == resultLedger[LedgerKey(q)] IN
       /\ At(w, "begun") /\ At(w, "done")'
       /\ q.op = "result" /\ InLedger(q) /\ stored.hash = ResultHash(q)
       => session'[w].answer.code # "VERSION_CONFLICT"]_vars
=============================================================================
