---------------------- MODULE OpportunityLifecycleProofs ----------------------
(***************************************************************************)
(* Proofs about OpportunityLifecycle, for any number of tenants,           *)
(* opportunities, workers, fields and values.                              *)
(***************************************************************************)
EXTENDS OpportunityLifecycle, TLAPS

CONSTANTS AnyIds, AnyStates, AnyInitial, AnyLegal, AnyFirst

VARIABLES anyRow, anyHistory

\* Some versioned aggregate, an opportunity or another.
Aggregate == INSTANCE VersionedHistory WITH
  Ids <- AnyIds, States <- AnyStates, Initial <- AnyInitial, Legal <- AnyLegal,
  First <- AnyFirst, row <- anyRow, history <- anyHistory

-----------------------------------------------------------------------------
(* The inductive invariant.                                                *)

\* Whoever holds a row lock has the row as it is in the table, and the permission
\* that was given on it.
HoldersSeeTheirRow ==
  \A w \in Workers : At(w, "holding") =>
    /\ session[w].req.id \in DOMAIN opportunities
    /\ session[w].row = opportunities[session[w].req.id]
    /\ Verdict(session[w].req, session[w].row) = "OK"

OneHolder ==
  \A v, w \in Workers :
    At(v, "holding") /\ At(w, "holding") /\ session[v].req.id = session[w].req.id => v = w

\* Among the status changes of a prefix there is a last one, if there is any.
HasLast(trail, n) ==
  StatusChanges(trail, n) = {} \/
    \E i \in StatusChanges(trail, n) : \A j \in StatusChanges(trail, n) : j <= i

Replays(trail, row) ==
  /\ Len(trail) = row.version /\ Len(trail) > 0
  /\ row.status = StatusAfter(trail, Len(trail))
  /\ \A n \in 1 .. Len(trail) : HasLast(trail, n)

TrailExplainsRow ==
  /\ DOMAIN audit = DOMAIN opportunities
  /\ \A o \in DOMAIN opportunities : Replays(audit[o], opportunities[o])

AnswersKnown == \A w \in Workers : DoneOK(w) => session[w].req.id \in DOMAIN opportunities

OpportunityInv ==
  /\ TypeOK
  /\ HoldersSeeTheirRow /\ OneHolder
  /\ TrailExplainsRow
  /\ AnswersKnown /\ AcknowledgedStays /\ OneWinnerPerVersion

-----------------------------------------------------------------------------
(* Types.                                                                  *)

LEMMA SessionShapes ==
  ASSUME NEW s \in Session
  PROVE  /\ s.pc \in {"begun", "holding", "done"} => s.req \in Request
         /\ s.pc = "holding" => s.row \in Opportunity
  BY DEF Session

LEMMA SessionsFormed ==
  /\ Idle \in Session
  /\ \A q \in Request : [pc |-> "begun", req |-> q] \in Session
  /\ \A q \in Request, row \in Opportunity : [pc |-> "holding", req |-> q, row |-> row] \in Session
  /\ \A q \in Request, answer \in Answer : Done(q, answer) \in Session
  BY DEF Session, Idle, Done

LEMMA AnswersFormed ==
  /\ \A code \in ErrorCode : Error(code) \in Answer /\ Error(code).code # "OK"
  /\ \A s \in OpportunityStatus, c \in [Fields -> Value], n \in Nat :
       /\ [code |-> "OK", status |-> s, context |-> c, version |-> n] \in Answer
       /\ [code |-> "OK", status |-> s, context |-> c, version |-> n].version = n
       /\ [code |-> "OK", status |-> s, context |-> c, version |-> n].code = "OK"
  BY DEF Answer, ErrorCode, Error

LEMMA RequestFields ==
  ASSUME NEW q \in Request
  PROVE  /\ q.id \in OpportunityIds /\ q.expected \in Nat /\ q.op \in {"transition", "context"}
         /\ q.op = "transition" => q.target \in OpportunityStatus
         /\ q.op = "context" => q.changes \in Changes
  BY OpportunityAssumption DEF Request, TransitionRequest, ContextRequest

LEMMA VerdictOK ==
  ASSUME NEW q, NEW row, Verdict(q, row) = "OK"
  PROVE  /\ row.version = q.expected
         /\ q.op = "transition" => q.target \in OPPORTUNITY_TRANSITIONS[row.status]
  BY DEF Verdict

\* What is known of a row under its lock.
LEMMA HolderFacts ==
  ASSUME OpportunityInv, NEW w \in Workers, At(w, "holding")
  PROVE  LET q == session[w].req
             row == session[w].row IN
         /\ q \in Request /\ q.id \in DOMAIN opportunities /\ q.id \in DOMAIN audit
         /\ row = opportunities[q.id] /\ row \in Opportunity
         /\ row.version = q.expected /\ Len(audit[q.id]) = row.version
         /\ audit[q.id] \in Seq(AuditEvent)
         /\ q.op = "transition" => q.target \in OPPORTUNITY_TRANSITIONS[row.status]
<1>1. session[w] \in Session /\ session[w].pc = "holding"
  BY DEF OpportunityInv, TypeOK, At
<1>2. session[w].req \in Request /\ session[w].row \in Opportunity
  BY <1>1, SessionShapes
<1>3. /\ session[w].req.id \in DOMAIN opportunities
      /\ session[w].row = opportunities[session[w].req.id]
      /\ Verdict(session[w].req, session[w].row) = "OK"
  BY DEF OpportunityInv, HoldersSeeTheirRow
<1>4. /\ DOMAIN audit = DOMAIN opportunities
      /\ Len(audit[session[w].req.id]) = opportunities[session[w].req.id].version
  BY <1>3 DEF OpportunityInv, TrailExplainsRow, Replays
<1>5. \A o \in DOMAIN audit : audit[o] \in Seq(AuditEvent)
  BY DEF OpportunityInv, TypeOK, IsTable
<1>. QED
  BY <1>2, <1>3, <1>4, <1>5, VerdictOK

-----------------------------------------------------------------------------
(* The audit trail.                                                        *)

\* The status that a set of status changes of a trail leads to.
ToldBy(trail, S) ==
  IF S = {} THEN "RESEARCHING" ELSE trail[CHOOSE i \in S : \A j \in S : j <= i].to

LEMMA StatusAfterAppend ==
  ASSUME NEW trail \in Seq(AuditEvent), NEW event \in AuditEvent,
         \A n \in 1 .. Len(trail) : HasLast(trail, n)
  PROVE  LET longer == Append(trail, event)
             last == Len(trail) + 1 IN
         /\ \A n \in 1 .. Len(trail) : /\ HasLast(longer, n)
                                       /\ StatusAfter(longer, n) = StatusAfter(trail, n)
         /\ Len(trail) > 0 => HasLast(longer, last)
         /\ event.action = "STATUS_CHANGED" => StatusAfter(longer, last) = event.to
         /\ event.action # "STATUS_CHANGED" /\ Len(trail) > 0 =>
              StatusAfter(longer, last) = StatusAfter(trail, Len(trail))
<1> DEFINE longer == Append(trail, event)
           last == Len(trail) + 1
<1>1. /\ Len(trail) \in Nat /\ last \in Nat /\ longer[last] = event
      /\ \A i \in 1 .. Len(trail) : longer[i] = trail[i]
  OBVIOUS
<1> HIDE DEF longer
<1>2. ASSUME NEW n \in 1 .. Len(trail)
      PROVE  /\ StatusChanges(longer, n) = StatusChanges(trail, n)
             /\ HasLast(longer, n)
             /\ StatusAfter(longer, n) = StatusAfter(trail, n)
  <2>1. StatusChanges(longer, n) = StatusChanges(trail, n)
    BY <1>1 DEF StatusChanges
  <2>2. HasLast(trail, n)
    OBVIOUS
  <2>3. HasLast(longer, n)
    BY <2>1, <2>2 DEF HasLast
  <2> DEFINE S == StatusChanges(trail, n)
             top == CHOOSE i \in S : \A j \in S : j <= i
  <2>4. S = {} \/ top \in S
    BY <2>2 DEF HasLast
  <2>5. S = {} \/ (top \in 1 .. Len(trail))
    BY <1>1, <2>4 DEF StatusChanges
  <2>6. /\ StatusAfter(trail, n) = IF S = {} THEN "RESEARCHING" ELSE trail[top].to
        /\ StatusAfter(longer, n) = IF S = {} THEN "RESEARCHING" ELSE longer[top].to
    BY <2>1 DEF StatusAfter
  <2>7. StatusAfter(longer, n) = StatusAfter(trail, n)
    BY <1>1, <2>5, <2>6
  <2>. QED
    BY <2>1, <2>3, <2>7
<1>3. ASSUME event.action = "STATUS_CHANGED"
      PROVE  HasLast(longer, last) /\ StatusAfter(longer, last) = event.to
  <2> DEFINE S == StatusChanges(longer, last)
             top == CHOOSE i \in S : \A j \in S : j <= i
  <2>1. last \in S /\ \A j \in S : j <= last /\ j \in Nat
    BY <1>1, <1>3 DEF StatusChanges
  <2>2. top \in S /\ \A j \in S : j <= top
    BY <2>1
  <2>3. top = last
    <3> HIDE DEF S, top
    <3>. QED
      BY <1>1, <2>1, <2>2
  <2>4. StatusAfter(longer, last) = longer[top].to
    BY <2>1 DEF StatusAfter
  <2>5. HasLast(longer, last)
    BY <2>1 DEF HasLast
  <2>. QED
    BY <1>1, <2>3, <2>4, <2>5
<1>4. ASSUME event.action # "STATUS_CHANGED", Len(trail) > 0
      PROVE  /\ HasLast(longer, last)
             /\ StatusAfter(longer, last) = StatusAfter(trail, Len(trail))
  <2>1. Len(trail) \in 1 .. Len(trail)
    BY <1>1, <1>4
  <2>2. StatusChanges(longer, last) = StatusChanges(longer, Len(trail))
    BY <1>1, <1>4 DEF StatusChanges
  <2>3. HasLast(longer, Len(trail)) => HasLast(longer, last)
    BY <2>2 DEF HasLast
  <2>4. StatusAfter(longer, last) = StatusAfter(longer, Len(trail))
    <3>1. \A n : StatusAfter(longer, n) = ToldBy(longer, StatusChanges(longer, n))
      BY DEF StatusAfter, ToldBy
    <3>. QED
      BY <2>2, <3>1
  <2>. QED
    BY <1>2, <2>1, <2>3, <2>4
<1>. QED
  BY <1>2, <1>3, <1>4 DEF longer

-----------------------------------------------------------------------------
(* The two commits, as one kind of step.                                   *)

\* What a commit writes, and that its event says so.
Effect(w, status, context, event) ==
  LET q == session[w].req
      row == session[w].row IN
  /\ Flush(w, status, context, event)
  /\ status \in OpportunityStatus /\ context \in [Fields -> Value]
  /\ event \in AuditEvent /\ event.version = row.version + 1
  /\ \/ /\ q.op = "transition" /\ q.target = status
        /\ event.action = "STATUS_CHANGED" /\ event.from = row.status /\ event.to = status
        /\ status \in OPPORTUNITY_TRANSITIONS[row.status]
        /\ context = row.context
     \/ /\ q.op = "context" /\ DOMAIN q.changes \subseteq Fields
        /\ event.action = "CONTEXT_UPDATED" /\ event.fields = DOMAIN q.changes
        /\ status = row.status
        /\ \A f \in Fields : context[f] = IF f \in DOMAIN q.changes THEN q.changes[f]
                                                                  ELSE row.context[f]

LEMMA CommitHasEffect ==
  ASSUME OpportunityInv, NEW w \in Workers, CommitTransition(w) \/ CommitContext(w)
  PROVE  At(w, "holding") /\ \E status, context, event : Effect(w, status, context, event)
<1> DEFINE q == session[w].req
           row == session[w].row
<1>1. At(w, "holding")
  BY DEF CommitTransition, CommitContext
<1>2. /\ q \in Request /\ row \in Opportunity
      /\ row.status \in OpportunityStatus /\ row.context \in [Fields -> Value]
      /\ row.version \in Nat
      /\ q.op = "transition" => q.target \in OPPORTUNITY_TRANSITIONS[row.status]
  BY <1>1, HolderFacts DEF Opportunity
<1>3. CASE CommitTransition(w)
  <2> DEFINE event == [action |-> "STATUS_CHANGED", from |-> row.status, to |-> q.target,
                       version |-> row.version + 1]
  <2>1. q.op = "transition" /\ Flush(w, q.target, row.context, event)
    BY <1>3 DEF CommitTransition
  <2>2. q.target \in OpportunityStatus
    BY <1>2, <2>1, RequestFields
  <2>3. event \in AuditEvent
    BY <1>2, <2>2 DEF AuditEvent
  <2>4. Effect(w, q.target, row.context, event)
    BY <1>2, <2>1, <2>2, <2>3 DEF Effect
  <2>. QED
    BY <1>1, <2>4
<1>4. CASE CommitContext(w)
  <2> DEFINE event == [action |-> "CONTEXT_UPDATED", fields |-> DOMAIN q.changes,
                       version |-> row.version + 1]
             context == [f \in Fields |-> IF f \in DOMAIN q.changes THEN q.changes[f]
                                                                  ELSE row.context[f]]
  <2>1. q.op = "context" /\ Flush(w, row.status, context, event)
    BY <1>4 DEF CommitContext
  <2>2. q.changes \in Changes
    BY <1>2, <2>1, RequestFields
  <2>3. DOMAIN q.changes \subseteq Fields /\ \A f \in DOMAIN q.changes : q.changes[f] \in Value
    BY <2>2 DEF Changes
  <2>4. context \in [Fields -> Value]
    BY <1>2, <2>3
  <2>5. event \in AuditEvent
    BY <1>2, <2>3 DEF AuditEvent
  <2>6. \A f \in Fields : context[f] = IF f \in DOMAIN q.changes THEN q.changes[f]
                                                               ELSE row.context[f]
    OBVIOUS
  <2> HIDE DEF context
  <2>7. Effect(w, row.status, context, event)
    BY <1>2, <2>1, <2>3, <2>4, <2>5, <2>6 DEF Effect
  <2>. QED
    BY <1>1, <2>7
<1>. QED
  BY <1>1, <1>3, <1>4

\* The tables and the session after a commit.
Committed(w, q, row, status, context, event) ==
  /\ DOMAIN opportunities' = DOMAIN opportunities /\ DOMAIN audit' = DOMAIN audit
  /\ opportunities'[q.id] \in Opportunity
  /\ opportunities'[q.id].status = status /\ opportunities'[q.id].context = context
  /\ opportunities'[q.id].version = row.version + 1
  /\ audit'[q.id] = Append(audit[q.id], event) /\ audit'[q.id] \in Seq(AuditEvent)
  /\ Len(audit'[q.id]) = Len(audit[q.id]) + 1
  /\ audit'[q.id][Len(audit[q.id]) + 1] = event
  /\ \A i \in 1 .. Len(audit[q.id]) : audit'[q.id][i] = audit[q.id][i]
  /\ \A o \in DOMAIN opportunities : o # q.id =>
       opportunities'[o] = opportunities[o] /\ audit'[o] = audit[o]
  /\ session' \in [Workers -> Session]
  /\ session'[w].pc = "done" /\ session'[w].req = q
  /\ session'[w].answer.code = "OK" /\ session'[w].answer.version = row.version + 1
  /\ \A v \in Workers : v # w => session'[v] = session[v]

LEMMA AfterCommit ==
  ASSUME OpportunityInv, NEW w \in Workers, At(w, "holding"),
         NEW status, NEW context, NEW event, Effect(w, status, context, event),
         NEW q, NEW row, q = session[w].req, row = session[w].row
  PROVE  Committed(w, q, row, status, context, event)
<1>1. /\ q \in Request /\ q.id \in DOMAIN opportunities /\ q.id \in DOMAIN audit
      /\ row = opportunities[q.id] /\ row \in Opportunity /\ row.version \in Nat
      /\ audit[q.id] \in Seq(AuditEvent)
  BY HolderFacts DEF Opportunity
<1>2. /\ IsTable(opportunities, OpportunityIds, Opportunity)
      /\ IsTable(audit, OpportunityIds, Seq(AuditEvent))
      /\ session \in [Workers -> Session]
  BY DEF OpportunityInv, TypeOK
<1> DEFINE new == [row EXCEPT !.status = status, !.context = context, !.version = row.version + 1]
           answer == [code |-> "OK", status |-> status, context |-> context,
                      version |-> row.version + 1]
<1>3. /\ opportunities' = [opportunities EXCEPT ![q.id] = new]
      /\ audit' = [audit EXCEPT ![q.id] = Append(audit[q.id], event)]
      /\ session' = [session EXCEPT ![w] = Done(q, answer)]
      /\ status \in OpportunityStatus /\ context \in [Fields -> Value] /\ event \in AuditEvent
  BY <1>1 DEF Effect, Flush
<1>4. /\ new \in Opportunity /\ new.status = status /\ new.context = context
      /\ new.version = row.version + 1
  <2> DEFINE C == [Fields -> Value]
             Row(x) == x \in [tenant : Tenants, status : OpportunityStatus, context : C, version : Nat]
  <2>1. Row(row) /\ row.version + 1 \in Nat /\ status \in OpportunityStatus /\ context \in C
    BY <1>1, <1>3 DEF Opportunity
  <2>2. \A x : x \in Opportunity <=> Row(x)
    BY DEF Opportunity
  <2> HIDE DEF C
  <2>3. Row(new) /\ new.status = status /\ new.context = context /\ new.version = row.version + 1
    BY <2>1
  <2>. QED
    BY <2>2, <2>3
<1>5. /\ Done(q, answer) \in Session /\ Done(q, answer).pc = "done" /\ Done(q, answer).req = q
      /\ Done(q, answer).answer = answer
      /\ answer.code = "OK" /\ answer.version = row.version + 1
  <2>1. answer \in Answer /\ answer.code = "OK" /\ answer.version = row.version + 1
    BY <1>1, <1>3, AnswersFormed
  <2> HIDE DEF answer
  <2>. QED
    BY <1>1, <2>1, SessionsFormed DEF Done
<1> DEFINE longer == Append(audit[q.id], event)
           done == Done(q, answer)
<1>6. /\ longer \in Seq(AuditEvent) /\ Len(longer) = Len(audit[q.id]) + 1
      /\ longer[Len(audit[q.id]) + 1] = event
      /\ \A i \in 1 .. Len(audit[q.id]) : longer[i] = audit[q.id][i]
  BY <1>1, <1>3
<1>7. /\ opportunities' = [opportunities EXCEPT ![q.id] = new]
      /\ audit' = [audit EXCEPT ![q.id] = longer]
      /\ session' = [session EXCEPT ![w] = done]
  BY <1>3
<1>8. done \in Session /\ done.pc = "done" /\ done.req = q /\ done.answer.code = "OK"
      /\ done.answer.version = row.version + 1
  BY <1>5
<1>9. /\ audit'[q.id] = longer /\ DOMAIN audit' = DOMAIN audit
      /\ DOMAIN opportunities' = DOMAIN opportunities /\ opportunities'[q.id] = new
      /\ \A o \in DOMAIN opportunities : o # q.id =>
              opportunities'[o] = opportunities[o] /\ audit'[o] = audit[o]
  <2>1. DOMAIN audit = DOMAIN opportunities
    BY DEF OpportunityInv, TrailExplainsRow
  <2> HIDE DEF new, longer
  <2>. QED
    BY <1>1, <1>7, <2>1
<1>10. /\ session' \in [Workers -> Session] /\ session'[w] = done
       /\ \A v \in Workers : v # w => session'[v] = session[v]
  <2> HIDE DEF done
  <2>. QED
    BY <1>2, <1>7, <1>8
<1>. QED
  BY <1>4, <1>6, <1>8, <1>9, <1>10 DEF Committed

-----------------------------------------------------------------------------
(* A commit preserves the invariant.                                       *)

LEMMA TrailStep ==
  ASSUME OpportunityInv, NEW w \in Workers, At(w, "holding"),
         NEW status, NEW context, NEW event, Effect(w, status, context, event)
  PROVE  TypeOK' /\ TrailExplainsRow'
<1>0. PICK q, row : q = session[w].req /\ row = session[w].row
  OBVIOUS
<1>1. /\ q \in Request /\ q.id \in DOMAIN opportunities /\ q.id \in DOMAIN audit
      /\ row = opportunities[q.id] /\ row \in Opportunity /\ row.version \in Nat
      /\ Len(audit[q.id]) = row.version /\ audit[q.id] \in Seq(AuditEvent)
  BY <1>0, HolderFacts DEF Opportunity
<1>2. /\ DOMAIN opportunities' = DOMAIN opportunities /\ DOMAIN audit' = DOMAIN audit
      /\ opportunities'[q.id] \in Opportunity
      /\ opportunities'[q.id].status = status
      /\ opportunities'[q.id].version = row.version + 1
      /\ audit'[q.id] = Append(audit[q.id], event) /\ audit'[q.id] \in Seq(AuditEvent)
      /\ Len(audit'[q.id]) = Len(audit[q.id]) + 1
      /\ \A o \in DOMAIN opportunities : o # q.id =>
              opportunities'[o] = opportunities[o] /\ audit'[o] = audit[o]
      /\ session' \in [Workers -> Session]
  <2>1. Committed(w, q, row, status, context, event)
    BY <1>0, AfterCommit
  <2>. QED
    BY <2>1 DEF Committed
<1>3. /\ event \in AuditEvent
      /\ event.action = "STATUS_CHANGED" => event.to = status
      /\ event.action # "STATUS_CHANGED" => status = row.status
  BY <1>0 DEF Effect
<1>4. /\ DOMAIN audit = DOMAIN opportunities
      /\ \A o \in DOMAIN opportunities : Replays(audit[o], opportunities[o])
  BY DEF OpportunityInv, TrailExplainsRow
<1>5. TypeOK'
  <2>1. IsTable(opportunities, OpportunityIds, Opportunity)
        /\ IsTable(audit, OpportunityIds, Seq(AuditEvent))
    BY DEF OpportunityInv, TypeOK
  <2>2. IsTable(opportunities', OpportunityIds, Opportunity)
    <3>1. opportunities' = [o \in DOMAIN opportunities' |-> opportunities'[o]]
      BY <2>1 DEF Effect, Flush, IsTable
    <3>. QED
      BY <1>2, <2>1, <3>1 DEF IsTable
  <2>3. IsTable(audit', OpportunityIds, Seq(AuditEvent))
    <3>1. audit' = [o \in DOMAIN audit' |-> audit'[o]]
      BY <2>1 DEF Effect, Flush, IsTable
    <3>. QED
      BY <1>2, <1>4, <2>1, <3>1 DEF IsTable
  <2>. QED
    BY <1>2, <2>2, <2>3 DEF TypeOK
<1>6. Replays(audit'[q.id], opportunities'[q.id])
  <2>1. Replays(audit[q.id], row)
    BY <1>1, <1>4
  <2> DEFINE old == audit[q.id]
             last == Len(old) + 1
  <2>2. /\ \A n \in 1 .. Len(old) : HasLast(old, n)
        /\ Len(old) > 0 /\ Len(old) \in Nat /\ row.status = StatusAfter(old, Len(old))
    BY <1>1, <2>1 DEF Replays
  <2>3. /\ \A n \in 1 .. Len(old) : HasLast(audit'[q.id], n)
        /\ HasLast(audit'[q.id], last)
        /\ event.action = "STATUS_CHANGED" => StatusAfter(audit'[q.id], last) = event.to
        /\ event.action # "STATUS_CHANGED" =>
              StatusAfter(audit'[q.id], last) = StatusAfter(old, Len(old))
    BY <1>1, <1>2, <1>3, <2>2, StatusAfterAppend
  <2>4. status = StatusAfter(audit'[q.id], last)
    BY <1>3, <2>2, <2>3
  <2>5. \A n \in 1 .. last : n = last \/ n \in 1 .. Len(old)
    BY <2>2
  <2>. QED
    BY <1>1, <1>2, <2>2, <2>3, <2>4, <2>5 DEF Replays
<1>7. TrailExplainsRow'
  <2>1. ASSUME NEW o \in DOMAIN opportunities'
        PROVE  Replays(audit'[o], opportunities'[o])
    BY <1>2, <1>4, <1>6, <2>1
  <2>. QED
    BY <1>2, <1>4, <2>1 DEF TrailExplainsRow
<1>. QED
  BY <1>5, <1>7

LEMMA LocksStep ==
  ASSUME OpportunityInv, NEW w \in Workers, At(w, "holding"),
         NEW status, NEW context, NEW event, Effect(w, status, context, event)
  PROVE  HoldersSeeTheirRow' /\ OneHolder'
<1>0. PICK q, row : q = session[w].req /\ row = session[w].row
  OBVIOUS
<1>1. /\ DOMAIN opportunities' = DOMAIN opportunities
      /\ \A o \in DOMAIN opportunities : o # q.id => opportunities'[o] = opportunities[o]
      /\ session'[w].pc = "done"
      /\ \A v \in Workers : v # w => session'[v] = session[v]
  <2>1. Committed(w, q, row, status, context, event)
    BY <1>0, AfterCommit
  <2>. QED
    BY <2>1 DEF Committed
<1>2. OneHolder'
  BY <1>1 DEF OpportunityInv, OneHolder, At
<1>3. ASSUME NEW v \in Workers, At(v, "holding")'
      PROVE  /\ session'[v].req.id \in DOMAIN opportunities'
             /\ session'[v].row = opportunities'[session'[v].req.id]
             /\ Verdict(session'[v].req, session'[v].row) = "OK"
  <2>1. v # w /\ session'[v] = session[v] /\ At(v, "holding")
    BY <1>1, <1>3 DEF At
  <2>2. session[v].req.id # q.id
    BY <1>0, <2>1 DEF OpportunityInv, OneHolder
  <2>. QED
    BY <1>1, <2>1, <2>2 DEF OpportunityInv, HoldersSeeTheirRow
<1>. QED
  BY <1>2, <1>3 DEF HoldersSeeTheirRow

\* What AcknowledgedStays says of one answer, given the trail and the row.
Stays(q, version, trail, row) ==
  LET later == {trail[i] : i \in version + 1 .. Len(trail)} IN
  /\ version = q.expected + 1 /\ version <= Len(trail)
  /\ q.op = "transition" =>
       /\ trail[version].action = "STATUS_CHANGED"
       /\ trail[version].to = q.target
       /\ (\A e \in later : e.action = "CONTEXT_UPDATED") => row.status = q.target
  /\ q.op = "context" =>
       /\ trail[version].action = "CONTEXT_UPDATED"
       /\ \A f \in DOMAIN q.changes :
            (\A e \in later : e.action = "CONTEXT_UPDATED" => f \notin e.fields)
              => row.context[f] = q.changes[f]

LEMMA StaysIsAcknowledged ==
  AcknowledgedStays <=>
    \A w \in Workers : DoneOK(w) =>
      LET q == session[w].req IN
      Stays(q, session[w].answer.version, audit[q.id], opportunities[q.id])
  BY DEF AcknowledgedStays, Stays

\* The trail after one more event, and the row after the change it tells of.
Continues(trail, old, event, longer, new) ==
  /\ Len(trail) \in Nat /\ Len(longer) = Len(trail) + 1 /\ longer[Len(trail) + 1] = event
  /\ \A i \in 1 .. Len(trail) : longer[i] = trail[i]
  /\ \/ event.action = "STATUS_CHANGED" /\ new.context = old.context
     \/ /\ event.action = "CONTEXT_UPDATED" /\ new.status = old.status
        /\ \A f \in Fields \ event.fields : new.context[f] = old.context[f]

\* An answer outlives a later event of its opportunity.
LEMMA StaysAfterEvent ==
  ASSUME NEW q \in Request, NEW version \in Nat, version > 0,
         NEW trail, NEW old, NEW event, NEW longer, NEW new,
         Continues(trail, old, event, longer, new), Stays(q, version, trail, old)
  PROVE  Stays(q, version, longer, new)
<1>0. /\ Len(trail) \in Nat /\ Len(longer) = Len(trail) + 1 /\ longer[Len(trail) + 1] = event
      /\ \A i \in 1 .. Len(trail) : longer[i] = trail[i]
      /\ \/ event.action = "STATUS_CHANGED" /\ new.context = old.context
         \/ /\ event.action = "CONTEXT_UPDATED" /\ new.status = old.status
            /\ \A f \in Fields \ event.fields : new.context[f] = old.context[f]
  BY DEF Continues
<1> DEFINE later == {trail[i] : i \in version + 1 .. Len(trail)}
           after == {longer[i] : i \in version + 1 .. Len(longer)}
<1>1. version = q.expected + 1 /\ version <= Len(trail) /\ longer[version] = trail[version]
  BY <1>0 DEF Stays
<1>2. event \in after /\ later \subseteq after
  <2>1. Len(trail) + 1 \in version + 1 .. Len(longer)
    BY <1>0, <1>1
  <2>2. ASSUME NEW i \in version + 1 .. Len(trail)
        PROVE  i \in version + 1 .. Len(longer) /\ longer[i] = trail[i]
    BY <1>0
  <2>. QED
    BY <1>0, <2>1, <2>2
<1>3. ASSUME q.op = "transition"
      PROVE  /\ longer[version].action = "STATUS_CHANGED"
             /\ longer[version].to = q.target
             /\ (\A e \in after : e.action = "CONTEXT_UPDATED") => new.status = q.target
  <2>1. /\ trail[version].action = "STATUS_CHANGED" /\ trail[version].to = q.target
        /\ (\A e \in later : e.action = "CONTEXT_UPDATED") => old.status = q.target
    BY <1>3 DEF Stays
  <2>. QED
    BY <1>0, <1>1, <1>2, <2>1
<1>4. ASSUME q.op = "context"
      PROVE  /\ longer[version].action = "CONTEXT_UPDATED"
             /\ \A f \in DOMAIN q.changes :
                  (\A e \in after : e.action = "CONTEXT_UPDATED" => f \notin e.fields)
                    => new.context[f] = q.changes[f]
  <2>1. /\ trail[version].action = "CONTEXT_UPDATED"
        /\ \A f \in DOMAIN q.changes :
             (\A e \in later : e.action = "CONTEXT_UPDATED" => f \notin e.fields)
               => old.context[f] = q.changes[f]
    BY <1>4 DEF Stays
  <2>2. DOMAIN q.changes \subseteq Fields
    BY <1>4, RequestFields DEF Changes
  <2>. QED
    BY <1>0, <1>1, <1>2, <2>1, <2>2
<1>. QED
  BY <1>0, <1>1, <1>3, <1>4 DEF Stays

LEMMA AnswersStep ==
  ASSUME OpportunityInv, NEW w \in Workers, At(w, "holding"),
         NEW status, NEW context, NEW event, Effect(w, status, context, event)
  PROVE  AnswersKnown' /\ AcknowledgedStays' /\ OneWinnerPerVersion'
<1>0. PICK q, row : q = session[w].req /\ row = session[w].row
  OBVIOUS
<1>1. /\ q \in Request /\ q.id \in DOMAIN opportunities
      /\ row = opportunities[q.id] /\ row.version \in Nat
      /\ row.version = q.expected /\ Len(audit[q.id]) = row.version
  BY <1>0, HolderFacts DEF Opportunity
<1>2. /\ DOMAIN opportunities' = DOMAIN opportunities
      /\ opportunities'[q.id].status = status /\ opportunities'[q.id].context = context
      /\ Len(audit'[q.id]) = Len(audit[q.id]) + 1
      /\ audit'[q.id][Len(audit[q.id]) + 1] = event
      /\ \A i \in 1 .. Len(audit[q.id]) : audit'[q.id][i] = audit[q.id][i]
      /\ \A o \in DOMAIN opportunities : o # q.id =>
           opportunities'[o] = opportunities[o] /\ audit'[o] = audit[o]
      /\ session'[w].pc = "done" /\ session'[w].req = q
      /\ session'[w].answer.code = "OK" /\ session'[w].answer.version = row.version + 1
      /\ \A v \in Workers : v # w => session'[v] = session[v]
  <2>1. Committed(w, q, row, status, context, event)
    BY <1>0, AfterCommit
  <2>. QED
    BY <2>1 DEF Committed
<1>3. ASSUME NEW v \in Workers, v # w, DoneOK(v)'
      PROVE  /\ DoneOK(v) /\ session'[v] = session[v]
             /\ session[v].req \in Request /\ session[v].req.id \in DOMAIN opportunities
             /\ session[v].answer.version = session[v].req.expected + 1
             /\ session[v].answer.version \in Nat /\ session[v].answer.version > 0
             /\ session[v].answer.version <= Len(audit[session[v].req.id])
             /\ Stays(session[v].req, session[v].answer.version, audit[session[v].req.id],
                      opportunities[session[v].req.id])
  <2>1. session'[v] = session[v] /\ DoneOK(v)
    BY <1>2, <1>3 DEF DoneOK, At
  <2>2. session[v].req \in Request
    BY <2>1, SessionShapes DEF OpportunityInv, TypeOK, DoneOK, At
  <2>3. session[v].req.id \in DOMAIN opportunities
    BY <2>1 DEF OpportunityInv, AnswersKnown
  <2>4. Stays(session[v].req, session[v].answer.version, audit[session[v].req.id],
              opportunities[session[v].req.id])
    BY <2>1, StaysIsAcknowledged DEF OpportunityInv
  <2>5. /\ session[v].answer.version = session[v].req.expected + 1
        /\ session[v].answer.version <= Len(audit[session[v].req.id])
        /\ session[v].req.expected \in Nat
    BY <2>2, <2>4, RequestFields DEF Stays
  <2>. QED
    BY <2>1, <2>2, <2>3, <2>4, <2>5
<1>4. AnswersKnown'
  BY <1>1, <1>2, <1>3 DEF AnswersKnown, DoneOK, At
<1>5. AcknowledgedStays'
  <2> SUFFICES ASSUME NEW v \in Workers, DoneOK(v)'
               PROVE  Stays(session'[v].req, session'[v].answer.version,
                            audit'[session'[v].req.id], opportunities'[session'[v].req.id])
    BY DEF AcknowledgedStays, Stays
  <2>1. CASE v = w
    <3>1. \/ /\ q.op = "transition" /\ q.target = status
             /\ event.action = "STATUS_CHANGED" /\ event.to = status
          \/ /\ q.op = "context" /\ event.action = "CONTEXT_UPDATED"
             /\ DOMAIN q.changes \subseteq Fields
             /\ \A f \in DOMAIN q.changes : context[f] = q.changes[f]
      BY <1>0 DEF Effect
    <3>2. Stays(q, row.version + 1, audit'[q.id], opportunities'[q.id])
      BY <1>1, <1>2, <3>1 DEF Stays
    <3>. QED
      BY <1>2, <2>1, <3>2
  <2>2. CASE v # w /\ session[v].req.id # q.id
    BY <1>2, <1>3, <2>2
  <2>3. CASE v # w /\ session[v].req.id = q.id
    <3>1. \/ /\ event.action = "STATUS_CHANGED" /\ context = row.context
          \/ /\ event.action = "CONTEXT_UPDATED" /\ status = row.status
             /\ \A f \in Fields \ event.fields : context[f] = row.context[f]
      BY <1>0 DEF Effect
    <3>2. Len(audit[q.id]) \in Nat
      BY <1>1
    <3>3. PICK p, n, trail, longer, new :
            /\ p = session[v].req /\ n = session[v].answer.version
            /\ trail = audit[q.id] /\ longer = audit'[q.id] /\ new = opportunities'[q.id]
      OBVIOUS
    <3>4. /\ p \in Request /\ n \in Nat /\ n > 0 /\ Stays(p, n, trail, row)
          /\ session'[v].req = p /\ session'[v].answer.version = n /\ p.id = q.id
      BY <1>1, <1>3, <2>3, <3>3
    <3>5. Continues(trail, row, event, longer, new)
      BY <1>2, <3>1, <3>2, <3>3 DEF Continues
    <3>6. Stays(p, n, longer, new)
      BY <3>4, <3>5, StaysAfterEvent
    <3>. QED
      BY <3>3, <3>4, <3>6
  <2>. QED
    BY <2>1, <2>2, <2>3
<1>6. OneWinnerPerVersion'
  <2> SUFFICES ASSUME NEW u \in Workers, NEW v \in Workers, DoneOK(u)', DoneOK(v)', u # v,
                      session'[u].req.id = session'[v].req.id
               PROVE  session'[u].req.expected # session'[v].req.expected
    BY DEF OneWinnerPerVersion
  <2>1. ASSUME NEW x \in Workers, x # w, DoneOK(x)', session'[x].req.id = q.id
        PROVE  session'[x].req.expected # q.expected
    <3>1. /\ session[x].req.expected + 1 <= Len(audit[q.id]) /\ session'[x] = session[x]
          /\ session[x].req.expected \in Nat
      BY <1>3, <2>1, RequestFields
    <3>. QED
      BY <1>1, <3>1
  <2>2. CASE u = w
    BY <1>2, <2>1, <2>2
  <2>3. CASE v = w
    BY <1>2, <2>1, <2>3
  <2>4. CASE u # w /\ v # w
    BY <1>3, <2>4 DEF OpportunityInv, OneWinnerPerVersion
  <2>. QED
    BY <2>2, <2>3, <2>4
<1>. QED
  BY <1>4, <1>5, <1>6

-----------------------------------------------------------------------------
(* The other steps.                                                        *)

\* A step that leaves the tables and moves one session to where it holds no lock
\* and tells of no success.
LEMMA SessionMoves ==
  ASSUME OpportunityInv, NEW w \in Workers, NEW s \in Session, Goto(w, s),
         s.pc # "holding", s.pc = "done" => s.answer.code # "OK"
  PROVE  OpportunityInv'
<1>1. /\ UNCHANGED <<opportunities, audit>> /\ session' = [session EXCEPT ![w] = s]
      /\ session \in [Workers -> Session]
  BY DEF Goto, db, OpportunityInv, TypeOK
<1>2. /\ session'[w] = s /\ session' \in [Workers -> Session]
      /\ \A v \in Workers : v # w => session'[v] = session[v]
  BY <1>1
<1>3. TypeOK' /\ TrailExplainsRow'
  BY <1>1, <1>2 DEF OpportunityInv, TypeOK, TrailExplainsRow
<1>4. \A v \in Workers : At(v, "holding")' => At(v, "holding") /\ session'[v] = session[v]
  BY <1>2 DEF At
<1>5. \A v \in Workers : DoneOK(v)' => DoneOK(v) /\ session'[v] = session[v]
  BY <1>2 DEF At, DoneOK
<1>6. HoldersSeeTheirRow' /\ OneHolder'
  BY <1>1, <1>4 DEF OpportunityInv, HoldersSeeTheirRow, OneHolder
<1>7. AnswersKnown' /\ OneWinnerPerVersion'
  BY <1>1, <1>5 DEF OpportunityInv, AnswersKnown, OneWinnerPerVersion
<1>8. AcknowledgedStays'
  <2> SUFFICES ASSUME NEW v \in Workers, DoneOK(v)'
               PROVE  Stays(session'[v].req, session'[v].answer.version,
                            audit'[session'[v].req.id], opportunities'[session'[v].req.id])
    BY DEF AcknowledgedStays, Stays
  <2>. QED
    BY <1>1, <1>5, StaysIsAcknowledged DEF OpportunityInv
<1>. QED
  BY <1>3, <1>6, <1>7, <1>8 DEF OpportunityInv

LEMMA LockStep ==
  ASSUME OpportunityInv, NEW w \in Workers, LockOpportunity(w)
  PROVE  OpportunityInv'
<1> DEFINE q == session[w].req
           row == opportunities[q.id]
<1>1. q \in Request /\ session \in [Workers -> Session]
  BY SessionShapes DEF LockOpportunity, At, OpportunityInv, TypeOK
<1>2. ASSUME NEW code \in ErrorCode, Goto(w, Done(q, Error(code)))
      PROVE  OpportunityInv'
  <2>1. Done(q, Error(code)) \in Session /\ Error(code).code # "OK"
    BY <1>1, AnswersFormed, SessionsFormed
  <2>2. Done(q, Error(code)).pc = "done" /\ Done(q, Error(code)).answer = Error(code)
    BY DEF Done
  <2>. QED
    BY <1>2, <2>1, <2>2, SessionMoves
<1> DEFINE held == [pc |-> "holding", req |-> q, row |-> row]
<1>3. CASE q.id \in DOMAIN opportunities /\ ~Locked(q.id) /\ Verdict(q, row) = "OK" /\ Goto(w, held)
  <2>1. row \in Opportunity
    BY <1>3 DEF OpportunityInv, TypeOK, IsTable
  <2>2. held \in Session /\ held.pc = "holding" /\ held.req = q /\ held.row = row
    BY <1>1, <2>1, SessionsFormed
  <2>3. UNCHANGED <<opportunities, audit>> /\ session' = [session EXCEPT ![w] = held]
    BY <1>3 DEF Goto, db
  <2> HIDE DEF held
  <2>4. /\ session'[w] = held /\ session' \in [Workers -> Session]
        /\ \A v \in Workers : v # w => session'[v] = session[v]
    BY <1>1, <2>2, <2>3
  <2>5. TypeOK' /\ TrailExplainsRow'
    BY <2>3, <2>4 DEF OpportunityInv, TypeOK, TrailExplainsRow
  <2>6. HoldersSeeTheirRow'
    BY <1>3, <2>2, <2>3, <2>4 DEF OpportunityInv, HoldersSeeTheirRow, At
  <2>7. OneHolder'
    BY <1>3, <2>2, <2>4 DEF OpportunityInv, OneHolder, Locked, At
  <2>8. \A v \in Workers : DoneOK(v)' => DoneOK(v) /\ session'[v] = session[v]
    BY <2>2, <2>4 DEF At, DoneOK
  <2>9. AnswersKnown' /\ OneWinnerPerVersion'
    BY <2>3, <2>8 DEF OpportunityInv, AnswersKnown, OneWinnerPerVersion
  <2>10. AcknowledgedStays'
    <3> SUFFICES ASSUME NEW v \in Workers, DoneOK(v)'
                 PROVE  Stays(session'[v].req, session'[v].answer.version,
                              audit'[session'[v].req.id], opportunities'[session'[v].req.id])
      BY DEF AcknowledgedStays, Stays
    <3>. QED
      BY <2>3, <2>8, StaysIsAcknowledged DEF OpportunityInv
  <2>. QED
    BY <2>5, <2>6, <2>7, <2>9, <2>10 DEF OpportunityInv
<1>4. Verdict(q, row) \in ErrorCode \cup {"OK"}
  BY DEF Verdict, ErrorCode
<1>. QED
  BY <1>2, <1>3, <1>4 DEF LockOpportunity, Visible, ErrorCode

LEMMA CreateStep ==
  ASSUME OpportunityInv, CreateOpportunity
  PROVE  OpportunityInv'
<1> DEFINE Blank(t) == [tenant |-> t, status |-> "RESEARCHING",
                        context |-> [f \in Fields |-> NoValue], version |-> 1]
           first == <<[action |-> "CREATED"]>>
<1>1. PICK t \in Tenants, o \in OpportunityIds \ DOMAIN opportunities :
        /\ opportunities' = With(opportunities, o, Blank(t))
        /\ audit' = With(audit, o, first)
        /\ UNCHANGED session
  BY DEF CreateOpportunity
<1>2. Blank(t) \in Opportunity /\ Blank(t).status = "RESEARCHING" /\ Blank(t).version = 1
  <2>1. [f \in Fields |-> NoValue] \in [Fields -> Value]
    BY DEF Value
  <2>. QED
    BY <2>1 DEF Opportunity, OpportunityStatus
<1>3. first \in Seq(AuditEvent) /\ Len(first) = 1 /\ first[1].action # "STATUS_CHANGED"
  BY DEF AuditEvent
<1>4. PICK row : row = Blank(t)
  OBVIOUS
<1> HIDE DEF Blank, first
<1>5. /\ DOMAIN audit = DOMAIN opportunities
      /\ IsTable(opportunities, OpportunityIds, Opportunity)
      /\ IsTable(audit, OpportunityIds, Seq(AuditEvent))
  BY DEF OpportunityInv, TypeOK, TrailExplainsRow
<1>6. /\ DOMAIN opportunities' = DOMAIN opportunities \cup {o} /\ DOMAIN audit' = DOMAIN opportunities'
      /\ opportunities'[o] = row /\ audit'[o] = first
      /\ \A x \in DOMAIN opportunities : /\ opportunities'[x] = opportunities[x]
                                         /\ audit'[x] = audit[x]
  BY <1>1, <1>4, <1>5 DEF With
<1>7. TypeOK'
  BY <1>1, <1>2, <1>3, <1>5 DEF OpportunityInv, TypeOK, IsTable, With
<1>8. TrailExplainsRow'
  <2>1. \A n \in 1 .. 1 : StatusChanges(first, n) = {}
    BY <1>3 DEF StatusChanges
  <2>2. Replays(first, row)
    BY <1>2, <1>3, <1>4, <2>1 DEF Replays, HasLast, StatusAfter
  <2>. QED
    BY <1>6, <2>2 DEF OpportunityInv, TrailExplainsRow
<1>9. HoldersSeeTheirRow' /\ OneHolder'
  BY <1>1, <1>6 DEF OpportunityInv, HoldersSeeTheirRow, OneHolder, At
<1>10. \A v \in Workers : DoneOK(v)' => DoneOK(v) /\ session'[v] = session[v]
  BY <1>1 DEF DoneOK, At
<1>11. AnswersKnown' /\ OneWinnerPerVersion'
  BY <1>6, <1>10 DEF OpportunityInv, AnswersKnown, OneWinnerPerVersion
<1>12. AcknowledgedStays'
  <2> SUFFICES ASSUME NEW v \in Workers, DoneOK(v)'
               PROVE  Stays(session'[v].req, session'[v].answer.version,
                            audit'[session'[v].req.id], opportunities'[session'[v].req.id])
    BY DEF AcknowledgedStays, Stays
  <2>1. session[v].req.id \in DOMAIN opportunities
    BY <1>10 DEF OpportunityInv, AnswersKnown
  <2>. QED
    BY <1>6, <1>10, <2>1, StaysIsAcknowledged DEF OpportunityInv
<1>. QED
  BY <1>7, <1>8, <1>9, <1>11, <1>12 DEF OpportunityInv

-----------------------------------------------------------------------------
(* The theorems.                                                           *)

LEMMA InvInit == Init => OpportunityInv
<1> SUFFICES ASSUME Init PROVE OpportunityInv
  OBVIOUS
<1>1. /\ DOMAIN opportunities = {} /\ DOMAIN audit = {}
      /\ session = [w \in Workers |-> Idle]
  BY DEF Init, EmptyTable
<1>2. TypeOK
  BY <1>1, SessionsFormed DEF TypeOK, IsTable, Init, EmptyTable
<1>3. \A w \in Workers : session[w].pc = "idle"
  BY <1>1 DEF Idle
<1>. QED
  BY <1>1, <1>2, <1>3 DEF OpportunityInv, HoldersSeeTheirRow, OneHolder, TrailExplainsRow,
     AnswersKnown, AcknowledgedStays, OneWinnerPerVersion, DoneOK, At

LEMMA InvNext == OpportunityInv /\ [Next]_vars => OpportunityInv'
<1> SUFFICES ASSUME OpportunityInv, [Next]_vars PROVE OpportunityInv'
  OBVIOUS
<1>1. CASE UNCHANGED vars
  <2>1. UNCHANGED <<opportunities, audit, session>>
    BY <1>1 DEF vars, db
  <2>. QED
    BY <2>1 DEF OpportunityInv, TypeOK, HoldersSeeTheirRow, OneHolder, TrailExplainsRow,
       AnswersKnown, AcknowledgedStays, OneWinnerPerVersion, DoneOK, At
<1>2. CASE CreateOpportunity
  BY <1>2, CreateStep
<1>3. ASSUME NEW w \in Workers, AskTransition(w)
      PROVE  OpportunityInv'
  <2>1. PICK q \in TransitionRequest : Goto(w, [pc |-> "begun", req |-> q])
    BY <1>3 DEF AskTransition
  <2>. QED
    BY <2>1, SessionsFormed, SessionMoves DEF Request
<1>4. ASSUME NEW w \in Workers, AskContext(w)
      PROVE  OpportunityInv'
  <2>1. PICK q \in ContextRequest :
          Goto(w, IF DOMAIN q.changes = {} THEN Done(q, Error("INVALID_INPUT"))
                                           ELSE [pc |-> "begun", req |-> q])
    BY <1>4 DEF AskContext
  <2>2. q \in Request
    BY DEF Request
  <2>3. /\ Done(q, Error("INVALID_INPUT")) \in Session
        /\ Done(q, Error("INVALID_INPUT")).pc = "done"
        /\ Done(q, Error("INVALID_INPUT")).answer.code # "OK"
    BY <2>2, SessionsFormed, AnswersFormed DEF ErrorCode, Done
  <2>. QED
    BY <2>1, <2>2, <2>3, SessionsFormed, SessionMoves
<1>5. ASSUME NEW w \in Workers, LockOpportunity(w)
      PROVE  OpportunityInv'
  BY <1>5, LockStep
<1>6. ASSUME NEW w \in Workers, CommitTransition(w) \/ CommitContext(w)
      PROVE  OpportunityInv'
  <2>1. PICK status, context, event : At(w, "holding") /\ Effect(w, status, context, event)
    BY <1>6, CommitHasEffect
  <2>. QED
    BY <2>1, TrailStep, LocksStep, AnswersStep DEF OpportunityInv
<1>7. ASSUME NEW w \in Workers, Deliver(w) \/ Crash(w)
      PROVE  OpportunityInv'
  <2>1. Goto(w, Idle) /\ Idle \in Session /\ Idle.pc = "idle"
    BY <1>7, SessionsFormed DEF Deliver, Crash, Idle
  <2>. QED
    BY <2>1, SessionMoves
<1>. QED
  BY <1>1, <1>2, <1>3, <1>4, <1>5, <1>6, <1>7 DEF Next

LEMMA InvHolds == Spec => []OpportunityInv
  BY InvInit, InvNext, PTL DEF Spec

\* What clients are told stays true: an acknowledged change is in the audit trail at
\* the version the answer names, and in force until a later event names what it set.
THEOREM AnswersAreKept == Spec => []AcknowledgedStays
  BY InvHolds, PTL DEF OpportunityInv

\* Of the clients that saw one version of an opportunity, at most one is told that
\* its change was made, whatever each of them asked for.
THEOREM OneWinner == Spec => []OneWinnerPerVersion
  BY InvHolds, PTL DEF OpportunityInv

-----------------------------------------------------------------------------
(* Every step, as the opportunities see it.                                *)

\* A step of the service opens an opportunity, commits one change, or leaves the
\* tables alone.
LEMMA StepKinds ==
  ASSUME OpportunityInv, [Next]_vars
  PROVE  \/ CreateOpportunity
         \/ \E w \in Workers :
              At(w, "holding") /\ \E status, context, event : Effect(w, status, context, event)
         \/ UNCHANGED db
<1>1. CASE UNCHANGED vars
  BY <1>1 DEF vars
<1>2. ASSUME NEW w \in Workers, CommitTransition(w) \/ CommitContext(w)
      PROVE  \E v \in Workers :
               At(v, "holding") /\ \E status, context, event : Effect(v, status, context, event)
  BY <1>2, CommitHasEffect
<1>3. ASSUME NEW w \in Workers,
             AskTransition(w) \/ AskContext(w) \/ LockOpportunity(w) \/ Deliver(w) \/ Crash(w)
      PROVE  UNCHANGED db
  BY <1>3 DEF AskTransition, AskContext, LockOpportunity, Deliver, Crash, Goto
<1>. QED
  BY <1>1, <1>2, <1>3 DEF Next

\* What StepsTouchWhatTheyRecord says of one opportunity, given its row and trail
\* before and after.
Touches(old, trail, new, longer) ==
  LET event == longer[Len(longer)] IN
  new # old =>
    /\ Len(longer) = Len(trail) + 1
    /\ event.version = new.version
    /\ event.action = "STATUS_CHANGED" =>
         new.context = old.context /\ old.status \notin {"WON", "LOST"} /\ event.from = old.status
    /\ event.action = "CONTEXT_UPDATED" =>
         /\ new.status = old.status
         /\ \A f \in Fields \ event.fields : new.context[f] = old.context[f]

LEMMA StepTouches ==
  ASSUME OpportunityInv, [Next]_vars, NEW o \in DOMAIN opportunities
  PROVE  Touches(opportunities[o], audit[o], opportunities'[o], audit'[o])
<1>1. CASE CreateOpportunity
  <2>1. opportunities'[o] = opportunities[o]
    BY <1>1 DEF CreateOpportunity, With
  <2>. QED
    BY <2>1 DEF Touches
<1>2. CASE UNCHANGED db
  BY <1>2 DEF db, Touches
<1>3. ASSUME NEW w \in Workers, At(w, "holding"),
             NEW status, NEW context, NEW event, Effect(w, status, context, event)
      PROVE  Touches(opportunities[o], audit[o], opportunities'[o], audit'[o])
  <2>0. PICK q, row : q = session[w].req /\ row = session[w].row
    OBVIOUS
  <2>1. /\ row = opportunities[q.id] /\ Len(audit[q.id]) = row.version /\ row.version \in Nat
        /\ row.status \in OpportunityStatus
    BY <1>3, <2>0, HolderFacts DEF Opportunity
  <2>2. /\ opportunities'[q.id].status = status /\ opportunities'[q.id].context = context
        /\ opportunities'[q.id].version = row.version + 1
        /\ Len(audit'[q.id]) = Len(audit[q.id]) + 1
        /\ audit'[q.id][Len(audit[q.id]) + 1] = event
        /\ o # q.id => opportunities'[o] = opportunities[o]
    <3>1. Committed(w, q, row, status, context, event)
      BY <1>3, <2>0, AfterCommit
    <3>. QED
      BY <3>1 DEF Committed
  <2>3. /\ event.version = row.version + 1
        /\ \/ /\ event.action = "STATUS_CHANGED" /\ event.from = row.status
              /\ status \in OPPORTUNITY_TRANSITIONS[row.status] /\ context = row.context
           \/ /\ event.action = "CONTEXT_UPDATED" /\ status = row.status
              /\ \A f \in Fields \ event.fields : context[f] = row.context[f]
    BY <1>3, <2>0 DEF Effect
  <2>4. event.action = "STATUS_CHANGED" => row.status \notin {"WON", "LOST"}
    <3>1. OPPORTUNITY_TRANSITIONS["WON"] = {} /\ OPPORTUNITY_TRANSITIONS["LOST"] = {}
      BY DEF OPPORTUNITY_TRANSITIONS, OpportunityStatus
    <3>. QED
      BY <2>3, <3>1
  <2>5. CASE o = q.id
    BY <2>1, <2>2, <2>3, <2>4, <2>5 DEF Touches
  <2>6. CASE o # q.id
    BY <2>2, <2>6 DEF Touches
  <2>. QED
    BY <2>5, <2>6
<1>. QED
  BY <1>1, <1>2, <1>3, StepKinds

\* A step changes no more of an opportunity than the event it appends tells, and a
\* won or lost opportunity never changes its status again.
THEOREM StepsAreRecorded == Spec => StepsTouchWhatTheyRecord
<1> DEFINE Records ==
      \A o \in DOMAIN opportunities :
        Touches(opportunities[o], audit[o], opportunities'[o], audit'[o])
<1>1. OpportunityInv /\ [Next]_vars => [Records]_vars
  BY StepTouches
<1>2. [Records]_vars =>
       [\A o \in DOMAIN opportunities :
          LET old == opportunities[o]
              new == opportunities'[o]
              event == audit'[o][Len(audit'[o])] IN
          new # old =>
            /\ Len(audit'[o]) = Len(audit[o]) + 1
            /\ event.version = new.version
            /\ event.action = "STATUS_CHANGED" =>
                 /\ new.context = old.context
                 /\ old.status \notin {"WON", "LOST"}
                 /\ event.from = old.status
            /\ event.action = "CONTEXT_UPDATED" =>
                 /\ new.status = old.status
                 /\ \A f \in Fields \ event.fields : new.context[f] = old.context[f]]_vars
  BY DEF Touches
<1> HIDE DEF Records
<1>. QED
  BY <1>1, <1>2, InvHolds, PTL DEF Spec, StepsTouchWhatTheyRecord

-----------------------------------------------------------------------------
(* Refinement.                                                             *)

\* The statuses that a trail tells of, one for each of its events.
Told(trail) == [n \in 1 .. Len(trail) |-> StatusAfter(trail, n)]

\* A commit is one step of the abstract history.
LEMMA CommitAdvances ==
  ASSUME OpportunityInv, NEW w \in Workers, At(w, "holding"),
         NEW status, NEW context, NEW event, Effect(w, status, context, event)
  PROVE  \E o \in OpportunityIds : History!Advance(o)
<1>0. PICK q, row : q = session[w].req /\ row = session[w].row
  OBVIOUS
<1>1. /\ q \in Request /\ q.id \in OpportunityIds
      /\ q.id \in DOMAIN opportunities /\ DOMAIN audit = DOMAIN opportunities
      /\ row = opportunities[q.id] /\ row.status \in OpportunityStatus
      /\ row.version \in Nat /\ Len(audit[q.id]) = row.version /\ audit[q.id] \in Seq(AuditEvent)
  BY <1>0, HolderFacts, RequestFields DEF Opportunity, OpportunityInv, TrailExplainsRow
<1>2. /\ DOMAIN opportunities' = DOMAIN opportunities /\ DOMAIN audit' = DOMAIN audit
      /\ opportunities'[q.id].status = status
      /\ opportunities'[q.id].version = row.version + 1
      /\ audit'[q.id] = Append(audit[q.id], event)
      /\ Len(audit'[q.id]) = Len(audit[q.id]) + 1
      /\ \A o \in DOMAIN opportunities : o # q.id =>
              opportunities'[o] = opportunities[o] /\ audit'[o] = audit[o]
  <2>1. Committed(w, q, row, status, context, event)
    BY <1>0, AfterCommit
  <2>. QED
    BY <2>1 DEF Committed
<1>3. /\ event \in AuditEvent /\ status \in OpportunityStatus
      /\ event.action = "STATUS_CHANGED" => event.to = status
      /\ event.action # "STATUS_CHANGED" => status = row.status
      /\ row.status = status \/ status \in OPPORTUNITY_TRANSITIONS[row.status]
  BY <1>0 DEF Effect
<1>4. /\ OpportunityRow[q.id] = [state |-> row.status, version |-> row.version]
      /\ q.id \in DOMAIN OpportunityRow
  BY <1>1 DEF OpportunityRow
<1>5. OpportunityRow' =
        [OpportunityRow EXCEPT ![q.id] =
           [state |-> status, version |-> OpportunityRow[q.id].version + 1]]
  BY <1>1, <1>2, <1>4 DEF OpportunityRow
<1>6. Told(audit'[q.id]) = Append(Told(audit[q.id]), status)
  <2> DEFINE old == audit[q.id]
             new == audit'[q.id]
             last == Len(old) + 1
  <2>1. Replays(old, row)
    BY <1>1 DEF OpportunityInv, TrailExplainsRow
  <2>2. /\ \A n \in 1 .. Len(old) : HasLast(old, n)
        /\ Len(old) > 0 /\ Len(old) \in Nat /\ row.status = StatusAfter(old, Len(old))
    BY <1>1, <2>1 DEF Replays
  <2>3. /\ \A n \in 1 .. Len(old) : StatusAfter(new, n) = StatusAfter(old, n)
        /\ event.action = "STATUS_CHANGED" => StatusAfter(new, last) = event.to
        /\ event.action # "STATUS_CHANGED" => StatusAfter(new, last) = StatusAfter(old, Len(old))
    BY <1>1, <1>2, <1>3, <2>2, StatusAfterAppend
  <2>4. StatusAfter(new, last) = status
    BY <1>3, <2>2, <2>3
  <2> DEFINE Before(n) == StatusAfter(old, n)
             After(n) == StatusAfter(new, n)
  <2>5. /\ Told(old) = [n \in 1 .. Len(old) |-> Before(n)]
        /\ Told(new) = [n \in 1 .. last |-> After(n)]
    BY <1>2 DEF Told
  <2>6. (\A n \in 1 .. Len(old) : After(n) = Before(n)) /\ After(last) = status
    BY <2>3, <2>4
  <2>7. PICK k \in Nat : k = Len(old)
    BY <2>2
  <2> HIDE DEF Before, After
  <2>8. [n \in 1 .. k + 1 |-> After(n)] = Append([n \in 1 .. k |-> Before(n)], status)
    BY <2>6, <2>7
  <2>. QED
    BY <2>5, <2>7, <2>8
<1>7. OpportunityHistory' =
        [OpportunityHistory EXCEPT ![q.id] = Append(OpportunityHistory[q.id], status)]
  <2>1. /\ OpportunityHistory = [o \in DOMAIN audit |-> Told(audit[o])]
        /\ OpportunityHistory' = [o \in DOMAIN audit' |-> Told(audit'[o])]
    BY DEF OpportunityHistory, Told
  <2>2. \A o \in DOMAIN audit : o # q.id => Told(audit'[o]) = Told(audit[o])
    BY <1>1, <1>2
  <2>. QED
    BY <1>1, <1>2, <1>6, <2>1, <2>2
<1>8. <<OpportunityRow[q.id].state, status>> \in
        {e \in OpportunityStatus \X OpportunityStatus :
           e[1] = e[2] \/ e[2] \in OPPORTUNITY_TRANSITIONS[e[1]]}
  BY <1>1, <1>3, <1>4
<1>9. History!Advance(q.id)
  BY <1>3, <1>4, <1>5, <1>7, <1>8 DEF History!Advance
<1>. QED
  BY <1>1, <1>9

\* So is the insertion of an opportunity.
LEMMA CreateOpens ==
  ASSUME OpportunityInv, CreateOpportunity
  PROVE  \E o \in OpportunityIds : History!Open(o)
<1> DEFINE first == <<[action |-> "CREATED"]>>
<1>1. PICK t \in Tenants, o \in OpportunityIds \ DOMAIN opportunities :
        /\ opportunities' =
             With(opportunities, o, [tenant |-> t, status |-> "RESEARCHING",
                                     context |-> [f \in Fields |-> NoValue], version |-> 1])
        /\ audit' = With(audit, o, first)
  BY DEF CreateOpportunity
<1>2. DOMAIN audit = DOMAIN opportunities
  BY DEF OpportunityInv, TrailExplainsRow
<1>3. OpportunityRow' = History!With(OpportunityRow, o, [state |-> "RESEARCHING", version |-> 1])
  BY <1>1 DEF OpportunityRow, With, History!With
<1>4. Told(first) = <<"RESEARCHING">>
  <2>1. Len(first) = 1 /\ first[1].action # "STATUS_CHANGED"
    OBVIOUS
  <2> HIDE DEF first
  <2>2. \A n \in 1 .. 1 : StatusChanges(first, n) = {}
    BY <2>1 DEF StatusChanges
  <2>3. \A n \in 1 .. 1 : StatusAfter(first, n) = "RESEARCHING"
    BY <2>2 DEF StatusAfter
  <2>4. Told(first) = [n \in 1 .. 1 |-> "RESEARCHING"]
    BY <2>1, <2>3 DEF Told
  <2>. QED
    BY <2>4
<1>5. OpportunityHistory' = History!With(OpportunityHistory, o, <<"RESEARCHING">>)
  <2>1. /\ OpportunityHistory = [x \in DOMAIN audit |-> Told(audit[x])]
        /\ OpportunityHistory' = [x \in DOMAIN audit' |-> Told(audit'[x])]
    BY DEF OpportunityHistory, Told
  <2> HIDE DEF first
  <2>. QED
    BY <1>1, <1>2, <1>4, <2>1 DEF With, History!With
<1>6. History!Open(o)
  BY <1>1, <1>3, <1>5 DEF History!Open, OpportunityRow
<1>. QED
  BY <1>6

\* Every opportunity is a versioned aggregate: whatever requests race, fail or die,
\* it moves in single permitted steps, one version and one audit event each, and
\* replaying the status changes of its trail gives its status.
THEOREM OpportunitiesImplementHistory == Spec => VersionedOpportunities
<1>1. Init => History!Init
  BY DEF Init, History!Init, OpportunityRow, OpportunityHistory, EmptyTable, History!EmptyTable
<1>2. OpportunityInv /\ [Next]_vars => [History!Next]_(History!vars)
  <2> SUFFICES ASSUME OpportunityInv, [Next]_vars
               PROVE  [History!Next]_(History!vars)
    OBVIOUS
  <2>1. CASE CreateOpportunity
    BY <2>1, CreateOpens DEF History!Next
  <2>2. ASSUME NEW w \in Workers, At(w, "holding"),
               NEW status, NEW context, NEW event, Effect(w, status, context, event)
        PROVE  [History!Next]_(History!vars)
    BY <2>2, CommitAdvances DEF History!Next
  <2>3. CASE UNCHANGED db
    BY <2>3 DEF db, History!vars, OpportunityRow, OpportunityHistory
  <2>. QED
    BY <2>1, <2>2, <2>3, StepKinds
<1>. QED
  BY <1>1, <1>2, InvHolds, PTL DEF Spec, VersionedOpportunities, History!Spec

-----------------------------------------------------------------------------
(* What follows from being versioned.                                      *)

Accounted(r, h) ==
  /\ h \in Seq(AnyStates) /\ Len(h) >= 1
  /\ r \in Aggregate!Row
  /\ r.version + 1 = Len(h) + AnyFirst
  /\ r.state = h[Len(h)]
  /\ \A k \in 1 .. Len(h) - 1 : <<h[k], h[k + 1]>> \in AnyLegal

AggregateInv ==
  /\ Aggregate!HistoryAssumption
  /\ DOMAIN anyHistory = DOMAIN anyRow
  /\ \A i \in DOMAIN anyRow : Accounted(anyRow[i], anyHistory[i])

LEMMA OpenAccounted ==
  ASSUME AggregateInv, NEW i, Aggregate!Open(i)
  PROVE  AggregateInv'
<1>1. PICK s \in AnyInitial :
        /\ anyRow' = Aggregate!With(anyRow, i, [state |-> s, version |-> AnyFirst])
        /\ anyHistory' = Aggregate!With(anyHistory, i, <<s>>)
  BY DEF Aggregate!Open
<1>2. s \in AnyStates /\ AnyFirst \in Nat
  BY DEF AggregateInv, Aggregate!HistoryAssumption
<1>3. /\ DOMAIN anyRow' = DOMAIN anyRow \cup {i} /\ DOMAIN anyHistory' = DOMAIN anyRow'
      /\ anyRow'[i] = [state |-> s, version |-> AnyFirst] /\ anyHistory'[i] = <<s>>
      /\ \A x \in DOMAIN anyRow : x # i => anyRow'[x] = anyRow[x] /\ anyHistory'[x] = anyHistory[x]
  BY <1>1 DEF AggregateInv, Aggregate!With
<1>4. ASSUME NEW x \in DOMAIN anyRow' PROVE Accounted(anyRow'[x], anyHistory'[x])
  <2>1. CASE x # i
    BY <1>3, <2>1 DEF AggregateInv
  <2>2. CASE x = i
    <3>1. <<s>> \in Seq(AnyStates) /\ Len(<<s>>) = 1 /\ <<s>>[1] = s
      BY <1>2
    <3>2. [state |-> s, version |-> AnyFirst] \in Aggregate!Row
      BY <1>2 DEF Aggregate!Row
    <3>3. Accounted([state |-> s, version |-> AnyFirst], <<s>>)
      BY <1>2, <3>1, <3>2 DEF Accounted
    <3>. QED
      BY <1>3, <2>2, <3>3
  <2>. QED
    BY <2>1, <2>2
<1>. QED
  BY <1>3, <1>4 DEF AggregateInv

LEMMA AdvanceAccounted ==
  ASSUME AggregateInv, NEW i, Aggregate!Advance(i)
  PROVE  AggregateInv'
<1>1. PICK s \in AnyStates :
        /\ <<anyRow[i].state, s>> \in AnyLegal
        /\ anyRow' = [anyRow EXCEPT ![i] = [state |-> s, version |-> anyRow[i].version + 1]]
        /\ anyHistory' = [anyHistory EXCEPT ![i] = Append(anyHistory[i], s)]
  BY DEF Aggregate!Advance
<1> DEFINE h == anyHistory[i]
           n == Len(h)
<1>2. /\ i \in DOMAIN anyRow /\ i \in DOMAIN anyHistory
      /\ h \in Seq(AnyStates) /\ n \in Nat /\ n >= 1 /\ AnyFirst \in Nat
      /\ anyRow[i].version \in Nat /\ anyRow[i].version + 1 = n + AnyFirst /\ anyRow[i].state = h[n]
      /\ \A k \in 1 .. n - 1 : <<h[k], h[k + 1]>> \in AnyLegal
  BY DEF Aggregate!Advance, AggregateInv, Accounted, Aggregate!Row, Aggregate!HistoryAssumption
<1>3. /\ DOMAIN anyRow' = DOMAIN anyRow /\ DOMAIN anyHistory' = DOMAIN anyRow
      /\ anyRow'[i] = [state |-> s, version |-> anyRow[i].version + 1] /\ anyHistory'[i] = Append(h, s)
      /\ \A x \in DOMAIN anyRow : x # i => anyRow'[x] = anyRow[x] /\ anyHistory'[x] = anyHistory[x]
  BY <1>1, <1>2 DEF AggregateInv
<1>4. /\ Append(h, s) \in Seq(AnyStates) /\ Len(Append(h, s)) = n + 1
      /\ Append(h, s)[n + 1] = s
      /\ \A k \in 1 .. n : Append(h, s)[k] = h[k]
  BY <1>2
<1>5. ASSUME NEW k \in 1 .. n
      PROVE  <<Append(h, s)[k], Append(h, s)[k + 1]>> \in AnyLegal
  <2> HIDE DEF n
  <2>1. CASE k = n
    BY <1>1, <1>2, <1>4, <2>1
  <2>2. CASE k # n
    <3>1. k \in 1 .. n - 1 /\ k + 1 \in 1 .. n
      BY <1>2, <2>2
    <3>. QED
      BY <1>2, <1>4, <3>1
  <2>. QED
    BY <2>1, <2>2
<1>6. ASSUME NEW x \in DOMAIN anyRow' PROVE Accounted(anyRow'[x], anyHistory'[x])
  <2>1. CASE x # i
    BY <1>3, <2>1 DEF AggregateInv
  <2>2. CASE x = i
    <3> DEFINE new == [state |-> s, version |-> anyRow[i].version + 1]
               longer == Append(h, s)
    <3>1. new \in Aggregate!Row /\ new.version = anyRow[i].version + 1 /\ new.state = s
      BY <1>2 DEF Aggregate!Row
    <3>2. new.version + 1 = Len(longer) + AnyFirst /\ Len(longer) >= 1
      BY <1>2, <1>4, <3>1
    <3>3. \A k \in 1 .. Len(longer) - 1 : <<longer[k], longer[k + 1]>> \in AnyLegal
      <4>1. Len(longer) - 1 = n
        BY <1>2, <1>4
      <4>. QED
        BY <1>5, <4>1
    <3>4. longer[Len(longer)] = s /\ longer \in Seq(AnyStates)
      BY <1>4
    <3>5. Accounted(new, longer)
      <4> HIDE DEF new, longer
      <4>. QED
        BY <3>1, <3>2, <3>3, <3>4 DEF Accounted
    <3>. QED
      BY <1>3, <2>2, <3>5
  <2>. QED
    BY <2>1, <2>2
<1>. QED
  BY <1>3, <1>6 DEF AggregateInv

\* In every versioned aggregate the version counts the history, the history ends
\* in the current state, and each of its changes is a permitted one.
THEOREM HistoryAlwaysExplainsRow ==
  Aggregate!HistoryAssumption => (Aggregate!Spec => []Aggregate!HistoryExplainsRow)
<1>1. Aggregate!HistoryAssumption /\ Aggregate!Init => AggregateInv
  BY DEF Aggregate!Init, AggregateInv, Aggregate!EmptyTable
<1>2. AggregateInv /\ [Aggregate!Next]_(Aggregate!vars) => AggregateInv'
  <2> SUFFICES ASSUME AggregateInv, [Aggregate!Next]_(Aggregate!vars) PROVE AggregateInv'
    OBVIOUS
  <2>1. CASE UNCHANGED Aggregate!vars
    BY <2>1 DEF Aggregate!vars, AggregateInv, Accounted
  <2>2. ASSUME NEW i \in AnyIds, Aggregate!Open(i) PROVE AggregateInv'
    BY <2>2, OpenAccounted
  <2>3. ASSUME NEW i \in AnyIds, Aggregate!Advance(i) PROVE AggregateInv'
    BY <2>3, AdvanceAccounted
  <2>. QED
    BY <2>1, <2>2, <2>3 DEF Aggregate!Next
<1>3. AggregateInv => Aggregate!HistoryExplainsRow
  BY DEF AggregateInv, Accounted, Aggregate!HistoryExplainsRow
<1>. QED
  BY <1>1, <1>2, <1>3, PTL DEF Aggregate!Spec
=============================================================================
