------------------------ MODULE OpportunityLifecycle ------------------------
(***************************************************************************)
(* Opportunities as TradeRepository keeps them on PostgreSQL: lifecycle    *)
(* transitions and partial updates of the context (next action, deadline,  *)
(* notes) share one version and one audit trail, and are served            *)
(* concurrently.  A request waits for the row lock, checks the row it      *)
(* reads under it, and commits the columns it changed.                     *)
(***************************************************************************)
EXTENDS Workflow, Tables, Naturals, Sequences

CONSTANTS
  Tenants,
  OpportunityIds,   \* the uuids an opportunity may be given
  Workers,          \* requests in flight at a time
  Fields,           \* the context fields: next_action, deadline, notes
  Values,           \* normalized values of a field
  NoValue,          \* NULL, which clears a field
  Targets,          \* statuses clients ask for
  Versions          \* bound: the expected_version values clients send

ASSUME OpportunityAssumption ==
  /\ Targets \subseteq OpportunityStatus
  /\ Versions \subseteq Nat
  /\ NoValue \notin Values

VARIABLES
  opportunities,    \* table: id -> row of opportunities
  audit,            \* id -> its audit events, in order
  session           \* worker -> the request it serves

db == <<opportunities, audit>>
vars == <<db, session>>

-----------------------------------------------------------------------------
Value == Values \cup {NoValue}

Opportunity == [tenant : Tenants, status : OpportunityStatus,
                context : [Fields -> Value], version : Nat]

\* The fields a PATCH names, with their new values.
Changes == UNION {[names -> Value] : names \in SUBSET Fields}

\* CONTEXT_UPDATED records the names of the fields, never the values.
AuditEvent ==
       [action : {"CREATED"}]
  \cup [action : {"STATUS_CHANGED"}, from : OpportunityStatus, to : OpportunityStatus,
        version : Nat]
  \cup [action : {"CONTEXT_UPDATED"}, fields : SUBSET Fields, version : Nat]

TransitionRequest ==
  [op : {"transition"}, tenant : Tenants, id : OpportunityIds, target : Targets,
   expected : Versions]
ContextRequest ==
  [op : {"context"}, tenant : Tenants, id : OpportunityIds, changes : Changes,
   expected : Versions]
Request == TransitionRequest \cup ContextRequest

ErrorCode == {"NOT_FOUND", "VERSION_CONFLICT", "INVALID_TRANSITION", "INVALID_INPUT"}
Answer ==
  [code : {"OK"}, status : OpportunityStatus, context : [Fields -> Value], version : Nat]
    \cup [code : ErrorCode]

Session ==
       [pc : {"idle"}]
  \cup [pc : {"begun"}, req : Request]
  \cup [pc : {"holding"}, req : Request, row : Opportunity]
  \cup [pc : {"done"}, req : Request, answer : Answer]

TypeOK ==
  /\ IsTable(opportunities, OpportunityIds, Opportunity)
  /\ IsTable(audit, OpportunityIds, Seq(AuditEvent))
  /\ session \in [Workers -> Session]

-----------------------------------------------------------------------------
Idle == [pc |-> "idle"]

Init ==
  /\ opportunities = EmptyTable
  /\ audit = EmptyTable
  /\ session = [w \in Workers |-> Idle]

At(w, pc) == session[w].pc = pc
Error(code) == [code |-> code]
Goto(w, s) == session' = [session EXCEPT ![w] = s] /\ UNCHANGED db
Done(q, answer) == [pc |-> "done", req |-> q, answer |-> answer]

CreateOpportunity ==
  \E t \in Tenants, o \in OpportunityIds \ DOMAIN opportunities :
    /\ opportunities' =
         With(opportunities, o, [tenant |-> t, status |-> "RESEARCHING",
                                 context |-> [f \in Fields |-> NoValue], version |-> 1])
    /\ audit' = With(audit, o, <<[action |-> "CREATED"]>>)
    /\ UNCHANGED session

AskTransition(w) ==
  /\ At(w, "idle")
  /\ \E q \in TransitionRequest : Goto(w, [pc |-> "begun", req |-> q])

\* A PATCH that names no field is refused before a transaction is opened.
AskContext(w) ==
  /\ At(w, "idle")
  /\ \E q \in ContextRequest :
       Goto(w, IF DOMAIN q.changes = {} THEN Done(q, Error("INVALID_INPUT"))
                                        ELSE [pc |-> "begun", req |-> q])

-----------------------------------------------------------------------------
Visible(q) == q.id \in DOMAIN opportunities /\ opportunities[q.id].tenant = q.tenant

Locked(o) == \E v \in Workers : At(v, "holding") /\ session[v].req.id = o

\* Mutant: the transition table is not consulted.
VerdictOnVersion(q, row) == IF row.version # q.expected THEN "VERSION_CONFLICT" ELSE "OK"

Verdict(q, row) ==
  IF row.version # q.expected THEN "VERSION_CONFLICT"
  ELSE IF q.op = "transition" /\ q.target \notin OPPORTUNITY_TRANSITIONS[row.status]
       THEN "INVALID_TRANSITION"
  ELSE "OK"

\* Mutant: a plain SELECT, without FOR UPDATE.
LockOpportunityWithoutLock(w) ==
  /\ At(w, "begun")
  /\ LET q == session[w].req
         row == opportunities[q.id] IN
     \/ ~Visible(q) /\ Goto(w, Done(q, Error("NOT_FOUND")))
     \/ /\ Visible(q)
        /\ Goto(w, IF Verdict(q, row) = "OK" THEN [pc |-> "holding", req |-> q, row |-> row]
                                             ELSE Done(q, Error(Verdict(q, row))))

\* SELECT ... FOR UPDATE, and the checks made on the row under the lock.
LockOpportunity(w) ==
  /\ At(w, "begun")
  /\ LET q == session[w].req
         row == opportunities[q.id] IN
     \/ ~Visible(q) /\ Goto(w, Done(q, Error("NOT_FOUND")))
     \/ /\ Visible(q) /\ ~Locked(q.id)
        /\ Goto(w, IF Verdict(q, row) = "OK" THEN [pc |-> "holding", req |-> q, row |-> row]
                                             ELSE Done(q, Error(Verdict(q, row))))

\* The flush writes the columns the request changed, and the version it computed
\* from the row it read; the client is sent the object in memory.
Flush(w, status, context, event) ==
  LET q == session[w].req
      version == session[w].row.version + 1 IN
  /\ opportunities' = [opportunities EXCEPT
       ![q.id] = [@ EXCEPT !.status = status, !.context = context, !.version = version]]
  /\ audit' = [audit EXCEPT ![q.id] = Append(@, event)]
  /\ session' = [session EXCEPT
       ![w] = Done(q, [code |-> "OK", status |-> status, context |-> context,
                       version |-> version])]

\* Mutant: a stage change starts with a clean context.
CommitTransitionClearing(w) ==
  /\ At(w, "holding")
  /\ session[w].req.op = "transition"
  /\ LET q == session[w].req
         row == session[w].row IN
     Flush(w, q.target, [f \in Fields |-> NoValue],
           [action |-> "STATUS_CHANGED", from |-> row.status, to |-> q.target,
            version |-> row.version + 1])

CommitTransition(w) ==
  /\ At(w, "holding")
  /\ session[w].req.op = "transition"
  /\ LET q == session[w].req
         row == session[w].row IN
     Flush(w, q.target, row.context,
           [action |-> "STATUS_CHANGED", from |-> row.status, to |-> q.target,
            version |-> row.version + 1])

\* Mutant: a field that is not named is taken for one to be cleared.
CommitContextClearing(w) ==
  /\ At(w, "holding")
  /\ session[w].req.op = "context"
  /\ LET changes == session[w].req.changes
         row == session[w].row IN
     Flush(w, row.status,
           [f \in Fields |-> IF f \in DOMAIN changes THEN changes[f] ELSE NoValue],
           [action |-> "CONTEXT_UPDATED", fields |-> DOMAIN changes,
            version |-> row.version + 1])

CommitContext(w) ==
  /\ At(w, "holding")
  /\ session[w].req.op = "context"
  /\ LET changes == session[w].req.changes
         row == session[w].row IN
     Flush(w, row.status,
           [f \in Fields |-> IF f \in DOMAIN changes THEN changes[f] ELSE row.context[f]],
           [action |-> "CONTEXT_UPDATED", fields |-> DOMAIN changes,
            version |-> row.version + 1])

Deliver(w) == At(w, "done") /\ Goto(w, Idle)

\* The process or its connection dies: the transaction rolls back.
Crash(w) == ~At(w, "idle") /\ Goto(w, Idle)

Next ==
  \/ CreateOpportunity
  \/ \E w \in Workers :
       \/ AskTransition(w) \/ AskContext(w) \/ LockOpportunity(w)
       \/ CommitTransition(w) \/ CommitContext(w)
       \/ Deliver(w) \/ Crash(w)

Spec == Init /\ [][Next]_vars

-----------------------------------------------------------------------------
(* Properties.                                                             *)

DoneOK(w) == At(w, "done") /\ session[w].answer.code = "OK"

\* Two acknowledged requests never expected the same version: of the clients that
\* saw one version, whether they move the status or the context, one wins.
OneWinnerPerVersion ==
  \A v, w \in Workers :
    DoneOK(v) /\ DoneOK(w) /\ v # w /\ session[v].req.id = session[w].req.id
      => session[v].req.expected # session[w].req.expected

\* An acknowledged change is recorded at the version the client is told, and
\* stays in force until a later event of the trail names what it changed.
AcknowledgedStays ==
  \A w \in Workers : DoneOK(w) =>
    LET q == session[w].req
        answer == session[w].answer
        trail == audit[q.id]
        later == {trail[i] : i \in answer.version + 1 .. Len(trail)} IN
    /\ answer.version = q.expected + 1 /\ answer.version <= Len(trail)
    /\ q.op = "transition" =>
         /\ trail[answer.version].action = "STATUS_CHANGED"
         /\ trail[answer.version].to = q.target
         /\ (\A e \in later : e.action = "CONTEXT_UPDATED") => opportunities[q.id].status = q.target
    /\ q.op = "context" =>
         /\ trail[answer.version].action = "CONTEXT_UPDATED"
         /\ \A f \in DOMAIN q.changes :
              (\A e \in later : e.action = "CONTEXT_UPDATED" => f \notin e.fields)
                => opportunities[q.id].context[f] = q.changes[f]

\* The status as the audit trail tells it after its first n events.
StatusChanges(trail, n) == {i \in 1 .. n : trail[i].action = "STATUS_CHANGED"}
StatusAfter(trail, n) ==
  IF StatusChanges(trail, n) = {} THEN "RESEARCHING"
  ELSE trail[CHOOSE i \in StatusChanges(trail, n) :
               \A j \in StatusChanges(trail, n) : j <= i].to

\* Opportunities are versioned aggregates: replaying the status changes of the
\* audit trail gives the row; context updates leave the status where it is.
OpportunityRow ==
  [o \in DOMAIN opportunities |->
     [state |-> opportunities[o].status, version |-> opportunities[o].version]]
OpportunityHistory ==
  [o \in DOMAIN audit |-> [n \in 1 .. Len(audit[o]) |-> StatusAfter(audit[o], n)]]

History == INSTANCE VersionedHistory WITH
  Ids <- OpportunityIds, States <- OpportunityStatus, Initial <- {"RESEARCHING"},
  Legal <- {e \in OpportunityStatus \X OpportunityStatus :
              e[1] = e[2] \/ e[2] \in OPPORTUNITY_TRANSITIONS[e[1]]},
  First <- 1, row <- OpportunityRow, history <- OpportunityHistory

VersionedOpportunities == History!Spec

\* A step changes no more of an opportunity than the event it appends says: a
\* status change leaves the context alone, a context update the status and the
\* fields it does not name, and a finished opportunity is never reopened.
StepsTouchWhatTheyRecord ==
  [][\A o \in DOMAIN opportunities :
       LET old == opportunities[o]
           new == opportunities'[o]
           event == audit'[o][Len(audit'[o])] IN
       new # old =>
         /\ Len(audit'[o]) = Len(audit[o]) + 1
         /\ event.version = new.version
         /\ event.action = "STATUS_CHANGED" =>
              /\ new.context = old.context
              /\ old.status \notin {"WON", "LOST"}
              /\ event.from = old.status
         /\ event.action = "CONTEXT_UPDATED" =>
              /\ new.status = old.status
              /\ \A f \in Fields \ event.fields : new.context[f] = old.context[f]]_vars
=============================================================================
