-------------------------- MODULE VersionedHistory --------------------------
(***************************************************************************)
(* What the service promises about every aggregate it versions -- research *)
(* runs, opportunities, supplier identity claims: one command, one version,*)
(* one ledger entry.  Each aggregate has a current row and an append-only  *)
(* history.  A change is a single atomic step from the current row along   *)
(* the permitted relation; it raises the version by one and appends the    *)
(* new state.  Nothing is lost, rewritten or applied to a stale row.       *)
(***************************************************************************)
EXTENDS Naturals, Sequences, Tables

CONSTANTS Ids,       \* identifiers an aggregate may be given
          States,    \* states of an aggregate
          Initial,   \* states an aggregate may be opened in
          Legal,     \* the pairs <<s, t>> such that s may become t
          First      \* version of a newly opened aggregate

\* What an instance has to provide.
HistoryAssumption == First \in Nat /\ Initial \subseteq States

VARIABLES row,       \* identifier -> [state, version], for the aggregates opened
          history    \* identifier -> sequence of the states it has had

vars == <<row, history>>

Row == [state : States, version : Nat]

Init == row = EmptyTable /\ history = EmptyTable

Open(i) ==
  /\ i \notin DOMAIN row
  /\ \E s \in Initial :
       /\ row' = With(row, i, [state |-> s, version |-> First])
       /\ history' = With(history, i, <<s>>)

Advance(i) ==
  /\ i \in DOMAIN row
  /\ \E s \in States :
       /\ <<row[i].state, s>> \in Legal
       /\ row' = [row EXCEPT ![i] = [state |-> s, version |-> row[i].version + 1]]
       /\ history' = [history EXCEPT ![i] = Append(@, s)]

Next == \E i \in Ids : Open(i) \/ Advance(i)

Spec == Init /\ [][Next]_vars

-----------------------------------------------------------------------------
\* The row is the last entry of the history, the version counts the entries,
\* and neighbouring entries are joined by a permitted change: the audit trail of
\* an aggregate replays to the row that the service shows.
HistoryExplainsRow ==
  \A i \in DOMAIN row :
    LET h == history[i] IN
      /\ row[i].version + 1 = Len(h) + First
      /\ row[i].state = h[Len(h)]
      /\ \A k \in 1 .. Len(h) - 1 : <<h[k], h[k + 1]>> \in Legal
=============================================================================
