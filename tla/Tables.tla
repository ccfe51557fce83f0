------------------------------- MODULE Tables -------------------------------
(***************************************************************************)
(* A database table, as a function from the key of a row to the row.  The  *)
(* keys are the domain, so that a unique constraint is a test of           *)
(* membership in the domain and an insert enlarges it.                     *)
(***************************************************************************)

EmptyTable == [k \in {} |-> k]

IsTable(f, Keys, Rows) ==
  /\ f = [k \in DOMAIN f |-> f[k]]
  /\ DOMAIN f \subseteq Keys
  /\ \A k \in DOMAIN f : f[k] \in Rows

\* f with the row v under the key k, inserted or replaced.
With(f, k, v) == [x \in DOMAIN f \cup {k} |-> IF x = k THEN v ELSE f[x]]
=============================================================================
