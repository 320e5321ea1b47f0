------------------------------- MODULE Tables -------------------------------
(***************************************************************************)
(* A database table, or a directory of the file system, is a partial       *)
(* function from keys to rows (or to what a path names): a row exists when *)
(* its key is in the domain.                                               *)
(***************************************************************************)

\* f is a table with keys in K and rows in V.
IsTable(f, K, V) ==
    /\ f = [k \in DOMAIN f |-> f[k]]
    /\ DOMAIN f \subseteq K
    /\ \A k \in DOMAIN f : f[k] \in V

\* The empty table.
Empty == [k \in {} |-> k]

\* The table f after an upsert of row v at key k.
With(f, k, v) == [i \in DOMAIN f \cup {k} |-> IF i = k THEN v ELSE f[i]]

\* The table f after the delete of key k, which may be absent.
Without(f, k) == [i \in DOMAIN f \ {k} |-> f[i]]
=============================================================================
