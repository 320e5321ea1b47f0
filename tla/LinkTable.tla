----------------------------- MODULE LinkTable -----------------------------
(***************************************************************************)
(* What the registry promises of blobs: a repository shows, under each     *)
(* digest linked in it, the content the digest names.  A blob appears in a *)
(* repository in one step, whole, and disappears in one step; while it is  *)
(* there its content does not change.                                      *)
(***************************************************************************)
EXTENDS Tables

CONSTANTS
    Repo,         \* repository ids
    Content,      \* what blobs hold
    DigestOf(_)   \* the digest of a content

VARIABLE table    \* <<repo, digest>> -> content

\* Content c is linked in repository p, or linked again.
Link(p, c) == table' = With(table, <<p, DigestOf(c)>>, c)

\* The link k is deleted.
Unlink(k) == table' = Without(table, k)

Init == table = Empty

\* A link that is there already is not seen to come again.
Next ==
    /\ table' # table
    /\ \/ \E p \in Repo, c \in Content : Link(p, c)
       \/ \E k \in DOMAIN table : Unlink(k)

Spec == Init /\ [][Next]_table
=============================================================================
