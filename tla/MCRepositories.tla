--------------------------- MODULE MCRepositories ---------------------------
(* Small instances of Repositories for TLC. *)
EXTENDS Repositories

CONSTANTS t1, t2

MCName == 1..2

MCTag == 1..3

\* Two names of one tenant, and one of them of another.
MCWanted == {<<t1, 1>>, <<t1, 2>>, <<t2, 1>>}

\* The largest integer is 3.
MCLimit == {0, 1, 2, 3}
=============================================================================
