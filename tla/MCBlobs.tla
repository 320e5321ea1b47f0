------------------------------ MODULE MCBlobs ------------------------------
(* Small instances of Blobs for TLC. *)
EXTENDS Blobs, TLC

CONSTANTS c0, c2    \* an empty body and one of two bytes

MCSize == (c0 :> 0) @@ (c2 :> 2)

\* Inside the two bytes, beyond their end and at it, and end before start.
MCByteRange == {<<0, 0>>, <<1, 2>>, <<1, 0>>, <<2, NoEnd>>}

\* Slots and repositories are interchangeable.
Symmetry == Permutations(Request) \cup Permutations(Repo)

============================================================================
