------------------------- MODULE MCUploadSessions -------------------------
(* Small instances of UploadSessions for TLC. *)
EXTENDS UploadSessions, TLC

\* Slots and UUIDs are interchangeable.
Symmetry == Permutations(Request) \cup Permutations(Upload)

============================================================================
