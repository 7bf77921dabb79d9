--------------------------- MODULE MCDirectUpload ---------------------------
(* Small instances of DirectUpload for TLC. *)
EXTENDS DirectUpload, TLC

CONSTANT f0   \* the file that overwriting uploads replace

NoTarget     == [t \in Task |-> None]
SharedTarget == [t \in Task |-> f0]

\* Processes of one kind, and fresh files, are interchangeable.
Symmetry == Permutations(Req) \cup Permutations(Sweeper) \cup Permutations(Worker)
              \cup Permutations(File \ {f0})
=============================================================================
