--------------------------- MODULE MCStudioRuntime ---------------------------
(* TLC instances of StudioRuntime. *)
EXTENDS StudioRuntime, TLC

Symmetry == Permutations(Requests) \cup Permutations(Children)
              \cup Permutations(Tokens) \cup Permutations(Configs)
              \cup Permutations(Rows)
=============================================================================
