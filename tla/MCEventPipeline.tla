--------------------------- MODULE MCEventPipeline ---------------------------
(***************************************************************************)
(* Small instances of EventPipeline.                                       *)
(***************************************************************************)
EXTENDS EventPipeline, TLC

CONSTANTS n1, n2       \* the nodes, as model values

SourceSymmetry == Permutations({n1, n2})
=============================================================================
