----------------------------- MODULE MCListener -----------------------------
(***************************************************************************)
(* A small instance of Listener: two versions that are accepted, one that  *)
(* is too old, and a node of another network.                              *)
(***************************************************************************)
EXTENDS Listener

Answer(v, n) == [version |-> v, network |-> n]

MCMetadata == {Answer(2, "own"), Answer(3, "own"), Answer(1, "own"), Answer(2, "other")}
=============================================================================
