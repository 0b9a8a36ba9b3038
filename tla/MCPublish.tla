----------------------------- MODULE MCPublish -----------------------------
(* Two processes, three gathers, a probe that stages its raw file in       *)
(* context/raw and answers in every way, and one that stages it elsewhere  *)
(* and is skipped or runs.                                                 *)
EXTENDS Publish, TLC
CONSTANTS p1, p2
MCAnswers == p1 :> {"skipped", "ran"} @@ p2 :> {"skipped", "failed", "ran", "hit"}
Symmetry == Permutations(Gather)
=============================================================================
