----------------------------- MODULE MCRagStore -----------------------------
(* RagStore for TLC: one process with three harvests, another with one.      *)
EXTENDS RagStore, TLC

CONSTANTS r1, r2, r3, h1, h2, h3, h4, p1, p2

Hosts == h1 :> p1 @@ h2 :> p1 @@ h3 :> p1 @@ h4 :> p2

Symmetry == Permutations({r1, r2, r3}) \cup Permutations({h1, h2, h3})
=============================================================================
