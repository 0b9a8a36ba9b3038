----------------------------- MODULE MCBundles -----------------------------
(* A builder with a chain whose second link has no adapter and one longer  *)
(* than the cap, and a builder with a chain of one link.                   *)
EXTENDS Bundles

MCBuilder == {"full", "small"}
MCQueries ==
    [full |-> <<[links |-> 2, missing |-> {1}], [links |-> 3, missing |-> {}]>>,
     small |-> <<[links |-> 1, missing |-> {}]>>]
=============================================================================
