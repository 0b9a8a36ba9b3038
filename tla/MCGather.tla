------------------------------ MODULE MCGather ------------------------------
(* Gather for TLC: a language detector, two Node probes, one of them       *)
(* filtered by language, and a runs_last probe.                            *)
EXTENDS Gather

CONSTANTS lang, manifest, tests, health

OneTail == <<health>>
=============================================================================
