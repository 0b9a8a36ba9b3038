---------------------------- MODULE MCVulnIndex ----------------------------
(* Two feeds and what they may say of two packages of one advisory.        *)
EXTENDS VulnIndex

rec(p, sev) == [cve |-> "cve", package |-> p, severity |-> sev]

MCSources == <<"ghsa", "nvd">>
MCAdvisories == <<"cve">>
MCChunks == [ghsa |-> {rec("a", "low"), rec("b", "low"), Bad}, nvd |-> {rec("a", "high")}]
=============================================================================
