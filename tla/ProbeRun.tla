------------------------------ MODULE ProbeRun ------------------------------
(***************************************************************************)
(* How one gather runs its probes side by side on one event loop:          *)
(* coordinator._run_probe_with_isolation bounds each probe with a timeout, *)
(* and the probe's external tools go through exec.run_allowlisted, which   *)
(* keeps the live children in the table _RUNNING_PROCS.                    *)
(*                                                                         *)
(* A probe has at most one tool running, so children and their entries in  *)
(* the table are named by their probe.  The names are not those of Gather, *)
(* so that one module can extend both.                                     *)
(***************************************************************************)
EXTENDS Naturals, FiniteSets

CONSTANTS Dispatched,   \* the probes that gather dispatched
          MaxSpawns     \* bound on the tools one probe calls

ASSUME MaxSpawnsAssumption == MaxSpawns \in Nat

VARIABLES
    step,       \* where each probe's run is
    child,      \* the last child of each probe
    table,      \* _RUNNING_PROCS: the probes whose child is registered
    calls,      \* how the calls of run_allowlisted of a probe ended
    spawns,     \* children started for a probe
    outcome     \* what _run_probe_with_isolation made of the run

runVars == <<step, child, table, calls, spawns, outcome>>

(* What a call of run_allowlisted gives the probe: the exit status of a    *)
(* child that ended by itself, that of a child somebody else killed, or an *)
(* exception.                                                              *)
CallEnd == {"status", "killed", "ProbeTimeoutError", "ProcessLookupError"}

RunInit ==
    /\ step = [p \in Dispatched |-> "ready"]
    /\ child = [p \in Dispatched |-> "none"]
    /\ table = {}
    /\ calls = [p \in Dispatched |-> {}]
    /\ spawns = [p \in Dispatched |-> 0]
    /\ outcome = [p \in Dispatched |-> "none"]

-----------------------------------------------------------------------------
(* exec.run_allowlisted                                                    *)

Start(p) ==
    /\ step[p] = "ready"
    /\ step' = [step EXCEPT ![p] = "running"]
    /\ UNCHANGED <<child, table, calls, spawns, outcome>>

Spawn(p) ==
    /\ step[p] = "running"
    /\ spawns[p] < MaxSpawns
    /\ child' = [child EXCEPT ![p] = "live"]
    /\ table' = table \cup {p}
    /\ spawns' = [spawns EXCEPT ![p] = @ + 1]
    /\ step' = [step EXCEPT ![p] = "communicate"]
    /\ UNCHANGED <<calls, outcome>>

(* The operating system's part.                                            *)
ChildExits(p) ==
    /\ child[p] = "live"
    /\ child' = [child EXCEPT ![p] = "exited"]
    /\ UNCHANGED <<step, table, calls, spawns, outcome>>

(* A call ends, normally or not: its `finally' takes the child off the     *)
(* table.                                                                  *)
EndCall(p, end) ==
    /\ table' = table \ {p}
    /\ calls' = [calls EXCEPT ![p] = @ \cup {end}]
    /\ step' = [step EXCEPT ![p] = "running"]

Collect(p) ==
    /\ step[p] = "communicate"
    /\ child[p] # "live"
    /\ EndCall(p, IF child[p] = "killed" THEN "killed" ELSE "status")
    /\ UNCHANGED <<child, spawns, outcome>>

(* timeout_s has passed: SIGTERM, and a grace period in which the child    *)
(* may exit.                                                               *)
CallTimeout(p) ==
    /\ step[p] = "communicate"
    /\ step' = [step EXCEPT ![p] = "terminate"]
    /\ UNCHANGED <<child, table, calls, spawns, outcome>>

(* Mutant: SIGTERM is thought to be enough.                                *)
CallKillNoKill(p) ==
    /\ step[p] = "terminate"
    /\ \E end \in {"ProbeTimeoutError", "ProcessLookupError"} :
          /\ end = "ProcessLookupError" => child[p] # "live"
          /\ EndCall(p, end)
    /\ UNCHANGED <<child, spawns, outcome>>

(* _escalate_and_kill after the grace: kill() on a process that asyncio    *)
(* has already reaped raises ProcessLookupError; while its pipes are still *)
(* held open by a grandchild it has no effect.                             *)
CallKill(p) ==
    /\ step[p] = "terminate"
    /\ IF child[p] = "live"
       THEN /\ child' = [child EXCEPT ![p] = "killed"]
            /\ EndCall(p, "ProbeTimeoutError")
       ELSE /\ \E end \in {"ProbeTimeoutError", "ProcessLookupError"} :
                  EndCall(p, end)
            /\ UNCHANGED child
    /\ UNCHANGED <<spawns, outcome>>

-----------------------------------------------------------------------------
(* coordinator._run_probe_with_isolation                                   *)

(* The probe returns an output, with or without errors, or raises: it sees *)
(* how its calls ended and is free to shrug it off.                        *)
Finish(p) ==
    /\ step[p] = "running"
    /\ \E o \in {"clean", "errors"} : outcome' = [outcome EXCEPT ![p] = o]
    /\ step' = [step EXCEPT ![p] = "done"]
    /\ UNCHANGED <<child, table, calls, spawns>>

(* Mutant: a probe that waits for a tool is left to the tool's timeout.    *)
TimeoutOnlyRunning(p) ==
    /\ step[p] = "running"
    /\ step' = [step EXCEPT ![p] = "grace"]
    /\ UNCHANGED <<child, table, calls, spawns, outcome>>

(* wait_for expires and cancels the probe wherever it is; the cancellation *)
(* unwinds run_allowlisted, whose `finally' takes the child off the table. *)
Timeout(p) ==
    /\ step[p] \in {"running", "communicate", "terminate"}
    /\ table' = table \ {p}
    /\ step' = [step EXCEPT ![p] = "grace"]
    /\ UNCHANGED <<child, calls, spawns, outcome>>

(* After the grace, _kill_tracked_subprocesses: every registered child     *)
(* that still lives, whichever probe started it.                           *)
Sweep(p) ==
    /\ step[p] = "grace"
    /\ child' = [q \in Dispatched |-> IF q \in table /\ child[q] = "live"
                                 THEN "killed" ELSE child[q]]
    /\ outcome' = [outcome EXCEPT ![p] = "timeout"]
    /\ step' = [step EXCEPT ![p] = "done"]
    /\ UNCHANGED <<table, calls, spawns>>

-----------------------------------------------------------------------------
Run(p) == \/ Start(p) \/ Spawn(p) \/ Collect(p) \/ Finish(p)
          \/ CallTimeout(p) \/ CallKill(p) \/ Timeout(p) \/ Sweep(p)

(* Every outcome of gather is in: nothing is left to happen.               *)
AllDone == \A p \in Dispatched : step[p] = "done"

Finished == AllDone /\ UNCHANGED runVars

RunNext == Finished \/ \E p \in Dispatched : Run(p) \/ ChildExits(p)

(* The event loop runs what is ready and its timers fire.  Nothing makes a *)
(* child exit, a probe return or a call time out in time: the coordinator's*)
(* own timer is the only promise.                                          *)
RunFairness ==
    \A p \in Dispatched :
        WF_runVars(Start(p)) /\ WF_runVars(Timeout(p)) /\ WF_runVars(Sweep(p))

RunSpec == RunInit /\ [][RunNext]_runVars /\ RunFairness

-----------------------------------------------------------------------------
RunTypeOK ==
    /\ step \in [Dispatched -> {"ready", "running", "communicate", "terminate",
                         "grace", "done"}]
    /\ child \in [Dispatched -> {"none", "live", "exited", "killed"}]
    /\ table \subseteq Dispatched
    /\ calls \in [Dispatched -> SUBSET CallEnd]
    /\ spawns \in [Dispatched -> 0 .. MaxSpawns]
    /\ outcome \in [Dispatched -> {"none", "clean", "errors", "timeout"}]

(* `The wrapper pops on every exit so the table stays accurate' (exec):    *)
(* the table names exactly the children some call is waiting for, so a     *)
(* sweep can only reach those.                                             *)
TableAccurate == table = {p \in Dispatched : step[p] \in {"communicate", "terminate"}}

(* A call that came back to its probe, with a status or with an exception, *)
(* left no child behind: a child can outlive its call only when the        *)
(* coordinator cancelled the probe (_escalate_and_kill).                   *)
ReturnedCallsLeaveNoChild ==
    \A p \in Dispatched : step[p] = "running" \/ outcome[p] \in {"clean", "errors"} =>
        child[p] # "live"

(* Whatever its tools do, and though its siblings' sweeps hit its          *)
(* children, every probe gets an outcome: gather is never held up by a     *)
(* tool that hangs (_run_probe_with_isolation).                            *)
EveryRunEnds == \A p \in Dispatched : <>[](outcome[p] # "none")

(* ADR-0012: cancelling a probe on its timeout and killing the tracked     *)
(* children `prevents zombie subprocesses on probe timeout': no child is   *)
(* alive once its probe's outcome is in.                                   *)
NoChildOutlivesProbe ==
    \A p \in Dispatched : outcome[p] # "none" => child[p] # "live"

(* ADR-0005's failure isolation, and `cache.put only for clean successes': *)
(* a run that ends clean did not lose a tool to a sibling's timeout.       *)
CleanMeansUndisturbed ==
    \A p \in Dispatched : outcome[p] = "clean" => "killed" \notin calls[p]

=============================================================================
