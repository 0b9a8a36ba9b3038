-------------------------------- MODULE Jail --------------------------------
(***************************************************************************)
(* How a tool is run: the chokepoint of the probes (src/codegenie/exec)    *)
(* and the jail of the remediation (src/codegenie/transforms/sandbox_jail  *)
(* and sandbox/): how a run is set up, what its end is called, what is     *)
(* left behind, and the seccomp filter the Linux adapter hands to bwrap.   *)
(***************************************************************************)
EXTENDS Integers, SequencesExt

JailedResults == {"completed", "timed_out", "oom_killed", "network_denied",
                  "disk_quota_exceeded", "jail_setup_failed"}
SetupReasons == {"binary-not-allowlisted", "bwrap-not-on-path", "cwd-missing",
                 "cap-net-admin-missing", "kernel-setup-failed"}

(* A network is DenyAll or a set of URLs, which may not be empty and are   *)
(* all https.                                                              *)
AllowlistError(urls) ==
    IF urls = {} THEN "registry_allowlist_empty"
    ELSE IF \E u \in urls : ~u.https THEN "registry_url_not_https"
    ELSE "ok"

SpecFits(spec) == spec.cmd # <<>> /\ spec.budget > 0 /\ spec.memory >= 1 /\ spec.pids >= 1

Ended(kind, detail) == [kind |-> kind, detail |-> detail]
SetupFailed(reason) == Ended("jail_setup_failed", reason)

-----------------------------------------------------------------------------
(* sandbox/_classify.py *)
ExceptionNames ==
    [probe_timeout |-> "timed_out", disallowed |-> "binary-not-allowlisted",
     tool_missing |-> "bwrap-not-on-path", no_cwd |-> "cwd-missing",
     permission |-> "cap-net-admin-missing", other |-> "kernel-setup-failed",
     cancelled |-> "kernel-setup-failed"]

(* Without an allowlist the first host of the command is the one denied;   *)
(* with one, the first host that is not on it.                             *)
FirstDeniedHost(hosts, allowed) ==
    LET k == SelectInSeq(hosts, LAMBDA h : h \notin allowed) IN IF k = 0 THEN "none" ELSE hosts[k]

Slack == 1    \* _TIMEOUT_SLACK_S, a tenth of a second

ClassifyKilled(run) ==
    IF run.elapsed >= run.budget - Slack THEN Ended("timed_out", "")
    ELSE IF run.oomKills > 0 \/ run.peak >= run.memory THEN Ended("oom_killed", "")
    ELSE Ended("completed", "killed")

ClassifyOutcome(run) ==
    LET denied == FirstDeniedHost(run.hosts, run.allowed) IN
    CASE run.raised = "probe_timeout" -> Ended("timed_out", "")
      [] run.raised \notin {"none", "probe_timeout"} -> SetupFailed(ExceptionNames[run.raised])
      [] run.raised = "none" /\ run.exit = "killed" -> ClassifyKilled(run)
      [] run.raised = "none" /\ run.exit = "error" /\ "network" \in run.stderr /\ denied # "none" ->
           Ended("network_denied", denied)
      [] run.raised = "none" /\ run.exit = "error" /\ ~("network" \in run.stderr /\ denied # "none")
           /\ "disk" \in run.stderr /\ run.quotaKnown -> Ended("disk_quota_exceeded", "")
      [] OTHER -> Ended("completed", run.exit)

-----------------------------------------------------------------------------
(* sandbox/_seccomp.py: a BPF program is a sequence of instructions; a     *)
(* comparison jumps by jt or jf past the next one.                         *)
LoadWord(field) == [op |-> "ld", field |-> field]
JumpIfEqual(k, jt, jf) == [op |-> "jeq", k |-> k, jt |-> jt, jf |-> jf]
Return(verdict) == [op |-> "ret", verdict |-> verdict]

(* Mutant: the jumps count from the instruction itself. *)
BuildFilterOffByOne(blocked) ==
    LET kill == Len(blocked) + 5
    IN << LoadWord("arch"), JumpIfEqual("x86_64", 0, kill - 2 - 1), LoadWord("nr") >>
       \o [i \in 1 .. Len(blocked) |-> JumpIfEqual(blocked[i], kill - (i + 3), 0)]
       \o << Return("allow"), Return("kill") >>

BuildFilter(blocked) ==
    LET kill == Len(blocked) + 5
    IN << LoadWord("arch"), JumpIfEqual("x86_64", 0, kill - 2 - 1), LoadWord("nr") >>
       \o [i \in 1 .. Len(blocked) |-> JumpIfEqual(blocked[i], kill - (i + 3) - 1, 0)]
       \o << Return("allow"), Return("kill") >>

(* The kernel runs the program on a system call: << accumulator, counter >> *)
(* until it returns; a jump out of the program is refused at load time.     *)
RunFilter(program, call) ==
    LET Advance(s) ==
          IF s.verdict # "none" THEN s
          ELSE IF s.pc > Len(program) THEN [s EXCEPT !.verdict = "out of the program"]
          ELSE LET insn == program[s.pc] IN
               CASE insn.op = "ld" -> [s EXCEPT !.acc = call[insn.field], !.pc = @ + 1]
                 [] insn.op = "jeq" -> [s EXCEPT !.pc = @ + 1 + (IF s.acc = insn.k THEN insn.jt ELSE insn.jf)]
                 [] insn.op = "ret" -> [s EXCEPT !.verdict = insn.verdict]
        after[n \in 0 .. Len(program)] ==
            IF n = 0 THEN [pc |-> 1, acc |-> "", verdict |-> "none"] ELSE Advance(after[n - 1])
    IN after[Len(program)].verdict

-----------------------------------------------------------------------------
(* BwrapAdapter.run and SandboxExecAdapter.run: set up, run, classify, and *)
(* in every case take away what was set up.  The run's signals are those   *)
(* of codegenie's own cgroup, and no adapter knows a disk quota.           *)
RanInJail(result, left) == [result |-> result, left |-> left]

RunBwrap(setup, run) ==
    CASE setup = "temp_write" -> RanInJail(SetupFailed("kernel-setup-failed"), {"seccomp"})
      [] setup = "netns_permission" -> RanInJail(SetupFailed("cap-net-admin-missing"), {})
      [] setup \in {"filter", "temp", "netns"} -> RanInJail(SetupFailed("kernel-setup-failed"), {})
      [] OTHER -> RanInJail(ClassifyOutcome([run EXCEPT !.quotaKnown = FALSE]), {})

(* The Seatbelt adapter renders one clause for each port of the allowlist, *)
(* for any host, and reads the denied host from the run's stderr.          *)
RenderAllowlistPorts(urls) == {u.port : u \in urls}
RenderProfile(urls, template) ==
    IF \E u \in urls : ~u.dns THEN "hostname_invalid"
    ELSE IF template.leftover THEN "placeholder_unresolved"
    ELSE "ok"

RunSandboxExec(setup, profile, run) ==
    CASE profile # "ok" -> RanInJail(SetupFailed("kernel-setup-failed"), {})
      [] profile = "ok" /\ setup = "temp" -> RanInJail(SetupFailed("kernel-setup-failed"), {})
      [] profile = "ok" /\ setup = "temp_write" -> RanInJail(SetupFailed("kernel-setup-failed"), {"profile"})
      [] profile = "ok" /\ setup = "ok" /\ run.raised = "none" /\ run.exit # "zero" /\ "setup" \in run.stderr ->
           RanInJail(SetupFailed("kernel-setup-failed"), {})
      [] profile = "ok" /\ setup = "ok" /\ run.raised = "none" /\ run.exit # "zero"
           /\ "setup" \notin run.stderr /\ "denied" \in run.stderr ->
           RanInJail(Ended("network_denied", "from stderr"), {})
      [] OTHER -> RanInJail(ClassifyOutcome([run EXCEPT !.quotaKnown = FALSE, !.oomKills = 0, !.peak = 0]), {})

SubstrateSupported(mac) == mac.darwin /\ mac.version # "unknown" => mac.major >= 14

-----------------------------------------------------------------------------
(* src/codegenie/exec: what a tool's environment may hold, which calls are *)
(* refused, wrapped or run as they are, how much output is kept.           *)
FilterEnv(extra) == [base |-> {"PATH", "HOME", "LANG", "LC_ALL"},
                     kept |-> {v \in extra : ~v.secretName /\ ~v.awsPrefix}]

CallRefused(call) ==
    CASE ~call.nameFits -> "value_error"
      [] call.nameFits /\ ~call.binaryAllowed -> "disallowed"
      [] call.nameFits /\ call.binaryAllowed /\ call.cwd # "dir" ->
           IF call.cwd = "absent" THEN "file_not_found" ELSE "not_a_directory"
      [] OTHER -> "no"

(* A wrapped call has a directory of its own, which goes away in the end;  *)
(* off Linux, or without bwrap, the call runs unwrapped, with the network. *)
WrapWithBwrap(host, egress) ==
    IF ~host.linux THEN [status |-> "skipped_not_linux", network |-> TRUE, tmpdirs |-> 0]
    ELSE IF ~host.bwrap THEN [status |-> "skipped_not_installed", network |-> TRUE, tmpdirs |-> 0]
    ELSE [status |-> "wrapped", network |-> egress # {}, tmpdirs |-> 1]

Marker == 17     \* len(b"...[TRUNCATED]...")

(* The length of what is kept: a slice [-0:] is the whole, and one with a  *)
(* negative bound leaves that much out at the front.                       *)
TruncateTail(len, cap) ==
    LET keep == cap - Marker IN
    IF len <= cap THEN len
    ELSE IF keep > 0 THEN Marker + keep
    ELSE IF len + keep > 0 THEN Marker + len + keep
    ELSE Marker

RunExternalCli(call, host, out) ==
    LET refused == CallRefused(call)  wrap == WrapWithBwrap(host, call.egress) IN
    IF refused # "no" THEN [result |-> refused, network |-> FALSE, out |-> 0]
    ELSE [result |-> wrap.status, network |-> wrap.network, out |-> TruncateTail(out, call.cap)]

(* tool_versions.py: the answer is kept for the process, "unknown" too; a  *)
(* timeout raises and keeps nothing.                                       *)
ResolveToolVersion(memo, outcome) ==
    LET found == IF outcome \in {"missing", "nonzero", "blank"} THEN "unknown" ELSE outcome IN
    IF memo # "none" THEN [answer |-> memo, memo |-> memo]
    ELSE IF outcome = "timeout" THEN [answer |-> "raised", memo |-> "none"]
    ELSE [answer |-> found, memo |-> found]

(* Called from a running loop, the sync form does not ask. *)
ResolveToolVersionSync(memo, inLoop, outcome) ==
    IF memo = "none" /\ inLoop THEN [answer |-> "unknown", memo |-> "none"]
    ELSE ResolveToolVersion(memo, outcome)
=============================================================================
