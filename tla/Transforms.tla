----------------------------- MODULE Transforms -----------------------------
(***************************************************************************)
(* The decisions of the remediation kernel (src/codegenie/transforms):     *)
(* which recipe is taken, what the npm and the OpenRewrite engines leave   *)
(* in the repository, which lockfile is accepted, how signals are scored,  *)
(* how a report is written and read.                                       *)
(*                                                                         *)
(* A file that is read has a set of faults; the code meets them in one     *)
(* order, and answers for the first.                                       *)
(***************************************************************************)
EXTENDS Integers, SequencesExt

FirstFault(order, faults) ==
    LET k == SelectInSeq(order, LAMBDA f : f \in faults)
    IN IF k = 0 THEN "none" ELSE order[k]

NotApplicableReasons == {"PEER_DEP_CONFLICT", "MAJOR_BUMP_REFUSE", "OVERRIDES_AMBIGUOUS",
    "RECIPE_CATALOG_MISS", "ALL_RECIPES_NOT_APPLICABLE", "NO_RECIPES_REGISTERED",
    "CVE_NOT_IN_DEPENDENCY_SET"}
RecipeOutcomes == {"applied", "skipped", "not_applicable", "failed"}
RemediationOutcomes == {"validated", "requires_human_review", "not_applicable", "failed"}

-----------------------------------------------------------------------------
(* match_recipes: recipes are asked in the registry's order and the first  *)
(* that applies is taken; who refused before it is kept.                   *)
MatchedRecipe(verdicts, k) == [kind |-> "matched", recipe |-> k, considered |-> <<>>]
NotMatched(reason, considered) ==
    [kind |-> "not_applicable", recipe |-> 0, reason |-> reason, considered |-> considered]

MatchRecipes(verdicts) ==
    LET k == SelectInSeq(verdicts, LAMBDA v : v = "applies") IN
    IF verdicts = <<>> THEN NotMatched("NO_RECIPES_REGISTERED", <<>>)
    ELSE IF k = 0 THEN NotMatched("ALL_RECIPES_NOT_APPLICABLE", verdicts)
    ELSE MatchedRecipe(verdicts, k)

(* Recipe ids are checked against their grammar before anything is stored; *)
(* transforms and signal kinds are stored once.                            *)
ValidateRecipeId(id) == IF id.fits THEN "ok" ELSE "value_error"
RegisterTransform(registry, id) == IF id \in registry THEN "transform_already_registered" ELSE "ok"
RegisterSignalKind(kinds, k) == IF k \in kinds THEN "signal_kind_already_registered" ELSE "ok"

SignalKinds == {"build", "install", "tests", "lockfile_policy", "cve_delta"}

(* TrustScorer.score: every signal has to pass; an adapter of this         *)
(* workflow that ran degraded shows in the confidence, not in the verdict. *)
(* A signal is << kind, passed >>, an event << type, workflow >>.          *)
Score(kinds, signals, events, workflow) ==
    IF signals = <<>> THEN [kind |-> "empty_signals"]
    ELSE IF \E i \in DOMAIN signals : signals[i][1] \notin kinds THEN [kind |-> "unregistered_signal_kind"]
    ELSE LET failing == SelectSeq(signals, LAMBDA s : ~s[2])
         IN [kind |-> "scored", passed |-> failing = <<>>,
             failing |-> [i \in DOMAIN failing |-> failing[i][1]],
             confidence |-> IF \E e \in events : e = << "adapter_degraded", workflow >>
                            THEN "degraded" ELSE "high"]

-----------------------------------------------------------------------------
(* LockfilePolicy: the file is refused for the first thing wrong with it;  *)
(* evaluate compares origins, the scheme and host of what was resolved.    *)
PolicyFaults == << "file_missing", "yaml_syntax", "unknown_schema_version",
                   "schema_violation", "empty_allowlist", "invalid_registry_url" >>
LoadPolicy(faults) == FirstFault(PolicyFaults, faults)

(* What is not a mapping, or was not resolved from anywhere, is passed by. *)
EvaluatePolicy(allowed, packages) ==
    {p \in packages : p.resolved # "absent" /\ p.resolved \notin allowed}

-----------------------------------------------------------------------------
(* engines/npm_lockfile.py *)
PackageJsonFaults == << "unresolvable", "open_refused", "too_large", "not_json",
                        "not_object", "too_deep", "bad_name" >>
PackageLockFaults == << "unresolvable", "open_refused", "too_large", "not_json",
                        "not_object", "too_deep", "other_version" >>
Raises == {"open_refused", "not_json"}     \* not caught in the engine

PackageJsonErrors ==
    [unresolvable |-> "filesystem_race", too_large |-> "package_json_too_large",
     not_object |-> "adversarial_repo_content", too_deep |-> "package_json_depth_exceeded",
     bad_name |-> "adversarial_repo_content"]
PackageLockErrors ==
    [unresolvable |-> "filesystem_race", too_large |-> "lockfile_too_large",
     not_object |-> "adversarial_repo_content", too_deep |-> "lockfile_depth_exceeded",
     other_version |-> "lockfile_v1_unsupported"]
InstallErrors ==
    [nonzero |-> "npm_install_exit_nonzero", timed_out |-> "install_timeout",
     oom_killed |-> "install_oom", network_denied |-> "network_policy_violation",
     disk_quota_exceeded |-> "disk_quota_exceeded", jail_setup_failed |-> "jail_setup_failed"]

DepSections == << "dependencies", "devDependencies", "optionalDependencies", "overrides" >>

(* The first section that has the package is the one that is edited. *)
EditDepVersion(sections) ==
    LET s == FirstFault(DepSections, sections) IN IF s = "none" THEN {} ELSE {s}

(* What an application left: the outcome, which sections of package.json   *)
(* were rewritten, whether npm ran, whether a transform was registered.    *)
Left(kind, why, edited, ran) ==
    [kind |-> kind, why |-> why, edited |-> edited, ran |-> ran, registered |-> kind = "applied"]
Stopped(first, errors, edited, ran) ==
    IF first \in Raises THEN Left("raised", first, edited, ran)
    ELSE Left("failed", errors[first], edited, ran)

(* Mutant: the lockfile npm wrote is not looked at. *)
ApplyNpmUnparsed(repo, jail) ==
    LET pjson == FirstFault(PackageJsonFaults, repo.pjson)
        edited == EditDepVersion(repo.sections)
    IN IF ~repo.planned THEN Left("failed", "package_not_in_dependencies", {}, FALSE)
       ELSE IF pjson # "none" THEN Stopped(pjson, PackageJsonErrors, {}, FALSE)
       ELSE IF edited = {} THEN Left("failed", "package_not_in_dependencies", {}, FALSE)
       ELSE IF jail # "exit_0" THEN Left("failed", InstallErrors[jail], edited, TRUE)
       ELSE Left("applied", "", edited, TRUE)

ApplyNpm(repo, jail) ==
    LET pjson == FirstFault(PackageJsonFaults, repo.pjson)
        lock == FirstFault(PackageLockFaults, repo.lock)
        edited == EditDepVersion(repo.sections)
    IN IF ~repo.planned THEN Left("failed", "package_not_in_dependencies", {}, FALSE)
       ELSE IF pjson # "none" THEN Stopped(pjson, PackageJsonErrors, {}, FALSE)
       ELSE IF edited = {} THEN Left("failed", "package_not_in_dependencies", {}, FALSE)
       ELSE IF repo.write = "swapped" THEN Left("failed", "filesystem_race", {}, FALSE)
       ELSE IF repo.write = "refused" THEN Left("raised", "os_error", {}, FALSE)
       ELSE IF repo.before = "refused" THEN Left("raised", "os_error", edited, FALSE)
       ELSE IF jail # "exit_0" THEN Left("failed", InstallErrors[jail], edited, TRUE)
       ELSE IF lock # "none" THEN Stopped(lock, PackageLockErrors, edited, TRUE)
       ELSE IF repo.again THEN Left("raised", "transform_already_registered", edited, TRUE)
       ELSE Left("applied", "", edited, TRUE)

-----------------------------------------------------------------------------
(* engines/openrewrite.py: the recipe runs without a network, and a run    *)
(* that ended well is turned into a diff of two files of the repository,   *)
(* whatever the run wrote; a missing file or an empty diff raises.         *)
OpenRewriteErrors ==
    [nonzero |-> "openrewrite_nonzero_exit", timed_out |-> "jvm_timeout", oom_killed |-> "jvm_oom",
     network_denied |-> "network_policy_violation",
     disk_quota_exceeded |-> "disk_quota_exceeded", jail_setup_failed |-> "jail_setup_failed"]

BuildDockerfileTransform(files) ==
    IF "Dockerfile" \notin files.there \/ "expected.Dockerfile" \notin files.there THEN "file_not_found"
    ELSE IF files.same THEN "value_error"
    ELSE "ok"

ApplyOpenRewrite(files, jail) ==
    LET built == BuildDockerfileTransform(files) IN
    IF jail # "exit_0" THEN Left("failed", OpenRewriteErrors[jail], {}, TRUE)
    ELSE IF built # "ok" THEN Left("raised", built, {}, TRUE)
    ELSE IF files.again THEN Left("raised", "transform_already_registered", {}, TRUE)
    ELSE Left("applied", "", {}, TRUE)

-----------------------------------------------------------------------------
(* report.py *)
ReportFaults == << "symlink", "not_a_file", "absent", "swapped", "unreadable", "too_large",
                   "not_yaml", "other_version", "wrong_schema" >>
ReportErrors ==
    [symlink |-> "symlink_refused", not_a_file |-> "file_missing", absent |-> "file_missing",
     swapped |-> "symlink_refused", unreadable |-> "yaml_syntax", too_large |-> "size_cap_exceeded",
     not_yaml |-> "yaml_syntax", other_version |-> "unknown_schema_version",
     wrong_schema |-> "schema_violation", none |-> "ok"]
LoadReport(faults) == ReportErrors[FirstFault(ReportFaults, faults)]

ReportIoError(errno) ==
    CASE errno = "ENOSPC" -> "disk_full" [] errno = "EACCES" -> "permission_denied"
      [] errno = "ELOOP" -> "filesystem_race" [] OTHER -> "other_io_error"

(* The bytes go to a file of their own name beside the report, and replace *)
(* it in the end; a step that fails takes the file away.                   *)
ReportSteps == << "open", "write", "fsync", "replace" >>
WriteReport(w) ==
    LET failed == SelectInSeq(ReportSteps, LAMBDA s : s = w.fails) IN
    IF w.symlink THEN [result |-> "write_symlink_refused", dest |-> "old", temp |-> FALSE]
    ELSE IF failed = 0 THEN [result |-> "ok", dest |-> "new", temp |-> FALSE]
    ELSE [result |-> ReportIoError(w.errno), dest |-> "old", temp |-> failed > 1 /\ ~w.unlinks]

(* What a report may carry with an outcome. *)
ReportConsistent(outcome, transform, branch) ==
    IF outcome = "validated" THEN transform /\ branch ELSE ~branch

-----------------------------------------------------------------------------
(* repo_context.py *)
LoadDependencies(repo) ==
    LET bad == {i \in DOMAIN repo.values : repo.values[i] = {"not a table"}}
        names == UNION {repo.values[i] : i \in DOMAIN repo.values}
    IN IF repo.fault # "none" THEN repo.fault
       ELSE IF bad # {} THEN "schema_invalid"
       ELSE IF names = {} THEN "no_dependencies"
       ELSE "ok"

ResolveCve(records, dependencies) ==
    LET matches == SelectSeq(records, LAMBDA r : r.package \in dependencies) IN
    IF matches = <<>> THEN "not_in_repo"
    ELSE IF Len(matches) = 1 THEN "affects_repo"
    ELSE "affects_multiple"

(* apply_context.py: a summary of an earlier attempt is bounded and has no *)
(* control or bidi characters.                                             *)
AttemptSummary(s) == IF s.long \/ s.controls THEN "value_error" ELSE "ok"
=============================================================================
