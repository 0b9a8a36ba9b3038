---------------------------- MODULE DeployProbes ----------------------------
(***************************************************************************)
(* The probes that read how a repository is built and deployed             *)
(* (src/codegenie/probes/deployment.py and ci.py).                         *)
(***************************************************************************)
EXTENDS NodeProbes

(* safe_yaml's failures that both probes catch. *)
YamlFailures == {"size_cap_exceeded", "depth_cap_exceeded", "malformed", "symlink_refused"}

-----------------------------------------------------------------------------
(* deployment.py *)
DeploymentPrecedence == << "helm", "kustomize", "raw", "terraform" >>
SelectDeployment(found) ==
    LET present == SelectSeq(DeploymentPrecedence, LAMBDA t : t \in found)
    IN IF present = <<>> THEN << "none", <<>> >> ELSE << Head(present), Tail(present) >>

(* A raw manifest is one with a line that begins with "kind:", wherever it *)
(* stands below one of three directories.                                  *)
RawDirs == {"deploy", "k8s", "kubernetes"}
HasRaw(files) == \E f \in files : f.top \in RawDirs /\ f.kindLine

(* values-<env>.yaml names an environment; another name is told.           *)
EnvName(name) == << name.env, name.prefixed /\ name.env # "" >>
ImageRef(values) == IF values = "string" \/ values = "repository" \/ values = "repository_tag" THEN values ELSE "none"

ParseHelm(values) ==
    LET base == SelectSeq(values, LAMBDA v : v.base)
        envs == SelectSeq(values, LAMBDA v : ~v.base)
        read == SelectSeq(envs, LAMBDA v : v.read = "ok")
        failed == \E i \in DOMAIN values : values[i].read # "ok" /\ (values[i].base => values[i] = base[1])
        odd == \E i \in DOMAIN envs : ~EnvName(envs[i].name)[2]
        warnings == (IF failed THEN {"values_file_parse_error"} ELSE {})
                    \cup (IF odd THEN {"values_filename_unrecognized"} ELSE {})
                    \cup (IF values = <<>> THEN {"no_values_files"} ELSE {})
    IN [environments |-> {<< EnvName(read[i].name)[1], ImageRef(read[i].image) >> : i \in DOMAIN read},
        image |-> IF base # <<>> /\ base[1].read = "ok" THEN ImageRef(base[1].image) ELSE "none",
        warnings |-> warnings, demote |-> IF failed \/ values = <<>> THEN "low" ELSE "high"]

(* _walk_overlays, breadth first from the root's kustomization.  A node is *)
(* a file or a directory with a kustomization; a directory's resources are *)
(* those of its kustomization when that could be read.  A resource that is *)
(* met again counts against the cap and is not walked again.               *)
OverlayMaxDepth == 5
OverlayStart(root) == [pending |-> << <<root, 0>> >>, files |-> <<>>, visited |-> {}, count |-> 0, warnings |-> {}, done |-> FALSE]

VisitOverlay(nodes, w, n, depth, cap) ==
    CASE w.done -> w
      [] ~w.done /\ ~nodes[n].inside -> [w EXCEPT !.warnings = @ \cup {"resource_outside_repo"}]
      [] ~w.done /\ nodes[n].inside /\ w.count >= cap -> [w EXCEPT !.warnings = @ \cup {"file_cap_exceeded"}, !.done = TRUE]
      [] OTHER ->
           LET v == [w EXCEPT !.count = @ + 1, !.visited = @ \cup {n}] IN
           IF n \in w.visited THEN v
           ELSE IF nodes[n].kind = "kustomization" THEN [v EXCEPT !.pending = Append(@, << n, depth + 1 >>)]
           ELSE IF nodes[n].kind = "file" THEN [v EXCEPT !.files = Append(@, n)] ELSE v

DrainOverlay(nodes, w, cap) ==
    LET n == Head(w.pending)[1]
        depth == Head(w.pending)[2]
        rest == [w EXCEPT !.pending = Tail(@)]
    IN IF depth >= OverlayMaxDepth THEN [rest EXCEPT !.warnings = @ \cup {"depth_cap_exceeded"}]
       ELSE IF nodes[n].read # "ok" THEN rest
       ELSE FoldLeft(LAMBDA v, m : VisitOverlay(nodes, v, m, depth, cap), rest, nodes[n].resources)

(* A node is pending once, and the root perhaps once more. *)
WalkOverlays(nodes, cap) ==
    LET left[k \in 0 .. Len(nodes) + 1] ==
            IF k = 0 THEN OverlayStart(1)
            ELSE LET w == left[k - 1] IN IF w.pending = <<>> \/ w.done THEN w ELSE DrainOverlay(nodes, w, cap)
        w == left[Len(nodes) + 1]
    IN [files |-> w.files, warnings |-> w.warnings]

(* The workloads of the documents, in the order of the files; a file is    *)
(* read up to its first bad document.                                      *)
Workloads == {"Deployment", "StatefulSet", "DaemonSet", "Pod"}
WorkloadFragment(docs) ==
    LET workloads == SelectSeq(docs, LAMBDA d : d.kind \in Workloads)
        secured == SelectSeq(workloads, LAMBDA d : d.security # 0)
    IN [ports |-> UNION {workloads[i].ports : i \in DOMAIN workloads},
        env |-> UNION {workloads[i].env : i \in DOMAIN workloads},
        security |-> IF secured = <<>> THEN 0 ELSE secured[1].security]

ParseKustomize(nodes) ==
    LET w == WalkOverlays(nodes, 50)
    IN [outside |-> "resource_outside_repo" \in w.warnings, warnings |-> w.warnings,
        fragment |-> WorkloadFragment(FlattenSeq([i \in DOMAIN w.files |-> nodes[w.files[i]].docs])),
        demote |-> IF "resource_outside_repo" \in w.warnings THEN "low" ELSE "high"]

ParseRaw(docs) ==
    LET kinds == SelectSeq(docs, LAMBDA d : d.kind # "none")
        idle == kinds # <<>> /\ SelectSeq(kinds, LAMBDA d : d.kind \in Workloads) = <<>>
    IN [fragment |-> WorkloadFragment(kinds), warnings |-> IF idle THEN {"raw_no_workloads"} ELSE {},
        demote |-> IF idle THEN "low" ELSE "high"]
ParseTerraform(files) == [files |-> files, warnings |-> {"paths_only"}, demote |-> "low"]

Deployment(r) ==
    LET chosen == SelectDeployment(r.found)
        parsed == CASE chosen[1] = "helm" -> ParseHelm(r.values)
                    [] chosen[1] = "kustomize" -> ParseKustomize(r.nodes)
                    [] chosen[1] = "raw" -> ParseRaw(r.docs)
                    [] chosen[1] = "terraform" -> ParseTerraform(r.tf)
                    [] chosen[1] = "none" -> [warnings |-> {}, demote |-> "high"]
        several == chosen[2] # <<>>
    IN [type |-> chosen[1],
        terraform |-> IF "terraform" \in r.found THEN r.tf ELSE {},
        warnings |-> parsed.warnings \cup (IF several THEN {"multi_type"} ELSE {}),
        confidence |-> Demote(parsed.demote, IF several THEN "low" ELSE "high")]

-----------------------------------------------------------------------------
(* ci.py *)
ProviderPrecedence == << "github_actions", "gitlab_ci", "circleci", "jenkins", "azure_pipelines" >>
SelectProvider(found) ==
    LET present == SelectSeq(ProviderPrecedence, LAMBDA p : p \in found)
    IN IF present = <<>> THEN << "none", <<>> >> ELSE << Head(present), Tail(present) >>

Parsed(files, runs, uses, secrets, warnings, errors, confidence) ==
    [files |-> files, runs |-> runs, uses |-> uses, secrets |-> secrets, warnings |-> warnings,
     errors |-> errors, confidence |-> confidence]
Nothing == Parsed({}, <<>>, <<>>, {}, {}, {}, "high")

(* A workflow is [name, read, runs, uses, secrets].  One of GitHub's that  *)
(* cannot be read is told, and costs no confidence.                        *)
ParseGithub(workflows) ==
    LET read == SelectSeq(workflows, LAMBDA w : w.read = "ok")
        bad == {workflows[i].name : i \in {j \in DOMAIN workflows : workflows[j].read \in YamlFailures}}
        uses == FlattenSeq([i \in DOMAIN read |-> read[i].uses])
    IN IF workflows = <<>> THEN [Nothing EXCEPT !.warnings = {"empty_workflows_dir"}, !.confidence = "low"]
       ELSE Parsed({read[i].name : i \in DOMAIN read}, FlattenSeq([i \in DOMAIN read |-> read[i].runs]), uses,
                   UNION {read[i].secrets : i \in DOMAIN read},
                   (IF bad = {} THEN {} ELSE {"workflow_parse_error"})
                   \cup (IF Contains(uses, "./local") THEN {"local_action_unparsed"} ELSE {}), bad, "high")
ParseGitlab(w) ==
    IF w.read # "ok" THEN [Nothing EXCEPT !.warnings = {"gitlab_ci_parse_error"}, !.errors = {w.name}, !.confidence = "low"]
    ELSE Parsed({w.name}, w.runs, <<>>, w.secrets, {}, {}, "high")
ParseJenkinsfile(w) ==
    Parsed({w.name}, IF w.read = "ok" THEN w.runs ELSE <<>>, <<>>, {}, {"jenkinsfile_regex_only"}, {}, "low")
PresenceOnly(warning) == [Nothing EXCEPT !.warnings = {warning}, !.confidence = "low"]
ParseProvider(r, p) ==
    CASE p = "github_actions" -> ParseGithub(r.workflows)
      [] p = "gitlab_ci" -> ParseGitlab(r.pipeline)
      [] p = "jenkins" -> ParseJenkinsfile(r.pipeline)
      [] p = "circleci" -> PresenceOnly("circleci_presence_only")
      [] p = "azure_pipelines" -> PresenceOnly("azure_pipelines_presence_only")

(* The first marker, in its stream, that some entry has; for tests the     *)
(* first entry that has any.                                               *)
ImageBuildMarkers == << << "docker build", "run" >>, << "docker buildx", "run" >>, << "docker/build-push-action", "uses" >> >>
DetectImageBuild(runs, uses) ==
    LET k == SelectInSeq(ImageBuildMarkers, LAMBDA m : Contains(IF m[2] = "run" THEN runs ELSE uses, m[1]))
    IN IF k = 0 THEN "none" ELSE ImageBuildMarkers[k][1]
FirstMarkerMatch(entries, markers) ==
    LET k == SelectInSeq(entries, LAMBDA e : e \in markers) IN IF k = 0 THEN "none" ELSE entries[k]
UnitTestMarkers == {"npm test", "npm run test", "vitest", "jest", "pytest", "go test"}
SmokeTestMarkers == {"npm run smoke", "scripts/smoke", "smoke.sh", "smoke.js", "smoke.ts"}

ContinuousIntegration(r) ==
    LET chosen == SelectProvider(r.found)
        present == IF chosen[1] = "none" THEN <<>> ELSE << chosen[1] >> \o chosen[2]
        outcomes == [i \in DOMAIN present |-> ParseProvider(r, present[i])]
        runs == FlattenSeq([i \in DOMAIN outcomes |-> outcomes[i].runs])
        uses == FlattenSeq([i \in DOMAIN outcomes |-> outcomes[i].uses])
        unit == FirstMarkerMatch(runs, UnitTestMarkers)
        multi == IF Len(present) > 1 THEN {"multi_provider"} ELSE {}
    IN [provider |-> chosen[1], additional |-> chosen[2], image |-> DetectImageBuild(runs, uses),
        unit |-> IF unit = "none" /\ chosen[1] = "jenkins" /\ runs # <<>> THEN Head(runs) ELSE unit,
        smoke |-> FirstMarkerMatch(runs, SmokeTestMarkers),
        files |-> UNION {outcomes[i].files : i \in DOMAIN outcomes},
        errors |-> UNION {outcomes[i].errors : i \in DOMAIN outcomes},
        secrets |-> UNION {outcomes[i].secrets : i \in DOMAIN outcomes},
        warnings |-> multi \cup UNION {outcomes[i].warnings : i \in DOMAIN outcomes},
        confidence |-> FoldLeft(LAMBDA c, o : Demote(c, o.confidence), IF multi = {} THEN "high" ELSE "low", outcomes),
        raw |-> (chosen[1] # "none" \/ \E i \in DOMAIN outcomes : outcomes[i].errors # {}) /\ r.writes]
=============================================================================
