--------------------------- MODULE ContainerProbes ---------------------------
(***************************************************************************)
(* The probes of the container image (src/codegenie/probes/layer_c): what  *)
(* the Dockerfiles say, what a traced run of the image does, the packages  *)
(* in it and their known vulnerabilities.  Each leaves a slice in          *)
(* context/raw, where the next one finds it, or that of an earlier gather. *)
(***************************************************************************)
EXTENDS IndexProbes

-----------------------------------------------------------------------------
(* _dockerfile_parse.py.  A line is [kind, name, form]: the name a FROM    *)
(* gives or a COPY takes from (0 for none), and the form of what an        *)
(* ENTRYPOINT or a CMD says.  The name 10 + i is the stage number i.       *)
IndexName(i) == 10 + i

NewStage(line) == [name |-> line.name, entrypoint |-> "absent", cmd |-> "absent"]
OpenStage(doc, line) == [doc EXCEPT !.stages = Append(@, NewStage(line))]

(* Only a stage before this one, by name or by number. *)
CopyResolved(doc, from) ==
    LET si == Len(doc.stages) IN
    \/ from = 0
    \/ \E j \in 1 .. si - 1 : doc.stages[j].name = from
    \/ from >= IndexName(0) /\ from < IndexName(si - 1)
InStage(doc, line) ==
    LET si == Len(doc.stages) IN
    CASE line.kind = "RUN" -> [doc EXCEPT !.runs = Append(@, si)]
      [] line.kind = "COPY" -> [doc EXCEPT !.copies = Append(@, << si, line.name, CopyResolved(doc, line.name) >>)]
      [] line.kind = "ENTRYPOINT" -> [doc EXCEPT !.stages[si].entrypoint = line.form]
      [] line.kind = "CMD" -> [doc EXCEPT !.stages[si].cmd = line.form]
      [] OTHER -> doc
ParseLine(doc, line) ==
    CASE line.kind = "FROM" -> OpenStage(doc, line)
      [] line.kind = "ARG" /\ doc.stages = <<>> -> [doc EXCEPT !.globals = @ + 1]
      [] OTHER -> IF doc.stages = <<>> THEN doc ELSE InStage(doc, line)
ParseDockerfile(lines) ==
    FoldLeft(ParseLine, [stages |-> <<>>, runs |-> <<>>, copies |-> <<>>, globals |-> 0], lines)

(* dockerfile.py: every file that is found, in the order of their paths. *)
DockerfileSlice(files) ==
    Output(<<>>, IF files = <<>> THEN << "marker_absent" >> ELSE <<>>, IF files = <<>> THEN "low" ELSE "high")
    @@ [dockerfiles |-> [k \in DOMAIN files |-> ParseDockerfile(files[k])]]

(* entrypoint.py and shell_usage.py read the slice of dockerfile.py; the   *)
(* first looks at every file that has stages, the second at the first one. *)
SummarizeEntrypoints(docs) ==
    LET staged == SelectSeq(docs, LAMBDA d : d.stages # <<>>)
        Bare(d) == Last(d.stages).entrypoint = "absent" /\ Last(d.stages).cmd = "absent"
    IN Output(<<>>, <<>>, IF \E k \in DOMAIN staged : Bare(staged[k]) THEN "low" ELSE "high")
       @@ [forms |-> [k \in DOMAIN staged |-> Last(staged[k].stages).entrypoint]]
BuildEvidence(docs) ==
    IF docs = <<>> \/ docs[1].stages = <<>>
    THEN [entrypoint |-> "absent", cmd |-> "absent", runs |-> <<>>]
    ELSE LET doc == docs[1] IN
         [entrypoint |-> Last(doc.stages).entrypoint, cmd |-> Last(doc.stages).cmd,
          runs |-> [k \in DOMAIN doc.runs |-> IF doc.runs[k] = Len(doc.stages) THEN "runtime" ELSE "build_time"]]

(* All three in one gather. *)
ReadDockerfiles(files) ==
    LET docs == DockerfileSlice(files).dockerfiles
    IN [docs |-> docs, entrypoints |-> SummarizeEntrypoints(docs), shell |-> BuildEvidence(docs)]

-----------------------------------------------------------------------------
(* runtime_trace.py.  A scenario is [name, times, build, run, shells,      *)
(* certs]: when the time for all of it runs out (never, during its build   *)
(* or during its run), how its build ends if it has to build the image,    *)
(* how its run does, and what the trace of that run shows.  Whatever the   *)
(* run exits with, the scenario is completed; a run that cannot be started *)
(* is told as a failed build.                                              *)
Completed(s) == [kind |-> "completed", startup |-> s.name = "startup", shells |-> s.shells, certs |-> s.certs]
Faulted(reason) == [kind |-> reason, startup |-> FALSE, shells |-> 0, certs |-> {}]

(* << result, whether the image is built, successful builds >> *)
ExecuteScenario(s, built) ==
    LET builds == IF ~built /\ s.build = "ok" THEN 1 ELSE 0
    IN CASE ~built /\ s.build # "ok" -> << Faulted("build_failed"), FALSE, builds >>
         [] s.run # "ok" /\ (built \/ s.build = "ok") -> << Faulted("build_failed"), TRUE, builds >>
         [] OTHER -> << Completed(s), TRUE, builds >>

(* A scenario cut off leaves the flag as it was before it. *)
RunScenario(acc, s) ==
    LET done == ExecuteScenario(s, acc.built) IN
    IF s.times = "never" THEN [acc EXCEPT !.results = Append(@, done[1]), !.built = done[2], !.builds = @ + done[3]]
    ELSE [acc EXCEPT !.results = Append(@, Faulted("timeout")), !.builds = @ + IF s.times = "run" THEN done[3] ELSE 0]
RunAllScenarios(scenarios, cut) ==
    LET acc == FoldLeft(RunScenario, [results |-> <<>>, built |-> FALSE, builds |-> 0], scenarios)
    IN IF cut THEN [acc EXCEPT !.results = [k \in DOMAIN scenarios |-> Faulted("timeout")]] ELSE acc

CompletedOf(results) == SelectSeq(results, LAMBDA t : t.kind = "completed")
TraceCoverage(results) ==
    LET done == CompletedOf(results) IN
    CASE done = <<>> -> "unavailable"
      [] Len(done) >= 5 -> "high"
      [] Len(done) = 1 -> IF done[1].startup THEN "low" ELSE "medium"
      [] OTHER -> "medium"
AllBuildFailures(results) == results # <<>> /\ \A k \in DOMAIN results : results[k].kind = "build_failed"

EmptyTrace(state) == [state |-> state, coverage |-> "unavailable", built |-> "none", traced |-> "none", shells |-> 0, certs |-> {}]
TraceSlice(results, digest) ==
    LET done == CompletedOf(results) IN
    [state |-> "read", coverage |-> TraceCoverage(results), built |-> digest, traced |-> digest,
     shells |-> FoldLeft(LAMBDA sum, t : sum + t.shells, 0, done), certs |-> UNION {t.certs : t \in ToSet(done)}]

(* A digest is "none" where the resolver is unbound, answers with nothing  *)
(* or raises, "not_hex" where it answers with no digest.  Every return     *)
(* leaves its slice in context/raw.                                        *)
RuntimeTrace(r) ==
    LET ran == IF r.linux /\ r.yaml # "malformed" /\ r.digest \notin {"none", "not_hex"} THEN RunAllScenarios(r.scenarios, r.cut)
               ELSE RunAllScenarios(<<>>, FALSE)
        Told(slice, warning) ==
            Output(<<>>, IF warning = "none" THEN <<>> ELSE << warning >>,
                   IF slice.coverage = "unavailable" THEN "low" ELSE slice.coverage)
            @@ [slice |-> slice, results |-> ran.results, builds |-> ran.builds]
    IN CASE r.yaml = "malformed" -> Told(EmptyTrace("read"), "scenarios_yaml_malformed")
         [] r.yaml # "malformed" /\ r.digest = "none" -> Told(EmptyTrace("read"), "image_digest_unresolved")
         [] r.yaml # "malformed" /\ r.digest = "not_hex" -> Escaped @@ [slice |-> EmptyTrace("stays")]
         [] OTHER -> IF ~r.linux THEN Told(EmptyTrace("read"), "platform_not_linux")
                     ELSE IF AllBuildFailures(ran.results) THEN Told(EmptyTrace("read"), "docker_build_failed_all")
                     ELSE Told(TraceSlice(ran.results, r.digest), "none")

TraceFreshness(slice) ==
    CASE slice.state = "absent" \/ slice.coverage = "unavailable" -> Stale("indexer_error", 0, 0)
      [] OTHER -> IF slice.built = "none" \/ slice.traced = "none" THEN Stale("indexer_error", 0, 0)
                  ELSE IF slice.traced # slice.built THEN Stale("digest_mismatch", 0, 0) ELSE Fresh

(* certificate.py; a certificate path is of the system, vendored or other. *)
CertificateSource(paths) ==
    CASE paths = {} -> "absent"
      [] paths # {} /\ "system" \in paths -> "ca-certificates"
      [] OTHER -> IF "vendored" \in paths THEN "vendored" ELSE "unknown"
Certificate(slice) ==
    IF slice.state = "absent" THEN [source |-> "absent", confidence |-> "unavailable"]
    ELSE [source |-> CertificateSource(slice.certs), confidence |-> "high"]
(* -1 where there is no count. *)
DynamicShells(slice) == IF slice.state = "absent" \/ slice.coverage = "unavailable" THEN -1 ELSE slice.shells

TraceAndReaders(r) ==
    LET trace == RuntimeTrace(r) IN
    IF trace.slice.state = "stays" THEN trace
    ELSE trace @@ [freshness |-> TraceFreshness(trace.slice), certificate |-> Certificate(trace.slice),
                   dynamic |-> DynamicShells(trace.slice)]

-----------------------------------------------------------------------------
(* sbom.py and cve.py.  A slice of theirs is [digest, kind, of]: of is the *)
(* image that the output of the tool is about.                             *)
NoScan == [digest |-> "none", kind |-> "none", of |-> "none"]
ClassifyImageScan(tool) ==
    CASE tool = "missing" -> Skipped("tool_missing")
      [] tool \in {"timeout", "nonzero"} -> Failed("exit_code")
      [] tool = "not_json" -> Failed("invalid_json")
      [] tool \in {"ok", "unwritten"} -> Ran

UpstreamImageTraced(slice) == IF slice.coverage = "high" THEN slice.built ELSE "none"     \* mutant: a partial trace is none
UpstreamImageDigest(slice) ==
    IF slice.state = "absent" \/ slice.coverage = "unavailable" THEN "none" ELSE slice.built

(* The slice is written, then the output; "unwritten" is a run whose       *)
(* output cannot be written, and whose slice is there already.             *)
Sbom(raw, tool) ==
    LET digest == UpstreamImageDigest(raw.trace)
        outcome == IF digest = "none" THEN Skipped("upstream_unavailable") ELSE ClassifyImageScan(tool)
    IN [raw EXCEPT !.sbom = [digest |-> digest, kind |-> outcome.kind, of |-> digest],
                   !.artifact = IF outcome = Ran /\ tool # "unwritten" THEN digest ELSE @]

UpstreamSbom(sbom) == sbom.kind = "ran"
Cve(raw, tool) ==
    LET outcome == CASE ~UpstreamSbom(raw.sbom) -> Skipped("upstream_unavailable")
                     [] UpstreamSbom(raw.sbom) /\ raw.artifact = "none" -> Failed("sbom_artifact_missing")
                     [] OTHER -> ClassifyImageScan(tool)
        digest == IF UpstreamSbom(raw.sbom) THEN raw.sbom.digest ELSE "none"
    IN [raw EXCEPT !.cve = [digest |-> digest, kind |-> outcome.kind, of |-> IF outcome = Ran THEN raw.artifact ELSE "none"]]

(* Both run last and are of one heaviness, so the order in which their     *)
(* modules are imported is the order in which they run: cve comes first,   *)
(* and what it reads is the sbom of the gather before.                     *)
ImageEntry(name, heavy, last) == [name |-> name, heavy |-> heavy, last |-> last, languages |-> {"*"}]
ImageEntries ==
    << ImageEntry("runtime_trace", 3, FALSE), ImageEntry("cve", 2, TRUE), ImageEntry("sbom", 2, TRUE) >>
ScanWith(name, raw, g) ==
    CASE name = "runtime_trace" -> IF g.trace.state = "stays" THEN raw ELSE [raw EXCEPT !.trace = g.trace]
      [] name = "cve" -> Cve(raw, g.grype)
      [] name = "sbom" -> Sbom(raw, g.syft)
ScanImage(raw, g) ==
    LET order == SortedForTask(ImageEntries, {})
        left[k \in 0 .. Len(order)] == IF k = 0 THEN raw ELSE ScanWith(order[k].name, left[k - 1], g)
    IN left[Len(order)]

(* What stands in context/raw after each gather. *)
ScanGathers(raw, gathers) ==
    LET left[k \in 0 .. Len(gathers)] == IF k = 0 THEN raw ELSE ScanImage(left[k - 1], gathers[k])
    IN [k \in 1 .. Len(gathers) |-> left[k]]
NothingScanned == [trace |-> EmptyTrace("absent"), sbom |-> NoScan, artifact |-> "none", cve |-> NoScan]

(* _cve_aggregation.py: severities are 0 (critical) to 4, anything else    *)
(* counts as 4; a match is [severity, package, id].                        *)
NormalizeSeverity(s) == IF s \in 0 .. 4 THEN s ELSE 4
FindingBefore(x, y) ==
    LET a == NormalizeSeverity(x.severity) b == NormalizeSeverity(y.severity) IN
    a < b \/ (a = b /\ (x.package < y.package \/ (x.package = y.package /\ x.id < y.id)))
TopFindings(matches, n) ==
    LET sorted == SortSeq(matches, FindingBefore)
    IN SubSeq(sorted, 1, IF Len(sorted) < n THEN Len(sorted) ELSE n)
=============================================================================
