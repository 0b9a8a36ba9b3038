----------------------------- MODULE IndexProbes -----------------------------
(***************************************************************************)
(* The probes that index the source files (src/codegenie/probes/layer_b)   *)
(* and the scanners that read them with an external tool (layer_g), each   *)
(* leaving a slice in context/raw, and index_health, which runs after them *)
(* and says of every index whether it is fresh.  Picked is Retrieval's.    *)
(***************************************************************************)
EXTENDS NodeProbes, Retrieval

-----------------------------------------------------------------------------
(* probes/registry.py.  An entry is [name, heavy, last, languages]; the    *)
(* registry refuses a second one of a name, and dispatch takes the heavy   *)
(* ones first, those that run last after all others.                       *)
RegisterProbe(entries, e) ==
    IF \E k \in DOMAIN entries : entries[k].name = e.name THEN entries ELSE Append(entries, e)

ByHeaviness(entries, last) ==
    LET Heavy(h) == Picked(entries, {k \in DOMAIN entries : entries[k].last = last /\ entries[k].heavy = h})
    IN Heavy(3) \o Heavy(2) \o Heavy(1)
SortEntries(entries) == ByHeaviness(entries, FALSE) \o ByHeaviness(entries, TRUE)
SortedForTask(entries, languages) ==
    SortEntries(Picked(entries, {k \in DOMAIN entries : AdmitsLanguages(entries[k].languages, languages)}))

-----------------------------------------------------------------------------
(* indices/freshness.py and layer_b/index_health.py.  A commit behind has  *)
(* its count in n, a gap in the coverage n files of all.                   *)
Fresh == [kind |-> "fresh", reason |-> "none", n |-> 0, all |-> 0]
Stale(reason, n, all) == [kind |-> "stale", reason |-> reason, n |-> n, all |-> all]

(* The slice of scip: read, absent or malformed. *)
NoSlice(state) == [state |-> state, commit |-> "none", indexed |-> 0, files |-> 0, errors |-> 0]
ScipFreshness(slice, head) ==
    CASE slice.state \in {"absent", "malformed"} -> Stale("indexer_error", 0, 0)
      [] OTHER -> IF slice.commit # head THEN Stale("commits_behind", 1, 0)
                  ELSE IF slice.indexed < slice.files THEN Stale("coverage_gap", slice.indexed, slice.files)
                  ELSE IF slice.errors > 0 THEN Stale("indexer_error", 0, 0)
                  ELSE Fresh

(* A version is looked for beside its expectation, then in the slice of    *)
(* the scanner's name inside; 0 for none.                                  *)
ExtractVersionPair(slice) ==
    [k \in {"observed", "expected"} |-> IF slice.own[k] # 0 THEN slice.own[k] ELSE slice.inner[k]]
CompareVersions(slice) ==
    LET pair == ExtractVersionPair(slice)
    IN IF pair["observed"] # 0 /\ pair["expected"] # 0 /\ pair["observed"] # pair["expected"]
       THEN Stale("digest_mismatch", 0, 0) ELSE Fresh
(* What a scanner wrote the time before, in its own slice or inside it. *)
LoadPriorValue(file, key) ==
    IF file.read # "ok" THEN 0 ELSE IF file.own[key] # 0 THEN file.own[key] ELSE file.inner[key]

(* A slice is what stands in a file of its name, if that reads as an       *)
(* object; a file that does not is as one that is not there.               *)
ReadRawSlice(file) == IF file.read # "ok" THEN NoSlice("absent") ELSE file.slice

DeriveHealth(f) ==
    CASE f.kind = "fresh" -> "high"
      [] f.reason = "coverage_gap" -> IF f.all > 0 /\ f.n * 100 >= 90 * f.all THEN "medium" ELSE "low"
      [] f.reason \in {"commits_behind", "digest_mismatch"} -> "medium"
      [] f.reason = "indexer_error" -> "low"
DemoteMin(confidences) ==
    IF confidences = {} THEN "high" ELSE CHOOSE c \in confidences : \A d \in confidences : Rank[c] <= Rank[d]

(* A check that raises is a stale source of its own; the others stand. *)
Check(source, head) ==
    CASE source.check = "raises" -> Stale("indexer_error", 0, 0)
      [] source.check = "scip" -> ScipFreshness(ReadRawSlice(source.file), head)
      [] source.check = "version" -> CompareVersions(source.file)

HealthTold(o, freshness) ==
    [kind |-> o.kind, errors |-> o.errors, warnings |-> o.warnings, confidence |-> o.confidence, freshness |-> freshness]

(* behind is what git counts between the two commits, -1 for no answer.    *)
IndexHealth(head, behind, sources) ==
    LET Counted2(f) == IF f.reason = "commits_behind" /\ behind # -1 THEN [f EXCEPT !.n = behind] ELSE f
        checked == [s \in DOMAIN sources |-> Check(sources[s], head)]
        uncounted == \E s \in DOMAIN sources : checked[s].reason = "commits_behind" /\ behind = -1
        results == [s \in DOMAIN sources |-> Counted2(checked[s])]
    IN IF head = "none"
       THEN HealthTold(Output(<<>>, << "head_unresolvable" >>, "low"),
                       [s \in DOMAIN sources |-> Stale("indexer_error", 0, 0)])
       ELSE HealthTold(Output(<<>>, (IF DOMAIN sources = {} THEN << "no_sources" >> ELSE <<>>)
                                    \o (IF uncounted THEN << "count_unknown" >> ELSE <<>>),
                              DemoteMin({DeriveHealth(results[s]) : s \in DOMAIN sources})),
                       results)

-----------------------------------------------------------------------------
(* layer_b/scip_index.py.  The tool may leave a tsconfig of its own; the   *)
(* slice it fails with has an error and no files.  r.summary is the number *)
(* of files the tool says it indexed, -1 for none and -2 for no summary.   *)
SafeIndexerHead(head) == IF head = "none" THEN "unknown" ELSE head
RestoreTsconfig(before, infers) == IF before = "own" THEN "own" ELSE "absent"

ScipSlice(head, indexed, files, errors) ==
    [state |-> "read", commit |-> SafeIndexerHead(head), indexed |-> indexed, files |-> files, errors |-> errors]
FailureSliceCounted(r) == ScipSlice(r.head, r.files, r.files, 0)     \* mutant: no error is written
FailureSlice(r) == ScipSlice(r.head, 0, 0, 1)
ParseSummary(r) == IF r.summary < 0 THEN r.files ELSE r.summary

ScipTold(o, left) ==
    [kind |-> o.kind, errors |-> o.errors, warnings |-> o.warnings, confidence |-> o.confidence,
     tsconfig |-> left.tsconfig, slice |-> left.slice, blob |-> left.blob]

ScipIndex(r) ==
    LET headless == IF r.head = "none" THEN << "head_unresolvable" >> ELSE <<>>
        failed == r.ended \in {"timeout", "missing", "nonzero"}
        slice == IF failed THEN FailureSlice(r) ELSE ScipSlice(r.head, ParseSummary(r), r.files, 0)
        summary == IF ~failed /\ r.summary = -2 THEN << "summary_unavailable" >> ELSE <<>>
        ran == [tsconfig |-> IF r.unlinks THEN RestoreTsconfig(r.tsconfig, r.infers)
                             ELSE IF r.tsconfig = "absent" /\ r.infers THEN "inferred" ELSE r.tsconfig,
                slice |-> slice, blob |-> IF failed THEN "absent" ELSE "new"]
        before == [tsconfig |-> r.tsconfig, slice |-> NoSlice("unchanged"), blob |-> "unchanged"]
    IN IF r.raw = "no_dir" THEN ScipTold(Output(<< "unwritable" >>, headless, "low"), before)
       ELSE IF r.raw = "no_write" \/ r.ended = "disallowed"
       THEN ScipTold(Escaped, [ran EXCEPT !.slice = NoSlice("unchanged"), !.blob = "unchanged"])
       ELSE ScipTold(Output(<<>>, headless \o (IF failed THEN << r.ended >> ELSE summary),
                            IF failed \/ r.files = 0 \/ r.head = "none" THEN "low" ELSE "high"), ran)

(* The two in one gather: what index_health reads is what scip_index left. *)
IndexThenHealth(r) ==
    LET scip == ScipIndex(r)
        file == [read |-> "ok", slice |-> IF scip.slice.state = "unchanged" THEN r.prior ELSE scip.slice]
    IN [scip |-> scip, health |-> IndexHealth(r.healthHead, r.behind, [s \in {"scip"} |-> [check |-> "scip", file |-> file]])]

-----------------------------------------------------------------------------
(* layer_b/dep_graph.py, and the registry of strategies it asks.  The      *)
(* declaration is read where it names one of four managers and a version;  *)
(* the lockfile is looked at where it does not, and not at all where it    *)
(* names another.                                                          *)
KnownManagers == {"bun", "pnpm", "npm", "yarn"}
DepYarnVariant(field, markers) ==
    IF field.declared = "yarn" /\ field.form = "major" /\ field.major >= 1
    THEN IF field.major = 1 THEN "yarn-classic" ELSE "yarn-berry"
    ELSE IF markers \cap BerryMarkers # {} THEN "yarn-berry" ELSE "yarn-classic"
NamedManager(manager, field, markers) == IF manager = "yarn" THEN DepYarnVariant(field, markers) ELSE manager

(* << manager, whether it is a known one >> *)
DepLockfilePrecedence == << "bun", "pnpm", "yarn", "npm" >>
DetectPackageManager(r) ==
    LET field == IF r.pkg = "ok" THEN r.field ELSE [declared |-> "none", form |-> "no_at", major |-> 0]
        k == SelectInSeq(DepLockfilePrecedence, LAMBDA m : m \in r.locks)
    IN CASE field.declared # "none" /\ field.declared \notin KnownManagers -> << field.declared, FALSE >>
         [] field.declared \in KnownManagers /\ field.form = "major" ->
              << NamedManager(field.declared, field, r.markers), TRUE >>
         [] OTHER -> IF k = 0 THEN << "none", FALSE >>
                     ELSE << NamedManager(DepLockfilePrecedence[k], field, r.markers), TRUE >>

(* The graph of a run is on disk before its strategy is asked, and empty   *)
(* until that answers; an earlier one stays where no manager is found.  A  *)
(* graph is << its manager, its nodes >>.                                  *)
EarlierGraph == << "earlier", 0 >>
WriteEmptyGraph(manager) == << manager, 0 >>
DepGraph(r) ==
    LET found == DetectPackageManager(r)
        manager == found[1]
        Emit(confidence, reason, nodes, graph) ==
            Output(<<>>, IF reason = "none" THEN <<>> ELSE << reason >>, confidence)
            @@ [manager |-> manager, nodes |-> nodes, listed |-> found[2], graph |-> graph]
    IN CASE r.pkg \notin {"ok", "absent"} -> Escaped @@ [graph |-> EarlierGraph]
         [] r.pkg \in {"ok", "absent"} /\ ~found[2] ->
              Emit("low", IF manager = "none" THEN "no_manifest" ELSE "unrecognized", 0, EarlierGraph)
         [] OTHER ->
              CASE manager \notin r.strategies -> Emit("low", "no_strategy", 0, WriteEmptyGraph(manager))
                [] manager \in r.strategies /\ r.strategy = "timeout" ->
                     Emit("low", "strategy_timeout", 0, WriteEmptyGraph(manager))
                [] manager \in r.strategies /\ r.strategy = "raises" -> Escaped @@ [graph |-> WriteEmptyGraph(manager)]
                [] OTHER -> Emit("high", "none", r.nodes, << manager, r.nodes >>)

-----------------------------------------------------------------------------
(* layer_b/tree_sitter_import_graph.py.  A file is [read, imports]: read   *)
(* is "ok", "too_large" or one of the ways its parsing fails, imports the  *)
(* specifiers in the order the query meets them, 0 where one is empty or   *)
(* no text.  The walk has no await in it, so the timeout never cuts it.    *)
WarningCap == 5
AccumulateWarning(acc, id) ==
    LET count == acc.counts[id] + 1
    IN [acc EXCEPT !.counts[id] = count,
                   !.warnings = @ \cup {IF count <= WarningCap THEN id ELSE "count_exceeded"}]
ExtractImports(file) ==
    LET real == SelectSeq(file.imports, LAMBDA s : s # 0) IN
    SetToSortSeq(ToSet(real), LAMBDA a, b : a < b)
ParseSource(acc, k, file) ==
    CASE file.read = "ok" ->
           [acc EXCEPT !.parsed = @ + 1, !.edges = @ \o [i \in DOMAIN ExtractImports(file) |-> << k, ExtractImports(file)[i] >>]]
      [] file.read = "too_large" -> AccumulateWarning([acc EXCEPT !.failed = @ + 1], "file_too_large")
      [] OTHER -> AccumulateWarning([acc EXCEPT !.failed = @ + 1], "file_parse_failed")
ParseAll(files) ==
    FoldLeft(LAMBDA acc, k : ParseSource(acc, k, files[k]),
             [edges |-> <<>>, parsed |-> 0, failed |-> 0, warnings |-> {},
              counts |-> [id \in {"file_too_large", "file_parse_failed"} |-> 0]],
             [k \in DOMAIN files |-> k])
DeriveGraphConfidence(parsed, failed) ==
    CASE parsed = 0 -> "low" [] parsed > 0 /\ failed = 0 -> "high" [] OTHER -> IF parsed >= failed THEN "medium" ELSE "low"
ImportGraph(r) ==
    LET acc == ParseAll(r.files)
        none == IF r.files = <<>> THEN {"no_files"} ELSE {}
    IN IF r.grammar = "refused" THEN Output(<< "grammar_pin" >>, {}, "low") @@ [edges |-> <<>>, artifact |-> "stays"]
       ELSE IF acc.edges # <<>> /\ r.write = "fails" THEN Escaped @@ [edges |-> <<>>, artifact |-> "stays"]
       ELSE Output(<<>>, acc.warnings \cup none, DeriveGraphConfidence(acc.parsed, acc.failed))
            @@ [edges |-> acc.edges, artifact |-> IF acc.edges = <<>> THEN "stays" ELSE "new"]

-----------------------------------------------------------------------------
(* layer_b/node_reflection.py.  A file is [read, evals, dynamic, envReads] *)
(* with the distance of every read of process.env from the condition it    *)
(* stands in, 0 where it stands in none.  Both names of the expression are *)
(* looked at, and four levels above each, two of which it is made of.      *)
ConditionReach == 2
InCondition(distance) == distance \in 1 .. ConditionReach
AffectingReads(file) == 2 * Len(SelectSeq(file.envReads, InCondition))
DecoratorFlags(pkg, deps) == IF pkg = "ok" THEN deps \cap {"@nestjs/core", "typeorm", "class-validator"} ELSE {}
DeriveImpact(evals, other, flags) ==
    IF evals > 0 THEN "high" ELSE IF other = 0 /\ flags = {} THEN "low" ELSE "medium"
NodeReflection(r) ==
    LET read == SelectSeq(r.files, LAMBDA f : f.read = "ok")
        Total(count(_)) == FoldLeft(LAMBDA sum, f : sum + count(f), 0, read)
        evals == Total(LAMBDA f : f.evals)
        other == Total(LAMBDA f : f.dynamic + Len(f.envReads) + AffectingReads(f))
        flags == DecoratorFlags(r.pkg, r.deps)
        refused == r.pkg \in {"malformed", "size_cap_exceeded", "depth_cap_exceeded", "symlink_refused"}
        broken == \E k \in DOMAIN r.files : r.files[k].read = "parser_raises"
    IN CASE r.grammar # "ok" -> Output(<< "grammar_unavailable" >>, <<>>, "low") @@ [impact |-> "high", evals |-> 0, env |-> 0]
         [] r.grammar = "ok" /\ r.pkg \in {"os_error", "not_utf8"} -> Escaped
         [] OTHER -> Output(IF broken THEN << "parse_error" >> ELSE <<>>, IF refused THEN << "package_json" >> ELSE <<>>,
                            IF broken THEN "low" ELSE "high")
                     @@ [impact |-> DeriveImpact(evals, other, flags), evals |-> evals, env |-> Total(LAMBDA f : Len(f.envReads))]

-----------------------------------------------------------------------------
(* layer_b/generated_code.py: a file is [read, marker, dir].  The command  *)
(* that makes it again is the first of its generator's scripts there are.  *)
GeneratedHeaders == << "graphql-codegen", "openapi-typescript", "protoc-typescript", "prisma" >>
HeaderMarker(markers) ==
    LET k == SelectInSeq(GeneratedHeaders, LAMBDA m : m \in markers) IN IF k = 0 THEN "none" ELSE GeneratedHeaders[k]
DirectoryMarker(dir) == dir \in {"src/generated", "__generated__", "gen"}
RegenerateCommand(generator, scripts) ==
    LET keys == CASE generator = "graphql-codegen" -> << "codegen", "build:gql", "graphql:codegen" >>
                  [] generator = "openapi-typescript" -> << "generate:api", "codegen:api", "generate" >>
                  [] generator = "protoc-typescript" -> << "generate:proto", "codegen:proto" >>
                  [] generator = "prisma" -> << "prisma:generate", "generate" >>
                  [] OTHER -> <<>>
        k == SelectInSeq(keys, LAMBDA s : s \in scripts)
    IN IF k = 0 THEN "none" ELSE keys[k]
GeneratedCode(r) ==
    LET Generator(f) == IF f.read # "ok" THEN "none" ELSE IF HeaderMarker(f.markers) # "none" THEN HeaderMarker(f.markers)
                        ELSE IF DirectoryMarker(f.dir) THEN "directory_convention" ELSE "none"
        files == {k \in DOMAIN r.files : Generator(r.files[k]) # "none"}
        scripts == IF r.pkg = "ok" THEN r.scripts ELSE {}
    IN IF r.pkg \in {"os_error", "not_utf8"} THEN Escaped
       ELSE Output(<<>>, IF files = {} THEN << "no_markers" >> ELSE <<>>, IF files = {} THEN "medium" ELSE "high")
            @@ [files |-> [k \in files |-> << Generator(r.files[k]), RegenerateCommand(Generator(r.files[k]), scripts) >>]]

(* layer_b/semantic_index_meta.py: the tsconfig itself, no chain followed; *)
(* its options are those the file has.                                     *)
MetaFromPayload(file) == [options |-> IF file.options THEN 1 ELSE 0]
SemanticIndexMeta(ts) ==
    CASE ts = <<>> -> Output(<<>>, << "no_tsconfig" >>, "medium")
      [] OTHER ->
         IF ts[1].read \in {"malformed", "size_cap_exceeded", "symlink_refused", "depth_cap_exceeded"}
         THEN Output(<< "unparseable" >>, <<>>, "low")
         ELSE IF ts[1].read # "ok" THEN Escaped
         ELSE Output(<<>>, IF ts[1].extends # 0 THEN << "extends_not_resolved" >> ELSE <<>>, "high") @@ MetaFromPayload(ts[1])

-----------------------------------------------------------------------------
(* layer_g.  A scanner is missing, runs out of time, or exits with a code  *)
(* and some output: read, not JSON, JSON of a wrong shape, or one with a   *)
(* value of a type that is caught nowhere.                                 *)
Ran == [kind |-> "ran", reason |-> "none"]
Skipped(reason) == [kind |-> "skipped", reason |-> reason]
Failed(reason) == [kind |-> "failed", reason |-> reason]
Classified(attempt, failsFrom) ==
    CASE attempt.ended = "missing" -> Skipped("tool_missing")
      [] attempt.ended = "config_absent" -> Skipped("config_absent")
      [] attempt.ended = "timeout" -> Failed("timeout")
      [] OTHER -> IF attempt.code >= failsFrom THEN Failed("exit_code")
                  ELSE IF attempt.stdout = "read" THEN Ran
                  ELSE IF attempt.stdout = "wrong_type" THEN Failed("raised") ELSE Failed("invalid_json")
ClassifyAstGrep(attempt) == Classified(attempt, 1)
ClassifyRipgrep(attempt) == Classified(attempt, 2)
ClassifyGitleaks(attempt) == Classified(attempt, 2)
(* Semgrep with a rule set that has no rules has scanned nothing. *)
ClassifySemgrep(attempt) ==
    LET outcome == Classified(attempt, 2)
    IN IF outcome = Ran /\ attempt.rules = 0 THEN Skipped("config_absent") ELSE outcome

(* The slice is written first, then the output of the tool if it ran; the  *)
(* output of an earlier run stays where this one has none.                 *)
WriteScan(outcome, write) ==
    << IF write = "none" THEN "stays" ELSE "new", IF outcome = Ran /\ write = "both" THEN "new" ELSE "stays" >>

Scanner(outcome, r) ==
    LET failed == outcome = Failed("raised") \/ r.write = "none" \/ (outcome = Ran /\ r.write # "both")
        files == IF outcome = Failed("raised") THEN << "stays", "stays" >> ELSE WriteScan(outcome, r.write)
    IN (IF failed THEN Escaped ELSE Output(<<>>, <<>>, IF outcome = Ran THEN "high" ELSE "low"))
       @@ [outcome |-> outcome, slice |-> files[1], raw |-> files[2]]

(* gitleaks: each finding's secret is taken out of the output wherever it  *)
(* stands, one finding after the other.  Output and secrets are sequences  *)
(* of symbols, and 0 stands for what is put in the place of one.           *)
ReplaceIn(raw, secret) ==
    LET left[i \in 1 .. Len(raw) + 1] ==
            IF Len(raw) + 1 - i < Len(secret) THEN SubSeq(raw, i, Len(raw))
            ELSE IF SubSeq(raw, i, i + Len(secret) - 1) = secret THEN << 0 >> \o left[i + Len(secret)]
            ELSE << raw[i] >> \o left[i + 1]
    IN left[1]
RedactRawBytes(raw, secrets) == FoldLeft(ReplaceIn, raw, secrets)

-----------------------------------------------------------------------------
(* layer_g/test_coverage_mapping.py: the lcov report if there is one, else *)
(* the istanbul one, of which a file is [source, shape, statements] and a  *)
(* statement [line, hits], with 0 and -1 for a line and a count that are   *)
(* none.                                                                   *)
Covered(statement) == statement.hits > 0 /\ statement.line # 0
ParseIstanbul(files) ==
    IF \E k \in DOMAIN files : files[k].shape # "object" THEN [kind |-> "value_error"]
    ELSE [kind |-> "ok",
          records |-> [k \in DOMAIN files |->
              LET covered == SelectSeq(files[k].statements, Covered)
              IN [source |-> files[k].source, lines |-> [i \in DOMAIN covered |-> covered[i].line]]]]
CoverageFailures == {"symlink_refused", "malformed", "depth_cap_exceeded", "not_utf8"}
CoverageMapping(r) ==
    LET read == IF r.lcov # "absent" THEN r.lcov ELSE r.istanbul
        parsed == IF r.lcov # "absent" THEN ScanRecords(r.rows) ELSE ParseIstanbul(r.files)
        Mapped(outcome, findings, confidence) ==
            Output(<<>>, <<>>, confidence) @@ [outcome |-> outcome, findings |-> findings]
    IN CASE read = "absent" -> Mapped(Skipped("upstream_unavailable"), <<>>, "low")
         [] read = "size_cap_exceeded" -> Mapped(Failed("oversized"), <<>>, "low")
         [] read \in CoverageFailures -> Mapped(Failed("parse_error"), <<>>, "low")
         [] read = "os_error" -> Escaped
         [] OTHER -> IF parsed.kind # "ok" THEN Mapped(Failed("parse_error"), <<>>, "low")
                     ELSE Mapped(Ran, parsed.records, IF parsed.records = <<>> THEN "low" ELSE "high")
=============================================================================
