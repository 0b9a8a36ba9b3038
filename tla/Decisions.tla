----------------------------- MODULE Decisions -----------------------------
(***************************************************************************)
(* The decisions of the program, asked one at a time: a question of one    *)
(* kind is chosen from Questions, the code's function answers it, and an   *)
(* invariant compares the answer with what the function is for.  Each kind *)
(* is one function of the code, in the module of its area.                 *)
(***************************************************************************)
EXTENDS Plugins, Transforms, Jail, Fallback, Retrieval, DeployProbes, ContainerProbes, KnowledgeProbes, Keys, Stores

CONSTANT Questions        \* kind of question -> the questions of that kind

(* What the code is asked, where a theorem below needs to know: the types  *)
(* of the arguments, of which the instance takes a few values of each.     *)
PluginDirs == [id : Nat, tree : STRING, api : STRING]
LockEntries == [id : Nat, dir : BOOLEAN]
NpmRuns ==
    [repo : [planned : BOOLEAN, pjson : SUBSET ToSet(PackageJsonFaults), lock : SUBSET ToSet(PackageLockFaults),
             sections : SUBSET ToSet(DepSections), write : {"ok", "swapped", "refused"}, before : {"read", "refused"}, again : BOOLEAN],
     jail : DOMAIN InstallErrors \cup {"exit_0"}]
HeaderPairs == [name : STRING, secrets : SUBSET STRING]
Messages == [headers : [shape : STRING, pairs : Seq(HeaderPairs)], body : [kind : STRING, wraps : Nat, secrets : SUBSET STRING]]
TsconfigReads == {"ok", "size_cap_exceeded", "symlink_refused", "malformed", "missing", "os_error", "not_utf8", "depth_cap_exceeded"}
TsconfigChains ==
    {files \in Seq([inside : BOOLEAN, read : TsconfigReads, options : BOOLEAN, extends : Nat]) :
        Len(files) >= 1 /\ \A i \in 1 .. Len(files) : files[i].extends =< Len(files)}
(* "unknown" is what the indexer says of a repository without a commit,    *)
(* and "unresolved" stands for an image without a digest: no commit and no *)
(* digest is spelled like them.                                            *)
Slices == [state : STRING, commit : STRING, indexed : Int, files : Int, errors : Int]
ScipRuns ==
    [head : STRING, healthHead : STRING \ {"unknown"}, behind : Int, files : Nat, summary : Int,
     ended : {"ok", "timeout", "missing", "nonzero", "disallowed"}, tsconfig : STRING, infers : BOOLEAN, unlinks : BOOLEAN,
     raw : {"ok", "no_dir", "no_write"}, prior : Slices]
RepoFiles == [path : Seq(STRING) \ {<<>>}, size : Nat, bytes : Nat]
Repos == [files : SUBSET RepoFiles, digest : STRING \ {"unresolved"}]
KeyProbes == [name : STRING, version : Nat, declared : Seq([token : BOOLEAN, words : Seq(STRING)])]
Containers == {graph \in Seq(Seq(Nat)) : Len(graph) >= 1 /\ \A i \in DOMAIN graph : ToSet(graph[i]) \subseteq DOMAIN graph}
TraceSlices == [state : STRING, coverage : STRING, built : STRING, traced : STRING, shells : Nat, certs : SUBSET STRING]
ScanTools == {"ok", "unwritten", "missing", "timeout", "nonzero", "not_json"}
ScanGather == [trace : TraceSlices, syft : ScanTools, grype : ScanTools]
SkillTier == [exists : BOOLEAN, files : Seq([id : Nat, reads : STRING])]
StoredEvents == [id : Nat, boundary : BOOLEAN, large : BOOLEAN, secret : {"none", "leaf", "spanning", "marked"}]

ASSUME QuestionsAssumption ==
    /\ \A q \in Questions["load"] : q.walked \in Seq(PluginDirs) /\ q.lock \in [malformed : BOOLEAN, entries : Seq(LockEntries)]
    /\ \A q \in Questions["npm"] : q \in NpmRuns
    /\ \A q \in Questions["filter"] : q \in Seq(STRING)
    /\ \A q \in Questions["cassette"] : q \in Messages
    /\ \A q \in Questions["embed_batch"] : q.texts \in Seq(DOMAIN q.table) /\ q.short \in BOOLEAN
    /\ \A q \in Questions["depth"] : q \in Containers
    /\ \A q \in Questions["extends"] : q \in TsconfigChains
    /\ \A q \in Questions["scip"] : q \in ScipRuns
    /\ \A q \in Questions["scan"] : q \in Seq(ScanGather)
    /\ \A q \in Questions["skills"] : q \in [1 .. 3 -> SkillTier]
    /\ \A q \in Questions["key"] : q.probe \in KeyProbes /\ q.before \in Repos /\ q.after \in Repos
    /\ \A q \in Questions["append"] : q \in Seq(StoredEvents)

VARIABLES asked, question, answer
vars == << asked, question, answer >>

None == "none"
Init == asked = None /\ question = None /\ answer = None

Ask(kind, Answer(_)) ==
    /\ asked = None
    /\ \E q \in Questions[kind] :
         /\ asked' = kind
         /\ question' = q
         /\ answer' = Answer(q)

AskPlugins ==
    \/ Ask("resolve", LAMBDA q : Resolve(q.registry, q.scope))
    \/ Ask("load", LAMBDA q : LoadPlugins(q.walked, q.lock))
    \/ Ask("recipes", LAMBDA q : RecipesOf(FoldLeft(RegisterRecipe, <<>>, q), 1))
    \/ Ask("path", LAMBDA q : CreatePath(q.jail, q.path))
    \/ Ask("mint", LAMBDA q : Mint(q.plugin, q.scope))
    \/ Ask("manifest", ManifestError)
    \/ Ask("lock", LockError)
    \/ Ask("query", CreateQuery)
    \/ Ask("tccm", LAMBDA q : ProvidesFit(q.provides) /\ RequiresFit(q.requires))

Calls == [arch : {"x86_64", "other"}, nr : {"mount", "ptrace", "bpf", "read"}]

AskTransforms ==
    \/ Ask("match", MatchRecipes)
    \/ Ask("register", LAMBDA q : IF ValidateRecipeId(q) = "ok" THEN RegisterTransform(q.taken, q.name)
                                                                ELSE "value_error")
    \/ Ask("signal_kind", LAMBDA q : RegisterSignalKind(SignalKinds, q))
    \/ Ask("score", LAMBDA q : Score(SignalKinds, q.signals, q.events, 1))
    \/ Ask("policy", LoadPolicy)
    \/ Ask("lockfile", LAMBDA q : EvaluatePolicy({"npmjs"}, q))
    \/ Ask("npm", LAMBDA q : ApplyNpm(q.repo, q.jail))
    \/ Ask("openrewrite", LAMBDA q : ApplyOpenRewrite(q.files, q.jail))
    \/ Ask("load_report", LoadReport)
    \/ Ask("write_report", WriteReport)
    \/ Ask("report", LAMBDA q : ReportConsistent(q.outcome, q.transform, q.branch))
    \/ Ask("dependencies", LoadDependencies)
    \/ Ask("cve", LAMBDA q : ResolveCve(q, {1, 2}))
    \/ Ask("summary", AttemptSummary)

AskJail ==
    \/ Ask("allowlist", AllowlistError)
    \/ Ask("spec", SpecFits)
    \/ Ask("bwrap", LAMBDA q : RunBwrap(q.setup, q.run))
    \/ Ask("sandbox_exec", LAMBDA q : RunSandboxExec(q.setup, RenderProfile(q.urls, q.template), q.run))
    \/ Ask("clauses", RenderAllowlistPorts)
    \/ Ask("substrate", SubstrateSupported)
    \/ Ask("filter", LAMBDA q : [call \in Calls |-> RunFilter(BuildFilter(q), call)])
    \/ Ask("external_cli", LAMBDA q : RunExternalCli(q.call, q.host, q.out))
    \/ Ask("env", FilterEnv)
    \/ Ask("tool_version", LAMBDA q : ResolveToolVersionSync(q.memo, q.inLoop, q.outcome))

AskFallback ==
    \/ Ask("tier", TierRun)
    \/ Ask("validated", LAMBDA q : OnValidated(q.outcome, q.trust, q.known, q.plan))
    \/ Ask("pending", LAMBDA q : FinalizeSuccessAnchor({}, q))
    \/ Ask("anchor", LAMBDA q : IF AnchorError(q) # "ok" THEN AnchorError(q)
                                ELSE AttachTrustOutcome(Anchor(q.outcome, q.reason), q.trust))
    \/ Ask("provenance", LAMBDA q : IsAppLayer(ClassifyProvenance(q)))
    \/ Ask("fence", LAMBDA q : LET s == FencePure(q.payload, q.scanner, 2)
                               IN [segment |-> s, events |-> FenceEvents(s)])
    \/ Ask("canary", LAMBDA q : FirstFault(PatternFaults, q))
    \/ Ask("prompt", BuildPrompt)
    \/ Ask("diff", LAMBDA q : FirstFault(DiffFaults, q))
    \/ Ask("relative_path", LAMBDA q : FirstFault(PathFaults, q))
    \/ Ask("rewrite", LAMBDA q : RewriteError(q.files, q.headers))
    \/ Ask("egress", LAMBDA q : IsAdmitted(q.host, q.port, q.loopback))
    \/ Ask("pinned", PinnedTo)
    \/ Ask("guard", LAMBDA q : InstallGuard(InstallGuard(q)))
    \/ Ask("cassette", LAMBDA q : [out |-> SanitizeMessage(q), found |-> VerifyCassette("none", << SanitizeMessage(q) >>)])
    \/ Ask("cassette_file", LAMBDA q : VerifyCassette(FirstFault(CassetteFaults, q), <<>>))
    \/ Ask("cassette_lock", LAMBDA q : ParseLock(RebuildLock(q), TRUE))
    \/ Ask("lock_lines", LAMBDA q : ParseLock(q.lines, q.ended))

AskRetrieval ==
    \/ Ask("retrieve", LAMBDA q : Retrieve(q.raw, {"h1", "h2"}, q.filtered, 1))
    \/ Ask("floors", LAMBDA q : FloorsFit(q.high, q.degraded))
    \/ Ask("embed_batch", LAMBDA q : EmbedBatch(q.texts, q.table, q.short))
    \/ Ask("embed_open", LAMBDA q : LazyOpen(q.first, q.second))
    \/ Ask("weights", VerifyModelLock)
    \/ Ask("vector", Finalize)
    \/ Ask("example", LAMBDA q : SolvedExampleFrom(q, 1))
    \/ Ask("record_id", LAMBDA q : FirstFault(RecordIdFaults, q))
    \/ Ask("manifest_yaml", LoadRecordIds)
    \/ Ask("candidates", LAMBDA q : [all |-> Candidates(q.open, q.collection, q.rows),
                                     one |-> QueryStore(q.open, q.collection, q.rows, 0),
                                     has |-> ContainsRecord(q.open, {1}, 1)])

AskParsers ==
    \/ Ask("jsonc", LAMBDA q : StripComments(FlattenSeq([i \in DOMAIN q |-> q[i].text])))
    \/ Ask("open", LAMBDA q : [capped |-> OpenCapped(q), json |-> LoadJson(q), jsonc |-> LoadJsonc(q), yaml |-> LoadYaml(q),
                               text |-> LoadYamlText(q), npm |-> ParseNpmLock(q), pnpm |-> ParsePnpmLock(q)])
    \/ Ask("yaml_docs", LoadAllYaml)
    \/ Ask("depth", LAMBDA q : ExceedsDepth(q, 2))
    \/ Ask("lcov", ScanRecords)
    \/ Ask("lcov_totals", LAMBDA q : LcovScan(q, "LF"))
    \/ Ask("yarn", LAMBDA q : ParseYarn(q.lines))

AskProbes ==
    \/ Ask("node", LAMBDA q : [languages |-> DetectLanguages(q), build |-> NodeBuildSystem(q),
                               manifest |-> NodeManifest(q), tests |-> TestInventory(q)])
    \/ Ask("admits", LAMBDA q : AdmitsNodeProject(q.wanted, q.detected, q.manifest))
    \/ Ask("extends", Extends)
    \/ Ask("overlays", LAMBDA q : WalkOverlays(q, 3))
    \/ Ask("deployment", Deployment)
    \/ Ask("raw_manifest", HasRaw)
    \/ Ask("ci", ContinuousIntegration)

NoTsconfig == << [inside |-> FALSE, read |-> "ok", options |-> FALSE, extends |-> 0] >>

AskIndexes ==
    \/ Ask("registry", LAMBDA q : SortedForTask(FoldLeft(RegisterProbe, <<>>, q.entries), q.languages))
    \/ Ask("health", LAMBDA q : IndexHealth(q.head, q.behind, q.sources))
    \/ Ask("prior", LAMBDA q : LoadPriorValue(q.file, q.key))
    \/ Ask("scip", IndexThenHealth)
    \/ Ask("dep_graph", LAMBDA q : [graph |-> DepGraph(q), build |-> NodeBuildSystem(q)])
    \/ Ask("imports", ImportGraph)
    \/ Ask("reflection", NodeReflection)
    \/ Ask("generated", GeneratedCode)
    \/ Ask("tsmeta", LAMBDA q : [meta |-> SemanticIndexMeta(q), chain |-> Extends(IF q = <<>> THEN NoTsconfig ELSE q)])

AskScanners ==
    \/ Ask("ast_grep", LAMBDA q : Scanner(ClassifyAstGrep(q.attempt), q))
    \/ Ask("ripgrep", LAMBDA q : Scanner(ClassifyRipgrep(q.attempt), q))
    \/ Ask("gitleaks", LAMBDA q : Scanner(ClassifyGitleaks(q.attempt), q))
    \/ Ask("semgrep", LAMBDA q : Scanner(ClassifySemgrep(q.attempt), q))
    \/ Ask("redact", LAMBDA q : RedactRawBytes(q.raw, q.secrets))
    \/ Ask("coverage", CoverageMapping)

AskContainer ==
    \/ Ask("dockerfile", ReadDockerfiles)
    \/ Ask("trace", TraceAndReaders)
    \/ Ask("scan", LAMBDA q : ScanGathers(NothingScanned, q))
    \/ Ask("top", LAMBDA q : TopFindings(q.matches, q.n))

AskKnowledge ==
    \/ Ask("frontmatter", LAMBDA q : [scan |-> ScanFrontmatter(q.data, q.chunk), split |-> SplitFrontmatter(q.data),
                                      block |-> ExtractFrontmatterBlock(q.data)])
    \/ Ask("skills", SkillsIndex)
    \/ Ask("conventions", LAMBDA q : Conventions(q.paths, q.repo))
    \/ Ask("exceptions", LAMBDA q : Exceptions(q.user, q.repo, q.now))

(* For keys of which only the schema matters *)
OneSchema == [own |-> [n \in {"p1", "p2"} |-> 0], envelope |-> 1]
BareProbe(n) == [name |-> n, version |-> 1, declared |-> <<>>]
NoRepo == [files |-> {}, digest |-> "none"]

AskKeys ==
    \/ Ask("key", LAMBDA q : [before |-> KeyFor(q.probe, q.before, OneSchema), after |-> KeyFor(q.probe, q.after, OneSchema)])
    \/ Ask("schema", LAMBDA q : [n \in {"p1", "p2"} |-> << KeyFor(BareProbe(n), NoRepo, q.before), KeyFor(BareProbe(n), NoRepo, q.after) >>])
    \/ Ask("scrub", LAMBDA q : ScrubString(q.text, q.root))
    \/ Ask("secrets", LAMBDA q : [secrets |-> RedactSecrets(q), envelope |-> RedactEnvelope(q), raw |-> RedactRawArtifact(FlattenSeq(q))])

AskStores ==
    \/ Ask("append", LAMBDA q : [memory |-> MemoryAppends(q), sqlite |-> SqliteAppends(q)])
    \/ Ask("attribute", LAMBDA q : [one |-> AssembleProvenance(FoldLeft(RegisterAdapter, <<>>, q.one)),
                                    other |-> AssembleProvenance(FoldLeft(RegisterAdapter, <<>>, q.other))])

Next == AskPlugins \/ AskTransforms \/ AskJail \/ AskFallback \/ AskRetrieval \/ AskParsers \/ AskProbes \/ AskIndexes \/ AskScanners \/ AskContainer \/ AskKnowledge \/ AskKeys \/ AskStores
Spec == Init /\ [][Next]_vars

-----------------------------------------------------------------------------
(* Every answer is one the function's type allows. *)
AnswersTyped ==
    CASE asked = "resolve" -> answer.kind \in Resolutions
                              /\ answer.kind = "raised" => answer.why \in Corruption \cup ChainErrors
      [] asked = "load" -> answer.result \in PluginRejected \cup {"ok"}
      [] asked = "mint" -> /\ answer.bundle = answer.event.digest
                           /\ Cardinality({c \in CapabilityScopes : answer.bundle[c] # 0}) = 1
      [] asked = "manifest" -> answer \in ManifestErrors
      [] asked = "lock" -> answer = "lockfile_malformed"
      [] asked = "query" -> answer \in {"unknown_primitive", "negative_max_files", "ok"}
      [] asked = "npm" -> answer.kind \in RecipeOutcomes \cup {"raised"}
      [] asked \in {"bwrap", "sandbox_exec"} ->
           /\ answer.result.kind \in JailedResults
           /\ answer.result.kind = "jail_setup_failed" => answer.result.detail \in SetupReasons
      [] asked = "match" -> answer.kind = "not_applicable" => answer.reason \in NotApplicableReasons
      [] asked = "path" -> answer \in PathEscapes \cup {"ok"}
      [] OTHER -> TRUE

-----------------------------------------------------------------------------
(* resolve picks the most specific matching scope, then the highest        *)
(* precedence, then the first name, in whatever order the plugins were     *)
(* registered; the universal plugin only when nothing concrete beats it    *)
(* (resolver.py, _sort_key and resolve).                                   *)
Better(c, d) ==
    \/ Specificity(c.scope) > Specificity(d.scope)
    \/ /\ Specificity(c.scope) = Specificity(d.scope)
       /\ \/ c.plugin.precedence > d.plugin.precedence
          \/ c.plugin.precedence = d.plugin.precedence /\ c.plugin.name <= d.plugin.name

ResolvesToBest ==
    asked = "resolve" =>
        LET admitted == ToSet(FilterMatches(LiftCandidates(question.registry), question.scope))
            best == {c \in admitted : \A d \in admitted : Better(c, d)}
        IN /\ answer.kind = "concrete" => \E c \in best : answer.plugin = c.plugin.name
           /\ answer.kind = "fallback" =>
                /\ \E i \in DOMAIN question.registry : question.registry[i].name = Universal
                /\ \A c \in best : c.plugin.name = Universal

(* In the chain a plugin composes to, all that a plugin extends comes      *)
(* before it, and the resolved plugin's own adapters win; the chain is     *)
(* refused when some path of bases comes back, is longer than four, or     *)
(* leaves the registry (resolver.py, compose_extends_chain).               *)
Bases(name) == ToSet(Get(question.registry, name).extends)
BasesFirst ==
    (asked = "resolve" /\ answer.kind = "concrete") =>
        /\ Last(answer.chain) = answer.plugin
        /\ \A i \in DOMAIN answer.chain : \A b \in Bases(answer.chain[i]) :
             \E j \in 1 .. i - 1 : answer.chain[j] = b
        /\ \A a \in Get(question.registry, answer.plugin).adapters : answer.adapters[a] = answer.plugin

(* No plugin's api.py runs, and nothing is registered, unless every        *)
(* directory found was verified against the lock and every locked plugin   *)
(* was found; a report of success means all of them are registered         *)
(* (loader.py, "verify-all-then-import-all").                              *)
NothingRunsUnverified ==
    asked = "load" =>
        LET w == question.walked  l == question.lock IN
        /\ answer.ran # {} \/ answer.registered # {} =>
             /\ \A i \in DOMAIN w : w[i].id # 0 /\ w[i].tree = "locked"
             /\ {w[i].id : i \in DOMAIN w} = {l.entries[i].id : i \in DOMAIN l.entries}
        /\ answer.result = "ok" => answer.registered = {w[i].id : i \in DOMAIN w}

(* Within one plugin the order in which recipes are asked does not depend  *)
(* on the order in which their modules registered them                     *)
(* (recipe_registry.py, RecipeRegistry.all).                               *)
AskedInOneOrder ==
    asked = "recipes" =>
        \A i, j \in DOMAIN answer :
            i < j => \/ answer[i].precedence > answer[j].precedence
                     \/ answer[i].precedence = answer[j].precedence /\ answer[i].name < answer[j].name

-----------------------------------------------------------------------------
(* The recipe taken is one that applies and none before it does; when none *)
(* is taken, all of them were asked and their refusals are kept            *)
(* (recipe_engine.py, match_recipes).                                      *)
FirstThatApplies ==
    asked = "match" =>
        IF answer.kind = "matched"
        THEN \A i \in 1 .. answer.recipe : (question[i] = "applies") <=> (i = answer.recipe)
        ELSE answer.considered = question /\ "applies" \notin ToSet(question)

(* A transform is registered only for a lockfile that npm wrote in the     *)
(* jail and the engine could read; package.json is rewritten in one        *)
(* section at most, the first that has the package, and never when it was  *)
(* refused; and npm never ran for an edit that was not written             *)
(* (engines/npm_lockfile.py, NpmLockfileRecipeEngine.apply).               *)
AppliedIsWhole ==
    asked = "npm" =>
        LET repo == question.repo IN
        /\ answer.registered => repo.lock = {} /\ question.jail = "exit_0" /\ answer.edited # {}
        /\ answer.edited # {} => repo.pjson = {} /\ repo.write = "ok"
        /\ answer.ran => answer.edited # {}
        /\ \A s \in answer.edited : \A i \in DOMAIN DepSections :
             DepSections[i] \in repo.sections =>
                 \E j \in 1 .. i : DepSections[j] = s

(* A lockfile passes exactly when no package of it was resolved from       *)
(* another origin, and each one that was is named                          *)
(* (policy/lockfile_policy.py, LockfilePolicy.evaluate).                   *)
EveryForeignNamed ==
    asked = "lockfile" =>
        \A p \in question : p \in answer <=> p.resolved = "elsewhere"

(* Whatever step of a report's write fails, the report is the old one or   *)
(* the new one whole, the new one only when success was answered           *)
(* (report.py, _write_bytes).                                              *)
ReportOldOrNew ==
    asked = "write_report" =>
        /\ answer.dest = (IF answer.result = "ok" THEN "new" ELSE "old")
        /\ answer.temp => answer.result # "ok" /\ ~question.unlinks

(* The filter bwrap installs kills a call exactly when it is blocked or of *)
(* another architecture, and no jump of it leaves the program              *)
(* (sandbox/_seccomp.py, build_filter).                                    *)
FilterKillsExactly ==
    asked = "filter" =>
        \A call \in Calls :
            answer[call] = IF call.arch # "x86_64" \/ call.nr \in ToSet(question) THEN "kill" ELSE "allow"

(* A run that the time budget ended is never called out of memory, and a   *)
(* kill by a third party is neither, unless codegenie's own cgroup had one *)
(* (sandbox/_classify.py, classify_outcome).                               *)
KilledIsExplained ==
    (asked = "bwrap" /\ question.run.raised = "none" /\ question.run.exit = "killed"
     /\ question.setup = "ok") =>
        /\ answer.result.kind = "oom_killed" => question.run.elapsed < question.run.budget - Slack
        /\ answer.result.kind = "timed_out" => question.run.elapsed >= question.run.budget - Slack
        /\ answer.result.kind \in {"oom_killed", "timed_out", "completed"}

(* Nothing of a run stays behind, except a file that could not be written  *)
(* whole (sandbox/bwrap.py and sandbox_exec.py, run).                      *)
NothingLeftBehind ==
    asked \in {"bwrap", "sandbox_exec"} => (answer.left # {} => question.setup = "temp_write")

(* Of an output that is too long, no more than the cap is kept, for every  *)
(* cap that has room for more than the marker (exec, _truncate_tail).      *)
TailWithinCap ==
    (asked = "external_cli" /\ question.call.cap > Marker) => answer.out <= question.call.cap

-----------------------------------------------------------------------------
(* A message that was sanitised is found clean, whatever shape its headers *)
(* and its body have, and every header that is not forbidden is still      *)
(* there (cassette/sanitizer.py, sanitize_request and verify_cassette).    *)
SanitisedIsClean ==
    asked = "cassette" =>
        /\ answer.found = {}
        /\ LET Names(pairs) == {pairs[i].name : i \in DOMAIN pairs} IN
           question.headers.shape # "none" =>
               Names(answer.out.headers.pairs) = Names(question.headers.pairs) \ Forbidden

(* A lockfile that was rebuilt reads back as exactly what was on the disk, *)
(* in whatever order the directory was walked, unless a name in it cannot  *)
(* be written (cassette/manifest.py, rebuild_lockfile and load_lockfile).  *)
RebuiltReadsBack ==
    asked = "cassette_lock" =>
        IF \A i \in DOMAIN question : question[i].spelling = "plain"
        THEN answer = [error |-> "ok", entries |-> {<< question[i].name, question[i].digest >> : i \in DOMAIN question}]
        ELSE answer.error # "ok" /\ answer.entries = {}

(* What is fenced never holds a mark of its own fence, wherever the        *)
(* payload puts one and whatever the scanner sees; a payload that was      *)
(* replaced is told, and none that was kept is (fence/wrapper.py, fence).  *)
FenceStaysShut ==
    asked = "fence" =>
        LET content == answer.segment.content
            body == SubSeq(content, 2, Len(content) - 1)
        IN /\ ToSet(body) \cap {"open", "close"} = {}
           /\ Head(content) = "open" /\ Last(content) = "close"
           /\ body = Redaction <=> "canary_collision" \in ToSet(answer.events)

(* The example a query ends with was written under a chain head the log    *)
(* knows, embedded by the current model when that is asked for, and no     *)
(* such candidate has a better score; exactly one outcome is told          *)
(* (rag/retriever.py, SolvedExampleRetriever.query).                       *)
SelectedIsVerifiedBest ==
    asked = "retrieve" =>
        LET fit == {c \in ToSet(question.raw) : VerifyRecord(c, {"h1", "h2"}) /\ (question.filtered => c.model = 1)}
            told == SelectSeq(answer.events, LAMBDA e : e \notin {"built", "rendered", "embedded", "queried",
                                  "chain_orphan", "chain_verified", "model_mismatch", "fenced", "candidate_selected"})
        IN /\ Len(told) = 1
           /\ answer.kind = "miss" <=> \A c \in fit : c.score < 65
           /\ answer.kind # "miss" =>
                /\ \E c \in fit : c.id = answer.id /\ \A d \in fit : d.score <= c.score
                /\ Last(answer.events) = "candidate_selected"

(* Each text of a batch is answered with its own vector, however the       *)
(* texts repeat and whichever of them the table had, had damaged or had    *)
(* not; and afterwards the table has a good row for each                   *)
(* (rag/embedding_cache.py, embed_batch).                                  *)
EachTextItsOwn ==
    (asked = "embed_batch" /\ answer.kind = "ok") =>
        /\ answer.vectors = question.texts
        /\ \A t \in ToSet(question.texts) : answer.table[t] = "good"

-----------------------------------------------------------------------------
(* Of a commented JSON text exactly the comments go, whatever a string     *)
(* holds that looks like one or like its own end, and however block        *)
(* comments nest; a line comment leaves its newline                        *)
(* (parsers/jsonc.py, _strip_comments).                                    *)
OnlyCommentsGo ==
    asked = "jsonc" => answer = [kind |-> "ok", out |-> FlattenSeq([i \in DOMAIN question |-> question[i].stays])]

(* A tree of containers is refused exactly when one is nested deeper than  *)
(* the cap; where an alias makes two paths to a container, nothing is      *)
(* refused for less (parsers/_depth.py, assert_max_depth).                 *)
Deepest(graph) ==
    LET At[k \in 0 .. Len(graph)] == IF k = 0 THEN {1} ELSE UNION {ToSet(graph[n]) : n \in At[k - 1]}
    IN Max({k \in 0 .. Len(graph) : At[k] # {}})
IsTree(graph) ==
    \A i, j \in DOMAIN graph : \A a \in DOMAIN graph[i], b \in DOMAIN graph[j] :
        graph[i][a] # 1 /\ (graph[i][a] = graph[j][b] => i = j /\ a = b)
DepthCapExact ==
    asked = "depth" => /\ answer => Deepest(question) > 2
                       /\ IsTree(question) /\ Deepest(question) > 2 => answer

(* Every file a coverage report opens has one record, with the lines that  *)
(* were hit before the next file or the end of the record, the file the    *)
(* report breaks off in too (probes/_lcov_scanner.py, scan_records).       *)
Opens(i) == question[i].tag = "SF"
HitsOf(i) ==
    LET next == {j \in i + 1 .. Len(question) : question[j].tag \in {"SF", "end"}}
        until == IF next = {} THEN Len(question) ELSE Min(next)
    IN {question[j].at : j \in {k \in i .. until : question[k].tag = "DA" /\ question[k].hits > 0}}
LcovRecordsPerFile ==
    (asked = "lcov" /\ answer.kind = "ok") =>
        LET opened == SelectSeq([i \in DOMAIN question |-> i], Opens) IN
        /\ Len(answer.records) = Len(opened)
        /\ \A k \in DOMAIN opened : /\ answer.records[k].source = question[opened[k]].at
                                    /\ ToSet(answer.records[k].lines) = HitsOf(opened[k])

(* An entry of a yarn.lock has its own version, also when a package it     *)
(* depends on is called "version" and wherever its blocks stand            *)
(* (probes/_lockfiles/_yarn.py, _parse_handrolled).                        *)
YarnVersionsTheirOwn ==
    asked = "yarn" => /\ Len(answer) = Len(question.entries)
                      /\ \A i \in DOMAIN answer : /\ answer[i].key = question.entries[i].key
                                                  /\ PropertyOf(answer[i], "version") = question.entries[i].version

(* The probes that read package.json for themselves say the same of one    *)
(* that cannot be read: the same error, and no high confidence             *)
(* (the _PKG_JSON_FAILURE tables of the four probes).  Language detection  *)
(* takes a dangling link for no file.                                      *)
ManifestFailureAgreed ==
    asked = "node" =>
        LET failure == PackageJson(question.pkg)
            nodes == {answer.build, answer.manifest, answer.tests}
            readers == nodes \cup (IF question.pkg = "dangling" THEN {} ELSE {answer.languages})
        IN failure \notin {"ok", "absent", "os_error", "not_utf8"} =>
             \A out \in readers : out.kind = "output" /\ Contains(out.errors, failure) /\ out.confidence # "high"

(* The lockfile whose packages are reported is that of the package manager *)
(* that is reported, and both outputs tell when there is a second one      *)
(* (node_build_system.py and node_manifest.py have a table each; only the  *)
(* first knows how to read a bun project).                                 *)
SameManager ==
    (asked = "node" /\ answer.build.kind = "output" /\ answer.manifest.kind = "output"
     /\ question.pkg \in {"ok", "absent"}) =>
        /\ answer.build.manager # "bun" => answer.manifest.lockfile = answer.build.manager
        /\ Contains(answer.build.warnings, "multi_lockfile") <=> Contains(answer.manifest.warnings, "multi_present")

(* A native module of npm's lockfile is reported wherever it is installed, *)
(* and with the version of some copy (node_manifest.py, _flatten_npm).     *)
NativeFound ==
    (asked = "node" /\ answer.manifest.kind = "output" /\ question.pkg = "ok" /\ question.lock = "ok"
     /\ answer.manifest.lockfile = "npm") =>
        LET copies == {<< Last(e.path), e.version >> : e \in ToSet(question.installed)}
        IN /\ answer.manifest.native \subseteq copies
           /\ \A c \in copies : c[1] \in {"bcrypt", "sharp"} => \E h \in answer.manifest.native : h[1] = c[1]

(* The chain of a tsconfig is cut as a cycle at the first file that comes  *)
(* back, as too deep at the sixth file, and silently where a file is       *)
(* outside or refused; the options are those of the last file that was     *)
(* read and has some (node_build_system.py, _walk_extends).                *)
ChainFile(files) ==
    LET f[k \in 0 .. 5] == IF k = 0 THEN 1 ELSE IF f[k - 1] = 0 THEN 0 ELSE files[f[k - 1]].extends IN f
ExtendsCutForReason ==
    (asked = "extends" /\ answer.ended = "stopped") =>
        LET f == ChainFile(question)
            Again(k) == f[k] \in {f[j] : j \in 0 .. k - 1}
            Reads(k) == \A j \in 0 .. k : f[j] # 0 /\ question[f[j]].inside /\ question[f[j]].read = "ok" /\ ~Again(j)
            having == {k \in 0 .. 4 : Reads(k) /\ question[f[k]].options}
        IN /\ answer.options = (IF having = {} THEN 0 ELSE f[Max(having)])
           /\ answer.warnings = << "extends_cycle" >> <=>
                \E k \in 1 .. 4 : Reads(k - 1) /\ f[k] # 0 /\ question[f[k]].inside /\ Again(k)
           /\ answer.warnings = << "extends_depth_exceeded" >> <=> Reads(4) /\ f[5] # 0

(* Of a tree of kustomizations every file that is reached inside the       *)
(* repository is found once, unless a cap is told; none outside it, and    *)
(* no more than the cap (deployment.py, _walk_overlays).                   *)
OverlayReached(nodes) ==
    LET opened[k \in 0 .. Len(nodes)] ==
            IF k = 0 THEN {1}
            ELSE LET before == opened[k - 1] IN
                 before \cup {m \in UNION {ToSet(nodes[n].resources) : n \in {x \in before : nodes[x].kind = "kustomization"
                                                                                       /\ nodes[x].read = "ok"}} : nodes[m].inside}
    IN {n \in opened[Len(nodes)] : nodes[n].kind = "file"}
OverlaysComplete ==
    asked = "overlays" =>
        /\ ToSet(answer.files) \subseteq OverlayReached(question)
        /\ Cardinality(ToSet(answer.files)) = Len(answer.files)
        /\ answer.warnings \cap {"depth_cap_exceeded", "file_cap_exceeded"} = {} =>
             ToSet(answer.files) = OverlayReached(question)

-----------------------------------------------------------------------------
(* Whatever the order the modules are imported in, index_health is         *)
(* dispatched after every probe whose slice it reads, and the heavy probes *)
(* before the light ones of their group (probes/registry.py,               *)
(* _sort_entries; index_health is light and scip_index, which runs last    *)
(* too, is heavy).                                                         *)
HealthReadsLast ==
    asked = "registry" =>
        \A i, j \in DOMAIN answer :
            /\ answer[j].name = "index_health" /\ answer[i].name \in {"scip_index", "semgrep", "language_detection"} => i < j
            /\ i < j /\ answer[i].last = answer[j].last => answer[i].heavy >= answer[j].heavy

(* An index that could not be made, or that its tool made of fewer files   *)
(* than there are, is not called fresh by the index_health of the same     *)
(* gather, and never with high confidence, unless its slice could not be   *)
(* written (scip_index.py, _emit_failure_slice; index_health.py,           *)
(* scip_freshness: the checks are in an order in which the coverage of a   *)
(* failed run must not be looked at before its errors).                    *)
IndexFailureShown ==
    (asked = "scip" /\ answer.scip.slice.state # "unchanged" /\ question.healthHead # "none") =>
        LET f == answer.health.freshness["scip"]
            whole == question.ended = "ok" /\ (question.summary < 0 \/ question.summary >= question.files)
        IN /\ f.kind = "fresh" => whole /\ question.head = question.healthHead
           /\ ~whole => answer.health.confidence # "high"
           /\ (question.ended # "ok" /\ question.head = question.healthHead) => answer.health.confidence = "low"

(* The tsconfig that the indexer infers is gone when the probe ends,       *)
(* however it ends, and the project's own never is (scip_index.py, run:    *)
(* the finally of the call).                                               *)
TsconfigRestored ==
    (asked = "scip" /\ question.unlinks) => answer.scip.tsconfig = question.tsconfig

(* The confidence of index_health is high when no source is stale, and     *)
(* low when some index is in error, whatever the other sources say, one    *)
(* whose check raises among them (index_health.py, _demote_min).           *)
HealthIsWorst ==
    (asked = "health" /\ question.head # "none") =>
        LET sources == DOMAIN question.sources
            f == answer.freshness
        IN /\ answer.confidence = "high" <=> \A s \in sources : f[s].kind = "fresh"
           /\ (\E s \in sources : f[s].reason = "indexer_error") => answer.confidence = "low"
           /\ \A s \in sources : f[s] = IndexHealth(question.head, question.behind, s :> question.sources[s]).freshness[s]

(* Two probes that name the package manager name the same one, or the      *)
(* other tells that the declaration and the lockfile disagree, and of yarn *)
(* the same variant (dep_graph.py has its own copy of the tables of        *)
(* node_build_system.py, and takes the declaration first).                 *)
ManagersAgree ==
    (asked = "dep_graph" /\ answer.graph.kind = "output" /\ answer.graph.listed /\ answer.build.kind = "output"
     /\ answer.build.manager # "none") =>
        LET named == answer.graph.manager
        IN ~Contains(answer.build.warnings, "declaration_disagree") =>
             IF answer.build.manager = "yarn"
             THEN named = (IF answer.build.variant = "berry" THEN "yarn-berry" ELSE "yarn-classic")
             ELSE named = answer.build.manager

(* The graph that dep_graph points at is the one it counted: of the        *)
(* manager it names, with the nodes it says, and empty when the strategy   *)
(* did not answer in time (dep_graph.py, run and _serialize_graph).        *)
GraphIsCounted ==
    (asked = "dep_graph" /\ answer.graph.kind = "output" /\ answer.graph.listed) =>
        answer.graph.graph = << answer.graph.manager, answer.graph.nodes >>

(* Every source file is counted as parsed or as failed, every import of a  *)
(* parsed one is one edge however often it stands there, and confidence is *)
(* high only when all were parsed (tree_sitter_import_graph.py).           *)
ImportsOnce ==
    (asked = "imports" /\ answer.kind = "output" /\ question.grammar = "ok") =>
        LET parsed == {k \in DOMAIN question.files : question.files[k].read = "ok"}
        IN /\ ToSet(answer.edges) = UNION {{<< k, s >> : s \in ToSet(question.files[k].imports) \ {0}} : k \in parsed}
           /\ Cardinality(ToSet(answer.edges)) = Len(answer.edges)
           /\ answer.confidence = "high" <=> question.files # <<>> /\ parsed = DOMAIN question.files
           /\ "count_exceeded" \in answer.warnings =>
                Cardinality({k \in DOMAIN question.files : question.files[k].read # "ok"}) > WarningCap

(* Of a tsconfig that extends nothing the two probes that read it say the  *)
(* same options, and one that cannot be read gives none to either          *)
(* (semantic_index_meta.py follows no chain, node_build_system.py does).   *)
TsconfigAgreed ==
    (asked = "tsmeta" /\ question # <<>> /\ answer.meta.kind = "output" /\ question[1].inside) =>
        CASE answer.meta.errors # <<>> -> answer.chain.options = 0
          [] answer.meta.errors = <<>> /\ answer.meta.warnings = <<>> -> answer.chain.options = answer.meta.options
          [] OTHER -> answer.meta.options = 1 => answer.chain.options # 0 \/ answer.chain.ended # "stopped"

(* A scanner's slice that says it ran has the tool's output of the same    *)
(* run beside it, and one that could not tell its answer from a failure    *)
(* leaves no slice at all (layer_g, _write_files).                         *)
RanHasItsOutput ==
    asked \in {"ast_grep", "ripgrep", "gitleaks", "semgrep"} =>
        /\ answer.kind = "output" => answer.slice = "new" /\ (answer.outcome = Ran <=> answer.raw = "new")
        /\ answer.confidence = "high" => answer.raw = "new" /\ question.attempt.stdout = "read"

(* Where no secret is part of another, none is left in the output that     *)
(* gitleaks writes, and nothing else is taken out (gitleaks.py,            *)
(* _redact_raw_bytes).                                                     *)
Within(small, large) == \E i \in 0 .. Len(large) - Len(small) : SubSeq(large, i + 1, i + Len(small)) = small
RedactedIsWhole ==
    asked = "redact" =>
        LET secrets == question.secrets
            apart == \A i, j \in DOMAIN secrets : Within(secrets[i], secrets[j]) => secrets[i] = secrets[j]
        IN /\ apart => \A i \in DOMAIN secrets : ~Within(secrets[i], answer)
           /\ (\A i \in DOMAIN secrets : ~Within(secrets[i], question.raw)) => answer = question.raw

(* The same coverage is read from an lcov report and from an istanbul one: *)
(* the same files and the same covered lines                               *)
(* (test_coverage_mapping.py; _lcov_scanner.py).                           *)
CoverageAgreed ==
    (asked = "coverage" /\ answer.kind = "output" /\ answer.outcome = Ran) =>
        LET other == [question EXCEPT !.lcov = "absent"]
        IN \/ question.istanbul # "read" \/ CoverageMapping(other).outcome # Ran
           \/ answer.findings = CoverageMapping(other).findings

-----------------------------------------------------------------------------
(* What entrypoint and shell_usage say of the final stage of a Dockerfile  *)
(* is what stands in its text after the last FROM, and they say the same   *)
(* (parse_dockerfile_text, _summarize and _build_evidence).                *)
FinalStageAgreed ==
    (asked = "dockerfile" /\ question # <<>> /\ \E i \in DOMAIN question[1] : question[1][i].kind = "FROM") =>
        LET lines == question[1]
            from == SelectLastInSeq(lines, LAMBDA x : x.kind = "FROM")
            final == SubSeq(lines, from, Len(lines))
            points == SelectSeq(final, LAMBDA x : x.kind = "ENTRYPOINT")
        IN /\ answer.shell.entrypoint = IF points = <<>> THEN "absent" ELSE Last(points).form
           /\ answer.shell.entrypoint = answer.entrypoints.forms[1]
           /\ Len(SelectSeq(answer.shell.runs, LAMBDA x : x = "runtime")) = Len(SelectSeq(final, LAMBDA x : x.kind = "RUN"))

(* A trace is fresh, and has a number of shells, exactly if a scenario of  *)
(* it was completed; and a certificate is only told of where it is         *)
(* (RuntimeTraceProbe.run and _check_runtime_trace_freshness).             *)
TraceFreshIfCompleted ==
    (asked = "trace" /\ answer.slice.state = "read") =>
        LET completed == CompletedOf(answer.results) # <<>> IN
           /\ (answer.freshness = Fresh) <=> completed
           /\ (answer.dynamic # -1) <=> completed
           /\ (answer.certificate.source # "absent") => completed

(* The image is built once for all scenarios, and again only where one was *)
(* cut off (_execute_scenario and _run_all_scenarios).                     *)
ImageBuiltOnce ==
    (asked = "trace" /\ answer.slice.state = "read") =>
        answer.builds <= 1 + Len(SelectSeq(question.scenarios, LAMBDA s : s.times # "never"))

(* The vulnerabilities listed for an image are those of the packages of    *)
(* that image, whichever gather scanned them, as long as what syft said    *)
(* could be written (SbomProbe.run and CveProbe.run).                      *)
ScansOneImage ==
    (asked = "scan" /\ \A k \in DOMAIN question : question[k].syft # "unwritten") =>
        \A k \in DOMAIN answer : answer[k].cve.kind = "ran" => answer[k].cve.of = answer[k].cve.digest

(* Two gathers that trace one image, with both scanners there, are enough  *)
(* for its vulnerabilities, although cve runs before sbom                  *)
(* (_upstream_image_digest and _upstream_sbom_artifact).                   *)
ScanSettles ==
    asked = "scan" =>
        \A k \in 2 .. Len(question) :
            LET now == question[k] before == question[k - 1]
                Traces(g) == g.trace.state = "read" /\ g.trace.built # "none" /\ g.trace.coverage # "unavailable"
            IN (Traces(before) /\ Traces(now) /\ before.trace.built = now.trace.built /\ before.syft = "ok" /\ now.grype = "ok")
               => answer[k].cve = [digest |-> now.trace.built, kind |-> "ran", of |-> now.trace.built]

(* No finding that is left out is worse than one that is shown             *)
(* (_normalize_severity and _top_findings).                                *)
TopAreWorst ==
    asked = "top" =>
        \A x \in ToSet(question.matches) \ ToSet(answer) : \A y \in ToSet(answer) :
            NormalizeSeverity(y.severity) <= NormalizeSeverity(x.severity)

-----------------------------------------------------------------------------
(* Reading a skill a chunk at a time finds the front matter that the whole *)
(* file has, wherever the chunks end (_scan_frontmatter and                *)
(* _split_frontmatter).                                                    *)
ScanIsSplit ==
    asked = "frontmatter" => answer.scan = answer.split

(* Notes and skills have the same idea of where front matter ends, in a    *)
(* file whose lines end plainly and whose front matter is not empty        *)
(* (_extract_frontmatter_block and _split_frontmatter).                    *)
FrontmatterAgreed ==
    (asked = "frontmatter" /\ "r" \notin ToSet(question.data) /\ answer.split[1] # <<>>) => answer.block = answer.split

(* Every SKILL.md of every tier is accounted for once: listed, or set      *)
(* aside for one of its name in a tier that goes before it or in the       *)
(* same, or an error; and the one it was set aside for is the one that is  *)
(* listed (SkillsLoader.load_all and SkillsIndexProbe.run).                *)
EverySkillAccounted ==
    asked = "skills" =>
        /\ answer.counts[1] + answer.counts[2] + answer.counts[3] = Len(answer.skills) + Len(answer.shadowed) + Len(answer.errors)
        /\ \A s \in ToSet(answer.shadowed) : s.by <= s.tier /\ [id |-> s.id, tier |-> s.by] \in ToSet(answer.skills)
        /\ \A a, b \in DOMAIN answer.skills : answer.skills[a].id = answer.skills[b].id => a = b

(* Each rule has one verdict, in the order of the rules; a pattern that is *)
(* wanted and one that is forbidden are judged opposite ways where there   *)
(* is a file to judge, and where there is none neither is                  *)
(* (ConventionsCatalog.apply and ConventionsProbe.run).                    *)
RulesJudged ==
    asked = "conventions" =>
        LET wanted == {k \in DOMAIN answer.rules : answer.rules[k].kind = "dockerfile_pattern"}
            forbidden == {k \in DOMAIN answer.rules : answer.rules[k].kind = "dockerfile_pattern_inverted"}
        IN /\ Len(answer.results) = Len(answer.rules)
           /\ \A a \in wanted, b \in forbidden :
                << answer.results[a], answer.results[b] >>
                    \in {<< "pass", "fail" >>, << "fail", "pass" >>, << "not_applicable", "not_applicable" >>}

(* An exception that is written for this repository and can be read is     *)
(* told once, from whichever file, and still counts on its last day        *)
(* (ExceptionProbe.run).                                                   *)
ExceptionsTold ==
    asked = "exceptions" =>
        LET written == (IF question.user.reads = "ok" THEN question.user.entries ELSE <<>>)
                       \o (IF question.repo.reads = "ok" THEN question.repo.entries ELSE <<>>)
            Here(e) == e.valid /\ e.here
            Times(s, e) == Len(SelectSeq(s, LAMBDA x : x = e))
        IN \A e \in ToSet(written) : Here(e) =>
             /\ Times(answer.active, e) + Times(answer.expired, e) = Times(written, e)
             /\ e.expires = question.now => e \in ToSet(answer.active)

-----------------------------------------------------------------------------
(* The key of a probe changes when, and only when, a file it declares      *)
(* comes, goes, or changes its size, or the image of its token changes;    *)
(* what the program itself wrote is none of its inputs (key_for).          *)
KeyFollowsInputs ==
    (asked = "key" /\ answer.before # << "CacheKeyError" >>) =>
        LET Declared(f) == \E k \in DOMAIN question.probe.declared : RglobFinds(question.probe.declared[k], f)
            Inputs(repo) == {[path |-> f.path, size |-> f.size] : f \in {x \in repo.files : Declared(x) /\ x.path[1] # ".codegenie"}}
            Image(repo) == IF \E k \in DOMAIN question.probe.declared : question.probe.declared[k].token THEN repo.digest ELSE "none"
        IN (answer.before = answer.after) <=> (/\ Inputs(question.before) = Inputs(question.after)
                                               /\ Image(question.before) = Image(question.after))

(* A new version of the schema of one probe leaves the answers of all      *)
(* others in the cache, and one of the envelope those of the probes that   *)
(* have a schema (per_probe_schema_version).                               *)
SchemaBumpIsLocal ==
    asked = "schema" =>
        \A n \in {"p1", "p2"} :
            (answer[n][1] = answer[n][2]) <=> (/\ question.before.own[n] = question.after.own[n]
                                               /\ \/ question.after.own[n] # 0
                                                  \/ question.before.envelope = question.after.envelope)

(* What is below the repository is told from there, even if it is itself   *)
(* below a home, and in a text without empty names of directories no home  *)
(* is left (OutputSanitizer.scrub).                                        *)
PathsToldFromRoot ==
    asked = "scrub" =>
        LET text == question.text root == question.root
            NoEmpty == \A i \in 1 .. Len(text) - 1 : text[i] # "/" \/ text[i + 1] # "/"
        IN /\ IsPrefix(root \o << "/" >>, text) =>
                answer = ScrubString(SubSeq(text, Len(root) + 2, Len(text)), root)
           /\ NoEmpty => \A i \in DOMAIN answer : \A home \in {"Users", "home"} : HomeLength(answer, i, home) = 0

(* What has been redacted once is not found again: not a secret that the   *)
(* first pass put together, and not the mark it left (_redact_envelope and *)
(* redact_raw_artifact_bytes).                                             *)
RedactionFinal ==
    asked = "secrets" =>
        LET again == RedactEnvelope(answer.envelope.slice) IN
        /\ again.slice = answer.envelope.slice /\ again.findings_count = 0
        /\ RedactRawArtifact(answer.raw.text) = [text |-> answer.raw.text, found |-> <<>>]

(* Redacting a text at a time and redacting all of them pass by pass finds *)
(* the same secrets and leaves the same (redact_secrets and                *)
(* _redact_envelope).                                                      *)
RedactorsAgree ==
    (asked = "secrets" /\ \A k \in DOMAIN question : \A i \in DOMAIN question[k] : ~IsMark(question[k][i])) =>
        /\ answer.envelope.slice = answer.secrets.slice
        /\ answer.envelope.findings_count = answer.secrets.findings_count
        /\ ToSet(answer.envelope.fingerprints) = ToSet(answer.secrets.fingerprints)

-----------------------------------------------------------------------------
(* The store the tests use and the durable one say the same and read back  *)
(* the same as long as no transition is appended twice, which only the     *)
(* durable one refuses (InMemoryCheckpointStore.append and                 *)
(* SqliteCheckpointStore.append).                                          *)
StoresAgree ==
    (asked = "append" /\ \A a, b \in DOMAIN question : question[a].id = question[b].id => a = b) => answer.memory = answer.sqlite

(* From what is read back of a workflow the heads can be folded again,     *)
(* although what was written had secrets taken out of it (append).         *)
HeadsReproduced ==
    asked = "append" =>
        \A rows \in {answer.memory.rows, answer.sqlite.rows} :
            \A k \in DOMAIN rows : rows[k].head = SubSeq(ReadAll(rows), 1, k)

(* Where a package comes from does not depend on the order in which the    *)
(* adapters were imported, and an answer of one layer never hides one of   *)
(* the other (iter_adapters_for_layer_set and assemble_provenance).        *)
AttributionOrderFree ==
    (asked = "attribute" /\ ToSet(question.one) = ToSet(question.other)) =>
        LET Finds(layer) == \E k \in DOMAIN question.one : question.one[k].layer = layer /\ question.one[k].finds = "it"
        IN /\ answer.one = answer.other
           /\ (answer.one.kind = "both") <=> (Finds("app") /\ Finds("base_image"))
           /\ (answer.one.kind = "adapter_error") => ~Finds("app") /\ ~Finds("base_image")
=============================================================================
