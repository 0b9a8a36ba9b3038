----------------------------- MODULE NodeProbes -----------------------------
(***************************************************************************)
(* The probes that read a Node.js project (language_detection,             *)
(* node_build_system, node_manifest, test_inventory in                     *)
(* src/codegenie/probes).  Each reads package.json for itself, and each    *)
(* has its own tables of lockfiles, of errors and of what they cost.       *)
(***************************************************************************)
EXTENDS Parsers, FiniteSetsExt, TLC

Rank == [low |-> 0, medium |-> 1, high |-> 2]
Demote(current, target) == IF Rank[target] < Rank[current] THEN target ELSE current

(* What an output shows of a run; none is made when an exception goes out. *)
Output(errors, warnings, confidence) ==
    [kind |-> "output", errors |-> errors, warnings |-> warnings, confidence |-> confidence]
Escaped == [kind |-> "raised", errors |-> <<>>, warnings |-> <<>>, confidence |-> "low"]

(* package.json as a probe finds it: absent, read, or a failure of its     *)
(* parser.  A dangling link exists only for who asks is_symlink too.       *)
PackageJson(pkg) == IF pkg = "dangling" THEN "symlink_refused" ELSE pkg

(* language_filter.py: a probe runs on a repository of one of its          *)
(* languages; the Node probes on one with a package.json too.              *)
AdmitsLanguages(wanted, detected) == "*" \in wanted \/ wanted \cap detected # {}
AdmitsNodeProject(wanted, detected, manifest) == AdmitsLanguages(wanted, detected) \/ manifest

-----------------------------------------------------------------------------
(* language_detection.py.  The walk meets entries in the order of the      *)
(* file system, counts links that stay in the tree without following them, *)
(* and what was counted before a directory could not be read stays.        *)
Counted(entry) == entry.lang # 0 /\ entry.kind \in {"file", "link_in_tree"}
WalkTree(entries, readable) ==
    LET seen == SelectSeq(SubSeq(entries, 1, readable), Counted)
    IN [l \in {seen[i].lang : i \in DOMAIN seen} |-> Len(SelectSeq(seen, LAMBDA e : e.lang = l))]

(* Of the languages with most files the first by name. *)
PrimaryFrom(counts) ==
    IF counts = <<>> \/ DOMAIN counts = {} THEN 0
    ELSE Min({l \in DOMAIN counts : \A k \in DOMAIN counts : counts[k] <= counts[l]})

MonorepoPrecedence == << "pnpm-workspace.yaml", "turbo.json", "nx.json", "lerna.json", "package.json" >>
DetectMonorepo(found) ==
    LET k == SelectInSeq(MonorepoPrecedence, LAMBDA f : f \in found)
    IN IF k = 0 THEN << "none", {} >> ELSE << MonorepoPrecedence[k], found \cap ToSet(MonorepoPrecedence) >>

FrameworkSeed == {"@nestjs/core", "express", "fastify", "next", "koa", "@hapi/hapi"}
FrameworkHints(deps) == deps \cap FrameworkSeed

LanguageFailureCost == [size_cap_exceeded |-> "medium", symlink_refused |-> "low",
                        malformed |-> "medium", depth_cap_exceeded |-> "low"]
LanguageFailures == DOMAIN LanguageFailureCost
DetectLanguages(r) ==
    LET pkg == IF r.pkg = "dangling" THEN "absent" ELSE r.pkg
        walked == IF r.readable < Len(r.entries) THEN << "os_error" >> ELSE <<>>
        failed == IF pkg \in LanguageFailures THEN << pkg >> ELSE <<>>
        confidence == IF walked = <<>> THEN "high" ELSE "low"
        counts == WalkTree(r.entries, r.readable)
    IN IF pkg \in {"os_error", "not_utf8"} THEN Escaped
       ELSE Output(walked \o failed, <<>>,
                   IF failed = <<>> THEN confidence ELSE Demote(confidence, LanguageFailureCost[pkg]))
            @@ [counts |-> counts, primary |-> PrimaryFrom(counts),
                hints |-> IF pkg = "ok" THEN FrameworkHints(r.deps) ELSE {},
                monorepo |-> DetectMonorepo(r.markers \ (IF pkg = "ok" THEN {} ELSE {"package.json"}))]

-----------------------------------------------------------------------------
(* node_build_system.py *)
LockfilePrecedence == << "bun", "pnpm", "yarn", "npm" >>
SelectManager(found) ==
    LET present == SelectSeq(LockfilePrecedence, LAMBDA m : m \in found)
    IN IF present = <<>> THEN [manager |-> "none", additional |-> <<>>]
       ELSE [manager |-> Head(present), additional |-> Tail(present)]

BerryMarkers == {".yarnrc.yml", ".yarn", ".pnp.cjs", ".pnp.loader.mjs"}

(* packageManager is [declared, form, major]: the form is "major" when it  *)
(* reads yarn@<digits>., "word" after an @, or has no @.                   *)
DetectYarnVariant(field, markers) ==
    LET berry == markers \cap BerryMarkers # {}
        read == field.declared = "yarn" /\ field.form = "major"
    IN CASE read /\ field.major = 1 -> << "classic", <<>> >>
         [] read /\ field.major >= 2 -> << "berry", <<>> >>
         [] OTHER -> << IF berry THEN "berry" ELSE "classic",
                        (IF field.declared = "yarn" /\ ~read THEN << "field_unparseable" >> ELSE <<>>)
                        \o (IF berry THEN <<>> ELSE << "variant_inferred" >>) >>
Disagrees(field, manager) ==
    field.declared # "none" /\ field.form # "no_at" /\ manager # "none" /\ field.declared # manager

(* The chain of extends, five files at most: the options of the last file  *)
(* that was read and has some.  A file that is not there raises.           *)
ExtendsMaxDepth == 4
ExtendsStart == [at |-> 1, visited |-> {}, options |-> 0, warnings |-> <<>>, ended |-> "no"]

CutAs(w, warning) == [w EXCEPT !.ended = "stopped", !.warnings = << warning >>]
Follow(w, next) == [w EXCEPT !.at = next, !.visited = @ \cup {w.at}]

(* One file of the chain, the depth-th after the first *)
ReadExtends(files, w, depth) ==
    LET file == files[w.at]
        read == [w EXCEPT !.options = IF file.options THEN w.at ELSE @]
    IN IF file.extends = 0 THEN [read EXCEPT !.ended = "stopped"]
       ELSE IF depth = ExtendsMaxDepth
       THEN CutAs(read, "extends_depth_exceeded")
       ELSE Follow(read, file.extends)

(* Mutant: the files that were read are not remembered. *)
WalkExtendsForgetful(files, w, depth) ==
    LET file == files[w.at] IN
    IF ~file.inside \/ file.read # "ok" THEN [w EXCEPT !.ended = "stopped"] ELSE ReadExtends(files, w, depth)

WalkExtends(files, w, depth) ==
    LET file == files[w.at]
        caught == file.read \in {"size_cap_exceeded", "symlink_refused", "malformed"}
    IN IF ~file.inside THEN [w EXCEPT !.ended = "stopped"]
       ELSE IF w.at \in w.visited THEN CutAs(w, "extends_cycle")
       ELSE IF file.read # "ok" THEN [w EXCEPT !.ended = IF caught THEN "stopped" ELSE file.read]
       ELSE ReadExtends(files, w, depth)

Extends(files) ==
    LET walk[k \in 0 .. ExtendsMaxDepth + 1] ==
            IF k = 0 THEN ExtendsStart
            ELSE IF walk[k - 1].ended # "no" THEN walk[k - 1] ELSE WalkExtends(files, walk[k - 1], k - 1)
    IN walk[ExtendsMaxDepth + 1]

(* The version a file pins: its first line that is not blank; of           *)
(* .tool-versions the first line for node.  A version is 0 for none.       *)
ReadFirstLine(lines) == LET k == SelectInSeq(lines, LAMBDA v : v # 0) IN IF k = 0 THEN 0 ELSE lines[k]
ReadToolVersions(lines) ==
    LET k == SelectInSeq(lines, LAMBDA l : l[1] = "node") IN IF k = 0 THEN 0 ELSE lines[k][2]
PinnedVersion(pins) ==
    ReadFirstLine(<< ReadFirstLine(pins.nvmrc), ReadFirstLine(pins.nodeVersion), ReadToolVersions(pins.tools) >>)

(* node --version: no version and no complaint unless it printed something *)
(* else.  Versions from 100 on are not semver.                             *)
ResolveNodeVersion(ended) ==
    CASE ended \in {"missing", "timeout", "disallowed", "os_error", "nonzero"} -> << 0, <<>> >>
      [] ended = "unparseable" -> << 0, << "version_unparseable" >> >>
      [] ended = "printed" -> << 20, <<>> >>
VersionsDisagree(pinned, local) == pinned \in 1 .. 99 /\ local # 0 /\ pinned # local

BundlersSorted == << "esbuild", "parcel", "rollup", "turbopack", "vite", "webpack" >>
BundlerFrom(deps) ==
    LET k == SelectInSeq(BundlersSorted, LAMBDA b : b \in deps) IN IF k = 0 THEN "none" ELSE BundlersSorted[k]

BuildFailures == {"size_cap_exceeded", "malformed", "symlink_refused", "depth_cap_exceeded"}
NodeBuildSystem(r) ==
    LET picked == SelectManager(r.locks)
        multi == IF picked.additional = <<>> THEN <<>> ELSE << "multi_lockfile" >>
        confidence == IF multi = <<>> THEN "high" ELSE "low"
        pkg == PackageJson(r.pkg)
        field == IF pkg = "ok" THEN r.field ELSE [declared |-> "none", form |-> "no_at", major |-> 0]
        yarn == IF picked.manager = "yarn" THEN DetectYarnVariant(field, r.markers) ELSE << "none", <<>> >>
        disagree == IF Disagrees(field, picked.manager) THEN << "declaration_disagree" >> ELSE <<>>
        ts == IF r.ts = <<>> THEN [options |-> 0, warnings |-> <<>>, ended |-> "stopped"] ELSE Extends(r.ts)
        local == ResolveNodeVersion(r.node)
        versions == IF VersionsDisagree(PinnedVersion(r.pins), local[1]) THEN << "versions_disagree" >> ELSE <<>>
        warnings == multi \o yarn[2] \o disagree
                    \o (IF ts.ended = "stopped" THEN ts.warnings ELSE <<>>) \o local[2] \o versions
        built == [manager |-> picked.manager, variant |-> yarn[1], additional |-> picked.additional,
                  options |-> ts.options, bundler |-> IF pkg = "ok" THEN BundlerFrom(r.deps) ELSE "none"]
    IN CASE pkg \in BuildFailures ->
              Output(<< pkg >>, multi, "low") @@ [built EXCEPT !.variant = "none", !.options = 0]
         [] pkg \in {"os_error", "not_utf8"} \/ (pkg \in {"ok", "absent"} /\ ts.ended \in {"missing", "os_error", "not_utf8"}) -> Escaped
         [] OTHER -> IF ts.ended = "depth_cap_exceeded"
                     THEN Output(<< "tsconfig_depth" >>, warnings, "low") @@ [built EXCEPT !.options = 0]
                     ELSE Output(<<>>, warnings, confidence) @@ built

-----------------------------------------------------------------------------
(* node_manifest.py: the lockfile it parses, and what it finds in it.      *)
ParseableLockfiles == << "pnpm", "yarn", "npm" >>
AllLockfiles == ParseableLockfiles \o << "bun" >>

LastWins(pairs) ==
    [n \in {pairs[i][1] : i \in DOMAIN pairs} |-> pairs[SelectLastInSeq(pairs, LAMBDA p : p[1] = n)][2]]

(* A key of npm's lockfile is the path of packages it is installed under;  *)
(* the walk of an old one meets its entries in the same order.             *)
NameOfPath(path) == Last(path)
FlattenNpm(entries) == LastWins([i \in DOMAIN entries |-> << NameOfPath(entries[i].path), entries[i].version >>])

(* A key of pnpm's is name@version or name/version, with or without a      *)
(* scope, and may end with the peers: the slash is told only in an         *)
(* unscoped name without an @, and a scoped one with it is passed over.    *)
FlattenPnpm(entries) ==
    LET read == SelectSeq(entries, LAMBDA e : ~(e.slash /\ e.scoped))
    IN LastWins([i \in DOMAIN read |->
          << IF read[i].slash /\ read[i].peers = "underscore" THEN "no_name" ELSE Last(read[i].path), read[i].version >>])

(* A key of yarn's names several ranges of packages. *)
FlattenYarn(entries) ==
    LastWins(FlattenSeq([i \in DOMAIN entries |-> [j \in DOMAIN entries[i].path |-> << entries[i].path[j], entries[i].version >>]]))
Flatten(kind, entries) ==
    CASE kind = "npm" -> FlattenNpm(entries) [] kind = "pnpm" -> FlattenPnpm(entries) [] kind = "yarn" -> FlattenYarn(entries)

NativeHits(resolved, catalog) == {<< n, resolved[n] >> : n \in catalog \cap DOMAIN resolved}

ManifestFailures == {"size_cap_exceeded", "malformed", "symlink_refused", "depth_cap_exceeded"}
LockfileFailures == {"size_cap_exceeded", "depth_cap_exceeded", "malformed_lockfile", "symlink_refused"}
NodeManifest(r) ==
    LET pkg == PackageJson(r.pkg)
        k == SelectInSeq(ParseableLockfiles, LAMBDA f : f \in r.locks)
        selected == IF k = 0 THEN "none" ELSE ParseableLockfiles[k]
        many == Cardinality(r.locks \cap ToSet(AllLockfiles)) >= 2
        failed == selected # "none" /\ r.lock \in LockfileFailures
        resolved == IF selected = "none" \/ failed THEN <<>> ELSE Flatten(selected, r.installed)
        multi == IF many THEN << "multi_present" >> ELSE <<>>
    IN CASE pkg \in ManifestFailures -> Output(<< pkg >>, <<>>, "low") @@ [lockfile |-> "none", native |-> {}]
         [] (pkg \notin ManifestFailures \cup {"ok", "absent"}) \/ (pkg \in {"ok", "absent"} /\ selected # "none" /\ r.lock \in {"os_error", "not_utf8"}) ->
              Escaped
         [] OTHER -> Output(IF failed THEN << << selected, r.lock >> >> ELSE <<>>, multi,
                            IF many \/ failed THEN "low" ELSE "high")
                     @@ [lockfile |-> selected, native |-> NativeHits(resolved, {"bcrypt", "sharp"})]

-----------------------------------------------------------------------------
(* test_inventory.py *)
FrameworkDetectors == << "vitest", "jest", "mocha", "tap" >>
E2eDetectors == << "@playwright/test", "cypress" >>
SelectTool(detectors, deps) ==
    LET hits == SelectSeq(detectors, LAMBDA d : d \in deps)
    IN [tool |-> IF hits = <<>> THEN "none" ELSE Head(hits), ambiguous |-> Len(hits) > 1]

(* A range of node is [op, major]: only >=, ^ and ~ with digits are read. *)
EnginesAtLeast(range, major) == range.op \in {">=", "^", "~"} /\ range.major >= major
ClassifyNodeTest(range, framework) ==
    IF framework # "none" THEN framework ELSE IF EnginesAtLeast(range, 18) THEN "node_test" ELSE "none"

(* Files of a test pattern, once each, outside the directories of noise.   *)
CountTestFiles(files) == Cardinality({f \in files : f.test /\ ~f.noise})
SmokePrecedence == << "scripts/smoke.sh", "scripts/smoke.js", "scripts/smoke.ts", "tests/smoke" >>
SelectSmokePath(found) ==
    LET k == SelectInSeq(SmokePrecedence, LAMBDA p : p \in found) IN IF k = 0 THEN "none" ELSE SmokePrecedence[k]
CanonicalScripts == {"test", "test:unit", "test:integration", "test:smoke", "test:e2e", "test:coverage"}

ReadCoverage(file) ==
    CASE file = "absent" -> [present |-> FALSE, error |-> FALSE, warnings |-> <<>>]
      [] file = "ok" -> [present |-> TRUE, error |-> FALSE, warnings |-> <<>>]
      [] file = "size_cap_exceeded" -> [present |-> TRUE, error |-> TRUE, warnings |-> << "size_cap_exceeded" >>]
      [] file \in {"symlink_refused", "os_error"} ->
           [present |-> TRUE, error |-> TRUE, warnings |-> << "lcov_parse_error" >>]

InventoryFailures == {"size_cap_exceeded", "malformed", "symlink_refused", "depth_cap_exceeded"}
TestInventory(r) ==
    LET pkg == PackageJson(r.pkg)
        deps == IF pkg = "ok" THEN r.deps ELSE {}
        range == IF pkg = "ok" THEN r.engines ELSE [op |-> "none", major |-> 0]
        unit == SelectTool(FrameworkDetectors, deps)
        e2e == SelectTool(E2eDetectors, deps)
        coverage == ReadCoverage(r.coverage)
    IN CASE pkg \in InventoryFailures ->
              Output(<< pkg >>, <<>>, "low") @@ [framework |-> "none", files |-> 0]
         [] pkg \in {"os_error", "not_utf8"} -> Escaped
         [] OTHER -> Output(<<>>, (IF unit.ambiguous THEN << "framework_ambiguous" >> ELSE <<>>)
                                  \o (IF e2e.ambiguous THEN << "e2e_ambiguous" >> ELSE <<>>) \o coverage.warnings, "high")
                     @@ [framework |-> ClassifyNodeTest(range, unit.tool), e2e |-> e2e.tool,
                         files |-> CountTestFiles(r.files), smoke |-> SelectSmokePath(r.smoke),
                         commands |-> r.scripts \cap CanonicalScripts, covered |-> coverage.present]
=============================================================================
