# TLA+ models of codewizard-sherpa

Specifications of `codegenie`: state machines for its concurrent and durable
parts, functions for the decisions of its sequential ones; model-checked with TLC
and, for what matters most, proved with TLAPS for every value of the
constants. Paths below are relative to `src/codegenie/` of the repository unless
they begin with `docs/` or `tests/`. `PROJECT.json` maps every definition to the
lines it stands for and lists runs, mutants, findings, hazards and theorems.

## 1. Inventory

### What the system does

`codegenie gather` runs a set of *probes* over a checked-out repository and
writes `repo-context.yaml`. A remediation workflow then reads that context, looks
for a recipe for a vulnerability, falls back to a language model with a store of
solved examples, applies the change in a sandbox, scores it and leaves a branch.
The gather pipeline is complete. Of the remediation workflow the repository has the
building blocks (event log, checkpoints, example store, budget, leaf adapter,
recipes, sandbox), with the orchestrator and most of the fallback cascade still
to come (`fallback/tier.py` `run` is a placeholder).

### Components with state that actors share, or that outlives a crash

| component | state it keeps | operations | hard behaviours | what makes it correct |
|---|---|---|---|---|
| probe cache, `cache/store.py` | blobs, `index.jsonl`, in-memory view and its file size | `get`, `put`, `_load_index` | several processes append while others read; crashes and short writes between blob and line; TTL | a hit is a whole, unexpired output that was put under that key |
| coordinator, `coordinator/coordinator.py` | waves, semaphore, executions, enriched snapshot | `gather`, `_dispatch_one`, `_run_probe_with_isolation` | asyncio interleavings, timeouts, cancellation, edits of the repository in between | every probe is accounted for; a cached output belongs to its key; the tail sees its siblings |
| input snapshot and memo, `coordinator/input_snapshot.py`, `parsed_manifest_memo.py` | pinned hashes, parses by hash | pin, read through the memo | edit between hash and read | one pin, one parse |
| subprocess chokepoint, `exec/__init__.py` | `_RUNNING_PROCS` | `run_allowlisted`, escalation, sweep | timeout against exit against cancellation | the table follows the calls; no child is left behind |
| output and audit, `cli.py`, `output/writer.py`, `audit.py` | raw files, YAML, the rejected sibling, run records | `gather`'s second half, `write`, `record`, `verify` | failures and deaths between the files, concurrent gathers | what is reported as done is there, redacted and its own |
| checkpoints and ledger, `workflows/sqlite_checkpoints.py`, `vuln_ledger.py`, `_chain.py` | `checkpoint_chain` rows, flock | `append`, `lock`, `tail_chain_head` | two orchestrators, crash at any point, retries | one unforked chain, each transition once, one legal path |
| replay, `workflows/replay.py` | none | `verify`, `hydrate_or_fail` | damaged files | what is verified was committed |
| solved-example store, `rag/store.py`, harvest in `fallback/tier.py` | records, index, manifest with chain head, roster in memory | open, `contains`, `add` | lock, worker thread, cancellation, failure of each of three writes, several processes | the manifest lists only what exists and can be found, in a stable order, under the right head |
| rebuild, `rag/cli.py` | the same files | `rag rebuild` | death half-way | the manifest is reproduced |
| event log, `plugins/events.py` | two zstd streams, flock, chain head | open, `emit_internal`, `emit_spanning`, `replay` | several processes, torn frames, timestamps taken before the lock | an unforked chain; a replay that answers leaves nothing out |
| vulnerability index, `vuln_index/`, `cli.py` | sqlite table, one digest per feed | `refresh` of feeds | failures between migration, rows and digest; refreshes that overlap | a digest names one content |
| bundles, `plugins/bundle.py`, `cache.py`, `cache_gc.py` | chains under way, bundle files by key, gc stamp | `build`, `put`, `get`, `run`, `run_amortized` | chains that fail while others run, collector against writers, two collectors | an entry is its query's best; a fresh bundle stays |
| fallback budget and leaf adapter, `fallback/budget.py`, `fallback/leaf/` | consumed, outstanding, reconciled | `precharge`, `reconcile`, `running_total`, `invoke` | overlapping calls, overruns, retries and what they cost | the cap holds; every mint is accounted for |

### Components that decide

These are sequential. What is hard about them is the combination of faults, orders and
formats, and that several of them must agree.

| component | decides | what makes it correct |
|---|---|---|
| cache keys, `cache/keys.py`, `hashing.py` | what an answer is filed under | the key follows exactly the declared inputs |
| sanitizer and redactor, `output/` | what leaves the program | redaction is final; two redactors agree; paths are told from the root |
| plugin kernel, `plugins/` | which plugins load, resolve, in which order recipes are asked | nothing runs unverified; the most specific wins; bases come first |
| transforms, trust scorer, `transforms/` | which recipe, what an engine leaves, which lockfile, the score | applied means written by npm and read; a foreign origin is named |
| jail, `transforms/sandbox/`, `exec/` | set-up, classification of an end, the seccomp program | exactly the blocked calls are killed; a time-out is no OOM; nothing stays behind |
| fallback gates, fence, cassettes, `fallback/` | what a prompt may hold, what a cassette may hold | the fence cannot be closed from inside; what is sanitised is clean |
| retrieval, `rag/` | which example is answered | it is the best verified one |
| parsers, `parsers/`, `probes/_lockfiles`, `_lcov_scanner.py` | what a file says, or how it fails | caps are exact; entries keep to themselves |
| layer A probes, `probes/*.py` | languages, build system, manifest, tests, CI, deployment | probes that read the same file agree |
| layer B and G probes, index freshness | indices, graphs, scanners, and whether they are fresh | a failed index is never called fresh |
| layer C probes | Dockerfiles, traces, packages, vulnerabilities | the scans are of one image |
| layer D probes, skills, conventions | what people wrote down | everything found is listed, set aside or told |
| in-memory checkpoints, provenance assembly | the test double; where a package comes from | it agrees with the durable store; no order matters |

Interactions: the CLI calls `gather` once; `gather` asks the cache before and
after each run and owns the memo; a probe reaches the outside only through
`run_allowlisted`, whose table the coordinator sweeps; the coordinator's
timeouts cancel the awaits inside it; the CLI then publishes raw files, YAML and
audit record. On the remediation side the workflow
emits to the event log, appends to the checkpoint store and hydrates from it
through the verifier; the tier harvests validated outcomes into the example
store; the rebuild command works on the same directory. The bundle cache is keyed
by, among others, the digest of the vulnerability index. Probes meet in files:
`index_health`, `runtime_trace`, `sbom` and `cve` read the slices the others left,
of this gather or of an earlier one.

`PROJECT.json` lists each part with its status and, where it is not modelled, why.

## 2. Plan and where it stands

Order: by how much depends on the component and how little of its behaviour a
test can reach. All of it is done but the last entries.

1. `CacheStore`, with `CacheContract` as what it promises.
2. `ProbeRun` (one run, its subprocesses, the sweep) and `Gather` (waves, cache,
   memo, edits). `Gather` stands on the other two: a run in it ends as
   `ProbeRun` ends, its cache is one that meets `CacheContract` and may lose entries.
3. `Checkpoints`: the durable ledger and its replay.
4. `RagStore`: store, harvest and rebuild.
5. `EventLog`: both streams, with proofs.
6. `LeafBudget`: the budget with the adapter's retries as its client, with proofs.
7. `VulnIndex` and `Bundles`.
8. `Publish`: what a gather leaves on the disk.
9. `Decisions`: the sequential components as functions, each against what it is for.
10. The remaining safety properties of `Checkpoints` and `RagStore`, and those of `Bundles`, proved.
11. `Publish`, `VulnIndex`, the sums of `LeafBudget` and all properties of the `Decisions` that its run checks, proved.
12. *Left:* one model that composes `Gather`, `ProbeRun` and `CacheStore` in
    place of the abstraction of step 2; the fallback cascade, once `tier.run` is more than a placeholder.

## 3. The models

### CacheStore, CacheContract

`index` is the sequence of writes made to `index.jsonl`, `blobs` what each content-named
file holds (`absent`, `whole`, `cut`), `memory` and `memSize` each process's `_index_cache`
and `_index_size`. `get` is cut where another process can act: measuring the file (`GetStat`),
loading it (`GetLoad`), judging the record (`GetMiss`, `GetFresh`), reading the blob (`GetBlob`). `put` is
`PutBegin` (record and time), `PutBlob`, `PutAppend`, `PutRemember` (update of the
view and its size). `Restart` is the death of a process anywhere, `Tick` the clock. With `ShortWrites`
the kernel may cut any write; a cut line also spoils the line glued to it.

`CacheContract` is what callers rely on: `Put` makes an output servable, `Serve`
hands out only servable ones not older than the TTL. `MeetsContract` is that `CacheStore` implements it.

- `IndexedBlobExists`: no line names a missing blob, whatever dies when.
- `HitWasPut`: a hit has the whole bytes of an output put under that key, not older than the TTL.
- `ViewNeverGoesBack`: a live view never returns to an older record of a key.

### ProbeRun

Each probe is a task on one event loop with at most `MaxSpawns` tools. `pc` follows
`_run_probe_with_isolation` and, inside it, `run_allowlisted` (`communicate`, `terminate`);
`table` is `_RUNNING_PROCS`; `child` is the operating system's view. `ChildExits` is the tool's own doing;
`Timeout` is `asyncio.wait_for` firing, whose cancellation unwinds the call and its `finally`; `Sweep`
is `_kill_tracked_subprocesses` after the grace.

- `TableAccurate`: the table names exactly the children some call awaits.
- `ReturnedCallsLeaveNoChild`: a call that came back left no live child.
- `EveryRunEnds` (liveness): every probe gets an outcome, whatever its tools do.

### Gather

`phase` is the stage of `gather` (prelude, rest, tail), `pc` each dispatch, `cache` per probe and
content, `memo`, `key`, `pin` and `made` what a dispatch computed from the
repository as it was when it looked. `Edit` changes the repository at any time, `Expire` loses
a cache entry, `Crash` ends a gather. A dispatch has the awaits of `_dispatch_one` as its cuts: key and lookup are one step,
pinning another, reading another, put the last.

- `SiblingsFirst`: a `runs_last` probe starts after all others, and after its predecessors.
- `GatherAccounts`: a gather that returned has one execution per probe and skipped exactly the
  filtered ones without their language.
- `OutputsMatchKey`: unless an edit fell into a gather, every output was made from the content its key stands for.
- `SamePinSameParse`: equal pins were given equal parses, edits or not.
- `EveryGatherEnds` (liveness).
- `WarmRunEnriched` (does not hold, run `gather_warm`).

### Publish

The second half of a gather, by several processes. A file on disk is named by the run that wrote it; a raw
file also by whose bytes it has and whether they were redacted, for a cached answer publishes the bytes some
earlier run staged at its path. `Collect` reads the staged files, `PutRaw` and `PutEnvelope` are the atomic
replaces of `Writer.write`, `ReadBack` is the read of the YAML for the audit record, `Record` its writing;
`Reject`, `WriteInvalid`, `ReplaceInvalid` are the sibling `repo-context.yaml.invalid`, with inodes because its
temporary file has one name for all processes. `Fail` and `Die` may come at any point. `log` remembers of
each run what it listed, wrote and reported, and which runs had ended before it began.

- `RawsFirst`, `PartialIsTold`: the YAML never lies beside a missing raw file or one of a run long gone, and a half-published
  gather never exits 0.
- `ListedIsClean`: raw files of a run that succeeded are redacted ones.
- `AnchorsNear`, `VerifiesAfterSuccess`: a record anchors its own YAML or that of a run that overlapped.
- `BytesOfTheRun`: a probe that ran has its bytes published, not those of an earlier run.
- `EitherOr`, `InvalidWhole`: the rejected sibling and the YAML are never of one run; only two rejected gathers at once tear the sibling.

### Checkpoints

`rows` is `checkpoint_chain`; a chain head is the sequence of events it was folded from (BLAKE3 taken to be
injective). `append` is `Submit` (boundary check), `Acquire` (flock), `ReadTail`, `Insert` or `Reject`
(UNIQUE), `Return`. The orchestrator itself is external: it hydrates, moves along `_LEGAL_TRANSITIONS`,
records what is a semantic boundary. `Damage` alters, garbles or drops one row. `company` remembers whether two orchestrators were ever up at a time.

- `ChainUnforked`, `TransitionsOnce`, `LockHeldInside`: for any concurrency and any crash.
- `VerifiedWasCommitted`: what the verifier passes was committed, in that order, after any damage.
- `LedgerContinuous`: one orchestrator at a time, resumed anywhere, leaves one legal path.
- `AppendsEnd` (liveness): an append that began ends.

### EventLog

`frames` is the shared spanning file, `internal` the file of each workflow; a frame is its event, its chain
head and whether all its bytes are there. `Open` is the constructor with its unlocked read; `EmitInternal` one
append to the own file; a spanning emit is `Stamp` (time and id, before the lock), `Acquire`, `ReadTail` or
`Refuse` (a frame that does not decode), `BeginWrite`, `EndWrite`, `Return`. A write may be cut short, at most `MaxShort`
times, and `Crash` may come inside it. `acked`, `kept` and `seen` are history: acknowledged events, and which of
them were acknowledged when an event was stamped.

- `ChainUnforked`, `TornIsLast`: the chain never forks, and nothing follows a torn frame.
- `ReplayLosesNothing`: a replay that answers has every acknowledged event.
- `ReplayFollowsChain`: order in replay and chain differ only for emits that overlapped, or within a tick of the clock.
- `RefusedByTheTornOnly`: under the lock nobody refuses because of a frame that is still being written.
- `LockHeldInside`, `EmitsEnd` (liveness).

### RagStore

`yaml`, `index` and `manifest` are the three stores on disk, `recordIds` each process's roster
`_record_ids`. A harvest is `Check` (`contains`, before the lock), `WriteRecord` (lock, YAML, hand-over
to the thread: no await in between), `ThreadEnds` or `ThreadRaises`, `List` (roster, chain head, manifest), with
`GiveUp` (thirty seconds), `Cancel` (the `finally` frees the lock, the thread runs on) and `Stop` (the process dies). The
rebuild is `Parse`, `Wipe`, `Unlink`, `AddAgain` per record, `Succeed`, `Exit`, `Abort` anywhere.
A record's bytes are named by the harvest that wrote them. Reading the records and replacing the manifest in
`List` is one step. The rebuild runs while no process has the store open.

- `ListedExist`: no store ever fails to open for a missing record file.
- `HeadMatches`: the manifest's head is the roll over the files as they are, but for records that an unfinished second harvest rewrote.
- `ListedQueryable`: every listed record is in the index, unless a rebuild was cut short and none succeeded since.
- `HarvestsStay`, `OrderKept`: what was announced stays listed, and the order only grows at its end, while processes come one after the other.
- `RebuildReproduces`: a rebuild that exits 0 reproduced the manifest and an index of exactly its records.

### LeafBudget

The guard of one workflow (`consumed`, `dollars`, `outstanding`, `reconciled`) and the calls that share it.
`Precharge` and `Reconcile` are whole methods: they have no suspension point. A call is `Invoke`, then per request
`Create`: the service fails it in a way that is retried, or not, or answers with a message that parses or does not; a
message that does not parse buys one more request. The caller is external: it precharges, invokes, and reconciles what an answer reports, perhaps twice.

- `CapsHold`: overlapping calls keep to the caps, and `running_total` answers, unless some call overran its precharge.
- `FoldedOnce`: a call is folded in once, however often it is reconciled.
- `MintsAccounted`: a token is outstanding or reconciled, never both; that of a failed call stays outstanding.
- `RequestsBounded`, `CallsEnd` (liveness).

### VulnIndex

`table` holds rows keyed as the table's UNIQUE constraint, `digest` each feed's records as last hashed,
`upstream` what the feeds say now. A refresher is `Start`, `BeginMigration`, `EndMigration`, per feed `Fetch` or
`FetchFails`, `Ingest` (the rows of one feed, one commit), `UpdateFeedDigest`, then `Finish` with its exit code; `Die` comes
anywhere. `Publish` lets the feeds change.

- `DigestCovered`: a digest stands only for records whose key is in the table.
- `DigestNamesTable`: between refreshes that neither overlapped nor died, of feeds that only grow, digest and table agree. Each of the
  conditions is needed.
- `RowsStay` (action): a row in the table never changes. `ExitTells`, `RefreshEnds` (liveness).

### Bundles

A builder is the process of a workflow: `Get`, then `BuildStep` (a chain takes a slot of the semaphore, its adapter answers, it falls
back to the next link or fails the build), then `Put`. A chain holds one slot for all of its links. A collector
measures and unlinks bundle by bundle (`Measure`, `Unlink`, `EndRun`), on command (`Prune`) or amortised (`RunAmortized`, under its lock file). The
clock goes forth and back. The caller of `get` and `put` is external: the repository has only the two methods.

- `SlotsBounded`, `EntriesAnswer`, `EventsCount`: whatever order the chains end in, and after one has failed the build.
- `GetsWhole`: who gets a bundle gets one built for its key.
- `FreshStays`, `OncePerInterval` (action properties): what the collector may never do. `BuildsEnd` (liveness).

### Decisions and the modules of its areas

`Decisions` asks one question: `Ask(kind, Answer)` chooses a question of a kind and answers it with the
code's function, an operator of the area's module; each invariant is about the answers of one kind. The state machine is
only the enumeration: a question is an input of the code, with its faults, orders and formats from small sets, and
the property is what the function is for, stated without its algorithm (a definition over sets instead of a loop, a second
implementation of the repository that must agree, a round trip). Where the code keeps state between calls (a registry, a table of embeddings, a
slice left by an earlier gather) the question is a sequence of calls.

| module | functions | properties |
|---|---|---|
| `Plugins` | loading and its gates, resolution, chains of bases, recipes, sandbox paths, capabilities, manifests | `NothingRunsUnverified`, `ResolvesToBest`, `BasesFirst`, `AskedInOneOrder` |
| `Transforms` | matching, npm and OpenRewrite engines, lockfile policy, scores, reports | `FirstThatApplies`, `AppliedIsWhole`, `EveryForeignNamed`, `ReportOldOrNew` |
| `Jail` | set-up and end of a run under bwrap, sandbox-exec and the chokepoint; the seccomp program, run jump by jump | `FilterKillsExactly`, `KilledIsExplained`, `NothingLeftBehind`, `TailWithinCap` |
| `Fallback` | gates, plans, fence, cassettes, egress guard | `SanitisedIsClean`, `RebuiltReadsBack`, `FenceStaysShut` |
| `Retrieval` | bands, exclusion, provenance, embedding cache | `SelectedIsVerifiedBest`, `EachTextItsOwn` |
| `Parsers` | comments of JSONC, depth caps with YAML aliases, lcov, yarn.lock, failures of each loader | `OnlyCommentsGo`, `DepthCapExact`, `LcovRecordsPerFile`, `YarnVersionsTheirOwn` |
| `NodeProbes` | languages, build system, manifest, tests, `extends` of tsconfig | `ManifestFailureAgreed`, `SameManager`, `NativeFound`, `ExtendsCutForReason` |
| `DeployProbes` | deployment, CI | `OverlaysComplete` |
| `IndexProbes` | order of dispatch, scip, dependency graph, imports, coverage, scanners, freshness | `HealthReadsLast`, `IndexFailureShown`, `TsconfigRestored`, `HealthIsWorst`, `ManagersAgree`, `GraphIsCounted`, `ImportsOnce`, `TsconfigAgreed`, `RanHasItsOutput`, `RedactedIsWhole`, `CoverageAgreed` |
| `ContainerProbes` | Dockerfiles, traced runs, packages, vulnerabilities over several gathers | `FinalStageAgreed`, `TraceFreshIfCompleted`, `ImageBuiltOnce`, `ScansOneImage`, `ScanSettles`, `TopAreWorst` |
| `KnowledgeProbes` | front matter, skills, conventions, exceptions, notes | `ScanIsSplit`, `FrontmatterAgreed`, `EverySkillAccounted`, `RulesJudged`, `ExceptionsTold` |
| `Keys` | cache keys, path scrubbing, redaction | `KeyFollowsInputs`, `SchemaBumpIsLocal`, `PathsToldFromRoot`, `RedactionFinal`, `RedactorsAgree` |
| `Stores` | in-memory and durable checkpoints side by side, assembly of provenance | `StoresAgree`, `HeadsReproduced`, `AttributionOrderFree` |

`AnswersTyped` is the type invariant of them all. An operator whose comment says `mutant` is a plausible bug of the operator after it, and takes its place in no
run but that of its mutant.

## 4. Runs

| run | bounds | shows |
|---|---|---|
| `cache_store` | 2 processes, 2 keys, 2 outputs, 2 index writes, 2 instants, short writes | the cache keeps its contract and no view goes back |
| `probe_run` | 3 probes, one tool each | no call leaves a child; every run ends |
| `gather` | 4 probes (one of each kind), 2 contents, 2 gathers, 1 edit, semaphore 2 | every probe accounted for, outputs of their keys, one parse per pin, gathers end |
| `gather_warm` | the same | violation of `WarmRunEnriched` |
| `publish` | 2 processes, 3 gathers, 2 probes that stage raw files in both ways and answer in every way, failure and death at any point | what a reader may conclude from the files and the exit status |
| `checkpoints` | 2 orchestrators, 2 ids, 1 damage | the chain, the verifier, the path of the ledger |
| `event_log` | 2 workflows, 3 events, 2 instants, 1 short write | replay under races, deaths and torn frames; emits end |
| `rag_store` | 3 harvests in one process, 1 in another, 3 ids | the store and the rebuild |
| `leaf_budget` | 3 calls, usage and price over and under the precharge, 1 retry | caps and accounts of overlapping calls |
| `vuln_index` | 2 refreshes, 2 feeds that share a key, 2 chunks, 1 change | when a digest names the table |
| `bundles` | a builder with a chain of two links, one of them without an adapter, and a chain longer than the cap; a small builder; 2 collectors; 2 instants | entries are their queries' best; fresh bundles stay |
| `decisions` | half a million questions of 104 kinds | one property per area |

Each property of a passing run has a mutant, a plausible bug of the code it is about, under which
TLC finds it violated: `PROJECT.json` lists them, and the operators marked `Mutant` in the modules are their bodies.

The modules state more than the runs check. `CheckpointsMore.cfg`, `LeafBudgetMore.cfg`,
`VulnIndexMore.cfg`, `BundlesMore.cfg`, `PublishMore.cfg` and `DecisionsMore.cfg` check the rest of section 3, type invariants included, under the
bounds of the runs (the module is the one of the run); all of it holds. They have no mutants. The remaining properties of `CacheStore`, `ProbeRun`, `Gather`, `RagStore` and `EventLog` are
proved (section 6).

Why these bounds: two processes give every pairwise race of append, read and crash on one file, and a key
that is put twice gives replacement. Three probes
let a sweep hit a sibling while a third starts. The four probes of `gather` are one per role (language reporter,
filtered, memoized, tail) and two gathers are what "warm" needs; one edit separates stained from clean histories. Three gathers of `publish` are one
before, and two that overlap, so that a cached answer can lie beside bytes of all three.
In `rag_store` the three harvests of one process meet in lock, thread and roster, the fourth brings the second roster, and
three ids let a rebuild be cut after a part of them. The `checkpoints` run has rows for two transitions:
races, retries, damage and resumption fit in, the retry loop through `needs_plan` without damage (four rows) does not and rests on the proof
of `LedgerContinuous`, which bounds nothing. Three events of `event_log` are one to be torn, one that meets it and one acknowledged before. In
`leaf_budget` a third call meets the caps while two are under way. In `vuln_index` one chunk does not parse, one key is in both feeds, and one
change of a feed shows what is ignored and what withdrawn. The length-two and length-three sequences of `decisions` are the shortest in which order matters.

`CHECK_DEADLOCK FALSE` stands where the system really stops: a sequence of gathers is finite (`Gather`, `Publish`), a torn log refuses everything (`EventLog`), calls and
refreshes are made once (`LeafBudget`, `VulnIndex`), builds end (`Bundles`), a question is asked once (`Decisions`). All other runs check for deadlock.

Fairness. `ProbeRun`: the event loop starts a ready task and fires its own timers (`Start`, `Timeout`, `Sweep`); nothing is
assumed of tools, of probes or of the call's timeout. `Gather`: some enabled step that takes the
gather further is taken, which is the event loop plus `EveryRunEnds`; nobody has to start a gather,
edit, crash, and no run has to end clean. `EventLog` and `Checkpoints`: a process inside the lock takes its next step, and
the kernel does not pass over a waiter of a flock that is released again and again (strong fairness of `Acquire`); nobody has to
emit, submit, hydrate or survive. `LeafBudget`: the SDK's own timeout makes the service answer each request or fail it. `VulnIndex`: the loop has no
wait without a timeout. `Bundles`: the event loop runs what it can and adapters answer. The other modules state safety only.

## 5. Departures

A run that TLC must find violated:

- `gather_warm`: with language detection answered from the cache its counts are not merged, and the
  second wave skips the filtered probes.

More properties that are stated in the modules and do not hold; checked in place of the properties of the configuration, TLC shows how:

| property | in place of those of | what happens |
|---|---|---|
| `LastRecordServed` | `CacheStore.cfg` with 3 processes, 1 key, 1 output, 1 instant, 4 writes, whole writes | `put` takes the size the file has by now for the size of its view, so an append of another process just before goes unnoticed by this one's later reads (two processes cannot fool the size guard) |
| `NoChildOutlivesProbe` | `ProbeRun.cfg` | a probe that times out while it waits for a tool has taken the tool off the table before the sweep, and the tool lives on |
| `CleanMeansUndisturbed` | `ProbeRun.cfg` | the sweep of one probe kills the tools of its siblings, which may end clean and be cached |
| `PinnedBytes` | `Gather.cfg` | the memo parses the live file under the pinned hash |
| `AbsenceTells` | `Publish.cfg` | raw files of a run that failed lie beside the YAML of the run before; `output/writer.py:196` says partial state shows by the envelope's absence |
| `RebuildRecoversOrphans` | `RagStore.cfg` without symmetry | a rebuild reads what the manifest lists, so a record whose add did not get that far is not recovered |
| `SingleWriter` | `RagStore.cfg` without symmetry | a cancelled `add` releases the lock while its thread is still in `collection.add` |

What the models tell besides, where a docstring says otherwise or a reader may expect otherwise. Gather:

- A call whose tool exits during the grace may end with `ProcessLookupError` from `kill()` in place of
  `ProbeTimeoutError` (`exec/__init__.py:232`); in `ProbeRun` it is one of the ends of a call.
- A line of `index.jsonl` that was cut short also swallows the next, whole one (`cache/store.py:307` speaks of the torn line only).
- `gather` exits with 2 only if every probe was skipped. `audit verify` over several records of one YAML reports the older ones as mismatches by design.
- A key has a file's size but not its bytes. What is declared below `.codegenie/` is left out of keys (`cache/keys.py:222`), so `entrypoint`, `shell_usage` and
  `certificate` have a constant key; the declared inputs of layer D are constant names, whatever `skills_index.py:187` says of tokens.
- The coordinator never passes an `image_digest_resolver`, so the scans of layer C have no image in production. `cve` is
  registered before `sbom` and both run last, so it reads the packages of the gather before (`ScanSettles` says that the second gather is enough).
- `redact_secrets` has no caller; the pattern of a private key crosses texts in raw bytes and checkpoints, so that the JSON no longer reads and the append of such a checkpoint raises. A path
  with empty components, or a home without a trailing slash, is left by the scrubber.
- Parsers: a cycle of `extends` longer than five is called too deep, a missing target raises; pnpm keys of scoped packages are dropped; a lockfile that is a
  directory is present and then raises; `UnicodeDecodeError` and `RecursionError` pass the JSON loaders; an alias can hide a path deeper than the cap.
- A scip failure without a known head is a medium confidence; a raw output of an earlier gather stays when its probe fails; a malformed
  `package.json` raises before the empty dependency graph is written; the timeout of the import graph never fires, for its walk has no await.
- A traced run that exits with an error counts as completed; one that cannot start is told as a failed build; `expected_exit_code` is read by nobody.
- One malformed skill keeps the skills index from being cached.

Remediation:

- A ledger that lost its last rows verifies (`workflows/replay.py:331`): nothing records how many there should be. The in-memory store takes a transition
  twice, the durable one refuses it (`in_memory_checkpoints.py:58` claims parity).
- A spanning stream with a torn frame stays closed until somebody repairs it; a constructor, which reads without the lock, may refuse because of a frame that is still being written.
- An example id may be listed twice (`contains` is asked before the lock), and a second process with an old roster
  drops what the first has listed since. This is why `HarvestsStay` and `OrderKept` are conditional. A rebuild that dies after it removed the manifest leaves nothing, or a part, for the next one to start from.
- A database error, `database is locked` included, makes the embedding cache delete its files.
- The retry of a malformed answer is paid, but only the second message is reported; a failed call keeps its share of the cap; an overrun is folded in and makes `running_total` raise.
- A first refresh that dies in its migration leaves a file every later refresh refuses with 7; the unique key lacks feed and severity, so changes are ignored; equal ids keep the order of
  the fetch in the digest; exit 4 needs a new row, and 0 may hide a failed feed.
- Temporary files of puts that died are never collected; the digest in a bundle's key is read when its build ends.
- `load_plugins` says the registry is unchanged when it fails, but an import that raises leaves those before it; a diamond of
  `extends` lets a base that is met twice override its child; recipes of the same name and precedence are asked in order of registration.
- `package.json` stays edited when npm fails or its lockfile does not read; OpenRewrite's diff is of two files of the repository; the jail's out-of-memory count is that of codegenie's own
  cgroup; a seccomp or profile file that could not be written stays; no adapter sets a disk quota; adapters turn a cancellation into a failed set-up.
- `tier.run` always refuses, and nothing fills the table of pending anchors; a body that is neither text nor bytes is not sanitised; a cassette name with two spaces makes a lockfile that does not read back;
  a diff header without `a/` or `b/` is not compared with the plan.
- The result of a provenance adapter of the runtime layer is dropped, and the error of one is hidden when a later one resolves.

## 6. Proofs

For every value of the constants, under the named assumptions of each module (markers
outside the sets they mark, bounds natural numbers, the probe sets disjoint, each harvest in a process):

| module | theorems | inductive invariant |
|---|---|---|
| `CacheStoreProofs` | `TypeCorrect`, `BlobsPrecedeLines`, `AnswersWerePut`, `ImplementsContract`, `ViewsOnlyAdvance` | `WellFormed` (types, locals within a call, views point into the index at records of their key), then `BlobBeforeLine`: between blob and line the blob is there; `RecordsDated` and `RepliesBacked`: every record is dated in the past and every pending answer is backed by a readable line; `OwnLineNewest`: between append and remember no view is ahead of the own line |
| `GatherProofs` (of `ProbeRun`) | `RunTypeCorrect`, `TableFollowsCalls`, `CallsCleanUp` | `RunInv`: the two properties together and that an untouched probe has no child |
| `GatherProofs` | `TypeCorrect`, `TailSeesSiblings`, `EveryProbeAccounted`, `OutputsTrueToKey`, `OneParsePerPin` | `WaveInv`: which probes are done in which phase; `ContentInv`: unstained, every cache entry, key, pin and parse is of the one content; `MemoInv`: what a reader was given is still in the memo |
| `CheckpointsProofs` | `TypeCorrect`, `LockExcludes`, `OneRowPerTransition`, `OneChain`, `LedgerIsOnePath`, `OnlyCommittedVerifies` | `ChainInv`: who is about to insert has read the whole history; `PathInv`: an orchestrator stands where the last row ended; `HeadsTraced`: every event of a head, stored or read, was committed after its predecessor, and no damage reaches the heads |
| `EventLogProofs` | `TypeCorrect`, `LockExcludes`, `ChainNeverForks`, `TornFrameStaysLast`, `ReplayIsComplete`, `ReplayKeepsOrder`, `RefusalIsEarned` | `ChainInv`: who is about to write has read the head of all frames there are, and only the last frame may be torn; `OnDisk`: what was acknowledged, and what is being written, is in its stream; `OrderInv`: what had been acknowledged when an event was stamped is in the file in front of it, and no event is dated after the clock |
| `RagStoreProofs` | `TypeCorrect`, `ListedRecordsExist`, `HeadIsRoll`, `RebuildsReproduce`, `ListedIsQueryable`, `AnnouncedStaysListed`, `OrderOnlyGrows` | `FilesInv`: rosters, manifest, pending listings and the rebuild's lists all name existing files; `HostInv`: a rebuild has the store for itself; `RebuildInv`: what a rebuild has added is a prefix of what it parsed; `QueryInv`: what is listed or about to be is indexed, and only who has the store open has a roster; `StayInv`: with one process at a time its roster extends the manifest, and during the adds of a rebuild the parsed list stands for the manifest |
| `BundlesProofs` | `BundlesAnswer`, `CollectorSparesFresh` | `ChainsInv`: an ended chain was not cut by the cap, a degraded one ended at its last link, one that has not failed reported each link it left; `MeasuredInv`: a measured file is still the file that was too old, unless it is gone or was put again |
| `BundlesProofs` (of `VulnIndex`) | `IndexTypeCorrect`, `TableOnlyGrows`, `DigestsAreCovered`, `DigestsNameTheTable`, `ExitCodesTell` | `Covered`: what a refresher is about to put under a digest has its keys in the table; `Counted`: a refresher's counts are those of what it stored, refused and failed to fetch. For `DigestNamesTable`, `Quietly`: a refresher is alone (`Alone`), every row was a feed's (`Known`), a batch in hand holds all that its feed's digest held (`StillSaid`, `Replaces`), and digest and batch together name the table (`Named`), each only while nothing was withdrawn, overlapped or cut |
| `PublishProofs` | `PublishTypeCorrect`, `AnchorsAreNear`, `RawsComeFirst`, `PartialsAreTold`, `ListedAreClean`, `BytesAreOfTheRun` | `Lives`: the log names exactly the runs under way; `Drafts`: a run lists its raw files, publishes them, writes its YAML and reports success in this order; `Envelopes`: the YAML is of a run that no run that wrote one began after; `Anchors`, `Raws` and `Redacted`: the same for what was read back, lies beside it and was cleaned; `InHand`, `OnDisk`, `Settled`: the bytes a run that is alone stages, holds and has published are not those of a run that had ended before it |
| `DecisionsProofs` (of `LeafBudget`) | `TypeCorrect`, `RequestsAreBounded`, `CapsAreKept`, `EachFoldedOnce`, `MintsAreAccounted` | `TypeInv`: where a call stands bounds how often it has sent, failed and been answered, and says where its token is. `CapsHold` and `FoldedOnce` are inductive given that and what one more call adds to a sum over a finite set of calls |
| `DecisionsProofs` | `OnlyVerifiedRun`, `OnlyWholeApplied`, `FiltersKillExactly`, `SanitisedAreClean`, `EachTextGetsItsOwn`, `ChainsAreCutForReason`, `FailuresAreShown`, `KeysFollowInputs`, `HeadsAreReproduced`, `ScansSettle`, `DepthIsExact`, `SkillsAreAccounted` | `Answered`: what stands as the answer is the function's answer to what was asked; the rest are lemmas on the functions, for questions of the types of `QuestionsAssumption` |

None of the properties of the interleaving models is inductive as it stands: each needs what is
in flight between two steps (a blob without its line, a tail that was read, a list half added again).

`QuestionsAssumption` is as weak as the code's types, but for three facts: a text of a batch is a row of the modelled table (which has a value, `absent` included, for every text), a file
that a tsconfig extends is one of the files or none, and no commit or image digest is spelled like the placeholder for a missing one.

Induction. The provers cannot instantiate the library's induction theorems, whose parameter is an operator. Two forms of it that they can use carry
the proofs on data. A set of naturals has a smallest member and a set of finite sets a minimal one, so that a claim has no smallest counterexample: sums over
sets of calls are proved so, and everything claimed for each position of a sequence (`NumbersUpTo`). And a function that is given by its steps
exists (`StepsExist`), so that a recursive function of the model has the value its definition says; from this the machine that runs the filter, the walk
along `extends`, the appends of the stores and the selections from a sequence are followed step by step.

- The filter: `Reached` says after how many instructions the machine stands before which comparison, or before the verdict. The jump to the kill has a
  distance that shrinks as the list is worked off, and the invariant is that it always lands on the same instruction.
- The chain of tsconfigs: `WalkInv` says that after k rounds the first k files were read, none of them twice, or the walk was cut at a file for its reason.
- The heads: `Foldable` says that every stored head is the sequence of what is stored up to its row; a refused append keeps it, and so does one whose secret was taken out.
- Batches: the list of what the table lacks has each text once, so that the vector found for a text is its own.

- Nesting, at the model's cap of 2 for any containers: the walk is a function of a container, its depth and those seen before. It exists because a visit needs only the level below it; a visit only adds to
  what was seen; and in a tree no container of the first three levels was seen when the walk comes to it, so that a walk that does not raise has been everywhere.
- Scans: three probes keep their order when they are sorted, whatever the names before them, so that what a scan reads is what the gather before left.
- Skills: `LoadedTo` says that after n files the listed, the set aside and the errors are n, no name is listed twice, and whatever was set aside was so for one that is listed and
  comes no later. A sort keeps its members because the rank of a position, the number of those that go before it, is one to one.

Only model-checked: liveness (`EveryRunEnds`, `EveryGatherEnds` and `EmitsEnd` in the runs, `AppendsEnd`, `CallsEnd`, `RefreshEnds`, `BuildsEnd` in the further
configurations), which needs `ENABLED`; and of what only those configurations check `SlotsBounded`, `EventsCount`, `GetsWhole` and `OncePerInterval` of `Bundles`,
`VerifiesAfterSuccess`, `EitherOr` and `InvalidWhole` of `Publish` and the properties of `DecisionsMore.cfg`. Every invariant and every other action property of the runs is the
statement of a theorem. The provers have no definition of `SelectSeq`, `SortSeq`, `FoldLeft`, `@@` and `:>`: where a theorem needs one, the module writes
the filter as the positions it keeps (`Picked`), the sort as ranks, the loop as a function of the steps taken and the record in full.

## 7. Not modelled

Log lines, messages, file modes, colours, configuration; hashes other than as injective names; budgets of a probe's memory (sampled and logged);
symlink fingerprints of the input snapshot; a power loss between a write and its fsync; `CONTEXT_REPORT.md` and the edit of `.gitignore`, which are best effort; `rag rebuild --reembed`;
lookups and staleness of the vulnerability index, which only read; the probes of layer E and, of layer D, policy, adrs, repo notes and external docs, readers of one file each; the
bodies of the event types and the frozen data types of workflows, types and adapters; schemas, catalogs and grammars, which are data; the import fences, which
read source text. Scores of the retriever are whole numbers. Callers that the repository does not have yet (the orchestrator of a workflow, the caller of the fallback budget and
of the bundle cache) are modelled from what the code offers them and marked external. `PROJECT.json` gives the reason for each component.
