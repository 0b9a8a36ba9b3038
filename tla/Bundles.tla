------------------------------ MODULE Bundles ------------------------------
(***************************************************************************)
(* Context bundles: BundleBuilder.build (plugins/bundle.py), which asks    *)
(* the adapters of a plugin under a semaphore and falls back link by link, *)
(* the cache the bundle is put in (plugins/cache.py), and its collector,   *)
(* amortised or run by `codegenie cache prune` (plugins/cache_gc.py).      *)
(*                                                                         *)
(* A builder is the process of one workflow: it gets the bundle of its     *)
(* key, and on a miss builds and puts it.  A query is the length of its    *)
(* chain, the links an adapter is registered for, and what each link       *)
(* answers is the adapter's choice.  Time is time.time(), in units of the  *)
(* model, and may be set back.                                             *)
(***************************************************************************)
EXTENDS Integers, Sequences, FiniteSets

CONSTANTS Builder, Collector,  \* processes
          Key,                 \* bundle cache keys
          Queries,             \* the queries of the composed TCCM of a builder
          Concurrency,         \* _read_concurrency_bound()
          MaxFallbackDepth,    \* _MAX_FALLBACK_DEPTH
          TTL, Interval,       \* ttl_seconds, _AMORTIZATION_SECONDS
          MaxTime              \* bound: time.time()

ASSUME BundlesAssumption ==
    /\ Concurrency \in Nat \ {0} /\ MaxFallbackDepth \in Nat \ {0}
    /\ TTL \in Nat /\ Interval \in Nat \ {0} /\ MaxTime \in Nat
ASSUME QueriesAssumption ==
    \A b \in Builder : \A i \in DOMAIN Queries[b] : Queries[b][i].links \in Nat \ {0}

VARIABLES
    pc,       \* the builders and the collectors
    key,      \* the key of each builder
    task,     \* how far each query of each builder is
    depth,    \* the fallbacks each query has advanced by
    events,   \* what each query has emitted
    entries,  \* the bundle of each builder, <<>> before it has one
    file,     \* <cache>/bundles/<key>.json: Absent or its mtime and bundle
    now,      \* time.time()
    stamp,    \* .gc-stamp
    lock,     \* who holds .gc-stamp.lock
    began,    \* the time a collector's run began at
    left,     \* the files a collector has still to look at
    seen,     \* the file a collector has measured and is about to unlink
    swapped,  \* history: collectors whose measured file was put again since
    lastRun   \* history: when the last amortised run ended

build == <<key, task, depth, events, entries>>
collect == <<stamp, lock, began, left, seen, swapped, lastRun>>
vars == <<pc, build, file, now, collect>>

Absent == [mtime |-> -1, bundle |-> <<>>]
Nobody == "nobody"
Nothing == "nothing"

Init ==
    /\ pc = [p \in Builder \cup Collector |-> "idle"]
    /\ key \in [Builder -> Key]
    /\ task = [b \in Builder |-> [i \in DOMAIN Queries[b] |-> "waiting"]]
    /\ depth = [b \in Builder |-> [i \in DOMAIN Queries[b] |-> 0]]
    /\ events = [b \in Builder |-> [i \in DOMAIN Queries[b] |-> <<>>]]
    /\ entries = [b \in Builder |-> <<>>]
    /\ file = [k \in Key |-> Absent]
    /\ now = 0 /\ stamp = 0 /\ lock = Nobody
    /\ began = [c \in Collector |-> 0] /\ left = [c \in Collector |-> {}]
    /\ seen = [c \in Collector |-> Nothing]
    /\ swapped = {} /\ lastRun = -1

-----------------------------------------------------------------------------
(* build: one task per query, all gathered                                 *)
Task(b, i) == task[b][i]
SetTask(b, i, s) == task' = [task EXCEPT ![b][i] = s]
Emit(b, i, e) == events' = [events EXCEPT ![b][i] = Append(@, e)]
Running(b) == {i \in DOMAIN Queries[b] : Task(b, i) = "running"}

(* _acquire_then_dispatch: once for the whole chain.                       *)
Acquire(b, i) ==
    /\ pc[b] \in {"building", "raised"} /\ Task(b, i) = "waiting"
    /\ Cardinality(Running(b)) < Concurrency
    /\ SetTask(b, i, "running")
    /\ UNCHANGED <<pc, key, depth, events, entries, file, now, collect>>

(* The first exception of a task is raised by build; the others run on.    *)
Raise(b, i) ==
    /\ SetTask(b, i, "failed")
    /\ pc' = IF pc[b] = "building" THEN [pc EXCEPT ![b] = "raised"] ELSE pc

(* _resolve_chain, the cap before the dispatch.                            *)
TooDeep(b, i) ==
    /\ Task(b, i) = "running" /\ depth[b][i] >= MaxFallbackDepth
    /\ Emit(b, i, "too_deep") /\ Raise(b, i)
    /\ UNCHANGED <<key, depth, entries, file, now, collect>>

Reached(b, i) == Task(b, i) = "running" /\ depth[b][i] < MaxFallbackDepth
Registered(b, i) == depth[b][i] \notin Queries[b][i].missing

MissingDispatch(b, i) ==
    /\ Reached(b, i) /\ ~ Registered(b, i)
    /\ Raise(b, i)
    /\ UNCHANGED <<key, depth, events, entries, file, now, collect>>

LastLink(b, i) == depth[b][i] = Queries[b][i].links - 1

(* Mutant: the fallback is asked when the primary answered.                *)
AnswerFromFallback(b, i) ==
    /\ Reached(b, i) /\ Registered(b, i)
    /\ SetTask(b, i, IF LastLink(b, i) THEN "trusted" ELSE "degraded")
    /\ UNCHANGED <<pc, key, depth, events, entries, file, now, collect>>

(* An adapter's answer that ends the chain: trusted, or of the last link.  *)
Answer(b, i) ==
    /\ Reached(b, i) /\ Registered(b, i)
    /\ \/ SetTask(b, i, "trusted")
       \/ LastLink(b, i) /\ SetTask(b, i, "degraded")
    /\ UNCHANGED <<pc, key, depth, events, entries, file, now, collect>>

(* A degraded or missing answer: the event, then the next link.            *)
FallBack(b, i) ==
    /\ Reached(b, i) /\ Registered(b, i) /\ ~ LastLink(b, i)
    /\ Emit(b, i, "degraded")
    /\ depth' = [depth EXCEPT ![b][i] = @ + 1]
    /\ UNCHANGED <<pc, key, task, entries, file, now, collect>>

(* _compose_entry.                                                         *)
Entry(b, i) == [query |-> i, confidence |-> Task(b, i),
                adapter |-> depth[b][i], fallback_used |-> depth[b][i] > 0]

(* All entries, in the order of the queries.                               *)
Gathered(b) ==
    /\ pc[b] = "building"
    /\ \A i \in DOMAIN Queries[b] : Task(b, i) \in {"trusted", "degraded"}
    /\ entries' = [entries EXCEPT ![b] = [i \in DOMAIN Queries[b] |-> Entry(b, i)]]
    /\ pc' = [pc EXCEPT ![b] = "built"]
    /\ UNCHANGED <<key, task, depth, events, file, now, collect>>

BuildStep(b) ==
    \/ \E i \in DOMAIN Queries[b] :
          \/ Acquire(b, i) \/ TooDeep(b, i) \/ MissingDispatch(b, i)
          \/ Answer(b, i) \/ FallBack(b, i)
    \/ Gathered(b)

-----------------------------------------------------------------------------
(* BundleCacheStore                                                        *)
Get(b) ==
    /\ pc[b] = "idle"
    /\ IF file[key[b]] = Absent
       THEN pc' = [pc EXCEPT ![b] = "building"] /\ UNCHANGED entries
       ELSE /\ pc' = [pc EXCEPT ![b] = "ended"]
            /\ entries' = [entries EXCEPT ![b] = file[key[b]].bundle]
    /\ UNCHANGED <<key, task, depth, events, file, now, collect>>

(* A temporary file takes the place of the bundle, or of none.             *)
Put(b) ==
    /\ pc[b] = "built"
    /\ file' = [file EXCEPT ![key[b]] = [mtime |-> now, bundle |-> entries[b]]]
    /\ swapped' = swapped \cup {c \in Collector : seen[c] = key[b]}
    /\ pc' = [pc EXCEPT ![b] = "ended"]
    /\ UNCHANGED <<build, now, stamp, lock, began, left, seen, lastRun>>

-----------------------------------------------------------------------------
(* BundleCacheGc                                                           *)
ShouldRunAmortized == stamp > now \/ now - stamp >= Interval

(* run, which takes the time before it looks at the files.                 *)
BeginRun(c, s) ==
    /\ pc' = [pc EXCEPT ![c] = s]
    /\ began' = [began EXCEPT ![c] = now]
    /\ left' = [left EXCEPT ![c] = Key]

(* cache prune: without the lock and the stamp.                            *)
Prune(c) ==
    /\ pc[c] = "idle"
    /\ BeginRun(c, "pruning")
    /\ UNCHANGED <<build, file, now, stamp, lock, seen, swapped, lastRun>>

(* run_amortized; not yet due, it changes nothing.                         *)
RunAmortized(c) ==
    /\ pc[c] = "idle" /\ lock = Nobody /\ ShouldRunAmortized
    /\ lock' = c
    /\ BeginRun(c, "amortized")
    /\ UNCHANGED <<build, file, now, stamp, seen, swapped, lastRun>>

Collecting(c) == pc[c] \in {"pruning", "amortized"}

(* Mutant: a file of the age of the TTL goes too.                          *)
IsEvictableAt(c, k) == began[c] - file[k].mtime >= TTL

IsEvictable(c, k) == began[c] - file[k].mtime > TTL

Measure(c, k) ==
    /\ Collecting(c) /\ k \in left[c] /\ seen[c] = Nothing
    /\ left' = [left EXCEPT ![c] = @ \ {k}]
    /\ seen' = [seen EXCEPT ![c] = IF file[k] # Absent /\ IsEvictable(c, k)
                                   THEN k ELSE Nothing]
    /\ swapped' = swapped \ {c}
    /\ UNCHANGED <<pc, build, file, now, stamp, lock, began, lastRun>>

(* By name: whatever the file is by now.                                   *)
Unlink(c) ==
    /\ Collecting(c) /\ seen[c] # Nothing
    /\ file' = [file EXCEPT ![seen[c]] = Absent]
    /\ seen' = [seen EXCEPT ![c] = Nothing]
    /\ swapped' = swapped \ {c}
    /\ UNCHANGED <<pc, build, now, stamp, lock, began, left, lastRun>>

Over(c) == Collecting(c) /\ left[c] = {} /\ seen[c] = Nothing

(* The stamp is written under the lock, with the time after the run.       *)
EndRun(c) ==
    /\ Over(c)
    /\ pc' = [pc EXCEPT ![c] = "idle"]
    /\ IF pc[c] = "amortized"
       THEN stamp' = now /\ lock' = Nobody /\ lastRun' = now
       ELSE UNCHANGED <<stamp, lock, lastRun>>
    /\ began' = [began EXCEPT ![c] = 0]
    /\ UNCHANGED <<build, file, now, left, seen, swapped>>

(* A collector dies; the lock goes with it.                                *)
Die(c) ==
    /\ Collecting(c)
    /\ pc' = [pc EXCEPT ![c] = "dead"]
    /\ lock' = IF lock = c THEN Nobody ELSE lock
    /\ seen' = [seen EXCEPT ![c] = Nothing] /\ left' = [left EXCEPT ![c] = {}]
    /\ began' = [began EXCEPT ![c] = 0]
    /\ UNCHANGED <<build, file, now, stamp, swapped, lastRun>>

CollectStep(c) == (\E k \in Key : Measure(c, k)) \/ Unlink(c) \/ EndRun(c)

SetClock(t) ==
    /\ now' = t
    /\ UNCHANGED <<pc, build, file, collect>>

Next ==
    \/ \E b \in Builder : Get(b) \/ BuildStep(b) \/ Put(b)
    \/ \E c \in Collector : Prune(c) \/ RunAmortized(c) \/ CollectStep(c) \/ Die(c)
    \/ \E t \in 0 .. MaxTime : SetClock(t)

(* The event loop runs what it can; the adapters answer.                   *)
Fairness ==
    /\ \A b \in Builder : WF_vars(BuildStep(b) \/ Put(b))
    /\ \A c \in Collector : WF_vars(CollectStep(c))

Spec == Init /\ [][Next]_vars
FairSpec == Spec /\ Fairness

-----------------------------------------------------------------------------
TypeOK ==
    /\ pc \in [Builder \cup Collector ->
                 {"idle", "building", "raised", "built", "ended",
                  "pruning", "amortized", "dead"}]
    /\ \A b \in Builder :
          /\ DOMAIN task[b] = DOMAIN Queries[b] /\ DOMAIN depth[b] = DOMAIN Queries[b]
          /\ \A i \in DOMAIN Queries[b] :
                /\ Task(b, i) \in {"waiting", "running", "trusted", "degraded", "failed"}
                /\ depth[b][i] \in 0 .. MaxFallbackDepth
                /\ events[b][i] \in Seq({"degraded", "too_deep"})
    /\ \A k \in Key : file[k] = Absent \/ file[k].mtime \in 0 .. MaxTime
    /\ now \in 0 .. MaxTime /\ stamp \in 0 .. MaxTime
    /\ lock \in Collector \cup {Nobody}
    /\ began \in [Collector -> 0 .. MaxTime] /\ left \in [Collector -> SUBSET Key]
    /\ seen \in [Collector -> Key \cup {Nothing}]

(* A build never has more chains under way than its bound, also after one  *)
(* of them has failed it.                                                  *)
SlotsBounded == \A b \in Builder : Cardinality(Running(b)) <= Concurrency

(* A bundle answers every query in its place, with the first link that is  *)
(* trusted or, when none is, with the last: never with an entry a deeper   *)
(* link could have bettered, and never when a chain goes past the cap      *)
(* (build, _resolve_chain, _compose_entry).                                *)
EntriesAnswer ==
    \A b \in Builder : pc[b] = "built" =>
        /\ DOMAIN entries[b] = DOMAIN Queries[b]
        /\ \A i \in DOMAIN Queries[b] :
              LET e == entries[b][i]
              IN  /\ e.query = i /\ e.adapter < MaxFallbackDepth
                  /\ e.confidence = "degraded" => e.adapter = Queries[b][i].links - 1
                  /\ e.fallback_used <=> events[b][i] # <<>>

(* The events say why an entry is not its primary's: one per link left     *)
(* behind, in every order of the tasks and after a raise too.              *)
EventsCount ==
    \A b \in Builder : \A i \in DOMAIN Queries[b] :
        LET Ends == events[b][i] # <<>> /\ events[b][i][Len(events[b][i])] = "too_deep"
        IN  /\ Len(events[b][i]) = depth[b][i] + (IF Ends THEN 1 ELSE 0)
            /\ Ends => depth[b][i] = MaxFallbackDepth /\ Task(b, i) = "failed"

(* Who gets a bundle gets one that was built for its key, whole.           *)
GetsWhole ==
    \A b \in Builder : pc[b] = "ended" =>
        \E o \in Builder : /\ key[o] = key[b] /\ pc[o] = "ended" /\ entries[b] = entries[o]
                           /\ \A i \in DOMAIN Queries[o] : Task(o, i) \in {"trusted", "degraded"}

(* The collector never deletes a bundle that was not older than the TTL    *)
(* when it looked, but for one put between the look and the unlink, which  *)
(* is by name (run).                                                       *)
FreshStays ==
    [][\A k \in Key : file[k] # Absent /\ file'[k] = Absent =>
           \E c \in Collector : /\ seen[c] = k
                                /\ began[c] - file[k].mtime > TTL \/ c \in swapped]_vars

(* Amortised runs exclude each other, and one that begins is an interval   *)
(* after the end of the one before, unless the clock was set back.         *)
OncePerInterval ==
    [][\A c \in Collector : pc[c] = "idle" /\ pc'[c] = "amortized" =>
           /\ \A d \in Collector : pc[d] # "amortized"
           /\ lastRun = -1 \/ lastRun > now \/ now - lastRun >= Interval]_vars

(* A build ends: with an entry for every query, or with what failed it.    *)
BuildsEnd == \A b \in Builder : pc[b] = "building" ~> pc[b] \in {"ended", "raised"}
=============================================================================
