------------------------------- MODULE Gather -------------------------------
(***************************************************************************)
(* coordinator.gather, called again and again on one repository: a prelude *)
(* wave of base probes, a wave of the others against the snapshot enriched *)
(* with the detected languages, and a tail of `runs_last' probes one by    *)
(* one, at most Bound probes past the semaphore at a time.  Each probe is  *)
(* keyed by the content of its inputs, looked up in the cache, and on a    *)
(* miss run and stored.                                                    *)
(*                                                                         *)
(* All dispatches share one event loop: what a dispatch does between two   *)
(* awaits no other dispatch can interleave with, but an editor or another  *)
(* process can.  How one run is timed out and isolated is ProbeRun, how    *)
(* the cache keeps its promise CacheStore; here a run ends clean or with   *)
(* errors, and the cache is a table that may lose entries.  The inputs of  *)
(* all probes are one tracked content, and every content has the languages *)
(* that the filtered probes ask for.                                       *)
(***************************************************************************)
EXTENDS Naturals, FiniteSets, Sequences

CONSTANTS Prelude,      \* probes of tier `base' that are not in RunsLast
          Rest,         \* the others that are not in RunsLast
          RunsLast,         \* the runs_last probes, in registry order
          Reporters,    \* probes whose output holds language_stack.counts
          Filtered,     \* probes that apply only to a detected language
          Memoized,     \* probes that read through ctx.parsed_manifest
          Content,      \* contents of the repository
          Nothing,      \* no content
          Bound,        \* min(cpu, max_concurrent_probes, 8)
          MaxGathers,   \* bound on the gathers
          MaxEdits      \* bound on the edits of the repository

LastProbes == {RunsLast[i] : i \in 1 .. Len(RunsLast)}
Probe == Prelude \cup Rest \cup LastProbes

ASSUME ProbesAssumption ==
    /\ RunsLast \in Seq(LastProbes)
    /\ Prelude \cap Rest = {}
    /\ LastProbes \cap (Prelude \cup Rest) = {}
    /\ \A i, j \in 1 .. Len(RunsLast) : RunsLast[i] = RunsLast[j] => i = j
    /\ Reporters \subseteq Prelude
    /\ Filtered \subseteq Probe
    /\ Memoized \subseteq Probe
ASSUME ContentAssumption == Nothing \notin Content
ASSUME BoundAssumption == Bound \in Nat \ {0}
ASSUME LimitsAssumption == MaxGathers \in Nat /\ MaxEdits \in Nat

VARIABLES
    phase,      \* the wave under way
    pc,         \* where each dispatch is
    turn,       \* the dispatch that holds the event loop between two reads
    repo,       \* what the files of the repository hold
    edits,      \* edits so far
    stained,    \* history: whether an edit fell into a gather
    gathers,    \* gathers so far
    cache,      \* per probe and key, the content the stored output came from
    memo,       \* ParsedManifestMemo: what was parsed for a content hash
    key,        \* cache key of a dispatch: the content it was derived from
    pin,        \* compute_input_snapshot: the content hash of the inputs
    made,       \* the content that the probe's output was made from
    languages,  \* whether the snapshot of the second wave has languages
    execution   \* the tagged union ProbeExecution, a Ran with or without errors

local == <<key, pin, made>>
vars == <<phase, pc, turn, repo, edits, stained, gathers, cache, memo, key, pin, made,
          languages, execution>>

Maybe == Content \cup {Nothing}
Active == {"prelude", "rest", "tail"}
Execution == {"none", "Skipped", "CacheHit", "Ran", "RanWithErrors"}

Init ==
    /\ phase = "idle"
    /\ pc = [p \in Probe |-> "absent"]
    /\ turn = Nothing
    /\ repo \in Content
    /\ edits = 0
    /\ stained = FALSE
    /\ gathers = 0
    /\ cache = [p \in Probe |-> [c \in Content |-> Nothing]]
    /\ memo = [c \in Content |-> Nothing]
    /\ key = [p \in Probe |-> Nothing]
    /\ pin = [p \in Probe |-> Nothing]
    /\ made = [p \in Probe |-> Nothing]
    /\ languages = FALSE
    /\ execution = [p \in Probe |-> "none"]

-----------------------------------------------------------------------------
(* gather: the waves                                                       *)

Done(S) == \A p \in S : pc[p] = "done"

(* asyncio.gather makes the dispatches of a wave: they queue for the       *)
(* semaphore.                                                              *)
Launch(S) == pc' = [p \in Probe |-> IF p \in S THEN "queued" ELSE pc[p]]

Begin ==
    /\ phase \notin Active
    /\ gathers < MaxGathers
    /\ gathers' = gathers + 1
    /\ phase' = "prelude"
    /\ pc' = [p \in Probe |-> IF p \in Prelude THEN "queued" ELSE "absent"]
    /\ turn' = Nothing
    /\ memo' = [c \in Content |-> Nothing]
    /\ key' = [p \in Probe |-> Nothing]
    /\ pin' = [p \in Probe |-> Nothing]
    /\ made' = [p \in Probe |-> Nothing]
    /\ languages' = FALSE
    /\ execution' = [p \in Probe |-> "none"]
    /\ UNCHANGED <<repo, edits, stained, cache>>

(* Only the outputs of probes that ran, without errors, are merged.        *)
MergedCounts == {p \in Prelude \cap Reporters : execution[p] = "Ran"}

EndPrelude ==
    /\ phase = "prelude"
    /\ Done(Prelude)
    /\ languages' = (MergedCounts # {})
    /\ phase' = "rest"
    /\ Launch(Rest)
    /\ UNCHANGED <<turn, repo, edits, stained, gathers, cache, memo, local, execution>>

(* The tail is one `for' loop, in registry order.                          *)
NextOfTail(i) ==
    /\ phase \in {"rest", "tail"}
    /\ Done(Rest)
    /\ pc[RunsLast[i]] = "absent"
    /\ \A j \in 1 .. i - 1 : pc[RunsLast[j]] = "done"
    /\ phase' = "tail"
    /\ Launch({RunsLast[i]})
    /\ UNCHANGED <<turn, repo, edits, stained, gathers, cache, memo, local, languages,
                   execution>>

(* Mutant: the tail is not waited for.                                     *)
ReturnEarly ==
    /\ phase \in {"rest", "tail"}
    /\ Done(Rest)
    /\ phase' = "idle"
    /\ UNCHANGED <<pc, turn, repo, edits, stained, gathers, cache, memo, local,
                   languages, execution>>

Return ==
    /\ phase \in {"rest", "tail"}
    /\ Done(Rest \cup LastProbes)
    /\ phase' = "idle"
    /\ UNCHANGED <<pc, turn, repo, edits, stained, gathers, cache, memo, local,
                   languages, execution>>

-----------------------------------------------------------------------------
(* _dispatch_one                                                           *)

(* Mutant: a slot is given back by the dispatches that end clean only.     *)
HoldersLeaky == {p \in Probe : \/ pc[p] \in {"pinning", "running"}
                               \/ execution[p] = "RanWithErrors"}

(* The dispatches inside the semaphore.                                    *)
Holders == {p \in Probe : pc[p] \in {"pinning", "running"}}

Applies(p) == p \in Filtered => languages

(* A dispatch that is queued gets a slot of the semaphore and the loop.    *)
Admitted(p) ==
    /\ phase \in Active
    /\ pc[p] = "queued"
    /\ turn = Nothing
    /\ Cardinality(Holders) < Bound

Skip(p) ==
    /\ Admitted(p)
    /\ ~ Applies(p)
    /\ execution' = [execution EXCEPT ![p] = "Skipped"]
    /\ pc' = [pc EXCEPT ![p] = "done"]
    /\ UNCHANGED <<phase, turn, repo, edits, stained, gathers, cache, memo, local,
                   languages>>

(* Mutant: the key does not follow the content: whatever the cache has.    *)
LookupByName(p) ==
    LET kept == {c \in Content : cache[p][c] # Nothing}
    IN  IF kept = {} THEN Nothing ELSE cache[p][CHOOSE c \in kept : TRUE]

(* key_for reads the inputs, get the entry of their hash.                  *)
Lookup(p) == cache[p][repo]

Hit(p) ==
    /\ Admitted(p)
    /\ Applies(p)
    /\ Lookup(p) # Nothing
    /\ key' = [key EXCEPT ![p] = repo]
    /\ made' = [made EXCEPT ![p] = Lookup(p)]
    /\ execution' = [execution EXCEPT ![p] = "CacheHit"]
    /\ pc' = [pc EXCEPT ![p] = "done"]
    /\ UNCHANGED <<phase, turn, repo, edits, stained, gathers, cache, memo, pin,
                   languages>>

Miss(p) ==
    /\ Admitted(p)
    /\ Applies(p)
    /\ Lookup(p) = Nothing
    /\ key' = [key EXCEPT ![p] = repo]
    /\ turn' = p
    /\ pc' = [pc EXCEPT ![p] = "pinning"]
    /\ UNCHANGED <<phase, repo, edits, stained, gathers, cache, memo, pin, made,
                   languages, execution>>

(* compute_input_snapshot reads the inputs once more.                      *)
Pin(p) ==
    /\ phase \in Active
    /\ pc[p] = "pinning"
    /\ pin' = [pin EXCEPT ![p] = repo]
    /\ turn' = Nothing
    /\ pc' = [pc EXCEPT ![p] = "running"]
    /\ UNCHANGED <<phase, repo, edits, stained, gathers, cache, memo, key, made,
                   languages, execution>>

(* The event loop is free for a probe that runs.                           *)
Running(p) == phase \in Active /\ pc[p] = "running" /\ turn = Nothing

(* Mutant: the memo is never filled.                                       *)
ReadThroughMemoLost(p) ==
    /\ made' = [made EXCEPT ![p] = IF memo[pin[p]] # Nothing
                                   THEN memo[pin[p]] ELSE repo]
    /\ UNCHANGED memo

(* The probe reads its inputs.  The memo hands out what was parsed first   *)
(* for the pinned hash, and otherwise parses what the file holds by now.   *)
ReadThroughMemo(p) ==
    IF memo[pin[p]] # Nothing
    THEN /\ made' = [made EXCEPT ![p] = memo[pin[p]]]
         /\ UNCHANGED memo
    ELSE /\ made' = [made EXCEPT ![p] = repo]
         /\ memo' = [memo EXCEPT ![pin[p]] = repo]

ReadDirectly(p) ==
    /\ made' = [made EXCEPT ![p] = repo]
    /\ UNCHANGED memo

Read(p) ==
    /\ Running(p)
    /\ made[p] = Nothing
    /\ IF p \in Memoized THEN ReadThroughMemo(p) ELSE ReadDirectly(p)
    /\ UNCHANGED <<phase, pc, turn, repo, edits, stained, gathers, cache, key, pin,
                   languages, execution>>

(* The run is over: the output is validated, scrubbed and, without errors, *)
(* put under the key.                                                      *)
EndClean(p) ==
    /\ Running(p)
    /\ made[p] # Nothing
    /\ cache' = [cache EXCEPT ![p][key[p]] = made[p]]
    /\ execution' = [execution EXCEPT ![p] = "Ran"]
    /\ pc' = [pc EXCEPT ![p] = "done"]
    /\ UNCHANGED <<phase, turn, repo, edits, stained, gathers, memo, local, languages>>

(* A failure, a timeout or a refused output: nothing is put.               *)
EndWithErrors(p) ==
    /\ Running(p)
    /\ execution' = [execution EXCEPT ![p] = "RanWithErrors"]
    /\ pc' = [pc EXCEPT ![p] = "done"]
    /\ UNCHANGED <<phase, turn, repo, edits, stained, gathers, cache, memo, local,
                   languages>>

-----------------------------------------------------------------------------
(* The outside: an edit of the repository, and an entry of the cache that  *)
(* expires, is collected or no longer verifies.                            *)
Edit ==
    /\ edits < MaxEdits
    /\ edits' = edits + 1
    /\ stained' = (stained \/ phase \in Active)
    /\ \E c \in Content \ {repo} : repo' = c
    /\ UNCHANGED <<phase, pc, turn, gathers, cache, memo, local, languages,
                   execution>>

Expire(p) ==
    /\ \E c \in Content : /\ cache[p][c] # Nothing
                          /\ cache' = [cache EXCEPT ![p][c] = Nothing]
    /\ UNCHANGED <<phase, pc, turn, repo, edits, stained, gathers, memo, local,
                   languages, execution>>

(* An interrupt, or an OSError of key_for or compute_input_snapshot, which *)
(* nothing isolates: gather and its dispatches are gone.                   *)
Crash ==
    /\ phase \in Active
    /\ phase' = "aborted"
    /\ UNCHANGED <<pc, turn, repo, edits, stained, gathers, cache, memo, local,
                   languages, execution>>

Wave == \/ Begin \/ EndPrelude \/ Return
        \/ \E i \in 1 .. Len(RunsLast) : NextOfTail(i)

Dispatch(p) == \/ Skip(p) \/ Hit(p) \/ Miss(p) \/ Pin(p) \/ Read(p)
               \/ EndClean(p) \/ EndWithErrors(p)

Next == \/ Wave
        \/ \E p \in Probe : Dispatch(p) \/ Expire(p)
        \/ Crash \/ Edit

(* The loop keeps serving what is ready, and ProbeRun ends every run: some *)
(* step that takes the gather further is taken, whichever.  Nobody has to  *)
(* start a gather, to edit or to crash, and no probe has to end clean.     *)
Progress == \/ EndPrelude \/ Return
            \/ \E i \in 1 .. Len(RunsLast) : NextOfTail(i)
            \/ \E p \in Probe : Skip(p) \/ Hit(p) \/ Miss(p) \/ Pin(p)
                                   \/ EndWithErrors(p)

Fairness == WF_vars(Progress)

Spec == Init /\ [][Next]_vars /\ Fairness

-----------------------------------------------------------------------------
TypeOK ==
    /\ phase \in Active \cup {"idle", "aborted"}
    /\ pc \in [Probe -> {"absent", "queued", "pinning", "running", "done"}]
    /\ turn \in Probe \cup {Nothing}
    /\ repo \in Content
    /\ edits \in 0 .. MaxEdits
    /\ stained \in BOOLEAN
    /\ gathers \in 0 .. MaxGathers
    /\ cache \in [Probe -> [Content -> Maybe]]
    /\ memo \in [Content -> Maybe]
    /\ key \in [Probe -> Maybe]
    /\ pin \in [Probe -> Maybe]
    /\ made \in [Probe -> Maybe]
    /\ languages \in BOOLEAN
    /\ execution \in [Probe -> Execution]

(* A runs_last probe reads what its siblings left behind: when it is       *)
(* launched every other probe has ended, and so has every runs_last probe  *)
(* before it in the registry (gather, AC-13).                              *)
SiblingsFirst ==
    \A i \in 1 .. Len(RunsLast) : pc[RunsLast[i]] # "absent" =>
        /\ Done(Prelude \cup Rest)
        /\ \A j \in 1 .. i - 1 : pc[RunsLast[j]] = "done"

(* A gather that returned accounts for every probe it was given, and       *)
(* skipped exactly those whose snapshot lacked their language: one answer  *)
(* for the whole of the second wave (gather).                              *)
GatherAccounts ==
    phase = "idle" /\ gathers > 0 =>
        \A p \in Probe :
            /\ execution[p] # "none"
            /\ execution[p] = "Skipped" <=>
                  p \in Filtered /\ (p \in Prelude \/ ~ languages)

(* As long as no edit of the repository fell into a gather, an output,     *)
(* fresh or from the cache of an earlier gather, was made from the very    *)
(* content that its key stands for, however edits, crashes and lost        *)
(* entries came in between (_dispatch_one).                                *)
OutputsMatchKey ==
    ~ stained => \A p \in Probe :
        execution[p] \in {"CacheHit", "Ran"} => made[p] = key[p]

(* `Every probe that consumes the same path sees the same pinned bytes':   *)
(* two probes of a gather that pinned the same hash were given one and the *)
(* same parse, edits or not (ParsedManifestMemo.get).                      *)
SamePinSameParse ==
    \A p, q \in Memoized :
        made[p] # Nothing /\ made[q] # Nothing /\ pin[p] # Nothing
            /\ pin[p] = pin[q] => made[p] = made[q]

(* Every gather that begins ends, unless the process dies: the waves, the  *)
(* semaphore and the tail never leave a probe waiting (gather).            *)
EveryGatherEnds == phase \in Active ~> phase \notin Active

(* Gap 4: the second wave runs against the enriched snapshot, with the     *)
(* counts that a base probe delivered, whether it ran or was cached.       *)
WarmRunEnriched ==
    phase \in {"rest", "tail"}
        /\ (\E p \in Reporters : execution[p] \in {"Ran", "CacheHit"})
            => languages

(* input_snapshot.py: the window between key and parse is closed, a probe  *)
(* that reads through the memo gets the bytes that were pinned for it.     *)
PinnedBytes ==
    \A p \in Memoized : made[p] # Nothing /\ pin[p] # Nothing => made[p] = pin[p]
=============================================================================
