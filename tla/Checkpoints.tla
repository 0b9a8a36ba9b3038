---------------------------- MODULE Checkpoints -----------------------------
(***************************************************************************)
(* The checkpointed ledger of one remediation workflow: the table          *)
(* checkpoint_chain of workflows/sqlite_checkpoints.py, written by         *)
(* orchestrator processes under the workflow's flock, and the replay       *)
(* verifier (workflows/replay.py) that decides on resume whether the chain *)
(* may be hydrated.                                                        *)
(*                                                                         *)
(* The chain head is a BLAKE3 hash over the prior head and the event; it   *)
(* is taken to be injective, so a head is the sequence of events it was    *)
(* folded from and the genesis head is the empty sequence.  The            *)
(* orchestrator is not part of the repository yet: it hydrates, moves      *)
(* along legal transitions and checkpoints at the semantic boundaries, as  *)
(* checkpoints.py says it must.                                            *)
(***************************************************************************)
EXTENDS Integers, Sequences, FiniteSets

CONSTANTS Orchestrator, \* processes that may run the workflow
          TransitionId, \* ids given to transitions
          Nobody,       \* holder of a free lock
          Nothing,      \* no event
          Torn,         \* bytes that do not parse as an event
          MaxDamage     \* bound on the damage done to the file

(* vuln_ledger.LedgerStateKind and its closed table of edges.              *)
LedgerStateKind ==
    {"needs_plan", "plan_ready", "patch_applied", "gate_failed_retryable",
     "awaiting_human_review", "completed", "failed_unrecoverable"}

LegalTransitions ==
    {<<"needs_plan", "plan_ready">>}
      \cup ({"plan_ready"} \X {"patch_applied", "awaiting_human_review",
                               "failed_unrecoverable"})
      \cup ({"patch_applied"} \X {"completed", "gate_failed_retryable",
                                  "awaiting_human_review",
                                  "failed_unrecoverable"})
      \cup ({"gate_failed_retryable"} \X {"needs_plan", "awaiting_human_review",
                                          "failed_unrecoverable"})
      \cup ({"awaiting_human_review"} \X {"plan_ready", "completed",
                                          "failed_unrecoverable"})

(* checkpoints._SEMANTIC_BOUNDARY_KINDS.                                   *)
SemanticBoundary == LedgerStateKind \ {"needs_plan"}

Event == [id : TransitionId, prior : LedgerStateKind, next : LedgerStateKind]
ChainHead == Seq(Event)
Genesis == <<>>

ASSUME DamageAssumption == MaxDamage \in Nat
ASSUME MarkersAssumption ==
    Nobody \notin Orchestrator /\ Nothing \notin Event /\ Torn \notin Event

VARIABLES
    rows,       \* checkpoint_chain in the order of sequence
    lock,       \* who holds checkpoints.lock
    pc,         \* how far each orchestrator is in append
    event,      \* the event it appends
    prior,      \* the tail head it read
    state,      \* the ledger state it believes in; "down" before hydration
    appended,   \* history: the events whose INSERT was committed
    damage,     \* damage done to the file so far
    company     \* history: "woven" once two orchestrators were up at a time

vars == <<rows, lock, pc, event, prior, state, appended, damage, company>>

Init ==
    /\ rows = <<>>
    /\ lock = Nobody
    /\ pc = [o \in Orchestrator |-> "idle"]
    /\ event = [o \in Orchestrator |-> Nothing]
    /\ prior = [o \in Orchestrator |-> Genesis]
    /\ state = [o \in Orchestrator |-> "down"]
    /\ appended = <<>>
    /\ damage = 0
    /\ company = "alone"

-----------------------------------------------------------------------------
(* ReplayVerifier.verify: the rows are folded front to back.               *)

EventsUpTo(n) == [i \in 1 .. n |-> rows[i].event]

(* Mutant: only the links between neighbours are looked at.                *)
DivergesByLink(n) ==
    \/ rows[n].event = Torn
    \/ n > 1 /\ rows[n].head # Append(rows[n-1].head, rows[n].event)

(* The row does not parse, or its head is not the fold of the rows so far. *)
Diverges(n) == rows[n].event = Torn \/ rows[n].head # EventsUpTo(n)

Divergences == {n \in 1 .. Len(rows) : Diverges(n)}

Verdict ==
    IF rows = <<>> THEN "empty_workflow"
    ELSE IF Divergences = {} THEN "verified"
    ELSE LET first == CHOOSE n \in Divergences : \A m \in Divergences : n =< m
         IN  IF rows[first].event = Torn THEN "torn_write" ELSE "chain_mismatch"

(* Mutant: the workflow resumes where its last event began.                *)
HydratedStateBefore ==
    IF Verdict = "verified" THEN rows[Len(rows)].event.prior ELSE "needs_plan"

(* _dispatch_verdict: the state that a resumed workflow starts from.       *)
HydratedState ==
    CASE Verdict = "verified"       -> rows[Len(rows)].event.next
      [] Verdict = "empty_workflow" -> "needs_plan"
      [] OTHER                      -> "failed_unrecoverable"

(* hydrate_or_fail                                                         *)
Hydrate(o) ==
    /\ state[o] = "down"
    /\ state' = [state EXCEPT ![o] = HydratedState]
    /\ company' = IF \A q \in Orchestrator : state[q] = "down"
                  THEN company ELSE "woven"
    /\ UNCHANGED <<rows, lock, pc, event, prior, appended, damage>>

-----------------------------------------------------------------------------
(* The orchestrator                                                        *)

(* A transition that is not a boundary leaves no row.                      *)
MoveUnrecorded(o) ==
    /\ pc[o] = "idle"
    /\ \E k \in LedgerStateKind \ SemanticBoundary :
          /\ <<state[o], k>> \in LegalTransitions
          /\ state' = [state EXCEPT ![o] = k]
    /\ UNCHANGED <<rows, lock, pc, event, prior, appended, damage, company>>

(* append: the boundary check, before the lock is asked for.               *)
Submit(o, e) ==
    /\ pc[o] = "idle"
    /\ e.prior = state[o]
    /\ <<e.prior, e.next>> \in LegalTransitions
    /\ e.next \in SemanticBoundary
    /\ event' = [event EXCEPT ![o] = e]
    /\ pc' = [pc EXCEPT ![o] = "waiting"]
    /\ UNCHANGED <<rows, lock, prior, state, appended, damage, company>>

(* Mutant: the in-memory store's lock, which excludes nobody.              *)
AcquireAnyway(o) ==
    /\ pc[o] = "waiting"
    /\ lock' = o
    /\ pc' = [pc EXCEPT ![o] = "locked"]
    /\ UNCHANGED <<rows, event, prior, state, appended, damage, company>>

(* flock(LOCK_EX) blocks until the lock is free.                           *)
Acquire(o) ==
    /\ pc[o] = "waiting"
    /\ lock = Nobody
    /\ lock' = o
    /\ pc' = [pc EXCEPT ![o] = "locked"]
    /\ UNCHANGED <<rows, event, prior, state, appended, damage, company>>

(* _tail_chain_head_locked: the persisted head, never recomputed.          *)
TailHead == IF rows = <<>> THEN Genesis ELSE rows[Len(rows)].head

ReadTail(o) ==
    /\ pc[o] = "locked"
    /\ prior' = [prior EXCEPT ![o] = TailHead]
    /\ pc' = [pc EXCEPT ![o] = "insert"]
    /\ UNCHANGED <<rows, lock, event, state, appended, damage, company>>

(* The rows keep the ids of their transitions, whatever became of the      *)
(* event bytes.                                                            *)
UsedIds == {rows[i].id : i \in 1 .. Len(rows)}

Unique(e) == e.id \notin UsedIds

(* The INSERT commits by itself (isolation_level None).                    *)
Insert(o) ==
    /\ pc[o] = "insert"
    /\ Unique(event[o])
    /\ rows' = Append(rows, [id |-> event[o].id, event |-> event[o],
                             head |-> Append(prior[o], event[o])])
    /\ appended' = Append(appended, event[o])
    /\ pc' = [pc EXCEPT ![o] = "unlock"]
    /\ UNCHANGED <<lock, event, prior, state, damage, company>>

(* append is over: the lock is free and the orchestrator is in state k.    *)
Leave(o, k) ==
    /\ lock' = IF lock = o THEN Nobody ELSE lock
    /\ pc' = [pc EXCEPT ![o] = "idle"]
    /\ event' = [event EXCEPT ![o] = Nothing]
    /\ prior' = [prior EXCEPT ![o] = Genesis]
    /\ state' = [state EXCEPT ![o] = k]

Return(o) ==
    /\ pc[o] = "unlock"
    /\ Leave(o, event[o].next)
    /\ UNCHANGED <<rows, appended, damage, company>>

(* sqlite3.IntegrityError: the workflow run ends, to be resumed.           *)
Reject(o) ==
    /\ pc[o] = "insert"
    /\ ~ Unique(event[o])
    /\ Leave(o, "down")
    /\ UNCHANGED <<rows, appended, damage, company>>

(* The process dies, inside append or outside; its flock goes with it.     *)
Crash(o) ==
    /\ state[o] # "down"
    /\ Leave(o, "down")
    /\ UNCHANGED <<rows, appended, damage, company>>

-----------------------------------------------------------------------------
(* What may happen to the file: the event of a row is altered to another   *)
(* legal one or garbled, or a row is lost.                                 *)
Damage ==
    /\ damage < MaxDamage
    /\ damage' = damage + 1
    /\ \E n \in 1 .. Len(rows) :
          \/ \E t \in LegalTransitions :
                LET e == [id |-> rows[n].id, prior |-> t[1], next |-> t[2]]
                IN  /\ e # rows[n].event
                    /\ rows' = [rows EXCEPT ![n].event = e]
          \/ rows' = [rows EXCEPT ![n].event = Torn]
          \/ rows' = [i \in 1 .. Len(rows) - 1 |->
                         IF i < n THEN rows[i] ELSE rows[i+1]]
    /\ UNCHANGED <<lock, pc, event, prior, state, appended, company>>

Locked(o) == ReadTail(o) \/ Insert(o) \/ Return(o) \/ Reject(o)

Next == \/ \E o \in Orchestrator :
              \/ Hydrate(o) \/ MoveUnrecorded(o) \/ Crash(o)
              \/ \E e \in Event : Submit(o, e)
              \/ Acquire(o) \/ Locked(o)
        \/ Damage

Spec == Init /\ [][Next]_vars

(* A process inside append takes its next step; the kernel passes over no  *)
(* waiter of a lock that is released again and again.                      *)
Fairness == \A o \in Orchestrator : WF_vars(Locked(o)) /\ SF_vars(Acquire(o))

FairSpec == Spec /\ Fairness

-----------------------------------------------------------------------------
Row == [id : TransitionId, event : Event \cup {Torn}, head : ChainHead]

TypeOK ==
    /\ rows \in Seq(Row)
    /\ lock \in Orchestrator \cup {Nobody}
    /\ pc \in [Orchestrator -> {"idle", "waiting", "locked", "insert", "unlock"}]
    /\ event \in [Orchestrator -> Event \cup {Nothing}]
    /\ prior \in [Orchestrator -> ChainHead]
    /\ state \in [Orchestrator -> LedgerStateKind \cup {"down"}]
    /\ appended \in Seq(Event)
    /\ damage \in 0 .. MaxDamage
    /\ company \in {"alone", "woven"}

(* Orchestrators that append at the same time and crash anywhere leave one *)
(* unforked chain: until the file is damaged, every head is the fold of    *)
(* the committed events up to its row (append).                            *)
ChainUnforked ==
    damage = 0 =>
        /\ Len(rows) = Len(appended)
        /\ \A n \in 1 .. Len(rows) : /\ rows[n].event = appended[n]
                                     /\ rows[n].head = [i \in 1 .. n |-> appended[i]]

(* A transition that is delivered twice, by a retry or by two processes    *)
(* that resumed the workflow, is recorded once (append, UNIQUE).           *)
TransitionsOnce ==
    \A i, j \in 1 .. Len(rows) : rows[i].id = rows[j].id => i = j

(* Crashes included, whoever is between flock and unlock holds the lock,   *)
(* and nobody else does (lock).                                            *)
LockHeldInside ==
    \A o \in Orchestrator : lock = o <=> pc[o] \in {"locked", "insert", "unlock"}

(* What the verifier passes was committed, row by row and in that order,   *)
(* whatever was altered, garbled or lost (ReplayVerifier.verify).          *)
VerifiedWasCommitted ==
    Verdict = "verified" =>
        \A n \in 1 .. Len(rows) :
            \E i \in 1 .. Len(appended) :
                /\ rows[n].event = appended[i]
                /\ n > 1 => \E j \in 1 .. i - 1 : rows[n-1].event = appended[j]

(* As long as no two orchestrators were up at a time, crashed and resumed  *)
(* at any point, the ledger is one path of legal transitions: each event   *)
(* starts where the one before it ended, or after the unrecorded step to   *)
(* needs_plan (hydrate_or_fail, append).                                   *)
Continues(k, l) == k = l \/ (<<k, l>> \in LegalTransitions /\ l \notin SemanticBoundary)

OnePath ==
    \A n \in 1 .. Len(appended) :
        /\ n = 1 => appended[n].prior = "needs_plan"
        /\ n > 1 => Continues(appended[n-1].next, appended[n].prior)

LedgerContinuous == damage = 0 /\ company = "alone" => OnePath

(* An append that has begun ends, even when processes die with the lock in *)
(* hand while it waits (append, lock).                                     *)
AppendsEnd == \A o \in Orchestrator : pc[o] # "idle" ~> pc[o] = "idle"
=============================================================================
