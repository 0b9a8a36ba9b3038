------------------------------ MODULE EventLog ------------------------------
(***************************************************************************)
(* The two-stream event log of plugins/events.py: the spanning stream, one *)
(* file shared by every workflow, chained and appended to under flock, and *)
(* the internal stream, a file of its own for each workflow.  A stream is  *)
(* a row of zstd frames, one for each record; a frame is torn when not all *)
(* of its bytes are there, and a torn frame does not decode.               *)
(*                                                                         *)
(* The chain head is a BLAKE3 hash over the prior head and the body; taken *)
(* to be injective, it is the sequence of the bodies it was folded from.   *)
(***************************************************************************)
EXTENDS Integers, Sequences

CONSTANTS Workflow,   \* processes, each with the EventLog of its workflow
          EventId,    \* ids of events, numbers because replay compares them
          Nobody,     \* holder of a free lock
          Nothing,    \* no event
          MaxTime,    \* bound on the clock
          MaxShort    \* bound on the writes that store a part of the frame

(* The typed channels: a body of the other one raises TypeError.  An       *)
(* enveloped body is stamped when it is emitted; CacheGcCompleted predates *)
(* the envelope, brings its own time and has no event_id to be sorted by.  *)
Kind == {"enveloped", "cache_gc"}
Event == [id : EventId, ts : 0 .. MaxTime, kind : Kind]
ChainHead == Seq(Event)
Genesis == <<>>

ASSUME BoundsAssumption == MaxTime \in Nat /\ MaxShort \in Nat
ASSUME IdAssumption == EventId \subseteq Nat \ {0}
ASSUME MarkersAssumption == Nobody \notin Workflow /\ Nothing \notin Event

VARIABLES
    frames,    \* the spanning file: records [event, head, whole]
    internal,  \* the internal files: records [event, whole]
    lock,      \* who holds the flock of the spanning file
    pc,        \* how far each workflow is; "down" when it has no EventLog
    event,     \* the spanning event it emits, already stamped
    head,      \* the new head it computed
    clock,     \* the UTC clock
    shorts,    \* short writes so far
    acked,     \* history: spanning events whose emit returned
    kept,      \* history: internal events whose emit returned, by workflow
    seen       \* history: what had been acked when the event was stamped

vars == <<frames, internal, lock, pc, event, head, clock, shorts, acked, kept, seen>>

Init ==
    /\ frames = <<>>
    /\ internal = [w \in Workflow |-> <<>>]
    /\ lock = Nobody
    /\ pc = [w \in Workflow |-> "down"]
    /\ event = [w \in Workflow |-> Nothing]
    /\ head = [w \in Workflow |-> Genesis]
    /\ clock = 0
    /\ shorts = 0
    /\ acked = {}
    /\ kept = [w \in Workflow |-> {}]
    /\ seen = [i \in EventId |-> {}]

Events(stream) == {stream[n].event : n \in 1 .. Len(stream)}

FreshIds ==
    EventId \ ({e.id : e \in Events(frames) \cup UNION {Events(internal[w]) : w \in Workflow}}
                 \cup {event[w].id : w \in {v \in Workflow : event[v] # Nothing}})

(* Mutant: the streaming reader, which ends at a torn trailing frame.      *)
DecodesUpToTorn(stream) == \A n \in 1 .. Len(stream) - 1 : stream[n].whole

(* read_all: every frame decodes, or EventLogCorrupted is raised.          *)
Decodes(stream) == \A n \in 1 .. Len(stream) : stream[n].whole

-----------------------------------------------------------------------------
(* __init__ reads the spanning file to its end, without the lock.          *)
Open(w) ==
    /\ pc[w] = "down"
    /\ Decodes(frames)
    /\ pc' = [pc EXCEPT ![w] = "idle"]
    /\ UNCHANGED <<frames, internal, lock, event, head, clock, shorts, acked, kept, seen>>

(* emit_internal appends blindly: the result of os.write is not looked at, *)
(* and a process that dies in it leaves what was written.                  *)
EmitInternal(w) ==
    /\ pc[w] = "idle"
    /\ \E i \in FreshIds, whole, dies \in BOOLEAN :
          LET e == [id |-> i, ts |-> clock, kind |-> "enveloped"]
          IN  /\ internal' = [internal EXCEPT ![w] =
                                 Append(@, [event |-> e, whole |-> whole])]
              /\ kept' = IF dies THEN kept ELSE [kept EXCEPT ![w] = @ \cup {e}]
              /\ pc' = IF dies THEN [pc EXCEPT ![w] = "down"] ELSE pc
              /\ shorts' = IF whole \/ dies THEN shorts ELSE shorts + 1
              /\ shorts' =< MaxShort
    /\ UNCHANGED <<frames, lock, event, head, clock, acked, seen>>

(* What emit_spanning and emit_internal leave to the rest.                 *)
Streams == <<frames, internal>>
History == <<acked, kept, seen>>

(* emit_spanning: stamped and serialised before the lock is asked for.     *)
Stamp(w) ==
    /\ pc[w] = "idle"
    /\ \E i \in FreshIds, k \in Kind, t \in 0 .. clock :
          /\ k = "enveloped" => t = clock
          /\ event' = [event EXCEPT ![w] = [id |-> i, ts |-> t, kind |-> k]]
          /\ seen' = [seen EXCEPT ![i] = acked]
    /\ pc' = [pc EXCEPT ![w] = "waiting"]
    /\ UNCHANGED <<Streams, lock, head, clock, shorts, acked, kept>>

(* Mutant: InMemorySink.lock, which excludes nobody.                       *)
AcquireAnyway(w) ==
    /\ pc[w] = "waiting"
    /\ lock' = w
    /\ pc' = [pc EXCEPT ![w] = "locked"]
    /\ UNCHANGED <<Streams, event, head, clock, shorts, History>>

(* flock(LOCK_EX) blocks until the lock is free.                           *)
Acquire(w) ==
    /\ pc[w] = "waiting"
    /\ lock = Nobody
    /\ lock' = w
    /\ pc' = [pc EXCEPT ![w] = "locked"]
    /\ UNCHANGED <<Streams, event, head, clock, shorts, History>>

(* _tail_chain_head, once read_all has come to the end, and _chain_step.   *)
TailHead == IF frames = <<>> THEN Genesis ELSE frames[Len(frames)].head

ChainTo(w) ==
    /\ head' = [head EXCEPT ![w] = Append(TailHead, event[w])]
    /\ pc' = [pc EXCEPT ![w] = "write"]
    /\ UNCHANGED <<Streams, lock, event, clock, shorts, History>>

ReadTail(w) == pc[w] = "locked" /\ Decodes(frames) /\ ChainTo(w)

(* os.write puts the frame at the end; its last bytes arrive later.        *)
BeginWrite(w) ==
    /\ pc[w] = "write"
    /\ frames' = Append(frames, [event |-> event[w], head |-> head[w], whole |-> FALSE])
    /\ pc' = [pc EXCEPT ![w] = "writing"]
    /\ UNCHANGED <<internal, lock, event, head, clock, shorts, History>>

(* The last bytes of the writer's own frame, or a short write.             *)
EndWrite(w) ==
    /\ pc[w] = "writing"
    /\ \E n \in 1 .. Len(frames) :
          /\ frames[n].event = event[w]
          /\ \/ frames' = [frames EXCEPT ![n].whole = TRUE] /\ UNCHANGED shorts
             \/ shorts < MaxShort /\ shorts' = shorts + 1 /\ UNCHANGED frames
    /\ pc' = [pc EXCEPT ![w] = "unlock"]
    /\ UNCHANGED <<internal, lock, event, head, clock, History>>

(* The with block is left: the lock is free, whatever it was left by.      *)
Leave(w, k) ==
    /\ lock' = IF lock = w THEN Nobody ELSE lock
    /\ pc' = [pc EXCEPT ![w] = k]
    /\ event' = [event EXCEPT ![w] = Nothing]
    /\ head' = [head EXCEPT ![w] = Genesis]
    /\ UNCHANGED <<Streams, clock, shorts, kept, seen>>

Return(w) == pc[w] = "unlock" /\ Leave(w, "idle") /\ acked' = acked \cup {event[w]}

(* EventLogCorrupted out of tail_chain_head.                               *)
Refuse(w) ==
    /\ pc[w] = "locked"
    /\ ~ Decodes(frames)
    /\ Leave(w, "idle")
    /\ UNCHANGED acked

(* Mutant: the lock outlives its holder.                                   *)
CrashKeepsLock(w) ==
    /\ pc[w] # "down"
    /\ pc' = [pc EXCEPT ![w] = "down"]
    /\ event' = [event EXCEPT ![w] = Nothing]
    /\ head' = [head EXCEPT ![w] = Genesis]
    /\ UNCHANGED <<Streams, lock, clock, shorts, History>>

(* The process ends or dies; the kernel drops its flock.                   *)
Crash(w) == pc[w] # "down" /\ Leave(w, "down") /\ UNCHANGED acked

Tick ==
    /\ clock < MaxTime
    /\ clock' = clock + 1
    /\ UNCHANGED <<Streams, lock, pc, event, head, shorts, History>>

Inside(w) == ReadTail(w) \/ Refuse(w) \/ BeginWrite(w) \/ EndWrite(w) \/ Return(w)

Next == \/ \E w \in Workflow :
              \/ Open(w) \/ EmitInternal(w) \/ Stamp(w) \/ Acquire(w) \/ Inside(w)
              \/ Crash(w)
        \/ Tick

Spec == Init /\ [][Next]_vars

(* A process inside the lock takes its next step; the kernel passes over   *)
(* no waiter of a lock that is released again and again.                   *)
Fairness == \A w \in Workflow : WF_vars(Inside(w)) /\ SF_vars(Acquire(w))

FairSpec == Spec /\ Fairness

-----------------------------------------------------------------------------
(* replay: both streams are decoded, the spanning one is verified in file  *)
(* order, and what they hold is yielded by time and then by id.            *)
Bodies(n) == [i \in 1 .. n |-> frames[i].event]

Untampered == \A n \in 1 .. Len(frames) : frames[n].head = Bodies(n)

Replays(w) == Decodes(internal[w]) /\ Decodes(frames) /\ Untampered

Decoded(stream) ==
    {stream[n].event : n \in {m \in 1 .. Len(stream) : stream[m].whole}}

Replayed(w) == Decoded(internal[w]) \cup Decoded(frames)

(* Mutant: the order is that of the ids.                                   *)
ReplayedByIdBefore(d, e) == d.id < e.id

SortId(e) == IF e.kind = "cache_gc" THEN 0 ELSE e.id

ReplayedBefore(d, e) == d.ts < e.ts \/ (d.ts = e.ts /\ SortId(d) < SortId(e))

-----------------------------------------------------------------------------
Frame == [event : Event, head : ChainHead, whole : BOOLEAN]
InternalFrame == [event : Event, whole : BOOLEAN]

TypeOK ==
    /\ frames \in Seq(Frame)
    /\ internal \in [Workflow -> Seq(InternalFrame)]
    /\ lock \in Workflow \cup {Nobody}
    /\ pc \in [Workflow -> {"down", "idle", "waiting", "locked", "write",
                            "writing", "unlock"}]
    /\ event \in [Workflow -> Event \cup {Nothing}]
    /\ head \in [Workflow -> ChainHead]
    /\ clock \in 0 .. MaxTime
    /\ shorts \in 0 .. MaxShort
    /\ acked \in SUBSET Event
    /\ kept \in [Workflow -> SUBSET Event]
    /\ seen \in [EventId -> SUBSET Event]

(* Workflows that emit at the same time, die inside the lock and leave     *)
(* torn frames never fork the chain: replay of an untouched spanning file  *)
(* does not raise ChainTamperDetected (emit_spanning, replay).             *)
ChainUnforked == Untampered

(* A torn frame stays the last one, for no later emit gets past it: what   *)
(* was written before it can be told from it (tail_chain_head, append).    *)
TornIsLast == \A n \in 1 .. Len(frames) - 1 : frames[n].whole

(* A replay that answers has every event whose emit returned, those of     *)
(* other workflows included: short writes and deaths make it raise and     *)
(* never make it leave an event out (replay).                              *)
ReplayLosesNothing ==
    \A w \in Workflow : Replays(w) => kept[w] \cup acked \subseteq Replayed(w)

(* Crashes included, whoever is between flock and unlock holds the lock,   *)
(* and nobody else does (lock).                                            *)
LockHeldInside ==
    \A w \in Workflow :
        lock = w <=> pc[w] \in {"locked", "write", "writing", "unlock"}

(* Events are stamped before the lock is asked for, so replay may turn the *)
(* order of the chain round, but only between emits that overlapped or in  *)
(* one tick of the clock: an event that had been acknowledged when another *)
(* was stamped is in front of it in the chain and not behind it in time    *)
(* (emit_spanning, _replay_sort_key).  CacheGcCompleted is exempt.         *)
ReplayFollowsChain ==
    \A n \in 1 .. Len(frames) :
        LET e == frames[n].event
        IN  /\ seen[e.id] \subseteq {frames[m].event : m \in 1 .. n - 1}
            /\ e.kind = "enveloped" =>
                  \A d \in seen[e.id] : ReplayedBefore(e, d) => d.ts = e.ts

(* Under the lock a writer never takes the frame that another one is still *)
(* writing for a corrupted file: it refuses only when the writer of the    *)
(* torn frame is gone.  The constructor, which takes no lock, may.         *)
RefusedByTheTornOnly ==
    [][\A w \in Workflow : Refuse(w) =>
          \A v \in Workflow : pc[v] # "writing"]_vars

(* An emit that has begun ends, even when processes die with the lock in   *)
(* hand while it waits (emit_spanning, lock).                              *)
EmitsEnd == \A w \in Workflow : pc[w] = "waiting" ~> pc[w] \in {"idle", "down"}
=============================================================================
