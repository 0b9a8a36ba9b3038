--------------------------- MODULE EventLogProofs ---------------------------
(* What TLAPS proves of EventLog, for any workflows, ids and bounds.       *)
EXTENDS EventLog, TLAPS

(* A workflow has a spanning event exactly while it is in emit_spanning.   *)
Emitting ==
    \A w \in Workflow : /\ pc[w] = "down" \/ pc[w] = "idle" => event[w] = Nothing
                        /\ pc[w] # "down" /\ pc[w] # "idle" => event[w] \in Event

TypeInv == TypeOK /\ Emitting

(* What emit_internal does with one body.                                  *)
Append1(w, e, whole, dies) ==
    /\ internal' = [internal EXCEPT ![w] = Append(@, [event |-> e, whole |-> whole])]
    /\ kept' = IF dies THEN kept ELSE [kept EXCEPT ![w] = @ \cup {e}]
    /\ pc' = IF dies THEN [pc EXCEPT ![w] = "down"] ELSE pc
    /\ shorts' = IF whole \/ dies THEN shorts ELSE shorts + 1
    /\ shorts' =< MaxShort

LEMMA TailIsHead == TypeOK => TailHead \in Seq(Event)
<1> SUFFICES ASSUME TypeOK PROVE TailHead \in Seq(Event)
  OBVIOUS
<1>1. frames # <<>> => frames[Len(frames)] \in Frame
  BY DEF TypeOK
<1> QED
  BY <1>1 DEF TailHead, Genesis, Frame, ChainHead

LEMMA TypeInvHolds == Spec => []TypeInv
<1> USE DEF ChainHead
<1>1. Init => TypeInv
  BY BoundsAssumption DEF Init, TypeInv, TypeOK, Emitting, Genesis
<1>2. TypeInv /\ [Next]_vars => TypeInv'
  <2> SUFFICES ASSUME TypeInv, [Next]_vars PROVE TypeInv'
    OBVIOUS
  <2> USE BoundsAssumption, MarkersAssumption
      DEF TypeInv, TypeOK, Emitting, Streams, History
  <2>1. CASE UNCHANGED vars
    BY <2>1 DEF vars
  <2>2. ASSUME NEW w \in Workflow, Open(w) PROVE TypeInv'
    BY <2>2 DEF Open
  <2>3. ASSUME NEW w \in Workflow, EmitInternal(w) PROVE TypeInv'
    <3>1. PICK i \in FreshIds, whole \in BOOLEAN, dies \in BOOLEAN :
             Append1(w, [id |-> i, ts |-> clock, kind |-> "enveloped"], whole, dies)
      BY <2>3 DEF EmitInternal, Append1
    <3> DEFINE e == [id |-> i, ts |-> clock, kind |-> "enveloped"]
    <3>2. e \in Event
      BY DEF Event, FreshIds, Kind
    <3>3. [event |-> e, whole |-> whole] \in InternalFrame
      BY <3>2 DEF InternalFrame
    <3> HIDE DEF e
    <3>4. internal' \in [Workflow -> Seq(InternalFrame)]
      <4>1. internal' = [internal EXCEPT ![w] =
                            Append(internal[w], [event |-> e, whole |-> whole])]
        BY <3>1 DEF e, Append1
      <4>2. Append(internal[w], [event |-> e, whole |-> whole]) \in Seq(InternalFrame)
        BY <3>3
      <4> QED
        BY <4>1, <4>2
    <3>5. kept' \in [Workflow -> SUBSET Event]
      BY <3>1, <3>2 DEF e, Append1
    <3>6. shorts' \in 0 .. MaxShort
      BY <3>1 DEF Append1
    <3>7. pc' = pc \/ pc' = [pc EXCEPT ![w] = "down"]
      BY <3>1 DEF Append1
    <3> QED
      BY <2>3, <3>4, <3>5, <3>6, <3>7 DEF EmitInternal
  <2>4. ASSUME NEW w \in Workflow, Stamp(w) PROVE TypeInv'
    <3>1. PICK i \in FreshIds, k \in Kind, t \in 0 .. clock :
             /\ event' = [event EXCEPT ![w] = [id |-> i, ts |-> t, kind |-> k]]
             /\ seen' = [seen EXCEPT ![i] = acked]
      BY <2>4 DEF Stamp
    <3>2. [id |-> i, ts |-> t, kind |-> k] \in Event
      BY DEF Event, FreshIds
    <3> QED
      BY <2>4, <3>1, <3>2 DEF Stamp
  <2>5. ASSUME NEW w \in Workflow, Acquire(w) PROVE TypeInv'
    BY <2>5 DEF Acquire
  <2>6. ASSUME NEW w \in Workflow, ReadTail(w) PROVE TypeInv'
    <3>1. TailHead \in Seq(Event)
      BY TailIsHead
    <3>2. pc[w] = "locked" /\ event[w] \in Event
      BY <2>6 DEF ReadTail
    <3>3. Append(TailHead, event[w]) \in Seq(Event)
      BY <3>1, <3>2
    <3>4. head' \in [Workflow -> Seq(Event)]
      BY <2>6, <3>3 DEF ReadTail, ChainTo
    <3> QED
      BY <2>6, <3>2, <3>4 DEF ReadTail, ChainTo
  <2>7. ASSUME NEW w \in Workflow, Refuse(w) PROVE TypeInv'
    BY <2>7, SMTT(30) DEF Refuse, Leave, Genesis
  <2>8. ASSUME NEW w \in Workflow, BeginWrite(w) PROVE TypeInv'
    <3>1. [event |-> event[w], head |-> head[w], whole |-> FALSE] \in Frame
      <4>1. event[w] \in Event /\ head[w] \in Seq(Event)
        BY <2>8 DEF BeginWrite
      <4> QED
        BY <4>1 DEF Frame
    <3> QED
      BY <2>8, <3>1 DEF BeginWrite
  <2>9. ASSUME NEW w \in Workflow, EndWrite(w) PROVE TypeInv'
    <3>1. ASSUME NEW n \in 1 .. Len(frames), frames' = [frames EXCEPT ![n].whole = TRUE]
          PROVE  frames' \in Seq(Frame)
      <4>1. [frames[n] EXCEPT !.whole = TRUE] \in Frame
        <5>1. frames[n] \in Frame
          OBVIOUS
        <5> QED
          BY <5>1 DEF Frame
      <4>2. frames' = [frames EXCEPT ![n] = [frames[n] EXCEPT !.whole = TRUE]]
        BY <3>1
      <4> QED
        BY <4>1, <4>2
    <3>2. frames' \in Seq(Frame)
      BY <2>9, <3>1 DEF EndWrite
    <3>3. shorts' \in 0 .. MaxShort
      BY <2>9 DEF EndWrite
    <3> QED
      BY <2>9, <3>2, <3>3 DEF EndWrite
  <2>10. ASSUME NEW w \in Workflow, Return(w) PROVE TypeInv'
    <3>1. event[w] \in Event
      BY <2>10 DEF Return
    <3> QED
      BY <2>10, <3>1 DEF Return, Leave, Genesis
  <2>11. ASSUME NEW w \in Workflow, Crash(w) PROVE TypeInv'
    BY <2>11 DEF Crash, Leave, Genesis
  <2>12. CASE Tick
    BY <2>12 DEF Tick
  <2> QED
    BY <2>1, <2>2, <2>3, <2>4, <2>5, <2>6, <2>7, <2>8, <2>9, <2>10, <2>11, <2>12
       DEF Next, Inside
<1> QED
  BY <1>1, <1>2, PTL DEF Spec

(* The streams and the workflows keep their types.                         *)
THEOREM TypeCorrect == Spec => []TypeOK
<1>1. TypeInv => TypeOK
  BY DEF TypeInv
<1> QED
  BY <1>1, TypeInvHolds, PTL

-----------------------------------------------------------------------------
(* Whoever is between flock and unlock holds the lock: at most one is.     *)
THEOREM LockExcludes == Spec => []LockHeldInside
<1>1. Init => LockHeldInside
  BY MarkersAssumption DEF Init, LockHeldInside
<1>2. TypeInv /\ LockHeldInside /\ [Next]_vars => LockHeldInside'
  <2> SUFFICES ASSUME TypeInv, LockHeldInside, [Next]_vars PROVE LockHeldInside'
    OBVIOUS
  <2> USE MarkersAssumption DEF TypeInv, TypeOK, LockHeldInside
  <2>1. CASE UNCHANGED vars
    BY <2>1 DEF vars
  <2>2. ASSUME NEW w \in Workflow, Open(w) PROVE LockHeldInside'
    BY <2>2 DEF Open
  <2>3. ASSUME NEW w \in Workflow, EmitInternal(w) PROVE LockHeldInside'
    BY <2>3 DEF EmitInternal
  <2>4. ASSUME NEW w \in Workflow, Stamp(w) PROVE LockHeldInside'
    BY <2>4 DEF Stamp
  <2>5. ASSUME NEW w \in Workflow, Acquire(w) PROVE LockHeldInside'
    BY <2>5 DEF Acquire
  <2>6. ASSUME NEW w \in Workflow, Inside(w) PROVE LockHeldInside'
    <3>1. CASE ReadTail(w)
      BY <3>1 DEF ReadTail, ChainTo
    <3>2. CASE Refuse(w)
      BY <3>2 DEF Refuse, Leave
    <3>3. CASE BeginWrite(w)
      BY <3>3 DEF BeginWrite
    <3>4. CASE EndWrite(w)
      BY <3>4 DEF EndWrite
    <3>5. CASE Return(w)
      BY <3>5 DEF Return, Leave
    <3> QED
      BY <2>6, <3>1, <3>2, <3>3, <3>4, <3>5 DEF Inside
  <2>7. ASSUME NEW w \in Workflow, Crash(w) PROVE LockHeldInside'
    BY <2>7 DEF Crash, Leave
  <2>8. CASE Tick
    BY <2>8 DEF Tick
  <2> QED
    BY <2>1, <2>2, <2>3, <2>4, <2>5, <2>6, <2>7, <2>8 DEF Next
<1> QED
  BY <1>1, <1>2, TypeInvHolds, PTL DEF Spec

-----------------------------------------------------------------------------
(* What a step does to the spanning file: it keeps every frame that is     *)
(* there, but for the last bytes of a torn one, and at most adds one.      *)
SameFrame(n) ==
    /\ frames'[n].event = frames[n].event
    /\ frames'[n].head = frames[n].head
    /\ frames[n].whole => frames'[n].whole

LEMMA Written ==
    ASSUME TypeInv, NEW w \in Workflow, BeginWrite(w)
    PROVE  /\ Len(frames') = Len(frames) + 1
           /\ \A n \in 1 .. Len(frames) : frames'[n] = frames[n]
           /\ frames'[Len(frames) + 1] =
                 [event |-> event[w], head |-> head[w], whole |-> FALSE]
<1>1. [event |-> event[w], head |-> head[w], whole |-> FALSE] \in Frame
  <2>1. event[w] \in Event /\ head[w] \in Seq(Event)
    BY DEF BeginWrite, TypeInv, TypeOK, Emitting, ChainHead
  <2> QED
    BY <2>1 DEF Frame, ChainHead
<1>2. frames \in Seq(Frame)
  BY DEF TypeInv, TypeOK
<1> QED
  BY <1>1, <1>2 DEF BeginWrite

LEMMA Finished ==
    ASSUME TypeInv, NEW w \in Workflow, EndWrite(w)
    PROVE  /\ Len(frames') = Len(frames)
           /\ \A n \in 1 .. Len(frames) : SameFrame(n)
<1>1. frames \in Seq(Frame)
  BY DEF TypeInv, TypeOK
<1>2. ASSUME NEW n \in 1 .. Len(frames), frames' = [frames EXCEPT ![n].whole = TRUE]
      PROVE  /\ Len(frames') = Len(frames)
             /\ \A m \in 1 .. Len(frames) : SameFrame(m)
  <2> DEFINE r == [frames[n] EXCEPT !.whole = TRUE]
  <2>1. frames' = [frames EXCEPT ![n] = r]
    BY <1>2
  <2> HIDE DEF r
  <2>2. Len(frames') = Len(frames)
    BY <1>1, <2>1
  <2>3. \A m \in 1 .. Len(frames) : m # n => frames'[m] = frames[m]
    BY <1>1, <2>1
  <2>4. frames'[n] = r
    BY <1>1, <2>1
  <2>5. frames[n] \in Frame
    BY <1>1
  <2>6. SameFrame(n)
    BY <2>4, <2>5 DEF SameFrame, Frame, r
  <2> QED
    BY <2>2, <2>3, <2>6 DEF SameFrame
<1>3. CASE UNCHANGED frames
  BY <1>3 DEF SameFrame
<1> QED
  BY <1>2, <1>3 DEF EndWrite

(* Every other step leaves the file alone.                                 *)
LEMMA FramesStill ==
    ASSUME [Next]_vars, \A w \in Workflow : ~ BeginWrite(w) /\ ~ EndWrite(w)
    PROVE  frames' = frames
  BY DEF Next, Inside, vars, Open, EmitInternal, Stamp, Acquire, ReadTail, ChainTo,
         Refuse, Return, Leave, Crash, Tick, Streams

(* A workflow gets to "write" by reading the tail, and keeps what it read. *)
LEMMA ToWrite ==
    ASSUME TypeInv, [Next]_vars, NEW w \in Workflow, pc'[w] = "write",
           frames' = frames
    PROVE  \/ Decodes(frames) /\ head'[w] = Append(TailHead, event[w]) /\ event'[w] = event[w]
           \/ pc[w] = "write" /\ head'[w] = head[w] /\ event'[w] = event[w]
<1> USE DEF TypeInv, TypeOK, Streams, History
<1>1. CASE UNCHANGED vars
  BY <1>1 DEF vars
<1>2. ASSUME NEW v \in Workflow, Open(v) \/ EmitInternal(v) \/ Acquire(v)
      PROVE  pc[w] = "write" /\ head' = head /\ event' = event
  BY <1>2 DEF Open, EmitInternal, Acquire
<1>3. ASSUME NEW v \in Workflow, Stamp(v)
      PROVE  pc[w] = "write" /\ head'[w] = head[w] /\ event'[w] = event[w]
  BY <1>3 DEF Stamp
<1>4. ASSUME NEW v \in Workflow, ReadTail(v)
      PROVE  \/ Decodes(frames) /\ head'[w] = Append(TailHead, event[w]) /\ event'[w] = event[w]
             \/ pc[w] = "write" /\ head'[w] = head[w] /\ event'[w] = event[w]
  BY <1>4 DEF ReadTail, ChainTo
<1>5. ASSUME NEW v \in Workflow, Refuse(v) \/ Return(v) \/ Crash(v)
      PROVE  pc[w] = "write" /\ head'[w] = head[w] /\ event'[w] = event[w]
  BY <1>5 DEF Refuse, Return, Crash, Leave
<1>6. ASSUME NEW v \in Workflow, BeginWrite(v) \/ EndWrite(v)
      PROVE  pc[w] = "write" /\ head'[w] = head[w] /\ event'[w] = event[w]
  BY <1>6 DEF BeginWrite, EndWrite
<1>7. CASE Tick
  BY <1>7 DEF Tick
<1> QED
  BY <1>1, <1>2, <1>3, <1>4, <1>5, <1>6, <1>7 DEF Next, Inside

(* The head that a writer computed folds the whole file and its event.     *)
HeadRead ==
    \A w \in Workflow :
        pc[w] = "write" => /\ Decodes(frames)
                           /\ head[w] = Append(Bodies(Len(frames)), event[w])

ChainInv == Untampered /\ TornIsLast /\ HeadRead

LEMMA TailFolds ==
    ASSUME TypeInv, Untampered
    PROVE  TailHead = Bodies(Len(frames))
<1>1. frames \in Seq(Frame)
  BY DEF TypeInv, TypeOK
<1>2. CASE frames = <<>>
  BY <1>2 DEF TailHead, Genesis, Bodies
<1>3. CASE frames # <<>>
  <2>1. Len(frames) \in 1 .. Len(frames)
    BY <1>1, <1>3
  <2> QED
    BY <1>3, <2>1 DEF TailHead, Untampered
<1> QED
  BY <1>2, <1>3

LEMMA ChainInvHolds == Spec => []ChainInv
<1>1. Init => ChainInv
  BY DEF Init, ChainInv, Untampered, TornIsLast, HeadRead
<1>2. TypeInv /\ TypeInv' /\ LockHeldInside /\ ChainInv /\ [Next]_vars => ChainInv'
  <2> SUFFICES ASSUME TypeInv, TypeInv', LockHeldInside, ChainInv, [Next]_vars
               PROVE  ChainInv'
    OBVIOUS
  <2>0. frames \in Seq(Frame) /\ Len(frames) \in Nat
    BY DEF TypeInv, TypeOK
  <2>1. CASE frames' = frames
    <3>1. HeadRead'
      <4> SUFFICES ASSUME NEW w \in Workflow, pc'[w] = "write"
                   PROVE  /\ Decodes(frames)
                          /\ head'[w] = Append(Bodies(Len(frames)), event'[w])
        BY <2>1 DEF HeadRead, Decodes, Bodies
      <4>1. TailHead = Bodies(Len(frames))
        BY TailFolds DEF ChainInv
      <4> QED
        BY <2>1, <4>1, ToWrite DEF ChainInv, HeadRead
    <3> QED
      BY <2>1, <3>1 DEF ChainInv, Untampered, TornIsLast, Bodies
  <2>2. ASSUME NEW w \in Workflow, BeginWrite(w) PROVE ChainInv'
    <3>1. Decodes(frames) /\ head[w] = Append(Bodies(Len(frames)), event[w])
      BY <2>2 DEF BeginWrite, ChainInv, HeadRead
    <3>2. /\ Len(frames') = Len(frames) + 1
          /\ \A n \in 1 .. Len(frames) : frames'[n] = frames[n]
          /\ frames'[Len(frames) + 1] =
                [event |-> event[w], head |-> head[w], whole |-> FALSE]
      BY <2>2, Written
    <3>3. Append(Bodies(Len(frames)), event[w]) = [i \in 1 .. Len(frames) + 1 |-> frames'[i].event]
      <4>1. ASSUME NEW n \in 1 .. Len(frames) PROVE frames[n].event \in Event
        <5>1. frames[n] \in Frame
          BY <2>0
        <5> QED
          BY <5>1 DEF Frame
      <4>2. Bodies(Len(frames)) \in Seq(Event) /\ Len(Bodies(Len(frames))) = Len(frames)
        BY <2>0, <4>1 DEF Bodies
      <4>3. Append(Bodies(Len(frames)), event[w]) =
               [i \in 1 .. Len(frames) + 1 |->
                   IF i <= Len(frames) THEN Bodies(Len(frames))[i] ELSE event[w]]
        BY <2>0, <4>2
      <4>4. ASSUME NEW i \in 1 .. Len(frames) + 1 PROVE
               frames'[i].event = IF i <= Len(frames) THEN Bodies(Len(frames))[i] ELSE event[w]
        <5>1. CASE i = Len(frames) + 1
          BY <2>0, <3>2, <5>1
        <5>2. CASE i \in 1 .. Len(frames)
          BY <2>0, <3>2, <5>2 DEF Bodies
        <5> QED
          BY <2>0, <5>1, <5>2
      <4> QED
        BY <4>3, <4>4
    <3>4. Untampered'
      <4> SUFFICES ASSUME NEW n \in 1 .. Len(frames) + 1
                   PROVE  frames'[n].head = [i \in 1 .. n |-> frames'[i].event]
        BY <3>2 DEF Untampered, Bodies
      <4>1. CASE n = Len(frames) + 1
        BY <3>1, <3>2, <3>3, <4>1
      <4>2. CASE n \in 1 .. Len(frames)
        <5>1. frames'[n].head = frames[n].head
          BY <3>2, <4>2
        <5>2. frames[n].head = [i \in 1 .. n |-> frames[i].event]
          BY <4>2 DEF ChainInv, Untampered, Bodies
        <5>3. \A i \in 1 .. n : frames'[i].event = frames[i].event
          BY <2>0, <3>2, <4>2
        <5> QED
          BY <5>1, <5>2, <5>3
      <4> QED
        BY <2>0, <4>1, <4>2
    <3>5. TornIsLast'
      BY <2>0, <3>1, <3>2 DEF TornIsLast, Decodes
    <3>6. HeadRead'
      BY <2>2 DEF BeginWrite, HeadRead, LockHeldInside, TypeInv, TypeOK
    <3> QED
      BY <3>4, <3>5, <3>6 DEF ChainInv
  <2>3. ASSUME NEW w \in Workflow, EndWrite(w) PROVE ChainInv'
    <3>1. /\ Len(frames') = Len(frames)
          /\ \A n \in 1 .. Len(frames) : SameFrame(n)
      BY <2>3, Finished
    <3>2. Untampered'
      <4> SUFFICES ASSUME NEW n \in 1 .. Len(frames)
                   PROVE  frames'[n].head = [i \in 1 .. n |-> frames'[i].event]
        BY <3>1 DEF Untampered, Bodies
      <4>1. frames'[n].head = frames[n].head
        BY <3>1 DEF SameFrame
      <4>2. frames[n].head = [i \in 1 .. n |-> frames[i].event]
        BY DEF ChainInv, Untampered, Bodies
      <4>3. \A i \in 1 .. n : frames'[i].event = frames[i].event
        BY <2>0, <3>1 DEF SameFrame
      <4> QED
        BY <4>1, <4>2, <4>3
    <3>3. TornIsLast'
      BY <2>0, <3>1 DEF ChainInv, TornIsLast, SameFrame
    <3>4. HeadRead'
      BY <2>3 DEF EndWrite, HeadRead, LockHeldInside, TypeInv, TypeOK
    <3> QED
      BY <3>2, <3>3, <3>4 DEF ChainInv
  <2> QED
    BY <2>1, <2>2, <2>3, FramesStill
<1> QED
  BY <1>1, <1>2, TypeInvHolds, LockExcludes, PTL DEF Spec

(* The chain never forks.                                                  *)
THEOREM ChainNeverForks == Spec => []ChainUnforked
<1>1. ChainInv => ChainUnforked
  BY DEF ChainInv, ChainUnforked
<1> QED
  BY <1>1, ChainInvHolds, PTL

(* Nothing follows a torn frame.                                           *)
THEOREM TornFrameStaysLast == Spec => []TornIsLast
<1>1. ChainInv => TornIsLast
  BY DEF ChainInv
<1> QED
  BY <1>1, ChainInvHolds, PTL

-----------------------------------------------------------------------------
(* An acknowledged event is in its file, and so is the one being written.  *)
OnDisk ==
    /\ acked \subseteq Events(frames)
    /\ \A w \in Workflow :
          /\ kept[w] \subseteq Events(internal[w])
          /\ pc[w] = "writing" \/ pc[w] = "unlock" => event[w] \in Events(frames)

LEMMA EventsAppend ==
    ASSUME NEW S, NEW s \in Seq(S), NEW r \in S
    PROVE  Events(Append(s, r)) = Events(s) \cup {r.event}
<1>1. Len(Append(s, r)) = Len(s) + 1 /\ Len(s) \in Nat
  OBVIOUS
<1>2. \A n \in 1 .. Len(s) : Append(s, r)[n] = s[n]
  OBVIOUS
<1>3. Append(s, r)[Len(s) + 1] = r
  OBVIOUS
<1>4. 1 .. Len(s) + 1 = 1 .. Len(s) \cup {Len(s) + 1}
  BY <1>1
<1> QED
  BY <1>1, <1>2, <1>3, <1>4 DEF Events

(* The events of the spanning file, before and after a step.               *)
LEMMA EventsGrow ==
    ASSUME TypeInv, [Next]_vars
    PROVE  \/ Events(frames)' = Events(frames)
           \/ \E w \in Workflow :
                 BeginWrite(w) /\ Events(frames)' = Events(frames) \cup {event[w]}
<1>0. frames \in Seq(Frame)
  BY DEF TypeInv, TypeOK
<1>1. ASSUME NEW w \in Workflow, BeginWrite(w)
      PROVE  Events(frames)' = Events(frames) \cup {event[w]}
  <2> DEFINE r == [event |-> event[w], head |-> head[w], whole |-> FALSE]
  <2>1. r \in Frame
    <3>1. event[w] \in Event /\ head[w] \in Seq(Event)
      BY <1>1 DEF BeginWrite, TypeInv, TypeOK, Emitting, ChainHead
    <3> QED
      BY <3>1 DEF Frame, ChainHead
  <2>2. r.event = event[w] /\ frames' = Append(frames, r)
    BY <1>1 DEF BeginWrite
  <2> HIDE DEF r
  <2>3. Events(Append(frames, r)) = Events(frames) \cup {r.event}
    BY <1>0, <2>1, EventsAppend
  <2>4. Events(frames)' = Events(Append(frames, r))
    BY <2>2 DEF Events
  <2> QED
    BY <2>2, <2>3, <2>4
<1>2. ASSUME NEW w \in Workflow, EndWrite(w)
      PROVE  Events(frames)' = Events(frames)
  <2>1. /\ Len(frames') = Len(frames)
        /\ \A n \in 1 .. Len(frames) : SameFrame(n)
    BY <1>2, Finished
  <2> QED
    BY <2>1 DEF Events, SameFrame
<1>3. CASE frames' = frames
  BY <1>3 DEF Events
<1> QED
  BY <1>1, <1>2, <1>3, FramesStill

LEMMA OnDiskHolds == Spec => []OnDisk
<1>1. Init => OnDisk
  BY DEF Init, OnDisk
<1>2. TypeInv /\ OnDisk /\ [Next]_vars => OnDisk'
  <2> SUFFICES ASSUME TypeInv, OnDisk, [Next]_vars PROVE OnDisk'
    OBVIOUS
  <2>0. Events(frames) \subseteq Events(frames)'
    BY EventsGrow
  <2> DEFINE Rest == \A w \in Workflow :
                        /\ kept'[w] \subseteq Events(internal'[w])
                        /\ pc'[w] = "writing" \/ pc'[w] = "unlock"
                             => event'[w] \in Events(frames)'
  <2> SUFFICES acked' \subseteq Events(frames)' /\ Rest
    BY DEF OnDisk, Events
  <2> USE DEF TypeInv, TypeOK, Streams, History
  <2>1. CASE UNCHANGED vars
    BY <2>1, <2>0 DEF vars, OnDisk
  <2>2. ASSUME NEW w \in Workflow, Open(w) PROVE acked' \subseteq Events(frames)' /\ Rest
    BY <2>2, <2>0 DEF Open, OnDisk
  <2>3. ASSUME NEW w \in Workflow, EmitInternal(w)
        PROVE  acked' \subseteq Events(frames)' /\ Rest
    <3>1. PICK i \in FreshIds, whole \in BOOLEAN, dies \in BOOLEAN :
             Append1(w, [id |-> i, ts |-> clock, kind |-> "enveloped"], whole, dies)
      BY <2>3 DEF EmitInternal, Append1
    <3> DEFINE e == [id |-> i, ts |-> clock, kind |-> "enveloped"]
               r == [event |-> e, whole |-> whole]
    <3>2. r \in InternalFrame /\ r.event = e
      <4>1. e \in Event
        BY DEF Event, FreshIds, Kind
      <4> QED
        BY <4>1 DEF InternalFrame
    <3>3. /\ internal' = [internal EXCEPT ![w] = Append(internal[w], r)]
          /\ kept' = kept \/ kept' = [kept EXCEPT ![w] = kept[w] \cup {e}]
          /\ pc' = pc \/ pc' = [pc EXCEPT ![w] = "down"]
      BY <3>1 DEF Append1
    <3> HIDE DEF e, r
    <3>4. Events(Append(internal[w], r)) = Events(internal[w]) \cup {e}
      BY <3>2, EventsAppend
    <3>5. \A v \in Workflow : kept'[v] \subseteq Events(internal'[v])
      BY <3>3, <3>4 DEF OnDisk
    <3> QED
      BY <2>0, <2>3, <3>3, <3>5 DEF EmitInternal, OnDisk
  <2>4. ASSUME NEW w \in Workflow, Stamp(w) PROVE acked' \subseteq Events(frames)' /\ Rest
    BY <2>4, <2>0 DEF Stamp, OnDisk
  <2>5. ASSUME NEW w \in Workflow, Acquire(w) PROVE acked' \subseteq Events(frames)' /\ Rest
    BY <2>5, <2>0 DEF Acquire, OnDisk
  <2>6. ASSUME NEW w \in Workflow, ReadTail(w) PROVE acked' \subseteq Events(frames)' /\ Rest
    BY <2>6, <2>0 DEF ReadTail, ChainTo, OnDisk
  <2>7. ASSUME NEW w \in Workflow, Refuse(w) \/ Crash(w)
        PROVE  acked' \subseteq Events(frames)' /\ Rest
    BY <2>7, <2>0 DEF Refuse, Crash, Leave, OnDisk
  <2>8. ASSUME NEW w \in Workflow, BeginWrite(w)
        PROVE  acked' \subseteq Events(frames)' /\ Rest
    <3>1. event[w] \in Events(frames)'
      <4>1. Len(frames') = Len(frames) + 1 /\ frames'[Len(frames) + 1].event = event[w]
        <5>1. TypeInv
          OBVIOUS
        <5>2. frames'[Len(frames) + 1] = [event |-> event[w], head |-> head[w], whole |-> FALSE]
          BY <2>8, <5>1, Written
        <5> QED
          BY <2>8, <5>1, <5>2, Written
      <4>2. Len(frames) \in Nat
        OBVIOUS
      <4>3. Len(frames) + 1 \in 1 .. Len(frames')
        BY <4>1, <4>2
      <4> QED
        BY <4>1, <4>3 DEF Events
    <3> QED
      BY <2>8, <2>0, <3>1 DEF BeginWrite, OnDisk
  <2>9. ASSUME NEW w \in Workflow, EndWrite(w) PROVE acked' \subseteq Events(frames)' /\ Rest
    BY <2>9, <2>0 DEF EndWrite, OnDisk
  <2>10. ASSUME NEW w \in Workflow, Return(w) PROVE acked' \subseteq Events(frames)' /\ Rest
    BY <2>10, <2>0 DEF Return, Leave, OnDisk
  <2>11. CASE Tick
    BY <2>11, <2>0 DEF Tick, OnDisk
  <2> QED
    BY <2>1, <2>2, <2>3, <2>4, <2>5, <2>6, <2>7, <2>8, <2>9, <2>10, <2>11
       DEF Next, Inside
<1> QED
  BY <1>1, <1>2, TypeInvHolds, PTL DEF Spec

(* A replay that answers has every acknowledged event.                     *)
THEOREM ReplayIsComplete == Spec => []ReplayLosesNothing
<1>1. OnDisk => ReplayLosesNothing
  <2> SUFFICES ASSUME OnDisk, NEW w \in Workflow, Replays(w)
               PROVE  kept[w] \cup acked \subseteq Replayed(w)
    BY DEF ReplayLosesNothing
  <2>1. Decoded(internal[w]) = Events(internal[w]) /\ Decoded(frames) = Events(frames)
    BY DEF Replays, Decodes, Decoded, Events
  <2> QED
    BY <2>1 DEF OnDisk, Replayed
<1> QED
  BY <1>1, OnDiskHolds, PTL

-----------------------------------------------------------------------------
(* What had been acknowledged when an event was stamped is older than the  *)
(* event and in front of it; until the event is written, it is on disk.    *)
Older(e, S) == e.kind = "enveloped" => \A d \in S : d.ts <= e.ts

Unwritten == {"waiting", "locked", "write"}

OrderInv ==
    /\ \A n \in 1 .. Len(frames) :
          seen[frames[n].event.id] \subseteq {frames[m].event : m \in 1 .. n - 1}
    /\ \A e \in Events(frames) : e.ts <= clock /\ Older(e, seen[e.id])
    /\ \A w \in Workflow : event[w] # Nothing =>
          /\ event[w].ts <= clock /\ Older(event[w], seen[event[w].id])
          /\ pc[w] \in Unwritten => seen[event[w].id] \subseteq Events(frames)

LEMMA QuietStep ==
    ASSUME TypeInv, [Next]_vars,
           \A w \in Workflow : ~ Stamp(w) /\ ~ BeginWrite(w) /\ ~ EndWrite(w)
    PROVE  /\ seen' = seen /\ clock <= clock' /\ clock' \in Nat
           /\ \A w \in Workflow : event'[w] # Nothing =>
                 /\ event'[w] = event[w]
                 /\ pc'[w] \in Unwritten => pc[w] \in Unwritten
<1> USE BoundsAssumption DEF TypeInv, TypeOK, Streams, History, Unwritten
<1>1. CASE UNCHANGED vars
  BY <1>1 DEF vars
<1>2. ASSUME NEW v \in Workflow, Open(v)
      PROVE  /\ seen' = seen /\ clock' = clock /\ event' = event
             /\ \A w \in Workflow : pc'[w] \in Unwritten => pc[w] \in Unwritten
  BY <1>2 DEF Open
<1>3. ASSUME NEW v \in Workflow, EmitInternal(v)
      PROVE  /\ seen' = seen /\ clock' = clock /\ event' = event
             /\ \A w \in Workflow : pc'[w] \in Unwritten => pc[w] \in Unwritten
  BY <1>3 DEF EmitInternal
<1>4. ASSUME NEW v \in Workflow, Acquire(v)
      PROVE  /\ seen' = seen /\ clock' = clock /\ event' = event
             /\ \A w \in Workflow : pc'[w] \in Unwritten => pc[w] \in Unwritten
  BY <1>4 DEF Acquire
<1>5. ASSUME NEW v \in Workflow, ReadTail(v)
      PROVE  /\ seen' = seen /\ clock' = clock /\ event' = event
             /\ \A w \in Workflow : pc'[w] \in Unwritten => pc[w] \in Unwritten
  BY <1>5 DEF ReadTail, ChainTo
<1>6. ASSUME NEW v \in Workflow, Refuse(v) \/ Return(v) \/ Crash(v)
      PROVE  /\ seen' = seen /\ clock' = clock
             /\ \A w \in Workflow : event'[w] # Nothing =>
                   event'[w] = event[w] /\ pc'[w] = pc[w]
  BY <1>6 DEF Refuse, Return, Crash, Leave
<1>7. CASE Tick
  BY <1>7 DEF Tick
<1> QED
  BY <1>1, <1>2, <1>3, <1>4, <1>5, <1>6, <1>7 DEF Next, Inside

LEMMA OrderInvHolds == Spec => []OrderInv
<1>1. Init => OrderInv
  BY DEF Init, OrderInv, Events
<1>2. TypeInv /\ TypeInv' /\ OnDisk /\ OrderInv /\ [Next]_vars => OrderInv'
  <2> SUFFICES ASSUME TypeInv, TypeInv', OnDisk, OrderInv, [Next]_vars
               PROVE  OrderInv'
    OBVIOUS
  <2>0. /\ frames \in Seq(Frame) /\ Len(frames) \in Nat
        /\ \A n \in 1 .. Len(frames) : frames[n].event \in Event
        /\ Events(frames) \subseteq Event
        /\ clock \in Nat
    <3>1. frames \in Seq(Frame) /\ clock \in Nat
      BY BoundsAssumption DEF TypeInv, TypeOK
    <3>2. ASSUME NEW n \in 1 .. Len(frames) PROVE frames[n].event \in Event
      <4>1. frames[n] \in Frame
        BY <3>1
      <4> QED
        BY <4>1 DEF Frame
    <3> QED
      BY <3>1, <3>2 DEF Events
  <2>1. \A e \in Event : e.id \in EventId /\ e.ts \in Nat
    BY BoundsAssumption DEF Event
  <2>2. ASSUME \A w \in Workflow : ~ Stamp(w) /\ ~ BeginWrite(w) /\ ~ EndWrite(w)
        PROVE  OrderInv'
    <3>1. frames' = frames
      BY <2>2, FramesStill
    <3>2. /\ seen' = seen /\ clock <= clock' /\ clock' \in Nat
          /\ \A w \in Workflow : event'[w] # Nothing =>
                /\ event'[w] = event[w]
                /\ pc'[w] \in Unwritten => pc[w] \in Unwritten
      BY <2>2, QuietStep
    <3>3. Events(frames)' = Events(frames)
      BY <3>1 DEF Events
    <3>4. ASSUME NEW e \in Event, e.ts <= clock, Older(e, seen[e.id])
          PROVE  e.ts <= clock' /\ Older(e, seen'[e.id])
      BY <2>0, <2>1, <3>2, <3>4 DEF Older
    <3>5. \A w \in Workflow : event[w] # Nothing => event[w] \in Event
      BY DEF TypeInv, TypeOK
    <3>6. \A w \in Workflow : event'[w] # Nothing =>
             /\ event'[w].ts <= clock' /\ Older(event[w], seen'[event[w].id])
             /\ pc'[w] \in Unwritten => seen[event[w].id] \subseteq Events(frames)
      BY <3>2, <3>4, <3>5 DEF OrderInv
    <3> QED
      BY <2>0, <3>1, <3>2, <3>3, <3>4, <3>6 DEF OrderInv
  <2>3. ASSUME NEW w \in Workflow, Stamp(w) PROVE OrderInv'
    <3>1. PICK i \in FreshIds, k \in Kind, t \in 0 .. clock :
             /\ k = "enveloped" => t = clock
             /\ event' = [event EXCEPT ![w] = [id |-> i, ts |-> t, kind |-> k]]
             /\ seen' = [seen EXCEPT ![i] = acked]
      BY <2>3 DEF Stamp
    <3> DEFINE e == [id |-> i, ts |-> t, kind |-> k]
    <3>2. e \in Event /\ e.id = i /\ e.ts = t /\ e.kind = k /\ t \in Nat /\ t <= clock
      BY <2>0, BoundsAssumption DEF Event, FreshIds, TypeInv, TypeOK
    <3>3. event'[w] = e /\ \A v \in Workflow : v # w => event'[v] = event[v]
      BY <3>1 DEF TypeInv, TypeOK
    <3> HIDE DEF e
    <3>4. /\ seen'[i] = acked
          /\ \A j \in EventId : j # i => seen'[j] = seen[j]
      BY <3>1 DEF TypeInv, TypeOK, FreshIds
    <3>5. \A d \in Events(frames) : d.id # i
      BY DEF FreshIds
    <3>6. \A v \in Workflow : event[v] # Nothing => event[v].id # i
      BY DEF FreshIds
    <3>7. /\ frames' = frames /\ clock' = clock /\ acked \subseteq Events(frames)
          /\ \A v \in Workflow : v # w => pc'[v] = pc[v]
      BY <2>3 DEF Stamp, Streams, OnDisk, TypeInv, TypeOK
    <3>8. Events(frames)' = Events(frames)
      BY <3>7 DEF Events
    <3>9. ASSUME NEW d \in Event, d.id # i, Older(d, seen[d.id]) PROVE Older(d, seen'[d.id])
      BY <2>1, <3>4, <3>9
    <3>10. ASSUME NEW n \in 1 .. Len(frames)
           PROVE  seen'[frames[n].event.id] \subseteq {frames[m].event : m \in 1 .. n - 1}
      <4>1. frames[n].event \in Events(frames)
        BY DEF Events
      <4>2. seen'[frames[n].event.id] = seen[frames[n].event.id]
        BY <2>0, <2>1, <3>4, <3>5, <4>1
      <4> QED
        BY <4>2 DEF OrderInv
    <3>11. \A d \in Events(frames) : d.ts <= clock /\ Older(d, seen'[d.id])
      BY <2>0, <3>5, <3>9 DEF OrderInv
    <3>12. Older(e, seen'[e.id])
      <4>1. \A d \in acked : d.ts <= clock
        BY <3>7 DEF OrderInv
      <4> QED
        BY <3>1, <3>2, <3>4, <4>1 DEF Older
    <3>13. ASSUME NEW v \in Workflow, event'[v] # Nothing
           PROVE  /\ event'[v].ts <= clock /\ Older(event'[v], seen'[event'[v].id])
                  /\ pc'[v] \in Unwritten => seen'[event'[v].id] \subseteq Events(frames)
      <4>1. CASE v = w
        BY <3>2, <3>3, <3>4, <3>7, <3>12, <4>1 DEF Older
      <4>2. CASE v # w
        <5>1. event'[v] = event[v] /\ event[v] \in Event /\ event[v].id # i /\ pc'[v] = pc[v]
          BY <3>3, <3>6, <3>7, <3>13, <4>2 DEF TypeInv, TypeOK
        <5>2. seen'[event[v].id] = seen[event[v].id]
          BY <2>1, <3>4, <5>1
        <5>3. Older(event[v], seen'[event[v].id])
          BY <3>9, <3>13, <5>1 DEF OrderInv
        <5> QED
          BY <3>13, <5>1, <5>2, <5>3 DEF OrderInv
      <4> QED
        BY <4>1, <4>2
    <3> QED
      BY <3>7, <3>8, <3>10, <3>11, <3>13 DEF OrderInv
  <2>4. ASSUME NEW w \in Workflow, BeginWrite(w) PROVE OrderInv'
    <3>1. /\ Len(frames') = Len(frames) + 1
          /\ \A n \in 1 .. Len(frames) : frames'[n] = frames[n]
          /\ frames'[Len(frames) + 1] =
                [event |-> event[w], head |-> head[w], whole |-> FALSE]
      BY <2>4, Written
    <3>2. /\ seen' = seen /\ clock' = clock /\ event' = event
          /\ pc[w] \in Unwritten
          /\ \A v \in Workflow : pc'[v] \in Unwritten => pc[v] \in Unwritten
      BY <2>4 DEF BeginWrite, History, Unwritten, TypeInv, TypeOK
    <3>3. event[w] # Nothing
      BY <2>4, MarkersAssumption DEF BeginWrite, TypeInv, Emitting
    <3>4. Events(frames)' = Events(frames) \cup {event[w]}
      <4>1. 1 .. Len(frames) + 1 = 1 .. Len(frames) \cup {Len(frames) + 1}
        BY <2>0
      <4> QED
        BY <3>1, <4>1 DEF Events
    <3>5. ASSUME NEW n \in 1 .. Len(frames) + 1
          PROVE  seen[frames'[n].event.id] \subseteq {frames'[m].event : m \in 1 .. n - 1}
      <4>1. CASE n = Len(frames) + 1
        <5>0. \A m \in 1 .. Len(frames) : frames'[m].event = frames[m].event
          BY <3>1
        <5>1. Events(frames) = {frames'[m].event : m \in 1 .. n - 1}
          BY <2>0, <5>0, <4>1 DEF Events
        <5> QED
          BY <3>1, <3>2, <3>3, <4>1, <5>1 DEF OrderInv
      <4>2. CASE n \in 1 .. Len(frames)
        <5>1. \A m \in 1 .. n - 1 : frames'[m].event = frames[m].event
          BY <2>0, <3>1, <4>2
        <5> QED
          BY <3>1, <4>2, <5>1 DEF OrderInv
      <4> QED
        BY <2>0, <4>1, <4>2
    <3> QED
      BY <3>1, <3>2, <3>3, <3>4, <3>5 DEF OrderInv
  <2>5. ASSUME NEW w \in Workflow, EndWrite(w) PROVE OrderInv'
    <3>1. /\ Len(frames') = Len(frames)
          /\ \A n \in 1 .. Len(frames) : frames'[n].event = frames[n].event
      BY <2>5, Finished DEF SameFrame
    <3>2. /\ seen' = seen /\ clock' = clock /\ event' = event
          /\ \A v \in Workflow : pc'[v] \in Unwritten => pc[v] \in Unwritten
      BY <2>5 DEF EndWrite, History, Unwritten, TypeInv, TypeOK
    <3>3. Events(frames)' = Events(frames)
      BY <3>1 DEF Events
    <3>4. ASSUME NEW n \in 1 .. Len(frames)
          PROVE  seen[frames'[n].event.id] \subseteq {frames'[m].event : m \in 1 .. n - 1}
      <4>1. {frames'[m].event : m \in 1 .. n - 1} = {frames[m].event : m \in 1 .. n - 1}
        BY <2>0, <3>1
      <4> QED
        BY <3>1, <4>1 DEF OrderInv
    <3> QED
      BY <3>1, <3>2, <3>3, <3>4 DEF OrderInv
  <2> QED
    BY <2>2, <2>3, <2>4, <2>5
<1> QED
  BY <1>1, <1>2, TypeInvHolds, OnDiskHolds, PTL DEF Spec

(* Replay keeps the order of emits that did not overlap.                   *)
THEOREM ReplayKeepsOrder == Spec => []ReplayFollowsChain
<1>1. TypeInv /\ OrderInv => ReplayFollowsChain
  <2> SUFFICES ASSUME TypeInv, OrderInv, NEW n \in 1 .. Len(frames)
               PROVE  LET e == frames[n].event
                      IN  /\ seen[e.id] \subseteq {frames[m].event : m \in 1 .. n - 1}
                          /\ e.kind = "enveloped" =>
                                \A d \in seen[e.id] : ReplayedBefore(e, d) => d.ts = e.ts
    BY DEF ReplayFollowsChain
  <2> DEFINE e == frames[n].event
  <2>1. e \in Events(frames) /\ e \in Event
    <3>1. frames[n] \in Frame
      BY DEF TypeInv, TypeOK
    <3> QED
      BY <3>1 DEF Events, Frame
  <2>2. \A d \in seen[e.id] : d.ts \in Nat /\ e.ts \in Nat
    BY <2>1, BoundsAssumption DEF Event, TypeInv, TypeOK
  <2>3. e.kind = "enveloped" => \A d \in seen[e.id] : d.ts <= e.ts
    BY <2>1 DEF OrderInv, Older
  <2>4. seen[e.id] \subseteq {frames[m].event : m \in 1 .. n - 1}
    BY DEF OrderInv
  <2>5. e.kind = "enveloped" => \A d \in seen[e.id] : ReplayedBefore(e, d) => d.ts = e.ts
    <3> HIDE DEF e
    <3> QED
      BY <2>2, <2>3 DEF ReplayedBefore
  <2> QED
    BY <2>4, <2>5
<1> QED
  BY <1>1, TypeInvHolds, OrderInvHolds, PTL

(* A writer under the lock sees no other one's half-written frame.         *)
THEOREM RefusalIsEarned == Spec => RefusedByTheTornOnly
<1>1. TypeInv /\ LockHeldInside =>
         (\A w \in Workflow : Refuse(w) => \A v \in Workflow : pc[v] # "writing")
  BY DEF LockHeldInside, Refuse
<1> QED
  BY <1>1, TypeInvHolds, LockExcludes, PTL DEF RefusedByTheTornOnly, Spec
=============================================================================
