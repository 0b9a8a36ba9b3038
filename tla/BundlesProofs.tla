--------------------------- MODULE BundlesProofs ----------------------------
(* What TLAPS proves of Bundles, for any builders, collectors, keys and    *)
(* queries, and of the vulnerability index, whose digests are part of a    *)
(* bundle's key, for any feeds and any number of refreshes.                *)
EXTENDS Bundles, VulnIndex, SequenceTheorems, FiniteSetTheorems, TLAPS

Slots(b) == DOMAIN Queries[b]

TaskStates == {"waiting", "running", "trusted", "degraded", "failed"}

(* A table has one value of T for each query of each builder.              *)
Table(f, T) ==
    /\ DOMAIN f = Builder /\ f = [b \in Builder |-> f[b]]
    /\ \A b \in Builder : f[b] \in [Slots(b) -> T]

Reports == Seq({"degraded", "too_deep"})

Tables ==
    /\ pc \in [Builder \cup Collector ->
                 {"idle", "building", "raised", "built", "ended",
                  "pruning", "amortized", "dead"}]
    /\ Table(task, TaskStates) /\ Table(depth, Nat) /\ Table(events, Reports)
    /\ DOMAIN entries = Builder /\ entries = [b \in Builder |-> entries[b]]

(* One entry of a table is written, the others stay.                       *)
Only(b, i, f, g, x) ==
    \A c \in Builder : \A j \in Slots(c) :
        g[c][j] = IF c = b /\ j = i THEN x ELSE f[c][j]

LEMMA EntryWritten ==
    ASSUME NEW T, NEW f, Table(f, T), NEW b \in Builder, NEW i \in Slots(b), NEW x \in T,
           NEW g, g = [f EXCEPT ![b][i] = x]
    PROVE  Table(g, T) /\ Only(b, i, f, g, x)
<1>1. \A c \in Builder : g[c] = IF c = b THEN [f[b] EXCEPT ![i] = x] ELSE f[c]
  BY DEF Table
<1>2. [f[b] EXCEPT ![i] = x] \in [Slots(b) -> T]
  BY DEF Table
<1>3. DOMAIN g = Builder /\ g = [c \in Builder |-> g[c]]
  BY DEF Table
<1>4. Table(g, T)
  BY <1>1, <1>2, <1>3 DEF Table
<1>5. ASSUME NEW c \in Builder, NEW j \in Slots(c)
      PROVE  g[c][j] = IF c = b /\ j = i THEN x ELSE f[c][j]
  BY <1>1 DEF Table
<1> QED
  BY <1>4, <1>5 DEF Only

(* What the steps of a query write.                                        *)
Ends(b, i, s) == Table(task', TaskStates) /\ Only(b, i, task, task', s)
Reporting(b, i, e) ==
    Table(events', Reports) /\ Only(b, i, events, events', Append(events[b][i], e))

LEMMA QuerySteps ==
    ASSUME Tables, NEW b \in Builder, NEW i \in Slots(b)
    PROVE  /\ Acquire(b, i) => Ends(b, i, "running") /\ UNCHANGED <<pc, depth, events>>
           /\ TooDeep(b, i) => /\ Ends(b, i, "failed") /\ UNCHANGED depth
                               /\ Reporting(b, i, "too_deep")
           /\ MissingDispatch(b, i) => Ends(b, i, "failed") /\ UNCHANGED <<depth, events>>
           /\ Answer(b, i) => /\ \/ Ends(b, i, "trusted")
                                 \/ LastLink(b, i) /\ Ends(b, i, "degraded")
                              /\ UNCHANGED <<pc, depth, events>>
           /\ FallBack(b, i) => /\ UNCHANGED <<pc, task>>
                                /\ Reporting(b, i, "degraded")
                                /\ Table(depth', Nat)
                                /\ Only(b, i, depth, depth', depth[b][i] + 1)
<1> USE DEF Tables
<1>1. ASSUME NEW s \in TaskStates, SetTask(b, i, s) PROVE Ends(b, i, s)
  BY <1>1, EntryWritten DEF SetTask, Ends
<1>2. ASSUME NEW e \in {"degraded", "too_deep"}, Emit(b, i, e) PROVE Reporting(b, i, e)
  <2>1. Append(events[b][i], e) \in Reports
    BY DEF Table, Reports
  <2>2. events' = [events EXCEPT ![b][i] = Append(events[b][i], e)]
    BY <1>2 DEF Emit, Table
  <2> QED
    BY <2>1, <2>2, EntryWritten DEF Reporting
<1>3. Acquire(b, i) => Ends(b, i, "running") /\ UNCHANGED <<pc, depth, events>>
  BY <1>1 DEF Acquire, TaskStates
<1>4. TooDeep(b, i) => /\ Ends(b, i, "failed") /\ UNCHANGED depth
                       /\ Reporting(b, i, "too_deep")
  BY <1>1, <1>2 DEF TooDeep, Raise, TaskStates
<1>5. MissingDispatch(b, i) => Ends(b, i, "failed") /\ UNCHANGED <<depth, events>>
  BY <1>1 DEF MissingDispatch, Raise, TaskStates
<1>6. Answer(b, i) => /\ \/ Ends(b, i, "trusted")
                         \/ LastLink(b, i) /\ Ends(b, i, "degraded")
                      /\ UNCHANGED <<pc, depth, events>>
  BY <1>1 DEF Answer, TaskStates
<1>7. ASSUME FallBack(b, i)
      PROVE  /\ UNCHANGED <<pc, task>> /\ Reporting(b, i, "degraded")
             /\ Table(depth', Nat) /\ Only(b, i, depth, depth', depth[b][i] + 1)
  <2>1. UNCHANGED <<pc, task>> /\ Reporting(b, i, "degraded")
    BY <1>2, <1>7 DEF FallBack
  <2>2. depth' = [depth EXCEPT ![b][i] = depth[b][i] + 1] /\ depth[b][i] + 1 \in Nat
    BY <1>7 DEF FallBack, Table
  <2> QED
    BY <2>1, <2>2, EntryWritten
<1> QED
  BY <1>3, <1>4, <1>5, <1>6, <1>7

(* Steps that touch no query.                                              *)
Collects(c) == Prune(c) \/ RunAmortized(c) \/ CollectStep(c) \/ Die(c)

LEMMA CollectorsKeep ==
    ASSUME Tables, NEW c \in Collector, Collects(c)
    PROVE  /\ UNCHANGED build
           /\ pc' \in [Builder \cup Collector ->
                         {"idle", "building", "raised", "built", "ended",
                          "pruning", "amortized", "dead"}]
           /\ \A p \in Builder : pc'[p] \in {"built", "building"} => pc'[p] = pc[p]
BY DEF Tables, Collects, Prune, RunAmortized, BeginRun, CollectStep, Measure, Unlink, EndRun,
       Die, Collecting, Over

LEMMA TablesHold == Spec => []Tables
<1>1. Init => Tables
  BY DEF Init, Tables, Table, Slots, TaskStates, Reports
<1>2. Tables /\ [Next]_vars => Tables'
  <2> SUFFICES ASSUME Tables, [Next]_vars PROVE Tables'
    OBVIOUS
  <2>1. CASE UNCHANGED vars
    BY <2>1 DEF Tables, vars, build
  <2>2. ASSUME NEW b \in Builder, Get(b) PROVE Tables'
    BY <2>2 DEF Tables, Get, collect
  <2>3. ASSUME NEW b \in Builder, NEW i \in Slots(b),
               \/ Acquire(b, i) \/ TooDeep(b, i) \/ MissingDispatch(b, i)
               \/ Answer(b, i) \/ FallBack(b, i)
        PROVE  Tables'
    <3>1. /\ Table(task', TaskStates) \/ UNCHANGED task
          /\ Table(depth', Nat) \/ UNCHANGED depth
          /\ Table(events', Reports) \/ UNCHANGED events
      BY <2>3, QuerySteps DEF Ends, Reporting
    <3>2. pc' \in {pc, [pc EXCEPT ![b] = "raised"]} /\ UNCHANGED entries
      BY <2>3 DEF Acquire, TooDeep, MissingDispatch, Raise, Answer, FallBack
    <3> QED
      BY <3>1, <3>2 DEF Tables
  <2>4. ASSUME NEW b \in Builder, Gathered(b) PROVE Tables'
    BY <2>4 DEF Tables, Gathered
  <2>5. ASSUME NEW b \in Builder, Put(b) PROVE Tables'
    BY <2>5 DEF Tables, Put, build
  <2>6. ASSUME NEW c \in Collector, Collects(c) PROVE Tables'
    BY <2>6, CollectorsKeep DEF Tables, build
  <2>7. ASSUME NEW t \in 0 .. MaxTime, SetClock(t) PROVE Tables'
    BY <2>7 DEF Tables, SetClock, build
  <2> QED
    BY <2>1, <2>2, <2>3, <2>4, <2>5, <2>6, <2>7 DEF Next, BuildStep, Slots, Collects
<1> QED
  BY <1>1, <1>2, PTL DEF Spec

-----------------------------------------------------------------------------
(* A chain that has ended was not cut by the cap, a degraded one ended at  *)
(* its last link, and one that has not failed reported each link it left;  *)
(* a bundle that is built is made of chains that have ended.               *)
ChainsInv ==
    \A b \in Builder :
        /\ \A i \in Slots(b) :
              /\ task[b][i] \in {"trusted", "degraded"} => depth[b][i] < MaxFallbackDepth
              /\ task[b][i] = "degraded" => depth[b][i] = Queries[b][i].links - 1
              /\ task[b][i] # "failed" => (depth[b][i] > 0 <=> events[b][i] # <<>>)
        /\ pc[b] = "built" =>
              /\ \A i \in Slots(b) : task[b][i] \in {"trusted", "degraded"}
              /\ entries[b] = [i \in Slots(b) |-> Entry(b, i)]

LEMMA ChainsInvHolds == Spec => []ChainsInv
<1>1. Init => ChainsInv
  BY DEF Init, ChainsInv, Slots
<1>2. Tables /\ ChainsInv /\ [Next]_vars => ChainsInv'
  <2> SUFFICES ASSUME Tables, ChainsInv, [Next]_vars PROVE ChainsInv'
    OBVIOUS
  <2>1. CASE UNCHANGED vars
    BY <2>1 DEF ChainsInv, Entry, Task, vars, build
  <2>2. ASSUME NEW b \in Builder, Get(b) PROVE ChainsInv'
    BY <2>2 DEF ChainsInv, Tables, Entry, Task, Get, collect
  <2>3. ASSUME NEW b \in Builder, NEW i \in Slots(b),
               \/ Acquire(b, i) \/ TooDeep(b, i) \/ MissingDispatch(b, i)
               \/ Answer(b, i) \/ FallBack(b, i)
        PROVE  ChainsInv'
    <3>1. task[b][i] \in {"waiting", "running"}
      BY <2>3 DEF Acquire, TooDeep, MissingDispatch, Answer, FallBack, Reached, Task
    <3>2. pc[b] # "built"
      BY <3>1 DEF ChainsInv
    <3>3. /\ pc' \in {pc, [pc EXCEPT ![b] = "raised"]} /\ UNCHANGED entries
          /\ pc \in [Builder \cup Collector ->
                       {"idle", "building", "raised", "built", "ended",
                        "pruning", "amortized", "dead"}]
      BY <2>3 DEF Tables, Acquire, TooDeep, MissingDispatch, Raise, Answer, FallBack
    <3>4. ASSUME NEW c \in Builder, NEW j \in Slots(c), c # b \/ j # i
          PROVE  /\ task'[c][j] = task[c][j] /\ depth'[c][j] = depth[c][j]
                 /\ events'[c][j] = events[c][j]
      BY <2>3, <3>4, QuerySteps DEF Ends, Reporting, Only
    <3>5. /\ task'[b][i] \in {"trusted", "degraded"} => depth'[b][i] < MaxFallbackDepth
          /\ task'[b][i] = "degraded" => depth'[b][i] = Queries[b][i].links - 1
          /\ task'[b][i] # "failed" => (depth'[b][i] > 0 <=> events'[b][i] # <<>>)
      <4>1. /\ depth[b][i] \in Nat /\ events[b][i] \in Reports
            /\ depth[b][i] > 0 <=> events[b][i] # <<>>
        BY <3>1 DEF ChainsInv, Tables, Table
      <4>2. CASE Acquire(b, i) \/ TooDeep(b, i) \/ MissingDispatch(b, i)
        BY <4>1, <4>2, QuerySteps DEF Ends, Only
      <4>3. CASE Answer(b, i)
        <5>1. depth[b][i] < MaxFallbackDepth
          BY <4>3 DEF Answer, Reached
        <5> QED
          BY <4>1, <4>3, <5>1, QuerySteps DEF Ends, Only, LastLink
      <4>4. CASE FallBack(b, i)
        <5>1. Append(events[b][i], "degraded") # <<>>
          BY <4>1 DEF Reports
        <5>2. /\ task'[b][i] = task[b][i] /\ depth'[b][i] = depth[b][i] + 1
              /\ events'[b][i] = Append(events[b][i], "degraded")
          <6>1. /\ UNCHANGED task /\ Reporting(b, i, "degraded")
                /\ Only(b, i, depth, depth', depth[b][i] + 1)
            BY <4>4, QuerySteps
          <6> QED
            BY <6>1 DEF Reporting, Only
        <5>3. task[b][i] \notin {"trusted", "degraded", "failed"}
          BY <3>1
        <5>4. depth'[b][i] > 0 /\ events'[b][i] # <<>>
          BY <4>1, <5>1, <5>2
        <5> QED
          BY <5>2, <5>3, <5>4
      <4> QED
        BY <2>3, <4>2, <4>3, <4>4
    <3>6. ASSUME NEW c \in Builder, pc'[c] = "built"
          PROVE  /\ c # b /\ pc[c] = "built" /\ UNCHANGED entries
      BY <3>2, <3>3, <3>6
    <3>7. ASSUME NEW c \in Builder, pc'[c] = "built", NEW j \in Slots(c)
          PROVE  Entry(c, j)' = Entry(c, j)
      BY <3>4, <3>6, <3>7 DEF Entry, Task
    <3>8. ASSUME NEW c \in Builder, NEW j \in Slots(c)
          PROVE  /\ task'[c][j] \in {"trusted", "degraded"} => depth'[c][j] < MaxFallbackDepth
                 /\ task'[c][j] = "degraded" => depth'[c][j] = Queries[c][j].links - 1
                 /\ task'[c][j] # "failed" => (depth'[c][j] > 0 <=> events'[c][j] # <<>>)
      <4>1. CASE c = b /\ j = i
        BY <3>5, <4>1
      <4>2. CASE c # b \/ j # i
        <5>1. /\ task[c][j] \in {"trusted", "degraded"} => depth[c][j] < MaxFallbackDepth
              /\ task[c][j] = "degraded" => depth[c][j] = Queries[c][j].links - 1
              /\ task[c][j] # "failed" => (depth[c][j] > 0 <=> events[c][j] # <<>>)
          BY DEF ChainsInv
        <5>2. /\ task'[c][j] = task[c][j] /\ depth'[c][j] = depth[c][j]
              /\ events'[c][j] = events[c][j]
          BY <3>4, <4>2
        <5> QED
          BY <5>1, <5>2
      <4> QED
        BY <4>1, <4>2
    <3>9. ASSUME NEW c \in Builder, pc'[c] = "built"
          PROVE  /\ \A j \in Slots(c) : task'[c][j] \in {"trusted", "degraded"}
                 /\ entries'[c] = [j \in Slots(c) |-> Entry(c, j)']
      BY <3>4, <3>6, <3>7, <3>9 DEF ChainsInv
    <3> QED
      BY <3>8, <3>9 DEF ChainsInv
  <2>4. ASSUME NEW b \in Builder, Gathered(b) PROVE ChainsInv'
    <3>1. /\ \A i \in Slots(b) : task[b][i] \in {"trusted", "degraded"}
          /\ entries'[b] = [i \in Slots(b) |-> Entry(b, i)]
          /\ \A c \in Builder : c # b => entries'[c] = entries[c] /\ pc'[c] = pc[c]
          /\ UNCHANGED <<task, depth, events>>
      BY <2>4 DEF Gathered, Tables, Slots, Task
    <3>2. \A c \in Builder : \A i \in Slots(c) : Entry(c, i)' = Entry(c, i)
      BY <3>1 DEF Entry, Task
    <3> QED
      BY <3>1, <3>2 DEF ChainsInv
  <2>5. ASSUME NEW b \in Builder, Put(b) PROVE ChainsInv'
    BY <2>5 DEF ChainsInv, Tables, Entry, Task, Put, build
  <2>6. ASSUME NEW c \in Collector, Collects(c) PROVE ChainsInv'
    BY <2>6, CollectorsKeep DEF ChainsInv, Entry, Task, build
  <2>7. ASSUME NEW t \in 0 .. MaxTime, SetClock(t) PROVE ChainsInv'
    BY <2>7 DEF ChainsInv, Entry, Task, SetClock, build
  <2> QED
    BY <2>1, <2>2, <2>3, <2>4, <2>5, <2>6, <2>7 DEF Next, BuildStep, Slots, Collects
<1> QED
  BY <1>1, <1>2, TablesHold, PTL DEF Spec

(* In whatever order its queries ran and fell back, a bundle answers each  *)
(* of them in its place, and no entry could have been bettered.            *)
THEOREM BundlesAnswer == Spec => []EntriesAnswer
<1>1. Tables /\ ChainsInv => EntriesAnswer
  <2> SUFFICES ASSUME Tables, ChainsInv, NEW b \in Builder, pc[b] = "built"
               PROVE  /\ DOMAIN entries[b] = Slots(b)
                      /\ \A i \in Slots(b) :
                            LET e == entries[b][i]
                            IN  /\ e.query = i /\ e.adapter < MaxFallbackDepth
                                /\ e.confidence = "degraded" =>
                                      e.adapter = Queries[b][i].links - 1
                                /\ e.fallback_used <=> events[b][i] # <<>>
    BY DEF EntriesAnswer, Slots
  <2>1. entries[b] = [i \in Slots(b) |-> Entry(b, i)]
    BY DEF ChainsInv
  <2>2. ASSUME NEW i \in Slots(b)
        PROVE  /\ entries[b][i].query = i /\ entries[b][i].adapter = depth[b][i]
               /\ entries[b][i].confidence = task[b][i]
               /\ entries[b][i].fallback_used = (depth[b][i] > 0)
    BY <2>1 DEF Entry, Task
  <2>3. ASSUME NEW i \in Slots(b)
        PROVE  /\ depth[b][i] < MaxFallbackDepth
               /\ task[b][i] = "degraded" => depth[b][i] = Queries[b][i].links - 1
               /\ depth[b][i] > 0 <=> events[b][i] # <<>>
    BY DEF ChainsInv
  <2> QED
    BY <2>1, <2>2, <2>3
<1> QED
  BY <1>1, TablesHold, ChainsInvHolds, PTL

-----------------------------------------------------------------------------
(* A file that a collector has measured was then too old, and it is still  *)
(* that file, unless it is gone or was put again since.                    *)
MeasuredInv ==
    /\ seen \in [Collector -> Key \cup {Nothing}]
    /\ began \in [Collector -> 0 .. MaxTime]
    /\ file = [k \in Key |-> file[k]] /\ now \in 0 .. MaxTime
    /\ key \in [Builder -> Key]
    /\ \A c \in Collector : seen[c] # Nothing =>
          /\ Collecting(c)
          /\ \/ file[seen[c]] = Absent
             \/ began[c] - file[seen[c]].mtime > TTL
             \/ c \in swapped

LEMMA BuildersKeep ==
    ASSUME Tables, NEW b \in Builder, Get(b) \/ BuildStep(b)
    PROVE  /\ UNCHANGED <<key, file, now, collect>>
           /\ \A c \in Collector : Collecting(c) => Collecting(c)'
BY DEF Tables, Get, BuildStep, Acquire, TooDeep, MissingDispatch, Raise, Answer, FallBack,
       Gathered, Collecting

LEMMA MeasuredInvHolds == Spec => []MeasuredInv
<1> USE BundlesAssumption
<1>1. Init => MeasuredInv
  BY DEF Init, MeasuredInv
<1>2. Tables /\ MeasuredInv /\ [Next]_vars => MeasuredInv'
  <2> SUFFICES ASSUME Tables, MeasuredInv, [Next]_vars PROVE MeasuredInv'
    OBVIOUS
  <2> USE DEF MeasuredInv, Collecting
  <2>0. pc \in [Builder \cup Collector ->
                 {"idle", "building", "raised", "built", "ended",
                  "pruning", "amortized", "dead"}]
    BY DEF Tables
  <2>1. CASE UNCHANGED vars
    BY <2>1 DEF vars, build, collect
  <2>2. ASSUME NEW b \in Builder, Get(b) \/ BuildStep(b) PROVE MeasuredInv'
    BY <2>2, BuildersKeep DEF collect
  <2>3. ASSUME NEW b \in Builder, Put(b) PROVE MeasuredInv'
    <3>1. /\ \A k \in Key : k # key[b] => file'[k] = file[k]
          /\ file' = [k \in Key |-> file'[k]]
      BY <2>3 DEF Put
    <3>2. /\ swapped' = swapped \cup {c \in Collector : seen[c] = key[b]}
          /\ UNCHANGED <<seen, began, now, key>>
          /\ \A c \in Collector : Collecting(c) => Collecting(c)'
      BY <2>0, <2>3 DEF Put, build
    <3>3. file' = [k \in Key |-> file'[k]] /\ now' \in 0 .. MaxTime
      BY <3>1, <3>2
    <3>4. ASSUME NEW c \in Collector, seen'[c] # Nothing
          PROVE  /\ Collecting(c)'
                 /\ \/ file'[seen'[c]] = Absent
                    \/ began'[c] - file'[seen'[c]].mtime > TTL
                    \/ c \in swapped'
      <4>1. CASE seen[c] = key[b]
        BY <3>2, <3>4, <4>1
      <4>2. CASE seen[c] # key[b]
        BY <3>1, <3>2, <3>4, <4>2
      <4> QED
        BY <4>1, <4>2
    <3> QED
      BY <3>2, <3>3, <3>4
  <2>4. ASSUME NEW c \in Collector, Prune(c) \/ RunAmortized(c) PROVE MeasuredInv'
    BY <2>0, <2>4 DEF Prune, RunAmortized, BeginRun, build
  <2>5. ASSUME NEW c \in Collector, NEW k \in Key, Measure(c, k) PROVE MeasuredInv'
    BY <2>5 DEF Measure, IsEvictable, build
  <2>6. ASSUME NEW c \in Collector, Unlink(c) PROVE MeasuredInv'
    <3>1. /\ seen' = [seen EXCEPT ![c] = Nothing] /\ swapped' = swapped \ {c}
          /\ UNCHANGED <<pc, began, now, key>>
      BY <2>6 DEF Unlink, build
    <3>2. /\ \A k \in Key : file'[k] \in {file[k], Absent}
          /\ file' = [k \in Key |-> file'[k]]
      BY <2>6 DEF Unlink
    <3>3. ASSUME NEW d \in Collector, seen'[d] # Nothing
          PROVE  /\ Collecting(d)'
                 /\ \/ file'[seen'[d]] = Absent
                    \/ began'[d] - file'[seen'[d]].mtime > TTL
                    \/ d \in swapped'
      <4>1. d # c /\ seen'[d] = seen[d] /\ seen[d] \in Key /\ seen[d] # Nothing
        BY <3>1, <3>3
      <4>2. /\ Collecting(d)
            /\ \/ file[seen[d]] = Absent
               \/ began[d] - file[seen[d]].mtime > TTL
               \/ d \in swapped
        BY <4>1
      <4>3. file'[seen[d]] = file[seen[d]] \/ file'[seen[d]] = Absent
        BY <3>2, <4>1
      <4> HIDE DEF MeasuredInv
      <4> QED
        BY <3>1, <4>1, <4>2, <4>3
    <3>4. seen' \in [Collector -> Key \cup {Nothing}] /\ now' \in 0 .. MaxTime
      BY <2>6, <3>1 DEF Unlink
    <3>5. /\ file' = [k \in Key |-> file'[k]] /\ key' \in [Builder -> Key]
          /\ began' \in [Collector -> 0 .. MaxTime]
      BY <3>1, <3>2
    <3> HIDE DEF Collecting
    <3> QED
      BY <3>3, <3>4, <3>5
  <2>7. ASSUME NEW c \in Collector, EndRun(c) \/ Die(c) PROVE MeasuredInv'
    <3>1. /\ seen' = [seen EXCEPT ![c] = Nothing] /\ began' = [began EXCEPT ![c] = 0]
          /\ UNCHANGED <<file, now, key, swapped>>
      BY <2>7 DEF EndRun, Over, Die, build
    <3>2. \A d \in Collector \ {c} : Collecting(d) => Collecting(d)'
      BY <2>0, <2>7 DEF EndRun, Die
    <3> HIDE DEF Collecting
    <3> QED
      BY <3>1, <3>2
  <2>8. ASSUME NEW t \in 0 .. MaxTime, SetClock(t) PROVE MeasuredInv'
    BY <2>8 DEF SetClock, build, collect
  <2> QED
    BY <2>1, <2>2, <2>3, <2>4, <2>5, <2>6, <2>7, <2>8 DEF Next, CollectStep
<1> QED
  BY <1>1, <1>2, TablesHold, PTL DEF Spec

(* No bundle is deleted that was not too old when the collector looked at  *)
(* it, whoever puts, prunes, dies or sets the clock meanwhile, but for one *)
(* put between the look and the unlink.                                    *)
THEOREM CollectorSparesFresh == Spec => FreshStays
<1>1. Tables /\ MeasuredInv /\ [Next]_vars
         => [\A k \in Key : file[k] # Absent /\ file'[k] = Absent =>
                \E c \in Collector :
                   /\ seen[c] = k
                   /\ began[c] - file[k].mtime > TTL \/ c \in swapped]_vars
  <2> SUFFICES ASSUME Tables, MeasuredInv, [Next]_vars,
                      NEW k \in Key, file[k] # Absent, file'[k] = Absent
               PROVE  \E c \in Collector : /\ seen[c] = k
                                           /\ \/ began[c] - file[k].mtime > TTL
                                              \/ c \in swapped
    OBVIOUS
  <2>1. ASSUME NEW c \in Collector, Unlink(c)
        PROVE  seen[c] = k /\ (began[c] - file[k].mtime > TTL \/ c \in swapped)
    BY <2>1 DEF Unlink, MeasuredInv
  <2>2. ASSUME NEW b \in Builder, Put(b) PROVE FALSE
    <3>1. file'[k] = IF k = key[b] THEN [mtime |-> now, bundle |-> entries[b]] ELSE file[k]
      BY <2>2 DEF Put, MeasuredInv
    <3>2. now # -1
      BY BundlesAssumption DEF MeasuredInv
    <3> QED
      BY <3>1, <3>2 DEF Absent
  <2>3. CASE UNCHANGED file
    BY <2>3
  <2>4. CASE ~ UNCHANGED file
    <3>1. (\E c \in Collector : Unlink(c)) \/ (\E b \in Builder : Put(b))
      BY <2>4 DEF Next, vars, Get, BuildStep, Acquire, TooDeep, MissingDispatch, Raise, Answer,
                  FallBack, Gathered, Prune, RunAmortized, CollectStep, Measure, EndRun, Die,
                  SetClock
    <3> QED
      BY <2>1, <2>2, <3>1
  <2> QED
    BY <2>3, <2>4
<1> QED
  BY <1>1, TablesHold, MeasuredInvHolds, PTL DEF Spec, FreshStays

-----------------------------------------------------------------------------
(* The vulnerability index                                                 *)
(* An induction is the proof that there is no smallest counterexample.     *)
LEMMA SmallestNumber ==
    ASSUME NEW T, T \subseteq Nat, T # {}
    PROVE  \E m \in T : \A k \in T : m =< k
<1> DEFINE R == OpToRel(<, Nat)
<1>1. PICK m \in T : \A k \in T : ~ (<<k, m>> \in R)
  <2>1. IsWellFoundedOn(R, Nat)
    BY NatLessThanWellFounded
  <2> HIDE DEF R
  <2> QED
    BY <2>1, WFMin
<1>2. \A k \in T : ~ (k < m)
  BY <1>1 DEF OpToRel
<1> QED
  BY <1>2

LEMMA NumbersFrom0 ==
    ASSUME NEW S, 0 \in S, \A n \in Nat : n \in S => n + 1 \in S
    PROVE  Nat \subseteq S
<1> SUFFICES ASSUME Nat \ S # {} PROVE FALSE
  OBVIOUS
<1>1. PICK m \in Nat \ S : \A k \in Nat \ S : m =< k
  BY SmallestNumber
<1>2. m - 1 \in Nat /\ m - 1 \in S
  BY <1>1
<1> QED
  BY <1>1, <1>2

(* What a function that is defined by recursion on the numbers up to N is, *)
(* its step being a function too.                                          *)
Steps(N, V, base, step, f) ==
    /\ f \in [0 .. N -> V] /\ f[0] = base
    /\ \A n \in 1 .. N : f[n] = step[<<n, f[n - 1]>>]

LEMMA StepsExist ==
    ASSUME NEW N \in Nat, NEW V, NEW base \in V, NEW step \in [(1 .. N) \X V -> V]
    PROVE  \E f : Steps(N, V, base, step, f)
<1> DEFINE S == {n \in Nat : n =< N => \E f : Steps(n, V, base, step, f)}
<1>1. 0 \in S
  <2>1. Steps(0, V, base, step, [n \in 0 .. 0 |-> base])
    BY DEF Steps
  <2> QED
    BY <2>1
<1>2. ASSUME NEW n \in Nat, n \in S PROVE n + 1 \in S
  <2> SUFFICES ASSUME n + 1 =< N PROVE \E f : Steps(n + 1, V, base, step, f)
    OBVIOUS
  <2>1. PICK f : Steps(n, V, base, step, f)
    BY <1>2
  <2> DEFINE v == step[<<n + 1, f[n]>>]
             g == [k \in 0 .. n + 1 |-> IF k = n + 1 THEN v ELSE f[k]]
  <2>2. v \in V
    BY <2>1 DEF Steps
  <2>3. g \in [0 .. n + 1 -> V] /\ g[0] = base
    BY <2>1, <2>2 DEF Steps
  <2>4. ASSUME NEW k \in 1 .. n + 1 PROVE g[k] = step[<<k, g[k - 1]>>]
    <3>1. k - 1 \in 0 .. n /\ g[k - 1] = f[k - 1]
      OBVIOUS
    <3>2. CASE k = n + 1
      <4>1. k - 1 = n /\ g[k] = v
        BY <3>2
      <4> HIDE DEF g
      <4> QED
        BY <3>1, <3>2, <4>1
    <3>3. CASE k \in 1 .. n
      <4>1. g[k] = f[k]
        BY <3>3
      <4>2. f[k] = step[<<k, f[k - 1]>>]
        BY <2>1, <3>3 DEF Steps
      <4> QED
        BY <3>1, <4>1, <4>2
    <3> QED
      BY <3>2, <3>3
  <2>5. Steps(n + 1, V, base, step, g)
    <3> HIDE DEF g
    <3> QED
      BY <2>3, <2>4 DEF Steps
  <2> QED
    BY <2>5
<1>3. Nat \subseteq S
  <2> HIDE DEF S
  <2> QED
    BY <1>1, <1>2, NumbersFrom0
<1> QED
  BY <1>3

-----------------------------------------------------------------------------
LEMMA AppendRange ==
    ASSUME NEW A, NEW s \in Seq(A), NEW e \in A
    PROVE  ToSet(Append(s, e)) = ToSet(s) \cup {e}
<1>1. /\ DOMAIN Append(s, e) = 1 .. Len(s) + 1 /\ DOMAIN s = 1 .. Len(s) /\ Len(s) \in Nat
      /\ Append(s, e)[Len(s) + 1] = e
      /\ \A i \in 1 .. Len(s) : Append(s, e)[i] = s[i]
  BY AppendProperties
<1> QED
  BY <1>1 DEF ToSet

(* The members of a sequence that are in a set                             *)
AmongBody(s, S, f) ==
    [n \in 0 .. Len(s) |->
        IF n = 0 THEN <<>> ELSE IF s[n] \in S THEN Append(f[n - 1], s[n]) ELSE f[n - 1]]

AmongFun(s, S) == CHOOSE f : f = AmongBody(s, S, f)

LEMMA AmongIsFun == ASSUME NEW s, NEW S PROVE Among(s, S) = AmongFun(s, S)[Len(s)]
  BY DEF Among, AmongFun, AmongBody

LEMMA AmongFunIs ==
    ASSUME NEW T, NEW s \in Seq(T), NEW S
    PROVE  AmongFun(s, S) = AmongBody(s, S, AmongFun(s, S))
<1> DEFINE N == Len(s)
           V == Seq(T)
           Grown(n, v) == IF s[n] \in S THEN Append(v, s[n]) ELSE v
           step == [x \in (1 .. N) \X V |-> Grown(x[1], x[2])]
<1>1. N \in Nat /\ \A n \in 1 .. N : s[n] \in T
  BY ElementOfSeq
<1>2. step \in [(1 .. N) \X V -> V]
  BY <1>1
<1>3. PICK f : Steps(N, V, <<>>, step, f)
  <2>1. <<>> \in V
    OBVIOUS
  <2> HIDE DEF N, V, step
  <2> QED
    BY <1>1, <1>2, <2>1, StepsExist
<1>4. f = AmongBody(s, S, f)
  <2>1. ASSUME NEW n \in 0 .. N
        PROVE  f[n] = IF n = 0 THEN <<>>
                      ELSE IF s[n] \in S THEN Append(f[n - 1], s[n]) ELSE f[n - 1]
    <3>1. CASE n = 0
      BY <1>3, <3>1 DEF Steps
    <3>2. CASE n \in 1 .. N
      <4>1. f[n] = step[<<n, f[n - 1]>>] /\ f[n - 1] \in V
        <5> HIDE DEF step, V, N
        <5> QED
          BY <1>1, <1>3, <3>2 DEF Steps
      <4>2. f[n] = Grown(n, f[n - 1])
        <5> HIDE DEF V, N, Grown
        <5> QED
          BY <3>2, <4>1
      <4>3. n # 0
        BY <1>1, <3>2
      <4> QED
        BY <4>2, <4>3
    <3> QED
      BY <1>1, <3>1, <3>2
  <2>2. f = [n \in 0 .. N |-> f[n]]
    BY <1>3 DEF Steps
  <2> HIDE DEF V, step
  <2> QED
    BY <2>1, <2>2 DEF AmongBody
<1> QED
  BY <1>4 DEF AmongFun

(* They are again a sequence, of exactly those members.                    *)
LEMMA AmongProperties ==
    ASSUME NEW T, NEW s \in Seq(T), NEW S
    PROVE  /\ Among(s, S) \in Seq(T \cap S)
           /\ ToSet(Among(s, S)) = ToSet(s) \cap S
           /\ Len(Among(s, S)) =< Len(s)
<1> DEFINE f == AmongFun(s, S)
           N == Len(s)
           Done == {n \in Nat : n =< N =>
                      /\ f[n] \in Seq(T \cap S) /\ Len(f[n]) =< n
                      /\ ToSet(f[n]) = {s[i] : i \in 1 .. n} \cap S}
<1>1. N \in Nat /\ DOMAIN s = 1 .. N /\ \A n \in 1 .. N : s[n] \in T
  BY ElementOfSeq
<1>2. \A n \in 0 .. N : f[n] = IF n = 0 THEN <<>>
                               ELSE IF s[n] \in S THEN Append(f[n - 1], s[n]) ELSE f[n - 1]
  <2>1. f = AmongBody(s, S, f)
    BY AmongFunIs
  <2> HIDE DEF f
  <2> QED
    BY <2>1 DEF AmongBody
<1> HIDE DEF f
<1>3. 0 \in Done
  <2>1. f[0] = <<>> /\ 1 .. 0 = {}
    BY <1>1, <1>2
  <2>2. /\ f[0] \in Seq(T \cap S) /\ Len(f[0]) = 0 /\ ToSet(f[0]) = {}
    BY <2>1 DEF ToSet
  <2>3. {s[i] : i \in 1 .. 0} = {}
    BY <2>1
  <2> QED
    BY <2>2, <2>3
<1>4. ASSUME NEW n \in Nat, n \in Done PROVE n + 1 \in Done
  <2> SUFFICES ASSUME n + 1 =< N
               PROVE  /\ f[n + 1] \in Seq(T \cap S) /\ Len(f[n + 1]) =< n + 1
                      /\ ToSet(f[n + 1]) = {s[i] : i \in 1 .. n + 1} \cap S
    OBVIOUS
  <2>1. /\ f[n] \in Seq(T \cap S) /\ Len(f[n]) =< n
        /\ ToSet(f[n]) = {s[i] : i \in 1 .. n} \cap S
    BY <1>1, <1>4
  <2>2. f[n + 1] = IF s[n + 1] \in S THEN Append(f[n], s[n + 1]) ELSE f[n]
    BY <1>1, <1>2
  <2>3. {s[i] : i \in 1 .. n + 1} = {s[i] : i \in 1 .. n} \cup {s[n + 1]}
    OBVIOUS
  <2>4. CASE s[n + 1] \in S
    <3>1. s[n + 1] \in T \cap S
      BY <1>1, <2>4
    <3>2. f[n + 1] \in Seq(T \cap S) /\ Len(f[n + 1]) = Len(f[n]) + 1
      BY <2>1, <2>2, <2>4, <3>1
    <3>3. ToSet(f[n + 1]) = ToSet(f[n]) \cup {s[n + 1]}
      <4> DEFINE A == T \cap S
                 e == s[n + 1]
      <4>1. f[n] \in Seq(A) /\ e \in A
        BY <2>1, <3>1
      <4> HIDE DEF A, e
      <4> QED
        BY <2>2, <2>4, <4>1, AppendRange DEF e
    <3> QED
      BY <2>1, <2>3, <2>4, <3>2, <3>3
  <2>5. CASE s[n + 1] \notin S
    BY <2>1, <2>2, <2>3, <2>5
  <2> QED
    BY <2>4, <2>5
<1>5. N \in Done
  <2> HIDE DEF Done
  <2> QED
    BY <1>1, <1>3, <1>4, NumbersFrom0
<1>6. /\ f[N] \in Seq(T \cap S) /\ Len(f[N]) =< N
      /\ ToSet(f[N]) = {s[i] : i \in 1 .. N} \cap S
  BY <1>1, <1>5
<1> QED
  BY <1>1, <1>6, AmongIsFun DEF f, ToSet

-----------------------------------------------------------------------------
LEMMA ConcatRange ==
    ASSUME NEW A, NEW s \in Seq(A), NEW t \in Seq(A)
    PROVE  s \o t \in Seq(A) /\ ToSet(s \o t) = ToSet(s) \cup ToSet(t)
<1>1. /\ s \o t \in Seq(A) /\ DOMAIN (s \o t) = 1 .. Len(s) + Len(t)
      /\ DOMAIN s = 1 .. Len(s) /\ DOMAIN t = 1 .. Len(t)
      /\ Len(s) \in Nat /\ Len(t) \in Nat
      /\ \A i \in 1 .. Len(s) + Len(t) :
            (s \o t)[i] = IF i =< Len(s) THEN s[i] ELSE t[i - Len(s)]
  BY ConcatProperties
<1> DEFINE u == s \o t
<1> HIDE DEF u
<1>2. ASSUME NEW x \in ToSet(u) PROVE x \in ToSet(s) \cup ToSet(t)
  <2>1. PICK i \in 1 .. Len(s) + Len(t) : x = u[i]
    BY <1>1, <1>2 DEF ToSet, u
  <2>2. u[i] = IF i =< Len(s) THEN s[i] ELSE t[i - Len(s)]
    BY <1>1 DEF u
  <2>3. CASE i =< Len(s)
    BY <1>1, <2>1, <2>2, <2>3 DEF ToSet
  <2>4. CASE ~ (i =< Len(s))
    <3>1. i - Len(s) \in 1 .. Len(t) /\ x = t[i - Len(s)]
      BY <1>1, <2>1, <2>2, <2>4
    <3> QED
      BY <1>1, <3>1 DEF ToSet
  <2> QED
    BY <2>3, <2>4
<1>3. ASSUME NEW x \in ToSet(s) PROVE x \in ToSet(u)
  <2>1. PICK i \in 1 .. Len(s) : x = s[i]
    BY <1>1, <1>3 DEF ToSet
  <2>2. i \in 1 .. Len(s) + Len(t) /\ u[i] = s[i]
    BY <1>1 DEF u
  <2> QED
    BY <1>1, <2>1, <2>2 DEF ToSet, u
<1>4. ASSUME NEW x \in ToSet(t) PROVE x \in ToSet(u)
  <2>1. PICK i \in 1 .. Len(t) : x = t[i]
    BY <1>1, <1>4 DEF ToSet
  <2>2. i + Len(s) \in 1 .. Len(s) + Len(t) /\ u[i + Len(s)] = t[i]
    BY <1>1 DEF u
  <2> QED
    BY <1>1, <2>1, <2>2 DEF ToSet, u
<1> QED
  BY <1>1, <1>2, <1>3, <1>4 DEF u

Of(cve) == {r \in Records : r.cve = cve}
SortedBody(records, f) ==
    [n \in 0 .. Len(Advisories) |->
        IF n = 0 THEN <<>> ELSE f[n - 1] \o Among(records, Of(Advisories[n]))]
SortedFun(records) == CHOOSE f : f = SortedBody(records, f)

LEMMA SortedIsFun ==
    ASSUME NEW records PROVE SortedByCve(records) = SortedFun(records)[Len(Advisories)]
  BY DEF SortedByCve, SortedFun, SortedBody, Of

LEMMA SortedFunIs ==
    ASSUME NEW records \in Seq(Records)
    PROVE  SortedFun(records) = SortedBody(records, SortedFun(records))
<1> DEFINE N == Len(Advisories)
           V == Seq(Records)
           Part(n) == Among(records, Of(Advisories[n]))
           step == [x \in (1 .. N) \X V |-> x[2] \o Part(x[1])]
<1>1. N \in Nat /\ \A n \in 1 .. N : Part(n) \in V
  <2>1. N \in Nat
    BY FeedsAssumption
  <2>2. ASSUME NEW n \in 1 .. N PROVE Part(n) \in V
    <3>1. Part(n) \in Seq(Records \cap Of(Advisories[n]))
      BY AmongProperties
    <3> HIDE DEF Part
    <3> QED
      BY <3>1
  <2> HIDE DEF Part, V
  <2> QED
    BY <2>1, <2>2
<1>2. step \in [(1 .. N) \X V -> V]
  <2> HIDE DEF Part, N
  <2> QED
    BY <1>1, ConcatRange
<1>3. PICK f : Steps(N, V, <<>>, step, f)
  <2>1. <<>> \in V
    OBVIOUS
  <2> HIDE DEF N, V, step
  <2> QED
    BY <1>1, <1>2, <2>1, StepsExist
<1>4. f = SortedBody(records, f)
  <2>1. ASSUME NEW n \in 0 .. N
        PROVE  f[n] = IF n = 0 THEN <<>> ELSE f[n - 1] \o Part(n)
    <3>1. CASE n = 0
      BY <1>3, <3>1 DEF Steps
    <3>2. CASE n \in 1 .. N
      <4>1. f[n] = step[<<n, f[n - 1]>>] /\ f[n - 1] \in V
        <5> HIDE DEF step, V, Part, N
        <5> QED
          BY <1>1, <1>3, <3>2 DEF Steps
      <4> HIDE DEF Part
      <4>2. f[n] = f[n - 1] \o Part(n)
        <5> HIDE DEF V, N
        <5> QED
          BY <3>2, <4>1
      <4>3. n # 0
        BY <1>1, <3>2
      <4> QED
        BY <4>2, <4>3
    <3> QED
      BY <1>1, <3>1, <3>2
  <2>2. f = [n \in 0 .. N |-> f[n]]
    BY <1>3 DEF Steps
  <2> HIDE DEF V, step
  <2> QED
    BY <2>1, <2>2 DEF SortedBody
<1> QED
  BY <1>4 DEF SortedFun

(* Sorting by advisory loses no record and makes none up.                  *)
LEMMA SortedProperties ==
    ASSUME NEW records \in Seq(Records)
    PROVE  /\ SortedByCve(records) \in Seq(Records)
           /\ ToSet(SortedByCve(records)) = ToSet(records)
<1> DEFINE f == SortedFun(records)
           N == Len(Advisories)
           Upto(n) == {r \in ToSet(records) : \E i \in 1 .. n : r.cve = Advisories[i]}
           Done == {n \in Nat : n =< N => f[n] \in Seq(Records) /\ ToSet(f[n]) = Upto(n)}
<1>1. /\ N \in Nat /\ DOMAIN Advisories = 1 .. N
      /\ \A r \in Records : \E i \in 1 .. N : r.cve = Advisories[i]
  <2>1. N \in Nat /\ DOMAIN Advisories = 1 .. N
    <3>1. Advisories \in Seq(ToSet(Advisories))
      BY FeedsAssumption
    <3> QED
      BY <3>1
  <2>2. \A r \in Records : r.cve \in ToSet(Advisories)
    BY FeedsAssumption
  <2> QED
    BY <2>1, <2>2 DEF ToSet
<1>2. ToSet(records) \subseteq Records
  BY ElementOfSeq DEF ToSet
<1>3. \A n \in 0 .. N : f[n] = IF n = 0 THEN <<>>
                               ELSE f[n - 1] \o Among(records, Of(Advisories[n]))
  <2>1. f = SortedBody(records, f)
    BY SortedFunIs
  <2> HIDE DEF f
  <2> QED
    BY <2>1 DEF SortedBody
<1> HIDE DEF f
<1>4. 0 \in Done
  <2>1. f[0] = <<>> /\ 1 .. 0 = {}
    BY <1>1, <1>3
  <2>2. f[0] \in Seq(Records) /\ ToSet(f[0]) = {}
    BY <2>1 DEF ToSet
  <2>3. Upto(0) = {}
    BY <2>1
  <2> QED
    BY <2>2, <2>3
<1>5. ASSUME NEW n \in Nat, n \in Done PROVE n + 1 \in Done
  <2> SUFFICES ASSUME n + 1 =< N
               PROVE  f[n + 1] \in Seq(Records) /\ ToSet(f[n + 1]) = Upto(n + 1)
    OBVIOUS
  <2> DEFINE part == Among(records, Of(Advisories[n + 1]))
  <2>0. n =< N /\ n + 1 \in 0 .. N /\ n + 1 # 0 /\ (n + 1) - 1 = n
    BY <1>1
  <2>1. f[n] \in Seq(Records) /\ ToSet(f[n]) = Upto(n)
    <3> HIDE DEF Upto, N
    <3> QED
      BY <1>5, <2>0
  <2>2. f[n + 1] = f[n] \o part
    <3>1. f[n + 1] = f[(n + 1) - 1] \o Among(records, Of(Advisories[n + 1]))
      BY <1>3, <2>0
    <3> QED
      BY <2>0, <3>1
  <2>3. /\ part \in Seq(Records)
        /\ ToSet(part) = {r \in ToSet(records) : r.cve = Advisories[n + 1]}
    <3>1. /\ part \in Seq(Records \cap Of(Advisories[n + 1]))
          /\ ToSet(part) = ToSet(records) \cap Of(Advisories[n + 1])
      BY AmongProperties
    <3> HIDE DEF part
    <3> QED
      BY <1>2, <3>1 DEF Of
  <2>4. f[n + 1] \in Seq(Records) /\ ToSet(f[n + 1]) = ToSet(f[n]) \cup ToSet(part)
    <3> HIDE DEF part
    <3> QED
      BY <2>1, <2>2, <2>3, ConcatRange
  <2>5. Upto(n + 1) = Upto(n) \cup {r \in ToSet(records) : r.cve = Advisories[n + 1]}
    OBVIOUS
  <2> QED
    BY <2>1, <2>3, <2>4, <2>5
<1>6. N \in Done
  <2> HIDE DEF Done
  <2> QED
    BY <1>1, <1>4, <1>5, NumbersFrom0
<1>7. f[N] \in Seq(Records) /\ ToSet(f[N]) = Upto(N)
  BY <1>1, <1>6
<1>8. Upto(N) = ToSet(records)
  BY <1>1, <1>2
<1> QED
  BY <1>7, <1>8, SortedIsFun DEF f

-----------------------------------------------------------------------------
(* INSERT OR IGNORE                                                        *)
OneRowPerKey(rows) == \A row, other \in rows : UniqueKey(row) = UniqueKey(other) => row = other

LEMMA PersistedProperties ==
    ASSUME NEW old \in SUBSET Row, IsFiniteSet(old), NEW s \in Source,
           NEW records \in Seq(Records)
    PROVE  LET new == Persisted(old, s, records) IN
           /\ new \in SUBSET Row /\ old \subseteq new /\ IsFiniteSet(new)
           /\ \A row \in new \ old : row.source = s /\ row.record \in ToSet(records)
           /\ \A i \in DOMAIN records : \E row \in new :
                 UniqueKey(row) = UniqueKey([source |-> s, record |-> records[i]])
           /\ OneRowPerKey(old) => OneRowPerKey(new)
<1> DEFINE RowAt(i) == [source |-> s, record |-> records[i]]
           IsNew(i) == /\ \A row \in old : UniqueKey(row) # UniqueKey(RowAt(i))
                       /\ \A j \in 1 .. i - 1 : UniqueKey(RowAt(j)) # UniqueKey(RowAt(i))
           News == {i \in DOMAIN records : IsNew(i)}
           added == {RowAt(i) : i \in News}
           new == old \cup added
<1>0. IsFiniteSet(old)
  OBVIOUS
<1>1. Persisted(old, s, records) = new
  BY DEF Persisted
<1>2. /\ DOMAIN records = 1 .. Len(records) /\ Len(records) \in Nat
      /\ \A i \in DOMAIN records : RowAt(i) \in Row
  <2>1. DOMAIN records = 1 .. Len(records) /\ Len(records) \in Nat
    OBVIOUS
  <2>2. \A i \in DOMAIN records : records[i] \in Records
    BY ElementOfSeq
  <2> QED
    BY <2>1, <2>2 DEF Row
<1>3. new \in SUBSET Row /\ old \subseteq new
  BY <1>2
<1>4. IsFiniteSet(new)
  <2>1. IsFiniteSet(News)
    <3>1. IsFiniteSet(1 .. Len(records))
      BY <1>2, FS_Interval
    <3> HIDE DEF IsNew
    <3> QED
      BY <1>2, <3>1, FS_Subset
  <2>2. [i \in News |-> RowAt(i)] \in Surjection(News, added)
    BY DEF Surjection
  <2>3. IsFiniteSet(added)
    <3> HIDE DEF News, added
    <3> QED
      BY <2>1, <2>2, FS_Surjection
  <2> HIDE DEF added
  <2>4. IsFiniteSet(old \cup added)
    BY <1>0, <2>3, FS_Union
  <2> QED
    BY <2>4
<1>5. \A row \in new \ old : row.source = s /\ row.record \in ToSet(records)
  <2>1. News \subseteq DOMAIN records
    OBVIOUS
  <2> HIDE DEF News
  <2>2. \A row \in added : row.source = s /\ row.record \in ToSet(records)
    BY <2>1 DEF ToSet
  <2> QED
    BY <2>2
<1>6. ASSUME NEW i \in DOMAIN records
      PROVE  \E row \in new : UniqueKey(row) = UniqueKey(RowAt(i))
  <2> DEFINE Same == {j \in 1 .. Len(records) : UniqueKey(RowAt(j)) = UniqueKey(RowAt(i))}
  <2>1. i \in Same /\ Same \subseteq Nat
    BY <1>2
  <2>2. PICK m \in Same : \A k \in Same : m =< k
    <3> HIDE DEF Same
    <3> QED
      BY <2>1, SmallestNumber
  <2>3. \A j \in 1 .. m - 1 : UniqueKey(RowAt(j)) # UniqueKey(RowAt(m))
    <3> SUFFICES ASSUME NEW j \in 1 .. m - 1, UniqueKey(RowAt(j)) = UniqueKey(RowAt(m))
                 PROVE  FALSE
      OBVIOUS
    <3>1. j \in 1 .. Len(records) /\ m \in Nat /\ ~ (m =< j)
      BY <1>2
    <3>2. j \in Same
      BY <3>1
    <3> QED
      BY <2>2, <3>1, <3>2
  <2>4. CASE \E row \in old : UniqueKey(row) = UniqueKey(RowAt(m))
    BY <2>4
  <2>5. CASE ~ \E row \in old : UniqueKey(row) = UniqueKey(RowAt(m))
    <3>1. m \in News
      BY <1>2, <2>3, <2>5
    <3>2. RowAt(m) \in new
      BY <3>1
    <3> QED
      BY <3>2
  <2> QED
    BY <2>4, <2>5
<1>7. OneRowPerKey(old) => OneRowPerKey(new)
  <2> SUFFICES ASSUME OneRowPerKey(old), NEW row \in new, NEW other \in new,
                      UniqueKey(row) = UniqueKey(other)
               PROVE  row = other
    BY DEF OneRowPerKey
  <2>1. CASE row \in old /\ other \in old
    BY <2>1 DEF OneRowPerKey
  <2>2. CASE row \in added /\ other \in added
    <3>1. PICK i \in News : row = RowAt(i)
      BY <2>2
    <3>2. PICK j \in News : other = RowAt(j)
      BY <2>2
    <3>3. i \in 1 .. Len(records) /\ j \in 1 .. Len(records)
      BY <1>2
    <3>4. ~ (i \in 1 .. j - 1) /\ ~ (j \in 1 .. i - 1)
      BY <3>1, <3>2
    <3> QED
      BY <1>2, <3>1, <3>2, <3>3, <3>4
  <2>3. CASE (row \in old /\ other \in added) \/ (row \in added /\ other \in old)
    BY <2>3
  <2> QED
    BY <2>1, <2>2, <2>3
<1> HIDE DEF new
<1> QED
  BY <1>1, <1>3, <1>4, <1>5, <1>6, <1>7

(* A feed's answer comes chunk by chunk.                                   *)
LEMMA FetchedProperties ==
    ASSUME NEW S, IsFiniteSet(S), NEW chunks \in SetToSeqs(S)
    PROVE  chunks \in Seq(S) /\ ToSet(chunks) = S
<1> DEFINE D == 1 .. Cardinality(S)
<1>1. Cardinality(S) \in Nat
  BY FS_CardinalityType
<1>2. chunks \in [D -> S] /\ \A i, j \in D : i # j => chunks[i] # chunks[j]
  BY DEF SetToSeqs
<1>3. chunks \in Seq(S) /\ DOMAIN chunks = D
  BY <1>1, <1>2
<1>4. IsFiniteSet(D) /\ Cardinality(D) = Cardinality(S)
  BY <1>1, FS_Interval
<1> HIDE DEF D
<1>5. chunks \in Injection(D, S)
  BY <1>2 DEF Injection, IsInjective
<1>6. chunks \in Surjection(D, S)
  BY <1>4, <1>5, FS_Injection
<1> QED
  BY <1>3, <1>6 DEF Surjection, ToSet
-----------------------------------------------------------------------------
(* The records of a feed in the table                                      *)
RecordsOf(s) == {row.record : row \in {row \in table : row.source = s}}

Visiting(p) == at[p] \in {"fetched", "ingested"}
Visited(p) == Head(todo[p])
Brought(p) == ToSet(batch[p]) \cap Records

Finite ==
    /\ IsFiniteSet(table)
    /\ \A s \in Source : IsFiniteSet(upstream[s])
    /\ \A p \in Refresher : Visiting(p) => todo[p] # <<>>

(* What is written has a row with its key.                                 *)
KeysIn(s, records, rows) ==
    \A r \in records : \E row \in rows : UniqueKey(row) = UniqueKey([source |-> s, record |-> r])
Covered ==
    /\ \A s \in Source : KeysIn(s, ToSet(digest[s]), table)
    /\ \A p \in Refresher : at[p] = "ingested" => KeysIn(Visited(p), Brought(p), table)

(* Every row was a feed's.                                                 *)
Known ==
    /\ AllRows(upstream) \subseteq published
    /\ table \subseteq published
    /\ \A p \in Refresher : Visiting(p) => Rows(Visited(p), Brought(p)) \subseteq published

Alone == ~ overlapped =>
    \A p, q \in Refresher : at[p] \in Refreshing /\ at[q] \in Refreshing => p = q

(* What was fetched a feed still says, when feeds withdraw nothing: the    *)
(* batch of a refresh on its own holds the digest that it will replace.    *)
StillSaid == ~ withdrawn =>
    /\ \A s \in Source : ToSet(digest[s]) \subseteq upstream[s]
    /\ \A p \in Refresher : Visiting(p) => ToSet(batch[p]) \subseteq upstream[Visited(p)]
Replaces == ~ withdrawn /\ ~ overlapped =>
    \A p \in Refresher : Visiting(p) => ToSet(digest[Visited(p)]) \subseteq Brought(p)

Calm == ~ withdrawn /\ ~ overlapped /\ ~ cut /\ OneRowPerKey(published)
Named == Calm =>
    /\ \A s \in Source :
          (\A p \in Refresher : at[p] = "ingested" => Visited(p) # s)
          => RecordsOf(s) = ToSet(digest[s])
    /\ \A p \in Refresher : at[p] = "ingested" => RecordsOf(Visited(p)) = Brought(p)

(* What a refresh has written and counted                                  *)
Counted ==
    \A p \in Refresher :
        /\ at[p] = "new" => stored[p] = {} /\ batch[p] = <<>> /\ inserted[p] = 0
        /\ inserted[p] > 0 /\ stored[p] = {} => at[p] \in {"ingested", "done", "dead"}
        /\ at[p] # "done" <=> code[p] = -1

-----------------------------------------------------------------------------
LEMMA RecordIs ==
    /\ \A s \in Source, r \in Records :
          /\ [source |-> s, record |-> r] \in Row
          /\ [source |-> s, record |-> r].source = s /\ [source |-> s, record |-> r].record = r
    /\ \A row \in Row : row.source \in Source /\ row.record \in Records
                         /\ row = [source |-> row.source, record |-> row.record]
  BY DEF Row

LEMMA SourcesAre ==
    /\ IsFiniteSet(Source) /\ Sources \in Seq(Source) /\ \A s \in Source : <<s>> \in Seq(Source)
<1>1. Sources \in Seq(Source) /\ Len(Sources) \in Nat /\ DOMAIN Sources = 1 .. Len(Sources)
  BY FeedsAssumption
<1>2. Sources \in Surjection(1 .. Len(Sources), Source)
  <2>1. Sources \in [1 .. Len(Sources) -> Source]
    BY <1>1
  <2> QED
    BY <1>1, <2>1 DEF Surjection, Source, ToSet
<1>3. IsFiniteSet(1 .. Len(Sources))
  BY <1>1, FS_Interval
<1>4. IsFiniteSet(Source)
  BY <1>2, <1>3, FS_Surjection
<1> QED
  BY <1>1, <1>4

LEMMA SuccessesAre ==
    ASSUME NEW chunks \in Seq(Chunk)
    PROVE  /\ Successes(chunks) \in Seq(Records)
           /\ ToSet(Successes(chunks)) = ToSet(chunks) \cap Records
           /\ Len(chunks) - Len(Successes(chunks)) \in Nat
           /\ ToSet(chunks) \subseteq Chunk
<1>1. Chunk \cap Records = Records
  BY DEF Records
<1>2. /\ Successes(chunks) \in Seq(Chunk \cap Records) /\ Len(Successes(chunks)) =< Len(chunks)
      /\ ToSet(Successes(chunks)) = ToSet(chunks) \cap Records
  BY AmongProperties DEF Successes
<1>3. Len(chunks) \in Nat /\ Len(Successes(chunks)) \in Nat
  BY <1>2
<1>4. ToSet(chunks) \subseteq Chunk
  BY ElementOfSeq DEF ToSet
<1> QED
  BY <1>1, <1>2, <1>3, <1>4

TypeAndFinite == IndexTypeOK /\ Finite

LEMMA AnswersAre ==
    ASSUME NEW s \in Source, NEW c \in Answers(s)
    PROVE  c \subseteq Chunk /\ IsFiniteSet(c) /\ Rows(s, c) \subseteq Row
<1>1. c \subseteq Chunk /\ IsFiniteSet(c)
  BY DEF Answers, Chunk
<1> QED
  BY <1>1 DEF Rows, Row, Records

LEMMA IndexTypeInit == ASSUME IndexInit PROVE TypeAndFinite
<1>1. AllRows(upstream) \subseteq Row
  BY AnswersAre DEF IndexInit, AllRows
<1>2. \A s \in Source : IsFiniteSet(upstream[s])
  BY AnswersAre DEF IndexInit
<1>3. IsFiniteSet(table)
  BY FS_EmptySet DEF IndexInit
<1>4. \A p \in Refresher : ~ Visiting(p)
  BY DEF IndexInit, Visiting
<1>5. IndexTypeOK
  BY <1>1 DEF IndexInit, IndexTypeOK
<1> QED
  BY <1>2, <1>3, <1>4, <1>5 DEF TypeAndFinite, Finite

(* A step of one refresh leaves the others where they are.                 *)
OthersStay(p) ==
    \A q \in Refresher \ {p} :
        at'[q] = at[q] /\ todo'[q] = todo[q] /\ batch'[q] = batch[q]

LEMMA TypeOfFetch ==
    ASSUME TypeAndFinite, NEW p \in Refresher, todo[p] # <<>>,
           at[p] \in {"fetch", "fetched", "ingested"}
    PROVE  /\ Head(todo[p]) \in Source /\ Tail(todo[p]) \in Seq(Source)
           /\ upstream[Head(todo[p])] \subseteq Chunk /\ IsFiniteSet(upstream[Head(todo[p])])
<1>1. todo[p] \in Seq(Source)
  BY DEF TypeAndFinite, IndexTypeOK
<1>2. Head(todo[p]) \in Source /\ Tail(todo[p]) \in Seq(Source)
  BY <1>1, HeadTailProperties
<1> QED
  BY <1>2 DEF TypeAndFinite, IndexTypeOK, Finite

LEMMA TypeOfIngest ==
    ASSUME TypeAndFinite, NEW p \in Refresher, Ingest(p)
    PROVE  /\ table' \in SUBSET Row /\ table \subseteq table' /\ IsFiniteSet(table')
           /\ \A row \in table' \ table : row.source = Visited(p) /\ row.record \in Brought(p)
           /\ KeysIn(Visited(p), Brought(p), table')
           /\ OneRowPerKey(table) => OneRowPerKey(table')
           /\ Cardinality(table') - Cardinality(table) \in Nat
<1> DEFINE s == Head(todo[p])
           records == Successes(batch[p])
<1>1. s \in Source /\ batch[p] \in Seq(Chunk) /\ table \in SUBSET Row /\ IsFiniteSet(table)
  BY TypeOfFetch DEF TypeAndFinite, Finite, Visiting, IndexTypeOK, Ingest
<1>2. records \in Seq(Records) /\ ToSet(records) = Brought(p)
  BY <1>1, SuccessesAre DEF Brought
<1>3. table' = Persisted(table, s, records)
  BY DEF Ingest
<1> HIDE DEF s, records
<1>4. /\ table' \in SUBSET Row /\ table \subseteq table' /\ IsFiniteSet(table')
      /\ \A row \in table' \ table : row.source = s /\ row.record \in ToSet(records)
      /\ \A i \in DOMAIN records : \E row \in table' :
            UniqueKey(row) = UniqueKey([source |-> s, record |-> records[i]])
      /\ OneRowPerKey(table) => OneRowPerKey(table')
  BY <1>1, <1>2, <1>3, PersistedProperties
<1>5. \A r \in Brought(p) : \E i \in DOMAIN records : records[i] = r
  BY <1>2 DEF ToSet
<1>6. KeysIn(s, Brought(p), table')
  BY <1>4, <1>5 DEF KeysIn
<1>7. /\ Cardinality(table) \in Nat /\ Cardinality(table') \in Nat
      /\ Cardinality(table) =< Cardinality(table')
  BY <1>1, <1>4, FS_Subset, FS_CardinalityType
<1>8. Cardinality(table') - Cardinality(table) \in Nat
  BY <1>7
<1> QED
  BY <1>2, <1>4, <1>6, <1>8 DEF Visited, s

(* Every step of the processes either touches nothing that the digests are *)
(* about, or is one of three.                                              *)
Idle(p) ==
    /\ UNCHANGED <<upstream, table, digest, past>> /\ OthersStay(p)
    /\ at'[p] \notin {"fetched", "ingested"}
    /\ at[p] = "ingested" => cut'
    /\ cut => cut'
    /\ overlapped => overlapped'
    /\ \/ overlapped' = overlapped /\ (at'[p] \in Refreshing => at[p] \in Refreshing)
       \/ \A q \in Refresher : ~ overlapped' => at[q] \notin Refreshing

LEMMA IdleSteps ==
    ASSUME TypeAndFinite, NEW p \in Refresher,
           \/ \E srcs \in {Sources} \cup {<<s>> : s \in Source} : Start(p, srcs)
           \/ BeginMigration(p) \/ EndMigration(p) \/ FetchFails(p) \/ Finish(p) \/ Killed(p)
    PROVE  Idle(p) /\ IndexTypeOK'
<1>1. ASSUME NEW srcs \in {Sources} \cup {<<s>> : s \in Source}, Start(p, srcs)
      PROVE  Idle(p) /\ IndexTypeOK'
  <2>1. srcs \in Seq(Source)
    BY SourcesAre
  <2>2. todo' \in [Refresher -> Seq(Source)]
    BY <1>1, <2>1 DEF Start, TypeAndFinite, IndexTypeOK
  <2>3. /\ at' \in [Refresher -> {"new"} \cup Refreshing \cup Ended]
        /\ code' \in [Refresher -> {-1, 0, 4, 5, 7}]
    BY <1>1 DEF TypeAndFinite, IndexTypeOK, Start, End, Refreshing, Ended
  <2>4. /\ at'[p] \in {"done", "migrate", "fetch"} /\ at[p] = "new"
        /\ \A q \in Refresher \ {p} : at'[q] = at[q]
    BY <1>1 DEF TypeAndFinite, IndexTypeOK, Start, End
  <2>5. \A q \in Refresher \ {p} : todo'[q] = todo[q]
    BY <1>1 DEF TypeAndFinite, IndexTypeOK, Start
  <2>6. UNCHANGED <<upstream, index, table, digest, batch, totals, stored, past, cut>>
    BY <1>1 DEF TypeAndFinite, IndexTypeOK, Start
  <2>7. overlapped' = (overlapped \/ \E q \in Refresher : at[q] \in Refreshing)
    BY <1>1 DEF TypeAndFinite, IndexTypeOK, Start
  <2>8. Idle(p)
    BY <2>4, <2>5, <2>6, <2>7 DEF Idle, OthersStay, past
  <2> QED
    BY <2>2, <2>3, <2>6, <2>8 DEF TypeAndFinite, IndexTypeOK, totals, past
<1>2. CASE BeginMigration(p)
  BY <1>2 DEF TypeAndFinite, IndexTypeOK, BeginMigration, Idle, OthersStay, Refreshing, Ended,
              totals, past
<1>3. CASE EndMigration(p)
  BY <1>3 DEF TypeAndFinite, IndexTypeOK, EndMigration, Idle, OthersStay, Refreshing, Ended,
              totals, past
<1>4. CASE FetchFails(p)
  <2>1. Tail(todo[p]) \in Seq(Source)
    BY <1>4, TypeOfFetch DEF FetchFails
  <2> QED
    BY <1>4, <2>1 DEF TypeAndFinite, IndexTypeOK, FetchFails, Idle, OthersStay, past
<1>5. CASE Finish(p)
  <2>1. ExitCode(p) \in {0, 4, 5}
    BY DEF ExitCode
  <2>2. /\ at' = [at EXCEPT ![p] = "done"] /\ code' = [code EXCEPT ![p] = ExitCode(p)]
        /\ at[p] = "fetch" /\ UNCHANGED <<index, inserted, errors, failures, stored>>
        /\ UNCHANGED <<upstream, table, digest, todo, batch, past, overlapped, cut>>
    BY <1>5 DEF Finish, End, totals
  <2>3. /\ at' \in [Refresher -> {"new"} \cup Refreshing \cup Ended]
        /\ code' \in [Refresher -> {-1, 0, 4, 5, 7}]
    BY <2>1, <2>2 DEF TypeAndFinite, IndexTypeOK, Ended
  <2>4. IndexTypeOK'
    BY <2>2, <2>3 DEF TypeAndFinite, IndexTypeOK, past
  <2>5. Idle(p)
    BY <2>2 DEF TypeAndFinite, IndexTypeOK, Idle, OthersStay, Refreshing
  <2> QED
    BY <2>4, <2>5
<1>6. CASE Killed(p)
  <2>1. /\ at'[p] = "dead" /\ at[p] \in Refreshing /\ OthersStay(p)
        /\ cut' = (cut \/ at[p] = "ingested")
        /\ UNCHANGED <<upstream, table, digest, past, overlapped>>
    BY <1>6 DEF TypeAndFinite, IndexTypeOK, Killed, OthersStay
  <2>2. Idle(p)
    BY <2>1 DEF Idle, Refreshing
  <2>3. /\ at' \in [Refresher -> {"new"} \cup Refreshing \cup Ended]
        /\ batch' \in [Refresher -> Seq(Chunk)] /\ todo' \in [Refresher -> Seq(Source)]
    BY <1>6 DEF TypeAndFinite, IndexTypeOK, Killed, Ended
  <2>4. IndexTypeOK'
    BY <1>6, <2>3 DEF TypeAndFinite, IndexTypeOK, Killed, totals, past
  <2> QED
    BY <2>2, <2>4
<1> QED
  BY <1>1, <1>2, <1>3, <1>4, <1>5, <1>6

LEMMA OtherSteps ==
    ASSUME TypeAndFinite, NEW p \in Refresher
    PROVE  /\ \A chunks : Fetch(p, chunks) => OthersStay(p)
           /\ Ingest(p) => OthersStay(p)
           /\ UpdateFeedDigest(p) => OthersStay(p)
  BY DEF Fetch, Ingest, UpdateFeedDigest, OthersStay, TypeAndFinite, IndexTypeOK

LEMMA StepKinds ==
    ASSUME TypeAndFinite, IndexNext
    PROVE  \/ \E s \in Source : \E chunks \in Answers(s) : Publish(s, chunks)
           \/ \E p \in Refresher : \/ Idle(p)
                                   \/ \E c \in SetToSeqs(upstream[Head(todo[p])]) : Fetch(p, c)
                                   \/ Ingest(p) \/ UpdateFeedDigest(p)
<1>1. ASSUME NEW p \in Refresher, NEW c, Fetch(p, c)
      PROVE  c \in SetToSeqs(upstream[Head(todo[p])])
  BY <1>1 DEF Fetch
<1> QED
  BY <1>1, IdleSteps DEF IndexNext, Step

LEMMA IndexTypeStep == ASSUME TypeAndFinite, [IndexNext]_indexVars PROVE TypeAndFinite'
<1>1. CASE UNCHANGED indexVars
  BY <1>1 DEF TypeAndFinite, IndexTypeOK, Finite, Visiting, indexVars, refresh, totals, past
<1>2. ASSUME NEW s \in Source, NEW chunks \in Answers(s), Publish(s, chunks) PROVE TypeAndFinite'
  <2>1. chunks \subseteq Chunk /\ IsFiniteSet(chunks) /\ Rows(s, chunks) \subseteq Row
    BY AnswersAre
  <2>2. IndexTypeOK'
    BY <1>2, <2>1 DEF TypeAndFinite, IndexTypeOK, Publish, refresh, totals
  <2>3. \A q \in Source : upstream'[q] = IF q = s THEN chunks ELSE upstream[q]
    BY <1>2 DEF Publish, TypeAndFinite, IndexTypeOK
  <2>4. Finite'
    BY <1>2, <2>1, <2>3 DEF TypeAndFinite, Finite, Visiting, Publish, refresh
  <2> QED
    BY <2>2, <2>4 DEF TypeAndFinite
<1>3. ASSUME NEW p \in Refresher, Idle(p), IndexTypeOK' PROVE TypeAndFinite'
  <2>1. Finite'
    BY <1>3 DEF TypeAndFinite, Finite, Idle, OthersStay, Visiting
  <2> QED
    BY <1>3, <2>1 DEF TypeAndFinite
<1>4. ASSUME NEW p \in Refresher, NEW c, Fetch(p, c) PROVE TypeAndFinite'
  <2> DEFINE S == upstream[Head(todo[p])]
  <2>1. S \subseteq Chunk /\ IsFiniteSet(S) /\ c \in SetToSeqs(S)
    BY <1>4, TypeOfFetch DEF Fetch
  <2>2. c \in Seq(Chunk)
    <3>1. c \in Seq(S)
      <4> HIDE DEF S
      <4> QED
        BY <2>1, FetchedProperties
    <3> HIDE DEF S
    <3> QED
      BY <2>1, <3>1
  <2>3. IndexTypeOK'
    BY <1>4, <2>2 DEF TypeAndFinite, IndexTypeOK, Fetch, totals, past, Refreshing
  <2>4. Finite'
    BY <1>4, OtherSteps DEF TypeAndFinite, Finite, Fetch, OthersStay, Visiting
  <2> QED
    BY <2>3, <2>4 DEF TypeAndFinite
<1>5. ASSUME NEW p \in Refresher, Ingest(p) PROVE TypeAndFinite'
  <2>1. batch[p] \in Seq(Chunk)
    BY DEF TypeAndFinite, IndexTypeOK
  <2> DEFINE new == Cardinality(table') - Cardinality(table)
             leftOut == Len(batch[p]) - Len(Successes(batch[p]))
  <2>2. /\ table' \in SUBSET Row /\ IsFiniteSet(table') /\ new \in Nat
    BY <1>5, TypeOfIngest
  <2>3. leftOut \in Nat
    BY <2>1, SuccessesAre
  <2>4. /\ inserted' = [inserted EXCEPT ![p] = @ + Cardinality(table') - Cardinality(table)]
        /\ errors' = [errors EXCEPT ![p] = @ + Len(batch[p]) - Len(Successes(batch[p]))]
    BY <1>5 DEF Ingest
  <2>5. /\ Cardinality(table) \in Nat /\ Cardinality(table') \in Nat
        /\ Len(batch[p]) \in Nat /\ Len(Successes(batch[p])) \in Nat
    BY <2>1, <2>2, SuccessesAre, FS_CardinalityType DEF TypeAndFinite, Finite
  <2>6. /\ inserted[p] + Cardinality(table') - Cardinality(table) \in Nat
        /\ errors[p] + Len(batch[p]) - Len(Successes(batch[p])) \in Nat
    <3>1. inserted[p] \in Nat /\ errors[p] \in Nat
      BY DEF TypeAndFinite, IndexTypeOK
    <3>2. ASSUME NEW x \in Nat, NEW a \in Nat, NEW b \in Nat, a - b \in Nat
          PROVE  x + a - b \in Nat
      BY <3>2
    <3> QED
      BY <2>2, <2>3, <2>5, <3>1, <3>2
  <2>7. inserted' \in [Refresher -> Nat] /\ errors' \in [Refresher -> Nat]
    BY <2>4, <2>6 DEF TypeAndFinite, IndexTypeOK
  <2>8. IndexTypeOK'
    BY <1>5, <2>2, <2>7 DEF TypeAndFinite, IndexTypeOK, Ingest, Refreshing, past
  <2>9. Finite'
    BY <1>5, <2>2, OtherSteps DEF TypeAndFinite, Finite, Ingest, OthersStay, Visiting
  <2> QED
    BY <2>8, <2>9 DEF TypeAndFinite
<1>6. ASSUME NEW p \in Refresher, UpdateFeedDigest(p) PROVE TypeAndFinite'
  <2>1. Visiting(p) /\ todo[p] # <<>> /\ batch[p] \in Seq(Chunk)
    BY <1>6 DEF UpdateFeedDigest, Visiting, TypeAndFinite, Finite, IndexTypeOK
  <2>2. Head(todo[p]) \in Source /\ Tail(todo[p]) \in Seq(Source)
    BY <2>1, TypeOfFetch DEF Visiting
  <2>3. SortedByCve(Successes(batch[p])) \in Seq(Records)
    BY <2>1, SuccessesAre, SortedProperties
  <2>4. IndexTypeOK'
    BY <1>6, <2>2, <2>3 DEF TypeAndFinite, IndexTypeOK, UpdateFeedDigest, totals, past, Refreshing
  <2>5. Finite'
    BY <1>6, OtherSteps DEF TypeAndFinite, Finite, IndexTypeOK, UpdateFeedDigest,
                          OthersStay, Visiting
  <2> QED
    BY <2>4, <2>5 DEF TypeAndFinite
<1>7. ASSUME NEW p \in Refresher,
             \/ \E srcs \in {Sources} \cup {<<s>> : s \in Source} : Start(p, srcs)
             \/ Step(p) \/ Killed(p)
      PROVE  TypeAndFinite'
  <2>1. CASE \E c : Fetch(p, c)
    BY <1>4, <2>1
  <2>2. CASE Ingest(p) \/ UpdateFeedDigest(p)
    BY <1>5, <1>6, <2>2
  <2>3. CASE \/ \E srcs \in {Sources} \cup {<<s>> : s \in Source} : Start(p, srcs)
             \/ BeginMigration(p) \/ EndMigration(p) \/ FetchFails(p) \/ Finish(p) \/ Killed(p)
    BY <1>3, <2>3, IdleSteps
  <2> QED
    BY <1>7, <2>1, <2>2, <2>3 DEF Step
<1> QED
  BY <1>1, <1>2, <1>7 DEF IndexNext

(* The types of the index's state, for any feeds and any number of         *)
(* refreshes: totals never fall below 0, a digest is a list of records.    *)
THEOREM IndexTypeCorrect == IndexSpec => []IndexTypeOK
<1>1. IndexInit => TypeAndFinite
  BY IndexTypeInit
<1>2. TypeAndFinite /\ [IndexNext]_indexVars => TypeAndFinite'
  BY IndexTypeStep
<1>3. TypeAndFinite => IndexTypeOK
  BY DEF TypeAndFinite
<1> QED
  BY <1>1, <1>2, <1>3, PTL DEF IndexSpec

LEMMA IndexAlwaysTyped == IndexSpec => []TypeAndFinite
  BY IndexTypeInit, IndexTypeStep, PTL DEF IndexSpec

-----------------------------------------------------------------------------
(* A row of the table stays, and it is the only one with its key.          *)
LEMMA TableGrows ==
    ASSUME TypeAndFinite, [IndexNext]_indexVars
    PROVE  table \subseteq table' /\ (OneRowPerKey(table) => OneRowPerKey(table'))
<1>1. CASE UNCHANGED indexVars
  BY <1>1 DEF indexVars
<1>2. CASE \E s \in Source : \E chunks \in Answers(s) : Publish(s, chunks)
  BY <1>2 DEF Publish
<1>3. ASSUME NEW p \in Refresher, Idle(p)
      PROVE  table \subseteq table' /\ (OneRowPerKey(table) => OneRowPerKey(table'))
  BY <1>3 DEF Idle
<1>4. ASSUME NEW p \in Refresher, Ingest(p)
      PROVE  table \subseteq table' /\ (OneRowPerKey(table) => OneRowPerKey(table'))
  BY <1>4, TypeOfIngest
<1>5. ASSUME NEW p \in Refresher, (\E c : Fetch(p, c)) \/ UpdateFeedDigest(p)
      PROVE  table \subseteq table' /\ (OneRowPerKey(table) => OneRowPerKey(table'))
  BY <1>5 DEF Fetch, UpdateFeedDigest
<1> QED
  BY <1>1, <1>2, <1>3, <1>4, <1>5, StepKinds

(* A row that is in the table stays as it is, and no key has two, however  *)
(* refreshes interleave: rows are only added, by INSERT OR IGNORE.         *)
THEOREM TableOnlyGrows == IndexSpec => RowsStay
<1> DEFINE Single == OneRowPerKey(table)
<1>1. IndexInit => Single
  BY DEF IndexInit, OneRowPerKey
<1>2. TypeAndFinite /\ Single /\ [IndexNext]_indexVars => Single'
  BY TableGrows
<1>3. TypeAndFinite /\ Single' /\ [IndexNext]_indexVars
      => [/\ table \subseteq table'
          /\ \A row, other \in table' : UniqueKey(row) = UniqueKey(other) => row = other]_indexVars
  BY TableGrows DEF OneRowPerKey
<1> HIDE DEF Single
<1> QED
  BY <1>1, <1>2, <1>3, IndexAlwaysTyped, PTL DEF IndexSpec, RowsStay

-----------------------------------------------------------------------------
LEMMA CoveredInit == ASSUME IndexInit PROVE Covered
<1>1. \A s \in Source : ToSet(digest[s]) = {}
  BY DEF IndexInit, ToSet
<1>2. \A p \in Refresher : at[p] # "ingested"
  BY DEF IndexInit
<1> QED
  BY <1>1, <1>2 DEF Covered, KeysIn

(* The keys that a set of rows has stay its keys when the set grows.       *)
LEMMA KeysStay ==
    ASSUME NEW s, NEW records, NEW old, NEW new, old \subseteq new, KeysIn(s, records, old)
    PROVE  KeysIn(s, records, new)
  BY DEF KeysIn

LEMMA DigestStep ==
    ASSUME TypeAndFinite, NEW p \in Refresher, UpdateFeedDigest(p)
    PROVE  /\ Visiting(p) /\ Visited(p) \in Source
           /\ ToSet(digest'[Visited(p)]) = Brought(p)
           /\ \A s \in Source \ {Visited(p)} : digest'[s] = digest[s]
           /\ at'[p] = "fetch" /\ OthersStay(p)
           /\ UNCHANGED <<upstream, table, past, overlapped, cut>>
<1>1. Visiting(p) /\ todo[p] # <<>> /\ batch[p] \in Seq(Chunk)
  BY DEF UpdateFeedDigest, Visiting, TypeAndFinite, Finite, IndexTypeOK
<1>2. Visited(p) \in Source
  BY <1>1, TypeOfFetch DEF Visiting, Visited
<1>3. ToSet(SortedByCve(Successes(batch[p]))) = Brought(p)
  BY <1>1, SuccessesAre, SortedProperties DEF Brought
<1>4. /\ digest'[Visited(p)] = SortedByCve(Successes(batch[p]))
      /\ \A s \in Source \ {Visited(p)} : digest'[s] = digest[s]
  BY <1>2 DEF UpdateFeedDigest, Visited, TypeAndFinite, IndexTypeOK
<1>5. at'[p] = "fetch" /\ OthersStay(p)
  BY OtherSteps DEF UpdateFeedDigest, TypeAndFinite, IndexTypeOK
<1> QED
  BY <1>1, <1>2, <1>3, <1>4, <1>5 DEF UpdateFeedDigest

LEMMA IngestStep ==
    ASSUME TypeAndFinite, NEW p \in Refresher, Ingest(p)
    PROVE  /\ Visiting(p) /\ Visited(p) \in Source /\ at[p] = "fetched" /\ at'[p] = "ingested"
           /\ Visited(p)' = Visited(p) /\ Brought(p)' = Brought(p) /\ OthersStay(p)
           /\ batch' = batch
           /\ UNCHANGED <<upstream, digest, past, overlapped, cut>>
<1>1. Visiting(p) /\ Visited(p) \in Source
  BY TypeOfFetch DEF Ingest, Visiting, Visited, TypeAndFinite, Finite
<1>2. at[p] = "fetched" /\ at'[p] = "ingested" /\ todo' = todo /\ batch' = batch
  BY DEF Ingest, TypeAndFinite, IndexTypeOK
<1> QED
  BY <1>1, <1>2, OtherSteps DEF Ingest, Visited, Brought

LEMMA FetchStep ==
    ASSUME TypeAndFinite, NEW p \in Refresher, NEW c, Fetch(p, c)
    PROVE  /\ at[p] = "fetch" /\ at'[p] = "fetched" /\ OthersStay(p)
           /\ Visited(p) \in Source /\ Visited(p)' = Visited(p)
           /\ ToSet(batch'[p]) = upstream[Visited(p)]
           /\ Brought(p)' = upstream[Visited(p)] \cap Records
           /\ UNCHANGED <<upstream, table, digest, past, overlapped, cut>>
<1>1. Visited(p) \in Source /\ IsFiniteSet(upstream[Visited(p)])
  BY TypeOfFetch DEF Fetch, Visited
<1>2. ToSet(c) = upstream[Visited(p)]
  BY <1>1, FetchedProperties DEF Fetch, Visited
<1>3. batch'[p] = c /\ at[p] = "fetch" /\ at'[p] = "fetched" /\ todo' = todo
  BY DEF Fetch, TypeAndFinite, IndexTypeOK
<1> QED
  BY <1>1, <1>2, <1>3, OtherSteps DEF Fetch, Visited, Brought

LEMMA CoveredStep ==
    ASSUME TypeAndFinite, Covered, [IndexNext]_indexVars
    PROVE  Covered'
<1>1. table \subseteq table'
  BY TableGrows
<1>2. ASSUME digest' = digest,
             \A p \in Refresher : at'[p] = "ingested" =>
                at[p] = "ingested" /\ Visited(p)' = Visited(p) /\ Brought(p)' = Brought(p)
      PROVE  Covered'
  BY <1>1, <1>2, KeysStay DEF Covered
<1>3. CASE UNCHANGED indexVars
  BY <1>2, <1>3 DEF indexVars, refresh, Visited, Brought
<1>4. CASE \E s \in Source : \E chunks \in Answers(s) : Publish(s, chunks)
  BY <1>2, <1>4 DEF Publish, refresh, Visited, Brought
<1>5. ASSUME NEW p \in Refresher, Idle(p) PROVE Covered'
  BY <1>2, <1>5 DEF Idle, OthersStay, Visited, Brought
<1>6. ASSUME NEW p \in Refresher, NEW c, Fetch(p, c) PROVE Covered'
  BY <1>2, <1>6, FetchStep DEF OthersStay, Visited, Brought
<1>7. ASSUME NEW p \in Refresher, Ingest(p) PROVE Covered'
  <2>1. KeysIn(Visited(p)', Brought(p)', table')
    BY <1>7, TypeOfIngest, IngestStep
  <2>2. \A q \in Refresher \ {p} :
           at'[q] = at[q] /\ Visited(q)' = Visited(q) /\ Brought(q)' = Brought(q)
    BY <1>7, IngestStep DEF OthersStay, Visited, Brought
  <2> QED
    BY <1>1, <1>7, <2>1, <2>2, IngestStep, KeysStay DEF Covered
<1>8. ASSUME NEW p \in Refresher, UpdateFeedDigest(p) PROVE Covered'
  <2>1. at[p] = "ingested" /\ table' = table
    BY <1>8 DEF UpdateFeedDigest
  <2>2. \A q \in Refresher \ {p} :
           at'[q] = at[q] /\ Visited(q)' = Visited(q) /\ Brought(q)' = Brought(q)
    BY <1>8, DigestStep DEF OthersStay, Visited, Brought
  <2>3. \A s \in Source : KeysIn(s, ToSet(digest'[s]), table)
    BY <1>8, <2>1, DigestStep DEF Covered
  <2> QED
    BY <1>8, <2>1, <2>2, <2>3, DigestStep DEF Covered
<1> QED
  BY <1>3, <1>4, <1>5, <1>6, <1>7, <1>8, StepKinds

(* Whatever dies and however refreshes interleave, a digest stands only    *)
(* for records whose key is in the table.                                  *)
THEOREM DigestsAreCovered == IndexSpec => []DigestCovered
<1>1. IndexInit => Covered
  BY CoveredInit
<1>2. TypeAndFinite /\ Covered /\ [IndexNext]_indexVars => Covered'
  BY CoveredStep
<1>3. Covered => DigestCovered
  BY DEF Covered, DigestCovered, KeysIn, ToSet
<1> QED
  BY <1>1, <1>2, <1>3, IndexAlwaysTyped, PTL DEF IndexSpec

-----------------------------------------------------------------------------
LEMMA KnownInit == ASSUME IndexInit PROVE Known
  BY DEF IndexInit, Known, Visiting

LEMMA KnownStep == ASSUME TypeAndFinite, Known, [IndexNext]_indexVars PROVE Known'
<1>1. CASE UNCHANGED indexVars
  BY <1>1 DEF Known, AllRows, Visiting, Visited, Brought, indexVars, refresh, past
<1>2. ASSUME NEW s \in Source, NEW chunks \in Answers(s), Publish(s, chunks) PROVE Known'
  <2>1. published' = published \cup Rows(s, chunks)
    BY <1>2 DEF Publish
  <2>2. \A q \in Source : upstream'[q] = IF q = s THEN chunks ELSE upstream[q]
    BY <1>2 DEF Publish, TypeAndFinite, IndexTypeOK
  <2>3. AllRows(upstream') \subseteq published'
    BY <2>1, <2>2 DEF Known, AllRows
  <2>4. UNCHANGED <<table, at, todo, batch>>
    BY <1>2 DEF Publish, refresh
  <2> QED
    BY <2>1, <2>3, <2>4 DEF Known, Visiting, Visited, Brought
<1>3. ASSUME NEW p \in Refresher, Idle(p) PROVE Known'
  BY <1>3 DEF Known, Idle, past, OthersStay, Visiting, Visited, Brought
<1>4. ASSUME NEW p \in Refresher, NEW c, Fetch(p, c) PROVE Known'
  <2>1. Rows(Visited(p), upstream[Visited(p)] \cap Records) \subseteq published
    BY <1>4, FetchStep DEF Known, AllRows, Rows
  <2> QED
    BY <1>4, <2>1, FetchStep DEF Known, past, OthersStay, Visiting, Visited, Brought
<1>5. ASSUME NEW p \in Refresher, Ingest(p) PROVE Known'
  <2>1. \A row \in table' \ table : row \in Rows(Visited(p), Brought(p))
    <3>1. \A row \in table' \ table :
             row \in Row /\ row.source = Visited(p) /\ row.record \in Brought(p)
      BY <1>5, TypeOfIngest
    <3> QED
      BY <3>1, RecordIs DEF Rows, Records
  <2>2. Visiting(p) /\ published' = published
    BY <1>5, IngestStep DEF past
  <2>3. table' \subseteq published'
    BY <2>1, <2>2 DEF Known
  <2>4. \A q \in Refresher : Visiting(q)' => /\ Visiting(q) /\ Visited(q)' = Visited(q)
                                           /\ Brought(q)' = Brought(q)
    BY <1>5, <2>2, IngestStep DEF OthersStay, Visiting, Visited, Brought
  <2> QED
    BY <1>5, <2>2, <2>3, <2>4, IngestStep DEF Known
<1>6. ASSUME NEW p \in Refresher, UpdateFeedDigest(p) PROVE Known'
  BY <1>6, DigestStep DEF Known, past, OthersStay, Visiting, Visited, Brought
<1> QED
  BY <1>1, <1>2, <1>3, <1>4, <1>5, <1>6, StepKinds

-----------------------------------------------------------------------------
LEMMA AloneStep == ASSUME TypeAndFinite, Alone, [IndexNext]_indexVars PROVE Alone'
<1>1. CASE UNCHANGED indexVars
  BY <1>1 DEF Alone, indexVars, refresh
<1>2. CASE \E s \in Source : \E chunks \in Answers(s) : Publish(s, chunks)
  BY <1>2 DEF Alone, Publish, refresh
<1>3. ASSUME NEW p \in Refresher, Idle(p) PROVE Alone'
  BY <1>3 DEF Alone, Idle, OthersStay
<1>4. ASSUME NEW p \in Refresher, (\E c : Fetch(p, c)) \/ Ingest(p) \/ UpdateFeedDigest(p)
      PROVE  Alone'
  <2>1. /\ overlapped' = overlapped /\ at[p] \in Refreshing /\ at'[p] \in Refreshing
        /\ OthersStay(p)
    BY <1>4, FetchStep, IngestStep, DigestStep DEF Refreshing, UpdateFeedDigest
  <2> QED
    BY <2>1 DEF Alone, OthersStay
<1> QED
  BY <1>1, <1>2, <1>3, <1>4, StepKinds

LEMMA SaidInit == ASSUME IndexInit PROVE Alone /\ StillSaid /\ Replaces
<1>1. \A p \in Refresher : at[p] = "new"
  BY DEF IndexInit
<1>2. \A s \in Source : ToSet(digest[s]) = {}
  BY DEF IndexInit, ToSet
<1> QED
  BY <1>1, <1>2 DEF Alone, StillSaid, Replaces, Visiting, Refreshing

LEMMA SaidStep ==
    ASSUME TypeAndFinite, Alone, StillSaid, Replaces, [IndexNext]_indexVars
    PROVE  StillSaid' /\ Replaces'
<1>0. ASSUME NEW p \in Refresher, at[p] \in {"fetch", "fetched", "ingested"}, ~ overlapped
      PROVE  \A q \in Refresher \ {p} : ~ Visiting(q)
  BY <1>0 DEF Alone, Visiting, Refreshing
<1>1. CASE UNCHANGED indexVars
  BY <1>1 DEF StillSaid, Replaces, Visiting, Visited, Brought, indexVars, refresh, past
<1>2. ASSUME NEW s \in Source, NEW chunks \in Answers(s), Publish(s, chunks)
      PROVE  StillSaid' /\ Replaces'
  <2>1. UNCHANGED <<digest, at, todo, batch, overlapped>>
    BY <1>2 DEF Publish, refresh
  <2>2. \A q \in Source : upstream'[q] = IF q = s THEN chunks ELSE upstream[q]
    BY <1>2 DEF Publish, TypeAndFinite, IndexTypeOK
  <2>3. ~ withdrawn' => ~ withdrawn /\ \A q \in Source : upstream[q] \subseteq upstream'[q]
    BY <1>2, <2>2 DEF Publish
  <2>4. \A p \in Refresher : Visiting(p) => Visited(p) \in Source
    BY TypeOfFetch DEF Visiting, Visited, TypeAndFinite, Finite
  <2> QED
    BY <2>1, <2>3, <2>4 DEF StillSaid, Replaces, Visiting, Visited, Brought
<1>3. ASSUME NEW p \in Refresher, Idle(p) PROVE StillSaid' /\ Replaces'
  BY <1>3 DEF StillSaid, Replaces, Idle, past, OthersStay, Visiting, Visited, Brought
<1>4. ASSUME NEW p \in Refresher, NEW c, Fetch(p, c) PROVE StillSaid' /\ Replaces'
  <2>1. ASSUME ~ withdrawn
        PROVE  ToSet(digest[Visited(p)]) \subseteq upstream[Visited(p)] \cap Records
    <3>1. digest[Visited(p)] \in Seq(Records)
      BY <1>4, FetchStep DEF TypeAndFinite, IndexTypeOK
    <3>2. ToSet(digest[Visited(p)]) \subseteq Records
      BY <3>1, ElementOfSeq DEF ToSet
    <3> QED
      BY <1>4, <2>1, <3>2, FetchStep DEF StillSaid
  <2> QED
    BY <1>4, <2>1, FetchStep DEF StillSaid, Replaces, past, OthersStay, Visiting, Visited, Brought
<1>5. ASSUME NEW p \in Refresher, Ingest(p) PROVE StillSaid' /\ Replaces'
  BY <1>5, IngestStep DEF StillSaid, Replaces, past, OthersStay, Visiting, Visited, Brought
<1>6. ASSUME NEW p \in Refresher, UpdateFeedDigest(p) PROVE StillSaid' /\ Replaces'
  <2>1. Visiting(p) /\ at[p] = "ingested" /\ ~ Visiting(p)'
    BY <1>6, DigestStep DEF Visiting, UpdateFeedDigest
  <2>2. StillSaid'
    BY <1>6, <2>1, DigestStep DEF StillSaid, past, OthersStay, Visiting, Visited, Brought
  <2>3. Replaces'
    BY <1>0, <1>6, <2>1, DigestStep DEF Replaces, past, OthersStay, Visiting
  <2> QED
    BY <2>2, <2>3
<1> QED
  BY <1>1, <1>2, <1>3, <1>4, <1>5, <1>6, StepKinds

-----------------------------------------------------------------------------
Quietly == TypeAndFinite /\ Known /\ Alone /\ StillSaid /\ Replaces /\ Named

LEMMA NamedInit == ASSUME IndexInit PROVE Named
<1>1. \A s \in Source : RecordsOf(s) = {} /\ ToSet(digest[s]) = {}
  BY DEF IndexInit, RecordsOf, ToSet
<1>2. \A p \in Refresher : at[p] # "ingested"
  BY DEF IndexInit
<1> QED
  BY <1>1, <1>2 DEF Named

LEMMA NamedStep == ASSUME Quietly, [IndexNext]_indexVars PROVE Named'
<1>0. TypeAndFinite
  BY DEF Quietly
<1>1. CASE UNCHANGED indexVars
  <2>1. Named
    BY DEF Quietly
  <2> QED
    BY <1>1, <2>1 DEF Named, Calm, RecordsOf, Visited, Brought, indexVars, refresh, past
<1>2. ASSUME NEW s \in Source, NEW chunks \in Answers(s), Publish(s, chunks) PROVE Named'
  <2>1. Calm' => Calm
    BY <1>2 DEF Publish, Calm, OneRowPerKey
  <2>2. UNCHANGED <<table, digest, at, todo, batch>>
    BY <1>2 DEF Publish, refresh
  <2> QED
    BY <2>1, <2>2 DEF Quietly, Named, RecordsOf, Visited, Brought
<1>3. ASSUME NEW p \in Refresher, Idle(p) PROVE Named'
  <2> SUFFICES ASSUME Calm' PROVE Named'
    BY DEF Named
  <2>1. Calm /\ at[p] # "ingested" /\ at'[p] # "ingested"
    BY <1>3 DEF Idle, Calm, past
  <2>2. UNCHANGED <<table, digest>>
    BY <1>3 DEF Idle
  <2>3. \A q \in Refresher : (at[q] = "ingested" <=> at'[q] = "ingested")
    BY <1>3, <2>1 DEF Idle, OthersStay
  <2>4. \A q \in Refresher : at[q] = "ingested" =>
           Visited(q)' = Visited(q) /\ Brought(q)' = Brought(q)
    BY <1>3, <2>1 DEF Idle, OthersStay, Visited, Brought
  <2> QED
    BY <2>1, <2>2, <2>3, <2>4 DEF Quietly, Named, RecordsOf
<1>4. ASSUME NEW p \in Refresher, NEW c, Fetch(p, c) PROVE Named'
  <2>1. Calm' => Calm
    BY <1>0, <1>4, FetchStep DEF Calm, past
  <2>2. UNCHANGED <<table, digest>> /\ at[p] # "ingested" /\ at'[p] # "ingested"
    BY <1>0, <1>4, FetchStep
  <2>3. \A q \in Refresher : (at[q] = "ingested" <=> at'[q] = "ingested")
    BY <1>0, <1>4, <2>2, FetchStep DEF OthersStay
  <2>4. \A q \in Refresher : at[q] = "ingested" =>
           Visited(q)' = Visited(q) /\ Brought(q)' = Brought(q)
    BY <1>0, <1>4, <2>2, FetchStep DEF OthersStay, Visited, Brought
  <2> QED
    BY <2>1, <2>2, <2>3, <2>4 DEF Quietly, Named, RecordsOf
<1>5. ASSUME NEW p \in Refresher, Ingest(p) PROVE Named'
  <2> SUFFICES ASSUME Calm' PROVE Named'
    BY DEF Named
  <2> DEFINE s == Visited(p)
  <2>1. Calm /\ published' = published /\ OneRowPerKey(published)
    BY <1>0, <1>5, IngestStep DEF Calm, past
  <2>2. /\ s \in Source /\ digest' = digest /\ Visiting(p)
        /\ Visited(p)' = s /\ Brought(p)' = Brought(p) /\ at'[p] = "ingested"
    BY <1>0, <1>5, IngestStep
  <2>3. \A q \in Refresher \ {p} : at[q] # "ingested" /\ at'[q] # "ingested"
    BY <1>0, <1>5, <2>1, IngestStep DEF Quietly, Alone, Calm, Refreshing, OthersStay
  <2>4. at[p] # "ingested"
    BY <1>0, <1>5, IngestStep
  <2>5. \A t \in Source : RecordsOf(t) = ToSet(digest[t])
    BY <2>1, <2>3, <2>4 DEF Quietly, Named
  <2>6. /\ table \subseteq table' /\ KeysIn(s, Brought(p), table')
        /\ \A row \in table' \ table : row.source = s /\ row.record \in Brought(p)
    BY <1>0, <1>5, TypeOfIngest
  <2>7. Known' /\ Known
    BY <1>0, KnownStep DEF Quietly
  <2>8. RecordsOf(s)' = Brought(p)
    <3>1. ASSUME NEW r \in Brought(p) PROVE r \in RecordsOf(s)'
      <4> DEFINE mine == [source |-> s, record |-> r]
      <4>1. r \in Records /\ mine \in published
        BY <2>2, <2>7 DEF Known, Rows, Brought, Records
      <4>2. PICK row \in table' : UniqueKey(row) = UniqueKey(mine)
        BY <2>6 DEF KeysIn
      <4>3. row \in published
        BY <2>1, <2>7 DEF Known
      <4>4. row = mine
        BY <2>1, <4>1, <4>2, <4>3 DEF OneRowPerKey
      <4>5. mine.source = s /\ mine.record = r
        OBVIOUS
      <4> HIDE DEF mine, s
      <4>6. mine \in table' /\ mine.source = s /\ mine.record = r
        BY <4>4, <4>5
      <4> QED
        BY <2>2, <4>6 DEF RecordsOf, s
    <3>2. ASSUME NEW row \in table', row.source = s PROVE row.record \in Brought(p)
      <4>1. CASE row \in table
        <5>1. row.record \in RecordsOf(s)
          BY <3>2, <4>1 DEF RecordsOf
        <5>2. ToSet(digest[s]) \subseteq Brought(p)
          BY <2>1, <2>2 DEF Quietly, Replaces, Calm
        <5> QED
          BY <2>2, <2>5, <5>1, <5>2
      <4> QED
        BY <2>6, <3>2, <4>1
    <3> QED
      BY <2>2, <3>1, <3>2 DEF RecordsOf
  <2>9. ASSUME NEW t \in Source \ {s} PROVE RecordsOf(t)' = RecordsOf(t)
    BY <2>6 DEF RecordsOf
  <2> HIDE DEF s
  <2> QED
    BY <2>2, <2>3, <2>5, <2>8, <2>9 DEF Named, s
<1>6. ASSUME NEW p \in Refresher, UpdateFeedDigest(p) PROVE Named'
  <2> SUFFICES ASSUME Calm' PROVE Named'
    BY DEF Named
  <2> DEFINE s == Visited(p)
  <2>1. /\ Visiting(p) /\ s \in Source /\ at[p] = "ingested" /\ at'[p] = "fetch"
        /\ ToSet(digest'[s]) = Brought(p) /\ \A t \in Source \ {s} : digest'[t] = digest[t]
        /\ table' = table /\ OthersStay(p)
    BY <1>0, <1>6, DigestStep DEF UpdateFeedDigest
  <2>2. Calm
    BY <1>0, <1>6, DigestStep DEF Calm, past
  <2>3. \A q \in Refresher \ {p} : at[q] # "ingested" /\ at'[q] # "ingested"
    BY <2>1, <2>2 DEF Quietly, Alone, Calm, Refreshing, OthersStay
  <2>4. RecordsOf(s) = Brought(p) /\ \A t \in Source \ {s} : RecordsOf(t) = ToSet(digest[t])
    BY <2>1, <2>2, <2>3 DEF Quietly, Named
  <2>5. \A t \in Source : RecordsOf(t)' = RecordsOf(t)
    BY <2>1 DEF RecordsOf
  <2> HIDE DEF s
  <2> QED
    BY <2>1, <2>3, <2>4, <2>5 DEF Named
<1> QED
  BY <1>0, <1>1, <1>2, <1>3, <1>4, <1>5, <1>6, StepKinds

LEMMA QuietlyStep == ASSUME Quietly, [IndexNext]_indexVars PROVE Quietly'
  BY IndexTypeStep, KnownStep, AloneStep, SaidStep, NamedStep DEF Quietly

(* While refreshes neither overlap nor die between the rows of a feed and  *)
(* its digest, feeds withdraw nothing and every key was one row's only,    *)
(* the digests name the table: what keeps a bundle keyed by them fresh.    *)
THEOREM DigestsNameTheTable == IndexSpec => []DigestNamesTable
<1>1. IndexInit => Quietly
  BY IndexTypeInit, KnownInit, SaidInit, NamedInit DEF Quietly
<1>2. Quietly /\ [IndexNext]_indexVars => Quietly'
  BY QuietlyStep
<1>3. Quietly => DigestNamesTable
  <2>1. Quiet => Calm
    BY DEF Quiet, Calm, OneRowPerKey
  <2> QED
    BY <2>1 DEF Quietly, Named, DigestNamesTable, Quiet, RecordsOf
<1> QED
  BY <1>1, <1>2, <1>3, PTL DEF IndexSpec

-----------------------------------------------------------------------------
LEMMA CountedInit == ASSUME IndexInit PROVE Counted /\ ExitTells
  BY DEF IndexInit, Counted, ExitTells

Tells(p) ==
    /\ code[p] = 5 => stored[p] = {} /\ inserted[p] = 0
    /\ code[p] = 4 => inserted[p] > 0 /\ errors[p] > 0
    /\ code[p] = 0 => stored[p] # {}
    /\ code[p] = 7 => stored[p] = {} /\ batch[p] = <<>>
    /\ code[p] = -1 => at[p] # "done"

LEMMA TellsIs ==
    IndexTypeOK => (ExitTells <=> \A p \in Refresher : Tells(p))
<1> SUFFICES ASSUME IndexTypeOK PROVE ExitTells <=> \A p \in Refresher : Tells(p)
  OBVIOUS
<1>1. \A p \in Refresher : code[p] \in {-1, 0, 4, 5, 7}
  BY DEF IndexTypeOK
<1> QED
  BY <1>1 DEF ExitTells, Tells

LEMMA ExitTellsStep ==
    ASSUME TypeAndFinite, Counted, ExitTells, [IndexNext]_indexVars
    PROVE  Counted' /\ ExitTells'
<1> DEFINE Told(p) == /\ at[p] = "new" => stored[p] = {} /\ batch[p] = <<>> /\ inserted[p] = 0
                      /\ inserted[p] > 0 /\ stored[p] = {} => at[p] \in {"ingested", "done", "dead"}
                      /\ at[p] # "done" <=> code[p] = -1
                      /\ Tells(p)
<1>1. \A p \in Refresher : Told(p)
  BY TellsIs DEF Counted, TypeAndFinite
<1>2. SUFFICES \A p \in Refresher : Told(p)'
  <2>1. IndexTypeOK'
    BY IndexTypeStep DEF TypeAndFinite
  <2>2. (\A p \in Refresher : Tells(p))' => ExitTells'
    BY <2>1, TellsIs, PTL
  <2> QED
    BY <1>2, <2>2 DEF Counted
<1> USE DEF Tells
<1>3. CASE UNCHANGED indexVars
  BY <1>1, <1>3 DEF indexVars, refresh, totals
<1>4. CASE \E s \in Source : \E chunks \in Answers(s) : Publish(s, chunks)
  BY <1>1, <1>4 DEF Publish, refresh, totals
<1>5. ASSUME NEW p \in Refresher,
             \/ \E srcs \in {Sources} \cup {<<s>> : s \in Source} : Start(p, srcs)
             \/ Step(p) \/ Killed(p)
      PROVE  \A q \in Refresher \ {p} : Told(q)'
  <2>1. \A q \in Refresher \ {p} :
           /\ at'[q] = at[q] /\ stored'[q] = stored[q] /\ batch'[q] = batch[q]
           /\ inserted'[q] = inserted[q] /\ errors'[q] = errors[q] /\ code'[q] = code[q]
    BY <1>5 DEF Start, Killed, Step, BeginMigration, EndMigration, Fetch, FetchFails, Ingest,
                UpdateFeedDigest, Finish, End, totals, TypeAndFinite, IndexTypeOK
  <2> QED
    BY <1>1, <2>1
<1>6. ASSUME NEW p \in Refresher,
             \/ \E srcs \in {Sources} \cup {<<s>> : s \in Source} : Start(p, srcs)
             \/ Step(p) \/ Killed(p)
      PROVE  Told(p)'
  <2>0. Told(p)
    BY <1>1
  <2>1. ASSUME NEW srcs, Start(p, srcs) PROVE Told(p)'
    BY <2>0, <2>1 DEF Start, End, totals, TypeAndFinite, IndexTypeOK
  <2>2. CASE BeginMigration(p)
    BY <2>0, <2>2 DEF BeginMigration, totals, TypeAndFinite, IndexTypeOK
  <2>3. CASE EndMigration(p)
    BY <2>0, <2>3 DEF EndMigration, totals, TypeAndFinite, IndexTypeOK
  <2>4. CASE \E c : Fetch(p, c)
    BY <2>0, <2>4 DEF Fetch, totals, TypeAndFinite, IndexTypeOK
  <2>5. CASE FetchFails(p)
    BY <2>0, <2>5 DEF FetchFails, totals, TypeAndFinite, IndexTypeOK
  <2>6. CASE Ingest(p)
    <3>1. at[p] = "fetched" /\ at'[p] = "ingested" /\ code'[p] = code[p]
      BY <2>6 DEF Ingest, TypeAndFinite, IndexTypeOK
    <3>2. code'[p] = -1
      BY <2>0, <3>1
    <3> QED
      BY <3>1, <3>2
  <2>7. CASE UpdateFeedDigest(p)
    <3>1. /\ at[p] = "ingested" /\ at'[p] = "fetch" /\ code'[p] = code[p]
          /\ stored'[p] = stored[p] \cup {Head(todo[p])}
      BY <2>7 DEF UpdateFeedDigest, TypeAndFinite, IndexTypeOK
    <3>2. code'[p] = -1 /\ stored'[p] # {}
      BY <2>0, <3>1
    <3> QED
      BY <3>1, <3>2
  <2>8. CASE Finish(p)
    <3>1. /\ at[p] = "fetch" /\ at'[p] = "done" /\ code'[p] = ExitCode(p)
          /\ UNCHANGED <<stored, inserted, errors>>
      BY <2>8 DEF Finish, End, totals, TypeAndFinite, IndexTypeOK
    <3>2. /\ inserted[p] \in Nat /\ errors[p] \in Nat /\ failures[p] \in Nat
          /\ stored[p] \in SUBSET Source
      BY DEF TypeAndFinite, IndexTypeOK
    <3>3. /\ IsFiniteSet(stored[p]) /\ Cardinality(stored[p]) \in Nat
          /\ (Cardinality(stored[p]) = 0 <=> stored[p] = {})
      BY <3>2, SourcesAre, FS_Subset, FS_CardinalityType, FS_EmptySet
    <3>4. CASE failures[p] = failures[p] + Cardinality(stored[p])
      BY <2>0, <3>1, <3>2, <3>3, <3>4 DEF ExitCode
    <3>5. CASE /\ ~ (failures[p] = failures[p] + Cardinality(stored[p]))
               /\ errors[p] > 0 /\ inserted[p] > 0
      <4>1. ExitCode(p) = 4
        BY <3>5 DEF ExitCode
      <4> QED
        BY <3>1, <3>5, <4>1
    <3>6. CASE /\ ~ (failures[p] = failures[p] + Cardinality(stored[p]))
               /\ ~ (errors[p] > 0 /\ inserted[p] > 0)
      <4>1. ExitCode(p) = 0
        BY <3>6 DEF ExitCode
      <4>2. stored[p] # {}
        BY <3>2, <3>3, <3>6
      <4> QED
        BY <3>1, <4>1, <4>2
    <3> QED
      BY <3>4, <3>5, <3>6
  <2>9. CASE Killed(p)
    BY <2>0, <2>9 DEF Killed, Refreshing, totals, TypeAndFinite, IndexTypeOK
  <2> QED
    BY <1>6, <2>1, <2>2, <2>3, <2>4, <2>5, <2>6, <2>7, <2>8, <2>9 DEF Step
<1> HIDE DEF Told
<1> QED
  BY <1>3, <1>4, <1>5, <1>6 DEF IndexNext

(* The exit code tells what the refresh did: 5 that it stored nothing, 4   *)
(* that it added rows and left records out, 7 that it did not begin.       *)
THEOREM ExitCodesTell == IndexSpec => []ExitTells
<1>1. IndexInit => Counted /\ ExitTells
  BY CountedInit
<1>2. TypeAndFinite /\ Counted /\ ExitTells /\ [IndexNext]_indexVars => Counted' /\ ExitTells'
  BY ExitTellsStep
<1> QED
  BY <1>1, <1>2, IndexAlwaysTyped, PTL DEF IndexSpec
=============================================================================
