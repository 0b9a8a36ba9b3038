---------------------------- MODULE GatherProofs ----------------------------
(* What TLAPS proves of Gather, for any probes, contents and bounds, and   *)
(* of ProbeRun, for any probes it dispatched and any number of tools.      *)
EXTENDS Gather, ProbeRun, TLAPS

(* A dispatch has a key once it missed, and a pin once it runs.            *)
Keyed ==
    \A p \in Probe : /\ pc[p] \in {"pinning", "running"} => key[p] \in Content
                     /\ pc[p] = "running" => pin[p] \in Content

TypeInv == TypeOK /\ Keyed

LEMMA TypeInvHolds == Spec => []TypeInv
<1>1. Init => TypeInv
  <2> SUFFICES ASSUME Init PROVE TypeInv
    OBVIOUS
  <2>1. 0 \in 0 .. MaxEdits /\ 0 \in 0 .. MaxGathers
    BY LimitsAssumption
  <2>2. TypeOK
    BY <2>1 DEF Init, TypeOK, Maybe, Execution, Active
  <2>3. Keyed
    BY DEF Init, Keyed
  <2> QED
    BY <2>2, <2>3 DEF TypeInv
<1>2. TypeInv /\ [Next]_vars => TypeInv'
  <2> SUFFICES ASSUME TypeInv, [Next]_vars PROVE TypeInv'
    OBVIOUS
  <2> USE LimitsAssumption DEF TypeInv, Keyed, TypeOK, Maybe, Execution, Active
  <2>1. CASE UNCHANGED vars
    BY <2>1 DEF vars, local
  <2>2. CASE Begin
    <3>1. gathers' \in 0 .. MaxGathers
      BY <2>2 DEF Begin
    <3>2. TypeOK'
      BY <2>2, <3>1 DEF Begin
    <3>3. Keyed'
      BY <2>2 DEF Begin
    <3> QED
      BY <3>2, <3>3
  <2>3. CASE EndPrelude
    BY <2>3 DEF EndPrelude, local, Done, Launch, MergedCounts
  <2>4. CASE Return
    BY <2>4 DEF Return, local, Done
  <2>5. ASSUME NEW i \in 1 .. Len(RunsLast), NextOfTail(i) PROVE TypeInv'
    BY <2>5 DEF NextOfTail, local, Done, Launch
  <2>6. ASSUME NEW p \in Probe, Skip(p) PROVE TypeInv'
    BY <2>6 DEF Skip, local, Admitted, Applies
  <2>7. ASSUME NEW p \in Probe, Hit(p) PROVE TypeInv'
    BY <2>7 DEF Hit, local, Admitted, Applies, Lookup
  <2>8. ASSUME NEW p \in Probe, Miss(p) PROVE TypeInv'
    BY <2>8 DEF Miss, local, Admitted, Applies, Lookup
  <2>9. ASSUME NEW p \in Probe, Pin(p) PROVE TypeInv'
    BY <2>9 DEF Pin, local
  <2>10. ASSUME NEW p \in Probe, Read(p) PROVE TypeInv'
    BY <2>10 DEF Read, local, Running, ReadThroughMemo, ReadDirectly
  <2>11. ASSUME NEW p \in Probe, EndClean(p) PROVE TypeInv'
    BY <2>11 DEF EndClean, local, Running
  <2>12. ASSUME NEW p \in Probe, EndWithErrors(p) PROVE TypeInv'
    BY <2>12 DEF EndWithErrors, local, Running
  <2>13. ASSUME NEW p \in Probe, Expire(p) PROVE TypeInv'
    BY <2>13 DEF Expire, local
  <2>14. CASE Crash
    BY <2>14 DEF Crash, local
  <2>15. CASE Edit
    BY <2>15 DEF Edit, local
  <2> QED
    BY <2>1, <2>2, <2>3, <2>4, <2>5, <2>6, <2>7,
       <2>8, <2>9, <2>10, <2>11, <2>12, <2>13, <2>14, <2>15
       DEF Next, Wave, Dispatch
<1> QED
  BY <1>1, <1>2, PTL DEF Spec

(* The coordinator's tables keep their types.                              *)
THEOREM TypeCorrect == Spec => []TypeOK
<1>1. TypeInv => TypeOK
  BY DEF TypeInv
<1> QED
  BY <1>1, TypeInvHolds, PTL

-----------------------------------------------------------------------------
(* The waves follow one another: a probe has an execution exactly when its *)
(* dispatch is done, what the current wave does not include is absent, and *)
(* whatever got past the filter applies.                                   *)
WaveInv ==
    /\ SiblingsFirst
    /\ \A p \in Probe : execution[p] # "none" <=> pc[p] = "done"
    /\ phase = "prelude" =>
          /\ languages = FALSE
          /\ \A p \in Probe \ Prelude : pc[p] = "absent"
    /\ phase \in {"rest", "tail", "idle"} /\ gathers > 0 => Done(Prelude)
    /\ phase = "idle" /\ gathers > 0 => Done(Probe)
    /\ phase # "idle" => gathers > 0
    /\ phase \in Active \cup {"idle"} =>
          \A p \in Probe :
             /\ pc[p] = "done" => (execution[p] = "Skipped" <=>
                                     p \in Filtered /\ (p \in Prelude \/ ~ languages))
             /\ pc[p] \in {"pinning", "running"} => Applies(p)

(* The types that the waves depend on.                                     *)
WaveTypes ==
    /\ phase \in Active \cup {"idle", "aborted"}
    /\ pc \in [Probe -> {"absent", "queued", "pinning", "running", "done"}]
    /\ languages \in BOOLEAN
    /\ gathers \in Nat
    /\ execution \in [Probe -> Execution]

(* A dispatch moves on by itself: it changes its own place and its own     *)
(* execution, and reaches the end with the execution that the filter says. *)
LEMMA DispatchKeepsWaves ==
    ASSUME WaveTypes, WaveInv, phase \in Active, NEW p \in Probe,
           pc[p] \in {"queued", "pinning", "running"},
           NEW at \in {"pinning", "running", "done"}, NEW e \in Execution,
           pc' = [pc EXCEPT ![p] = at],
           execution' = [execution EXCEPT ![p] = e],
           e # "none" <=> at = "done",
           e = "Skipped" <=> ~ Applies(p),
           UNCHANGED <<phase, gathers, languages>>
    PROVE  WaveInv'
<1> DEFINE Exempt(q) == q \in Filtered /\ (q \in Prelude \/ ~ languages)
<1>1. /\ \A q \in Probe : q # p => pc'[q] = pc[q] /\ execution'[q] = execution[q]
      /\ pc'[p] = at /\ execution'[p] = e
      /\ pc[p] # "absent" /\ pc[p] # "done" /\ at # "absent"
  BY DEF WaveTypes
<1>2. \A q \in Probe : pc[q] = "done" => pc'[q] = "done"
  BY <1>1
<1>3. \A q \in Probe : pc'[q] # "absent" => pc[q] # "absent"
  BY <1>1
<1>4. \A S \in SUBSET Probe : Done(S) => Done(S)'
  BY <1>2 DEF Done
<1>5. SiblingsFirst'
  <2> SUFFICES ASSUME NEW i \in 1 .. Len(RunsLast), pc'[RunsLast[i]] # "absent"
               PROVE  /\ Done(Prelude \cup Rest)'
                      /\ \A j \in 1 .. i - 1 : pc'[RunsLast[j]] = "done"
    BY DEF SiblingsFirst
  <2>0. \A j \in 1 .. Len(RunsLast) : RunsLast[j] \in Probe
    BY DEF Probe, LastProbes
  <2>1. pc[RunsLast[i]] # "absent"
    BY <1>3, <2>0
  <2>2. /\ Done(Prelude \cup Rest)
        /\ \A j \in 1 .. i - 1 : pc[RunsLast[j]] = "done"
    BY <2>1 DEF WaveInv, SiblingsFirst
  <2>3. i \in Nat /\ Len(RunsLast) \in Nat
    BY ProbesAssumption
  <2>4. \A j \in 1 .. i - 1 : RunsLast[j] \in Probe
    BY <2>0, <2>3
  <2>5. (Prelude \cup Rest) \in SUBSET Probe
    BY DEF Probe
  <2> QED
    BY <1>2, <1>4, <2>2, <2>4, <2>5
<1>6. \A q \in Probe : execution'[q] # "none" <=> pc'[q] = "done"
  BY <1>1 DEF WaveInv
<1>7. phase' = "prelude" => \A q \in Probe \ Prelude : pc'[q] = "absent"
  BY <1>1, <1>3 DEF WaveInv
<1>8. phase' \in {"rest", "tail", "idle"} => Done(Prelude)'
  BY <1>4 DEF WaveInv, Active, Probe
<1>9. Exempt(p) <=> ~ Applies(p)
  <2>1. CASE phase = "prelude"
    BY <2>1 DEF WaveInv, Applies
  <2>2. CASE phase # "prelude"
    BY <2>2, <1>1 DEF WaveInv, Applies, Active, Done
  <2> QED
    BY <2>1, <2>2
<1>10. \A q \in Probe :
          /\ pc'[q] = "done" => (execution'[q] = "Skipped" <=> Exempt(q))
          /\ pc'[q] \in {"pinning", "running"} => Applies(q)
  <2>1. \A q \in Probe :
          /\ pc[q] = "done" => (execution[q] = "Skipped" <=> Exempt(q))
          /\ pc[q] \in {"pinning", "running"} => Applies(q)
    BY DEF WaveInv
  <2> QED
    BY <1>1, <1>9, <2>1
<1> QED
  BY <1>5, <1>6, <1>7, <1>8, <1>10 DEF WaveInv, Active, Applies

LEMMA WaveInvHolds == Spec => []WaveInv
<1>1. Init => WaveInv
  BY ProbesAssumption
     DEF Init, WaveInv, SiblingsFirst, Probe, LastProbes, Active
<1>2. TypeInv => WaveTypes
  BY LimitsAssumption DEF TypeInv, TypeOK, WaveTypes
<1>3. WaveTypes /\ WaveInv /\ [Next]_vars => WaveInv'
  <2> SUFFICES ASSUME WaveTypes, WaveInv, [Next]_vars PROVE WaveInv'
    OBVIOUS
  <2>a. \A p \in Probe : execution[p] # "none" <=> pc[p] = "done"
    BY DEF WaveInv
  <2>b. /\ pc = [q \in Probe |-> pc[q]]
        /\ execution = [q \in Probe |-> execution[q]]
    BY DEF WaveTypes
  <2>c. \A p \in Probe : execution[p] = "none" =>
            execution = [execution EXCEPT ![p] = "none"]
    BY <2>b
  <2>e. \A l \in 1 .. Len(RunsLast) : pc[RunsLast[l]] # "absent" =>
            \A j \in 1 .. l - 1 : pc[RunsLast[j]] = "done"
    BY DEF WaveInv, SiblingsFirst
  <2>f. ASSUME NEW i \in 1 .. Len(RunsLast), NextOfTail(i) PROVE SiblingsFirst'
    <3> SUFFICES ASSUME NEW l \in 1 .. Len(RunsLast), pc'[RunsLast[l]] # "absent"
                 PROVE  /\ Done(Prelude \cup Rest)'
                        /\ \A j \in 1 .. l - 1 : pc'[RunsLast[j]] = "done"
      BY DEF SiblingsFirst
    <3>1. \A k \in 1 .. Len(RunsLast) : RunsLast[k] \in Probe
      BY DEF Probe, LastProbes
    <3>2. /\ \A p \in Probe : p # RunsLast[i] => pc'[p] = pc[p]
          /\ pc[RunsLast[i]] = "absent"
          /\ \A j \in 1 .. i - 1 : pc[RunsLast[j]] = "done"
          /\ Done(Prelude \cup Rest)
      BY <2>f DEF NextOfTail, Launch, WaveInv, Active, Done
    <3>3. \A p \in Probe : pc[p] = "done" => pc'[p] = "done"
      BY <3>2
    <3>4. Done(Prelude \cup Rest)'
      BY <3>2, <3>3 DEF Done, Probe
    <3>5. \A j \in 1 .. l - 1 : pc[RunsLast[j]] = "done"
      <4>1. CASE l = i
        BY <3>2, <4>1
      <4>2. CASE l # i
        <5>1. RunsLast[l] # RunsLast[i]
          BY <4>2, ProbesAssumption
        <5>2. pc[RunsLast[l]] # "absent"
          BY <3>1, <3>2, <5>1
        <5> QED
          BY <5>2, <2>e
      <4> QED
        BY <4>1, <4>2
    <3>6. \A j \in 1 .. l - 1 : j \in 1 .. Len(RunsLast)
      BY ProbesAssumption
    <3> QED
      BY <3>1, <3>3, <3>4, <3>5, <3>6
  <2>6. ASSUME NEW p \in Probe, Skip(p) PROVE WaveInv'
    BY <2>6, DispatchKeepsWaves DEF Skip, Admitted, Execution
  <2>7. ASSUME NEW p \in Probe, Hit(p) PROVE WaveInv'
    BY <2>7, DispatchKeepsWaves DEF Hit, Admitted, Execution
  <2>8. ASSUME NEW p \in Probe, Miss(p) PROVE WaveInv'
    BY <2>8, <2>a, <2>c, DispatchKeepsWaves DEF Miss, Admitted, Execution
  <2>d. ASSUME NEW p \in Probe, phase \in Active, pc[p] \in {"pinning", "running"}
        PROVE  Applies(p)
    BY <2>d DEF WaveInv
  <2>9. ASSUME NEW p \in Probe, Pin(p) PROVE WaveInv'
    BY <2>9, <2>a, <2>c, <2>d, DispatchKeepsWaves DEF Pin, Execution
  <2>11. ASSUME NEW p \in Probe, EndClean(p) PROVE WaveInv'
    BY <2>11, <2>d, DispatchKeepsWaves DEF EndClean, Running, Execution
  <2>12. ASSUME NEW p \in Probe, EndWithErrors(p) PROVE WaveInv'
    BY <2>12, <2>d, DispatchKeepsWaves DEF EndWithErrors, Running, Execution
  <2> USE ProbesAssumption
      DEF WaveTypes, Active, WaveInv, SiblingsFirst, Done, Probe, LastProbes,
          Execution, Applies
  <2>2. CASE Begin
    BY <2>2 DEF Begin
  <2>3. CASE EndPrelude
    BY <2>3 DEF EndPrelude, Launch
  <2>4. CASE Return
    BY <2>4 DEF Return
  <2>5. ASSUME NEW i \in 1 .. Len(RunsLast), NextOfTail(i) PROVE WaveInv'
    <3>1. /\ phase \in {"rest", "tail"} /\ phase' = "tail"
          /\ \A p \in Probe : p # RunsLast[i] => pc'[p] = pc[p]
          /\ RunsLast[i] \in Probe /\ pc[RunsLast[i]] = "absent"
          /\ pc'[RunsLast[i]] = "queued"
          /\ \A j \in 1 .. i - 1 : pc[RunsLast[j]] = "done"
          /\ \A p \in Prelude \cup Rest : pc[p] = "done"
          /\ UNCHANGED <<gathers, languages, execution>>
      BY <2>5 DEF NextOfTail, Launch
    <3>0. Prelude \subseteq Probe
      OBVIOUS
    <3> HIDE DEF Probe, LastProbes, WaveTypes, SiblingsFirst, Execution
    <3>2. /\ \A p \in Probe : execution'[p] # "none" <=> pc'[p] = "done"
          /\ \A p \in Probe : pc[p] = "done" => pc'[p] = "done"
          /\ gathers > 0
      BY <3>1
    <3>3. Done(Prelude)'
      BY <3>0, <3>1, <3>2
    <3>4. \A p \in Probe :
             /\ pc'[p] = "done" => (execution'[p] = "Skipped" <=>
                                      p \in Filtered /\ (p \in Prelude \/ ~ languages'))
             /\ pc'[p] \in {"pinning", "running"} => Applies(p)'
      BY <3>1
    <3> QED
      BY <2>f, <2>5, <3>1, <3>2, <3>3, <3>4
  <2>10. ASSUME NEW p \in Probe, Read(p) PROVE WaveInv'
    BY <2>10 DEF Read
  <2>13. ASSUME UNCHANGED <<phase, pc, gathers, languages, execution>>
         PROVE  WaveInv'
    BY <2>13
  <2>14. CASE Crash
    BY <2>14 DEF Crash
  <2> QED
    BY <2>2, <2>3, <2>4, <2>5, <2>6, <2>7, <2>8, <2>9, <2>10, <2>11, <2>12,
       <2>13, <2>14
       DEF Next, Wave, Dispatch, Expire, Edit, vars
<1> QED
  BY <1>1, <1>2, <1>3, TypeInvHolds, PTL DEF Spec

(* A runs_last probe is launched only when every other probe and its       *)
(* predecessors in the registry have ended.                                *)
THEOREM TailSeesSiblings == Spec => []SiblingsFirst
<1>1. WaveInv => SiblingsFirst
  BY DEF WaveInv
<1> QED
  BY <1>1, WaveInvHolds, PTL

(* A gather that returned has one execution per probe, and the skipped     *)
(* ones are those whose languages were not detected.                       *)
THEOREM EveryProbeAccounted == Spec => []GatherAccounts
<1>1. WaveInv => GatherAccounts
  BY DEF WaveInv, GatherAccounts, Done
<1> QED
  BY <1>1, WaveInvHolds, PTL

-----------------------------------------------------------------------------
(* Without edits under way, everything that a gather reads is the one      *)
(* content of the repository, and an entry of the cache holds what its key *)
(* says.                                                                   *)
ContentInv ==
    /\ OutputsMatchKey
    /\ ~ stained => \A p \in Probe, c \in Content : cache[p][c] \in {Nothing, c}
    /\ phase \in Active /\ ~ stained =>
          /\ \A c \in Content : memo[c] \in {Nothing, repo}
          /\ \A p \in Probe :
                /\ made[p] \in {Nothing, repo}
                /\ pc[p] \in {"pinning", "running"} => key[p] = repo
                /\ pc[p] = "running" => pin[p] = repo

(* As long as the repository is only edited between gathers, every output  *)
(* was made from the content its key names.                                *)
THEOREM OutputsTrueToKey == Spec => []OutputsMatchKey
<1>1. Init => ContentInv
  BY DEF Init, ContentInv, OutputsMatchKey, Active
<1>2. TypeInv /\ WaveInv /\ ContentInv /\ [Next]_vars => ContentInv'
  <2> SUFFICES ASSUME TypeInv, WaveInv, ContentInv, [Next]_vars PROVE ContentInv'
    OBVIOUS
  <2> USE ContentAssumption
      DEF TypeInv, Keyed, TypeOK, Active, ContentInv, OutputsMatchKey, Maybe, Execution
  <2>1. CASE UNCHANGED vars
    BY <2>1 DEF vars, local
  <2>2. CASE Begin
    BY <2>2 DEF Begin, local
  <2>3. CASE EndPrelude
    BY <2>3 DEF EndPrelude, local, Done, Launch, MergedCounts
  <2>4. CASE Return
    BY <2>4 DEF Return, local, Done
  <2>5. ASSUME NEW i \in 1 .. Len(RunsLast), NextOfTail(i) PROVE ContentInv'
    BY <2>5 DEF NextOfTail, local, Done, Launch
  <2>6. ASSUME NEW p \in Probe, Skip(p) PROVE ContentInv'
    BY <2>6 DEF Skip, local, Admitted, Applies
  <2>7. ASSUME NEW p \in Probe, Hit(p) PROVE ContentInv'
    BY <2>7 DEF Hit, local, Admitted, Applies, Lookup
  <2>8. ASSUME NEW p \in Probe, Miss(p) PROVE ContentInv'
    <3>1. /\ \A q \in Probe : q # p => pc'[q] = pc[q] /\ key'[q] = key[q]
          /\ pc'[p] = "pinning" /\ key'[p] = repo /\ pc[p] = "queued"
          /\ UNCHANGED <<phase, repo, stained, cache, memo, pin, made, execution>>
      BY <2>8 DEF Miss, Admitted
    <3>2. execution[p] \notin {"CacheHit", "Ran"}
      BY <2>8 DEF Miss, Admitted, WaveInv
    <3> QED
      BY <3>1, <3>2
  <2>9. ASSUME NEW p \in Probe, Pin(p) PROVE ContentInv'
    BY <2>9 DEF Pin, local
  <2>10. ASSUME NEW p \in Probe, Read(p) PROVE ContentInv'
    <3>1. CASE stained
      BY <2>10, <3>1 DEF Read
    <3>2. CASE ~ stained
      <4>1. /\ phase \in Active /\ pc[p] = "running" /\ pin[p] = repo
            /\ key[p] = repo /\ made[p] = Nothing
        BY <2>10, <3>2 DEF Read, Running
      <4>2. execution[p] = "none"
        BY <4>1 DEF WaveInv
      <4>3. /\ \A q \in Probe : q # p => made'[q] = made[q]
            /\ made'[p] = repo
            /\ \A c \in Content : memo'[c] \in {Nothing, repo}
            /\ UNCHANGED <<phase, repo, stained, pc, cache, key, pin, execution>>
        <5>1. CASE p \in Memoized
          BY <2>10, <3>2, <4>1, <5>1 DEF Read, ReadThroughMemo
        <5>2. CASE p \notin Memoized
          BY <2>10, <3>2, <4>1, <5>2 DEF Read, ReadDirectly
        <5> QED
          BY <5>1, <5>2
      <4> QED
        BY <3>2, <4>1, <4>2, <4>3
    <3> QED
      BY <3>1, <3>2
  <2>11. ASSUME NEW p \in Probe, EndClean(p) PROVE ContentInv'
    BY <2>11 DEF EndClean, local, Running
  <2>12. ASSUME NEW p \in Probe, EndWithErrors(p) PROVE ContentInv'
    BY <2>12 DEF EndWithErrors, local, Running
  <2>13. ASSUME NEW p \in Probe, Expire(p) PROVE ContentInv'
    BY <2>13 DEF Expire, local
  <2>14. CASE Crash
    BY <2>14 DEF Crash, local
  <2>15. CASE Edit
    BY <2>15 DEF Edit, local
  <2> QED
    BY <2>1, <2>2, <2>3, <2>4, <2>5, <2>6, <2>7,
       <2>8, <2>9, <2>10, <2>11, <2>12, <2>13, <2>14, <2>15
       DEF Next, Wave, Dispatch
<1>3. ContentInv => OutputsMatchKey
  BY DEF ContentInv
<1> QED
  BY <1>1, <1>2, <1>3, TypeInvHolds, WaveInvHolds, PTL DEF Spec
-----------------------------------------------------------------------------
(* What a probe was given through the memo stays in the memo under its     *)
(* pin, for the gather that made it; a dispatch reads only once it pinned. *)
MemoInv ==
    \A p \in Probe :
        /\ pc[p] \in {"absent", "queued", "pinning"} =>
              pin[p] = Nothing /\ made[p] = Nothing
        /\ p \in Memoized /\ pin[p] # Nothing /\ made[p] # Nothing =>
              memo[pin[p]] = made[p]

(* Two probes of one gather that pinned the same hash were given the same  *)
(* parse, whatever was edited meanwhile.                                   *)
THEOREM OneParsePerPin == Spec => []SamePinSameParse
<1>1. Init => MemoInv
  BY DEF Init, MemoInv
<1>2. TypeInv /\ WaveInv /\ MemoInv /\ [Next]_vars => MemoInv'
  <2> SUFFICES ASSUME TypeInv, WaveInv, MemoInv, [Next]_vars PROVE MemoInv'
    OBVIOUS
  <2>a. phase = "prelude" => \A p \in Rest : pc[p] = "absent"
    BY ProbesAssumption DEF WaveInv, Probe
  <2> USE ContentAssumption DEF TypeInv, Keyed, TypeOK, Active, MemoInv, Maybe
  <2>1. CASE UNCHANGED vars
    BY <2>1 DEF vars, local
  <2>2. CASE Begin
    BY <2>2 DEF Begin, local
  <2>3. CASE EndPrelude
    BY <2>3, <2>a DEF EndPrelude, local, Done, Launch, MergedCounts
  <2>4. CASE Return
    BY <2>4 DEF Return, local, Done
  <2>5. ASSUME NEW i \in 1 .. Len(RunsLast), NextOfTail(i) PROVE MemoInv'
    BY <2>5 DEF NextOfTail, local, Done, Launch
  <2>6. ASSUME NEW p \in Probe, Skip(p) PROVE MemoInv'
    BY <2>6 DEF Skip, local, Admitted, Applies
  <2>7. ASSUME NEW p \in Probe, Hit(p) PROVE MemoInv'
    BY <2>7 DEF Hit, local, Admitted, Applies, Lookup
  <2>8. ASSUME NEW p \in Probe, Miss(p) PROVE MemoInv'
    BY <2>8 DEF Miss, local, Admitted, Applies, Lookup
  <2>9. ASSUME NEW p \in Probe, Pin(p) PROVE MemoInv'
    BY <2>9 DEF Pin, local
  <2>10. ASSUME NEW p \in Probe, Read(p) PROVE MemoInv'
    BY <2>10 DEF Read, local, Running, ReadThroughMemo, ReadDirectly
  <2>11. ASSUME NEW p \in Probe, EndClean(p) PROVE MemoInv'
    BY <2>11 DEF EndClean, local, Running
  <2>12. ASSUME NEW p \in Probe, EndWithErrors(p) PROVE MemoInv'
    BY <2>12 DEF EndWithErrors, local, Running
  <2>13. ASSUME NEW p \in Probe, Expire(p) PROVE MemoInv'
    BY <2>13 DEF Expire, local
  <2>14. CASE Crash
    BY <2>14 DEF Crash, local
  <2>15. CASE Edit
    BY <2>15 DEF Edit, local
  <2> QED
    BY <2>1, <2>2, <2>3, <2>4, <2>5, <2>6, <2>7,
       <2>8, <2>9, <2>10, <2>11, <2>12, <2>13, <2>14, <2>15
       DEF Next, Wave, Dispatch
<1>3. MemoInv => SamePinSameParse
  BY ProbesAssumption DEF MemoInv, SamePinSameParse
<1> QED
  BY <1>1, <1>2, <1>3, TypeInvHolds, WaveInvHolds, PTL DEF Spec

-----------------------------------------------------------------------------
(* ProbeRun                                                                *)

(* The process table, the calls and the children keep their types.         *)
THEOREM RunTypeCorrect == RunSpec => []RunTypeOK
<1>1. RunInit => RunTypeOK
  BY MaxSpawnsAssumption DEF RunInit, RunTypeOK
<1>2. RunTypeOK /\ [RunNext]_runVars => RunTypeOK'
  <2> SUFFICES ASSUME RunTypeOK, [RunNext]_runVars PROVE RunTypeOK'
    OBVIOUS
  <2> USE MaxSpawnsAssumption DEF RunTypeOK
  <2>1. CASE UNCHANGED runVars
    BY <2>1 DEF runVars
  <2>2. CASE Finished
    BY <2>2 DEF Finished, runVars
  <2>3. ASSUME NEW p \in Dispatched, Start(p) PROVE RunTypeOK'
    BY <2>3 DEF Start
  <2>4. ASSUME NEW p \in Dispatched, Spawn(p) PROVE RunTypeOK'
    BY <2>4 DEF Spawn
  <2>5. ASSUME NEW p \in Dispatched, Collect(p) PROVE RunTypeOK'
    BY <2>5 DEF Collect, EndCall, CallEnd
  <2>6. ASSUME NEW p \in Dispatched, Finish(p) PROVE RunTypeOK'
    BY <2>6 DEF Finish
  <2>7. ASSUME NEW p \in Dispatched, CallTimeout(p) PROVE RunTypeOK'
    BY <2>7 DEF CallTimeout
  <2>8. ASSUME NEW p \in Dispatched, CallKill(p) PROVE RunTypeOK'
    BY <2>8 DEF CallKill, EndCall, CallEnd
  <2>9. ASSUME NEW p \in Dispatched, Timeout(p) PROVE RunTypeOK'
    BY <2>9 DEF Timeout
  <2>10. ASSUME NEW p \in Dispatched, Sweep(p) PROVE RunTypeOK'
    BY <2>10 DEF Sweep
  <2>11. ASSUME NEW p \in Dispatched, ChildExits(p) PROVE RunTypeOK'
    BY <2>11 DEF ChildExits
  <2> QED
    BY <2>1, <2>2, <2>3, <2>4, <2>5, <2>6, <2>7, <2>8, <2>9, <2>10, <2>11
       DEF RunNext, Run
<1> QED
  BY <1>1, <1>2, PTL DEF RunSpec

(* A child that is not live cannot come back to life but by Spawn, and a   *)
(* call gives the control back only when its child is gone; the table      *)
(* follows the program counters.                                           *)
CallsInv == TableAccurate /\ ReturnedCallsLeaveNoChild

ReadyIsFresh ==
    \A p \in Dispatched : /\ step[p] = "ready" => child[p] = "none"
                          /\ step[p] = "done" <=> outcome[p] # "none"

RunInv == RunTypeOK /\ CallsInv /\ ReadyIsFresh

LEMMA RunInvHolds == RunSpec => []RunInv
<1>1. RunInit => RunInv
  BY MaxSpawnsAssumption
     DEF RunInit, RunInv, RunTypeOK, CallsInv, ReadyIsFresh, TableAccurate,
         ReturnedCallsLeaveNoChild
<1>2. RunTypeOK /\ RunTypeOK' /\ RunInv /\ [RunNext]_runVars => RunInv'
  <2> SUFFICES ASSUME RunTypeOK, RunTypeOK', RunInv, [RunNext]_runVars
               PROVE  CallsInv' /\ ReadyIsFresh'
    BY DEF RunInv
  <2> USE DEF RunInv, CallsInv, ReadyIsFresh, TableAccurate,
              ReturnedCallsLeaveNoChild, RunTypeOK
  <2>1. CASE UNCHANGED runVars
    BY <2>1 DEF runVars
  <2>2. CASE Finished
    BY <2>2 DEF Finished, runVars
  <2>3. ASSUME NEW p \in Dispatched, Start(p) PROVE CallsInv' /\ ReadyIsFresh'
    BY <2>3 DEF Start
  <2>4. ASSUME NEW p \in Dispatched, Spawn(p) PROVE CallsInv' /\ ReadyIsFresh'
    BY <2>4 DEF Spawn
  <2>5. ASSUME NEW p \in Dispatched, Collect(p) PROVE CallsInv' /\ ReadyIsFresh'
    BY <2>5 DEF Collect, EndCall
  <2>6. ASSUME NEW p \in Dispatched, Finish(p) PROVE CallsInv' /\ ReadyIsFresh'
    BY <2>6 DEF Finish
  <2>7. ASSUME NEW p \in Dispatched, CallTimeout(p) PROVE CallsInv' /\ ReadyIsFresh'
    BY <2>7 DEF CallTimeout
  <2>8. ASSUME NEW p \in Dispatched, CallKill(p) PROVE CallsInv' /\ ReadyIsFresh'
    BY <2>8 DEF CallKill, EndCall
  <2>9. ASSUME NEW p \in Dispatched, Timeout(p) PROVE CallsInv' /\ ReadyIsFresh'
    BY <2>9 DEF Timeout
  <2>10. ASSUME NEW p \in Dispatched, Sweep(p) PROVE CallsInv' /\ ReadyIsFresh'
    BY <2>10 DEF Sweep
  <2>11. ASSUME NEW p \in Dispatched, ChildExits(p) PROVE CallsInv' /\ ReadyIsFresh'
    BY <2>11 DEF ChildExits
  <2> QED
    BY <2>1, <2>2, <2>3, <2>4, <2>5, <2>6, <2>7, <2>8, <2>9, <2>10, <2>11
       DEF RunNext, Run
<1> QED
  BY <1>1, <1>2, RunTypeCorrect, PTL DEF RunSpec

(* `The wrapper pops on every exit so the table stays accurate': at every  *)
(* moment _RUNNING_PROCS holds exactly the children of calls in progress.  *)
THEOREM TableFollowsCalls == RunSpec => []TableAccurate
<1>1. RunInv => TableAccurate
  BY DEF RunInv, CallsInv
<1> QED
  BY <1>1, RunInvHolds, PTL

(* A child never survives a call that came back to its probe, whatever the *)
(* timeouts and the sweeps of the other probes.                            *)
THEOREM CallsCleanUp == RunSpec => []ReturnedCallsLeaveNoChild
<1>1. RunInv => ReturnedCallsLeaveNoChild
  BY DEF RunInv, CallsInv
<1> QED
  BY <1>1, RunInvHolds, PTL
=============================================================================
