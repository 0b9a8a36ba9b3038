------------------------- MODULE CheckpointsProofs --------------------------
(* What TLAPS proves of Checkpoints, for any orchestrators and ids.        *)
EXTENDS Checkpoints, TLAPS

Inside == {"locked", "insert", "unlock"}

(* An orchestrator that is in append has an event that starts where it is, *)
(* and one that is down is not in append.                                  *)
Submitted ==
    \A o \in Orchestrator :
        /\ pc[o] # "idle" => /\ event[o] \in Event
                             /\ event[o].prior = state[o]
                             /\ state[o] # "down"
        /\ pc[o] = "idle" => event[o] = Nothing

TypeInv == TypeOK /\ Submitted

LEMMA LegalKinds == LegalTransitions \subseteq LedgerStateKind \X LedgerStateKind
  BY DEF LegalTransitions, LedgerStateKind

LEMMA LegalEnds ==
    \A t \in LegalTransitions : t[1] \in LedgerStateKind /\ t[2] \in LedgerStateKind
  BY LegalKinds

LEMMA TypeInvHolds == Spec => []TypeInv
<1> USE DEF ChainHead
<1>1. Init => TypeInv
  BY DamageAssumption DEF Init, TypeInv, TypeOK, Submitted, Genesis
<1>2. TypeInv /\ [Next]_vars => TypeInv'
  <2> SUFFICES ASSUME TypeInv, [Next]_vars PROVE TypeInv'
    OBVIOUS
  <2> USE DamageAssumption, MarkersAssumption, LegalKinds DEF TypeInv, TypeOK, Submitted
  <2>1. CASE UNCHANGED vars
    BY <2>1 DEF vars
  <2>2. ASSUME NEW o \in Orchestrator, Hydrate(o) PROVE TypeInv'
    <3>1. HydratedState \in LedgerStateKind
      <4>1. CASE Verdict = "verified"
        <5>1. rows # <<>> /\ Divergences = {}
          BY <4>1 DEF Verdict
        <5>2. Len(rows) \in 1 .. Len(rows) /\ rows[Len(rows)] \in Row
          BY <5>1
        <5>3. rows[Len(rows)].event # Torn
          BY <5>1, <5>2 DEF Divergences, Diverges
        <5>4. rows[Len(rows)].event.next \in LedgerStateKind
          BY <5>2, <5>3 DEF Row, Event
        <5> QED
          BY <4>1, <5>4 DEF HydratedState
      <4>2. CASE Verdict # "verified"
        BY <4>2 DEF HydratedState, LedgerStateKind
      <4> QED
        BY <4>1, <4>2
    <3> QED
      BY <2>2, <3>1 DEF Hydrate, Row
  <2>3. ASSUME NEW o \in Orchestrator, MoveUnrecorded(o) PROVE TypeInv'
    BY <2>3 DEF MoveUnrecorded
  <2>4. ASSUME NEW o \in Orchestrator, NEW e \in Event, Submit(o, e) PROVE TypeInv'
    BY <2>4 DEF Submit, Event, LedgerStateKind
  <2>5. ASSUME NEW o \in Orchestrator, Acquire(o) PROVE TypeInv'
    BY <2>5 DEF Acquire
  <2>6. ASSUME NEW o \in Orchestrator, ReadTail(o) PROVE TypeInv'
    <3>1. TailHead \in ChainHead
      <4>1. rows # <<>> => rows[Len(rows)] \in Row
        OBVIOUS
      <4> QED
        BY <4>1 DEF TailHead, Genesis, Row
    <3> QED
      BY <2>6, <3>1 DEF ReadTail
  <2>7. ASSUME NEW o \in Orchestrator, Insert(o) PROVE TypeInv'
    <3>1. [id |-> event[o].id, event |-> event[o], head |-> Append(prior[o], event[o])] \in Row
      <4>1. event[o] \in Event /\ event[o].id \in TransitionId
        BY <2>7 DEF Insert, Event
      <4>2. Append(prior[o], event[o]) \in Seq(Event)
        BY <4>1
      <4> QED
        BY <4>1, <4>2 DEF Row
    <3> QED
      BY <2>7, <3>1 DEF Insert
  <2>8. ASSUME NEW o \in Orchestrator, Return(o) PROVE TypeInv'
    <3>1. event[o].next \in LedgerStateKind
      <4>1. event[o] \in Event
        BY <2>8 DEF Return
      <4> QED
        BY <4>1 DEF Event
    <3> QED
      BY <2>8, <3>1 DEF Return, Leave, Genesis
  <2>9. ASSUME NEW o \in Orchestrator, Reject(o) PROVE TypeInv'
    BY <2>9 DEF Reject, Leave, Genesis
  <2>10. ASSUME NEW o \in Orchestrator, Crash(o) PROVE TypeInv'
    BY <2>10 DEF Crash, Leave, Genesis
  <2>11. CASE Damage
    <3>1. damage' \in 0 .. MaxDamage
      BY <2>11 DEF Damage
    <3>2. rows' \in Seq(Row)
      <4>1. ASSUME NEW n \in 1 .. Len(rows), NEW e \in Event \cup {Torn},
                   rows' = [rows EXCEPT ![n].event = e]
            PROVE  rows' \in Seq(Row)
        <5>1. [rows[n] EXCEPT !.event = e] \in Row
          <6>1. rows[n] \in Row
            OBVIOUS
          <6> QED
            BY <6>1 DEF Row
        <5>2. rows' = [rows EXCEPT ![n] = [rows[n] EXCEPT !.event = e]]
          BY <4>1
        <5> QED
          BY <5>1, <5>2
      <4>2. ASSUME NEW n \in 1 .. Len(rows),
                   rows' = [i \in 1 .. Len(rows) - 1 |->
                               IF i < n THEN rows[i] ELSE rows[i+1]]
            PROVE  rows' \in Seq(Row)
        BY <4>2
      <4>3. \A k \in 1 .. Len(rows), t \in LegalTransitions :
               [id |-> rows[k].id, prior |-> t[1], next |-> t[2]] \in Event
        <5>1. \A k \in 1 .. Len(rows) : rows[k].id \in TransitionId
          <6>1. \A k \in 1 .. Len(rows) : rows[k] \in Row
            OBVIOUS
          <6> QED
            BY <6>1 DEF Row
        <5> QED
          BY <5>1, LegalEnds DEF Event
      <4>4. \/ \E n \in 1 .. Len(rows), e \in Event \cup {Torn} : rows' = [rows EXCEPT ![n].event = e]
            \/ \E n \in 1 .. Len(rows) :
                  rows' = [i \in 1 .. Len(rows) - 1 |-> IF i < n THEN rows[i] ELSE rows[i+1]]
        BY <2>11, <4>3 DEF Damage
      <4> QED
        BY <4>1, <4>2, <4>4
    <3> QED
      BY <2>11, <3>1, <3>2 DEF Damage
  <2> QED
    BY <2>1, <2>2, <2>3, <2>4, <2>5, <2>6, <2>7, <2>8, <2>9, <2>10, <2>11 DEF Next, Locked
<1> QED
  BY <1>1, <1>2, PTL DEF Spec

(* The table and the orchestrators keep their types.                       *)
THEOREM TypeCorrect == Spec => []TypeOK
<1>1. TypeInv => TypeOK
  BY DEF TypeInv
<1> QED
  BY <1>1, TypeInvHolds, PTL

-----------------------------------------------------------------------------
(* Whoever is between flock and unlock holds the lock: at most one is.     *)
THEOREM LockExcludes == Spec => []LockHeldInside
<1>1. Init => LockHeldInside
  BY MarkersAssumption DEF Init, LockHeldInside
<1>2. TypeInv /\ LockHeldInside /\ [Next]_vars => LockHeldInside'
  <2> SUFFICES ASSUME TypeInv, LockHeldInside, [Next]_vars PROVE LockHeldInside'
    OBVIOUS
  <2> USE MarkersAssumption DEF TypeInv, TypeOK, LockHeldInside
  <2>1. CASE UNCHANGED vars
    BY <2>1 DEF vars
  <2>2. ASSUME NEW o \in Orchestrator, Hydrate(o) PROVE LockHeldInside'
    BY <2>2 DEF Hydrate
  <2>3. ASSUME NEW o \in Orchestrator, MoveUnrecorded(o) PROVE LockHeldInside'
    BY <2>3 DEF MoveUnrecorded
  <2>4. ASSUME NEW o \in Orchestrator, NEW e \in Event, Submit(o, e) PROVE LockHeldInside'
    BY <2>4 DEF Submit
  <2>5. ASSUME NEW o \in Orchestrator, Acquire(o) PROVE LockHeldInside'
    BY <2>5 DEF Acquire
  <2>6. ASSUME NEW o \in Orchestrator, ReadTail(o) PROVE LockHeldInside'
    BY <2>6 DEF ReadTail
  <2>7. ASSUME NEW o \in Orchestrator, Insert(o) PROVE LockHeldInside'
    BY <2>7 DEF Insert
  <2>8. ASSUME NEW o \in Orchestrator, Return(o) PROVE LockHeldInside'
    BY <2>8 DEF Return, Leave
  <2>9. ASSUME NEW o \in Orchestrator, Reject(o) PROVE LockHeldInside'
    BY <2>9 DEF Reject, Leave
  <2>10. ASSUME NEW o \in Orchestrator, Crash(o) PROVE LockHeldInside'
    BY <2>10 DEF Crash, Leave
  <2>11. CASE Damage
    BY <2>11 DEF Damage
  <2> QED
    BY <2>1, <2>2, <2>3, <2>4, <2>5, <2>6, <2>7, <2>8, <2>9, <2>10, <2>11 DEF Next, Locked
<1> QED
  BY <1>1, <1>2, TypeInvHolds, PTL DEF Spec

-----------------------------------------------------------------------------
(* No transition id has two rows, whatever was retried, resumed or lost.   *)
THEOREM OneRowPerTransition == Spec => []TransitionsOnce
<1>1. Init => TransitionsOnce
  BY DEF Init, TransitionsOnce
<1>2. TypeInv /\ TransitionsOnce /\ [Next]_vars => TransitionsOnce'
  <2> SUFFICES ASSUME TypeInv, TransitionsOnce, [Next]_vars PROVE TransitionsOnce'
    OBVIOUS
  <2> USE DEF TypeInv, TypeOK, TransitionsOnce
  <2>1. CASE rows' = rows
    BY <2>1
  <2>2. ASSUME NEW o \in Orchestrator, Insert(o) PROVE TransitionsOnce'
    BY <2>2 DEF Insert, Unique, UsedIds
  <2>3. CASE Damage
    <3>1. ASSUME NEW n \in 1 .. Len(rows), NEW e,
                 rows' = [rows EXCEPT ![n].event = e]
          PROVE  TransitionsOnce'
      <4>1. Len(rows') = Len(rows) /\ \A i \in 1 .. Len(rows) : rows'[i].id = rows[i].id
        BY <3>1 DEF Row
      <4> QED
        BY <4>1
    <3>2. ASSUME NEW n \in 1 .. Len(rows),
                 rows' = [i \in 1 .. Len(rows) - 1 |->
                             IF i < n THEN rows[i] ELSE rows[i+1]]
          PROVE  TransitionsOnce'
      <4>1. Len(rows') = Len(rows) - 1
        BY <3>2
      <4> QED
        BY <3>2, <4>1
    <3> QED
      BY <2>3, <3>1, <3>2 DEF Damage
  <2> QED
    BY <2>1, <2>2, <2>3
       DEF Next, Locked, vars, Hydrate, MoveUnrecorded, Crash, Submit, Acquire,
           ReadTail, Return, Reject
<1> QED
  BY <1>1, <1>2, TypeInvHolds, PTL DEF Spec
-----------------------------------------------------------------------------
(* While the file is undamaged, the head that was read under the lock is   *)
(* still the fold of all the committed events when it is used.             *)
HeadCurrent ==
    damage = 0 => \A o \in Orchestrator : pc[o] = "insert" => prior[o] = appended

ChainInv == ChainUnforked /\ HeadCurrent

LEMMA Prefixes == ASSUME TypeOK
                  PROVE  appended = [i \in 1 .. Len(appended) |-> appended[i]]
  BY DEF TypeOK

LEMMA TailIsHistory ==
    ASSUME TypeOK, ChainUnforked, damage = 0
    PROVE  TailHead = appended
<1>1. CASE rows = <<>>
  <2>1. Len(appended) = 0
    BY <1>1 DEF ChainUnforked
  <2>2. appended = <<>>
    BY <2>1 DEF TypeOK
  <2> QED
    BY <1>1, <2>2 DEF TailHead, Genesis
<1>2. CASE rows # <<>>
  <2>1. Len(rows) \in 1 .. Len(rows) /\ Len(rows) = Len(appended)
    BY <1>2 DEF TypeOK, ChainUnforked
  <2>2. rows[Len(rows)].head = [i \in 1 .. Len(appended) |-> appended[i]]
    BY <2>1 DEF ChainUnforked
  <2> QED
    BY <1>2, <2>2, Prefixes DEF TailHead
<1> QED
  BY <1>1, <1>2

LEMMA ChainInvHolds == Spec => []ChainInv
<1>1. Init => ChainInv
  BY DEF Init, ChainInv, ChainUnforked, HeadCurrent
<1>2. TypeInv /\ LockHeldInside /\ ChainInv /\ [Next]_vars => ChainInv'
  <2> SUFFICES ASSUME TypeInv, LockHeldInside, ChainInv, [Next]_vars, damage' = 0
               PROVE  ChainInv'
    BY DEF ChainInv, ChainUnforked, HeadCurrent
  <2> USE DEF TypeInv, TypeOK, ChainInv, ChainUnforked, HeadCurrent
  <2>1. CASE UNCHANGED <<rows, appended, damage>> /\ pc' = pc /\ prior' = prior
    BY <2>1
  <2>2. ASSUME NEW o \in Orchestrator,
               UNCHANGED <<rows, appended, damage>>, pc'[o] # "insert",
               \A q \in Orchestrator \ {o} : pc'[q] = pc[q] /\ prior'[q] = prior[q]
        PROVE  ChainInv'
    BY <2>2
  <2>3. ASSUME NEW o \in Orchestrator, ReadTail(o) PROVE ChainInv'
    <3>1. damage = 0
      BY <2>3 DEF ReadTail
    <3>2. TailHead = appended
      BY <3>1, TailIsHistory
    <3> QED
      BY <2>3, <3>1, <3>2 DEF ReadTail
  <2>4. ASSUME NEW o \in Orchestrator, Insert(o) PROVE ChainInv'
    <3>1. damage = 0 /\ prior[o] = appended /\ event[o] \in Event
      BY <2>4 DEF Insert, Submitted
    <3>2. appended' = Append(appended, event[o])
      BY <2>4 DEF Insert
    <3>3. Len(rows') = Len(rows) + 1 /\ Len(appended') = Len(appended) + 1
      BY <2>4, <3>2 DEF Insert
    <3>4. ASSUME NEW n \in 1 .. Len(rows')
          PROVE  /\ rows'[n].event = appended'[n]
                 /\ rows'[n].head = [i \in 1 .. n |-> appended'[i]]
      <4>1. CASE n \in 1 .. Len(rows)
        <5>1. rows'[n] = rows[n]
          BY <2>4, <4>1 DEF Insert
        <5>2. \A i \in 1 .. n : appended'[i] = appended[i]
          BY <3>1, <3>2, <4>1
        <5>3. /\ rows[n].event = appended[n]
              /\ rows[n].head = [i \in 1 .. n |-> appended[i]]
          BY <3>1, <4>1
        <5>4. n \in 1 .. n
          BY <4>1
        <5>5. [i \in 1 .. n |-> appended[i]] = [i \in 1 .. n |-> appended'[i]]
          BY <5>2
        <5> QED
          BY <5>1, <5>2, <5>3, <5>4, <5>5
      <4>2. CASE n = Len(rows) + 1
        <5>1. rows'[n].event = event[o] /\ rows'[n].head = appended'
          BY <2>4, <3>1, <3>2, <4>2 DEF Insert
        <5>2. appended'[n] = event[o]
          BY <3>1, <3>2, <4>2
        <5>3. appended' = [i \in 1 .. n |-> appended'[i]]
          BY <3>1, <3>2, <3>3, <4>2
        <5> QED
          BY <5>1, <5>2, <5>3
      <4> QED
        BY <3>3, <4>1, <4>2
    <3>5. \A q \in Orchestrator : pc'[q] # "insert"
      BY <2>4, MarkersAssumption DEF Insert, LockHeldInside
    <3> QED
      BY <3>1, <3>3, <3>4, <3>5
  <2>5. CASE Damage
    BY <2>5, DamageAssumption DEF Damage
  <2>6. ASSUME NEW o \in Orchestrator, NEW e \in Event, Submit(o, e) PROVE ChainInv'
    BY <2>2, <2>6 DEF Submit
  <2>7. ASSUME NEW o \in Orchestrator, Acquire(o) PROVE ChainInv'
    BY <2>2, <2>7 DEF Acquire
  <2>8. ASSUME NEW o \in Orchestrator, Return(o) \/ Reject(o) \/ Crash(o) PROVE ChainInv'
    BY <2>2, <2>8 DEF Return, Reject, Crash, Leave
  <2> QED
    BY <2>1, <2>3, <2>4, <2>5, <2>6, <2>7, <2>8
       DEF Next, Locked, vars, Hydrate, MoveUnrecorded
<1> QED
  BY <1>1, <1>2, TypeInvHolds, LockExcludes, PTL DEF Spec

(* Whatever orchestrators append concurrently and wherever they die, the   *)
(* rows of an undamaged file are one chain over the committed events.      *)
THEOREM OneChain == Spec => []ChainUnforked
<1>1. ChainInv => ChainUnforked
  BY DEF ChainInv
<1> QED
  BY <1>1, ChainInvHolds, PTL

-----------------------------------------------------------------------------
(* The verifier finds nothing wrong with an undamaged file.                *)
LEMMA NothingDiverges ==
    ASSUME TypeOK, ChainUnforked, damage = 0
    PROVE  Divergences = {}
<1>1. ASSUME NEW n \in 1 .. Len(rows) PROVE ~ Diverges(n)
  <2>1. n \in Nat /\ 1 .. n \subseteq 1 .. Len(rows)
    BY DEF TypeOK
  <2>2. \A i \in 1 .. n : rows[i].event = appended[i]
    BY <2>1 DEF ChainUnforked
  <2>3. EventsUpTo(n) = [i \in 1 .. n |-> appended[i]]
    BY <2>2 DEF EventsUpTo
  <2>4. rows[n].head = [i \in 1 .. n |-> appended[i]] /\ rows[n].event = appended[n]
    BY DEF ChainUnforked
  <2>5. appended[n] \in Event
    BY DEF TypeOK, ChainUnforked
  <2>6. rows[n].event # Torn
    BY <2>4, <2>5, MarkersAssumption
  <2> QED
    BY <2>3, <2>4, <2>6 DEF Diverges
<1> QED
  BY <1>1 DEF Divergences

(* Where the ledger stands, of the events committed so far.                *)
StandsAt(k) ==
    IF appended = <<>> THEN k = "needs_plan"
    ELSE Continues(appended[Len(appended)].next, k)

(* An orchestrator that is up is where the ledger stands, save between the *)
(* commit of its event and its return; only one is up.                     *)
PathInv ==
    damage = 0 /\ company = "alone" =>
        /\ OnePath
        /\ \A o \in Orchestrator :
              state[o] # "down" =>
                  /\ pc[o] # "unlock" => StandsAt(state[o])
                  /\ pc[o] = "unlock" => /\ appended # <<>>
                                         /\ appended[Len(appended)] = event[o]
                  /\ \A q \in Orchestrator \ {o} : state[q] = "down"

LEMMA PathInvHolds == Spec => []PathInv
<1>1. Init => PathInv
  BY DEF Init, PathInv, OnePath
<1>2. TypeInv /\ ChainInv /\ PathInv /\ [Next]_vars => PathInv'
  <2> SUFFICES ASSUME TypeInv, ChainInv, PathInv, [Next]_vars,
                      damage' = 0, company' = "alone"
               PROVE  PathInv'
    BY DEF PathInv
  <2>0. damage = 0 /\ company = "alone"
    <3>1. damage \in Nat /\ company \in {"alone", "woven"}
      BY DamageAssumption DEF TypeInv, TypeOK
    <3>2. CASE Damage
      BY <3>1, <3>2 DEF Damage
    <3>3. ASSUME NEW o \in Orchestrator, Hydrate(o)
          PROVE  damage = 0 /\ company = "alone"
      BY <3>3 DEF Hydrate
    <3> QED
      BY <3>2, <3>3 DEF Next, vars, MoveUnrecorded, Submit, Acquire, Locked,
                        ReadTail, Insert, Return, Reject, Crash
  <2> USE <2>0 DEF TypeInv, TypeOK, Submitted, PathInv, OnePath, StandsAt
  <2>1. CASE UNCHANGED vars
    BY <2>1 DEF vars
  <2>2. ASSUME NEW o \in Orchestrator, Hydrate(o) PROVE PathInv'
    <3>1. StandsAt(HydratedState)
      <4>1. CASE rows = <<>>
        BY <2>0, <4>1 DEF ChainInv, ChainUnforked, HydratedState, Verdict
      <4>2. CASE rows # <<>>
        <5>1. Divergences = {}
          BY <2>0, NothingDiverges DEF ChainInv
        <5>2. HydratedState = appended[Len(appended)].next /\ appended # <<>>
          <6>1. Verdict = "verified"
            BY <4>2, <5>1 DEF Verdict
          <6>2. HydratedState = rows[Len(rows)].event.next
            BY <6>1 DEF HydratedState
          <6>3. /\ appended # <<>>
                /\ rows[Len(rows)].event = appended[Len(appended)]
            BY <2>0, <4>2 DEF ChainInv, ChainUnforked
          <6> QED
            BY <6>2, <6>3
        <5> QED
          BY <5>2 DEF Continues
      <4> QED
        BY <4>1, <4>2
    <3> QED
      BY <2>2, <3>1 DEF Hydrate
  <2>3. ASSUME NEW o \in Orchestrator, MoveUnrecorded(o) PROVE PathInv'
    <3>1. PICK k \in LedgerStateKind \ SemanticBoundary :
             /\ <<state[o], k>> \in LegalTransitions
             /\ state' = [state EXCEPT ![o] = k]
      BY <2>3 DEF MoveUnrecorded
    <3>2. k = "needs_plan" /\ state[o] = "gate_failed_retryable"
      BY <3>1 DEF SemanticBoundary, LedgerStateKind, LegalTransitions
    <3>3. StandsAt(state[o])
      BY <2>3, <3>2 DEF MoveUnrecorded
    <3>4. StandsAt(k)
      BY <3>1, <3>2, <3>3 DEF Continues, SemanticBoundary
    <3> QED
      BY <2>3, <3>1, <3>2, <3>4 DEF MoveUnrecorded
  <2>4. ASSUME NEW o \in Orchestrator, NEW e \in Event, Submit(o, e) PROVE PathInv'
    BY <2>4 DEF Submit
  <2>5. ASSUME NEW o \in Orchestrator, Acquire(o) PROVE PathInv'
    BY <2>5 DEF Acquire
  <2>6. ASSUME NEW o \in Orchestrator, ReadTail(o) PROVE PathInv'
    BY <2>6 DEF ReadTail
  <2>7. ASSUME NEW o \in Orchestrator, Insert(o) PROVE PathInv'
    <3>1. event[o] \in Event /\ event[o].prior = state[o] /\ StandsAt(event[o].prior)
      BY <2>7 DEF Insert
    <3>2. /\ appended' = Append(appended, event[o])
          /\ appended' # <<>>
          /\ appended'[Len(appended')] = event[o]
      BY <2>7, <3>1 DEF Insert
    <3>3. OnePath'
      BY <3>1, <3>2
    <3>4. \A q \in Orchestrator \ {o} : state[q] = "down" /\ state[o] # "down"
      BY <2>7 DEF Insert
    <3> QED
      BY <2>7, <3>2, <3>3, <3>4 DEF Insert
  <2>8. ASSUME NEW o \in Orchestrator, Return(o) PROVE PathInv'
    BY <2>8 DEF Return, Leave, Continues
  <2>9. ASSUME NEW o \in Orchestrator, Reject(o) \/ Crash(o) PROVE PathInv'
    BY <2>9 DEF Reject, Crash, Leave
  <2>10. CASE Damage
    BY <2>0, <2>10 DEF Damage
  <2> QED
    BY <2>1, <2>2, <2>3, <2>4, <2>5, <2>6, <2>7, <2>8, <2>9, <2>10 DEF Next, Locked
<1> QED
  BY <1>1, <1>2, TypeInvHolds, ChainInvHolds, PTL DEF Spec

(* As long as no two orchestrators were up at a time and the file was not  *)
(* damaged, the events committed are one path of the ledger, wherever the  *)
(* orchestrators died and resumed.                                         *)
THEOREM LedgerIsOnePath == Spec => []LedgerContinuous
<1>1. PathInv => LedgerContinuous
  BY DEF PathInv, LedgerContinuous
<1> QED
  BY <1>1, PathInvHolds, PTL

-----------------------------------------------------------------------------
(* Every event of a head is in the log, after one equal to its predecessor *)
(* in the head.                                                            *)
Traced(h, log) ==
    \A n \in 1 .. Len(h) :
        \E i \in 1 .. Len(log) :
            /\ h[n] = log[i]
            /\ n > 1 => \E j \in 1 .. i - 1 : h[n-1] = log[j]

(* The heads of the rows are traced whatever befell the events, and so is  *)
(* the head that an orchestrator read and may append to.                   *)
HeadsTraced ==
    /\ \A n \in 1 .. Len(rows) : Traced(rows[n].head, appended)
    /\ \A o \in Orchestrator : Traced(prior[o], appended)

LEMMA EmptyTraced == \A log : Traced(<<>>, log)
  BY DEF Traced

LEMMA StaysTraced ==
    ASSUME NEW h, NEW log \in Seq(Event), NEW e \in Event, Traced(h, log)
    PROVE  Traced(h, Append(log, e))
<1> DEFINE more == Append(log, e)
<1>1. /\ Len(more) = Len(log) + 1
      /\ \A i \in 1 .. Len(log) : more[i] = log[i]
  OBVIOUS
<1> HIDE DEF more
<1>2. ASSUME NEW n \in 1 .. Len(h)
      PROVE  \E i \in 1 .. Len(more) :
                /\ h[n] = more[i]
                /\ n > 1 => \E j \in 1 .. i - 1 : h[n-1] = more[j]
  <2>1. PICK i \in 1 .. Len(log) :
           /\ h[n] = log[i]
           /\ n > 1 => \E j \in 1 .. i - 1 : h[n-1] = log[j]
    BY DEF Traced
  <2>2. \A j \in 1 .. i - 1 : j \in 1 .. Len(log)
    BY <2>1
  <2> QED
    BY <1>1, <2>1, <2>2
<1>3. Traced(h, more)
  BY <1>2 DEF Traced
<1> QED
  BY <1>3 DEF more

LEMMA ExtendedTraced ==
    ASSUME NEW h \in Seq(Event), NEW log \in Seq(Event), NEW e \in Event,
           Traced(h, log)
    PROVE  Traced(Append(h, e), Append(log, e))
<1> DEFINE g == Append(h, e)
           more == Append(log, e)
           k == Len(log) + 1
<1>1. /\ Len(more) = k /\ k \in 1 .. k /\ more[k] = e
      /\ \A i \in 1 .. k - 1 : more[i] = log[i]
  OBVIOUS
<1>2. /\ Len(g) = Len(h) + 1 /\ g[Len(h) + 1] = e
      /\ \A n \in 1 .. Len(h) : g[n] = h[n]
  OBVIOUS
<1>3. Traced(h, more)
  BY StaysTraced
<1>4. k - 1 = Len(log) /\ Len(log) \in Nat /\ Len(h) \in Nat
  OBVIOUS
<1> HIDE DEF g, more, k
<1>5. ASSUME NEW n \in 1 .. Len(g)
      PROVE  \E i \in 1 .. Len(more) :
                /\ g[n] = more[i]
                /\ n > 1 => \E j \in 1 .. i - 1 : g[n-1] = more[j]
  <2>1. CASE n \in 1 .. Len(h)
    <3>1. g[n] = h[n] /\ (n > 1 => g[n-1] = h[n-1])
      BY <1>2, <1>4, <2>1
    <3> QED
      BY <1>3, <2>1, <3>1 DEF Traced
  <2>2. CASE n = Len(h) + 1
    <3>1. ASSUME n > 1 PROVE \E j \in 1 .. k - 1 : g[n-1] = more[j]
      <4>1. n - 1 \in 1 .. Len(h) /\ g[n-1] = h[n-1]
        BY <1>2, <1>4, <2>2, <3>1
      <4>2. \E j \in 1 .. Len(log) : h[n-1] = log[j]
        BY <4>1 DEF Traced
      <4> QED
        BY <1>1, <1>4, <4>1, <4>2
    <3> QED
      BY <1>1, <1>2, <2>2, <3>1
  <2> QED
    BY <1>2, <1>4, <2>1, <2>2
<1>6. Traced(g, more)
  BY <1>5 DEF Traced
<1> QED
  BY <1>6 DEF g, more

LEMMA HeadsTracedHolds == Spec => []HeadsTraced
<1>1. Init => HeadsTraced
  BY EmptyTraced DEF Init, HeadsTraced, Genesis
<1>2. TypeInv /\ HeadsTraced /\ [Next]_vars => HeadsTraced'
  <2> SUFFICES ASSUME TypeInv, HeadsTraced, [Next]_vars PROVE HeadsTraced'
    OBVIOUS
  <2> USE DEF TypeInv, TypeOK, ChainHead
  <2>1. CASE UNCHANGED <<rows, appended, prior>>
    BY <2>1 DEF HeadsTraced
  <2>2. ASSUME NEW o \in Orchestrator, ReadTail(o) PROVE HeadsTraced'
    <3>1. Traced(TailHead, appended)
      <4>1. rows # <<>> => Len(rows) \in 1 .. Len(rows)
        OBVIOUS
      <4> QED
        BY <4>1, EmptyTraced DEF HeadsTraced, TailHead, Genesis
    <3>2. UNCHANGED <<rows, appended>>
      BY <2>2 DEF ReadTail
    <3>3. \A q \in Orchestrator : prior'[q] = prior[q] \/ prior'[q] = TailHead
      BY <2>2 DEF ReadTail
    <3> QED
      BY <3>1, <3>2, <3>3 DEF HeadsTraced
  <2>3. ASSUME NEW o \in Orchestrator, Insert(o) PROVE HeadsTraced'
    <3>1. event[o] \in Event /\ prior[o] \in Seq(Event) /\ Traced(prior[o], appended)
      BY <2>3 DEF Insert, Submitted, HeadsTraced
    <3>2. appended' = Append(appended, event[o]) /\ prior' = prior
      BY <2>3 DEF Insert
    <3>3. ASSUME NEW n \in 1 .. Len(rows') PROVE Traced(rows'[n].head, appended')
      <4>1. CASE n \in 1 .. Len(rows)
        <5>1. rows'[n] = rows[n] /\ Traced(rows[n].head, appended)
          BY <2>3, <4>1 DEF Insert, HeadsTraced
        <5> QED
          BY <3>1, <3>2, <5>1, StaysTraced
      <4>2. CASE n = Len(rows) + 1
        <5>1. rows'[n].head = Append(prior[o], event[o])
          BY <2>3, <4>2 DEF Insert
        <5>2. Traced(Append(prior[o], event[o]), appended')
          BY <3>1, <3>2, ExtendedTraced
        <5> QED
          BY <5>1, <5>2
      <4>3. Len(rows') = Len(rows) + 1
        BY <2>3 DEF Insert
      <4> QED
        BY <4>1, <4>2, <4>3
    <3>4. ASSUME NEW q \in Orchestrator PROVE Traced(prior'[q], appended')
      BY <3>1, <3>2, StaysTraced DEF HeadsTraced
    <3> QED
      BY <3>3, <3>4 DEF HeadsTraced
  <2>4. ASSUME NEW o \in Orchestrator, Return(o) \/ Reject(o) \/ Crash(o)
        PROVE  HeadsTraced'
    <3>1. UNCHANGED <<rows, appended>>
      BY <2>4 DEF Return, Reject, Crash
    <3>2. \A q \in Orchestrator : prior'[q] = prior[q] \/ prior'[q] = <<>>
      BY <2>4 DEF Return, Reject, Crash, Leave, Genesis
    <3> QED
      BY <3>1, <3>2, EmptyTraced DEF HeadsTraced
  <2>5. CASE Damage
    <3>1. UNCHANGED <<appended, prior>>
      BY <2>5 DEF Damage
    <3>2. \A m \in 1 .. Len(rows') :
             \E n \in 1 .. Len(rows) : rows'[m].head = rows[n].head
      <4>1. ASSUME NEW n \in 1 .. Len(rows), NEW e,
                   rows' = [rows EXCEPT ![n].event = e]
            PROVE  \A m \in 1 .. Len(rows') : rows'[m].head = rows[m].head
        BY <4>1 DEF Row
      <4>2. ASSUME NEW n \in 1 .. Len(rows),
                   rows' = [i \in 1 .. Len(rows) - 1 |->
                               IF i < n THEN rows[i] ELSE rows[i+1]]
            PROVE  \A m \in 1 .. Len(rows') :
                      rows'[m] = rows[m] \/ (m + 1 \in 1 .. Len(rows) /\ rows'[m] = rows[m+1])
        BY <4>2
      <4>3. CASE \E n \in 1 .. Len(rows) : \E e : rows' = [rows EXCEPT ![n].event = e]
        <5>1. Len(rows') = Len(rows)
          BY <4>3
        <5> QED
          BY <4>1, <4>3, <5>1
      <4>4. CASE \E n \in 1 .. Len(rows) :
                    rows' = [i \in 1 .. Len(rows) - 1 |->
                                IF i < n THEN rows[i] ELSE rows[i+1]]
        <5>1. Len(rows') = Len(rows) - 1
          BY <4>4
        <5> QED
          BY <4>2, <4>4, <5>1
      <4> QED
        BY <2>5, <4>3, <4>4 DEF Damage
    <3> QED
      BY <3>1, <3>2 DEF HeadsTraced
  <2> QED
    BY <2>1, <2>2, <2>3, <2>4, <2>5
       DEF Next, Locked, vars, Hydrate, MoveUnrecorded, Submit, Acquire
<1> QED
  BY <1>1, <1>2, TypeInvHolds, PTL DEF Spec

(* Whatever was altered, garbled or lost, a chain that the verifier passes *)
(* holds only events that were committed, each after its predecessor.      *)
THEOREM OnlyCommittedVerifies == Spec => []VerifiedWasCommitted
<1>1. TypeOK /\ HeadsTraced => VerifiedWasCommitted
  <2> SUFFICES ASSUME TypeOK, HeadsTraced, Verdict = "verified",
                      NEW n \in 1 .. Len(rows)
               PROVE  \E i \in 1 .. Len(appended) :
                         /\ rows[n].event = appended[i]
                         /\ n > 1 => \E j \in 1 .. i - 1 :
                                        rows[n-1].event = appended[j]
    BY DEF VerifiedWasCommitted
  <2>1. Len(rows) \in Nat /\ Len(rows) \in 1 .. Len(rows)
    BY DEF TypeOK
  <2>2. Divergences = {}
    BY DEF Verdict
  <2>3. rows[Len(rows)].head = EventsUpTo(Len(rows))
    BY <2>1, <2>2 DEF Divergences, Diverges
  <2> DEFINE h == rows[Len(rows)].head
  <2>4. Len(h) = Len(rows) /\ \A m \in 1 .. Len(rows) : h[m] = rows[m].event
    BY <2>1, <2>3 DEF EventsUpTo
  <2>5. Traced(h, appended)
    BY <2>1 DEF HeadsTraced
  <2>6. n > 1 => n - 1 \in 1 .. Len(rows)
    BY <2>1
  <2> HIDE DEF h
  <2>7. PICK i \in 1 .. Len(appended) :
           /\ h[n] = appended[i]
           /\ n > 1 => \E j \in 1 .. i - 1 : h[n-1] = appended[j]
    BY <2>4, <2>5 DEF Traced
  <2> QED
    BY <2>4, <2>6, <2>7
<1> QED
  BY <1>1, TypeCorrect, HeadsTracedHolds, PTL
=============================================================================
