-------------------------- MODULE CacheStoreProofs --------------------------
(* Theorems about CacheStore, for any number of processes, keys, outputs   *)
(* and index writes, with writes cut short or not.                         *)
EXTENDS CacheStore, TLAPS, SequenceTheorems, WellFoundedInduction

(* The last element of a bounded set of positions exists, so the record    *)
(* that _load_index keeps for a key is one of its readable lines.          *)
LEMMA LastInProperties ==
    ASSUME NEW n \in Nat, NEW S \in SUBSET (1 .. n), S # {}
    PROVE  /\ LastIn(S) \in S
           /\ \A j \in S : j =< LastIn(S)
<1> DEFINE T == {n - i : i \in S}
<1>1. T \in SUBSET Nat /\ T # {}
  <2>1. \A i \in S : i \in 1 .. n /\ n - i \in Nat
    OBVIOUS
  <2>2. PICK i \in S : TRUE
    OBVIOUS
  <2>3. n - i \in T
    OBVIOUS
  <2> QED
    BY <2>1, <2>3
<1>2. PICK m \in T : \A y \in T : ~ (<<y, m>> \in OpToRel(<, Nat))
  BY <1>1, WFMin, NatLessThanWellFounded
<1>3. \A y \in T : m =< y
  <2> HIDE DEF T
  <2> TAKE y \in T
  <2>1. y \in Nat /\ m \in Nat
    BY <1>1
  <2>2. ~ (<<y, m>> \in {ss \in Nat \X Nat : ss[1] < ss[2]})
    BY <1>2 DEF OpToRel
  <2> QED
    BY <2>1, <2>2
<1>4. PICK i \in S : m = n - i
  BY <1>2
<1>5. \A j \in S : j =< i
  <2> TAKE j \in S
  <2>1. n - j \in T
    OBVIOUS
  <2>2. m =< n - j
    BY <1>3, <2>1
  <2> QED
    BY <1>4, <2>2
<1> QED
  BY <1>5 DEF LastIn

-----------------------------------------------------------------------------
(* Type correctness.                                                       *)

LEMMA LoadIndexType ==
    ASSUME TypeOK
    PROVE  /\ LoadIndex \in [Key -> Nat]
           /\ \A k \in Key : LoadIndex[k] # 0 => LoadIndex[k] \in LinesOf(k)
           /\ \A k \in Key : \A i \in LinesOf(k) : i =< LoadIndex[k]
<1>1. Len(index) \in Nat
  BY DEF TypeOK
<1>2. \A k \in Key : LinesOf(k) \in SUBSET (1 .. Len(index))
  BY DEF LinesOf
<1>3. \A k \in Key : LinesOf(k) # {} =>
          /\ LastIn(LinesOf(k)) \in LinesOf(k)
          /\ \A i \in LinesOf(k) : i =< LastIn(LinesOf(k))
  BY <1>1, <1>2, LastInProperties
<1>4. \A k \in Key : LoadIndex[k] =
          IF LinesOf(k) = {} THEN 0 ELSE LastIn(LinesOf(k))
  BY DEF LoadIndex
<1>5. \A k \in Key : LoadIndex[k] \in Nat
  BY <1>1, <1>2, <1>3, <1>4
<1>6. LoadIndex = [k \in Key |-> LoadIndex[k]]
  BY DEF LoadIndex
<1>7. LoadIndex \in [Key -> Nat]
  BY <1>5, <1>6
<1> QED
  BY <1>2, <1>3, <1>4, <1>7

(* What is known of a process in each of its steps, as far as types go.    *)
(* (Part of the inductive invariant: the guard of a step implies the type  *)
(* of the locals it reads.)                                                *)
InCall ==
    \A p \in Proc :
        /\ pc[p] \in {"load", "lookup"} => wanted[p] \in Key
        /\ pc[p] = "blob" => reply[p] # Nothing
        /\ pc[p] \in {"write", "append", "remember"} =>
                record[p] \in Record /\ record[p].at =< now
        /\ pc[p] = "remember" =>
                /\ mark[p] \in 1 .. Len(index)
                /\ index[mark[p]].key = record[p].key

(* A view points only at lines of its key.                                 *)
ViewsPointIntoIndex ==
    \A p \in Proc, k \in Key :
        memory[p][k] # 0 => /\ memory[p][k] \in 1 .. Len(index)
                            /\ index[memory[p][k]].key = k

WellFormed == TypeOK /\ InCall /\ ViewsPointIntoIndex

(* The program steps keep every variable in its type.                      *)
LEMMA TypeStep == WellFormed /\ [Next]_vars => TypeOK'
<1> SUFFICES ASSUME TypeOK, InCall, ViewsPointIntoIndex, [Next]_vars
             PROVE  TypeOK'
  BY DEF WellFormed
<1> USE DEF TypeOK, disk, view, local, Return
<1>1. ASSUME NEW p \in Proc, NEW k \in Key, GetStat(p, k)
      PROVE  TypeOK'
  <2>1. Len(index) \in Nat
    OBVIOUS
  <2> QED
    BY <1>1, <2>1 DEF GetStat
<1>2. ASSUME NEW p \in Proc, GetLoad(p)
      PROVE  TypeOK'
  BY <1>2, LoadIndexType DEF GetLoad
<1>3. ASSUME NEW p \in Proc, GetMiss(p)
      PROVE  TypeOK'
  BY <1>3 DEF GetMiss
<1>4. ASSUME NEW p \in Proc, GetFresh(p)
      PROVE  TypeOK'
  <2>1. wanted[p] \in Key
    BY <1>4 DEF GetFresh, InCall
  <2>2. index[Found(p)] \in Line
    BY <1>4, <2>1 DEF GetFresh, Fresh, Found, ViewsPointIntoIndex
  <2>3. Age(p) \in Int /\ index[Found(p)].out \in Output
    BY <2>2, BoundsAssumption DEF Age, Line, Time
  <2>4. [key |-> wanted[p], out |-> index[Found(p)].out,
         age |-> Age(p), bytes |-> "absent"] \in Hit
    BY <2>1, <2>3 DEF Hit, BlobState
  <2>5. reply' \in [Proc -> Hit \cup {Nothing}]
    BY <1>4, <2>4 DEF GetFresh
  <2> QED
    BY <1>4, <2>5 DEF GetFresh
<1>5. ASSUME NEW p \in Proc, GetBlob(p)
      PROVE  TypeOK'
  <2> DEFINE held == blobs[reply[p].out]
             answer == IF Verified(held) THEN [reply[p] EXCEPT !.bytes = held] ELSE Nothing
  <2>1. reply[p] \in Hit /\ held \in BlobState
    BY <1>5 DEF GetBlob, InCall, Hit
  <2>2. answer \in Hit \cup {Nothing}
    <3> HIDE DEF held
    <3> QED
      BY <2>1 DEF Hit
  <2>3. /\ pc' = [pc EXCEPT ![p] = "idle"] /\ reply' = [reply EXCEPT ![p] = answer]
        /\ wanted' \in [Proc -> Key \cup {Nothing}] /\ mark' \in [Proc -> Nat]
        /\ record' \in [Proc -> Record \cup {Nothing}] /\ UNCHANGED <<disk, view, now>>
    BY <1>5 DEF GetBlob
  <2> HIDE DEF answer
  <2> QED
    BY <2>2, <2>3
<1>6. ASSUME NEW p \in Proc, NEW k \in Key, NEW o \in Output, PutBegin(p, k, o)
      PROVE  TypeOK'
  BY <1>6 DEF PutBegin, Record, Time
<1>7. ASSUME NEW p \in Proc, PutBlob(p)
      PROVE  TypeOK'
  BY <1>7 DEF PutBlob, InCall, Record, Written, BlobState
<1>8. ASSUME NEW p \in Proc, PutAppend(p)
      PROVE  TypeOK'
  <2>1. record[p] \in Record
    BY <1>8 DEF PutAppend, InCall
  <2>2. PICK w \in Written :
           index' = Append(index, [key |-> record[p].key,
                                   out |-> record[p].out,
                                   at |-> record[p].at,
                                   whole |-> w = "whole"])
    BY <1>8 DEF PutAppend
  <2>3. [key |-> record[p].key, out |-> record[p].out,
         at |-> record[p].at, whole |-> w = "whole"] \in Line
    BY <2>1 DEF Record, Line
  <2>4. index' \in Seq(Line) /\ Len(index) \in Nat
    BY <2>2, <2>3
  <2> QED
    BY <1>8, <2>4 DEF PutAppend
<1>9. ASSUME NEW p \in Proc, PutRemember(p)
      PROVE  TypeOK'
  <2> DEFINE m == [memory[p] EXCEPT ![record[p].key] = mark[p]]
  <2>1. m \in [Key -> Nat]
    OBVIOUS
  <2>2. [memory EXCEPT ![p] = m] \in [Proc -> [Key -> Nat]]
    BY <2>1
  <2>3. [memory EXCEPT ![p][record[p].key] = mark[p]] = [memory EXCEPT ![p] = m]
    OBVIOUS
  <2>4. memory' \in [Proc -> [Key -> Nat]]
    BY <1>9, <2>2, <2>3 DEF PutRemember
  <2>5. memSize' \in [Proc -> Nat \cup {Unloaded}]
    <3>1. Len(index) \in Nat
      OBVIOUS
    <3>2. memSize' = memSize \/ memSize' = [memSize EXCEPT ![p] = Len(index)]
      BY <1>9 DEF PutRemember
    <3> QED
      BY <3>1, <3>2
  <2> QED
    BY <1>9, <2>4, <2>5 DEF PutRemember
<1>10. ASSUME NEW p \in Proc, Restart(p)
      PROVE  TypeOK'
  BY <1>10 DEF Restart, NoView, Unloaded
<1>11. CASE Tick
  BY <1>11, BoundsAssumption DEF Tick, Time
<1>12. CASE UNCHANGED vars
  BY <1>12 DEF vars
<1> QED
  BY <1>1, <1>2, <1>3, <1>4, <1>5, <1>6, <1>7, <1>8, <1>9, <1>10, <1>11, <1>12
     DEF Next, Get, Put

-----------------------------------------------------------------------------
(* What a process knows while it is in a call stays true whatever the      *)
(* other processes do.                                                     *)

(* No step shortens the index or changes a line of it.                     *)
LEMMA IndexGrows ==
    ASSUME WellFormed, [Next]_vars
    PROVE  /\ Len(index) =< Len(index')
           /\ \A i \in 1 .. Len(index) : index'[i] = index[i]
<1> USE DEF disk, view, local, Return
<1>1. ASSUME NEW p \in Proc, PutAppend(p)
      PROVE  /\ Len(index) =< Len(index')
             /\ \A i \in 1 .. Len(index) : index'[i] = index[i]
  <2>1. PICK e : index' = Append(index, e)
    BY <1>1 DEF PutAppend
  <2> QED
    BY <2>1 DEF WellFormed, TypeOK
<1>2. index' = index \/ \E p \in Proc : PutAppend(p)
  BY DEF Next, Get, Put, GetStat, GetLoad, GetMiss, GetFresh, GetBlob, PutBegin,
         PutBlob, PutRemember, Restart, Tick, vars
<1>3. Len(index) \in Nat
  BY DEF WellFormed, TypeOK
<1> QED
  BY <1>1, <1>2, <1>3

LEMMA NowGrows == ASSUME WellFormed, [Next]_vars PROVE now =< now' /\ now' \in Nat
BY BoundsAssumption, TypeStep
   DEF WellFormed, TypeOK, Time, Next, Get, Put, GetStat, GetLoad, GetMiss,
       GetFresh, GetBlob, PutBegin, PutBlob, PutAppend, PutRemember, Restart,
       Tick, vars, disk, view, local, Return

LEMMA InCallStep == WellFormed /\ [Next]_vars => InCall'
<1> SUFFICES ASSUME WellFormed, [Next]_vars
             PROVE  InCall'
  OBVIOUS
<1>0. /\ Len(index) =< Len(index') /\ now =< now'
      /\ \A i \in 1 .. Len(index) : index'[i] = index[i]
      /\ Len(index) \in Nat /\ Len(index') \in Nat /\ now \in Nat /\ now' \in Nat
  BY IndexGrows, NowGrows, TypeStep DEF WellFormed, TypeOK, Time
<1> USE DEF WellFormed, TypeOK, disk, view, local, Return
<1>1. ASSUME NEW p \in Proc, NEW k \in Key, GetStat(p, k)
      PROVE  InCall'
  BY <1>1, <1>0 DEF GetStat, InCall
<1>2. ASSUME NEW p \in Proc, GetLoad(p)
      PROVE  InCall'
  BY <1>2, <1>0 DEF GetLoad, InCall
<1>3. ASSUME NEW p \in Proc, GetMiss(p)
      PROVE  InCall'
  BY <1>3, <1>0 DEF GetMiss, InCall
<1>4. ASSUME NEW p \in Proc, GetFresh(p)
      PROVE  InCall'
  <2>1. wanted[p] \in Key /\ index[Found(p)] \in Line
    BY <1>4 DEF GetFresh, Fresh, Found, InCall, ViewsPointIntoIndex
  <2>2. reply'[p] \in Hit
    BY <1>4, <2>1, <1>0 DEF GetFresh, Age, Line, Hit, Time, BlobState
  <2> QED
    BY <1>4, <2>2, <1>0, NothingAssumption DEF GetFresh, InCall
<1>5. ASSUME NEW p \in Proc, GetBlob(p)
      PROVE  InCall'
  BY <1>5, <1>0 DEF GetBlob, InCall
<1>6. ASSUME NEW p \in Proc, NEW k \in Key, NEW o \in Output, PutBegin(p, k, o)
      PROVE  InCall'
  BY <1>6, <1>0 DEF PutBegin, InCall, Record, Time
<1>7. ASSUME NEW p \in Proc, PutBlob(p)
      PROVE  InCall'
  BY <1>7, <1>0 DEF PutBlob, InCall
<1>8. ASSUME NEW p \in Proc, PutAppend(p)
      PROVE  InCall'
  <2>1. PICK w : index' = Append(index, [key |-> record[p].key,
                                         out |-> record[p].out,
                                         at |-> record[p].at, whole |-> w])
    BY <1>8 DEF PutAppend
  <2>2. Len(index') = Len(index) + 1 /\ index'[Len(index) + 1].key = record[p].key
    BY <2>1
  <2> QED
    BY <1>8, <2>2, <1>0 DEF PutAppend, InCall
<1>9. ASSUME NEW p \in Proc, PutRemember(p)
      PROVE  InCall'
  BY <1>9, <1>0 DEF PutRemember, InCall
<1>10. ASSUME NEW p \in Proc, Restart(p)
      PROVE  InCall'
  BY <1>10, <1>0 DEF Restart, InCall
<1>11. CASE Tick
  BY <1>11, <1>0 DEF Tick, InCall, Record, Time
<1>12. CASE UNCHANGED vars
  BY <1>12 DEF vars, InCall
<1> QED
  BY <1>1, <1>2, <1>3, <1>4, <1>5, <1>6, <1>7, <1>8, <1>9, <1>10, <1>11, <1>12
     DEF Next, Get, Put

(* A view changes in three ways only: it is loaded, it takes a line of the *)
(* process's own, or it is lost.                                           *)
LEMMA ViewStep ==
    ASSUME WellFormed, [Next]_vars, NEW p \in Proc, NEW k \in Key
    PROVE  \/ memory'[p][k] = memory[p][k]
           \/ memory'[p][k] = LoadIndex[k] /\ pc[p] = "load"
           \/ /\ memory'[p][k] = mark[p]
              /\ pc[p] = "remember"
              /\ record[p].key = k
           \/ memory'[p][k] = 0 /\ memSize'[p] = Unloaded
<1> DEFINE Outcome == \/ memory'[p][k] = memory[p][k]
                      \/ memory'[p][k] = LoadIndex[k] /\ pc[p] = "load"
                      \/ /\ memory'[p][k] = mark[p]
                         /\ pc[p] = "remember"
                         /\ record[p].key = k
                      \/ memory'[p][k] = 0 /\ memSize'[p] = Unloaded
<1> USE DEF WellFormed, TypeOK, disk, view, local
<1>1. ASSUME NEW q \in Proc, GetLoad(q)
      PROVE  Outcome
  BY <1>1 DEF GetLoad
<1>2. ASSUME NEW q \in Proc, PutRemember(q)
      PROVE  Outcome
  <2>1. CASE memSize[q] = Unloaded
    BY <1>2, <2>1 DEF PutRemember
  <2>2. CASE memSize[q] # Unloaded
    <3>1. memory' = [memory EXCEPT ![q][record[q].key] = mark[q]] /\ pc[q] = "remember"
      BY <1>2, <2>2 DEF PutRemember
    <3>2. CASE q = p /\ record[q].key = k
      BY <3>1, <3>2
    <3>3. CASE ~ (q = p /\ record[q].key = k)
      BY <3>1, <3>3
    <3> QED
      BY <3>2, <3>3
  <2> QED
    BY <2>1, <2>2
<1>3. ASSUME NEW q \in Proc, Restart(q)
      PROVE  Outcome
  BY <1>3 DEF Restart, NoView
<1>4. \/ UNCHANGED memory
      \/ \E q \in Proc : GetLoad(q) \/ PutRemember(q) \/ Restart(q)
  BY DEF Next, Get, Put, GetStat, GetMiss, GetFresh, GetBlob, PutBegin, PutBlob,
         PutAppend, Tick, vars
<1> QED
  BY <1>1, <1>2, <1>3, <1>4

LEMMA ViewsStep == WellFormed /\ [Next]_vars => ViewsPointIntoIndex'
<1> SUFFICES ASSUME WellFormed, [Next]_vars, NEW p \in Proc, NEW k \in Key,
                    memory'[p][k] # 0
             PROVE  /\ memory'[p][k] \in 1 .. Len(index')
                    /\ index'[memory'[p][k]].key = k
  BY DEF ViewsPointIntoIndex
<1>0. /\ Len(index) =< Len(index')
      /\ \A i \in 1 .. Len(index) : index'[i] = index[i]
      /\ Len(index) \in Nat /\ Len(index') \in Nat
  BY IndexGrows, TypeStep DEF WellFormed, TypeOK
<1>1. /\ memory'[p][k] \in 1 .. Len(index)
      /\ index[memory'[p][k]].key = k
  <2>1. CASE memory'[p][k] = LoadIndex[k]
    BY <2>1, LoadIndexType DEF WellFormed, LinesOf
  <2>2. CASE memory'[p][k] = mark[p] /\ pc[p] = "remember" /\ record[p].key = k
    BY <2>2 DEF WellFormed, InCall
  <2>3. CASE memory'[p][k] = memory[p][k]
    BY <2>3 DEF WellFormed, ViewsPointIntoIndex
  <2> QED
    BY <2>1, <2>2, <2>3, ViewStep
<1> QED
  BY <1>0, <1>1

LEMMA WellFormedStep == WellFormed /\ [Next]_vars => WellFormed'
BY TypeStep, InCallStep, ViewsStep DEF WellFormed

LEMMA WellFormedInit == Init => WellFormed
BY BoundsAssumption, EmptySeq
   DEF Init, WellFormed, TypeOK, InCall, ViewsPointIntoIndex, BlobState, Time,
       NoView, Unloaded

(* Every variable keeps its type, in every behaviour of the directory.     *)
THEOREM TypeCorrect == Spec => []TypeOK
<1>1. WellFormed => TypeOK
  BY DEF WellFormed
<1> QED
  BY <1>1, WellFormedInit, WellFormedStep, PTL DEF Spec

-----------------------------------------------------------------------------
(* The blob of every line is on disk, and so is the blob of a line that is *)
(* about to be written: blobs are never taken away.                        *)
BlobBeforeLine ==
    /\ IndexedBlobExists
    /\ \A p \in Proc : pc[p] \in {"append", "remember"} =>
                            blobs[record[p].out] # "absent"

LEMMA BlobsStay ==
    ASSUME WellFormed, [Next]_vars, NEW o \in Output, blobs[o] # "absent"
    PROVE  blobs'[o] # "absent"
<1>1. ASSUME NEW p \in Proc, PutBlob(p)
      PROVE  blobs'[o] # "absent"
  BY <1>1 DEF PutBlob, Written, WellFormed, TypeOK
<1>2. UNCHANGED blobs \/ \E p \in Proc : PutBlob(p)
  BY DEF Next, Get, Put, GetStat, GetLoad, GetMiss, GetFresh, GetBlob, PutBegin,
         PutAppend, PutRemember, Restart, Tick, vars, disk
<1> QED
  BY <1>1, <1>2

LEMMA BlobStep == WellFormed /\ BlobBeforeLine /\ [Next]_vars => BlobBeforeLine'
<1> SUFFICES ASSUME WellFormed, BlobBeforeLine, [Next]_vars
             PROVE  BlobBeforeLine'
  OBVIOUS
<1> USE DEF WellFormed, TypeOK, disk, view, local, Return
<1>1. ASSUME NEW p \in Proc, pc'[p] \in {"append", "remember"}
      PROVE  blobs'[record'[p].out] # "absent"
  <2>1. \/ PutBlob(p)
        \/ pc[p] \in {"append", "remember"} /\ record'[p] = record[p]
    BY <1>1 DEF Next, Get, Put, GetStat, GetLoad, GetMiss, GetFresh, GetBlob,
                PutBegin, PutBlob, PutAppend, PutRemember, Restart, Tick, vars
  <2>2. CASE PutBlob(p)
    <3>1. record[p].out \in Output /\ record'[p] = record[p]
      BY <2>2 DEF PutBlob, InCall, Record
    <3> QED
      BY <2>2, <3>1 DEF PutBlob, Written
  <2>3. CASE pc[p] \in {"append", "remember"} /\ record'[p] = record[p]
    <3>1. record[p].out \in Output
      BY <2>3 DEF InCall, Record
    <3> QED
      BY <2>3, <3>1, BlobsStay DEF BlobBeforeLine
  <2> QED
    BY <2>1, <2>2, <2>3
<1>2. IndexedBlobExists'
  <2>1. ASSUME NEW p \in Proc, PutAppend(p)
        PROVE  IndexedBlobExists'
    <3>1. PICK w : index' = Append(index, [key |-> record[p].key,
                                           out |-> record[p].out,
                                           at |-> record[p].at, whole |-> w])
      BY <2>1 DEF PutAppend
    <3>2. /\ Len(index') = Len(index) + 1
          /\ index'[Len(index) + 1].out = record[p].out
          /\ \A i \in 1 .. Len(index) : index'[i] = index[i]
          /\ Len(index) \in Nat
      BY <3>1
    <3>3. blobs[record[p].out] # "absent" /\ UNCHANGED blobs
      BY <2>1 DEF PutAppend, BlobBeforeLine
    <3>4. \A i \in 1 .. Len(index') : i \in 1 .. Len(index) \/ i = Len(index) + 1
      BY <3>2
    <3> QED
      BY <3>2, <3>3, <3>4 DEF IndexedBlobExists, BlobBeforeLine
  <2>2. ASSUME UNCHANGED index
        PROVE  IndexedBlobExists'
    <3> SUFFICES ASSUME NEW i \in 1 .. Len(index)
                 PROVE  blobs'[index[i].out] # "absent"
      BY <2>2 DEF IndexedBlobExists
    <3>1. index[i] \in Line
      OBVIOUS
    <3>2. index[i].out \in Output /\ blobs[index[i].out] # "absent"
      BY <3>1 DEF Line, IndexedBlobExists, BlobBeforeLine
    <3> QED
      BY <3>2, BlobsStay
  <2>3. UNCHANGED index \/ \E p \in Proc : PutAppend(p)
    BY DEF Next, Get, Put, GetStat, GetLoad, GetMiss, GetFresh, GetBlob, PutBegin,
           PutBlob, PutRemember, Restart, Tick, vars
  <2> QED
    BY <2>1, <2>2, <2>3
<1> QED
  BY <1>1, <1>2 DEF BlobBeforeLine

(* No index line ever names a blob that is not on disk, whatever the order *)
(* of the writers' steps and wherever a process dies (put).                *)
THEOREM BlobsPrecedeLines == Spec => []IndexedBlobExists
<1>1. Init => BlobBeforeLine
  BY DEF Init, BlobBeforeLine, IndexedBlobExists
<1>2. BlobBeforeLine => IndexedBlobExists
  BY DEF BlobBeforeLine
<1> QED
  BY <1>1, <1>2, WellFormedInit, WellFormedStep, BlobStep, PTL DEF Spec

-----------------------------------------------------------------------------
(* Every answer, and every answer in the making, is backed by a line.      *)
RecordsDated == \A i \in 1 .. Len(index) : index[i].at =< now

Backed(h) == \E i \in 1 .. Len(index) : /\ index[i].key = h.key
                                        /\ index[i].out = h.out
                                        /\ h.age =< now - index[i].at

RepliesBacked ==
    \A p \in Proc : reply[p] # Nothing =>
        /\ pc[p] \in {"idle", "blob"}
        /\ reply[p].age \in 0 .. TTL
        /\ pc[p] = "idle" => reply[p].bytes = "whole"
        /\ Backed(reply[p])

LEMMA DatedStep == WellFormed /\ RecordsDated /\ [Next]_vars => RecordsDated'
<1> SUFFICES ASSUME WellFormed, RecordsDated, [Next]_vars,
                    NEW i \in 1 .. Len(index')
             PROVE  index'[i].at =< now'
  BY DEF RecordsDated
<1>0. now =< now' /\ now \in Nat /\ now' \in Nat /\ Len(index) \in Nat
  BY NowGrows DEF WellFormed, TypeOK, Time
<1>1. CASE i \in 1 .. Len(index)
  <2>1. index'[i] = index[i] /\ index[i] \in Line /\ index[i].at =< now
    BY <1>1, IndexGrows DEF WellFormed, TypeOK, RecordsDated
  <2> QED
    BY <1>0, <2>1 DEF Line, Time
<1>2. CASE i \notin 1 .. Len(index)
  <2>1. PICK p \in Proc : PutAppend(p)
    BY <1>2 DEF Next, Get, Put, GetStat, GetLoad, GetMiss, GetFresh, GetBlob,
                PutBegin, PutBlob, PutRemember, Restart, Tick, vars, disk
  <2>2. PICK w : index' = Append(index, [key |-> record[p].key,
                                         out |-> record[p].out,
                                         at |-> record[p].at, whole |-> w])
    BY <2>1 DEF PutAppend
  <2>3. i = Len(index) + 1 /\ index'[i].at = record[p].at
    BY <1>0, <1>2, <2>2 DEF WellFormed, TypeOK
  <2>4. record[p].at =< now /\ now' = now
    BY <2>1 DEF PutAppend, WellFormed, InCall
  <2> QED
    BY <2>3, <2>4
<1> QED
  BY <1>1, <1>2

(* Lines and clock only grow, so a backed answer stays backed.             *)
LEMMA StaysBacked ==
    ASSUME WellFormed, [Next]_vars, NEW h \in Hit, Backed(h)
    PROVE  Backed(h)'
<1>1. PICK i \in 1 .. Len(index) : /\ index[i].key = h.key
                                  /\ index[i].out = h.out
                                  /\ h.age =< now - index[i].at
  BY DEF Backed
<1>2. /\ i \in 1 .. Len(index') /\ index'[i] = index[i]
      /\ index[i] \in Line
      /\ now =< now' /\ now \in Nat /\ now' \in Nat
  BY IndexGrows, NowGrows, TypeStep DEF WellFormed, TypeOK, Time
<1>3. h.age =< now' - index'[i].at
  BY <1>1, <1>2 DEF Line, Time, Hit
<1> QED
  BY <1>1, <1>2, <1>3 DEF Backed

(* A reply is made in one way only, by a lookup; a step of the process may *)
(* then complete it or drop it.                                            *)
LEMMA FreshIsBacked ==
    ASSUME WellFormed, RecordsDated, NEW p \in Proc, GetFresh(p)
    PROVE  /\ reply'[p] \in Hit
           /\ reply'[p].age \in 0 .. TTL
           /\ Backed(reply'[p])
           /\ pc'[p] = "blob"
<1> DEFINE i == Found(p)
<1>1. wanted[p] \in Key /\ i # 0
  BY DEF WellFormed, InCall, GetFresh, Fresh
<1>2. i \in 1 .. Len(index) /\ index[i].key = wanted[p] /\ index[i] \in Line
  BY <1>1 DEF Found, WellFormed, TypeOK, ViewsPointIntoIndex
<1>3. Age(p) =< TTL /\ Age(p) = now - index[i].at /\ index[i].at =< now
  BY <1>2 DEF GetFresh, Fresh, Age, RecordsDated
<1>4. now \in Nat /\ index[i].at \in Nat /\ index[i].out \in Output
  BY <1>2, BoundsAssumption DEF WellFormed, TypeOK, Line, Time
<1>5. Age(p) \in 0 .. TTL
  BY <1>3, <1>4, TTLAssumption
<1>6. reply'[p] = [key |-> wanted[p], out |-> index[i].out, age |-> Age(p),
                   bytes |-> "absent"]
  BY DEF GetFresh, WellFormed, TypeOK
<1>7. reply'[p] \in Hit
  BY <1>1, <1>4, <1>5, <1>6 DEF Hit, BlobState
<1>8. Backed(reply'[p])
  BY <1>2, <1>3, <1>4, <1>5, <1>6 DEF Backed
<1> QED
  BY <1>5, <1>6, <1>7, <1>8 DEF GetFresh, WellFormed, TypeOK

LEMMA RepliesStep ==
    WellFormed /\ RecordsDated /\ RepliesBacked /\ [Next]_vars => RepliesBacked'
<1> SUFFICES ASSUME WellFormed, RecordsDated, RepliesBacked, [Next]_vars,
                    NEW p \in Proc, reply'[p] # Nothing
             PROVE  /\ pc'[p] \in {"idle", "blob"}
                    /\ reply'[p].age \in 0 .. TTL
                    /\ pc'[p] = "idle" => reply'[p].bytes = "whole"
                    /\ Backed(reply[p])'
  BY DEF RepliesBacked
<1> USE DEF disk, view, local, Return
<1>1. CASE GetFresh(p)
  <2>1. Backed(reply'[p]) /\ UNCHANGED <<index, now>>
    BY <1>1, FreshIsBacked DEF GetFresh
  <2>2. Backed(reply[p])'
    BY <2>1 DEF Backed
  <2> QED
    BY <1>1, <2>2, FreshIsBacked
<1>2. CASE GetBlob(p)
  <2>1. /\ reply[p] # Nothing
        /\ reply[p] \in Hit
        /\ reply'[p] = [reply[p] EXCEPT !.bytes = blobs[reply[p].out]]
        /\ blobs[reply[p].out] = "whole"
        /\ pc'[p] = "idle"
    BY <1>2 DEF GetBlob, Verified, InCall, WellFormed, TypeOK
  <2>2. /\ reply'[p].key = reply[p].key /\ reply'[p].out = reply[p].out
        /\ reply'[p].age = reply[p].age /\ reply'[p].bytes = "whole"
    BY <2>1 DEF Hit
  <2>3. Backed(reply[p]) /\ reply[p].age \in 0 .. TTL
    BY <2>1 DEF RepliesBacked
  <2>4. UNCHANGED <<index, now>>
    BY <1>2 DEF GetBlob
  <2> QED
    BY <2>1, <2>2, <2>3, <2>4 DEF Backed
<1>3. CASE ~ GetFresh(p) /\ ~ GetBlob(p)
  <2>1. reply'[p] = reply[p] /\ pc'[p] = pc[p]
    BY <1>3 DEF Next, Get, Put, GetStat, GetLoad, GetMiss, GetFresh, GetBlob,
                PutBegin, PutBlob, PutAppend, PutRemember, Restart, Tick, vars,
                WellFormed, TypeOK, RepliesBacked
  <2>2. reply[p] \in Hit /\ Backed(reply[p])
    BY <2>1 DEF WellFormed, TypeOK, RepliesBacked
  <2>3. \A h \in Hit : Backed(h) => Backed(h)'
    BY StaysBacked
  <2>4. Backed(reply[p])'
    BY <2>1, <2>2, <2>3 DEF Backed
  <2> QED
    BY <2>1, <2>4 DEF RepliesBacked
<1> QED
  BY <1>1, <1>2, <1>3

LEMMA RepliesInit == Init => RecordsDated /\ RepliesBacked
BY DEF Init, RecordsDated, RepliesBacked

(* An answer is always a whole output that was put under the key asked     *)
(* for, inside the TTL when it was looked up (get), for any number of      *)
(* processes and with writes cut short anywhere.                           *)
THEOREM AnswersWerePut == Spec => []HitWasPut
<1>1. WellFormed /\ RepliesBacked => HitWasPut
  BY TTLAssumption DEF WellFormed, TypeOK, RepliesBacked, HitWasPut, Backed
<1> QED
  BY <1>1, RepliesInit, WellFormedInit, WellFormedStep, DatedStep, RepliesStep,
     PTL DEF Spec

-----------------------------------------------------------------------------
(* The cache directory implements CacheContract.                           *)

PutsOf == {RecordAt(i) : i \in 1 .. Len(index)}
AnswerOf == [p \in Proc |-> IF pc[p] = "idle" THEN reply[p] ELSE Nothing]

LEMMA ContractStep ==
    ASSUME WellFormed, RecordsDated, RepliesBacked, RepliesBacked', [Next]_vars
    PROVE  [Contract!Next]_(Contract!vars)
<1> USE DEF disk, view, local, Return
<1> DEFINE Quiet == PutsOf' = PutsOf /\ AnswerOf' = AnswerOf /\ now' = now
           Silent(p) == /\ PutsOf' = PutsOf /\ now' = now
                        /\ AnswerOf' = [AnswerOf EXCEPT ![p] = Nothing]
<1>1. ASSUME NEW p \in Proc, Silent(p)
      PROVE  Contract!Next
  BY <1>1 DEF Contract!Next, Contract!Forget, PutsOf, AnswerOf
<1>2. ASSUME Quiet
      PROVE  UNCHANGED Contract!vars
  BY <1>2 DEF Contract!vars, PutsOf, AnswerOf
<1>3. ASSUME NEW p \in Proc, UNCHANGED <<index, now>>,
             \/ \E k \in Key : GetStat(p, k)
             \/ GetMiss(p)
             \/ \E k \in Key, o \in Output : PutBegin(p, k, o)
             \/ PutRemember(p)
             \/ Restart(p)
      PROVE  Silent(p)
  <2>1. PutsOf' = PutsOf
    BY <1>3 DEF PutsOf, RecordAt
  <2>2. /\ pc'[p] # "idle" \/ reply'[p] = Nothing
        /\ \A q \in Proc \ {p} : pc'[q] = pc[q] /\ reply'[q] = reply[q]
    BY <1>3 DEF WellFormed, TypeOK, GetStat, GetMiss, PutBegin, PutRemember, Restart
  <2>3. AnswerOf' = [AnswerOf EXCEPT ![p] = Nothing]
    BY <2>2 DEF AnswerOf
  <2> QED
    BY <1>3, <2>1, <2>3
<1>4. ASSUME NEW p \in Proc, UNCHANGED <<index, now>>,
             GetLoad(p) \/ GetFresh(p) \/ PutBlob(p)
      PROVE  Quiet
  BY <1>4 DEF WellFormed, TypeOK, GetLoad, GetFresh, PutBlob, PutsOf, RecordAt, AnswerOf
<1>5. ASSUME NEW p \in Proc, GetBlob(p)
      PROVE  Contract!Next
  <2>1. CASE reply'[p] = Nothing
    <3>1. Silent(p)
      BY <1>5, <2>1 DEF WellFormed, TypeOK, GetBlob, PutsOf, RecordAt, AnswerOf
    <3> QED
      BY <1>1, <3>1
  <2>2. CASE reply'[p] # Nothing
    <3>1. /\ reply'[p] \in Hit /\ reply'[p].bytes = "whole"
          /\ reply'[p].age \in 0 .. TTL
          /\ Backed(reply[p])'
      BY <1>5, <2>2, TypeStep DEF RepliesBacked, GetBlob, WellFormed, TypeOK
    <3>2. UNCHANGED <<index, now>>
      BY <1>5 DEF GetBlob
    <3>3. PICK i \in 1 .. Len(index) : /\ index[i].key = reply'[p].key
                                      /\ index[i].out = reply'[p].out
                                      /\ reply'[p].age =< now - index[i].at
      BY <3>1, <3>2 DEF Backed
    <3>4. reply'[p] \in [key : Key, out : Output, age : 0 .. TTL, bytes : {"whole"}]
      BY <3>1 DEF Hit
    <3>5. RecordAt(i) \in PutsOf
      BY DEF PutsOf
    <3>6. /\ RecordAt(i).key = reply'[p].key
          /\ RecordAt(i).out = reply'[p].out
          /\ reply'[p].age =< now - RecordAt(i).at
      BY <3>3 DEF RecordAt
    <3>7. reply'[p] \in Contract!Servable
      BY <3>4, <3>5, <3>6 DEF Contract!Servable, PutsOf
    <3>8. AnswerOf' = [AnswerOf EXCEPT ![p] = reply'[p]]
      BY <1>5 DEF WellFormed, TypeOK, GetBlob, AnswerOf
    <3>9. PutsOf' = PutsOf
      BY <3>2 DEF PutsOf, RecordAt
    <3>10. Contract!Serve(p)
      BY <3>2, <3>7, <3>8, <3>9 DEF Contract!Serve, PutsOf, AnswerOf
    <3> QED
      BY <3>10 DEF Contract!Next
  <2> QED
    BY <2>1, <2>2
<1>6. ASSUME NEW p \in Proc, PutAppend(p)
      PROVE  Contract!Next
  <2> DEFINE r == record[p]
  <2>1. r \in Record
    BY <1>6 DEF PutAppend, WellFormed, InCall
  <2>2. PICK w : index' = Append(index, [key |-> r.key, out |-> r.out,
                                         at |-> r.at, whole |-> w])
    BY <1>6 DEF PutAppend
  <2>3. /\ Len(index') = Len(index) + 1 /\ Len(index) \in Nat
        /\ \A i \in 1 .. Len(index) : index'[i] = index[i]
        /\ index'[Len(index) + 1] = [key |-> r.key, out |-> r.out,
                                     at |-> r.at, whole |-> w]
    BY <2>2 DEF WellFormed, TypeOK
  <2>n. PICK n \in Nat : n = Len(index) + 1
    BY <2>3
  <2>4. RecordAt(n)' = r
    BY <2>1, <2>3, <2>n DEF RecordAt, Record
  <2>5. \A i \in 1 .. Len(index) : RecordAt(i)' = RecordAt(i)
    BY <2>3 DEF RecordAt
  <2>6. 1 .. Len(index') = (1 .. Len(index)) \cup {n}
    BY <2>3, <2>n
  <2>7. PutsOf' = PutsOf \cup {r}
    BY <2>4, <2>5, <2>6 DEF PutsOf
  <2>8. AnswerOf' = AnswerOf /\ now' = now
    BY <1>6 DEF PutAppend, WellFormed, TypeOK, AnswerOf
  <2>9. r \in Contract!Record
    BY <2>1 DEF Record, Time, Contract!Record
  <2>10. Contract!Put(r)
    BY <2>7, <2>8 DEF Contract!Put, PutsOf, AnswerOf
  <2> QED
    BY <2>9, <2>10 DEF Contract!Next
<1>7. CASE Tick
  <2>1. PutsOf' = PutsOf /\ AnswerOf' = AnswerOf
    BY <1>7 DEF Tick, PutsOf, AnswerOf, RecordAt
  <2> QED
    BY <1>7, <2>1 DEF Tick, PutsOf, AnswerOf, Contract!Next, Contract!Tick
<1>8. CASE UNCHANGED vars
  <2>1. Quiet
    BY <1>8 DEF vars, PutsOf, AnswerOf, RecordAt
  <2> QED
    BY <1>2, <2>1
<1>9. ASSUME NEW p \in Proc, Get(p) \/ Put(p) \/ Restart(p)
      PROVE  \/ Contract!Next
             \/ UNCHANGED Contract!vars
  <2>1. \/ GetBlob(p) \/ PutAppend(p)
        \/ UNCHANGED <<index, now>>
    BY <1>9 DEF Get, Put, GetStat, GetLoad, GetMiss, GetFresh, PutBegin, PutBlob,
                PutRemember, Restart
  <2> QED
    BY <1>1, <1>2, <1>3, <1>4, <1>5, <1>6, <1>9, <2>1 DEF Get, Put
<1> QED
  BY <1>7, <1>8, <1>9, <1>7 DEF Next, Contract!Next, Contract!Tick

(* Whatever the processes, crashes and short writes do, the coordinator    *)
(* sees the promises of CacheContract kept (get, put).                     *)
THEOREM ImplementsContract == Spec => MeetsContract
<1>1. Init => Contract!Init
  BY EmptySeq DEF Init, Contract!Init
<1>2. Spec => [](WellFormed /\ RecordsDated /\ RepliesBacked)
  BY RepliesInit, WellFormedInit, WellFormedStep, DatedStep, RepliesStep, PTL DEF Spec
<1> QED
  BY <1>1, <1>2, ContractStep, PTL DEF Spec, MeetsContract, Contract!Spec

-----------------------------------------------------------------------------
(* Views only advance.  The strengthening: a line a process has just       *)
(* written is newer than everything in its view.                           *)
OwnLineNewest ==
    \A p \in Proc : pc[p] = "remember" =>
        \A k \in Key : memory[p][k] =< mark[p]

LEMMA OwnLineStep == WellFormed /\ OwnLineNewest /\ [Next]_vars => OwnLineNewest'
<1> SUFFICES ASSUME WellFormed, OwnLineNewest, [Next]_vars,
                    NEW p \in Proc, NEW k \in Key, pc'[p] = "remember"
             PROVE  memory'[p][k] =< mark'[p]
  BY DEF OwnLineNewest
<1> USE DEF WellFormed, TypeOK, disk, view, local, Return
<1>1. CASE PutAppend(p)
  <2>1. memory'[p][k] = memory[p][k] /\ mark'[p] = Len(index) + 1
    BY <1>1 DEF PutAppend
  <2>2. memory[p][k] =< Len(index) /\ Len(index) \in Nat /\ memory[p][k] \in Nat
    BY DEF ViewsPointIntoIndex
  <2> QED
    BY <2>1, <2>2
<1>2. CASE ~ PutAppend(p)
  <2>1. pc[p] = "remember" /\ UNCHANGED <<memory[p], mark[p]>>
    <3>1. ASSUME NEW q \in Proc, PutRemember(q)
          PROVE  pc[p] = "remember" /\ UNCHANGED <<memory[p], mark[p]>>
      <4>1. q # p
        BY <3>1 DEF PutRemember
      <4>2. \/ UNCHANGED memory
            \/ memory' = [memory EXCEPT ![q][record[q].key] = mark[q]]
        BY <3>1 DEF PutRemember
      <4>3. memory'[p] = memory[p]
        BY <4>1, <4>2
      <4> QED
        BY <3>1, <4>1, <4>3 DEF PutRemember
    <3>2. ASSUME NEW q \in Proc, Get(q) \/ Restart(q)
          PROVE  pc[p] = "remember" /\ UNCHANGED <<memory[p], mark[p]>>
      <4>1. q # p
        BY <3>2 DEF Get, GetStat, GetLoad, GetMiss, GetFresh, GetBlob, Restart
      <4> QED
        BY <3>2, <4>1 DEF Get, GetStat, GetLoad, GetMiss, GetFresh, GetBlob, Restart
    <3>3. ASSUME NEW q \in Proc, Put(q), ~ PutAppend(q), ~ PutRemember(q)
          PROVE  pc[p] = "remember" /\ UNCHANGED <<memory[p], mark[p]>>
      BY <3>3 DEF Put, PutBegin, PutBlob
    <3>4. ASSUME NEW q \in Proc, q # p, PutAppend(q)
          PROVE  pc[p] = "remember" /\ UNCHANGED <<memory[p], mark[p]>>
      BY <3>4 DEF PutAppend
    <3>5. CASE Tick \/ UNCHANGED vars
      BY <3>5 DEF Tick, vars
    <3> QED
      BY <1>2, <3>1, <3>2, <3>3, <3>4, <3>5 DEF Next
  <2> QED
    BY <2>1 DEF OwnLineNewest
<1> QED
  BY <1>1, <1>2

LEMMA ViewAdvances ==
    ASSUME WellFormed, OwnLineNewest, [Next]_vars,
           NEW p \in Proc, NEW k \in Key, memory[p][k] \in LinesOf(k)
    PROVE  memory'[p][k] >= memory[p][k] \/ memSize'[p] = Unloaded
<1>1. memory[p][k] \in Nat /\ Len(index) \in Nat
  BY DEF WellFormed, TypeOK
<1>2. CASE memory'[p][k] = LoadIndex[k]
  <2>1. LoadIndex[k] \in Nat
    BY LoadIndexType DEF WellFormed
  <2> QED
    BY <1>1, <1>2, <2>1, LoadIndexType DEF WellFormed
<1>3. CASE memory'[p][k] = mark[p] /\ pc[p] = "remember"
  BY <1>1, <1>3 DEF OwnLineNewest, WellFormed, TypeOK
<1>4. CASE memory'[p][k] = memory[p][k]
  BY <1>1, <1>4
<1> QED
  BY <1>2, <1>3, <1>4, ViewStep

(* No interleaving of puts, gets, reloads and short writes makes a process *)
(* forget a newer record for an older one (get_index_record, put).         *)
THEOREM ViewsOnlyAdvance == Spec => ViewNeverGoesBack
<1>1. Init => OwnLineNewest
  BY DEF Init, OwnLineNewest
<1>2. Spec => [](WellFormed /\ OwnLineNewest)
  BY <1>1, WellFormedInit, WellFormedStep, OwnLineStep, PTL DEF Spec
<1> DEFINE Advance == \A p \in Proc, k \in Key :
                        \/ memory'[p][k] >= memory[p][k]
                        \/ memSize'[p] = Unloaded
                        \/ memory[p][k] \notin LinesOf(k)
<1>3. WellFormed /\ OwnLineNewest /\ [Next]_vars => [Advance]_vars
  BY ViewAdvances
<1> QED
  BY <1>2, <1>3, PTL DEF Spec, ViewNeverGoesBack
=============================================================================
