--------------------------- MODULE RagStoreProofs ---------------------------
(* What TLAPS proves of RagStore, for any ids, harvests and processes.     *)
EXTENDS RagStore, TLAPS

(* A harvest that has begun knows its id.                                  *)
Wanting ==
    /\ \A h \in Harvest : pc[h] # "idle" => want[h] \in Record
    /\ \A h \in threads : pc[h] # "idle"

TypeInv == TypeOK /\ Wanting

LEMMA ListedTyped == TypeOK => Listed \in Seq(Record)
BY DEF TypeOK, Listed, Manifest

LEMMA ChainHeadTyped ==
    ASSUME NEW files \in [Record -> Bytes], NEW ids \in Seq(Record)
    PROVE  ChainHead(files, ids) \in Seq(Bytes)
<1>1. \A i \in 1 .. Len(ids) : files[ids[i]] \in Bytes
  OBVIOUS
<1> QED
  BY <1>1, Len(ids) \in Nat DEF ChainHead

LEMMA IndexedTyped ==
    ASSUME TypeOK, NEW r \in Record, NEW b \in Bytes
    PROVE  Indexed(r, b) \in [Record -> Bytes]
BY DEF TypeOK, Indexed

LEMMA ManifestThere ==
    ASSUME NEW ids \in Seq(Record), NEW head \in Seq(Bytes)
    PROVE  [records |-> ids, head |-> head] # Absent
BY MarkersAssumption DEF Manifest

LEMMA TypeInvHolds == Spec => []TypeInv
<1>1. Init => TypeInv
  BY DEF Init, TypeInv, TypeOK, Wanting, Idle, Bytes, Command
<1>2. TypeInv /\ [Next]_vars => TypeInv'
  <2> SUFFICES ASSUME TypeInv, [Next]_vars PROVE TypeInv'
    OBVIOUS
  <2> USE HostAssumption DEF TypeInv, TypeOK, Wanting, disk, history
  <2>0. Listed \in Seq(Record)
    BY ListedTyped
  <2>1. CASE UNCHANGED vars
    BY <2>1 DEF vars
  <2>2. ASSUME NEW p \in Process, Open(p) PROVE TypeInv'
    BY <2>0, <2>2 DEF Open
  <2>3. ASSUME NEW p \in Process, Stop(p) PROVE TypeInv'
    BY <2>3 DEF Stop
  <2>4. ASSUME NEW h \in Harvest, NEW r \in Record, Check(h, r) PROVE TypeInv'
    BY <2>4 DEF Check
  <2>5. ASSUME NEW h \in Harvest, WriteRecord(h) PROVE TypeInv'
    BY <2>5 DEF WriteRecord, Bytes
  <2>6. ASSUME NEW h \in Harvest, GiveUp(h) PROVE TypeInv'
    BY <2>6 DEF GiveUp
  <2>7. ASSUME NEW h \in Harvest, Cancel(h) PROVE TypeInv'
    BY <2>7 DEF Cancel
  <2>8. ASSUME NEW h \in Harvest, ThreadEnds(h) PROVE TypeInv'
    <3>1. Indexed(want[h], h) \in [Record -> Bytes]
      BY <2>8, IndexedTyped DEF ThreadEnds, Bytes
    <3> QED
      BY <2>8, <3>1 DEF ThreadEnds
  <2>9. ASSUME NEW h \in Harvest, ThreadRaises(h) PROVE TypeInv'
    BY <2>9 DEF ThreadRaises
  <2>10. ASSUME NEW h \in Harvest, List(h) PROVE TypeInv'
    <3> DEFINE ids == Append(recordIds[Host[h]], want[h])
    <3>1. ids \in Seq(Record) /\ Host[h] \in Process
      BY <2>10 DEF List
    <3>2. ChainHead(yaml, ids) \in Seq(Bytes)
      BY <3>1, ChainHeadTyped
    <3>3. manifest' \in Manifest \cup {Absent}
      <4>1. [records |-> ids, head |-> ChainHead(yaml, ids)] \in Manifest
        BY <3>1, <3>2 DEF Manifest
      <4>2. \/ manifest' = [records |-> ids, head |-> ChainHead(yaml, ids)]
            \/ manifest' = manifest
        BY <2>10 DEF List
      <4> QED
        BY <4>1, <4>2
    <3>4. recordIds' \in [Process -> Seq(Record)]
      BY <2>10, <3>1 DEF List
    <3>5. pc' \in [Harvest -> {"idle", "wait", "index", "list", "done", "skipped",
                               "failed", "cancelled", "dead"}]
      BY <2>10 DEF List
    <3>6. Wanting'
      BY <2>10 DEF List
    <3>7. UNCHANGED <<yaml, index, open, want, threads, cli, company, rebuilds>>
      BY <2>10 DEF List
    <3> QED
      BY <3>3, <3>4, <3>5, <3>6, <3>7
  <2>11. CASE Parse
    <3>1. cli' = [at |-> "wipe", parsed |-> Listed, ids |-> <<>>, next |-> 1]
      BY <2>11 DEF Parse, Idle
    <3>2. cli' \in Command
      BY <2>0, <3>1 DEF Command
    <3>3. UNCHANGED <<yaml, index, manifest, open, recordIds, pc, want, threads,
                      company, rebuilds>>
      BY <2>11 DEF Parse
    <3> QED
      BY <3>2, <3>3
  <2>12. CASE Wipe
    <3>1. cli' \in Command
      BY <2>12 DEF Wipe, Command
    <3> QED
      BY <2>12, <3>1 DEF Wipe, Bytes
  <2>13. CASE Unlink
    <3>1. cli' = [at |-> "add", parsed |-> cli.parsed, ids |-> <<>>, next |-> cli.next]
      BY <2>13 DEF Unlink, Command
    <3>2. cli' \in Command
      BY <3>1 DEF Command
    <3> QED
      BY <2>13, <3>2 DEF Unlink
  <2>14. CASE AddAgain
    <3> DEFINE r == cli.parsed[cli.next]
               ids == Append(cli.ids, r)
    <3>1. r \in Record /\ ids \in Seq(Record) /\ yaml[r] \in Bytes
      BY <2>14 DEF AddAgain, Command
    <3>2. ChainHead(yaml, ids) \in Seq(Bytes) /\ Indexed(r, yaml[r]) \in [Record -> Bytes]
      BY <3>1, ChainHeadTyped, IndexedTyped
    <3>3. manifest' \in Manifest \cup {Absent} /\ index' \in [Record -> Bytes]
      <4>1. [records |-> ids, head |-> ChainHead(yaml, ids)] \in Manifest
        BY <3>1, <3>2 DEF Manifest
      <4>2. index' = Indexed(r, yaml[r])
        BY <2>14 DEF AddAgain
      <4>3. \/ manifest' = [records |-> ids, head |-> ChainHead(yaml, ids)]
            \/ manifest' = manifest
        BY <2>14 DEF AddAgain
      <4> QED
        BY <3>2, <4>1, <4>2, <4>3
    <3>4. cli' \in Command
      <4>1. \/ cli' = [cli EXCEPT !.ids = ids, !.next = cli.next + 1]
            \/ cli' = [at |-> "idle", parsed |-> <<>>, ids |-> <<>>, next |-> 1]
        <5>1. cli' = [cli EXCEPT !.ids = ids, !.next = cli.next + 1] \/ cli' = Idle
          BY <2>14 DEF AddAgain
        <5> QED
          BY <5>1 DEF Idle, Command
      <4>2. cli.next + 1 \in Nat \ {0}
        BY DEF Command
      <4>3. cli.at \in {"idle", "wipe", "unlink", "add", "ended"} /\ cli.parsed \in Seq(Record)
        BY DEF Command
      <4>4. CASE cli' = [cli EXCEPT !.ids = ids, !.next = cli.next + 1]
        <5>1. cli' = [at |-> cli.at, parsed |-> cli.parsed, ids |-> ids,
                      next |-> cli.next + 1]
          BY <4>4 DEF Command
        <5> HIDE DEF ids, TypeOK, TypeInv
        <5> QED
          BY <3>1, <4>2, <4>3, <5>1 DEF Command
      <4>5. CASE cli' = [at |-> "idle", parsed |-> <<>>, ids |-> <<>>, next |-> 1]
        BY <4>5 DEF Command
      <4> QED
        BY <4>1, <4>4, <4>5
    <3> QED
      BY <2>14, <3>3, <3>4 DEF AddAgain
  <2>15. CASE Succeed
    <3>1. cli' \in Command
      BY <2>15 DEF Succeed, Command
    <3> QED
      BY <2>15, <3>1 DEF Succeed
  <2>16. CASE Exit
    BY <2>16 DEF Exit, Idle, Command
  <2>17. CASE Abort
    BY <2>17 DEF Abort, Idle, Command
  <2> QED
    BY <2>1, <2>2, <2>3, <2>4, <2>5, <2>6, <2>7, <2>8, <2>9, <2>10, <2>11,
       <2>12, <2>13, <2>14, <2>15, <2>16, <2>17 DEF Next, Add, Rebuild
<1> QED
  BY <1>1, <1>2, PTL DEF Spec

(* The files, the rosters and the harvests keep their types.               *)
THEOREM TypeCorrect == Spec => []TypeOK
<1>1. TypeInv => TypeOK
  BY DEF TypeInv
<1> QED
  BY <1>1, TypeInvHolds, PTL

-----------------------------------------------------------------------------
(* Sequences as rosters                                                    *)

LEMMA EmptyRoster == ToSet(<<>>) = {}
BY DEF ToSet

LEMMA AppendRoster ==
    ASSUME NEW S, NEW s \in Seq(S), NEW x \in S
    PROVE  ToSet(Append(s, x)) = ToSet(s) \cup {x}
<1>1. DOMAIN s = 1 .. Len(s) /\ Len(s) \in Nat
  OBVIOUS
<1>2. DOMAIN Append(s, x) = 1 .. Len(s) + 1
  OBVIOUS
<1>3. \A i \in 1 .. Len(s) : Append(s, x)[i] = s[i]
  OBVIOUS
<1>4. Append(s, x)[Len(s) + 1] = x
  OBVIOUS
<1>5. ASSUME NEW y \in ToSet(Append(s, x)) PROVE y \in ToSet(s) \cup {x}
  <2>1. PICK i \in 1 .. Len(s) + 1 : y = Append(s, x)[i]
    BY <1>2 DEF ToSet
  <2>2. CASE i = Len(s) + 1
    BY <1>4, <2>1, <2>2
  <2>3. CASE i # Len(s) + 1
    <3>1. i \in 1 .. Len(s)
      BY <1>1, <2>1, <2>3
    <3> QED
      BY <1>1, <1>3, <2>1, <3>1 DEF ToSet
  <2> QED
    BY <2>2, <2>3
<1>6. ASSUME NEW y \in ToSet(s) PROVE y \in ToSet(Append(s, x))
  <2>1. PICK i \in 1 .. Len(s) : y = s[i]
    BY <1>1 DEF ToSet
  <2>2. i \in DOMAIN Append(s, x) /\ Append(s, x)[i] = y
    BY <1>1, <1>2, <1>3, <2>1
  <2> QED
    BY <2>2 DEF ToSet
<1>7. x \in ToSet(Append(s, x))
  <2>1. Len(s) + 1 \in DOMAIN Append(s, x)
    BY <1>1, <1>2
  <2> QED
    BY <1>4, <2>1 DEF ToSet
<1> QED
  BY <1>5, <1>6, <1>7

LEMMA RosterTyped ==
    ASSUME NEW S, NEW s \in Seq(S), NEW x \in ToSet(s)
    PROVE  x \in S
BY DEF ToSet

-----------------------------------------------------------------------------
(* What each step of the command makes of its locals.                      *)
Locals(at, parsed, ids, next) ==
    cli'.at = at /\ cli'.parsed = parsed /\ cli'.ids = ids /\ cli'.next = next

Reset == Locals("idle", <<>>, <<>>, 1)

LEMMA CommandSteps ==
    ASSUME cli \in Command
    PROVE  /\ Parse => Locals("wipe", Listed, <<>>, 1)
           /\ Wipe => Locals("unlink", cli.parsed, cli.ids, cli.next)
           /\ Unlink => Locals("add", cli.parsed, <<>>, cli.next)
           /\ AddAgain => \/ Reset
                          \/ Locals("add", cli.parsed,
                                    Append(cli.ids, cli.parsed[cli.next]), cli.next + 1)
           /\ Succeed => Locals("ended", cli.parsed, cli.ids, cli.next)
           /\ Exit => Reset
           /\ Abort => Reset
<1> USE DEF Locals, Reset, Command
<1>1. Parse => Locals("wipe", Listed, <<>>, 1)
  BY DEF Parse, Idle
<1>2. Wipe => Locals("unlink", cli.parsed, cli.ids, cli.next)
  BY DEF Wipe
<1>3. Unlink => Locals("add", cli.parsed, <<>>, cli.next)
  BY DEF Unlink
<1>4. ASSUME AddAgain
      PROVE  \/ Reset
             \/ Locals("add", cli.parsed, Append(cli.ids, cli.parsed[cli.next]), cli.next + 1)
  <2> DEFINE ids == Append(cli.ids, cli.parsed[cli.next])
  <2>1. \/ cli' = Idle
        \/ cli' = [cli EXCEPT !.ids = ids, !.next = cli.next + 1]
    BY <1>4 DEF AddAgain
  <2>2. cli.at = "add"
    BY <1>4 DEF AddAgain
  <2> HIDE DEF ids
  <2>3. CASE cli' = Idle
    BY <2>3 DEF Idle
  <2>4. CASE cli' = [cli EXCEPT !.ids = ids, !.next = cli.next + 1]
    <3>1. Locals("add", cli.parsed, ids, cli.next + 1)
      BY <2>2, <2>4
    <3> QED
      BY <3>1 DEF ids
  <2> QED
    BY <2>1, <2>3, <2>4
<1>5. Succeed => Locals("ended", cli.parsed, cli.ids, cli.next)
  BY DEF Succeed
<1>6. Exit => Reset
  BY DEF Exit, Idle
<1>7. Abort => Reset
  BY DEF Abort, Idle
<1> QED
  BY <1>1, <1>2, <1>3, <1>4, <1>5, <1>6, <1>7

-----------------------------------------------------------------------------
(* Every record that anything names has its file: files are replaced, never*)
(* removed.                                                                *)
FilesInv ==
    /\ Readable(Listed)
    /\ \A p \in Process : Readable(recordIds[p])
    /\ \A h \in Harvest : pc[h] \in {"index", "list"} => yaml[want[h]] # Absent
    /\ Readable(cli.parsed)
    /\ Readable(cli.ids)

LEMMA FilesKept ==
    ASSUME TypeInv, [Next]_vars, NEW r \in Record, yaml[r] # Absent
    PROVE  yaml'[r] # Absent
<1>1. ASSUME NEW h \in Harvest, WriteRecord(h) PROVE yaml'[r] # Absent
  <2>1. yaml' = [yaml EXCEPT ![want[h]] = h] /\ yaml \in [Record -> Bytes]
    BY <1>1 DEF WriteRecord, TypeInv, TypeOK
  <2> QED
    BY <2>1, MarkersAssumption
<1>2. CASE ~ \E h \in Harvest : WriteRecord(h)
  <2>1. UNCHANGED yaml
    BY <1>2 DEF Next, vars, disk, Add, Rebuild, Open, Stop, Check, GiveUp, Cancel, ThreadEnds,
                ThreadRaises, List, Parse, Wipe, Unlink, AddAgain, Succeed, Exit, Abort
  <2> QED
    BY <2>1
<1> QED
  BY <1>1, <1>2

(* A roster all of whose ids were named before.                            *)
LEMMA StaysReadable ==
    ASSUME TypeInv, [Next]_vars, NEW s \in Seq(Record), Readable(s)
    PROVE  \A r \in ToSet(s) : yaml'[r] # Absent
BY FilesKept, RosterTyped DEF Readable

LEMMA FilesInvHolds == Spec => []FilesInv
<1>1. Init => FilesInv
  BY EmptyRoster DEF Init, FilesInv, Idle, Readable, Listed
<1>2. TypeInv /\ TypeInv' /\ FilesInv /\ [Next]_vars => FilesInv'
  <2> SUFFICES ASSUME TypeInv, TypeInv', FilesInv, [Next]_vars PROVE FilesInv'
    OBVIOUS
  <2>1. Listed \in Seq(Record) /\ Listed' \in Seq(Record)
    BY ListedTyped DEF TypeInv, TypeOK, Listed, Manifest
  <2>2. /\ recordIds \in [Process -> Seq(Record)]
        /\ want \in [Harvest -> Record \cup {Nothing}]
        /\ pc \in [Harvest -> {"idle", "wait", "index", "list", "done", "skipped",
                               "failed", "cancelled", "dead"}]
        /\ cli \in Command
    BY DEF TypeInv, TypeOK
  <2>3. \A r \in ToSet(Listed) : yaml'[r] # Absent
    BY <2>1, StaysReadable DEF FilesInv
  <2>4. \A p \in Process : \A r \in ToSet(recordIds[p]) : yaml'[r] # Absent
    BY <2>2, StaysReadable DEF FilesInv
  <2>5. \A r \in ToSet(cli.parsed) : yaml'[r] # Absent
    BY <2>2, StaysReadable DEF FilesInv, Command
  <2>6. \A r \in ToSet(cli.ids) : yaml'[r] # Absent
    BY <2>2, StaysReadable DEF FilesInv, Command
  <2>7. \A h \in Harvest : pc[h] \in {"index", "list"} => yaml'[want[h]] # Absent
    BY <2>2, FilesKept DEF FilesInv, TypeInv, Wanting
  <2> DEFINE Kept == /\ UNCHANGED <<manifest, recordIds, cli>>
                     /\ \A h \in Harvest : pc'[h] \in {"index", "list"} =>
                                               yaml'[want'[h]] # Absent
  <2>8. ASSUME Kept PROVE FilesInv'
    BY <2>3, <2>4, <2>5, <2>6, <2>8 DEF FilesInv, Readable, Listed
  <2> HIDE DEF Kept
  <2>9. CASE UNCHANGED vars
    BY <2>7, <2>8, <2>9 DEF vars, Kept
  <2>10. ASSUME NEW h \in Harvest, \/ GiveUp(h) \/ Cancel(h) \/ ThreadEnds(h) \/ ThreadRaises(h)
         PROVE  FilesInv'
    BY <2>2, <2>7, <2>8, <2>10 DEF GiveUp, Cancel, ThreadEnds, ThreadRaises, disk, Kept
  <2>11. ASSUME NEW h \in Harvest, NEW r \in Record, Check(h, r) PROVE FilesInv'
    BY <2>2, <2>7, <2>8, <2>11 DEF Check, disk, Kept
  <2>12. ASSUME NEW h \in Harvest, WriteRecord(h) PROVE FilesInv'
    <3>1. yaml'[want[h]] = h /\ h # Absent
      BY <2>12, MarkersAssumption DEF WriteRecord, TypeInv, TypeOK, Wanting
    <3> QED
      BY <2>2, <2>7, <2>8, <2>12, <3>1 DEF WriteRecord, Kept
  <2>13. ASSUME NEW p \in Process, Stop(p) PROVE FilesInv'
    <3>1. \A q \in Process : recordIds'[q] \in {recordIds[q], <<>>}
      BY <2>2, <2>13 DEF Stop
    <3>2. \A h \in Harvest : pc'[h] \in {"index", "list"} => pc'[h] = pc[h]
      BY <2>2, <2>13 DEF Stop
    <3>3. UNCHANGED <<manifest, cli, want>>
      BY <2>13 DEF Stop, disk
    <3> QED
      BY <2>3, <2>4, <2>5, <2>6, <2>7, <3>1, <3>2, <3>3, EmptyRoster
         DEF FilesInv, Readable, Listed
  <2>14. ASSUME NEW p \in Process, Open(p) PROVE FilesInv'
    <3>1. \A q \in Process : recordIds'[q] \in {recordIds[q], Listed}
      BY <2>2, <2>14 DEF Open
    <3>2. UNCHANGED <<manifest, cli, want, pc>>
      BY <2>14 DEF Open, disk
    <3> QED
      BY <2>3, <2>4, <2>5, <2>6, <2>7, <3>1, <3>2 DEF FilesInv, Readable, Listed
  <2>15. ASSUME NEW h \in Harvest, List(h) PROVE FilesInv'
    <3> DEFINE ids == Append(recordIds[Host[h]], want[h])
    <3>1. Host[h] \in Process /\ want[h] \in Record /\ pc[h] = "list"
      BY <2>2, <2>15, HostAssumption DEF List, TypeInv, Wanting
    <3>2. ToSet(ids) = ToSet(recordIds[Host[h]]) \cup {want[h]}
      BY <2>2, <3>1, AppendRoster
    <3>3. \A r \in ToSet(ids) : yaml'[r] # Absent
      BY <2>4, <2>7, <3>1, <3>2
    <3>4. \A q \in Process : recordIds'[q] \in {recordIds[q], ids}
      BY <2>2, <2>15 DEF List
    <3>5. Listed' \in {Listed, ids}
      <4>0. [records |-> ids, head |-> ChainHead(yaml, ids)] # Absent
        <5>1. ids \in Seq(Record)
          BY <2>2, <3>1
        <5>2. ChainHead(yaml, ids) \in Seq(Bytes)
          BY <5>1, ChainHeadTyped DEF TypeInv, TypeOK
        <5> QED
          BY <5>1, <5>2, ManifestThere
      <4>1. \/ manifest' = manifest
            \/ manifest' = [records |-> ids, head |-> ChainHead(yaml, ids)]
        BY <2>15 DEF List
      <4> HIDE DEF ids
      <4> QED
        BY <4>0, <4>1, <2>1 DEF Listed
    <3>6. \A g \in Harvest : pc'[g] \in {"index", "list"} => pc'[g] = pc[g]
      BY <2>2, <2>15 DEF List
    <3>7. UNCHANGED <<cli, want>>
      BY <2>15 DEF List
    <3> HIDE DEF ids
    <3> QED
      BY <2>3, <2>4, <2>5, <2>6, <2>7, <3>3, <3>4, <3>5, <3>6, <3>7
         DEF FilesInv, Readable
  <2>16. CASE Rebuild
    <3>1. UNCHANGED <<recordIds, want, pc>>
      BY <2>16 DEF Rebuild, Parse, Wipe, Unlink, AddAgain, Succeed, Exit, Abort
    <3>2. cli'.parsed \in {cli.parsed, Listed, <<>>}
      BY <2>2, <2>16, CommandSteps DEF Rebuild, Locals, Reset
    <3>3. CASE AddAgain
      <4> DEFINE r == cli.parsed[cli.next]
                 ids == Append(cli.ids, r)
      <4>1. r \in ToSet(cli.parsed) /\ r \in Record
        BY <2>2, <3>3 DEF AddAgain, Command, ToSet
      <4>2. ToSet(ids) = ToSet(cli.ids) \cup {r}
        BY <2>2, <4>1, AppendRoster DEF Command
      <4>3. \A x \in ToSet(ids) : yaml'[x] # Absent
        BY <2>5, <2>6, <4>1, <4>2
      <4>4. \/ manifest' = manifest
            \/ manifest' = [records |-> ids, head |-> ChainHead(yaml, ids)]
        BY <3>3 DEF AddAgain
      <4>0. ids \in Seq(Record) /\ ChainHead(yaml, ids) \in Seq(Bytes)
        <5>1. ids \in Seq(Record)
          BY <2>2, <4>1 DEF Command
        <5>2. yaml \in [Record -> Bytes]
          BY DEF TypeInv, TypeOK
        <5> HIDE DEF ids
        <5> QED
          BY <5>1, <5>2, ChainHeadTyped
      <4> HIDE DEF ids
      <4>5. Listed' \in {Listed, ids} /\ cli'.ids \in {<<>>, ids}
        <5>1. [records |-> ids, head |-> ChainHead(yaml, ids)] # Absent
          BY <4>0, ManifestThere
        <5>2. cli'.ids \in {<<>>, ids}
          BY <2>2, <3>3, CommandSteps DEF Locals, Reset, ids
        <5> QED
          BY <4>4, <5>1, <5>2 DEF Listed
      <4> QED
        BY <2>3, <2>4, <2>5, <2>7, <3>1, <3>2, <4>3, <4>5, EmptyRoster DEF FilesInv, Readable
    <3>4. CASE ~ AddAgain
      <4>1. cli'.ids \in {cli.ids, <<>>}
        BY <2>2, <2>16, <3>4, CommandSteps DEF Rebuild, Locals, Reset
      <4>2. manifest' \in {manifest, Absent}
        BY <2>16, <3>4 DEF Rebuild, Parse, Wipe, Unlink, Succeed, Exit, Abort, disk
      <4>3. Listed' \in {Listed, <<>>}
        BY <4>2 DEF Listed
      <4> QED
        BY <2>3, <2>4, <2>5, <2>6, <2>7, <3>1, <3>2, <4>1, <4>3, EmptyRoster DEF FilesInv, Readable
    <3> QED
      BY <3>3, <3>4
  <2> QED
    BY <2>9, <2>10, <2>11, <2>12, <2>13, <2>14, <2>15, <2>16 DEF Next, Add
<1> QED
  BY <1>1, <1>2, TypeInvHolds, PTL DEF Spec

(* Whatever dies or fails, no store ever fails to open for a record that   *)
(* the manifest lists and that has no file.                                *)
THEOREM ListedRecordsExist == Spec => []ListedExist
<1>1. FilesInv => ListedExist
  BY DEF FilesInv, ListedExist
<1> QED
  BY <1>1, FilesInvHolds, PTL

-----------------------------------------------------------------------------
(* The chain head is the roll of the files.                                *)

LEMMA ChainHeadRolls ==
    ASSUME NEW ids \in Seq(Record), NEW files
    PROVE  /\ Len(ChainHead(files, ids)) = Len(ids)
           /\ \A i \in 1 .. Len(ids) : ChainHead(files, ids)[i] = files[ids[i]]
<1>1. Len(ids) \in Nat
  OBVIOUS
<1> QED
  BY <1>1 DEF ChainHead

(* A manifest that was just written is exact.                              *)
LEMMA WrittenMatches ==
    ASSUME NEW ids \in Seq(Record), UNCHANGED yaml,
           manifest' = [records |-> ids, head |-> ChainHead(yaml, ids)]
    PROVE  HeadMatches'
<1>1. manifest'.records = ids /\ manifest'.head = ChainHead(yaml, ids)
  OBVIOUS
<1> QED
  BY <1>1, ChainHeadRolls DEF HeadMatches

(* One that stays matches, unless a record changes under a harvest that    *)
(* was announced.                                                          *)
LEMMA StaysMatching ==
    ASSUME TypeInv, FilesInv, HeadMatches, manifest' \in {manifest, Absent},
           \A r \in Record : yaml'[r] = yaml[r] \/ pc'[yaml'[r]] # "done",
           \A h \in Harvest : pc'[h] = "done" => pc[h] = "done"
    PROVE  HeadMatches'
<1> SUFFICES ASSUME manifest' = manifest, manifest # Absent PROVE HeadMatches'
  BY DEF HeadMatches
<1>1. manifest.records \in Seq(Record) /\ manifest.head \in Seq(Bytes)
  BY DEF TypeInv, TypeOK, Manifest
<1>2. ASSUME NEW i \in 1 .. Len(manifest.records)
      PROVE  LET bytes == yaml'[manifest.records[i]]
             IN  manifest.head[i] = bytes \/ pc'[bytes] # "done"
  <2> DEFINE r == manifest.records[i]
  <2>1. r \in Record /\ r \in ToSet(Listed)
    BY <1>1 DEF ToSet, Listed
  <2>2. yaml[r] \in Harvest
    BY <2>1 DEF TypeInv, TypeOK, FilesInv, Readable, Bytes
  <2>3. manifest.head[i] = yaml[r] \/ pc[yaml[r]] # "done"
    BY DEF HeadMatches
  <2> QED
    BY <2>1, <2>2, <2>3
<1> QED
  BY <1>2 DEF HeadMatches

LEMMA HeadMatchesHolds == Spec => []HeadMatches
<1>1. Init => HeadMatches
  BY DEF Init, HeadMatches
<1>2. TypeInv /\ FilesInv /\ HeadMatches /\ [Next]_vars => HeadMatches'
  <2> SUFFICES ASSUME TypeInv, FilesInv, HeadMatches, [Next]_vars PROVE HeadMatches'
    OBVIOUS
  <2>1. /\ pc \in [Harvest -> {"idle", "wait", "index", "list", "done", "skipped",
                               "failed", "cancelled", "dead"}]
        /\ yaml \in [Record -> Bytes]
        /\ recordIds \in [Process -> Seq(Record)]
        /\ cli \in Command
    BY DEF TypeInv, TypeOK
  <2>2. CASE UNCHANGED vars
    BY <2>2, StaysMatching DEF vars
  <2>3. ASSUME NEW p \in Process, Open(p) \/ Stop(p) PROVE HeadMatches'
    BY <2>1, <2>3, StaysMatching DEF Open, Stop, disk
  <2>4. ASSUME NEW h \in Harvest, NEW r \in Record, Check(h, r) PROVE HeadMatches'
    BY <2>1, <2>4, StaysMatching DEF Check, disk
  <2>5. ASSUME NEW h \in Harvest, \/ GiveUp(h) \/ Cancel(h) \/ ThreadEnds(h) \/ ThreadRaises(h)
        PROVE  HeadMatches'
    BY <2>1, <2>5, StaysMatching DEF GiveUp, Cancel, ThreadEnds, ThreadRaises, disk
  <2>6. ASSUME NEW h \in Harvest, WriteRecord(h) PROVE HeadMatches'
    <3>1. \A r \in Record : yaml'[r] = yaml[r] \/ yaml'[r] = h
      BY <2>1, <2>6 DEF WriteRecord
    <3>2. pc'[h] = "index" /\ \A g \in Harvest : pc'[g] = "done" => pc[g] = "done"
      BY <2>1, <2>6 DEF WriteRecord
    <3>3. UNCHANGED manifest
      BY <2>6 DEF WriteRecord
    <3> QED
      BY <3>1, <3>2, <3>3, StaysMatching
  <2>7. ASSUME NEW h \in Harvest, List(h) PROVE HeadMatches'
    <3> DEFINE ids == Append(recordIds[Host[h]], want[h])
    <3>1. ids \in Seq(Record)
      BY <2>1, <2>7, HostAssumption DEF List, TypeInv, Wanting
    <3>2. UNCHANGED yaml
      BY <2>7 DEF List
    <3>3. \/ manifest' = [records |-> ids, head |-> ChainHead(yaml, ids)]
          \/ manifest' = manifest /\ pc' = [pc EXCEPT ![h] = "failed"]
      BY <2>7 DEF List
    <3> HIDE DEF ids
    <3> QED
      BY <2>1, <3>1, <3>2, <3>3, WrittenMatches, StaysMatching
  <2>8. CASE AddAgain
    <3> DEFINE ids == Append(cli.ids, cli.parsed[cli.next])
    <3>1. ids \in Seq(Record)
      BY <2>1, <2>8 DEF AddAgain, Command
    <3>2. UNCHANGED <<yaml, pc>>
      BY <2>8 DEF AddAgain
    <3>3. \/ manifest' = [records |-> ids, head |-> ChainHead(yaml, ids)]
          \/ manifest' = manifest
      BY <2>8 DEF AddAgain
    <3> HIDE DEF ids
    <3> QED
      BY <2>1, <3>1, <3>2, <3>3, WrittenMatches, StaysMatching
  <2>9. CASE Parse \/ Wipe \/ Unlink \/ Succeed \/ Exit \/ Abort
    <3>1. UNCHANGED <<yaml, pc>> /\ manifest' \in {manifest, Absent}
      BY <2>9 DEF Parse, Wipe, Unlink, Succeed, Exit, Abort, disk
    <3> QED
      BY <3>1, StaysMatching
  <2> QED
    BY <2>2, <2>3, <2>4, <2>5, <2>6, <2>7, <2>8, <2>9 DEF Next, Add, Rebuild
<1> QED
  BY <1>1, <1>2, TypeInvHolds, FilesInvHolds, PTL DEF Spec

(* Through crashes, failures and rewritten records, the chain head is that *)
(* of the files, but for what an unfinished harvest rewrote.               *)
THEOREM HeadIsRoll == Spec => []HeadMatches
BY HeadMatchesHolds

-----------------------------------------------------------------------------
(* Who can be at work: a harvest and its thread live in an open process,   *)
(* and the command runs alone.                                             *)
HostInv ==
    /\ \A h \in Harvest : pc[h] \in {"wait", "index", "list"} => Host[h] \in open
    /\ \A h \in threads : Host[h] \in open
    /\ cli.at # "idle" => open = {}
    /\ company = "alone" => \A p, q \in open : p = q

LEMMA HostInvHolds == Spec => []HostInv
<1>1. Init => HostInv
  BY DEF Init, HostInv, Idle
<1>2. TypeInv /\ HostInv /\ [Next]_vars => HostInv'
  <2> SUFFICES ASSUME TypeInv, HostInv, [Next]_vars PROVE HostInv'
    OBVIOUS
  <2> USE DEF HostInv
  <2>1. /\ pc \in [Harvest -> {"idle", "wait", "index", "list", "done", "skipped",
                               "failed", "cancelled", "dead"}]
        /\ threads \subseteq Harvest
        /\ open \subseteq Process
        /\ cli \in Command
    BY DEF TypeInv, TypeOK
  <2>2. CASE UNCHANGED vars
    BY <2>2 DEF vars
  <2>3. ASSUME NEW p \in Process, Open(p) PROVE HostInv'
    BY <2>1, <2>3 DEF Open
  <2>4. ASSUME NEW p \in Process, Stop(p) PROVE HostInv'
    BY <2>1, <2>4 DEF Stop, history
  <2>5. ASSUME NEW h \in Harvest, NEW r \in Record, Check(h, r) PROVE HostInv'
    BY <2>1, <2>5 DEF Check, history
  <2>6. ASSUME NEW h \in Harvest, \/ WriteRecord(h) \/ GiveUp(h) \/ Cancel(h)
                                 \/ ThreadEnds(h) \/ ThreadRaises(h) \/ List(h)
        PROVE  HostInv'
    BY <2>1, <2>6 DEF WriteRecord, GiveUp, Cancel, ThreadEnds, ThreadRaises, List, history
  <2>7. CASE Rebuild
    <3>1. cli.at # "idle" \/ cli'.at = "idle" \/ open = {}
      BY <2>7 DEF Rebuild, Parse, Wipe, Unlink, AddAgain, Succeed, Exit, Abort
    <3>2. UNCHANGED <<open, threads, pc, company>>
      BY <2>7 DEF Rebuild, Parse, Wipe, Unlink, AddAgain, Succeed, Exit, Abort, history
    <3> QED
      BY <3>1, <3>2
  <2> QED
    BY <2>2, <2>3, <2>4, <2>5, <2>6, <2>7 DEF Next, Add
<1> QED
  BY <1>1, <1>2, TypeInvHolds, PTL DEF Spec

(* While the command runs nothing else moves.                              *)
LEMMA CommandAlone ==
    ASSUME TypeInv, HostInv, [Next]_vars, cli.at # "idle"
    PROVE  Rebuild \/ UNCHANGED vars
<1>1. ASSUME NEW p \in Process, Open(p) \/ Stop(p) PROVE FALSE
  BY <1>1 DEF HostInv, Open, Stop
<1>2. ASSUME NEW h \in Harvest, Add(h) PROVE FALSE
  BY <1>2 DEF HostInv, Add, WriteRecord, GiveUp, Cancel, ThreadEnds, ThreadRaises, List
<1>3. ASSUME NEW h \in Harvest, NEW r \in Record, Check(h, r) PROVE FALSE
  BY <1>3 DEF HostInv, Check
<1> QED
  BY <1>1, <1>2, <1>3 DEF Next

LEMMA OthersLeaveCommand ==
    ASSUME [Next]_vars, ~ Rebuild
    PROVE  UNCHANGED cli
BY DEF Next, vars, Add, Open, Stop, Check, WriteRecord, GiveUp, Cancel, ThreadEnds,
       ThreadRaises, List

-----------------------------------------------------------------------------
(* What the command has done so far.                                       *)
RebuildInv ==
    /\ cli.at \in {"wipe", "unlink"} => /\ cli.parsed = Listed
                                        /\ cli.ids = <<>> /\ cli.next = 1
    /\ cli.at = "unlink" => \A r \in Record : index[r] = Absent
    /\ cli.at \in {"add", "ended"} =>
          /\ cli.next =< Len(cli.parsed) + 1
          /\ Len(cli.ids) = cli.next - 1
          /\ \A i \in 1 .. Len(cli.ids) : cli.ids[i] = cli.parsed[i]
          /\ Listed = cli.ids
          /\ manifest # Absent => manifest.head = ChainHead(yaml, Listed)
          /\ \A r \in Record :
                index[r] = IF r \in ToSet(cli.ids) THEN yaml[r] ELSE Absent
    /\ cli.at = "ended" => cli.ids = cli.parsed

LEMMA RebuildInvHolds == Spec => []RebuildInv
<1>1. Init => RebuildInv
  BY DEF Init, RebuildInv, Idle
<1>2. TypeInv /\ HostInv /\ RebuildInv /\ [Next]_vars => RebuildInv'
  <2> SUFFICES ASSUME TypeInv, HostInv, RebuildInv, [Next]_vars PROVE RebuildInv'
    OBVIOUS
  <2>1. cli \in Command /\ Listed \in Seq(Record) /\ index \in [Record -> Bytes]
        /\ yaml \in [Record -> Bytes]
    BY ListedTyped DEF TypeInv, TypeOK
  <2>2. ASSUME cli'.at = "idle" PROVE RebuildInv'
    BY <2>2 DEF RebuildInv
  <2>3. CASE ~ Rebuild
    <3>1. CASE cli.at = "idle"
      BY <2>2, <2>3, <3>1, OthersLeaveCommand
    <3>2. CASE UNCHANGED vars
      BY <3>2 DEF RebuildInv, vars, Listed
    <3> QED
      BY <2>3, <3>1, <3>2, CommandAlone
  <2>4. CASE Parse
    <3>1. Locals("wipe", Listed, <<>>, 1) /\ UNCHANGED manifest
      BY <2>1, <2>4, CommandSteps DEF Parse, disk
    <3> QED
      BY <3>1 DEF RebuildInv, Locals, Listed
  <2>5. CASE Wipe
    <3>1. Locals("unlink", cli.parsed, cli.ids, cli.next) /\ UNCHANGED manifest
      BY <2>1, <2>5, CommandSteps DEF Wipe
    <3>2. cli.at = "wipe" /\ \A r \in Record : index'[r] = Absent
      BY <2>5 DEF Wipe
    <3> QED
      BY <3>1, <3>2 DEF RebuildInv, Locals, Listed
  <2>6. CASE Unlink
    <3>1. Locals("add", cli.parsed, <<>>, cli.next)
      BY <2>1, <2>6, CommandSteps
    <3>2. cli.at = "unlink" /\ manifest' = Absent /\ UNCHANGED <<yaml, index>>
      BY <2>6 DEF Unlink
    <3>3. Listed' = <<>>
      BY <3>2 DEF Listed
    <3>4. cli.next = 1 /\ Len(cli.parsed) \in Nat /\ \A r \in Record : index[r] = Absent
      BY <2>1, <3>2 DEF RebuildInv
    <3> QED
      BY <3>1, <3>2, <3>3, <3>4, EmptyRoster DEF RebuildInv, Locals
  <2>7. CASE AddAgain
    <3> DEFINE r == cli.parsed[cli.next]
               ids == Append(cli.ids, r)
    <3>1. CASE cli'.at = "idle"
      BY <2>2, <3>1
    <3>2. CASE cli'.at # "idle"
      <4>1. Locals("add", cli.parsed, ids, cli.next + 1)
        BY <2>1, <2>7, <3>2, CommandSteps DEF Reset, Locals
      <4>2. /\ cli.at = "add" /\ cli.next =< Len(cli.parsed)
            /\ index' = Indexed(r, yaml[r]) /\ UNCHANGED yaml
        BY <2>7 DEF AddAgain
      <4>3. manifest' = [records |-> ids, head |-> ChainHead(yaml, ids)]
        <5>1. cli' # Idle
          BY <3>2 DEF Idle
        <5> QED
          BY <2>7, <5>1 DEF AddAgain
      <4>4. /\ cli.next \in Nat \ {0} /\ cli.parsed \in Seq(Record) /\ cli.ids \in Seq(Record)
            /\ r \in Record
        BY <2>1, <4>2 DEF Command
      <4>5. ids \in Seq(Record) /\ Len(ids) = cli.next
            /\ \A i \in 1 .. Len(ids) : ids[i] = cli.parsed[i]
        BY <4>2, <4>4 DEF RebuildInv
      <4>6. ToSet(ids) = ToSet(cli.ids) \cup {r}
        BY <4>4, AppendRoster
      <4>7. \A x \in Record : index'[x] = IF x \in ToSet(ids) THEN yaml[x] ELSE Absent
        BY <2>1, <4>2, <4>4, <4>6 DEF RebuildInv, Indexed
      <4>8. Listed' = ids /\ manifest'.head = ChainHead(yaml, ids)
        <5>1. ChainHead(yaml, ids) \in Seq(Bytes)
          BY <2>1, <4>5, ChainHeadTyped
        <5> HIDE DEF ids
        <5> QED
          BY <4>3, <4>5, <5>1, ManifestThere DEF Listed
      <4> HIDE DEF ids
      <4> QED
        BY <4>1, <4>2, <4>4, <4>5, <4>7, <4>8 DEF RebuildInv, Locals
    <3> QED
      BY <3>1, <3>2
  <2>8. CASE Succeed
    <3>1. Locals("ended", cli.parsed, cli.ids, cli.next)
      BY <2>1, <2>8, CommandSteps
    <3>2. cli.at = "add" /\ cli.next > Len(cli.parsed) /\ UNCHANGED <<yaml, index, manifest>>
      BY <2>8 DEF Succeed, disk
    <3>3. cli.next \in Nat \ {0} /\ cli.parsed \in Seq(Record) /\ cli.ids \in Seq(Record)
      BY <2>1 DEF Command
    <3>4. cli.ids = cli.parsed
      <4>1. Len(cli.ids) = Len(cli.parsed)
        BY <3>2, <3>3 DEF RebuildInv
      <4>2. \A i \in 1 .. Len(cli.ids) : cli.ids[i] = cli.parsed[i]
        BY <3>2 DEF RebuildInv
      <4> QED
        BY <3>3, <4>1, <4>2
    <3>5. Listed' = Listed
      BY <3>2 DEF Listed
    <3> QED
      BY <3>1, <3>2, <3>4, <3>5 DEF RebuildInv, Locals
  <2>9. CASE Exit \/ Abort
    BY <2>1, <2>2, <2>9, CommandSteps DEF Reset, Locals
  <2> QED
    BY <2>3, <2>4, <2>5, <2>6, <2>7, <2>8, <2>9 DEF Rebuild
<1> QED
  BY <1>1, <1>2, TypeInvHolds, HostInvHolds, PTL DEF Spec

(* A rebuild that ends well has the manifest it began with and an index of *)
(* exactly its records.                                                    *)
THEOREM RebuildsReproduce == Spec => []RebuildReproduces
<1>1. RebuildInv => RebuildReproduces
  BY DEF RebuildInv, RebuildReproduces
<1> QED
  BY <1>1, RebuildInvHolds, PTL

-----------------------------------------------------------------------------
(* What listing an id makes of the roster and of the manifest.             *)
LEMMA ListSteps ==
    ASSUME TypeInv, NEW h \in Harvest, List(h)
    PROVE  LET ids == Append(recordIds[Host[h]], want[h])
           IN  /\ pc[h] = "list" /\ Host[h] \in Process /\ want[h] \in Record
               /\ ids \in Seq(Record)
               /\ ToSet(ids) = ToSet(recordIds[Host[h]]) \cup {want[h]}
               /\ recordIds' = [recordIds EXCEPT ![Host[h]] = ids]
               /\ \/ Listed' = ids
                  \/ Listed' = Listed /\ pc' = [pc EXCEPT ![h] = "failed"]
               /\ pc' \in {[pc EXCEPT ![h] = "done"], [pc EXCEPT ![h] = "failed"]}
               /\ UNCHANGED <<index, open, want, cli, company, rebuilds>>
<1> DEFINE ids == Append(recordIds[Host[h]], want[h])
<1>1. pc[h] = "list" /\ Host[h] \in Process /\ want[h] \in Record
  BY HostAssumption DEF List, TypeInv, Wanting
<1>2. recordIds[Host[h]] \in Seq(Record)
  BY <1>1 DEF TypeInv, TypeOK
<1>3. ids \in Seq(Record) /\ ToSet(ids) = ToSet(recordIds[Host[h]]) \cup {want[h]}
  BY <1>1, <1>2, AppendRoster
<1>4. ChainHead(yaml, ids) \in Seq(Bytes)
  BY <1>3, ChainHeadTyped DEF TypeInv, TypeOK
<1>5. /\ recordIds' = [recordIds EXCEPT ![Host[h]] = ids]
      /\ \/ /\ manifest' = [records |-> ids, head |-> ChainHead(yaml, ids)]
            /\ pc' = [pc EXCEPT ![h] = "done"]
         \/ UNCHANGED manifest /\ pc' = [pc EXCEPT ![h] = "failed"]
      /\ UNCHANGED <<index, open, want, cli, company, rebuilds>>
  BY DEF List, history
<1> HIDE DEF ids
<1>6. \/ Listed' = ids /\ pc' = [pc EXCEPT ![h] = "done"]
      \/ Listed' = Listed /\ pc' = [pc EXCEPT ![h] = "failed"]
  BY <1>3, <1>4, <1>5, ManifestThere DEF Listed
<1>7. QED
  BY <1>1, <1>3, <1>5, <1>6 DEF ids

(* The parts of a harvest and the command that write neither the manifest  *)
(* nor a roster, nor announce anything.                                    *)
Quiet == /\ UNCHANGED <<manifest, open, recordIds, cli, company, rebuilds>>
         /\ \A h \in Harvest : /\ pc'[h] = "done" => pc[h] = "done"
                               /\ pc[h] # "idle" => want'[h] = want[h]

LEMMA QuietSteps ==
    ASSUME TypeInv, NEW h \in Harvest,
           \/ WriteRecord(h) \/ GiveUp(h) \/ Cancel(h) \/ ThreadEnds(h) \/ ThreadRaises(h)
           \/ \E r \in Record : Check(h, r)
    PROVE  Quiet
<1> USE DEF TypeInv, TypeOK, Quiet, disk, history
<1>1. CASE WriteRecord(h)
  BY <1>1 DEF WriteRecord
<1>2. CASE GiveUp(h) \/ Cancel(h)
  BY <1>2 DEF GiveUp, Cancel
<1>3. CASE ThreadEnds(h)
  BY <1>3 DEF ThreadEnds
<1>4. CASE ThreadRaises(h)
  BY <1>4 DEF ThreadRaises
<1>5. ASSUME NEW r \in Record, Check(h, r) PROVE Quiet
  BY <1>5 DEF Check
<1> QED
  BY <1>1, <1>2, <1>3, <1>4, <1>5

-----------------------------------------------------------------------------
(* What is listed, or about to be, is in the index; who has no store open  *)
(* has no roster.                                                          *)
Queryable(ids) == \A r \in ToSet(ids) : index[r] # Absent

QueryInv ==
    /\ \A p \in Process \ open : recordIds[p] = <<>>
    /\ \A h \in Harvest : pc[h] = "list" => index[want[h]] # Absent
    /\ rebuilds = "whole" =>
          /\ cli.at \in {"idle", "wipe", "ended"} => Queryable(Listed)
          /\ \A p \in Process : Queryable(recordIds[p])

(* Only the wipe takes anything from the index.                            *)
LEMMA IndexKept ==
    ASSUME TypeInv, [Next]_vars, ~ Wipe, NEW r \in Record, index[r] # Absent
    PROVE  index'[r] # Absent
<1>1. index \in [Record -> Bytes]
  BY DEF TypeInv, TypeOK
<1>2. ASSUME NEW x, NEW bytes, index' = Indexed(x, bytes) PROVE index'[r] # Absent
  BY <1>1, <1>2 DEF Indexed
<1>3. ASSUME NEW h \in Harvest, ThreadEnds(h) PROVE index'[r] # Absent
  BY <1>2, <1>3 DEF ThreadEnds
<1>4. CASE AddAgain
  BY <1>2, <1>4 DEF AddAgain
<1>5. CASE ~ AddAgain /\ ~ \E h \in Harvest : ThreadEnds(h)
  <2>1. UNCHANGED index
    BY <1>5 DEF Next, vars, disk, Add, Rebuild, Open, Stop, Check, WriteRecord, GiveUp, Cancel,
                ThreadRaises, List, Parse, Unlink, Succeed, Exit, Abort
  <2> QED
    BY <2>1
<1> QED
  BY <1>3, <1>4, <1>5

LEMMA StaysQueryable ==
    ASSUME TypeInv, [Next]_vars, ~ Wipe, NEW s \in Seq(Record), Queryable(s)
    PROVE  \A r \in ToSet(s) : index'[r] # Absent
BY IndexKept, RosterTyped DEF Queryable

LEMMA QueryInvHolds == Spec => []QueryInv
<1>1. Init => QueryInv
  BY EmptyRoster DEF Init, QueryInv, Queryable, Listed
<1>2. TypeInv /\ FilesInv /\ HostInv /\ RebuildInv /\ QueryInv /\ [Next]_vars => QueryInv'
  <2> SUFFICES ASSUME TypeInv, FilesInv, HostInv, RebuildInv, QueryInv, [Next]_vars
               PROVE  QueryInv'
    OBVIOUS
  <2>1. /\ recordIds \in [Process -> Seq(Record)]
        /\ pc \in [Harvest -> {"idle", "wait", "index", "list", "done", "skipped",
                               "failed", "cancelled", "dead"}]
        /\ index \in [Record -> Bytes]
        /\ cli \in Command
        /\ Listed \in Seq(Record)
        /\ threads \subseteq Harvest
    BY ListedTyped DEF TypeInv, TypeOK
  <2>2. ASSUME ~ Wipe
        PROVE  /\ rebuilds = "whole" /\ cli.at \in {"idle", "wipe", "ended"} =>
                     \A r \in ToSet(Listed) : index'[r] # Absent
               /\ rebuilds = "whole" =>
                     \A p \in Process : \A r \in ToSet(recordIds[p]) : index'[r] # Absent
               /\ \A h \in Harvest : pc[h] = "list" => index'[want[h]] # Absent
    <3>1. \A h \in Harvest : pc[h] = "list" => want[h] \in Record
      BY DEF TypeInv, Wanting
    <3> QED
      BY <2>1, <2>2, <3>1, StaysQueryable, IndexKept DEF QueryInv
  <2>3. CASE UNCHANGED vars
    BY <2>3 DEF QueryInv, Queryable, Listed, vars
  <2>4. ASSUME NEW p \in Process, Open(p) PROVE QueryInv'
    BY <2>1, <2>4 DEF QueryInv, Queryable, Listed, Open, disk
  <2>5. ASSUME NEW p \in Process, Stop(p) PROVE QueryInv'
    <3>1. \A q \in Process : recordIds'[q] = IF q = p THEN <<>> ELSE recordIds[q]
      BY <2>1, <2>5 DEF Stop
    <3>2. /\ open' = open \ {p} /\ UNCHANGED <<index, manifest, want, cli, rebuilds>>
          /\ \A h \in Harvest : pc'[h] = "list" => pc[h] = "list"
      BY <2>1, <2>5 DEF Stop, disk, history
    <3> QED
      BY <3>1, <3>2, EmptyRoster DEF QueryInv, Queryable, Listed
  <2>6. ASSUME NEW h \in Harvest,
               \/ WriteRecord(h) \/ GiveUp(h) \/ Cancel(h) \/ ThreadEnds(h) \/ ThreadRaises(h)
               \/ \E r \in Record : Check(h, r)
        PROVE  QueryInv'
    <3>1. ~ Wipe
      BY <2>6 DEF HostInv, WriteRecord, GiveUp, Cancel, ThreadEnds, ThreadRaises, Check, Wipe
    <3>2. Quiet
      BY <2>6, QuietSteps
    <3>3. \A g \in Harvest : pc'[g] = "list" => index'[want'[g]] # Absent
      <4>1. CASE ThreadEnds(h)
        <5>1. index'[want[h]] # Absent
          BY <2>1, <4>1, MarkersAssumption DEF ThreadEnds, Indexed, TypeInv, Wanting
        <5>2. \A g \in Harvest : pc'[g] = "list" => g = h \/ pc[g] = "list"
          BY <2>1, <4>1 DEF ThreadEnds
        <5> QED
          BY <2>2, <3>1, <4>1, <5>1, <5>2 DEF ThreadEnds
      <4>2. CASE ~ ThreadEnds(h)
        <5>1. \A g \in Harvest : pc'[g] = "list" => pc[g] = "list"
          BY <2>1, <2>6, <4>2 DEF WriteRecord, GiveUp, Cancel, ThreadRaises, Check
        <5> QED
          BY <2>2, <3>1, <3>2, <5>1 DEF Quiet
      <4> QED
        BY <4>1, <4>2
    <3> QED
      BY <2>2, <3>1, <3>2, <3>3 DEF QueryInv, Queryable, Quiet, Listed
  <2>7. ASSUME NEW h \in Harvest, List(h) PROVE QueryInv'
    <3> DEFINE ids == Append(recordIds[Host[h]], want[h])
    <3>1. /\ pc[h] = "list" /\ Host[h] \in Process
          /\ ToSet(ids) = ToSet(recordIds[Host[h]]) \cup {want[h]}
          /\ recordIds' = [recordIds EXCEPT ![Host[h]] = ids]
          /\ Listed' \in {Listed, ids}
          /\ pc' \in {[pc EXCEPT ![h] = "done"], [pc EXCEPT ![h] = "failed"]}
          /\ UNCHANGED <<index, open, want, cli, rebuilds>>
      BY <2>7, ListSteps
    <3> HIDE DEF ids
    <3>2. Host[h] \in open
      BY <3>1 DEF HostInv
    <3>3. \A p \in Process : recordIds'[p] = IF p = Host[h] THEN ids ELSE recordIds[p]
      BY <2>1, <3>1
    <3>4. rebuilds = "whole" => \A r \in ToSet(ids) : index[r] # Absent
      BY <3>1 DEF QueryInv, Queryable
    <3>5. \A g \in Harvest : pc'[g] = "list" => pc[g] = "list"
      BY <2>1, <3>1
    <3> QED
      BY <3>1, <3>2, <3>3, <3>4, <3>5 DEF QueryInv, Queryable
  <2>8. CASE Rebuild
    <3>1. UNCHANGED <<open, recordIds, want, pc>>
      BY <2>8 DEF Rebuild, Parse, Wipe, Unlink, AddAgain, Succeed, Exit, Abort
    <3>2. open = {}
      BY <2>8 DEF HostInv, Rebuild, Parse, Wipe, Unlink, AddAgain, Succeed, Exit, Abort
    <3>3. \A p \in Process : ToSet(recordIds[p]) = {}
      BY <3>2, EmptyRoster DEF QueryInv
    <3>4. \A h \in Harvest : pc[h] # "list"
      BY <3>2 DEF HostInv
    <3>5. ASSUME rebuilds' = "whole", cli'.at \in {"idle", "wipe", "ended"}
          PROVE  \A r \in ToSet(Listed') : index'[r] # Absent
      <4>1. CASE Parse \/ Exit
        <5>1. cli.at \in {"idle", "ended"} /\ UNCHANGED <<index, manifest, rebuilds>>
          BY <4>1 DEF Parse, Exit, disk, history
        <5> QED
          BY <3>5, <5>1 DEF QueryInv, Queryable, Listed
      <4>2. CASE Wipe
        BY <2>1, <3>5, <4>2, CommandSteps DEF Locals
      <4>3. CASE Unlink
        BY <2>1, <3>5, <4>3, CommandSteps DEF Locals
      <4>4. CASE AddAgain
        <5>1. cli'.at = "idle"
          BY <2>1, <3>5, <4>4, CommandSteps DEF Locals, Reset
        <5>2. cli' # [cli EXCEPT !.ids = Append(cli.ids, cli.parsed[cli.next]), !.next = @ + 1]
          BY <2>1, <4>4, <5>1 DEF AddAgain, Command
        <5>3. rebuilds' = "cut"
          BY <4>4, <5>2 DEF AddAgain
        <5> QED
          BY <3>5, <5>3
      <4>5. CASE Succeed
        <5>1. cli.at = "add" /\ UNCHANGED <<yaml, index, manifest>>
          BY <4>5 DEF Succeed, disk
        <5>2. \A r \in ToSet(Listed) : r \in Record /\ index[r] = yaml[r]
          BY <2>1, <5>1, RosterTyped DEF RebuildInv
        <5>3. \A r \in ToSet(Listed) : yaml[r] # Absent
          BY DEF FilesInv, Readable
        <5> QED
          BY <5>1, <5>2, <5>3 DEF Listed
      <4>6. CASE Abort
        <5>1. cli.at = "wipe" /\ rebuilds = "whole" /\ UNCHANGED <<index, manifest>>
          BY <3>5, <4>6 DEF Abort, disk
        <5> QED
          BY <5>1 DEF QueryInv, Queryable, Listed
      <4> QED
        BY <2>8, <4>1, <4>2, <4>3, <4>4, <4>5, <4>6 DEF Rebuild
    <3> QED
      BY <3>1, <3>3, <3>4, <3>5 DEF QueryInv, Queryable
  <2> QED
    BY <2>3, <2>4, <2>5, <2>6, <2>7, <2>8 DEF Next, Add
<1> QED
  BY <1>1, <1>2, TypeInvHolds, FilesInvHolds, HostInvHolds, RebuildInvHolds, PTL DEF Spec

(* Unless a rebuild was cut short and none succeeded since, whatever else  *)
(* died or failed, every listed record can be queried.                     *)
THEOREM ListedIsQueryable == Spec => []ListedQueryable
<1>1. QueryInv => ListedQueryable
  BY DEF QueryInv, Queryable, ListedQueryable
<1> QED
  BY <1>1, QueryInvHolds, PTL

-----------------------------------------------------------------------------
(* While the processes come one after the other, whoever has the store     *)
(* open knows all that is listed, in its order, and what was announced is  *)
(* listed, or is about to be again.                                        *)
Extends(t, s) == Len(s) =< Len(t) /\ \A i \in 1 .. Len(s) : t[i] = s[i]

Kept == IF cli.at = "add" THEN cli.parsed ELSE Listed

StayInv ==
    company = "alone" =>
        /\ \A p \in open : Extends(recordIds[p], Listed)
        /\ rebuilds # "cut" =>
              \A h \in Harvest : pc[h] = "done" => want[h] \in ToSet(Kept)

LEMMA ExtendedRoster ==
    ASSUME NEW S, NEW s \in Seq(S), NEW t \in Seq(S), NEW x \in S, Extends(t, s)
    PROVE  /\ Extends(Append(t, x), s)
           /\ Extends(Append(t, x), Append(t, x))
           /\ ToSet(s) \subseteq ToSet(t)
<1>1. Len(s) \in Nat /\ Len(t) \in Nat /\ DOMAIN s = 1 .. Len(s) /\ DOMAIN t = 1 .. Len(t)
  OBVIOUS
<1>2. Len(Append(t, x)) = Len(t) + 1 /\ \A i \in 1 .. Len(t) : Append(t, x)[i] = t[i]
  OBVIOUS
<1>3. Extends(Append(t, x), s)
  BY <1>1, <1>2 DEF Extends
<1>4. Extends(Append(t, x), Append(t, x))
  BY <1>1, <1>2 DEF Extends
<1>5. ASSUME NEW y \in ToSet(s) PROVE y \in ToSet(t)
  <2>1. PICK i \in 1 .. Len(s) : y = s[i]
    BY <1>1 DEF ToSet
  <2>2. i \in DOMAIN t /\ t[i] = y
    BY <1>1, <2>1 DEF Extends
  <2> QED
    BY <2>2 DEF ToSet
<1> QED
  BY <1>3, <1>4, <1>5

LEMMA StayInvHolds == Spec => []StayInv
<1>1. Init => StayInv
  BY DEF Init, StayInv
<1>2. TypeInv /\ HostInv /\ RebuildInv /\ StayInv /\ [Next]_vars => StayInv'
  <2> SUFFICES ASSUME TypeInv, HostInv, RebuildInv, StayInv, [Next]_vars,
                      company' = "alone"
               PROVE  StayInv'
    BY DEF StayInv
  <2>1. /\ recordIds \in [Process -> Seq(Record)]
        /\ pc \in [Harvest -> {"idle", "wait", "index", "list", "done", "skipped",
                               "failed", "cancelled", "dead"}]
        /\ cli \in Command
        /\ Listed \in Seq(Record)
        /\ company \in {"alone", "crowd"}
        /\ open \subseteq Process
    BY ListedTyped DEF TypeInv, TypeOK
  <2>2. CASE UNCHANGED vars
    BY <2>2 DEF StayInv, Kept, Listed, vars
  <2>3. ASSUME NEW p \in Process, Open(p) PROVE StayInv'
    <3>1. /\ company = "alone" /\ open' = {p} /\ recordIds'[p] = Listed
          /\ cli.at = "idle" /\ UNCHANGED <<manifest, pc, want, cli, rebuilds>>
      BY <2>1, <2>3 DEF Open, disk
    <3>2. Extends(Listed, Listed)
      BY <2>1 DEF Extends
    <3> QED
      BY <3>1, <3>2 DEF StayInv, Kept, Listed
  <2>4. ASSUME NEW p \in Process, Stop(p) PROVE StayInv'
    <3>1. \A q \in open' : q \in open /\ recordIds'[q] = recordIds[q]
      BY <2>1, <2>4 DEF Stop
    <3>2. \A h \in Harvest : pc'[h] = "done" => pc[h] = "done"
      BY <2>1, <2>4 DEF Stop
    <3>3. UNCHANGED <<manifest, want, cli, company, rebuilds>>
      BY <2>4 DEF Stop, disk, history
    <3> QED
      BY <3>1, <3>2, <3>3 DEF StayInv, Kept, Listed
  <2>5. ASSUME NEW h \in Harvest,
               \/ WriteRecord(h) \/ GiveUp(h) \/ Cancel(h) \/ ThreadEnds(h) \/ ThreadRaises(h)
               \/ \E r \in Record : Check(h, r)
        PROVE  StayInv'
    <3>1. Quiet
      BY <2>5, QuietSteps
    <3> QED
      BY <2>1, <3>1 DEF StayInv, Kept, Listed, Quiet
  <2>6. ASSUME NEW h \in Harvest, List(h) PROVE StayInv'
    <3> DEFINE p == Host[h]
               ids == Append(recordIds[p], want[h])
    <3>1. /\ pc[h] = "list" /\ p \in Process /\ want[h] \in Record
          /\ ids \in Seq(Record)
          /\ ToSet(ids) = ToSet(recordIds[p]) \cup {want[h]}
          /\ recordIds' = [recordIds EXCEPT ![p] = ids]
          /\ \/ Listed' = ids
             \/ Listed' = Listed /\ pc' = [pc EXCEPT ![h] = "failed"]
          /\ pc' \in {[pc EXCEPT ![h] = "done"], [pc EXCEPT ![h] = "failed"]}
          /\ UNCHANGED <<open, want, cli, company, rebuilds>>
      BY <2>6, ListSteps
    <3>2. p \in open /\ company = "alone" /\ cli.at = "idle"
      BY <3>1 DEF HostInv
    <3>3. open = {p}
      BY <3>2 DEF HostInv
    <3>4. Extends(recordIds[p], Listed) /\ recordIds[p] \in Seq(Record)
      BY <2>1, <3>1, <3>2 DEF StayInv
    <3>5. /\ Extends(ids, Listed) /\ Extends(ids, ids)
          /\ ToSet(Listed) \subseteq ToSet(recordIds[p])
      BY <2>1, <3>1, <3>4, ExtendedRoster
    <3> HIDE DEF ids, p
    <3>6. recordIds'[p] = ids
      BY <2>1, <3>1
    <3>7. ASSUME rebuilds # "cut", NEW g \in Harvest, pc'[g] = "done"
          PROVE  want[g] \in ToSet(Listed')
      <4>1. pc[g] = "done" \/ (g = h /\ Listed' = ids)
        BY <2>1, <3>1, <3>7
      <4>2. pc[g] = "done" => want[g] \in ToSet(Listed)
        BY <3>2, <3>7 DEF StayInv, Kept
      <4> QED
        BY <3>1, <3>5, <4>1, <4>2
    <3> QED
      BY <3>1, <3>2, <3>3, <3>5, <3>6, <3>7 DEF StayInv, Kept
  <2>7. CASE Rebuild
    <3>1. UNCHANGED <<open, recordIds, want, pc, company>> /\ open = {}
      BY <2>7 DEF HostInv, Rebuild, Parse, Wipe, Unlink, AddAgain, Succeed, Exit, Abort, history
    <3>2. rebuilds' # "cut" => rebuilds # "cut"
      BY <2>7 DEF Rebuild, Parse, Wipe, Unlink, AddAgain, Succeed, Exit, Abort, history
    <3>3. ASSUME rebuilds' # "cut" PROVE Kept' = Kept
      <4>1. CASE Parse \/ Wipe
        <5>1. cli.at # "add" /\ cli'.at # "add"
          BY <2>1, <4>1, CommandSteps DEF Parse, Wipe, Locals
        <5>2. UNCHANGED manifest
          BY <4>1 DEF Parse, Wipe, disk
        <5> QED
          BY <5>1, <5>2 DEF Kept, Listed
      <4>2. CASE Unlink
        <5>1. cli.at = "unlink" /\ cli'.at = "add" /\ cli'.parsed = cli.parsed
          BY <2>1, <4>2, CommandSteps DEF Unlink, Locals
        <5> QED
          BY <5>1 DEF Kept, RebuildInv
      <4>3. CASE AddAgain
        <5>1. cli' = [cli EXCEPT !.ids = Append(cli.ids, cli.parsed[cli.next]), !.next = @ + 1]
              /\ cli.at = "add"
          BY <3>3, <4>3 DEF AddAgain
        <5>2. cli'.at = "add" /\ cli'.parsed = cli.parsed
          BY <2>1, <5>1 DEF Command
        <5> QED
          BY <5>1, <5>2 DEF Kept
      <4>4. CASE Succeed
        <5>1. /\ cli.at = "add" /\ cli.next > Len(cli.parsed)
              /\ cli'.at = "ended" /\ UNCHANGED manifest
          BY <2>1, <4>4, CommandSteps DEF Succeed, Locals, disk
        <5>2. cli.ids = cli.parsed
          <6>1. cli.next \in Nat \ {0} /\ cli.parsed \in Seq(Record) /\ cli.ids \in Seq(Record)
            BY <2>1 DEF Command
          <6>2. Len(cli.ids) = Len(cli.parsed)
            BY <5>1, <6>1 DEF RebuildInv
          <6>3. \A i \in 1 .. Len(cli.ids) : cli.ids[i] = cli.parsed[i]
            BY <5>1 DEF RebuildInv
          <6> QED
            BY <6>1, <6>2, <6>3
        <5> QED
          BY <5>1, <5>2 DEF Kept, Listed, RebuildInv
      <4>5. CASE Exit \/ Abort
        <5>1. cli.at # "add" /\ cli'.at = "idle" /\ UNCHANGED manifest
          BY <2>1, <3>3, <4>5, CommandSteps DEF Exit, Abort, Locals, Reset, disk
        <5> QED
          BY <5>1 DEF Kept, Listed
      <4> QED
        BY <2>7, <4>1, <4>2, <4>3, <4>4, <4>5 DEF Rebuild
    <3> QED
      BY <3>1, <3>2, <3>3 DEF StayInv
  <2> QED
    BY <2>2, <2>3, <2>4, <2>5, <2>6, <2>7 DEF Next, Add
<1> QED
  BY <1>1, <1>2, TypeInvHolds, HostInvHolds, RebuildInvHolds, PTL DEF Spec

(* As long as the processes come one after the other and no rebuild dies   *)
(* with the manifest removed, what a harvest announced stays listed.       *)
THEOREM AnnouncedStaysListed == Spec => []HarvestsStay
<1>1. StayInv => HarvestsStay
  BY DEF StayInv, Kept, HarvestsStay
<1> QED
  BY <1>1, StayInvHolds, PTL

LEMMA ExtendsIsPrefix ==
    ASSUME NEW S, NEW s \in Seq(S), NEW t \in Seq(S), Extends(t, s)
    PROVE  IsPrefix(s, t)
<1>1. Len(s) \in Nat /\ Len(t) \in Nat /\ Len(s) =< Len(t)
  BY DEF Extends
<1>2. SubSeq(s, 1, Len(s)) = [i \in 1 .. Len(s) |-> s[i]]
  OBVIOUS
<1>3. SubSeq(t, 1, Len(s)) = [i \in 1 .. Len(s) |-> t[i]]
  BY <1>1
<1> QED
  BY <1>1, <1>2, <1>3 DEF Extends, IsPrefix

(* As long as the processes come one after the other, the order of truth   *)
(* grows at its end only, failed manifest writes and restarts included.    *)
THEOREM OrderOnlyGrows == Spec => OrderKept
<1>1. TypeInv /\ HostInv /\ StayInv /\ [Next]_vars
         => [company' = "alone" /\ cli.at = "idle" => IsPrefix(Listed, Listed')]_vars
  <2> SUFFICES ASSUME TypeInv, HostInv, StayInv, [Next]_vars,
                      company' = "alone", cli.at = "idle"
               PROVE  IsPrefix(Listed, Listed')
    OBVIOUS
  <2>1. Listed \in Seq(Record)
    BY ListedTyped DEF TypeInv
  <2>2. ASSUME Listed' = Listed PROVE IsPrefix(Listed, Listed')
    <3>1. Extends(Listed, Listed)
      BY <2>1 DEF Extends
    <3> QED
      BY <2>1, <2>2, <3>1, ExtendsIsPrefix
  <2>3. ASSUME NEW h \in Harvest, List(h) PROVE IsPrefix(Listed, Listed')
    <3> DEFINE p == Host[h]
               ids == Append(recordIds[p], want[h])
    <3>1. /\ pc[h] = "list" /\ p \in Process /\ want[h] \in Record
          /\ ids \in Seq(Record) /\ Listed' \in {Listed, ids} /\ UNCHANGED company
      BY <2>3, ListSteps
    <3>2. recordIds[p] \in Seq(Record) /\ Extends(recordIds[p], Listed)
      BY <3>1 DEF TypeInv, TypeOK, HostInv, StayInv
    <3>3. Extends(ids, Listed)
      BY <2>1, <3>1, <3>2, ExtendedRoster
    <3> HIDE DEF ids
    <3> QED
      BY <2>1, <2>2, <3>1, <3>3, ExtendsIsPrefix
  <2>4. CASE ~ \E h \in Harvest : List(h)
    <3>1. UNCHANGED manifest
      BY <2>4 DEF Next, vars, disk, Add, Rebuild, Open, Stop, Check, WriteRecord, GiveUp, Cancel,
                  ThreadEnds, ThreadRaises, Parse, Wipe, Unlink, AddAgain, Succeed, Exit, Abort
    <3> QED
      BY <2>2, <3>1 DEF Listed
  <2> QED
    BY <2>3, <2>4
<1> QED
  BY <1>1, TypeInvHolds, HostInvHolds, StayInvHolds, PTL DEF Spec, OrderKept
=============================================================================
