----------------------------- MODULE CacheStore -----------------------------
(***************************************************************************)
(* The content-addressed probe cache (src/codegenie/cache/store.py) as     *)
(* several `codegenie gather' processes share it through one directory:    *)
(* an append-only index.jsonl, blobs named by the hash of their content,   *)
(* and in each process an in-memory view of the index guarded by the       *)
(* file's size.                                                            *)
(*                                                                         *)
(* A blob's name is the hash of the output it holds, so blobs are indexed  *)
(* by Output.  The index is the sequence of the writes made to the file    *)
(* and its length stands for the file's size.  A write that the kernel cut *)
(* short (os.write's result is not looked at) leaves its line without an   *)
(* end of line, and the next line is glued to it.  A view holds, for each  *)
(* key, the place of its record in the index.                              *)
(***************************************************************************)
EXTENDS Integers, Sequences, FiniteSets

CONSTANTS Proc,         \* processes sharing the cache directory
          Key,          \* identity keys (cache/keys.py)
          Output,       \* serialized probe outputs
          Nothing,      \* a local variable out of scope
          TTL,          \* ttl_hours, in ticks
          MaxTime,      \* bound on the clock
          MaxAppends,   \* bound on the writes to index.jsonl
          ShortWrites   \* whether the kernel may cut a write short

ASSUME TTLAssumption == TTL \in Nat
ASSUME BoundsAssumption == MaxTime \in Nat /\ MaxAppends \in Nat
ASSUME ShortWritesAssumption == ShortWrites \in BOOLEAN

VARIABLES
    index,      \* the writes made to index.jsonl, oldest first
    blobs,      \* what the file named by an output's hash holds
    now,        \* wall clock
    memory,     \* _index_cache: the place in index of the record of each key
    memSize,    \* _index_size; Unloaded while _index_cache is None
    pc,         \* where each process is in get or put
    wanted,     \* the key a get looks for
    record,     \* the record a put writes
    mark,       \* the size a get measured; the place a put wrote its line at
    reply       \* what the last get of a process returned

disk == <<index, blobs>>
view == <<memory, memSize>>
local == <<pc, wanted, record, mark, reply>>
vars == <<index, blobs, now, memory, memSize, pc, wanted, record, mark, reply>>

Time == 0 .. MaxTime
Record == [key : Key, out : Output, at : Time]
Line == [key : Key, out : Output, at : Time, whole : BOOLEAN]

Unloaded == -1
NoView == [k \in Key |-> 0]

(* What a blob file holds: nothing, all of the output, or a prefix of it.  *)
BlobState == {"absent", "whole", "cut"}

(* How much of its bytes a write may put on the disk.                      *)
Written == IF ShortWrites THEN {"whole", "cut"} ELSE {"whole"}

(* What get hands back: nothing, or the bytes of a blob together with the  *)
(* age that the TTL check saw.                                             *)
Hit == [key : Key, out : Output, age : Int, bytes : BlobState]

ASSUME NothingAssumption == Nothing \notin Key \cup Record \cup Hit

(* A line of the index parses when it was written whole and does not       *)
(* continue a line that was cut.                                           *)
Readable(i) == /\ index[i].whole
               /\ i > 1 => index[i-1].whole

LinesOf(k) == {i \in 1 .. Len(index) : index[i].key = k /\ Readable(i)}

LastIn(S) == CHOOSE i \in S : \A j \in S : j =< i

(* _load_index: unparsable lines are skipped, the last record of a key     *)
(* wins.  0 stands for a key with no record.                               *)
LoadIndex == [k \in Key |-> IF LinesOf(k) = {} THEN 0 ELSE LastIn(LinesOf(k))]

Init ==
    /\ index = <<>>
    /\ blobs = [o \in Output |-> "absent"]
    /\ now = 0
    /\ memory = [p \in Proc |-> NoView]
    /\ memSize = [p \in Proc |-> Unloaded]
    /\ pc = [p \in Proc |-> "idle"]
    /\ wanted = [p \in Proc |-> Nothing]
    /\ record = [p \in Proc |-> Nothing]
    /\ mark = [p \in Proc |-> 0]
    /\ reply = [p \in Proc |-> Nothing]

(* get or put of process p returns: its locals are gone.                   *)
Return(p, answer) ==
    /\ pc' = [pc EXCEPT ![p] = "idle"]
    /\ wanted' = [wanted EXCEPT ![p] = Nothing]
    /\ record' = [record EXCEPT ![p] = Nothing]
    /\ mark' = [mark EXCEPT ![p] = 0]
    /\ reply' = [reply EXCEPT ![p] = answer]

-----------------------------------------------------------------------------
(* get                                                                     *)

(* The size of the file decides whether the view is still good.  The file  *)
(* may be there and empty: a put creates it before it appends, and may die *)
(* in between.  (With no file at all get misses and changes nothing.)      *)
GetStat(p, k) ==
    /\ pc[p] = "idle"
    /\ wanted' = [wanted EXCEPT ![p] = k]
    /\ mark' = [mark EXCEPT ![p] = Len(index)]
    /\ reply' = [reply EXCEPT ![p] = Nothing]
    /\ pc' = [pc EXCEPT ![p] =
                IF memSize[p] = Len(index) THEN "lookup" ELSE "load"]
    /\ UNCHANGED <<disk, view, now, record>>

(* The file is read after it was measured: the view may be newer than the  *)
(* size noted for it, never older.                                         *)
GetLoad(p) ==
    /\ pc[p] = "load"
    /\ memory' = [memory EXCEPT ![p] = LoadIndex]
    /\ memSize' = [memSize EXCEPT ![p] = mark[p]]
    /\ pc' = [pc EXCEPT ![p] = "lookup"]
    /\ UNCHANGED <<disk, now, wanted, record, mark, reply>>

Found(p) == memory[p][wanted[p]]
Age(p) == now - index[Found(p)].at

(* Mutant: no TTL.                                                         *)
FreshForever(p) == Found(p) # 0

Fresh(p) == Found(p) # 0 /\ Age(p) =< TTL

GetMiss(p) ==
    /\ pc[p] = "lookup"
    /\ ~ Fresh(p)
    /\ Return(p, Nothing)
    /\ UNCHANGED <<disk, view, now>>

GetFresh(p) ==
    /\ pc[p] = "lookup"
    /\ Fresh(p)
    /\ reply' = [reply EXCEPT ![p] =
                   [key |-> wanted[p], out |-> index[Found(p)].out,
                    age |-> Age(p), bytes |-> "absent"]]
    /\ pc' = [pc EXCEPT ![p] = "blob"]
    /\ UNCHANGED <<disk, view, now, wanted, record, mark>>

(* The file must exist and the SHA-256 of its bytes be the record's.       *)
Verified(held) == held = "whole"

GetBlob(p) ==
    /\ pc[p] = "blob"
    /\ LET held == blobs[reply[p].out]
       IN  Return(p, IF Verified(held)
                     THEN [reply[p] EXCEPT !.bytes = held]
                     ELSE Nothing)
    /\ UNCHANGED <<disk, view, now>>

-----------------------------------------------------------------------------
(* put                                                                     *)

PutBegin(p, k, o) ==
    /\ pc[p] = "idle"
    /\ Len(index) < MaxAppends
    /\ record' = [record EXCEPT ![p] = [key |-> k, out |-> o, at |-> now]]
    /\ reply' = [reply EXCEPT ![p] = Nothing]
    /\ pc' = [pc EXCEPT ![p] = "write"]
    /\ UNCHANGED <<disk, view, now, wanted, mark>>

(* Temporary file, fsync, os.replace: the name changes content at once,    *)
(* to whatever part of the bytes os.write took.                            *)
PutBlob(p) ==
    /\ pc[p] = "write"
    /\ \E held \in Written : blobs' = [blobs EXCEPT ![record[p].out] = held]
    /\ pc' = [pc EXCEPT ![p] = "append"]
    /\ UNCHANGED <<index, view, now, wanted, record, mark, reply>>

(* One os.write on an O_APPEND descriptor.                                 *)
PutAppend(p) ==
    /\ pc[p] = "append"
    /\ Len(index) < MaxAppends
    /\ \E w \in Written :
          index' = Append(index, [key |-> record[p].key,
                                  out |-> record[p].out,
                                  at |-> record[p].at,
                                  whole |-> w = "whole"])
    /\ mark' = [mark EXCEPT ![p] = Len(index) + 1]
    /\ pc' = [pc EXCEPT ![p] = "remember"]
    /\ UNCHANGED <<blobs, view, now, wanted, record, reply>>

(* Mutant: the view becomes the record that was put, and nothing else.     *)
PutRememberAlone(p) ==
    /\ pc[p] = "remember"
    /\ IF memSize[p] = Unloaded
       THEN UNCHANGED view
       ELSE /\ memory' = [memory EXCEPT ![p] =
                            [NoView EXCEPT ![record[p].key] = mark[p]]]
            /\ memSize' = [memSize EXCEPT ![p] = Len(index)]
    /\ Return(p, Nothing)
    /\ UNCHANGED <<disk, now>>

(* The view, when there is one, takes the record and the size that the     *)
(* file has by now.                                                        *)
PutRemember(p) ==
    /\ pc[p] = "remember"
    /\ IF memSize[p] = Unloaded
       THEN UNCHANGED view
       ELSE /\ memory' = [memory EXCEPT ![p][record[p].key] = mark[p]]
            /\ memSize' = [memSize EXCEPT ![p] = Len(index)]
    /\ Return(p, Nothing)
    /\ UNCHANGED <<disk, now>>

-----------------------------------------------------------------------------
(* The process dies, in a call or between calls; its successor starts with *)
(* no view.  What reached the disk stays.                                  *)
Restart(p) ==
    /\ pc[p] # "idle" \/ memSize[p] # Unloaded
    /\ memory' = [memory EXCEPT ![p] = NoView]
    /\ memSize' = [memSize EXCEPT ![p] = Unloaded]
    /\ Return(p, Nothing)
    /\ UNCHANGED <<disk, now>>

Tick ==
    /\ now < MaxTime
    /\ now' = now + 1
    /\ UNCHANGED <<disk, view, local>>

Get(p) == GetLoad(p) \/ GetMiss(p) \/ GetFresh(p) \/ GetBlob(p)
              \/ \E k \in Key : GetStat(p, k)

Put(p) == PutBlob(p) \/ PutAppend(p) \/ PutRemember(p)
              \/ \E k \in Key, o \in Output : PutBegin(p, k, o)

Next == Tick \/ \E p \in Proc : Get(p) \/ Put(p) \/ Restart(p)

Spec == Init /\ [][Next]_vars

-----------------------------------------------------------------------------
TypeOK ==
    /\ index \in Seq(Line)
    /\ blobs \in [Output -> BlobState]
    /\ now \in Time
    /\ memory \in [Proc -> [Key -> Nat]]
    /\ memSize \in [Proc -> Nat \cup {Unloaded}]
    /\ pc \in [Proc -> {"idle", "load", "lookup", "blob",
                        "write", "append", "remember"}]
    /\ wanted \in [Proc -> Key \cup {Nothing}]
    /\ record \in [Proc -> Record \cup {Nothing}]
    /\ mark \in [Proc -> Nat]
    /\ reply \in [Proc -> Hit \cup {Nothing}]

(* `A crash between the two writes leaves no orphan record pointing at a   *)
(* missing blob' (put): the blob is on disk before any index line names    *)
(* it, whatever the other writers and the crashes.                         *)
IndexedBlobExists ==
    \A i \in 1 .. Len(index) : blobs[index[i].out] # "absent"

(* A hit returns, unaltered, an output that some process put under that    *)
(* very key and that was inside the TTL when it was looked up, however the *)
(* view was built and whatever writes were cut short (get).                *)
HitWasPut ==
    \A p \in Proc : pc[p] = "idle" /\ reply[p] # Nothing =>
        /\ reply[p].bytes = "whole"
        /\ reply[p].age =< TTL
        /\ \E i \in 1 .. Len(index) : /\ index[i].key = reply[p].key
                                      /\ index[i].out = reply[p].out
                                      /\ reply[p].age =< now - index[i].at

(* The cache directory keeps what CacheContract promises: the records put  *)
(* are those the index was given, and an answer is the reply of a process  *)
(* that is not in a call.                                                  *)
RecordAt(i) == [key |-> index[i].key, out |-> index[i].out, at |-> index[i].at]

Contract == INSTANCE CacheContract WITH
    puts <- {RecordAt(i) : i \in 1 .. Len(index)},
    answer <- [p \in Proc |-> IF pc[p] = "idle" THEN reply[p] ELSE Nothing]

(* Every behaviour of the shared directory is one of CacheContract (get).  *)
MeetsContract == Contract!Spec

(* Within one process the view of a key never steps back from a readable   *)
(* line to an older one, whatever the order of its own puts, the other     *)
(* processes' appends and the reloads; only a new process starts over, and *)
(* only a record whose own line was torn is given up (get_index_record).   *)
ViewNeverGoesBack ==
    [][\A p \in Proc, k \in Key :
          \/ memory'[p][k] >= memory[p][k]
          \/ memSize'[p] = Unloaded
          \/ memory[p][k] \notin LinesOf(k)]_vars

(* get_index_record's docstring: it serves the LAST record of the key that *)
(* was in the file when it measured it; the comment that ends put says the *)
(* size guard catches every append of another process.                     *)
LastRecordServed ==
    \A p \in Proc : pc[p] = "lookup" =>
        \A i \in LinesOf(wanted[p]) : i =< mark[p] => i =< Found(p)
=============================================================================
