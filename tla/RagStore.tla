------------------------------ MODULE RagStore ------------------------------
(***************************************************************************)
(* The store of solved examples on disk (rag/store.py): the canonical      *)
(* records/<id>.yaml, the derived chromadb index, and manifest.yaml, the   *)
(* order of truth with the chain head over the records' bytes.  Harvests   *)
(* (FallbackTier.on_validated) add to it from several workflows of several *)
(* processes; `codegenie rag rebuild' (rag/cli.py) makes the index anew.   *)
(*                                                                         *)
(* A record's id is a digest of what was solved, its bytes also hold who   *)
(* solved it and when: two harvests of one id write different bytes, and   *)
(* the bytes are named by the harvest that wrote them.  The chain head is  *)
(* taken to be injective: it is the sequence of the bytes it was rolled    *)
(* over.                                                                   *)
(***************************************************************************)
EXTENDS Naturals, Sequences, SequencesExt

CONSTANTS Record,       \* ids of solved examples
          Harvest,      \* calls of on_validated, each with a workflow of its own
          Process,      \* processes that open the store
          Host,         \* the process of each harvest
          Absent,       \* no file, no entry
          Nothing       \* a harvest that has not begun

ASSUME HostAssumption == Host \in [Harvest -> Process]

Bytes == Harvest \cup {Absent}
Manifest == [records : Seq(Record), head : Seq(Bytes)]

ASSUME MarkersAssumption == Absent \notin Harvest \cup Manifest /\ Nothing \notin Record

VARIABLES
    yaml,       \* records/: the bytes of each record
    index,      \* chroma/: the bytes each entry was made from
    manifest,   \* manifest.yaml: records and chain_head, or Absent
    open,       \* the processes with a store open
    recordIds,  \* their _record_ids
    pc,         \* where each harvest is
    want,       \* the id it harvests
    threads,    \* harvests whose thread is in collection.add
    cli,        \* the rebuild command
    company,    \* history: "crowd" once two processes had the store open
    rebuilds    \* history: "unindexed" after a rebuild that died with the index
                \* wiped, "cut" once one died with the manifest removed

vars == <<yaml, index, manifest, open, recordIds, pc, want, threads, cli,
          company, rebuilds>>
disk == <<yaml, index, manifest>>
history == <<company, rebuilds>>

Idle == [at |-> "idle", parsed |-> <<>>, ids |-> <<>>, next |-> 1]

Init ==
    /\ yaml = [r \in Record |-> Absent]
    /\ index = [r \in Record |-> Absent]
    /\ manifest = Absent
    /\ open = {}
    /\ recordIds = [p \in Process |-> <<>>]
    /\ pc = [h \in Harvest |-> "idle"]
    /\ want = [h \in Harvest |-> Nothing]
    /\ threads = {}
    /\ cli = Idle
    /\ company = "alone"
    /\ rebuilds = "whole"

-----------------------------------------------------------------------------
(* Pieces of the store                                                     *)

(* _load_existing_record_ids: an absent manifest is a fresh store.         *)
Listed == IF manifest = Absent THEN <<>> ELSE manifest.records

(* A record file that is missing is StoreCorrupted.                        *)
Readable(ids) == \A r \in ToSet(ids) : yaml[r] # Absent

(* Mutant: a running hasher, fed with the last record only.                *)
ChainHeadRunning(files, ids) ==
    Append(IF manifest = Absent THEN <<>> ELSE manifest.head, files[ids[Len(ids)]])

(* _compute_chain_head: the bytes are read again from the files.           *)
ChainHead(files, ids) == [i \in 1 .. Len(ids) |-> files[ids[i]]]

(* collection.add leaves an entry that exists as it is.                    *)
Indexed(r, bytes) ==
    [index EXCEPT ![r] = IF @ = Absent THEN bytes ELSE @]

(* Harvests between the acquisition and the release of _add_lock.          *)
Adding(p) == {h \in Harvest : Host[h] = p /\ pc[h] \in {"index", "list"}}

-----------------------------------------------------------------------------
(* Processes                                                               *)

Open(p) ==
    /\ p \notin open /\ cli.at = "idle"
    /\ Readable(Listed)
    /\ open' = open \cup {p}
    /\ recordIds' = [recordIds EXCEPT ![p] = Listed]
    /\ company' = IF open = {} THEN company ELSE "crowd"
    /\ UNCHANGED <<disk, pc, want, threads, cli, rebuilds>>

(* A process ends or dies, with whatever it was doing.                     *)
Stop(p) ==
    /\ p \in open
    /\ open' = open \ {p}
    /\ recordIds' = [recordIds EXCEPT ![p] = <<>>]
    /\ pc' = [h \in Harvest |-> IF Host[h] = p /\ pc[h] \in {"wait", "index", "list"}
                                THEN "dead" ELSE pc[h]]
    /\ threads' = {h \in threads : Host[h] # p}
    /\ UNCHANGED <<disk, want, cli, history>>

-----------------------------------------------------------------------------
(* on_validated and ChromaPersistentStore.add                              *)

(* contains: what this process's roster knows.                             *)
Check(h, r) ==
    /\ pc[h] = "idle" /\ Host[h] \in open
    /\ want' = [want EXCEPT ![h] = r]
    /\ pc' = [pc EXCEPT ![h] = IF r \in ToSet(recordIds[Host[h]])
                               THEN "skipped" ELSE "wait"]
    /\ UNCHANGED <<disk, open, recordIds, threads, cli, history>>

(* The lock is had; the record is written, and collection.add handed to a  *)
(* thread: one stretch without an await.                                   *)
WriteRecord(h) ==
    /\ pc[h] = "wait" /\ Adding(Host[h]) = {}
    /\ yaml' = [yaml EXCEPT ![want[h]] = h]
    /\ threads' = threads \cup {h}
    /\ pc' = [pc EXCEPT ![h] = "index"]
    /\ UNCHANGED <<index, manifest, open, recordIds, want, cli, history>>

(* StoreWriteContention after thirty seconds, or the record cannot be      *)
(* written.                                                                *)
GiveUp(h) ==
    /\ pc[h] = "wait"
    /\ pc' = [pc EXCEPT ![h] = "failed"]
    /\ UNCHANGED <<disk, open, recordIds, want, threads, cli, history>>

(* The workflow is cancelled in an await of add: `finally' releases the    *)
(* lock, the thread runs on.                                               *)
Cancel(h) ==
    /\ pc[h] \in {"wait", "index"}
    /\ pc' = [pc EXCEPT ![h] = "cancelled"]
    /\ UNCHANGED <<disk, open, recordIds, want, threads, cli, history>>

ThreadEnds(h) ==
    /\ h \in threads
    /\ index' = Indexed(want[h], h)
    /\ threads' = threads \ {h}
    /\ pc' = IF pc[h] = "index" THEN [pc EXCEPT ![h] = "list"] ELSE pc
    /\ UNCHANGED <<yaml, manifest, open, recordIds, want, cli, history>>

(* Mutant: the exception is swallowed.                                     *)
ThreadRaisesUnseen(h) ==
    /\ h \in threads
    /\ threads' = threads \ {h}
    /\ pc' = IF pc[h] = "index" THEN [pc EXCEPT ![h] = "list"] ELSE pc
    /\ UNCHANGED <<disk, open, recordIds, want, cli, history>>

(* chromadb raises: the record stays, unlisted.                            *)
ThreadRaises(h) ==
    /\ h \in threads
    /\ threads' = threads \ {h}
    /\ pc' = IF pc[h] = "index" THEN [pc EXCEPT ![h] = "failed"] ELSE pc
    /\ UNCHANGED <<disk, open, recordIds, want, cli, history>>

(* Mutant: a manifest that cannot be written is left for the next add.     *)
ListLazily(h) ==
    LET ids == Append(recordIds[Host[h]], want[h])
    IN  /\ pc[h] = "list"
        /\ recordIds' = [recordIds EXCEPT ![Host[h]] = ids]
        /\ pc' = [pc EXCEPT ![h] = "done"]
        /\ \/ manifest' = [records |-> ids, head |-> ChainHead(yaml, ids)]
           \/ UNCHANGED manifest
        /\ UNCHANGED <<yaml, index, open, want, threads, cli, history>>

(* The roster grows first; if the manifest then cannot be written it keeps *)
(* the id.  The records are read and the manifest replaced in one step.    *)
List(h) ==
    LET ids == Append(recordIds[Host[h]], want[h])
    IN  /\ pc[h] = "list"
        /\ recordIds' = [recordIds EXCEPT ![Host[h]] = ids]
        /\ \/ /\ manifest' = [records |-> ids, head |-> ChainHead(yaml, ids)]
              /\ pc' = [pc EXCEPT ![h] = "done"]
           \/ /\ pc' = [pc EXCEPT ![h] = "failed"]
              /\ UNCHANGED manifest
        /\ UNCHANGED <<yaml, index, open, want, threads, cli, history>>

-----------------------------------------------------------------------------
(* codegenie rag rebuild, run while no process has the store open          *)

(* The dry run parses the listed records; without a manifest it ends here. *)
Parse ==
    /\ cli.at = "idle" /\ open = {}
    /\ manifest # Absent /\ Readable(Listed)
    /\ cli' = [Idle EXCEPT !.at = "wipe", !.parsed = Listed]
    /\ UNCHANGED <<disk, open, recordIds, pc, want, threads, history>>

(* rmtree of chroma/.                                                      *)
Wipe ==
    /\ cli.at = "wipe"
    /\ index' = [r \in Record |-> Absent]
    /\ cli' = [cli EXCEPT !.at = "unlink"]
    /\ UNCHANGED <<yaml, manifest, open, recordIds, pc, want, threads, history>>

(* Mutant: the manifest stays, and its records are added once more.        *)
UnlinkNot ==
    /\ cli.at = "unlink"
    /\ cli' = [cli EXCEPT !.at = "add", !.ids = Listed]
    /\ UNCHANGED <<disk, open, recordIds, pc, want, threads, history>>

(* The manifest is removed, and a store opened on what is left.            *)
Unlink ==
    /\ cli.at = "unlink"
    /\ manifest' = Absent
    /\ cli' = [cli EXCEPT !.at = "add", !.ids = <<>>]
    /\ UNCHANGED <<yaml, index, open, recordIds, pc, want, threads, history>>

(* add of the next parsed record, whose bytes are as they were.  After     *)
(* chromadb it either gets to the manifest or fails there.                 *)
AddAgain ==
    LET r   == cli.parsed[cli.next]
        ids == Append(cli.ids, r)
    IN  /\ cli.at = "add" /\ cli.next =< Len(cli.parsed)
        /\ index' = Indexed(r, yaml[r])
        /\ \/ /\ manifest' = [records |-> ids, head |-> ChainHead(yaml, ids)]
              /\ cli' = [cli EXCEPT !.ids = ids, !.next = @ + 1]
              /\ UNCHANGED rebuilds
           \/ /\ cli' = Idle
              /\ rebuilds' = "cut"
              /\ UNCHANGED manifest
        /\ UNCHANGED <<yaml, open, recordIds, pc, want, threads, company>>

Succeed ==
    /\ cli.at = "add" /\ cli.next > Len(cli.parsed)
    /\ cli' = [cli EXCEPT !.at = "ended"]
    /\ rebuilds' = IF rebuilds = "unindexed" THEN "whole" ELSE rebuilds
    /\ UNCHANGED <<disk, open, recordIds, pc, want, threads, company>>

Exit ==
    /\ cli.at = "ended"
    /\ cli' = Idle
    /\ UNCHANGED <<disk, open, recordIds, pc, want, threads, history>>

(* The command fails or dies before it has added all records again.        *)
Abort ==
    /\ cli.at \in {"wipe", "unlink", "add"}
    /\ rebuilds' = IF cli.at = "add" THEN "cut"
                   ELSE IF cli.at = "unlink" /\ rebuilds = "whole" THEN "unindexed"
                   ELSE rebuilds
    /\ cli' = Idle
    /\ UNCHANGED <<disk, open, recordIds, pc, want, threads, company>>

-----------------------------------------------------------------------------
Add(h) == WriteRecord(h) \/ GiveUp(h) \/ Cancel(h) \/ ThreadEnds(h)
              \/ ThreadRaises(h) \/ List(h)

Rebuild == Parse \/ Wipe \/ Unlink \/ AddAgain \/ Succeed \/ Exit \/ Abort

Next == \/ \E p \in Process : Open(p) \/ Stop(p)
        \/ \E h \in Harvest : Add(h) \/ \E r \in Record : Check(h, r)
        \/ Rebuild

Spec == Init /\ [][Next]_vars

-----------------------------------------------------------------------------
Command == [at : {"idle", "wipe", "unlink", "add", "ended"},
            parsed : Seq(Record), ids : Seq(Record), next : Nat \ {0}]

TypeOK ==
    /\ yaml \in [Record -> Bytes]
    /\ index \in [Record -> Bytes]
    /\ manifest \in Manifest \cup {Absent}
    /\ open \subseteq Process
    /\ recordIds \in [Process -> Seq(Record)]
    /\ pc \in [Harvest -> {"idle", "wait", "index", "list", "done", "skipped",
                           "failed", "cancelled", "dead"}]
    /\ want \in [Harvest -> Record \cup {Nothing}]
    /\ threads \subseteq Harvest
    /\ cli \in Command
    /\ company \in {"alone", "crowd"}
    /\ rebuilds \in {"whole", "unindexed", "cut"}

(* Whatever crashes, fails, is cancelled or runs beside it, the manifest   *)
(* lists only records whose file is there: no store ever fails to open     *)
(* with StoreCorrupted (_load_existing_record_ids, AC-13).                 *)
ListedExist == Readable(Listed)

(* `digest() == manifest.chain_head is the load-bearing invariant': the    *)
(* head is the roll of the records as they are on disk.  A record differs  *)
(* only if a second harvest of its id rewrote it and did not get as far as *)
(* the manifest (add, digest).                                             *)
HeadMatches ==
    manifest # Absent =>
        /\ Len(manifest.head) = Len(manifest.records)
        /\ \A i \in 1 .. Len(manifest.records) :
              LET bytes == yaml[manifest.records[i]]
              IN  manifest.head[i] = bytes \/ pc[bytes] # "done"

(* `The manifest reflects what is queryable': every listed record is in    *)
(* the index, unless a rebuild was cut short and none has succeeded since  *)
(* (add, rebuild).                                                         *)
ListedQueryable ==
    rebuilds = "whole" /\ cli.at \in {"idle", "wipe", "ended"} =>
        \A r \in ToSet(Listed) : index[r] # Absent

(* A harvest that was announced stays listed, through crashes, cancelled   *)
(* and failed adds and rebuilds, as long as the processes come one after   *)
(* the other and no rebuild dies with the manifest removed (add,           *)
(* on_validated, rebuild).                                                 *)
HarvestsStay ==
    company = "alone" /\ rebuilds # "cut" /\ cli.at # "add" =>
        \A h \in Harvest : pc[h] = "done" => want[h] \in ToSet(Listed)

(* The order of truth only grows at its end, failed manifest writes and    *)
(* restarts included, as long as the processes come one after the other    *)
(* (add: the self-heal of AC-12; the prefix property of AC-8).             *)
OrderKept ==
    [][company' = "alone" /\ cli.at = "idle" => IsPrefix(Listed, Listed')]_vars

(* A rebuild that ends with 0 reproduces the manifest it began with, in    *)
(* order, and an index of exactly its records as they are on disk          *)
(* (rebuild, AC-2).                                                        *)
RebuildReproduces ==
    cli.at = "ended" =>
        /\ Listed = cli.parsed
        /\ manifest # Absent => manifest.head = ChainHead(yaml, Listed)
        /\ \A r \in Record :
              index[r] = IF r \in ToSet(Listed) THEN yaml[r] ELSE Absent

(* `The YAML orphan is recoverable by codegenie rag rebuild' (add, AC-4):  *)
(* after a rebuild every record on disk is listed.                         *)
RebuildRecoversOrphans ==
    cli.at = "ended" => \A r \in Record : yaml[r] # Absent => r \in ToSet(Listed)

(* The single-writer constraint: collection.add is never in two threads of *)
(* a process at a time (module docstring, 1).                              *)
SingleWriter ==
    \A g, h \in threads : Host[g] = Host[h] => g = h
=============================================================================
