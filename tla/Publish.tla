------------------------------ MODULE Publish ------------------------------
(***************************************************************************)
(* What a gather leaves under .codegenie/context: the second half of       *)
(* _run_gather_pipeline (cli.py), Writer.write (output/writer.py) and      *)
(* AuditWriter.record (audit.py), by several `codegenie gather` processes  *)
(* on one repository, each of which may fail at any write or die.          *)
(*                                                                         *)
(* A run is the number of a gather; a file on disk is who wrote it.  A     *)
(* probe is skipped, fails, or answers, from the cache or by running; one  *)
(* that runs stages one raw file, below context/raw itself (InPlace, where *)
(* the writer publishes it again) or elsewhere.                            *)
(***************************************************************************)
EXTENDS Naturals, Sequences, FiniteSets

CONSTANTS Gather,   \* processes
          Probe,    \* probes with a raw artifact of a name of its own
          InPlace,  \* those that stage it in context/raw
          Answers,  \* what each probe may answer
          MaxRuns   \* bound: gathers ever begun

ASSUME PublishAssumption == 
    /\ InPlace \subseteq Probe /\ MaxRuns \in Nat
    /\ Answers \in [Probe -> SUBSET {"skipped", "failed", "ran", "hit"}]

VARIABLES
    pc, run,   \* of each process: where it is, the number of its gather
    out,       \* gather_result.outputs of each process
    payload,   \* raw_artifacts: the runs whose bytes it is to publish
    anchor,    \* yaml_bytes: whose YAML it read back
    staged,    \* the raw file each probe staged, or 0
    raw,       \* context/raw/<name>: who put it, whose bytes, redacted or not
    yaml,      \* repo-context.yaml: whose
    invalid,   \* repo-context.yaml.invalid: an inode, or 0
    tmp,       \* repo-context.yaml.invalid.tmp: an inode, or 0
    inode,     \* the contents of the inodes of the two
    fd,        \* the inode a process holds open
    records,   \* the records under runs/
    log        \* history: what is known of each run

local == <<pc, run, out, payload, anchor>>
files == <<staged, raw, yaml, records>>
sibling == <<invalid, tmp, inode, fd>>
vars == <<local, files, sibling, log>>

Missing == [by |-> 0, of |-> 0, clean |-> TRUE]
(* The contents of an inode that are no run's envelope *)
Empty == 0
Torn == MaxRuns + 1

Init ==
    /\ pc = [g \in Gather |-> "idle"] /\ run = [g \in Gather |-> 0]
    /\ out = [g \in Gather |-> <<>>] /\ payload = [g \in Gather |-> <<>>]
    /\ anchor = [g \in Gather |-> 0]
    /\ staged = [p \in Probe |-> 0] /\ raw = [p \in Probe |-> Missing]
    /\ yaml = 0 /\ invalid = 0 /\ tmp = 0 /\ inode = <<>>
    /\ fd = [g \in Gather |-> 0] /\ records = {} /\ log = <<>>

Goto(g, from, to) == pc[g] = from /\ pc' = [pc EXCEPT ![g] = to]

Over(g, code) ==
    /\ pc' = [pc EXCEPT ![g] = "idle"] /\ log' = [log EXCEPT ![run[g]].exit = code]
    /\ run' = [run EXCEPT ![g] = 0] /\ anchor' = [anchor EXCEPT ![g] = 0]
    /\ out' = [out EXCEPT ![g] = <<>>] /\ payload' = [payload EXCEPT ![g] = <<>>]

(* The exit status of a gather, as _EXIT_CODE_DISPATCH has it *)
Exit(g, from, code) == pc[g] = from /\ Over(g, code)

-----------------------------------------------------------------------------

(* Steps 1 to 7: the probes answer                                         *)
Begin(g) ==
    /\ Goto(g, "idle", "probing") /\ Len(log) < MaxRuns
    /\ run' = [run EXCEPT ![g] = Len(log) + 1]
    /\ log' = Append(log, [before |-> {r \in DOMAIN log : log[r].exit # "none"},
                           exit |-> "none", ran |-> {}, names |-> {}, wrote |-> FALSE])
    /\ UNCHANGED <<out, payload, anchor, files, sibling>>

(* The bytes behind raw_artifacts are a path, that a later run stages anew. *)
Staged(p) == IF p \in InPlace THEN raw[p].of ELSE staged[p]

Stage(p, r) ==
    IF p \in InPlace
    THEN raw' = [raw EXCEPT ![p] = [by |-> r, of |-> r, clean |-> FALSE]] /\ UNCHANGED staged
    ELSE staged' = [staged EXCEPT ![p] = r] /\ UNCHANGED raw

(* A probe that runs stages its file and may fail thereafter; one that is  *)
(* answered from the cache has staged it in an earlier gather.             *)
Answer(g, p) ==
    /\ pc[g] = "probing" /\ p \notin DOMAIN out[g]
    /\ \E o \in Answers[p] :
        /\ out' = [out EXCEPT ![g] = [q \in DOMAIN @ \cup {p} |-> IF q = p THEN o ELSE @[q]]]
        /\ \/ o \in {"failed", "ran"} /\ Stage(p, run[g])
           \/ o \in {"skipped", "failed"} /\ UNCHANGED <<staged, raw>>
           \/ o = "hit" /\ (\E r \in DOMAIN log : r # run[g]) /\ UNCHANGED <<staged, raw>>
    /\ UNCHANGED <<pc, run, payload, anchor, yaml, records, sibling, log>>

Answered(g) == pc[g] = "probing" /\ DOMAIN out[g] = Probe
Outputs(g) == {p \in Probe : out[g][p] # "skipped"}
WithRaw(g) == {p \in Probe : out[g][p] \in {"ran", "hit"}}

(* No output: the record is tried, then AllProbesFailedError is raised. *)
NoOutputs(g) ==
    /\ Answered(g) /\ Outputs(g) = {}
    /\ Exit(g, "probing", "probes_failed")
    /\ \/ records' = records \cup {[run |-> run[g], anchor |-> 0]}
       \/ UNCHANGED records
    /\ UNCHANGED <<staged, raw, yaml, sibling>>

(* Step 8: the raw files are read one by one, truncated and redacted; one *)
(* that has gone is left out.                                             *)
Collect(g) ==
    /\ Answered(g) /\ Outputs(g) # {}
    /\ Goto(g, "probing", "collecting")
    /\ UNCHANGED <<run, out, payload, anchor, files, sibling, log>>

Read(g, p) ==
    /\ pc[g] = "collecting" /\ p \in WithRaw(g) \ DOMAIN payload[g]
    /\ payload' = [payload EXCEPT ![g] =
            [q \in DOMAIN @ \cup {p} |-> IF q = p THEN Staged(p) ELSE @[q]]]
    /\ UNCHANGED <<pc, run, out, anchor, files, sibling, log>>

Marshalled(g) == pc[g] = "collecting" /\ DOMAIN payload[g] = WithRaw(g)
Listed(g) == {p \in DOMAIN payload[g] : payload[g][p] # 0}

-----------------------------------------------------------------------------

(* Step 9: _write_invalid_sibling, whose temporary file has one name       *)
Reject(g) ==
    /\ Marshalled(g) /\ Goto(g, "collecting", "invalid")
    /\ IF tmp = 0
       THEN /\ inode' = Append(inode, Empty) /\ tmp' = Len(inode')
       ELSE /\ inode' = [inode EXCEPT ![tmp] = Empty] /\ UNCHANGED tmp
    /\ fd' = [fd EXCEPT ![g] = tmp']
    /\ UNCHANGED <<run, out, payload, anchor, files, invalid, log>>

(* A write over another's bytes leaves the tail of the longer of the two. *)
WriteInvalid(g) ==
    /\ Goto(g, "invalid", "rejected")
    /\ \E c \in {run[g]} \cup (IF inode[fd[g]] = Empty THEN {} ELSE {Torn}) :
        inode' = [inode EXCEPT ![fd[g]] = c]
    /\ UNCHANGED <<run, out, payload, anchor, files, invalid, tmp, fd, log>>

(* os.replace takes whatever bears the name; if nothing does, its          *)
(* FileNotFoundError hides the SchemaValidationError.                      *)
ReplaceInvalid(g) ==
    /\ IF tmp # 0
       THEN /\ invalid' = tmp /\ tmp' = 0 /\ Exit(g, "rejected", "schema_invalid")
       ELSE /\ Exit(g, "rejected", "crash") /\ UNCHANGED <<invalid, tmp>>
    /\ fd' = [fd EXCEPT ![g] = 0]
    /\ UNCHANGED <<files, inode>>

-----------------------------------------------------------------------------
(* Step 10: Writer.write                                                   *)
Accept(g) ==
    /\ Marshalled(g) /\ Goto(g, "collecting", "raws")
    /\ payload' = [payload EXCEPT ![g] = [p \in Listed(g) |-> @[p]]]
    /\ log' = [log EXCEPT ![run[g]].names = Listed(g),
                        ![run[g]].ran = {p \in Probe : out[g][p] = "ran"}]
    /\ UNCHANGED <<run, out, anchor, files, sibling>>

(* A symbolic link at one of the three places, before anything is written. *)
Refuse(g) ==
    /\ pc[g] = "raws" /\ DOMAIN payload[g] = log[run[g]].names
    /\ Exit(g, "raws", "symlink_refused")
    /\ UNCHANGED <<files, sibling>>

(* Mutant: the staged bytes are published as they are. *)
PutRawVerbatim(g, p) ==
    /\ pc[g] = "raws" /\ p \in DOMAIN payload[g]
    /\ raw' = [raw EXCEPT ![p] = [by |-> run[g], of |-> payload[g][p], clean |-> FALSE]]
    /\ payload' = [payload EXCEPT ![g] = [q \in DOMAIN @ \ {p} |-> @[q]]]
    /\ UNCHANGED <<pc, run, out, anchor, staged, yaml, records, sibling, log>>

(* Mutant: a raw file that is there already is taken for the right one. *)
PutRawOnce(g, p) ==
    /\ pc[g] = "raws" /\ p \in DOMAIN payload[g]
    /\ raw' = [raw EXCEPT ![p] =
            IF @.by = 0 THEN [by |-> run[g], of |-> payload[g][p], clean |-> TRUE]
            ELSE [@ EXCEPT !.by = run[g]]]
    /\ payload' = [payload EXCEPT ![g] = [q \in DOMAIN @ \ {p} |-> @[q]]]
    /\ UNCHANGED <<pc, run, out, anchor, staged, yaml, records, sibling, log>>

PutRaw(g, p) ==
    /\ pc[g] = "raws" /\ p \in DOMAIN payload[g]
    /\ raw' = [raw EXCEPT ![p] = [by |-> run[g], of |-> payload[g][p], clean |-> TRUE]]
    /\ payload' = [payload EXCEPT ![g] = [q \in DOMAIN @ \ {p} |-> @[q]]]
    /\ UNCHANGED <<pc, run, out, anchor, staged, yaml, records, sibling, log>>

PutEnvelope(g) ==
    /\ DOMAIN payload[g] = {} /\ Goto(g, "raws", "written")
    /\ yaml' = run[g] /\ log' = [log EXCEPT ![run[g]].wrote = TRUE]
    /\ UNCHANGED <<run, out, payload, anchor, staged, raw, records, sibling>>

(* Mutant: the YAML may be read before it is replaced. *)
ReadBackFirst(g) ==
    /\ \E from \in {"raws", "written"} : Goto(g, from, "audit")
    /\ anchor' = [anchor EXCEPT ![g] = yaml]
    /\ UNCHANGED <<run, out, payload, files, sibling, log>>

(* The YAML is read back for the record, from disk. *)
ReadBack(g) ==
    /\ Goto(g, "written", "audit") /\ anchor' = [anchor EXCEPT ![g] = yaml]
    /\ UNCHANGED <<run, out, payload, files, sibling, log>>

(* Step 11: AuditWriter.record under a name of its own *)
Record(g) ==
    /\ Exit(g, "audit", "ok")
    /\ records' = records \cup {[run |-> run[g], anchor |-> anchor[g]]}
    /\ UNCHANGED <<staged, raw, yaml, sibling>>

(* Mutant: the error of a write is swallowed. *)
FailQuietly(g) ==
    /\ \E from \in {"invalid", "rejected", "raws", "written", "audit"} : Exit(g, from, "ok")
    /\ fd' = [fd EXCEPT ![g] = 0]
    /\ UNCHANGED <<files, invalid, tmp, inode>>

(* Any of the writes of steps 9 to 11 raises an OSError. *)
Fail(g) ==
    /\ \E from \in {"invalid", "rejected", "raws", "written", "audit"} : Exit(g, from, "crash")
    /\ fd' = [fd EXCEPT ![g] = 0]
    /\ UNCHANGED <<files, invalid, tmp, inode>>

(* A process that dies is a crash too; the next gather is another process. *)
Die(g) ==
    /\ pc[g] # "idle" /\ Over(g, "crash")
    /\ fd' = [fd EXCEPT ![g] = 0]
    /\ UNCHANGED <<files, invalid, tmp, inode>>

Write(g) ==
    \/ Accept(g) \/ Refuse(g) \/ PutEnvelope(g) \/ ReadBack(g) \/ Record(g)
    \/ \E p \in Probe : PutRaw(g, p)

Step(g) ==
    \/ Begin(g) \/ NoOutputs(g) \/ Collect(g)
    \/ \E p \in Probe : Answer(g, p) \/ Read(g, p)
    \/ Reject(g) \/ WriteInvalid(g) \/ ReplaceInvalid(g)
    \/ Write(g) \/ Fail(g) \/ Die(g)

Next == \E g \in Gather : Step(g)
Spec == Init /\ [][Next]_vars

-----------------------------------------------------------------------------
(* verify_runs, the part about the YAML; a missing file never matches *)
Mismatches == {rec \in records : yaml = 0 \/ rec.anchor # yaml}

Overlap(q, r) == q \notin log[r].before /\ r \notin log[q].before
Alone(r) == \A q \in DOMAIN log : q # r => ~Overlap(q, r)
Resting == \A g \in Gather : pc[g] = "idle"

TypeOK ==
    LET Run == 0 .. Len(log) IN
    /\ pc \in [Gather -> {"idle", "probing", "collecting", "invalid", "rejected",
                          "raws", "written", "audit"}]
    /\ run \in [Gather -> Run] /\ anchor \in [Gather -> Run] /\ yaml \in Run
    /\ staged \in [Probe -> Run] /\ raw \in [Probe -> [by : Run, of : Run, clean : BOOLEAN]]
    /\ \A n \in DOMAIN inode : inode[n] \in 0 .. Torn
    /\ {invalid, tmp} \subseteq 0 .. Len(inode)
    /\ fd \in [Gather -> 0 .. Len(inode)]
    /\ records \subseteq [run : Run, anchor : Run]
    /\ \A r \in DOMAIN log : log[r].before \subseteq 1 .. r - 1

(* "Raw artifacts first, envelope last" (writer.py:193): beside a YAML lies *)
(* every raw file its run listed, and none of them is the file of a run    *)
(* that had ended before that one began.                                   *)
RawsFirst ==
    yaml # 0 => \A p \in log[yaml].names :
        raw[p].by # 0 /\ raw[p].by \notin log[yaml].before

(* A raw file whose run is not the run of the YAML means that this run did *)
(* not report success, or overlapped the one of the YAML, or came before   *)
(* it and the later run had no such file: exit status 0 never covers a     *)
(* half-published gather (cli.py:726).                                     *)
PartialIsTold ==
    Resting => \A p \in Probe :
        LET q == raw[p].by IN
        \/ q = 0 \/ q = yaml \/ log[q].exit # "ok"
        \/ yaml # 0 /\ Overlap(q, yaml)
        \/ yaml # 0 /\ q \in log[yaml].before /\ p \notin log[yaml].names

(* The bytes a probe staged in context/raw are replaced by the redacted    *)
(* ones before its run reports success (cli.py:692): what is left as it    *)
(* was staged is of a run that failed, or of a probe that failed in it, or *)
(* was staged before the cached answer of a later run.                     *)
ListedIsClean ==
    \A p \in Probe : LET q == raw[p].by IN
        q # 0 /\ log[q].exit = "ok" /\ p \in log[q].names => raw[p].clean

(* The anchor of a record is the YAML of its own run, or of one that       *)
(* overlapped it, since the bytes are read back from disk (cli.py:405),    *)
(* and never one of an earlier run.                                        *)
AnchorsNear ==
    \A rec \in records : rec.anchor # 0 => Overlap(rec.anchor, rec.run) /\ log[rec.anchor].wrote

(* What is published for a probe that ran in the run of the YAML are the   *)
(* bytes of that run or of a later one, unless another gather overlapped   *)
(* it, which may put back older bytes it has read; otherwise only a cached *)
(* answer may lie beside the bytes an earlier run staged (cli.py:628).     *)
BytesOfTheRun ==
    yaml # 0 /\ Alone(yaml) => \A p \in log[yaml].names \cap log[yaml].ran :
        raw[p].of # 0 /\ raw[p].of \notin log[yaml].before

(* "audit verify" of a gather that reported success finds its record in    *)
(* order as long as no other gather has overlapped it or come after it.    *)
VerifiesAfterSuccess ==
    \A r \in DOMAIN log :
        log[r].exit = "ok" /\ r = Len(log) /\ Alone(r)
            => \E rec \in records : rec.run = r /\ rec \notin Mismatches

(* "The success-path .yaml is NEVER written when this sibling exists for   *)
(* the same run" (cli.py:769).                                             *)
EitherOr ==
    \A r \in DOMAIN log : (invalid # 0 /\ inode[invalid] = r) => ~log[r].wrote /\ yaml # r

(* The sibling is one whole envelope unless two gathers that were both     *)
(* rejected ran at the same time: its temporary file is shared, so a death *)
(* alone cannot tear it, and only such a pair can lose the exit status of  *)
(* a rejected gather.                                                      *)
InvalidWhole ==
    invalid # 0 /\ inode[invalid] \in {Empty, Torn} =>
        \E q, r \in DOMAIN log : q # r /\ Overlap(q, r) /\ ~log[q].wrote /\ ~log[r].wrote

(* The writer says a caller "detects partial state by envelope absence"    *)
(* (writer.py:196): no raw file of a run that failed lies beside a YAML.   *)
AbsenceTells ==
    Resting /\ yaml # 0 => \A p \in Probe : raw[p].by # 0 => log[raw[p].by].wrote
=============================================================================
