---------------------------- MODULE PublishProofs ----------------------------
(* What TLAPS proves of Publish, for any processes, probes and gathers:    *)
(* its types, and what a reader may conclude from the files.               *)
EXTENDS Publish, SequenceTheorems, TLAPS

Pcs == {"idle", "probing", "collecting", "invalid", "rejected", "raws", "written", "audit"}
Exits == {"none", "probes_failed", "schema_invalid", "crash", "symlink_refused", "ok"}
Entry == [before : SUBSET Nat, exit : Exits, ran : SUBSET Probe, names : SUBSET Probe,
          wrote : BOOLEAN]

Live(g) == pc[g] # "idle"

(* The types that TypeOK leaves open                                       *)
Shape ==
    /\ log \in Seq(Entry) /\ Len(log) <= MaxRuns
    /\ inode \in Seq(Nat)
    /\ DOMAIN out = Gather /\ DOMAIN payload = Gather
    /\ \A g \in Gather :
          /\ DOMAIN out[g] \subseteq Probe /\ DOMAIN payload[g] \subseteq Probe
          /\ \A p \in DOMAIN payload[g] : payload[g][p] \in 0 .. Len(log)

(* A gather that is under way has a number of its own that no log entry    *)
(* names as ended; one that is not has nothing in hand.                    *)
Lives ==
    /\ \A g \in Gather :
          /\ Live(g) => run[g] \in 1 .. Len(log) /\ log[run[g]].exit = "none"
          /\ ~ Live(g) => run[g] = 0 /\ DOMAIN payload[g] = {} /\ DOMAIN out[g] = {}
          /\ pc[g] = "probing" => DOMAIN payload[g] = {}
    /\ \A g, h \in Gather : run[g] = run[h] /\ run[g] # 0 => g = h
    /\ \A r \in 1 .. Len(log) : \A q \in log[r].before :
          q \in 1 .. r - 1 /\ log[q].exit # "none"

TypeInv == TypeOK /\ Shape /\ Lives

-----------------------------------------------------------------------------
(* What becomes of the log                                                 *)

(* Nothing of an entry is taken back, and an ended run stays as it is.     *)
Kept(old, new) ==
    /\ new \in Seq(Entry) /\ Len(old) <= Len(new)
    /\ \A r \in 1 .. Len(old) :
          /\ new[r].before = old[r].before
          /\ old[r].wrote => new[r].wrote
          /\ old[r].exit # "none" => new[r] = old[r]

(* The log with the entry of r changed                                     *)
LEMMA EntryChanged ==
    ASSUME NEW l \in Seq(Entry), NEW r \in 1 .. Len(l), NEW e \in Entry
    PROVE  /\ [l EXCEPT ![r] = e] \in Seq(Entry)
           /\ Len([l EXCEPT ![r] = e]) = Len(l)
           /\ \A q \in 1 .. Len(l) : [l EXCEPT ![r] = e][q] = IF q = r THEN e ELSE l[q]
  BY ExceptSeq

LEMMA ExitLog ==
    ASSUME TypeInv, NEW g \in Gather, Live(g), NEW code \in Exits \ {"none"}, Over(g, code)
    PROVE  /\ Kept(log, log') /\ Len(log') = Len(log)
           /\ \A r \in 1 .. Len(log) :
                 /\ log'[r].exit = IF r = run[g] THEN code ELSE log[r].exit
                 /\ log'[r].names = log[r].names /\ log'[r].ran = log[r].ran
                 /\ log'[r].wrote = log[r].wrote
                 /\ r # run[g] => log'[r] = log[r]
<1> DEFINE e == [log[run[g]] EXCEPT !.exit = code]
<1>1. log \in Seq(Entry) /\ run[g] \in 1 .. Len(log) /\ log[run[g]].exit = "none"
  BY DEF TypeInv, Shape, Lives
<1>2. log[run[g]] \in Entry
  BY <1>1, ElementOfSeq
<1>3. e \in Entry
  BY <1>2 DEF Entry
<1>4. log' = [log EXCEPT ![run[g]] = e]
  BY DEF Over
<1>5. /\ log' \in Seq(Entry) /\ Len(log') = Len(log)
      /\ \A q \in 1 .. Len(log) : log'[q] = IF q = run[g] THEN e ELSE log[q]
  <2> HIDE DEF e
  <2> QED
    BY <1>1, <1>3, <1>4, EntryChanged
<1>6. /\ e.exit = code /\ e.names = log[run[g]].names /\ e.ran = log[run[g]].ran
      /\ e.wrote = log[run[g]].wrote /\ e.before = log[run[g]].before
  BY <1>2 DEF Entry
<1> HIDE DEF e
<1> QED
  BY <1>1, <1>5, <1>6 DEF Kept

LEMMA BeginLog ==
    ASSUME TypeInv, NEW g \in Gather, Begin(g)
    PROVE  /\ Kept(log, log') /\ Len(log') = Len(log) + 1 /\ run'[g] = Len(log) + 1
           /\ \A r \in 1 .. Len(log) : log'[r] = log[r]
           /\ LET e == log'[Len(log) + 1] IN
              /\ e.before = {r \in 1 .. Len(log) : log[r].exit # "none"}
              /\ e.exit = "none" /\ e.ran = {} /\ e.names = {} /\ ~ e.wrote
<1> DEFINE e == [before |-> {r \in DOMAIN log : log[r].exit # "none"},
                 exit |-> "none", ran |-> {}, names |-> {}, wrote |-> FALSE]
<1>1. log \in Seq(Entry) /\ DOMAIN log = 1 .. Len(log) /\ Len(log) \in Nat
  BY DEF TypeInv, Shape
<1>2. e \in Entry
  BY <1>1 DEF Entry, Exits
<1>3. log' = Append(log, e)
  BY DEF Begin
<1>4. /\ log' \in Seq(Entry) /\ Len(log') = Len(log) + 1
      /\ \A r \in 1 .. Len(log) : log'[r] = log[r]
      /\ log'[Len(log) + 1] = e
  <2> HIDE DEF e
  <2> QED
    BY <1>1, <1>2, <1>3, AppendProperties
<1>5. run'[g] = Len(log) + 1
  BY DEF Begin, TypeInv, TypeOK
<1> QED
  BY <1>1, <1>4, <1>5 DEF Kept

LEMMA AcceptLog ==
    ASSUME TypeInv, NEW g \in Gather, Accept(g)
    PROVE  /\ Kept(log, log') /\ Len(log') = Len(log)
           /\ \A r \in 1 .. Len(log) :
                 /\ log'[r].exit = log[r].exit /\ log'[r].wrote = log[r].wrote
                 /\ r # run[g] => log'[r] = log[r]
                 /\ r = run[g] => /\ log'[r].names = Listed(g)
                                  /\ log'[r].ran = {p \in Probe : out[g][p] = "ran"}
<1> DEFINE n == Listed(g)
           s == {p \in Probe : out[g][p] = "ran"}
           e == [[log[run[g]] EXCEPT !.names = n] EXCEPT !.ran = s]
<1>1. /\ log \in Seq(Entry) /\ run[g] \in 1 .. Len(log) /\ log[run[g]].exit = "none"
      /\ DOMAIN payload[g] \subseteq Probe
  BY DEF TypeInv, Shape, Lives, Live, Accept, Goto
<1>2. log[run[g]] \in Entry
  BY <1>1, ElementOfSeq
<1>3. n \in SUBSET Probe /\ s \in SUBSET Probe
  BY <1>1 DEF Listed
<1> HIDE DEF n, s
<1>4. e \in Entry
  BY <1>2, <1>3 DEF Entry
<1>5. log' = [log EXCEPT ![run[g]] = e]
  <2>1. log' = [[log EXCEPT ![run[g]].names = n] EXCEPT ![run[g]].ran = s]
    BY DEF Accept, n, s
  <2> QED
    BY <1>1, <2>1
<1>6. /\ log' \in Seq(Entry) /\ Len(log') = Len(log)
      /\ \A q \in 1 .. Len(log) : log'[q] = IF q = run[g] THEN e ELSE log[q]
  <2> HIDE DEF e
  <2> QED
    BY <1>1, <1>4, <1>5, EntryChanged
<1>7. /\ e.names = n /\ e.ran = s /\ e.exit = log[run[g]].exit
      /\ e.wrote = log[run[g]].wrote /\ e.before = log[run[g]].before
  BY <1>2 DEF Entry
<1> HIDE DEF e
<1> QED
  BY <1>1, <1>6, <1>7 DEF Kept, n, s

LEMMA EnvelopeLog ==
    ASSUME TypeInv, NEW g \in Gather, PutEnvelope(g)
    PROVE  /\ Kept(log, log') /\ Len(log') = Len(log)
           /\ \A r \in 1 .. Len(log) :
                 /\ log'[r].exit = log[r].exit /\ log'[r].names = log[r].names
                 /\ log'[r].ran = log[r].ran
                 /\ log'[r].wrote <=> log[r].wrote \/ r = run[g]
                 /\ r # run[g] => log'[r] = log[r]
<1> DEFINE e == [log[run[g]] EXCEPT !.wrote = TRUE]
<1>1. log \in Seq(Entry) /\ run[g] \in 1 .. Len(log) /\ log[run[g]].exit = "none"
  BY DEF TypeInv, Shape, Lives, Live, PutEnvelope, Goto
<1>2. log[run[g]] \in Entry
  BY <1>1, ElementOfSeq
<1>3. e \in Entry
  BY <1>2 DEF Entry
<1>4. log' = [log EXCEPT ![run[g]] = e]
  BY DEF PutEnvelope
<1>5. /\ log' \in Seq(Entry) /\ Len(log') = Len(log)
      /\ \A q \in 1 .. Len(log) : log'[q] = IF q = run[g] THEN e ELSE log[q]
  <2> HIDE DEF e
  <2> QED
    BY <1>1, <1>3, <1>4, EntryChanged
<1>6. /\ e.wrote = TRUE /\ e.names = log[run[g]].names /\ e.ran = log[run[g]].ran
      /\ e.exit = log[run[g]].exit /\ e.before = log[run[g]].before
  BY <1>2 DEF Entry
<1> HIDE DEF e
<1> QED
  BY <1>1, <1>5, <1>6 DEF Kept

-----------------------------------------------------------------------------
(* The sibling of a rejected envelope                                      *)
Siblings ==
    /\ inode \in Seq(0 .. Torn)
    /\ {invalid, tmp} \subseteq 0 .. Len(inode)
    /\ fd \in [Gather -> 0 .. Len(inode)]

(* The other files and the places of the processes                         *)
Places ==
    LET Run == 0 .. Len(log) IN
    /\ pc \in [Gather -> Pcs]
    /\ run \in [Gather -> Run] /\ anchor \in [Gather -> Run] /\ yaml \in Run
    /\ staged \in [Probe -> Run] /\ raw \in [Probe -> [by : Run, of : Run, clean : BOOLEAN]]
    /\ records \subseteq [run : Run, anchor : Run]

(* What a process has in hand                                              *)
Hands ==
    /\ DOMAIN out = Gather /\ DOMAIN payload = Gather
    /\ \A g \in Gather :
          /\ DOMAIN out[g] \subseteq Probe /\ DOMAIN payload[g] \subseteq Probe
          /\ \A p \in DOMAIN payload[g] : payload[g][p] \in 0 .. Len(log)

Logged == log \in Seq(Entry) /\ Len(log) <= MaxRuns

LEMMA TypeParts == TypeInv <=> Siblings /\ Places /\ Hands /\ Logged /\ Lives
<1>1. TypeInv => Siblings /\ Places /\ Hands /\ Logged /\ Lives
  <2> SUFFICES ASSUME TypeInv PROVE Siblings /\ Places /\ Hands /\ Logged /\ Lives
    OBVIOUS
  <2>1. inode \in Seq(0 .. Torn)
    <3>1. /\ DOMAIN inode = 1 .. Len(inode) /\ Len(inode) \in Nat
          /\ inode = [n \in 1 .. Len(inode) |-> inode[n]]
          /\ \A n \in 1 .. Len(inode) : inode[n] \in 0 .. Torn
      BY DEF TypeInv, TypeOK, Shape
    <3>2. inode \in [1 .. Len(inode) -> 0 .. Torn]
      <4>1. [n \in 1 .. Len(inode) |-> inode[n]] \in [1 .. Len(inode) -> 0 .. Torn]
        BY <3>1
      <4> QED
        BY <3>1, <4>1
    <3>3. [1 .. Len(inode) -> 0 .. Torn] \subseteq Seq(0 .. Torn)
      BY <3>1, SeqDef
    <3> QED
      BY <3>2, <3>3
  <2> QED
    BY <2>1 DEF TypeInv, TypeOK, Shape, Siblings, Places, Hands, Logged, Pcs
<1>2. Siblings /\ Places /\ Hands /\ Logged /\ Lives => TypeInv
  <2> SUFFICES ASSUME Siblings, Places, Hands, Logged, Lives PROVE TypeInv
    OBVIOUS
  <2>1. inode \in Seq(Nat) /\ \A n \in DOMAIN inode : inode[n] \in 0 .. Torn
    BY PublishAssumption DEF Siblings, Torn
  <2>2. \A r \in DOMAIN log : log[r].before \subseteq 1 .. r - 1
    BY DEF Logged, Lives
  <2> QED
    BY <2>1, <2>2 DEF TypeInv, TypeOK, Shape, Siblings, Places, Hands, Logged, Pcs
<1> QED
  BY <1>1, <1>2

LEMMA SiblingsKept ==
    ASSUME TypeInv, [Next]_vars
    PROVE  Siblings'
<1>1. /\ Siblings /\ run \in [Gather -> 0 .. Len(log)] /\ Len(log) <= MaxRuns
      /\ Len(log) \in Nat /\ MaxRuns \in Nat
  BY TypeParts, PublishAssumption DEF Places, Logged
<1>2. CASE UNCHANGED sibling
  BY <1>1, <1>2 DEF sibling, Siblings
<1>3. ASSUME NEW g \in Gather, fd' = [fd EXCEPT ![g] = 0], UNCHANGED <<invalid, tmp, inode>>
      PROVE  Siblings'
  BY <1>1, <1>3 DEF Siblings
<1>4. ASSUME NEW g \in Gather, Reject(g) PROVE Siblings'
  <2>1. CASE tmp = 0
    <3>1. /\ inode' = Append(inode, Empty) /\ tmp' = Len(inode') /\ invalid' = invalid
          /\ fd' = [fd EXCEPT ![g] = tmp']
      BY <1>4, <2>1 DEF Reject
    <3>2. inode' \in Seq(0 .. Torn) /\ Len(inode') = Len(inode) + 1
      <4>1. Empty \in 0 .. Torn
        BY <1>1 DEF Empty, Torn
      <4> QED
        BY <1>1, <3>1, <4>1, AppendProperties DEF Siblings
    <3> QED
      BY <1>1, <3>1, <3>2 DEF Siblings
  <2>2. CASE tmp # 0
    <3>1. /\ inode' = [inode EXCEPT ![tmp] = Empty] /\ tmp' = tmp /\ invalid' = invalid
          /\ fd' = [fd EXCEPT ![g] = tmp']
      BY <1>4, <2>2 DEF Reject
    <3>2. inode' \in Seq(0 .. Torn) /\ Len(inode') = Len(inode)
      BY <1>1, <2>2, <3>1 DEF Siblings, Empty, Torn
    <3> QED
      BY <1>1, <3>1, <3>2 DEF Siblings
  <2> QED
    BY <2>1, <2>2
<1>5. ASSUME NEW g \in Gather, WriteInvalid(g) PROVE Siblings'
  <2>1. PICK c \in {run[g]} \cup (IF inode[fd[g]] = Empty THEN {} ELSE {Torn}) :
          inode' = [inode EXCEPT ![fd[g]] = c]
    BY <1>5 DEF WriteInvalid
  <2>2. c \in 0 .. Torn
    BY <1>1, <2>1 DEF Torn
  <2>3. inode' \in Seq(0 .. Torn) /\ Len(inode') = Len(inode)
    <3> DEFINE T == 0 .. Torn
    <3>1. inode \in Seq(T) /\ c \in T
      BY <1>1, <2>2 DEF Siblings
    <3>2. CASE fd[g] \in 1 .. Len(inode)
      <4> HIDE DEF T
      <4>1. /\ [inode EXCEPT ![fd[g]] = c] \in Seq(T)
            /\ Len([inode EXCEPT ![fd[g]] = c]) = Len(inode)
        BY <3>1, <3>2, ExceptSeq
      <4> QED
        BY <2>1, <4>1 DEF T
    <3>3. CASE fd[g] \notin 1 .. Len(inode)
      <4>1. inode' = inode
        BY <2>1, <3>1, <3>3
      <4> QED
        BY <3>1, <4>1
    <3> QED
      BY <3>2, <3>3
  <2> QED
    BY <1>1, <1>5, <2>3 DEF Siblings, WriteInvalid
<1>6. ASSUME NEW g \in Gather, ReplaceInvalid(g) PROVE Siblings'
  BY <1>1, <1>6 DEF Siblings, ReplaceInvalid
<1>7. ASSUME NEW g \in Gather, Step(g) PROVE Siblings'
  BY <1>2, <1>3, <1>4, <1>5, <1>6, <1>7
    DEF Step, Begin, NoOutputs, Collect, Answer, Read, Write, Accept, Refuse, PutRaw,
        PutEnvelope, ReadBack, Record, Fail, Die
<1> QED
  BY <1>2, <1>7 DEF Next, vars

(* An exit with a status, of a process that is under way                   *)
Ends(g) ==
    /\ Live(g)
    /\ \E code \in Exits \ {"none"} : Over(g, code) /\ (code = "ok" => pc[g] = "audit")

(* The actions, with those that end a run as one                           *)
LEMMA StepKinds ==
    ASSUME NEW g \in Gather, Step(g)
    PROVE  \/ Ends(g) \/ Begin(g) \/ Accept(g) \/ PutEnvelope(g) \/ Collect(g)
           \/ Reject(g) \/ WriteInvalid(g) \/ ReadBack(g)
           \/ \E p \in Probe : Answer(g, p) \/ Read(g, p) \/ PutRaw(g, p)
<1>1. ASSUME NEW from \in Pcs \ {"idle"}, NEW code \in Exits \ {"none"}, Exit(g, from, code),
             code = "ok" => from = "audit"
      PROVE  Ends(g)
  BY <1>1 DEF Exit, Ends, Live
<1>2. CASE NoOutputs(g) \/ ReplaceInvalid(g) \/ Refuse(g) \/ Record(g) \/ Fail(g)
  BY <1>1, <1>2 DEF NoOutputs, ReplaceInvalid, Refuse, Record, Fail, Pcs, Exits
<1>3. CASE Die(g)
  BY <1>3 DEF Die, Ends, Live, Exits
<1> QED
  BY <1>2, <1>3 DEF Step, Write

(* What a step does to the log: nothing, or one of four things             *)
LEMMA StepOnLog ==
    ASSUME NEW g \in Gather, Step(g)
    PROVE  UNCHANGED <<log, run>> \/ Ends(g) \/ Begin(g) \/ Accept(g) \/ PutEnvelope(g)
BY StepKinds DEF Collect, Answer, Read, Reject, WriteInvalid, PutRaw, ReadBack

LEMMA LogGrows ==
    ASSUME TypeInv, [Next]_vars
    PROVE  Kept(log, log') /\ Logged'
<1>0. Logged
  BY TypeParts
<1>1. CASE UNCHANGED log
  BY <1>0, <1>1 DEF Kept, Logged
<1>2. ASSUME NEW g \in Gather, Step(g) PROVE Kept(log, log') /\ Len(log') <= MaxRuns
  <2>1. CASE Ends(g)
    BY <1>0, <2>1, ExitLog DEF Ends, Logged
  <2>2. CASE Begin(g)
    <3>1. Len(log) < MaxRuns
      BY <2>2 DEF Begin
    <3> QED
      BY <1>0, <2>2, <3>1, BeginLog, PublishAssumption DEF Logged
  <2>3. CASE Accept(g)
    BY <1>0, <2>3, AcceptLog DEF Logged
  <2>4. CASE PutEnvelope(g)
    BY <1>0, <2>4, EnvelopeLog DEF Logged
  <2> QED
    BY <1>0, <1>1, <1>2, <2>1, <2>2, <2>3, <2>4, StepOnLog DEF Logged
<1>3. CASE UNCHANGED vars
  BY <1>1, <1>3 DEF vars
<1> QED
  BY <1>2, <1>3 DEF Next, Kept, Logged

LEMMA PlacesKept ==
    ASSUME TypeInv, [Next]_vars
    PROVE  Places'
<1>0. Places /\ Hands /\ Logged /\ Lives /\ InPlace \subseteq Probe
  BY TypeParts, PublishAssumption
<1>1. Len(log') \in Nat /\ Len(log) \in Nat /\ Len(log) <= Len(log')
  BY <1>0, LogGrows DEF Kept, Logged
<1> DEFINE Run == 0 .. Len(log)
           New == 0 .. Len(log')
<1>2. Run \subseteq New
  BY <1>1
<1> DEFINE Raw == [by : Run, of : Run, clean : BOOLEAN]
           NewRaw == [by : New, of : New, clean : BOOLEAN]
<1>3. /\ pc \in [Gather -> Pcs] /\ run \in [Gather -> Run] /\ anchor \in [Gather -> Run]
      /\ yaml \in Run /\ staged \in [Probe -> Run] /\ raw \in [Probe -> Raw]
      /\ records \subseteq [run : Run, anchor : Run]
  BY <1>0 DEF Places
<1>4. ASSUME NEW g \in Gather, Step(g)
      PROVE  /\ pc' \in [Gather -> Pcs]
             /\ run' \in [Gather -> New] /\ anchor' \in [Gather -> New] /\ yaml' \in New
             /\ staged' \in [Probe -> New] /\ raw' \in [Probe -> NewRaw]
             /\ records' \subseteq [run : New, anchor : New]
  <2>1. run[g] \in Run /\ anchor[g] \in Run /\ 0 \in New
    BY <1>1, <1>3
  <2>2. Run \subseteq New /\ Raw \subseteq NewRaw /\ [run : Run, anchor : Run] \subseteq [run : New, anchor : New]
    BY <1>2
  <2>3. pc' \in [Gather -> Pcs]
    BY <1>3, <1>4 DEF Step, Begin, NoOutputs, Collect, Answer, Read, Reject, WriteInvalid,
        ReplaceInvalid, Write, Accept, Refuse, PutRaw, PutEnvelope, ReadBack, Record, Fail, Die,
        Exit, Over, Goto, Pcs
  <2>4. run' \in [Gather -> New]
    <3>1. CASE Begin(g)
      <4>1. Len(log) + 1 \in New
        BY <1>0, <1>1, <3>1, BeginLog, TypeParts
      <4> QED
        BY <1>3, <2>2, <3>1, <4>1 DEF Begin
    <3>2. CASE UNCHANGED run \/ run' = [run EXCEPT ![g] = 0]
      BY <1>3, <2>1, <2>2, <3>2
    <3> HIDE DEF Run, New, Raw, NewRaw
    <3>3. Begin(g) \/ UNCHANGED run \/ run' = [run EXCEPT ![g] = 0]
      BY <1>4, StepOnLog DEF Ends, Over, Accept, PutEnvelope
    <3> QED
      BY <3>1, <3>2, <3>3
  <2>5. anchor' \in [Gather -> New]
    <3>1. UNCHANGED anchor \/ \E v \in {0, yaml} : anchor' = [anchor EXCEPT ![g] = v]
      BY <1>4 DEF Step, Begin, NoOutputs, Collect, Answer, Read, Reject, WriteInvalid,
          ReplaceInvalid, Write, Accept, Refuse, PutRaw, PutEnvelope, ReadBack, Record, Fail, Die,
          Exit, Over
    <3> QED
      BY <1>3, <2>1, <2>2, <3>1
  <2>6. yaml' \in New
    <3>1. yaml' \in {yaml, run[g]}
      BY <1>4 DEF Step, Begin, NoOutputs, Collect, Answer, Read, Reject, WriteInvalid,
          ReplaceInvalid, Write, Accept, Refuse, PutRaw, PutEnvelope, ReadBack, Record, Fail, Die,
          files
    <3> QED
      BY <1>3, <2>1, <2>2, <3>1
  <2>7. records' \subseteq [run : New, anchor : New]
    <3>1. \E v \in {0, anchor[g]} : records' \subseteq records \cup {[run |-> run[g], anchor |-> v]}
      BY <1>4 DEF Step, Begin, NoOutputs, Collect, Answer, Read, Reject, WriteInvalid,
          ReplaceInvalid, Write, Accept, Refuse, PutRaw, PutEnvelope, ReadBack, Record, Fail, Die,
          files
    <3> QED
      BY <1>3, <2>1, <2>2, <3>1
  <2>8. CASE UNCHANGED <<staged, raw>>
    BY <1>3, <2>2, <2>3, <2>4, <2>5, <2>6, <2>7, <2>8
  <2>9. ASSUME NEW p \in Probe, Stage(p, run[g])
        PROVE  staged' \in [Probe -> New] /\ raw' \in [Probe -> NewRaw]
    BY <1>3, <2>1, <2>2, <2>9 DEF Stage
  <2>10. ASSUME NEW p \in Probe, PutRaw(g, p)
         PROVE  staged' \in [Probe -> New] /\ raw' \in [Probe -> NewRaw]
    <3>1. payload[g][p] \in Run
      BY <1>0, <2>10 DEF PutRaw, Hands
    <3> QED
      BY <1>3, <2>1, <2>2, <2>10, <3>1 DEF PutRaw
  <2>11. UNCHANGED <<staged, raw>> \/ \E p \in Probe : Stage(p, run[g]) \/ PutRaw(g, p)
    BY <1>4 DEF Step, Begin, NoOutputs, Collect, Answer, Read, Reject, WriteInvalid,
        ReplaceInvalid, Write, Accept, Refuse, PutEnvelope, ReadBack, Record, Fail, Die, files
  <2> HIDE DEF Run, New, Raw, NewRaw
  <2> QED
    BY <2>3, <2>4, <2>5, <2>6, <2>7, <2>8, <2>9, <2>10, <2>11
<1>5. CASE UNCHANGED vars
  BY <1>3, <1>5 DEF vars, local, files, Places
<1> QED
  BY <1>4, <1>5 DEF Next, Places

LEMMA HandsKept ==
    ASSUME TypeInv, [Next]_vars
    PROVE  Hands'
<1>0. Places /\ Hands /\ InPlace \subseteq Probe
  BY TypeParts, PublishAssumption
<1>1. Len(log') \in Nat /\ Len(log) \in Nat /\ Len(log) <= Len(log')
  BY LogGrows, TypeParts DEF Kept, Logged
<1>2. CASE UNCHANGED <<out, payload>>
  BY <1>0, <1>1, <1>2 DEF Hands
<1>3. ASSUME NEW g \in Gather, Ends(g) PROVE Hands'
  BY <1>0, <1>1, <1>3 DEF Hands, Ends, Over
<1>4. ASSUME NEW g \in Gather, NEW p \in Probe, Answer(g, p) PROVE Hands'
  BY <1>0, <1>1, <1>4 DEF Hands, Answer
<1>5. ASSUME NEW g \in Gather, NEW p \in Probe, Read(g, p) PROVE Hands'
  <2>1. Staged(p) \in 0 .. Len(log)
    BY <1>0 DEF Places, Staged
  <2> QED
    BY <1>0, <1>1, <1>5, <2>1 DEF Hands, Read
<1>6. ASSUME NEW g \in Gather, Accept(g) PROVE Hands'
  BY <1>0, <1>1, <1>6 DEF Hands, Accept, Listed
<1>7. ASSUME NEW g \in Gather, NEW p \in Probe, PutRaw(g, p) PROVE Hands'
  BY <1>0, <1>1, <1>7 DEF Hands, PutRaw
<1>8. ASSUME NEW g \in Gather, Step(g) PROVE Hands'
  <2>1. \/ UNCHANGED <<out, payload>> \/ Ends(g) \/ Accept(g)
        \/ \E p \in Probe : Answer(g, p) \/ Read(g, p) \/ PutRaw(g, p)
    BY <1>8, StepKinds DEF Begin, Collect, Reject, WriteInvalid, PutEnvelope, ReadBack
  <2> QED
    BY <1>2, <1>3, <1>4, <1>5, <1>6, <1>7, <2>1
<1> QED
  BY <1>2, <1>8 DEF Next, vars, local

LEMMA LivesKept ==
    ASSUME TypeInv, [Next]_vars
    PROVE  Lives'
<1>0. /\ Places /\ Hands /\ Lives /\ log \in Seq(Entry)
      /\ Kept(log, log') /\ Places' /\ Hands'
  BY TypeParts, LogGrows, PlacesKept, HandsKept DEF Logged
<1>1. Len(log') \in Nat /\ Len(log) \in Nat /\ Len(log) <= Len(log')
  BY <1>0 DEF Kept
<1>2. CASE UNCHANGED vars
  BY <1>0, <1>2 DEF Lives, Live, vars, local
<1>3. ASSUME NEW g \in Gather, UNCHANGED <<log, run>>, Live(g), pc' = [pc EXCEPT ![g] = pc'[g]],
             pc'[g] # "idle",
             \A h \in Gather \ {g} : out'[h] = out[h] /\ payload'[h] = payload[h],
             pc'[g] = "probing" => DOMAIN payload'[g] = {}
      PROVE  Lives'
  <2>1. \A h \in Gather : h # g => pc'[h] = pc[h] /\ out'[h] = out[h] /\ payload'[h] = payload[h]
    BY <1>0, <1>3 DEF Places
  <2>2. \A h \in Gather : Live(h)' <=> Live(h)
    BY <1>3, <2>1 DEF Live
  <2>3. /\ \A h \in Gather : /\ ~ Live(h) => DOMAIN payload'[h] = {} /\ DOMAIN out'[h] = {}
                             /\ pc'[h] = "probing" => DOMAIN payload'[h] = {}
    BY <1>0, <1>3, <2>1 DEF Lives
  <2> QED
    BY <1>0, <1>3, <2>2, <2>3 DEF Lives
<1>4. ASSUME NEW g \in Gather, Ends(g) PROVE Lives'
  <2>1. PICK code \in Exits \ {"none"} : Over(g, code)
    BY <1>4 DEF Ends
  <2>2. /\ Live(g) /\ run[g] \in 1 .. Len(log) /\ code # "none"
        /\ \A h \in Gather : run[h] = run[g] => h = g
    BY <1>0, <1>1, <1>4 DEF Ends, Lives
  <2>3. \A h \in Gather : /\ pc'[h] = IF h = g THEN "idle" ELSE pc[h]
                          /\ run'[h] = IF h = g THEN 0 ELSE run[h]
                          /\ out'[h] = IF h = g THEN <<>> ELSE out[h]
                          /\ payload'[h] = IF h = g THEN <<>> ELSE payload[h]
    BY <1>0, <2>1 DEF Over, Places, Hands
  <2>4. /\ Len(log') = Len(log)
        /\ \A r \in 1 .. Len(log) : log'[r].exit = IF r = run[g] THEN code ELSE log[r].exit
    BY <2>1, <2>2, ExitLog
  <2>5. \A r \in 1 .. Len(log) : log'[r].before = log[r].before
    BY <1>0 DEF Kept
  <2>6. \A h \in Gather :
          /\ pc'[h] # "idle" => run'[h] \in 1 .. Len(log') /\ log'[run'[h]].exit = "none"
          /\ pc'[h] = "idle" => run'[h] = 0 /\ DOMAIN payload'[h] = {} /\ DOMAIN out'[h] = {}
          /\ pc'[h] = "probing" => DOMAIN payload'[h] = {}
    BY <1>0, <2>2, <2>3, <2>4 DEF Lives, Live
  <2>7. \A h, k \in Gather : run'[h] = run'[k] /\ run'[h] # 0 => h = k
    BY <1>0, <2>3 DEF Lives
  <2>8. \A r \in 1 .. Len(log') : \A q \in log'[r].before :
          q \in 1 .. r - 1 /\ log'[q].exit # "none"
    <3> SUFFICES ASSUME NEW r \in 1 .. Len(log), NEW q \in log[r].before
                 PROVE  q \in 1 .. r - 1 /\ log'[q].exit # "none"
      BY <2>4, <2>5
    <3>1. q \in 1 .. r - 1 /\ log[q].exit # "none"
      BY <1>0 DEF Lives
    <3> QED
      BY <1>1, <2>2, <2>4, <3>1
  <2> QED
    BY <2>6, <2>7, <2>8 DEF Lives, Live
<1>5. ASSUME NEW g \in Gather, Begin(g) PROVE Lives'
  <2>1. /\ \A h \in Gather : /\ pc'[h] = IF h = g THEN "probing" ELSE pc[h]
                             /\ run'[h] = IF h = g THEN Len(log) + 1 ELSE run[h]
        /\ pc[g] = "idle"
        /\ UNCHANGED <<out, payload>>
    BY <1>0, <1>5 DEF Begin, Goto, Places
  <2>2. /\ Len(log') = Len(log) + 1
        /\ \A r \in 1 .. Len(log) : log'[r] = log[r]
        /\ log'[Len(log) + 1].before = {r \in 1 .. Len(log) : log[r].exit # "none"}
        /\ log'[Len(log) + 1].exit = "none"
    BY <1>5, BeginLog
  <2> QED
    BY <1>0, <1>1, <2>1, <2>2 DEF Lives, Live
<1>6. ASSUME NEW g \in Gather, Accept(g) \/ PutEnvelope(g) PROVE Lives'
  <2>1. /\ \A h \in Gather : /\ pc'[h] # "idle" <=> pc[h] # "idle"
                             /\ pc'[h] = "probing" => pc[h] = "probing" /\ h # g
                             /\ h # g => payload'[h] = payload[h] 
        /\ UNCHANGED <<run, out>> /\ pc'[g] # "idle"
    BY <1>0, <1>6 DEF Accept, PutEnvelope, Goto, Places, Hands
  <2>2. /\ Len(log') = Len(log)
        /\ \A r \in 1 .. Len(log) : log'[r].exit = log[r].exit /\ log'[r].before = log[r].before
    BY <1>0, <1>6, AcceptLog, EnvelopeLog DEF Kept
  <2>3. \A h \in Gather : /\ Live(h)' <=> Live(h)
                          /\ ~ Live(h) => DOMAIN payload'[h] = {} /\ DOMAIN out'[h] = {}
                          /\ pc'[h] = "probing" => DOMAIN payload'[h] = {}
    BY <1>0, <2>1 DEF Lives, Live
  <2>4. ASSUME NEW r \in 1 .. Len(log'), NEW q \in log'[r].before
        PROVE  q \in 1 .. r - 1 /\ log'[q].exit # "none"
    <3>1. q \in 1 .. r - 1 /\ log[q].exit # "none" /\ r \in 1 .. Len(log)
      BY <1>0, <2>2, <2>4 DEF Lives
    <3>2. q \in 1 .. Len(log)
      BY <1>1, <3>1
    <3> QED
      BY <2>2, <3>1, <3>2
  <2>5. \A h \in Gather : Live(h)' => run'[h] \in 1 .. Len(log') /\ log'[run'[h]].exit = "none"
    BY <1>0, <2>1, <2>2, <2>3 DEF Lives
  <2> QED
    BY <1>0, <2>1, <2>3, <2>4, <2>5 DEF Lives
<1>7. ASSUME NEW g \in Gather, Step(g), UNCHANGED <<log, run>>, ~ Ends(g), ~ Begin(g),
             ~ Accept(g), ~ PutEnvelope(g)
      PROVE  Lives'
  <2>1. CASE \E p \in Probe : Answer(g, p) \/ Read(g, p) \/ PutRaw(g, p)
    <3>1. pc' = pc /\ pc = [pc EXCEPT ![g] = pc[g]] /\ Live(g) /\ pc'[g] # "idle"
      BY <1>0, <2>1 DEF Answer, Read, PutRaw, Live, Places
    <3>2. \A h \in Gather \ {g} : out'[h] = out[h] /\ payload'[h] = payload[h]
      BY <1>0, <2>1 DEF Answer, Read, PutRaw, Hands
    <3>3. pc[g] = "probing" => DOMAIN payload'[g] = {}
      BY <1>0, <2>1 DEF Answer, Read, PutRaw, Lives
    <3> QED
      BY <1>3, <1>7, <3>1, <3>2, <3>3
  <2>2. CASE Collect(g) \/ Reject(g) \/ WriteInvalid(g) \/ ReadBack(g)
    <3>1. \E at \in Pcs \ {"idle", "probing"} : pc' = [pc EXCEPT ![g] = at]
      BY <2>2 DEF Collect, Reject, WriteInvalid, ReadBack, Goto, Pcs
    <3>2. /\ pc' = [pc EXCEPT ![g] = pc'[g]] /\ pc'[g] # "idle" /\ pc'[g] # "probing"
          /\ Live(g) /\ UNCHANGED out
      BY <1>0, <2>2, <3>1 DEF Collect, Reject, WriteInvalid, ReadBack, Goto, Live, Places
    <3>3. \A h \in Gather \ {g} : payload'[h] = payload[h]
      BY <1>0, <2>2 DEF Collect, Reject, WriteInvalid, ReadBack, Hands
    <3> QED
      BY <1>3, <1>7, <3>2, <3>3
  <2> QED
    BY <1>7, <2>1, <2>2, StepKinds
<1> QED
  BY <1>2, <1>4, <1>5, <1>6, <1>7, StepOnLog DEF Next

LEMMA TypeStart == Init => TypeInv
<1> SUFFICES ASSUME Init PROVE TypeInv
  OBVIOUS
<1>1. log = <<>> /\ inode = <<>> /\ Len(log) = 0 /\ Len(inode) = 0
  BY DEF Init
<1>2. log \in Seq(Entry) /\ inode \in Seq(0 .. Torn)
  BY <1>1
<1>3. Siblings /\ Places /\ Hands /\ Logged /\ Lives
  BY <1>1, <1>2, PublishAssumption
    DEF Init, Siblings, Places, Hands, Logged, Lives, Live, Missing, Pcs
<1> QED
  BY <1>3, TypeParts

LEMMA TypeStep == TypeInv /\ [Next]_vars => TypeInv'
<1> SUFFICES ASSUME TypeInv, [Next]_vars PROVE TypeInv'
  OBVIOUS
<1>1. Siblings' /\ Places' /\ Hands' /\ Logged' /\ Lives'
  BY SiblingsKept, PlacesKept, HandsKept, LogGrows, LivesKept
<1> QED
  BY <1>1, TypeParts, PTL

(* TypeOK: what a process, a file and the log may hold.                    *)
THEOREM PublishTypeCorrect == Spec => []TypeOK
<1>1. Init => TypeInv
  BY TypeStart
<1>2. TypeInv /\ [Next]_vars => TypeInv'
  BY TypeStep
<1> QED
  BY <1>1, <1>2, PTL DEF Spec, TypeInv

-----------------------------------------------------------------------------
(* What a step leaves alone                                                *)

LEMMA OtherProcesses ==
    ASSUME TypeInv, NEW g \in Gather, Step(g), NEW h \in Gather, h # g
    PROVE  /\ pc'[h] = pc[h] /\ run'[h] = run[h] /\ out'[h] = out[h]
           /\ payload'[h] = payload[h] /\ anchor'[h] = anchor[h]
<1> USE TypeParts DEF Places, Hands
<1>1. CASE Ends(g)
  BY <1>1 DEF Ends, Over
<1>2. CASE \E p \in Probe : Answer(g, p) \/ Read(g, p) \/ PutRaw(g, p)
  BY <1>2 DEF Answer, Read, PutRaw
<1>3. CASE Begin(g) \/ Collect(g) \/ Reject(g) \/ WriteInvalid(g)
  BY <1>3 DEF Begin, Collect, Reject, WriteInvalid, Goto
<1>4. CASE Accept(g) \/ PutEnvelope(g) \/ ReadBack(g)
  BY <1>4 DEF Accept, PutEnvelope, ReadBack, Goto
<1> QED
  BY <1>1, <1>2, <1>3, <1>4, StepKinds

(* Where a step leads                                                      *)
LEMMA StepLeads ==
    ASSUME TypeInv, NEW g \in Gather, Step(g)
    PROVE  \/ pc'[g] = "idle" /\ Ends(g)
           \/ pc'[g] = "probing" /\ (Begin(g) \/ \E p \in Probe : Answer(g, p))
           \/ pc'[g] = "collecting" /\ (Collect(g) \/ \E p \in Probe : Read(g, p))
           \/ pc'[g] = "invalid" /\ Reject(g)
           \/ pc'[g] = "rejected" /\ WriteInvalid(g)
           \/ pc'[g] = "raws" /\ (Accept(g) \/ \E p \in Probe : PutRaw(g, p))
           \/ pc'[g] = "written" /\ PutEnvelope(g)
           \/ pc'[g] = "audit" /\ ReadBack(g)
<1>0. Places
  BY TypeParts
<1>1. Ends(g) => pc'[g] = "idle"
  BY <1>0 DEF Ends, Over, Places
<1>2. Begin(g) => pc'[g] = "probing"
  BY <1>0 DEF Begin, Goto, Places
<1>3. ASSUME NEW p \in Probe
      PROVE  /\ Answer(g, p) => pc'[g] = "probing"
             /\ Read(g, p) => pc'[g] = "collecting"
             /\ PutRaw(g, p) => pc'[g] = "raws"
  BY DEF Answer, Read, PutRaw
<1>4. /\ Collect(g) => pc'[g] = "collecting"
      /\ Reject(g) => pc'[g] = "invalid"
      /\ WriteInvalid(g) => pc'[g] = "rejected"
  BY <1>0 DEF Collect, Reject, WriteInvalid, Goto, Places
<1>5. /\ Accept(g) => pc'[g] = "raws"
      /\ PutEnvelope(g) => pc'[g] = "written"
      /\ ReadBack(g) => pc'[g] = "audit"
  BY <1>0 DEF Accept, PutEnvelope, ReadBack, Goto, Places
<1> QED
  BY <1>1, <1>2, <1>3, <1>4, <1>5, StepKinds

(* The entry of another run stays; a run exits with 0 from its record only. *)
LEMMA OtherRuns ==
    ASSUME TypeInv, NEW g \in Gather, Step(g), NEW r \in 1 .. Len(log)
    PROVE  /\ r # run[g] => log'[r] = log[r]
           /\ log'[r].exit = "ok" => log[r].exit = "ok" \/ (r = run[g] /\ pc[g] = "audit")
<1>0. Places /\ Lives
  BY TypeParts
<1>1. CASE Ends(g)
  <2>1. PICK code \in Exits \ {"none"} : Over(g, code) /\ (code = "ok" => pc[g] = "audit")
    BY <1>1 DEF Ends
  <2>2. /\ r # run[g] => log'[r] = log[r]
        /\ log'[r].exit = IF r = run[g] THEN code ELSE log[r].exit
    BY <1>1, <2>1, ExitLog DEF Ends
  <2> QED
    BY <2>1, <2>2
<1>2. CASE Begin(g) \/ Accept(g) \/ PutEnvelope(g)
  BY <1>2, BeginLog, AcceptLog, EnvelopeLog
<1>3. CASE UNCHANGED log
  BY <1>3
<1> QED
  BY <1>1, <1>2, <1>3, StepOnLog

(* A run that is under way has ended for nobody.                           *)
LEMMA LiveOverlaps ==
    ASSUME TypeInv, NEW g \in Gather, Live(g)
    PROVE  /\ run[g] \in 1 .. Len(log)
           /\ \A r \in 1 .. Len(log) : run[g] \notin log[r].before
  BY TypeParts DEF Lives, Live

-----------------------------------------------------------------------------
(* A run lists its raw files when its envelope is accepted, writes it once *)
(* they are published, and reports success after that only.                *)
Drafting == {"probing", "collecting", "invalid", "rejected"}

Drafts ==
    /\ \A g \in Gather :
          /\ pc[g] \in Drafting => log[run[g]].names = {}
          /\ pc[g] \in Drafting \cup {"raws"} => ~ log[run[g]].wrote
          /\ pc[g] = "raws" => \A p \in DOMAIN payload[g] : payload[g][p] # 0
          /\ pc[g] \in {"written", "audit"} => log[run[g]].wrote
    /\ \A r \in 1 .. Len(log) : log[r].exit = "ok" => log[r].wrote

LEMMA DraftsStep == TypeInv /\ Drafts /\ [Next]_vars => Drafts'
<1> SUFFICES ASSUME TypeInv, Drafts, [Next]_vars PROVE Drafts'
  OBVIOUS
<1>0. Places /\ Hands /\ Lives /\ Kept(log, log') /\ log' \in Seq(Entry) /\ Len(log) \in Nat
  BY TypeParts, LogGrows DEF Kept, Logged
<1>1. CASE UNCHANGED vars
  BY <1>1 DEF vars, local, Drafts
<1>2. ASSUME NEW g \in Gather, Step(g) PROVE Drafts'
  <2>1. ASSUME NEW h \in Gather, h # g
        PROVE  /\ pc'[h] = pc[h] /\ payload'[h] = payload[h] /\ run'[h] = run[h]
               /\ pc[h] # "idle" => log'[run[h]] = log[run[h]]
    <3>1. pc[h] # "idle" => run[h] \in 1 .. Len(log) /\ run[h] # run[g]
      BY <1>0, <2>1 DEF Lives, Live
    <3> QED
      BY <1>2, <2>1, <3>1, OtherProcesses, OtherRuns
  <2>2. /\ pc'[g] \in Drafting => log'[run'[g]].names = {}
        /\ pc'[g] \in Drafting \cup {"raws"} => ~ log'[run'[g]].wrote
        /\ pc'[g] = "raws" => \A p \in DOMAIN payload'[g] : payload'[g][p] # 0
        /\ pc'[g] \in {"written", "audit"} => log'[run'[g]].wrote
    <3>0. Live(g) => run[g] \in 1 .. Len(log)
      BY <1>0 DEF Lives
    <3>1. CASE Ends(g)
      <4>1. pc'[g] = "idle"
        BY <1>0, <3>1 DEF Ends, Over, Places
      <4> QED
        BY <4>1 DEF Drafting
    <3>2. CASE Begin(g)
      <4>1. pc'[g] = "probing"
        BY <1>0, <3>2 DEF Begin, Goto, Places
      <4> QED
        BY <3>2, <4>1, BeginLog
    <3>3. CASE Accept(g)
      <4>1. /\ pc[g] = "collecting" /\ pc'[g] = "raws" /\ run'[g] = run[g]
            /\ payload'[g] = [p \in Listed(g) |-> payload[g][p]]
        BY <1>0, <3>3 DEF Accept, Goto, Places, Hands
      <4>2. ~ log[run[g]].wrote
        BY <4>1 DEF Drafts, Drafting
      <4> QED
        BY <3>0, <3>3, <4>1, <4>2, AcceptLog DEF Listed, Live, Drafting
    <3>4. CASE PutEnvelope(g)
      <4>1. /\ pc[g] = "raws" /\ pc'[g] = "written" /\ run'[g] = run[g]
        BY <1>0, <3>4 DEF PutEnvelope, Goto, Places
      <4> QED
        BY <3>0, <3>4, <4>1, EnvelopeLog DEF Live, Drafting
    <3>5. CASE Collect(g) \/ Reject(g) \/ WriteInvalid(g) \/ ReadBack(g)
      BY <1>0, <3>5 DEF Collect, Reject, WriteInvalid, ReadBack, Goto, Places, Drafts, Drafting
    <3>6. CASE \E p \in Probe : Answer(g, p) \/ Read(g, p)
      BY <1>0, <3>6 DEF Answer, Read, Drafts, Drafting
    <3>7. ASSUME NEW p \in Probe, PutRaw(g, p)
          PROVE  /\ UNCHANGED <<pc, run, log>>
                 /\ \A q \in DOMAIN payload'[g] : payload'[g][q] # 0
      BY <1>0, <3>7 DEF PutRaw, Drafts, Hands
    <3>8. CASE \E p \in Probe : PutRaw(g, p)
      BY <3>7, <3>8 DEF Drafts
    <3> QED
      BY <1>2, <3>1, <3>2, <3>3, <3>4, <3>5, <3>6, <3>8, StepKinds
  <2>3. ASSUME NEW r \in 1 .. Len(log'), log'[r].exit = "ok" PROVE log'[r].wrote
    <3>1. CASE r \in 1 .. Len(log)
      <4>1. \/ log[r].exit = "ok"
            \/ r = run[g] /\ pc[g] = "audit"
        BY <1>2, <2>3, <3>1, OtherRuns
      <4>2. log[r].wrote
        BY <3>1, <4>1 DEF Drafts
      <4> QED
        BY <1>0, <3>1, <4>2 DEF Kept
    <3>2. CASE r \notin 1 .. Len(log)
      <4>1. Begin(g) \/ Len(log') = Len(log)
        BY <1>2, StepOnLog, ExitLog, AcceptLog, EnvelopeLog DEF Ends
      <4>2. Begin(g) /\ r = Len(log) + 1
        BY <1>0, <2>3, <3>2, <4>1, BeginLog
      <4> QED
        BY <2>3, <4>2, BeginLog
    <3> QED
      BY <3>1, <3>2
  <2>4. \A h \in Gather :
          /\ pc'[h] \in Drafting => log'[run'[h]].names = {}
          /\ pc'[h] \in Drafting \cup {"raws"} => ~ log'[run'[h]].wrote
          /\ pc'[h] = "raws" => \A p \in DOMAIN payload'[h] : payload'[h][p] # 0
          /\ pc'[h] \in {"written", "audit"} => log'[run'[h]].wrote
    <3> SUFFICES ASSUME NEW h \in Gather, h # g
                 PROVE  /\ pc[h] \in Drafting => log'[run[h]].names = {}
                        /\ pc[h] \in Drafting \cup {"raws"} => ~ log'[run[h]].wrote
                        /\ pc[h] = "raws" => \A p \in DOMAIN payload[h] : payload[h][p] # 0
                        /\ pc[h] \in {"written", "audit"} => log'[run[h]].wrote
      BY <2>1, <2>2
    <3> QED
      BY <2>1 DEF Drafts, Drafting
  <2> QED
    BY <2>3, <2>4 DEF Drafts
<1> QED
  BY <1>1, <1>2 DEF Next

-----------------------------------------------------------------------------
(* The YAML is of a run that no run that wrote one began after; and what a *)
(* run reads back, or has read back, is of one that overlapped it.         *)
Envelopes ==
    /\ yaml # 0 => yaml \in 1 .. Len(log) /\ log[yaml].wrote
    /\ \A r \in 1 .. Len(log) : log[r].wrote => yaml # 0 /\ yaml \notin log[r].before
    /\ \A g \in Gather : pc[g] = "written" => Overlap(yaml, run[g])

Anchors ==
    /\ \A g \in Gather : pc[g] = "audit" =>
          /\ anchor[g] \in 1 .. Len(log) /\ log[anchor[g]].wrote
          /\ Overlap(anchor[g], run[g])
    /\ \A rec \in records : rec.anchor # 0 =>
          /\ rec.anchor \in 1 .. Len(log) /\ log[rec.anchor].wrote
          /\ rec.run \in 1 .. Len(log) /\ Overlap(rec.anchor, rec.run)

LEMMA EnvelopesStep == TypeInv /\ Drafts /\ Envelopes /\ [Next]_vars => Envelopes'
<1> SUFFICES ASSUME TypeInv, Drafts, Envelopes, [Next]_vars PROVE Envelopes'
  OBVIOUS
<1>0. Places /\ Lives /\ Kept(log, log') /\ Len(log) \in Nat /\ Len(log') \in Nat
  BY TypeParts, LogGrows DEF Kept, Logged
<1>1. CASE UNCHANGED vars
  BY <1>1 DEF vars, local, files, Envelopes, Overlap
<1>2. ASSUME NEW g \in Gather, Step(g) PROVE Envelopes'
  <2>0. \A h \in Gather : Live(h) => run[h] \in 1 .. Len(log)
    BY <1>0 DEF Lives
  <2>1. CASE PutEnvelope(g)
    <3>1. /\ yaml' = run[g] /\ run' = run /\ Live(g) /\ Live(g)'
          /\ \A h \in Gather : pc'[h] = "written" => h = g \/ pc[h] = "written"
      BY <1>0, <2>1 DEF PutEnvelope, Goto, Live, Places
    <3>2. run[g] \in 1 .. Len(log) /\ \A r \in 1 .. Len(log) : run[g] \notin log[r].before
      BY <3>1, LiveOverlaps
    <3>3. Len(log') = Len(log) /\ log'[run[g]].wrote
      BY <2>1, <3>2, EnvelopeLog
    <3>4. \A r \in 1 .. Len(log) : log'[r].before = log[r].before
      BY <1>0 DEF Kept
    <3>5. \A h \in Gather : pc'[h] = "written" =>
            yaml' \notin log'[run'[h]].before /\ run'[h] \notin log'[yaml'].before
      <4> SUFFICES ASSUME NEW h \in Gather, pc'[h] = "written"
                   PROVE  run[g] \notin log'[run[h]].before /\ run[h] \notin log'[run[g]].before
        BY <3>1
      <4>1. Live(h)
        BY <3>1 DEF Live
      <4>2. run[h] \in 1 .. Len(log) /\ \A r \in 1 .. Len(log) : run[h] \notin log[r].before
        BY <4>1, LiveOverlaps
      <4> QED
        BY <3>2, <3>4, <4>2
    <3> QED
      BY <1>0, <3>1, <3>2, <3>3, <3>4, <3>5 DEF Envelopes, Overlap
  <2>2. CASE ~ PutEnvelope(g)
    <3>1. yaml' = yaml
      BY <1>2, <2>2 DEF Step, Begin, NoOutputs, Collect, Answer, Read, Reject, WriteInvalid,
          ReplaceInvalid, Write, Accept, Refuse, PutRaw, ReadBack, Record, Fail, Die, files
    <3>2. \A r \in 1 .. Len(log) : log'[r].wrote = log[r].wrote /\ log'[r].before = log[r].before
      BY <1>0, <1>2, <2>2, StepOnLog, ExitLog, BeginLog, AcceptLog DEF Ends, Kept
    <3>3. \A r \in 1 .. Len(log') : log'[r].wrote => r \in 1 .. Len(log)
      <4>1. Begin(g) \/ Len(log') = Len(log)
        BY <1>2, <2>2, StepOnLog, ExitLog, AcceptLog DEF Ends
      <4> QED
        BY <1>0, <4>1, BeginLog
    <3>4. \A h \in Gather : pc'[h] = "written" => pc[h] = "written" /\ run'[h] = run[h]
      <4>1. pc'[g] # "written"
        BY <1>2, <2>2, StepLeads
      <4> QED
        BY <1>2, <4>1, OtherProcesses
    <3>5. yaml' # 0 => yaml' \in 1 .. Len(log') /\ log'[yaml'].wrote
      BY <1>0, <3>1, <3>2 DEF Envelopes, Kept
    <3>6. \A r \in 1 .. Len(log') : log'[r].wrote => yaml' # 0 /\ yaml' \notin log'[r].before
      BY <3>1, <3>2, <3>3 DEF Envelopes
    <3>7. ASSUME NEW h \in Gather, pc'[h] = "written"
          PROVE  yaml' \notin log'[run'[h]].before /\ run'[h] \notin log'[yaml'].before
      <4>1. pc[h] = "written" /\ run'[h] = run[h] /\ run[h] \in 1 .. Len(log)
        BY <2>0, <3>4, <3>7 DEF Live
      <4>2. log[run[h]].wrote
        BY <4>1 DEF Drafts
      <4>3. yaml \in 1 .. Len(log) /\ yaml \notin log[run[h]].before /\ run[h] \notin log[yaml].before
        BY <4>1, <4>2 DEF Envelopes, Overlap
      <4> QED
        BY <3>1, <3>2, <4>1, <4>3
    <3> QED
      BY <3>5, <3>6, <3>7 DEF Envelopes, Overlap
  <2> QED
    BY <2>1, <2>2
<1> QED
  BY <1>1, <1>2 DEF Next

LEMMA AnchorsStep == TypeInv /\ Drafts /\ Envelopes /\ Anchors /\ [Next]_vars => Anchors'
<1> SUFFICES ASSUME TypeInv, Drafts, Envelopes, Anchors, [Next]_vars PROVE Anchors'
  OBVIOUS
<1>0. Places /\ Lives /\ Kept(log, log') /\ Len(log) \in Nat /\ Len(log') \in Nat
  BY TypeParts, LogGrows DEF Kept, Logged
<1>1. CASE UNCHANGED vars
  BY <1>1 DEF vars, local, files, Anchors, Overlap
<1>2. ASSUME NEW g \in Gather, Step(g) PROVE Anchors'
  <2>0. \A h \in Gather : Live(h) => run[h] \in 1 .. Len(log)
    BY <1>0 DEF Lives
  <2>1. \A q \in 1 .. Len(log) :
          /\ q \in 1 .. Len(log')
          /\ log[q].wrote => log'[q].wrote
          /\ log'[q].before = log[q].before
    BY <1>0 DEF Kept
  <2>2. ASSUME NEW h \in Gather, pc'[h] = "audit"
        PROVE  /\ anchor'[h] \in 1 .. Len(log') /\ log'[anchor'[h]].wrote
               /\ anchor'[h] \notin log'[run'[h]].before
               /\ run'[h] \notin log'[anchor'[h]].before
    <3>1. CASE ReadBack(g) /\ h = g
      <4>1. pc[g] = "written" /\ anchor'[g] = yaml /\ run' = run /\ log' = log
        BY <1>0, <3>1 DEF ReadBack, Goto, Places
      <4>2. run[g] \in 1 .. Len(log) /\ log[run[g]].wrote
        BY <2>0, <4>1 DEF Drafts, Live
      <4> QED
        BY <3>1, <4>1, <4>2 DEF Envelopes, Overlap
    <3>2. CASE ~ (ReadBack(g) /\ h = g)
      <4>1. pc[h] = "audit" /\ anchor'[h] = anchor[h] /\ run'[h] = run[h]
        <5>1. CASE h # g
          BY <1>2, <2>2, <5>1, OtherProcesses
        <5>2. CASE h = g
          <6>1. ~ ReadBack(g) => pc'[g] # "audit"
            BY <1>2, StepLeads
          <6> QED
            BY <2>2, <3>2, <5>2, <6>1
        <5> QED
          BY <5>1, <5>2
      <4>2. run[h] \in 1 .. Len(log)
        BY <2>0, <4>1 DEF Live
      <4>3. /\ anchor[h] \in 1 .. Len(log) /\ log[anchor[h]].wrote
            /\ anchor[h] \notin log[run[h]].before /\ run[h] \notin log[anchor[h]].before
        BY <4>1 DEF Anchors, Overlap
      <4> QED
        BY <2>1, <4>1, <4>2, <4>3
    <3> QED
      BY <3>1, <3>2
  <2>3. ASSUME NEW rec \in records', rec.anchor # 0
        PROVE  /\ rec.anchor \in 1 .. Len(log) /\ log[rec.anchor].wrote
               /\ rec.run \in 1 .. Len(log)
               /\ rec.anchor \notin log[rec.run].before /\ rec.run \notin log[rec.anchor].before
    <3>1. \/ rec \in records
          \/ rec = [run |-> run[g], anchor |-> 0]
          \/ Record(g) /\ rec = [run |-> run[g], anchor |-> anchor[g]]
      BY <1>2 DEF Step, Begin, NoOutputs, Collect, Answer, Read, Reject, WriteInvalid,
          ReplaceInvalid, Write, Accept, Refuse, PutRaw, PutEnvelope, ReadBack, Record, Fail,
          Die, files
    <3>2. CASE rec \in records
      BY <2>3, <3>2 DEF Anchors, Overlap
    <3>3. CASE Record(g) /\ rec = [run |-> run[g], anchor |-> anchor[g]]
      <4>1. pc[g] = "audit" /\ run[g] \in 1 .. Len(log)
        BY <2>0, <3>3 DEF Record, Exit, Live
      <4> QED
        BY <3>3, <4>1 DEF Anchors, Overlap
    <3> QED
      BY <2>3, <3>1, <3>2, <3>3
  <2>4. \A rec \in records' : rec.anchor # 0 =>
          /\ rec.anchor \in 1 .. Len(log') /\ log'[rec.anchor].wrote
          /\ rec.run \in 1 .. Len(log')
          /\ rec.anchor \notin log'[rec.run].before /\ rec.run \notin log'[rec.anchor].before
    <3> SUFFICES ASSUME NEW rec \in records', rec.anchor # 0
                 PROVE  /\ rec.anchor \in 1 .. Len(log') /\ log'[rec.anchor].wrote
                        /\ rec.run \in 1 .. Len(log')
                        /\ rec.anchor \notin log'[rec.run].before
                        /\ rec.run \notin log'[rec.anchor].before
      OBVIOUS
    <3>1. /\ rec.anchor \in 1 .. Len(log) /\ log[rec.anchor].wrote
          /\ rec.run \in 1 .. Len(log)
          /\ rec.anchor \notin log[rec.run].before /\ rec.run \notin log[rec.anchor].before
      BY <2>3
    <3> QED
      BY <2>1, <3>1
  <2> QED
    BY <2>2, <2>4 DEF Anchors, Overlap
<1> QED
  BY <1>1, <1>2 DEF Next

(* AnchorsNear: the anchor of a record is the YAML of its own run or of    *)
(* one that overlapped it, and never one of an earlier run.                *)
THEOREM AnchorsAreNear == Spec => []AnchorsNear
<1>1. Init => TypeInv /\ Drafts /\ Envelopes /\ Anchors
  <2> SUFFICES ASSUME Init PROVE Drafts /\ Envelopes /\ Anchors
    BY TypeStart
  <2>1. /\ \A g \in Gather : pc[g] = "idle"
        /\ Len(log) = 0 /\ yaml = 0 /\ records = {}
    BY DEF Init
  <2> QED
    BY <2>1 DEF Drafts, Drafting, Envelopes, Anchors
<1>2. /\ TypeInv /\ Drafts /\ Envelopes /\ Anchors /\ [Next]_vars
      => (TypeInv /\ Drafts /\ Envelopes /\ Anchors)'
  BY TypeStep, DraftsStep, EnvelopesStep, AnchorsStep
<1>3. Anchors => AnchorsNear
  BY DEF Anchors, AnchorsNear
<1> QED
  BY <1>1, <1>2, <1>3, PTL DEF Spec

-----------------------------------------------------------------------------
(* Every raw file a run has listed is published before its envelope is     *)
(* written, and is never put back by a run that ended before it.           *)
Raws ==
    /\ \A r \in 1 .. Len(log) : log[r].wrote => \A p \in log[r].names :
          raw[p].by # 0 /\ raw[p].by \notin log[r].before
    /\ \A g \in Gather : pc[g] = "raws" => \A p \in log[run[g]].names \ DOMAIN payload[g] :
          raw[p].by # 0 /\ raw[p].by \notin log[run[g]].before

(* A raw file is put by a process that is under way, and clean once it is  *)
(* published.                                                              *)
LEMMA RawStep ==
    ASSUME TypeInv, NEW g \in Gather, Step(g), NEW p \in Probe
    PROVE  \/ raw'[p] = raw[p]
           \/ Live(g) /\ raw'[p].by = run[g] /\ pc[g] = "probing" /\ raw'[p].of = run[g]
              /\ Answer(g, p)
           \/ Live(g) /\ raw'[p].by = run[g] /\ PutRaw(g, p) /\ raw'[p].clean
              /\ raw'[p].of = payload[g][p]
<1>0. Places
  BY TypeParts
<1>1. CASE UNCHANGED raw
  BY <1>1
<1>2. ASSUME NEW q \in Probe, Answer(g, q), Stage(q, run[g])
      PROVE  raw'[p] = raw[p] \/ (p = q /\ raw'[p].by = run[g] /\ raw'[p].of = run[g])
  BY <1>0, <1>2 DEF Stage, Places
<1>3. ASSUME NEW q \in Probe, PutRaw(g, q)
      PROVE  \/ raw'[p] = raw[p]
             \/ p = q /\ raw'[p] = [by |-> run[g], of |-> payload[g][p], clean |-> TRUE]
  BY <1>0, <1>3 DEF PutRaw, Places
<1>4. \/ UNCHANGED raw
      \/ \E q \in Probe : Answer(g, q) /\ Stage(q, run[g])
      \/ \E q \in Probe : PutRaw(g, q)
  BY DEF Step, Begin, NoOutputs, Collect, Answer, Read, Reject, WriteInvalid,
      ReplaceInvalid, Write, Accept, Refuse, PutEnvelope, ReadBack, Record, Fail, Die, files
<1>5. \A q \in Probe : /\ Answer(g, q) => pc[g] = "probing" /\ Live(g)
                       /\ PutRaw(g, q) => Live(g)
  BY DEF Answer, PutRaw, Live
<1> QED
  BY <1>1, <1>2, <1>3, <1>4, <1>5

LEMMA RawsStep == TypeInv /\ Drafts /\ Raws /\ [Next]_vars => Raws'
<1> SUFFICES ASSUME TypeInv, Drafts, Raws, [Next]_vars PROVE Raws'
  OBVIOUS
<1>0. Places /\ Hands /\ Lives /\ Kept(log, log') /\ Len(log) \in Nat /\ Len(log') \in Nat
  BY TypeParts, LogGrows DEF Kept, Logged
<1>1. CASE UNCHANGED vars
  BY <1>1 DEF vars, local, files, Raws
<1>2. ASSUME NEW g \in Gather, Step(g) PROVE Raws'
  <2>1. \A h \in Gather : Live(h) => run[h] \in 1 .. Len(log)
    BY <1>0 DEF Lives
  <2>2. ASSUME NEW r \in 1 .. Len(log), NEW p \in Probe,
               raw[p].by # 0, raw[p].by \notin log[r].before
        PROVE  raw'[p].by # 0 /\ raw'[p].by \notin log'[r].before
    <3>1. log'[r].before = log[r].before
      BY <1>0 DEF Kept
    <3>2. Live(g) => run[g] # 0 /\ run[g] \notin log[r].before
      BY LiveOverlaps
    <3>3. raw'[p] = raw[p] \/ (Live(g) /\ raw'[p].by = run[g])
      BY <1>2, RawStep
    <3> QED
      BY <2>2, <3>1, <3>2, <3>3
  <2>3. \A r \in 1 .. Len(log) : log[r] \in Entry /\ log[r].names \subseteq Probe
    <3>1. \A r \in 1 .. Len(log) : log[r] \in Entry
      BY TypeParts, ElementOfSeq DEF Logged
    <3> QED
      BY <3>1 DEF Entry
  <2>4. ASSUME NEW h \in Gather, pc'[h] = "raws",
               NEW p \in log'[run'[h]].names \ DOMAIN payload'[h]
        PROVE  raw'[p].by # 0 /\ raw'[p].by \notin log'[run'[h]].before
    <3>1. CASE h # g \/ UNCHANGED <<pc, run, payload, log>>
      <4>1. pc[h] = "raws" /\ run'[h] = run[h] /\ payload'[h] = payload[h]
        BY <1>2, <2>4, <3>1, OtherProcesses
      <4>2. run[h] \in 1 .. Len(log) /\ log'[run[h]].names = log[run[h]].names
        <5>1. Live(h)
          BY <4>1 DEF Live
        <5>2. h # g => run[h] # run[g]
          BY <1>0, <2>1, <5>1 DEF Lives
        <5> QED
          BY <1>2, <2>1, <3>1, <5>1, <5>2, OtherRuns
      <4>3. p \in Probe /\ p \in log[run[h]].names \ DOMAIN payload[h]
        BY <2>3, <2>4, <4>1, <4>2
      <4>4. raw[p].by # 0 /\ raw[p].by \notin log[run[h]].before
        BY <4>1, <4>3 DEF Raws
      <4> QED
        BY <2>2, <4>1, <4>2, <4>3, <4>4
    <3>2. CASE h = g /\ Accept(g)
      <4>1. /\ pc[g] = "collecting" /\ run'[g] = run[g]
            /\ payload'[g] = [q \in Listed(g) |-> payload[g][q]]
        BY <1>0, <3>2 DEF Accept, Goto, Places, Hands
      <4>2. log'[run[g]].names = Listed(g)
        BY <2>1, <3>2, <4>1, AcceptLog DEF Live
      <4> QED
        BY <2>4, <3>2, <4>1, <4>2
    <3>3. ASSUME h = g, NEW q \in Probe, PutRaw(g, q)
          PROVE  raw'[p].by # 0 /\ raw'[p].by \notin log'[run'[h]].before
      <4>1. /\ pc[g] = "raws" /\ UNCHANGED <<pc, run, log>>
            /\ DOMAIN payload'[g] = DOMAIN payload[g] \ {q}
            /\ raw' = [raw EXCEPT ![q] = [by |-> run[g], of |-> payload[g][q], clean |-> TRUE]]
        BY <1>0, <3>3 DEF PutRaw, Hands
      <4>2. run[g] \in 1 .. Len(log) /\ run[g] \notin log[run[g]].before /\ Live(g)
        BY <4>1, LiveOverlaps DEF Live
      <4>3. p \in Probe
        BY <2>3, <2>4, <3>3, <4>1, <4>2
      <4>4. CASE p = q
        BY <1>0, <3>3, <4>1, <4>2, <4>3, <4>4 DEF Places
      <4>5. CASE p # q
        <5>1. p \in log[run[g]].names \ DOMAIN payload[g]
          BY <2>4, <3>3, <4>1, <4>5
        <5>2. raw[p].by # 0 /\ raw[p].by \notin log[run[g]].before
          BY <4>1, <5>1 DEF Raws
        <5> QED
          BY <2>2, <3>3, <4>1, <4>2, <4>3, <5>2
      <4> QED
        BY <4>4, <4>5
    <3>4. h = g => Accept(g) \/ \E q \in Probe : PutRaw(g, q)
      BY <1>2, <2>4, StepLeads
    <3> QED
      BY <3>1, <3>2, <3>3, <3>4
  <2>5. ASSUME NEW r \in 1 .. Len(log'), log'[r].wrote, NEW p \in log'[r].names
        PROVE  raw'[p].by # 0 /\ raw'[p].by \notin log'[r].before
    <3>1. r \in 1 .. Len(log)
      <4>1. Begin(g) \/ Len(log') = Len(log)
        BY <1>2, StepOnLog, ExitLog, AcceptLog, EnvelopeLog DEF Ends
      <4> QED
        BY <1>0, <2>5, <4>1, BeginLog
    <3>2. CASE PutEnvelope(g) /\ r = run[g]
      <4>1. pc[g] = "raws" /\ DOMAIN payload[g] = {} /\ log'[r].names = log[r].names
        BY <3>1, <3>2, EnvelopeLog DEF PutEnvelope, Goto
      <4>2. p \in Probe /\ raw[p].by # 0 /\ raw[p].by \notin log[r].before
        BY <2>3, <2>5, <3>1, <3>2, <4>1 DEF Raws
      <4> QED
        BY <2>2, <3>1, <4>2
    <3>3. CASE ~ (PutEnvelope(g) /\ r = run[g])
      <4>1. log[r].wrote /\ log'[r].names = log[r].names
        <5>1. CASE r # run[g]
          BY <1>2, <2>5, <3>1, <5>1, OtherRuns
        <5>2. CASE r = run[g] /\ Accept(g)
          <6>1. log'[r].wrote = log[r].wrote /\ pc[g] = "collecting"
            BY <3>1, <5>2, AcceptLog DEF Accept, Goto
          <6> QED
            BY <2>5, <5>2, <6>1 DEF Drafts, Drafting
        <5>3. CASE UNCHANGED log \/ Ends(g) \/ Begin(g)
          BY <2>5, <3>1, <5>3, ExitLog, BeginLog DEF Ends
        <5> QED
          BY <1>2, <3>3, <5>1, <5>2, <5>3, StepOnLog
      <4>2. p \in Probe /\ raw[p].by # 0 /\ raw[p].by \notin log[r].before
        BY <2>3, <2>5, <3>1, <4>1 DEF Raws
      <4> QED
        BY <2>2, <3>1, <4>2
    <3> QED
      BY <3>2, <3>3
  <2> QED
    BY <2>4, <2>5 DEF Raws
<1> QED
  BY <1>1, <1>2 DEF Next

Told == TypeInv /\ Drafts /\ Envelopes /\ Raws

LEMMA ToldAlways == Spec => []Told
<1>1. Init => Told
  <2> SUFFICES ASSUME Init PROVE Drafts /\ Envelopes /\ Raws
    BY TypeStart DEF Told
  <2>1. /\ \A g \in Gather : pc[g] = "idle"
        /\ Len(log) = 0 /\ yaml = 0
    BY DEF Init
  <2> QED
    BY <2>1 DEF Drafts, Drafting, Envelopes, Raws
<1>2. Told /\ [Next]_vars => Told'
  BY TypeStep, DraftsStep, EnvelopesStep, RawsStep DEF Told
<1> QED
  BY <1>1, <1>2, PTL DEF Spec

(* RawsFirst: beside a YAML lies every raw file its run listed, and none   *)
(* of them is of a run that had ended before that one began.               *)
THEOREM RawsComeFirst == Spec => []RawsFirst
<1>1. Told => RawsFirst
  BY DEF Told, Envelopes, Raws, RawsFirst
<1> QED
  BY <1>1, ToldAlways, PTL

(* PartialIsTold: a raw file whose run is not the run of the YAML means    *)
(* that this run did not report success, or overlapped the one of the YAML *)
(* or came before it and the later run had no such file.                   *)
THEOREM PartialsAreTold == Spec => []PartialIsTold
<1>1. Told => PartialIsTold
  <2> SUFFICES ASSUME Told, NEW p \in Probe, raw[p].by # 0, raw[p].by # yaml,
                      log[raw[p].by].exit = "ok", yaml # 0 => ~ Overlap(raw[p].by, yaml)
               PROVE  yaml # 0 /\ raw[p].by \in log[yaml].before /\ p \notin log[yaml].names
    BY DEF PartialIsTold
  <2> DEFINE q == raw[p].by
  <2>1. q \in 1 .. Len(log)
    BY TypeParts DEF Told, Places, Logged
  <2>2. yaml # 0 /\ yaml \notin log[q].before
    BY <2>1 DEF Told, Drafts, Envelopes
  <2>3. q \in log[yaml].before
    BY <2>2 DEF Overlap
  <2>4. p \notin log[yaml].names
    BY <2>2, <2>3 DEF Told, Envelopes, Raws
  <2> QED
    BY <2>2, <2>3, <2>4
<1> QED
  BY <1>1, ToldAlways, PTL

-----------------------------------------------------------------------------
(* Of a run under way, only what it still has to publish lies as it was    *)
(* staged; of one that succeeded, nothing it listed does.                  *)
Redacted ==
    \A p \in Probe : raw[p].by # 0 /\ ~ raw[p].clean =>
        /\ \A g \in Gather :
              Live(g) /\ run[g] = raw[p].by /\ p \in log[run[g]].names
                  => pc[g] = "raws" /\ p \in DOMAIN payload[g]
        /\ log[raw[p].by].exit = "ok" => p \notin log[raw[p].by].names

LEMMA RedactedStep == TypeInv /\ Drafts /\ Redacted /\ [Next]_vars => Redacted'
<1> SUFFICES ASSUME TypeInv, Drafts, Redacted, [Next]_vars PROVE Redacted'
  OBVIOUS
<1>0. /\ Places /\ Hands /\ Lives /\ Kept(log, log') /\ Len(log) \in Nat /\ Len(log') \in Nat
  BY TypeParts, LogGrows DEF Kept, Logged
<1>1. CASE UNCHANGED vars
  BY <1>1 DEF vars, local, files, Redacted, Live
<1>2. ASSUME NEW g \in Gather, Step(g), NEW p \in Probe, raw'[p].by # 0, ~ raw'[p].clean
      PROVE  /\ \A h \in Gather :
                    pc'[h] # "idle" /\ run'[h] = raw'[p].by /\ p \in log'[run'[h]].names
                        => pc'[h] = "raws" /\ p \in DOMAIN payload'[h]
             /\ log'[raw'[p].by].exit = "ok" => p \notin log'[raw'[p].by].names
  <2>1. CASE Answer(g, p) /\ raw'[p].by = run[g]
    <3>1. /\ pc[g] = "probing" /\ UNCHANGED <<pc, run, log, payload>> /\ Live(g)
      BY <2>1 DEF Answer, Live
    <3>2. log[run[g]].names = {}
      BY <3>1 DEF Drafts, Drafting
    <3>3. \A h \in Gather : run'[h] = raw'[p].by => p \notin log'[run'[h]].names
      BY <2>1, <3>1, <3>2
    <3> QED
      BY <2>1, <3>1, <3>2, <3>3
  <2>2. CASE raw'[p] = raw[p]
    <3> DEFINE q == raw[p].by
    <3>1. q \in 1 .. Len(log)
      BY <1>0, <1>2, <2>2 DEF Places
    <3>2. ASSUME NEW h \in Gather, pc'[h] # "idle", run'[h] = q, p \in log'[q].names
          PROVE  pc'[h] = "raws" /\ p \in DOMAIN payload'[h]
      <4>1. CASE h # g
        <5>1. /\ pc'[h] = pc[h] /\ run'[h] = run[h] /\ payload'[h] = payload[h]
          BY <1>2, <4>1, OtherProcesses
        <5>2. q # run[g]
          BY <1>0, <3>1, <3>2, <4>1, <5>1 DEF Lives
        <5>3. log'[q] = log[q]
          BY <1>2, <3>1, <5>2, OtherRuns
        <5> QED
          BY <1>2, <2>2, <3>2, <5>1, <5>3 DEF Redacted, Live
      <4>2. CASE h = g /\ Accept(g)
        <5>1. /\ pc'[g] = "raws" /\ run'[g] = run[g] /\ DOMAIN payload'[g] = Listed(g)
              /\ Live(g)
          BY <1>0, <4>2 DEF Accept, Goto, Live, Places, Hands
        <5>2. log'[q].names = Listed(g)
          BY <3>1, <3>2, <4>2, <5>1, AcceptLog
        <5> QED
          BY <3>2, <4>2, <5>1, <5>2
      <4>3. CASE h = g /\ \E r \in Probe : PutRaw(g, r)
        <5>1. PICK r \in Probe : PutRaw(g, r)
          BY <4>3
        <5>2. /\ UNCHANGED <<pc, run, log>> /\ pc[g] = "raws"
              /\ DOMAIN payload'[g] = DOMAIN payload[g] \ {r}
              /\ raw'[r].clean
          BY <1>0, <5>1 DEF PutRaw, Hands, Places
        <5>3. p # r
          BY <1>2, <5>2
        <5> QED
          BY <1>2, <2>2, <3>2, <4>3, <5>2, <5>3 DEF Redacted, Live
      <4>4. CASE h = g /\ ~ Accept(g) /\ ~ \E r \in Probe : PutRaw(g, r)
        <5>1. ~ Begin(g)
          <6>1. Begin(g) => run'[g] = Len(log) + 1
            BY BeginLog
          <6> QED
            BY <1>0, <3>1, <3>2, <4>4, <6>1
        <5>2. run'[g] = run[g] /\ Live(g) /\ pc[g] \in Drafting \cup {"raws", "written"}
          BY <1>0, <1>2, <3>2, <4>4, <5>1, StepLeads
            DEF Answer, Collect, Read, Reject, WriteInvalid, PutEnvelope, ReadBack, Goto, Live,
                Drafting
        <5>3. log'[q].names = log[q].names
          BY <1>2, <3>1, <3>2, <4>4, <5>1, StepOnLog, ExitLog, EnvelopeLog DEF Ends
        <5>4. pc[g] = "raws" /\ p \in DOMAIN payload[g]
          BY <1>2, <2>2, <3>2, <4>4, <5>2, <5>3 DEF Redacted
        <5>5. PutEnvelope(g)
          BY <1>2, <3>2, <4>4, <5>4, StepLeads
            DEF Begin, Answer, Collect, Read, Reject, WriteInvalid, ReadBack, Goto
        <5> QED
          BY <5>4, <5>5 DEF PutEnvelope
      <4> QED
        BY <4>1, <4>2, <4>3, <4>4
    <3>3. ASSUME log'[q].exit = "ok" PROVE p \notin log'[q].names
      <4>1. CASE log[q].exit = "ok"
        BY <1>0, <1>2, <2>2, <3>1, <4>1 DEF Kept, Redacted
      <4>2. CASE log[q].exit # "ok"
        <5>1. q = run[g] /\ pc[g] = "audit"
          BY <1>2, <3>1, <3>3, <4>2, OtherRuns
        <5>2. log'[q].names = log[q].names
          <6>1. ~ Begin(g) /\ ~ Accept(g) /\ ~ PutEnvelope(g)
            BY <5>1 DEF Begin, Accept, PutEnvelope, Goto
          <6> QED
            BY <1>2, <3>1, <6>1, StepOnLog, ExitLog DEF Ends
        <5> QED
          BY <1>2, <2>2, <5>1, <5>2 DEF Redacted, Live
      <4> QED
        BY <4>1, <4>2
    <3> QED
      BY <2>2, <3>2, <3>3
  <2> QED
    BY <1>2, <2>1, <2>2, RawStep
<1> QED
  BY <1>1, <1>2 DEF Next, Redacted, Live

(* ListedIsClean: of a run that has reported success, no raw file it has   *)
(* listed is left as it was staged.                                        *)
THEOREM ListedAreClean == Spec => []ListedIsClean
<1>1. Init => TypeInv /\ Drafts /\ Redacted
  <2> SUFFICES ASSUME Init PROVE Drafts /\ Redacted
    BY TypeStart
  <2>1. /\ \A g \in Gather : pc[g] = "idle"
        /\ Len(log) = 0 /\ \A p \in Probe : raw[p].by = 0
    BY DEF Init, Missing
  <2> QED
    BY <2>1 DEF Drafts, Drafting, Redacted
<1>2. TypeInv /\ Drafts /\ Redacted /\ [Next]_vars => (TypeInv /\ Drafts /\ Redacted)'
  BY TypeStep, DraftsStep, RedactedStep
<1>3. TypeInv /\ Redacted => ListedIsClean
  <2> SUFFICES ASSUME TypeInv, Redacted PROVE ListedIsClean
    OBVIOUS
  <2>1. \A p \in Probe : raw[p].clean \in BOOLEAN
    BY TypeParts DEF Places
  <2> QED
    BY <2>1 DEF Redacted, ListedIsClean
<1> QED
  BY <1>1, <1>2, <1>3, PTL DEF Spec

-----------------------------------------------------------------------------
(* Whose bytes there are, when a run overlapped no other                   *)

LEMMA StepIsLive ==
    ASSUME NEW g \in Gather, Step(g)
    PROVE  Begin(g) \/ Live(g)
BY StepKinds DEF Ends, Accept, PutEnvelope, Collect, Reject, WriteInvalid, ReadBack, Answer,
                 Read, PutRaw, Goto, Live

(* A run that is alone after a step was alone before it,                   *)
LEMMA AloneBefore ==
    ASSUME TypeInv, [Next]_vars, NEW r \in 1 .. Len(log), Alone(r)'
    PROVE  Alone(r)
<1>1. /\ Len(log) \in Nat /\ Len(log') \in Nat /\ Len(log) <= Len(log')
      /\ DOMAIN log = 1 .. Len(log) /\ DOMAIN log' = 1 .. Len(log')
      /\ \A q \in 1 .. Len(log) : log'[q].before = log[q].before
  BY TypeParts, LogGrows DEF Kept, Logged
<1> QED
  BY <1>1 DEF Alone, Overlap

(* and it is not alone while another process is under way as well,         *)
LEMMA TwoLive ==
    ASSUME TypeInv, NEW g \in Gather, NEW h \in Gather, h # g, Live(g), Live(h),
           [Next]_vars, run'[h] = run[h]
    PROVE  ~ Alone(run[h])'
<1>1. /\ Lives /\ Len(log) \in Nat /\ Len(log') \in Nat /\ Len(log) <= Len(log')
      /\ DOMAIN log' = 1 .. Len(log')
      /\ \A q \in 1 .. Len(log) : log'[q].before = log[q].before
  BY TypeParts, LogGrows DEF Kept, Logged
<1>2. /\ run[g] \in 1 .. Len(log) /\ run[h] \in 1 .. Len(log)
      /\ \A r \in 1 .. Len(log) : run[g] \notin log[r].before /\ run[h] \notin log[r].before
  BY LiveOverlaps
<1>3. run[g] # run[h]
  BY <1>1, <1>2 DEF Lives
<1>4. run[g] \in 1 .. Len(log')
  BY <1>1, <1>2
<1> QED
  BY <1>1, <1>2, <1>3, <1>4 DEF Alone, Overlap

(* or takes a step.                                                        *)
LEMMA AloneSteps ==
    ASSUME TypeInv, NEW g \in Gather, Step(g), NEW h \in Gather, h # g, Live(h)
    PROVE  ~ Alone(run[h])'
<1>0. /\ Lives /\ Len(log) \in Nat /\ Len(log') \in Nat /\ Len(log) <= Len(log')
      /\ DOMAIN log' = 1 .. Len(log')
      /\ \A q \in 1 .. Len(log) : log'[q].before = log[q].before
  <2>1. [Next]_vars
    BY DEF Next
  <2> QED
    BY <2>1, TypeParts, LogGrows DEF Kept, Logged
<1>1. run[h] \in 1 .. Len(log) /\ \A r \in 1 .. Len(log) : run[h] \notin log[r].before
  BY LiveOverlaps
<1>2. run'[h] = run[h]
  BY OtherProcesses
<1>3. CASE Begin(g)
  <2> DEFINE n == Len(log) + 1
  <2>1. n \in 1 .. Len(log') /\ n # run[h]
        /\ log'[n].before = {r \in 1 .. Len(log) : log[r].exit # "none"}
    <3>1. /\ Len(log') = Len(log) + 1
          /\ log'[Len(log) + 1].before = {r \in 1 .. Len(log) : log[r].exit # "none"}
      BY <1>3, BeginLog
    <3> QED
      BY <1>0, <1>1, <3>1
  <2>2. run[h] \notin log'[n].before
    BY <1>0, <2>1 DEF Lives
  <2>3. n \notin log'[run[h]].before
    <3>1. log[run[h]].before \subseteq 1 .. run[h] - 1
      BY <1>0, <1>1 DEF Lives
    <3> QED
      BY <1>0, <1>1, <3>1
  <2> HIDE DEF n
  <2> QED
    BY <1>0, <1>2, <2>1, <2>2, <2>3 DEF Alone, Overlap
<1>4. CASE Live(g)
  <2>1. [Next]_vars
    BY DEF Next
  <2> QED
    BY <1>2, <1>4, <2>1, TwoLive
<1> QED
  BY <1>3, <1>4, StepIsLive

(* The bytes a probe has staged                                            *)
LEMMA StagedStep ==
    ASSUME TypeInv, NEW g \in Gather, Step(g), NEW p \in Probe
    PROVE  \/ Staged(p)' = Staged(p)
           \/ Staged(p)' = run[g] /\ Answer(g, p)
           \/ Staged(p)' = payload[g][p] /\ PutRaw(g, p)
<1>0. Places
  BY TypeParts
<1>1. CASE UNCHANGED <<staged, raw>>
  BY <1>1 DEF Staged
<1>2. ASSUME NEW q \in Probe, Answer(g, q), Stage(q, run[g])
      PROVE  Staged(p)' = Staged(p) \/ (p = q /\ Staged(p)' = run[g])
  BY <1>0, <1>2 DEF Stage, Places, Staged
<1>3. ASSUME NEW q \in Probe, PutRaw(g, q)
      PROVE  Staged(p)' = Staged(p) \/ (p = q /\ Staged(p)' = payload[g][p])
  BY <1>0, <1>3 DEF PutRaw, Places, Staged
<1>4. \/ UNCHANGED <<staged, raw>>
      \/ \E q \in Probe : Answer(g, q) /\ Stage(q, run[g])
      \/ \E q \in Probe : PutRaw(g, q)
  BY DEF Step, Begin, NoOutputs, Collect, Answer, Read, Reject, WriteInvalid,
      ReplaceInvalid, Write, Accept, Refuse, PutEnvelope, ReadBack, Record, Fail, Die, files
<1> QED
  BY <1>1, <1>2, <1>3, <1>4

(* The bytes v are not those of a run that had ended before r began.       *)
Fresh(r, v) == v # 0 /\ v \notin log[r].before

(* What a process that is alone is about to publish                        *)
InHand ==
    \A g \in Gather : pc[g] \in {"probing", "collecting"} =>
        /\ pc[g] = "collecting" => DOMAIN out[g] = Probe
        /\ Alone(run[g]) => \A p \in DOMAIN out[g] : out[g][p] = "ran" =>
              /\ Fresh(run[g], Staged(p))
              /\ p \in DOMAIN payload[g] => Fresh(run[g], payload[g][p])

OnDisk ==
    \A g \in Gather : pc[g] = "raws" /\ Alone(run[g]) =>
        \A p \in log[run[g]].names \cap log[run[g]].ran :
            /\ Fresh(run[g], Staged(p))
            /\ p \in DOMAIN payload[g] => Fresh(run[g], payload[g][p])
            /\ p \notin DOMAIN payload[g] => Fresh(run[g], raw[p].of)

(* Nobody can put back older bytes thereafter                              *)
Settled ==
    \A r \in 1 .. Len(log) : log[r].wrote /\ Alone(r) =>
        \A p \in log[r].names \cap log[r].ran :
            /\ Fresh(r, raw[p].of) /\ Fresh(r, Staged(p))
            /\ \A h \in Gather : p \in DOMAIN payload[h] =>
                  payload[h][p] = 0 \/ Fresh(r, payload[h][p])

LEMMA InHandStep == TypeInv /\ InHand /\ [Next]_vars => InHand'
<1> SUFFICES ASSUME TypeInv, InHand, [Next]_vars PROVE InHand'
  OBVIOUS
<1>0. /\ Places /\ Hands /\ Lives /\ Kept(log, log') /\ Len(log) \in Nat
  BY TypeParts, LogGrows DEF Kept, Logged
<1>1. CASE UNCHANGED vars
  BY <1>1 DEF vars, local, files, InHand, Fresh, Staged, Alone, Overlap
<1>2. ASSUME NEW g \in Gather, Step(g), NEW h \in Gather, pc'[h] \in {"probing", "collecting"}
      PROVE  /\ pc'[h] = "collecting" => DOMAIN out'[h] = Probe
             /\ Alone(run[h])' => \A p \in DOMAIN out'[h] : out'[h][p] = "ran" =>
                  /\ Fresh(run[h], Staged(p))'
                  /\ p \in DOMAIN payload'[h] => Fresh(run[h], payload[h][p])'
  <2>1. CASE h # g
    BY <1>2, <2>1, OtherProcesses, AloneSteps DEF Live, InHand
  <2>2. CASE Begin(g) /\ h = g
    <3>1. /\ pc[g] = "idle" /\ pc'[g] = "probing" /\ UNCHANGED out
      BY <1>0, <2>2 DEF Begin, Goto, Places
    <3>2. DOMAIN out'[g] = {}
      BY <1>0, <3>1 DEF Lives, Live
    <3> QED
      BY <2>2, <3>1, <3>2
  <2>3. CASE ~ Begin(g) /\ h = g
    <3>0. \/ pc'[g] = "probing" /\ \E p \in Probe : Answer(g, p)
          \/ pc'[g] = "collecting" /\ (Collect(g) \/ \E p \in Probe : Read(g, p))
      BY <1>2, <2>3, StepLeads
    <3>1. /\ run'[g] = run[g] /\ log' = log /\ run[g] \in 1 .. Len(log)
          /\ pc[g] \in {"probing", "collecting"} /\ Live(g)
          /\ Alone(run[g])' => Alone(run[g])
      BY <1>0, <3>0 DEF Answer, Collect, Read, Goto, Live, Lives, Alone, Overlap
    <3>2. run[g] # 0 /\ run[g] \notin log[run[g]].before
      BY <3>1, LiveOverlaps
    <3>3. pc'[g] = "collecting" => DOMAIN out'[g] = Probe
      BY <1>0, <3>0 DEF Collect, Goto, Answered, Read, InHand
    <3>4. ASSUME Alone(run[g]), NEW p \in DOMAIN out'[g], out'[g][p] = "ran"
          PROVE  /\ Staged(p)' # 0 /\ Staged(p)' \notin log[run[g]].before
                 /\ p \in DOMAIN payload'[g] =>
                        payload'[g][p] # 0 /\ payload'[g][p] \notin log[run[g]].before
      <4>1. CASE Collect(g)
        <5>1. UNCHANGED <<out, payload, staged, raw>>
          BY <4>1 DEF Collect, files
        <5> QED
          BY <3>1, <3>4, <5>1 DEF InHand, Fresh, Staged
      <4>2. ASSUME NEW q \in Probe, Answer(g, q)
            PROVE  /\ Staged(p)' # 0 /\ Staged(p)' \notin log[run[g]].before
                   /\ DOMAIN payload'[g] = {}
        <5>1. /\ DOMAIN payload'[g] = {} /\ p \in DOMAIN out[g] \cup {q}
              /\ p # q => p \in DOMAIN out[g] /\ out[g][p] = "ran"
          BY <1>0, <3>4, <4>2 DEF Answer, Lives, Hands
        <5>2. CASE p = q
          <6>1. Stage(q, run[g])
            BY <1>0, <3>4, <4>2, <5>2 DEF Answer, Hands
          <6>2. Staged(p)' = run[g]
            BY <1>0, <5>2, <6>1 DEF Stage, Staged, Places
          <6> QED
            BY <3>2, <5>1, <6>2
        <5>3. CASE p # q
          <6>1. Staged(p) # 0 /\ Staged(p) \notin log[run[g]].before
            BY <3>1, <3>4, <5>1, <5>3 DEF InHand, Fresh
          <6>2. p \in Probe /\ pc[g] = "probing"
            BY <1>0, <4>2, <5>1 DEF Hands, Answer
          <6>3. Staged(p)' = Staged(p) \/ Staged(p)' = run[g]
            BY <1>2, <6>2, StagedStep DEF PutRaw
          <6> QED
            BY <3>2, <5>1, <6>1, <6>3
        <5> QED
          BY <5>2, <5>3
      <4>3. ASSUME NEW q \in Probe, Read(g, q)
            PROVE  /\ Staged(p)' # 0 /\ Staged(p)' \notin log[run[g]].before
                   /\ p \in DOMAIN payload'[g] =>
                        payload'[g][p] # 0 /\ payload'[g][p] \notin log[run[g]].before
        <5>1. /\ UNCHANGED <<out, staged, raw>>
              /\ \A r \in DOMAIN payload'[g] :
                    \/ r \in DOMAIN payload[g] /\ payload'[g][r] = payload[g][r]
                    \/ payload'[g][r] = Staged(r)
          BY <1>0, <4>3 DEF Read, files, Hands
        <5>2. Staged(p)' = Staged(p)
          BY <5>1 DEF Staged
        <5> QED
          BY <3>1, <3>4, <5>1, <5>2 DEF InHand, Fresh
      <4> QED
        BY <3>0, <4>1, <4>2, <4>3
    <3> QED
      BY <2>3, <3>1, <3>3, <3>4 DEF Fresh
  <2> QED
    BY <2>1, <2>2, <2>3
<1> QED
  BY <1>1, <1>2 DEF Next, InHand

LEMMA OnDiskStep == TypeInv /\ InHand /\ OnDisk /\ [Next]_vars => OnDisk'
<1> SUFFICES ASSUME TypeInv, InHand, OnDisk, [Next]_vars PROVE OnDisk'
  OBVIOUS
<1>0. /\ Places /\ Hands /\ Lives /\ Kept(log, log') /\ log \in Seq(Entry) /\ Len(log) \in Nat
  BY TypeParts, LogGrows DEF Kept, Logged
<1>1. CASE UNCHANGED vars
  BY <1>1 DEF vars, local, files, OnDisk, Fresh, Staged, Alone, Overlap
<1>2. ASSUME NEW g \in Gather, Step(g), NEW h \in Gather, pc'[h] = "raws", Alone(run[h])',
             NEW p \in log'[run'[h]].names \cap log'[run'[h]].ran
      PROVE  /\ Fresh(run[h], Staged(p))'
             /\ p \in DOMAIN payload'[h] => Fresh(run[h], payload[h][p])'
             /\ p \notin DOMAIN payload'[h] => Fresh(run[h], raw[p].of)'
  <2>1. h = g
    BY <1>2, OtherProcesses, AloneSteps DEF Live
  <2>2. Accept(g) \/ \E q \in Probe : PutRaw(g, q)
    BY <1>2, <2>1, StepLeads
  <2>3. /\ run'[g] = run[g] /\ pc[g] \in {"collecting", "raws"} /\ Live(g)
    BY <2>2 DEF Accept, PutRaw, Goto, Live
  <2>4. /\ run[g] \in 1 .. Len(log) /\ log'[run[g]].before = log[run[g]].before
    BY <1>0, <2>3 DEF Lives, Kept
  <2>5. Alone(run[g])
    <3>1. Alone(run[g])'
      BY <1>2, <2>1
    <3>2. Alone(run[g])' <=> \A q \in DOMAIN log' : q # run[g] =>
              ~ (q \notin log'[run[g]].before /\ run[g] \notin log'[q].before)
      BY <2>3 DEF Alone, Overlap
    <3>3. /\ DOMAIN log = 1 .. Len(log) /\ DOMAIN log \subseteq DOMAIN log'
          /\ \A q \in 1 .. Len(log) : log'[q].before = log[q].before
      BY <1>0, LogGrows DEF Kept, Logged
    <3> QED
      BY <2>4, <3>1, <3>2, <3>3 DEF Alone, Overlap
  <2>6. /\ Staged(p)' # 0 /\ Staged(p)' \notin log[run[g]].before
        /\ p \in DOMAIN payload'[g] =>
              payload'[g][p] # 0 /\ payload'[g][p] \notin log[run[g]].before
        /\ p \notin DOMAIN payload'[g] =>
              raw'[p].of # 0 /\ raw'[p].of \notin log[run[g]].before
    <3>1. CASE Accept(g)
      <4>1. /\ log'[run[g]].names = Listed(g)
            /\ log'[run[g]].ran = {q \in Probe : out[g][q] = "ran"}
        BY <2>4, <3>1, AcceptLog
      <4>2. /\ pc[g] = "collecting" /\ payload'[g] = [q \in Listed(g) |-> payload[g][q]]
            /\ UNCHANGED <<staged, raw>>
        BY <1>0, <3>1 DEF Accept, Goto, Hands, files
      <4>3. p \in Listed(g) /\ p \in DOMAIN out[g] /\ out[g][p] = "ran" /\ p \in DOMAIN payload[g]
        BY <1>2, <2>1, <2>3, <4>1, <4>2 DEF InHand, Listed
      <4>4. Fresh(run[g], Staged(p)) /\ Fresh(run[g], payload[g][p])
        BY <2>5, <4>2, <4>3 DEF InHand
      <4>5. Staged(p)' = Staged(p)
        BY <4>2 DEF Staged
      <4> QED
        BY <4>2, <4>3, <4>4, <4>5 DEF Fresh
    <3>2. ASSUME NEW q \in Probe, PutRaw(g, q)
          PROVE  /\ Staged(p)' # 0 /\ Staged(p)' \notin log[run[g]].before
                 /\ p \in DOMAIN payload'[g] =>
                       payload'[g][p] # 0 /\ payload'[g][p] \notin log[run[g]].before
                 /\ p \notin DOMAIN payload'[g] =>
                       raw'[p].of # 0 /\ raw'[p].of \notin log[run[g]].before
      <4>1. /\ pc[g] = "raws" /\ UNCHANGED log /\ q \in DOMAIN payload[g]
            /\ DOMAIN payload'[g] = DOMAIN payload[g] \ {q}
            /\ \A r \in DOMAIN payload'[g] : payload'[g][r] = payload[g][r]
            /\ raw'[q].of = payload[g][q]
            /\ \A r \in Probe \ {q} : raw'[r] = raw[r]
        BY <1>0, <3>2 DEF PutRaw, Hands, Places
      <4>2. p \in log[run[g]].names \cap log[run[g]].ran /\ p \in Probe
        <5>0. log[run[g]] \in Entry
          BY <1>0, <2>4, ElementOfSeq
        <5>1. log[run[g]].names \subseteq Probe
          BY <5>0 DEF Entry
        <5> QED
          BY <1>2, <2>1, <2>3, <4>1, <5>1
      <4>3. /\ Fresh(run[g], Staged(p))
            /\ p \in DOMAIN payload[g] => Fresh(run[g], payload[g][p])
            /\ p \notin DOMAIN payload[g] => Fresh(run[g], raw[p].of)
        BY <2>5, <4>1, <4>2 DEF OnDisk
      <4>4. Staged(p)' = Staged(p) \/ (Staged(p)' = payload[g][p] /\ p \in DOMAIN payload[g])
        BY <1>2, <4>1, <4>2, StagedStep DEF Answer, PutRaw
      <4> QED
        BY <4>1, <4>2, <4>3, <4>4 DEF Fresh
    <3> QED
      BY <2>2, <3>1, <3>2
  <2> QED
    BY <2>1, <2>3, <2>4, <2>6 DEF Fresh
<1> QED
  BY <1>1, <1>2 DEF Next, OnDisk

LEMMA SettledStep == TypeInv /\ Drafts /\ OnDisk /\ Settled /\ [Next]_vars => Settled'
<1> SUFFICES ASSUME TypeInv, Drafts, OnDisk, Settled, [Next]_vars PROVE Settled'
  OBVIOUS
<1>0. /\ Places /\ Hands /\ Lives /\ Kept(log, log') /\ log \in Seq(Entry)
      /\ Len(log) \in Nat /\ Len(log') \in Nat
  BY TypeParts, LogGrows DEF Kept, Logged
<1>1. CASE UNCHANGED vars
  BY <1>1 DEF vars, local, files, Settled, Fresh, Staged, Alone, Overlap
<1>2. ASSUME NEW g \in Gather, Step(g), NEW r \in 1 .. Len(log'), log'[r].wrote, Alone(r)',
             NEW p \in log'[r].names \cap log'[r].ran
      PROVE  /\ Fresh(r, raw[p].of)' /\ Fresh(r, Staged(p))'
             /\ \A h \in Gather : p \in DOMAIN payload'[h] =>
                    payload'[h][p] = 0 \/ Fresh(r, payload[h][p])'
  <2>1. r \in 1 .. Len(log)
    <3>1. Begin(g) \/ Len(log') = Len(log)
      BY <1>2, StepOnLog, ExitLog, AcceptLog, EnvelopeLog DEF Ends
    <3> QED
      BY <1>0, <1>2, <3>1, BeginLog
  <2>2. log'[r].before = log[r].before /\ Alone(r)
    BY <1>0, <1>2, <2>1, AloneBefore DEF Kept
  <2>3. Live(g) => run[g] # 0 /\ run[g] \notin log[r].before
    BY <2>1, LiveOverlaps
  <2>4. CASE PutEnvelope(g) /\ r = run[g]
    <3>1. /\ pc[g] = "raws" /\ DOMAIN payload[g] = {} /\ UNCHANGED <<payload, raw, staged>>
          /\ Live(g)
      BY <2>4 DEF PutEnvelope, Goto, Live
    <3>2. p \in log[r].names \cap log[r].ran
      BY <1>2, <2>1, <2>4, EnvelopeLog
    <3>3. Fresh(r, Staged(p)) /\ Fresh(r, raw[p].of)
      BY <2>2, <2>4, <3>1, <3>2 DEF OnDisk
    <3>4. ASSUME NEW h \in Gather, p \in DOMAIN payload[h] PROVE FALSE
      <4>1. h # g /\ Live(h)
        BY <1>0, <3>1, <3>4 DEF Lives
      <4>2. ~ Alone(run[g])'
        BY <2>4, <3>1, <4>1, TwoLive DEF PutEnvelope
      <4>3. run'[g] = run[g]
        BY <2>4 DEF PutEnvelope
      <4> QED
        BY <1>2, <2>4, <4>2, <4>3 DEF Alone, Overlap
    <3>5. Staged(p)' = Staged(p)
      BY <3>1 DEF Staged
    <3> QED
      BY <2>2, <3>1, <3>3, <3>4, <3>5 DEF Fresh
  <2>5. CASE ~ (PutEnvelope(g) /\ r = run[g])
    <3>1. log[r].wrote /\ log'[r].names = log[r].names /\ log'[r].ran = log[r].ran
      <4>1. CASE r # run[g]
        BY <1>2, <2>1, <4>1, OtherRuns
      <4>2. CASE r = run[g] /\ Accept(g)
        <5>1. log'[r].wrote = log[r].wrote /\ pc[g] = "collecting"
          BY <2>1, <4>2, AcceptLog DEF Accept, Goto
        <5> QED
          BY <1>2, <4>2, <5>1 DEF Drafts, Drafting
      <4>3. CASE UNCHANGED log \/ Ends(g) \/ Begin(g)
        BY <1>2, <2>1, <4>3, ExitLog, BeginLog DEF Ends
      <4> QED
        BY <1>2, <2>5, <4>1, <4>2, <4>3, StepOnLog
    <3>2. p \in log[r].names \cap log[r].ran /\ p \in Probe
      <4>1. log[r] \in Entry
        BY <1>0, <2>1, ElementOfSeq
      <4>2. log[r].names \subseteq Probe
        BY <4>1 DEF Entry
      <4> QED
        BY <1>2, <3>1, <4>2
    <3>3. /\ Fresh(r, raw[p].of) /\ Fresh(r, Staged(p))
          /\ \A h \in Gather : p \in DOMAIN payload[h] =>
                payload[h][p] = 0 \/ Fresh(r, payload[h][p])
      BY <2>1, <2>2, <3>1, <3>2 DEF Settled
    <3>4. PutRaw(g, p) => Fresh(r, payload[g][p])
      <4> SUFFICES ASSUME PutRaw(g, p) PROVE Fresh(r, payload[g][p])
        OBVIOUS
      <4>1. pc[g] = "raws" /\ p \in DOMAIN payload[g]
        BY DEF PutRaw
      <4>2. payload[g][p] # 0
        BY <4>1 DEF Drafts
      <4> QED
        BY <3>3, <4>1, <4>2
    <3>5. raw'[p].of # 0 /\ raw'[p].of \notin log[r].before
      <4>1. \/ raw'[p] = raw[p]
            \/ Live(g) /\ raw'[p].of = run[g]
            \/ PutRaw(g, p) /\ raw'[p].of = payload[g][p]
        BY <1>2, <3>2, RawStep
      <4> QED
        BY <2>3, <3>3, <3>4, <4>1 DEF Fresh
    <3>6. Staged(p)' # 0 /\ Staged(p)' \notin log[r].before
      <4>1. \/ Staged(p)' = Staged(p)
            \/ Live(g) /\ Staged(p)' = run[g]
            \/ PutRaw(g, p) /\ Staged(p)' = payload[g][p]
        BY <1>2, <3>2, StagedStep DEF Answer, Live
      <4> QED
        BY <2>3, <3>3, <3>4, <4>1 DEF Fresh
    <3>7. ASSUME NEW h \in Gather, p \in DOMAIN payload'[h]
          PROVE  \/ payload'[h][p] = 0
                 \/ payload'[h][p] # 0 /\ payload'[h][p] \notin log[r].before
      <4>1. \/ p \in DOMAIN payload[h] /\ payload'[h][p] = payload[h][p]
            \/ payload'[h][p] = Staged(p)
        <5>1. CASE h # g
          BY <1>2, <3>7, <5>1, OtherProcesses
        <5>2. CASE h = g
          <6>1. CASE UNCHANGED payload
            BY <3>7, <6>1
          <6>2. CASE Ends(g)
            BY <1>0, <3>7, <5>2, <6>2 DEF Ends, Over, Hands
          <6>3. CASE Accept(g)
            BY <1>0, <3>7, <5>2, <6>3 DEF Accept, Listed, Hands
          <6>4. ASSUME NEW q \in Probe, Read(g, q) \/ PutRaw(g, q)
                PROVE  \/ p \in DOMAIN payload[h] /\ payload'[h][p] = payload[h][p]
                       \/ payload'[h][p] = Staged(p)
            <7>1. CASE Read(g, q)
              BY <1>0, <3>7, <5>2, <7>1 DEF Read, Hands
            <7>2. CASE PutRaw(g, q)
              BY <1>0, <3>7, <5>2, <7>2 DEF PutRaw, Hands
            <7> QED
              BY <6>4, <7>1, <7>2
          <6> QED
            BY <1>2, <6>1, <6>2, <6>3, <6>4, StepKinds DEF Begin, PutEnvelope, Collect, Reject,
                WriteInvalid, ReadBack, Answer
        <5> QED
          BY <5>1, <5>2
      <4> QED
        BY <3>3, <4>1 DEF Fresh
    <3> QED
      BY <2>2, <3>5, <3>6, <3>7 DEF Fresh
  <2> QED
    BY <2>4, <2>5
<1> QED
  BY <1>1, <1>2 DEF Next, Settled

(* BytesOfTheRun: what is published for a probe that ran in the run of the *)
(* YAML are the bytes of that run or of a later one, unless another gather *)
(* overlapped it.                                                          *)
THEOREM BytesAreOfTheRun == Spec => []BytesOfTheRun
<1> DEFINE Inv == TypeInv /\ Drafts /\ Envelopes /\ InHand /\ OnDisk /\ Settled
<1>1. Init => Inv
  <2> SUFFICES ASSUME Init PROVE Drafts /\ Envelopes /\ InHand /\ OnDisk /\ Settled
    BY TypeStart
  <2>1. /\ \A g \in Gather : pc[g] = "idle"
        /\ Len(log) = 0 /\ yaml = 0
    BY DEF Init
  <2> QED
    BY <2>1 DEF Drafts, Drafting, Envelopes, InHand, OnDisk, Settled
<1>2. Inv /\ [Next]_vars => Inv'
  BY TypeStep, DraftsStep, EnvelopesStep, InHandStep, OnDiskStep, SettledStep
<1>3. Inv => BytesOfTheRun
  BY DEF Envelopes, Settled, Fresh, BytesOfTheRun
<1> QED
  BY <1>1, <1>2, <1>3, PTL DEF Spec
=============================================================================
