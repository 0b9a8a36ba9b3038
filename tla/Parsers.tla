------------------------------ MODULE Parsers ------------------------------
(***************************************************************************)
(* The capped parsers (src/codegenie/parsers), the lockfile parsers and    *)
(* the scanner of coverage files that the probes read repositories with.   *)
(* A file has a set of faults, met in the order of the code; what a parser *)
(* does not turn into an error of its own goes through as it is.           *)
(***************************************************************************)
EXTENDS Integers, SequencesExt

FileFaults == << "symlink", "os_error", "too_large" >>
JsonFaults == FileFaults \o << "empty", "not_utf8", "not_json", "not_object", "too_deep" >>
JsoncFaults == FileFaults \o << "short_read", "unterminated", "empty", "not_utf8", "not_json", "not_object", "too_deep" >>
YamlFaults == FileFaults \o << "not_yaml", "not_mapping", "too_deep" >>

ParseFailure(fault) ==
    CASE fault = "none" -> "ok"
      [] fault = "symlink" -> "symlink_refused"
      [] fault = "too_large" -> "size_cap_exceeded"
      [] fault = "too_deep" -> "depth_cap_exceeded"
      [] fault \in {"os_error", "not_utf8"} -> fault
      [] OTHER -> "malformed"
Loaded(order, faults) ==
    LET k == SelectInSeq(order, LAMBDA f : f \in faults)
    IN ParseFailure(IF k = 0 THEN "none" ELSE order[k])
OpenCapped(faults) == Loaded(FileFaults, faults)
LoadJson(faults) == Loaded(JsonFaults, faults)
LoadJsonc(faults) == Loaded(JsoncFaults, faults)
LoadYaml(faults) == Loaded(YamlFaults, faults)
LoadYamlText(faults) == Loaded(Tail(Tail(YamlFaults)), faults)

(* load_all yields document by document, until one is bad. *)
LoadAllYaml(docs) ==
    LET bad == SelectInSeq(docs, LAMBDA d : d \notin {"mapping", "empty"})
    IN [docs |-> IF bad = 0 THEN docs ELSE SubSeq(docs, 1, bad - 1),
        ended |-> ParseFailure(IF bad = 0 THEN "none" ELSE docs[bad])]

-----------------------------------------------------------------------------
(* _depth.py.  graph[n] lists the containers in container n; an alias      *)
(* makes two of them the same, and a container is entered once.            *)
Entered(walk, graph, n, current, seen) ==
    LET into[k \in 0 .. Len(graph[n])] ==
            IF k = 0 THEN [seen |-> seen \cup {n}, raised |-> FALSE]
            ELSE IF into[k - 1].raised THEN into[k - 1] ELSE walk[<< graph[n][k], current + 1, into[k - 1].seen >>]
    IN into[Len(graph[n])]

(* Mutant: the deepest level that is allowed raises. *)
WalkDepthEager(walk, graph, n, current, cap, seen) ==
    IF current >= cap THEN [seen |-> seen, raised |-> TRUE] ELSE Entered(walk, graph, n, current, seen)

WalkDepth(walk, graph, n, current, cap, seen) ==
    IF current > cap THEN [seen |-> seen, raised |-> TRUE]
    ELSE IF n \in seen THEN [seen |-> seen, raised |-> FALSE]
    ELSE Entered(walk, graph, n, current, seen)
(* A visit is << container, its depth, those seen before >>. *)
Visits(containers, depths, seen) == containers \X depths \X seen
ExceedsDepth(graph, cap) ==
    LET walk[v \in Visits(DOMAIN graph, 0 .. cap + 1, SUBSET DOMAIN graph)] == WalkDepth(walk, graph, v[1], v[2], cap, v[3])
    IN walk[<< 1, 0, {} >>].raised

-----------------------------------------------------------------------------
(* jsonc.py, _strip_comments: one byte at a time, with a look at the next. *)
StripStart == [mode |-> "code", depth |-> 0, escaped |-> FALSE, skip |-> FALSE, out |-> <<>>]
Keep(s, b) == [s EXCEPT !.out = Append(@, b)]

InString(s, b) ==
    [Keep(s, b) EXCEPT !.escaped = ~s.escaped /\ b = "\\",
                       !.mode = IF ~s.escaped /\ b = "quote" THEN "code" ELSE @]

StripByte(s, b, next) ==
    CASE s.skip -> [s EXCEPT !.skip = FALSE]
      [] ~s.skip /\ s.mode = "code" ->
           CASE b = "/" /\ next = "/" -> [s EXCEPT !.mode = "line", !.skip = TRUE]
             [] b = "/" /\ next = "*" -> [s EXCEPT !.mode = "block", !.depth = 1, !.skip = TRUE]
             [] b = "quote" -> [Keep(s, b) EXCEPT !.mode = "string", !.escaped = FALSE]
             [] OTHER -> Keep(s, b)
      [] ~s.skip /\ s.mode = "string" -> InString(s, b)
      [] ~s.skip /\ s.mode = "line" -> IF b = "newline" THEN [Keep(s, b) EXCEPT !.mode = "code"] ELSE s
      [] ~s.skip /\ s.mode = "block" ->
           CASE b = "/" /\ next = "*" -> [s EXCEPT !.depth = @ + 1, !.skip = TRUE]
             [] b = "*" /\ next = "/" -> [s EXCEPT !.depth = @ - 1, !.skip = TRUE,
                                                   !.mode = IF s.depth = 1 THEN "code" ELSE @]
             [] OTHER -> s

StripComments(data) ==
    LET Next(i) == IF i < Len(data) THEN data[i + 1] ELSE "end"
        end == FoldLeftDomain(LAMBDA s, i : StripByte(s, data[i], Next(i)), StripStart, data)
    IN IF end.mode \in {"string", "block"} THEN [kind |-> "unterminated", out |-> <<>>]
       ELSE [kind |-> "ok", out |-> end.out]

-----------------------------------------------------------------------------
(* _lcov_scanner.py.  A row of a coverage file is [tag, at, hits]: SF      *)
(* opens a file, DA is a line of the file and how often it was hit.        *)
LcovScan(rows, tag) ==
    FoldLeft(LAMBDA sum, r : IF r.tag = tag /\ r.good THEN sum + r.hits ELSE sum, 0, rows)

Record(s) == IF s.source = 0 THEN s.records ELSE Append(s.records, [source |-> s.source, lines |-> s.lines])

ScanRow(s, r) ==
    CASE s.raised -> s
      [] ~s.raised /\ r.tag = "SF" -> [s EXCEPT !.records = Record(s), !.source = r.at, !.lines = <<>>]
      [] ~s.raised /\ r.tag = "DA" -> IF ~r.good THEN [s EXCEPT !.raised = TRUE]
                                      ELSE IF r.hits > 0 /\ s.source # 0
                                      THEN [s EXCEPT !.lines = Append(@, r.at)] ELSE s
      [] ~s.raised /\ r.tag = "end" -> [s EXCEPT !.records = Record(s), !.source = 0, !.lines = <<>>]
      [] OTHER -> s
ScanRows(rows) == FoldLeft(ScanRow, [records |-> <<>>, source |-> 0, lines |-> <<>>, raised |-> FALSE], rows)

ScanRecords(rows) ==
    LET last == ScanRows(rows)
    IN IF last.raised THEN [kind |-> "value_error"] ELSE [kind |-> "ok", records |-> Record(last)]

-----------------------------------------------------------------------------
(* The lockfile parsers.  Only the errors of the format become a malformed *)
(* lockfile; yarn's parser makes one of whatever goes wrong after opening. *)
LockfileError(failure) == IF failure = "malformed" THEN "malformed_lockfile" ELSE failure
ParseNpmLock(faults) == LockfileError(LoadJson(faults))
ParsePnpmLock(faults) == LockfileError(LoadYaml(faults))

(* A line of a yarn.lock is [indent, kind, key, value]: a header begins an *)
(* entry, "dependencies:" a block of it, and what is deeper while a block  *)
(* is open belongs to the block.                                           *)
CloseEntry(s) == IF s.key = 0 THEN s.entries ELSE Append(s.entries, [key |-> s.key, props |-> s.props])

YarnIndented(s, line) ==
    CASE line.indent = 4 /\ s.block -> s
      [] line.kind = "block" /\ ~(line.indent = 4 /\ s.block) -> [s EXCEPT !.block = TRUE]
      [] OTHER -> [s EXCEPT !.props = Append(@, << line.key, line.value >>), !.block = FALSE]
YarnLine(s, line) ==
    CASE s.raised \/ line.kind = "blank" -> s
      [] ~s.raised /\ line.kind # "blank" /\ line.indent = 0 ->
           IF line.kind # "header" THEN [s EXCEPT !.raised = TRUE]
           ELSE [s EXCEPT !.entries = CloseEntry(s), !.key = line.key, !.props = <<>>, !.block = FALSE]
      [] OTHER -> YarnIndented(s, line)
ParseYarn(lines) ==
    LET end == FoldLeft(YarnLine, [entries |-> <<>>, key |-> 0, props |-> <<>>, block |-> FALSE, raised |-> FALSE], lines)
    IN IF end.raised THEN << "malformed_lockfile" >> ELSE CloseEntry(end)

(* The last line of a name is the one an entry keeps. *)
PropertyOf(entry, name) ==
    LET k == SelectLastInSeq(entry.props, LAMBDA p : p[1] = name) IN IF k = 0 THEN 0 ELSE entry.props[k][2]
=============================================================================
