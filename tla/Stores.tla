------------------------------- MODULE Stores -------------------------------
(***************************************************************************)
(* Two small contracts of the remediation side: the checkpoint store of    *)
(* the tests next to the durable one (workflows/in_memory_checkpoints.py   *)
(* and workflows/sqlite_checkpoints.py, one caller), and where a           *)
(* vulnerable package comes from (primitives/vuln_provenance).             *)
(***************************************************************************)
EXTENDS Integers, Sequences, SequencesExt

(* An event is [id, boundary, large, secret]: secret "leaf" is one the     *)
(* sanitizer takes out of a text, "spanning" one whose two ends stand in   *)
(* two texts, so that what lies between goes as well.  A head is the       *)
(* sequence of the events it was folded from.                              *)
Sanitize(event) == [event EXCEPT !.secret = IF @ = "none" THEN "none" ELSE "marked"]
AppendRefusal(event) ==
    CASE ~event.boundary -> "not_a_boundary"
      [] event.large -> "payload_too_large"
      [] event.secret = "spanning" -> "validation_error"
      [] OTHER -> "none"
TailHead(rows) == IF rows = <<>> THEN <<>> ELSE Last(rows).head

RowOfLive(rows, event) ==     \* mutant: the chain is that of the events before they were cleaned
    [head |-> Append(TailHead(rows), event), stored |-> Sanitize(event)]
RowOf(rows, event) == [head |-> Append(TailHead(rows), Sanitize(event)), stored |-> Sanitize(event)]

AppendTo(rows, event, refusal) ==
    IF refusal # "none" THEN [rows |-> rows, says |-> refusal]
    ELSE [rows |-> Append(rows, RowOf(rows, event)), says |-> "none"]
MemoryAppend(rows, event) == AppendTo(rows, event, AppendRefusal(event))
SqliteAppend(rows, event) ==
    LET known == \E k \in DOMAIN rows : rows[k].stored.id = event.id
    IN AppendTo(rows, event, IF AppendRefusal(event) = "none" /\ known THEN "integrity_error" ELSE AppendRefusal(event))

AppendAll(events, AppendOne(_, _)) ==
    LET got[k \in 0 .. Len(events)] ==
            IF k = 0 THEN [rows |-> <<>>, says |-> <<>>]
            ELSE LET before == got[k - 1]
                     now == AppendOne(before.rows, events[k])
                 IN [rows |-> now.rows, says |-> Append(before.says, now.says)]
    IN got[Len(events)]
MemoryAppends(events) == AppendAll(events, MemoryAppend)
SqliteAppends(events) == AppendAll(events, SqliteAppend)
ReadAll(rows) == [k \in DOMAIN rows |-> rows[k].stored]

-----------------------------------------------------------------------------
(* An adapter is [layer, ecosystem, finds], ecosystems numbered in their   *)
(* order; the registry keeps them in the order of their imports.           *)
AdapterDispatchOrder == << "app", "base_image", "runtime" >>
IterAdapters(layer, registry) ==
    SortSeq(SelectSeq(registry, LAMBDA a : a.layer = layer), LAMBDA a, b : a.ecosystem < b.ecosystem)

RegisterAdapter(registry, adapter) ==
    IF \E k \in DOMAIN registry : registry[k].layer = adapter.layer /\ registry[k].ecosystem = adapter.ecosystem
    THEN registry ELSE Append(registry, adapter)

(* The first of a layer that finds something ends it; one that raises is   *)
(* passed over, and remembered only if it was reached.                     *)
AttributeIn(layer, registry) ==
    LET tried == IterAdapters(layer, registry)
        k == SelectInSeq(tried, LAMBDA a : a.finds \notin {"unknown", "raises"})
        reached == IF k = 0 THEN tried ELSE SubSeq(tried, 1, k)
    IN [by |-> IF k = 0 THEN 0 ELSE tried[k].ecosystem, failed |-> \E j \in DOMAIN reached : reached[j].finds = "raises"]
AssembleProvenance(registry) ==
    LET in == [k \in DOMAIN AdapterDispatchOrder |-> AttributeIn(AdapterDispatchOrder[k], registry)]
        failed == \E k \in DOMAIN in : in[k].failed
        kind == CASE in[1].by # 0 /\ in[2].by # 0 -> "both" [] in[1].by # 0 -> "app" [] in[2].by # 0 -> "base"
                  [] OTHER -> IF failed THEN "adapter_error" ELSE "no_adapter_resolved"
    IN [kind |-> kind, app |-> in[1].by, base |-> in[2].by]
=============================================================================
