----------------------------- MODULE Retrieval -----------------------------
(***************************************************************************)
(* The decisions of src/codegenie/rag: which example a query ends with,    *)
(* what the embedding cache answers, which model weights are accepted,     *)
(* what the store makes of what it finds on its disk.  Scores are whole    *)
(* percents.                                                               *)
(***************************************************************************)
EXTENDS Integers, SequencesExt

(* confidence.py *)
ClassifySimilarity(score, high, degraded) ==
    IF score >= high THEN "high" ELSE IF score >= degraded THEN "medium" ELSE "low"
FloorsFit(high, degraded) == 0 <= degraded /\ degraded < high /\ high <= 100

(* Of the best scores the record whose id is least. *)
TopCandidate(candidates) ==
    CHOOSE c \in ToSet(candidates) :
        \A d \in ToSet(candidates) : c.score > d.score \/ (c.score = d.score /\ c.id <= d.id)

Outcome(kind, id, events) == [kind |-> kind, id |-> id, events |-> events]
BandClassify(candidates, high, degraded) ==
    IF candidates = <<>> THEN Outcome("miss", 0, <<>>)
    ELSE LET top == TopCandidate(candidates)
             band == ClassifySimilarity(top.score, high, degraded)
         IN CASE band = "high" -> Outcome("hit", top.id, <<>>)
              [] band = "medium" -> Outcome("degraded", top.id, <<>>)
              [] band = "low" -> Outcome("miss", 0, <<>>)

(* provenance.py: a record is verified when the spanning log knows the     *)
(* chain head it was written under; exclusion.py: records of another model *)
(* are dropped under one event.                                            *)
VerifyRecord(candidate, heads) == candidate.head # "" /\ candidate.head \in heads
ExcludeOtherModels(candidates, model) ==
    LET kept == SelectSeq(candidates, LAMBDA c : c.model = model)
    IN [kept |-> kept, events |-> IF Len(kept) < Len(candidates) THEN << "model_mismatch" >> ELSE <<>>]

(* _emit_outcome_events: the candidate selected is told after the outcome. *)
OutcomeEvents(outcome) ==
    CASE outcome.kind = "miss" -> << "miss:top1_below_floor" >>
      [] outcome.kind \in {"hit", "degraded"} -> << outcome.kind, "candidate_selected" >>

(* SolvedExampleRetriever.query *)
Retrieve(raw, heads, filtered, model) ==
    LET verified == SelectSeq(raw, LAMBDA c : VerifyRecord(c, heads))
        orphans == [i \in 1 .. Len(raw) - Len(verified) |-> "chain_orphan"]
        before == << "built", "rendered", "embedded", "queried" >>
        chained == before \o orphans \o << "chain_verified" >>
        excluded == ExcludeOtherModels(verified, model)
        kept == IF filtered THEN excluded.kept ELSE verified
        after == chained \o (IF filtered THEN excluded.events ELSE <<>>)
        banded == BandClassify(kept, 85, 65)
    IN CASE raw = <<>> -> Outcome("miss", 0, Append(before, "miss:empty_store"))
         [] raw # <<>> /\ verified = <<>> -> Outcome("miss", 0, Append(chained, "miss:all_candidates_chain_orphan"))
         [] verified # <<>> /\ kept = <<>> -> Outcome("miss", 0, Append(after, "miss:all_candidates_model_mismatch"))
         [] OTHER -> [banded EXCEPT !.events = after \o << "fenced" >> \o OutcomeEvents(banded)]

-----------------------------------------------------------------------------
(* The members of a sequence at some of its positions, in their order. *)
Picked(s, positions) ==
    LET out[i \in 0 .. Len(s)] ==
            IF i = 0 THEN <<>> ELSE IF i \in positions THEN Append(out[i - 1], s[i]) ELSE out[i - 1]
    IN out[Len(s)]

(* embedding_cache.py.  The table has for a text a good row, a bad one     *)
(* (wrong length) or none; the vector of a text is the text.               *)
Missing(texts, table) ==
    LET First(i) == \A j \in 1 .. i - 1 : texts[j] # texts[i]
    IN Picked(texts, {i \in DOMAIN texts : First(i) /\ table[texts[i]] # "good"})

(* A bad row is deleted when it is read. *)
LookupAll(texts, table) ==
    [t \in DOMAIN table |-> IF table[t] = "bad" /\ Contains(texts, t) THEN "absent" ELSE table[t]]

(* Mutant: the new vectors are paired with the texts that were asked for. *)
EmbedBatchShifted(texts, table, short) ==
    LET missing == Missing(texts, table)
        looked == LookupAll(texts, table)
    IN IF missing # <<>> /\ short THEN [kind |-> "raised", vectors |-> <<>>, table |-> looked]
       ELSE [kind |-> "ok",
             vectors |-> [i \in DOMAIN texts |-> IF i \in DOMAIN missing THEN missing[i] ELSE texts[i]],
             table |-> [t \in DOMAIN table |-> IF Contains(missing, t) THEN "good" ELSE looked[t]]]

(* Fresh vectors go with the missing texts, and every text with its own. *)
EmbedBatch(texts, table, short) ==
    LET missing == Missing(texts, table)
        looked == LookupAll(texts, table)
        fresh == [i \in DOMAIN missing |-> missing[i]]
        VectorOf(t) == IF Contains(missing, t) THEN fresh[CHOOSE i \in DOMAIN missing : missing[i] = t] ELSE t
    IN IF missing # <<>> /\ short THEN [kind |-> "raised", vectors |-> <<>>, table |-> looked]
       ELSE [kind |-> "ok", vectors |-> [i \in DOMAIN texts |-> VectorOf(texts[i])],
             table |-> [t \in DOMAIN table |-> IF Contains(missing, t) THEN "good" ELSE looked[t]]]

(* Whatever sqlite calls a DatabaseError, a lock held too long included,   *)
(* has the file and its journals removed and made again.                   *)
LazyOpen(first, second) ==
    CASE first = "ok" -> "as_it_was"
      [] first \in {"corrupt", "locked"} /\ second = "ok" -> "emptied"
      [] OTHER -> "raised"

-----------------------------------------------------------------------------
(* embedder.py: the weights are used only when the lock file names them.   *)
LockFaults == << "lock_missing", "lock_not_yaml", "lock_not_mapping", "lock_invalid",
                 "other_model_name", "weights_absent", "other_digest" >>
BootstrapRequired == {"lock_missing", "lock_not_yaml", "lock_not_mapping", "lock_invalid", "weights_absent"}
VerifyModelLock(faults) ==
    LET first == SelectInSeq(LockFaults, LAMBDA f : f \in faults)
    IN CASE first = 0 -> "ok"
         [] first # 0 /\ LockFaults[first] \in BootstrapRequired -> "bootstrap_required"
         [] OTHER -> "model_mismatch"

(* A vector of another length, or of no finite positive norm, is refused;  *)
(* one that is not of norm one (1000) within tolerance is scaled.          *)
Finalize(vector) ==
    CASE vector.dim # 384 -> "raised"
      [] vector.dim = 384 /\ (vector.norm <= 0 \/ ~vector.finite) -> "raised"
      [] OTHER -> IF vector.norm \in 999 .. 1001 THEN vector.norm ELSE 1000

(* ingest.py: a refusal makes no example; the id is a digest of the        *)
(* identity, the query's text and the capability are not in it.            *)
ExampleIdentity(o, model) == << o.cve, o.advisory, o.transform, o.trust, model >>
SolvedExampleFrom(o, model) ==
    IF o.plan = "refuse" THEN [kind |-> "raised"]
    ELSE [kind |-> "example", id |-> ExampleIdentity(o, model), head |-> o.head, origin |-> "llm_solved"]

-----------------------------------------------------------------------------
(* store.py: which record ids may name a file, which manifests are read,   *)
(* and which rows of a query's answer become candidates.                   *)
RecordIdFaults == << "empty", "leading_dot", "dot_dot", "separator" >>
ManifestFaults == << "unreadable", "not_yaml", "not_mapping", "schema_version", "invalid", "record_missing" >>
LoadRecordIds(faults) ==
    IF "absent" \in faults THEN "empty"
    ELSE IF \E i \in DOMAIN ManifestFaults : ManifestFaults[i] \in faults THEN "store_corrupted" ELSE "listed"

(* A row is [id, measured, distance, metadata]: one not measured is skipped*)
(* without an example it can be made of it is dropped.                     *)
Clamped(x) == IF x > 100 THEN 100 ELSE IF x < -100 THEN -100 ELSE x
Rehydrate(row) == row.metadata = "example"
Candidates(open, collection, rows) ==
    CASE ~open -> << "store_closed" >>
      [] open /\ ~collection -> <<>>
      [] OTHER -> LET usable == SelectSeq(rows, LAMBDA r : r.measured /\ Rehydrate(r))
                  IN [i \in DOMAIN usable |-> << usable[i].id, Clamped(100 - usable[i].distance) >>]
QueryStore(open, collection, rows, floor) ==
    CASE ~open -> "store_closed"
      [] open /\ (~collection \/ rows = <<>>) -> "miss"
      [] OTHER -> IF \/ ~rows[1].measured
                     \/ Clamped(100 - rows[1].distance) < floor
                     \/ ~Rehydrate(rows[1])
                  THEN "miss" ELSE "hit"
ContainsRecord(open, ids, id) == open /\ id \in ids
=============================================================================
