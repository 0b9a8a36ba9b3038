----------------------------- MODULE VulnIndex -----------------------------
(***************************************************************************)
(* The vulnerability index: a sqlite table of rows and a digest per feed   *)
(* (vuln_index/index.py, vuln_index/ingest.py), filled by `codegenie       *)
(* vuln-index refresh` (cli.py).  Every statement commits on its own, so   *)
(* that processes that refresh the same file interleave, and may die,      *)
(* between a migration, the rows of a feed and its digest.                 *)
(*                                                                         *)
(* A row is what a feed says of one advisory and package; its key is the   *)
(* unique constraint of the table, which has neither the feed nor the      *)
(* severity.  The hash of a sequence of records is that sequence.          *)
(***************************************************************************)
EXTENDS Integers, Sequences, FiniteSets, SequencesExt

CONSTANTS Refresher,    \* processes that run refresh, once each
          Sources,      \* feed_sources(): the registered feeds, sorted
          Advisories,   \* the cve ids, in their order
          Chunks,       \* what each feed may answer: records and Bad
          Bad,          \* a chunk that does not parse
          MaxChunks,    \* bound: chunks of one answer
          MaxChanges    \* bound: how often the feeds change

Source == ToSet(Sources)
Chunk == UNION {Chunks[s] : s \in Source} \cup {Bad}
Records == Chunk \ {Bad}

ASSUME FeedsAssumption ==
    /\ Sources \in Seq(Source) /\ Sources # <<>> /\ IsInjective(Sources)
    /\ \A r \in Records : {"cve", "package", "severity"} = DOMAIN r /\ r.cve \in ToSet(Advisories)
    /\ Advisories \in Seq(ToSet(Advisories))
    /\ MaxChunks \in Nat /\ MaxChanges \in Nat

Row == [source : Source, record : Records]
UniqueKey(row) == <<row.record.cve, row.record.package>>

VARIABLES
    upstream,  \* what each feed has to say, chunk by chunk
    index,     \* the file: "absent", "partial" (a migration runs), "migrated"
    table,     \* the rows of vulnerabilities
    digest,    \* feed_digest_<source> in meta, <<>> for the empty string
    at,        \* how far each refresh is
    todo,      \* the sources it still has to visit
    batch,     \* the chunks of the source it has fetched
    inserted, errors, failures,  \* its totals
    code,      \* its exit code, -1 before it ends
    stored,    \* history: the feeds whose digest it stored
    published, \* history: every row a feed ever had
    changes,   \* bound: changes of the feeds so far
    withdrawn, overlapped, cut   \* history: see Quiet

totals == <<inserted, errors, failures>>
refresh == <<at, todo, batch, totals, code, stored>>
past == <<published, changes, withdrawn>>
indexVars == <<upstream, index, table, digest, refresh, past, overlapped, cut>>

Rows(s, chunks) == {[source |-> s, record |-> r] : r \in chunks \ {Bad}}
Answers(s) == {c \in SUBSET Chunks[s] : IsFiniteSet(c) /\ Cardinality(c) <= MaxChunks}
AllRows(up) == UNION {Rows(s, up[s]) : s \in Source}

IndexInit ==
    /\ upstream \in [Source -> SUBSET Chunk] /\ \A s \in Source : upstream[s] \in Answers(s)
    /\ index = "absent" /\ table = {} /\ digest = [s \in Source |-> <<>>]
    /\ at = [p \in Refresher |-> "new"]
    /\ todo = [p \in Refresher |-> <<>>] /\ batch = [p \in Refresher |-> <<>>]
    /\ inserted = [p \in Refresher |-> 0] /\ errors = [p \in Refresher |-> 0]
    /\ failures = [p \in Refresher |-> 0]
    /\ code = [p \in Refresher |-> -1]
    /\ stored = [p \in Refresher |-> {}]
    /\ published = AllRows(upstream)
    /\ changes = 0 /\ withdrawn = FALSE /\ overlapped = FALSE /\ cut = FALSE

-----------------------------------------------------------------------------
(* The feeds change on their own.                                          *)
Publish(s, chunks) ==
    /\ changes < MaxChanges
    /\ changes' = changes + 1
    /\ upstream' = [upstream EXCEPT ![s] = chunks]
    /\ published' = published \cup Rows(s, chunks)
    /\ withdrawn' = (withdrawn \/ ~ upstream[s] \subseteq chunks)
    /\ UNCHANGED <<index, table, digest, refresh, overlapped, cut>>

-----------------------------------------------------------------------------
(* refresh                                                                 *)
Refreshing == {"migrate", "migrating", "fetch", "fetched", "ingested"}
Ended == {"done", "dead"}

End(p, c) ==
    /\ at' = [at EXCEPT ![p] = "done"]
    /\ code' = [code EXCEPT ![p] = c]

(* refresh --source: the migration gate.                                   *)
Start(p, srcs) ==
    /\ at[p] = "new"
    /\ overlapped' = (overlapped \/ \E q \in Refresher : at[q] \in Refreshing)
    /\ todo' = [todo EXCEPT ![p] = srcs]
    /\ IF index = "partial"
       THEN End(p, 7)
       ELSE /\ at' = [at EXCEPT ![p] = IF index = "absent" THEN "migrate" ELSE "fetch"]
            /\ UNCHANGED code
    /\ UNCHANGED <<upstream, index, table, digest, batch, totals, stored, past, cut>>

(* _apply_migrations: the file and its tables, then alembic_version.  The  *)
(* tables of another migration that is under way are an error.             *)
BeginMigration(p) ==
    /\ at[p] = "migrate"
    /\ index' = IF index = "absent" THEN "partial" ELSE index
    /\ at' = [at EXCEPT ![p] = CASE index = "absent"   -> "migrating"
                                 [] index = "partial"  -> "dead"
                                 [] index = "migrated" -> "fetch"]
    /\ UNCHANGED <<upstream, table, digest, todo, batch, totals, code, stored, past, overlapped, cut>>

EndMigration(p) ==
    /\ at[p] = "migrating"
    /\ index' = "migrated"
    /\ at' = [at EXCEPT ![p] = "fetch"]
    /\ UNCHANGED <<upstream, table, digest, todo, batch, totals, code, stored, past, overlapped, cut>>

(* feed.fetch, whose chunks come in some order.                            *)
Fetch(p, chunks) ==
    /\ at[p] = "fetch" /\ todo[p] # <<>>
    /\ chunks \in SetToSeqs(upstream[Head(todo[p])])
    /\ batch' = [batch EXCEPT ![p] = chunks]
    /\ at' = [at EXCEPT ![p] = "fetched"]
    /\ UNCHANGED <<upstream, index, table, digest, todo, totals, code, stored, past, overlapped, cut>>

(* VulnFeedFetchError: the feed is passed over.                            *)
FetchFails(p) ==
    /\ at[p] = "fetch" /\ todo[p] # <<>>
    /\ failures' = [failures EXCEPT ![p] = @ + 1]
    /\ todo' = [todo EXCEPT ![p] = Tail(@)]
    /\ UNCHANGED <<upstream, index, table, digest, at, batch, inserted, errors, code, stored, past, overlapped, cut>>

(* The members of s that are in S, in their order                          *)
Among(s, S) ==
    LET among[n \in 0 .. Len(s)] ==
            IF n = 0 THEN <<>>
            ELSE IF s[n] \in S THEN Append(among[n - 1], s[n]) ELSE among[n - 1]
    IN  among[Len(s)]

Successes(chunks) == Among(chunks, Records)

(* _persist, INSERT OR IGNORE of the records in their order.               *)
Persisted(old, s, records) ==
    LET RowAt(i) == [source |-> s, record |-> records[i]]
        IsNew(i) == /\ \A row \in old : UniqueKey(row) # UniqueKey(RowAt(i))
                    /\ \A j \in 1 .. i - 1 : UniqueKey(RowAt(j)) # UniqueKey(RowAt(i))
    IN  old \cup {RowAt(i) : i \in {i \in DOMAIN records : IsNew(i)}}

(* ingest_records, in one transaction.                                     *)
Ingest(p) ==
    /\ at[p] = "fetched"
    /\ table' = Persisted(table, Head(todo[p]), Successes(batch[p]))
    /\ inserted' = [inserted EXCEPT ![p] = @ + Cardinality(table') - Cardinality(table)]
    /\ errors' = [errors EXCEPT ![p] = @ + Len(batch[p]) - Len(Successes(batch[p]))]
    /\ at' = [at EXCEPT ![p] = "ingested"]
    /\ UNCHANGED <<upstream, index, digest, todo, batch, failures, code, stored, past, overlapped, cut>>

(* Mutant: the digest of the feed is of all its chunks were to say.        *)
DigestOfFeed(p) ==
    /\ at[p] = "ingested"
    /\ digest' = [digest EXCEPT ![Head(todo[p])] = SetToSeq(upstream[Head(todo[p])] \ {Bad})]
    /\ stored' = [stored EXCEPT ![p] = @ \cup {Head(todo[p])}]
    /\ todo' = [todo EXCEPT ![p] = Tail(@)]
    /\ at' = [at EXCEPT ![p] = "fetch"]
    /\ batch' = [batch EXCEPT ![p] = <<>>]
    /\ UNCHANGED <<upstream, index, table, totals, code, past, overlapped, cut>>

(* sorted by cve_id: records of one advisory stay in their order.          *)
SortedByCve(records) ==
    LET Of(cve) == {r \in Records : r.cve = cve}
        sorted[n \in 0 .. Len(Advisories)] ==
            IF n = 0 THEN <<>> ELSE sorted[n - 1] \o Among(records, Of(Advisories[n]))
    IN  sorted[Len(Advisories)]

(* _update_feed_digest, of what this fetch brought.                        *)
UpdateFeedDigest(p) ==
    /\ at[p] = "ingested"
    /\ digest' = [digest EXCEPT ![Head(todo[p])] = SortedByCve(Successes(batch[p]))]
    /\ stored' = [stored EXCEPT ![p] = @ \cup {Head(todo[p])}]
    /\ todo' = [todo EXCEPT ![p] = Tail(@)]
    /\ at' = [at EXCEPT ![p] = "fetch"]
    /\ batch' = [batch EXCEPT ![p] = <<>>]
    /\ UNCHANGED <<upstream, index, table, totals, code, past, overlapped, cut>>

(* _vuln_index_refresh_body; every source was a failure or was stored.     *)
ExitCode(p) ==
    CASE failures[p] = failures[p] + Cardinality(stored[p]) -> 5
      [] errors[p] > 0 /\ inserted[p] > 0                   -> 4
      [] OTHER                                              -> 0

Finish(p) ==
    /\ at[p] = "fetch" /\ todo[p] = <<>>
    /\ End(p, ExitCode(p))
    /\ UNCHANGED <<upstream, index, table, digest, todo, batch, totals, stored, past, overlapped, cut>>

(* The process is killed, or meets an error nobody catches: a read that    *)
(* times out, a database that stays locked.                                *)
Killed(p) ==
    /\ at[p] \in Refreshing
    /\ at' = [at EXCEPT ![p] = "dead"]
    /\ cut' = (cut \/ at[p] = "ingested")
    /\ batch' = [batch EXCEPT ![p] = <<>>] /\ todo' = [todo EXCEPT ![p] = <<>>]
    /\ UNCHANGED <<upstream, index, table, digest, totals, code, stored, past, overlapped>>

Step(p) ==
    \/ BeginMigration(p) \/ EndMigration(p)
    \/ \E s \in Source : \E c \in SetToSeqs(upstream[s]) : Fetch(p, c)
    \/ FetchFails(p) \/ Ingest(p) \/ UpdateFeedDigest(p) \/ Finish(p)

IndexNext ==
    \/ \E s \in Source : \E chunks \in Answers(s) : Publish(s, chunks)
    \/ \E p \in Refresher :
          \/ \E srcs \in {Sources} \cup {<<s>> : s \in Source} : Start(p, srcs)
          \/ Step(p) \/ Killed(p)

(* The loop has no retry and no wait without a timeout.                    *)
IndexFairness == \A p \in Refresher : WF_indexVars(Step(p))

IndexSpec == IndexInit /\ [][IndexNext]_indexVars
IndexFairSpec == IndexSpec /\ IndexFairness

-----------------------------------------------------------------------------
IndexTypeOK ==
    /\ upstream \in [Source -> SUBSET Chunk]
    /\ index \in {"absent", "partial", "migrated"}
    /\ table \subseteq Row /\ published \subseteq Row
    /\ digest \in [Source -> Seq(Records)]
    /\ at \in [Refresher -> {"new"} \cup Refreshing \cup Ended]
    /\ todo \in [Refresher -> Seq(Source)]
    /\ batch \in [Refresher -> Seq(Chunk)]
    /\ inserted \in [Refresher -> Nat] /\ errors \in [Refresher -> Nat]
    /\ failures \in [Refresher -> Nat]
    /\ code \in [Refresher -> {-1, 0, 4, 5, 7}]
    /\ stored \in [Refresher -> SUBSET Source]

(* Whatever dies and however refreshes interleave, a feed's digest stands  *)
(* only for records whose key is in the table: rows are committed before   *)
(* the digest and are never deleted (refresh, ingest_records).             *)
DigestCovered ==
    \A s \in Source : \A i \in DOMAIN digest[s] :
        \E row \in table : UniqueKey(row) = UniqueKey([source |-> s, record |-> digest[s][i]])

(* A row that is in the table stays as it is, and no key has two: what a   *)
(* feed says later of the same range, its severity too, is ignored.        *)
RowsStay ==
    [][/\ table \subseteq table'
       /\ \A row, other \in table' : UniqueKey(row) = UniqueKey(other) => row = other]_indexVars

(* The digests name the table: between refreshes the rows of a feed are    *)
(* those of its digest.  It takes refreshes that neither overlap nor die   *)
(* between rows and digest, feeds that withdraw nothing, and one record    *)
(* per key ever; a bundle keyed by the digest is stale without them.       *)
Quiet ==
    /\ ~ withdrawn /\ ~ overlapped /\ ~ cut
    /\ \A row, other \in published : UniqueKey(row) = UniqueKey(other) => row = other
    /\ \A p \in Refresher : at[p] # "ingested"

DigestNamesTable ==
    Quiet => \A s \in Source :
                {row.record : row \in {row \in table : row.source = s}} = ToSet(digest[s])

(* What the exit code says of what the refresh did: 5 that it stored       *)
(* nothing, 4 that it added rows and left records out, 7 that it did not   *)
(* begin.  0 says only that some feed was stored: another may have failed. *)
ExitTells ==
    \A p \in Refresher :
        CASE code[p] = 5 -> stored[p] = {} /\ inserted[p] = 0
          [] code[p] = 4 -> inserted[p] > 0 /\ errors[p] > 0
          [] code[p] = 0 -> stored[p] # {}
          [] code[p] = 7 -> stored[p] = {} /\ batch[p] = <<>>
          [] OTHER       -> at[p] # "done"

(* A refresh that has begun ends.                                          *)
RefreshEnds == \A p \in Refresher : at[p] \in Refreshing ~> at[p] \in Ended
=============================================================================
