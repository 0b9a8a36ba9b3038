------------------------------ MODULE Fallback ------------------------------
(***************************************************************************)
(* The decisions of the fallback tier (src/codegenie/fallback): what it    *)
(* refuses, what it harvests, the anchors of its attempts, the fence round *)
(* what is put in a prompt, the plans it accepts, the hosts it may reach,  *)
(* and the cassettes its tests replay.                                     *)
(***************************************************************************)
EXTENDS Integers, SequencesExt, Retrieval

RefusalReasons == {"PROVENANCE_NOT_APP_LAYER", "BUDGET_EXCEEDED", "LEAF_REFUSED", "LEAF_SCHEMA_VIOLATION"}
PlanOutcomes == {"recipe", "llm", "rag_only", "refused"}
PlanKinds == {"dep_bump", "override", "callsite_rewrite", "refuse"}
Confidences == {"low", "medium", "high"}

-----------------------------------------------------------------------------
(* The anchor of an attempt: it gives a reason exactly when it refused,    *)
(* and takes a trust outcome once, unless it refused.                      *)
Anchor(outcome, reason) == [outcome |-> outcome, reason |-> reason, trust |-> "none"]
AnchorError(a) ==
    CASE a.naive -> "naive_timestamp"
      [] ~a.naive /\ a.badExtras -> "extras_key"
      [] ~a.naive /\ ~a.badExtras /\ (a.outcome = "refused") # (a.reason \in RefusalReasons) -> "refusal_reason"
      [] OTHER -> "ok"
AttachTrustOutcome(anchor, trust) ==
    IF anchor.trust # "none" \/ anchor.outcome = "refused" THEN "value_error"
    ELSE [anchor EXCEPT !.trust = trust]

(* ProvenanceGate.classify: an adapter that failed is an unknown. *)
AppLayer == {"app_direct", "app_transitive", "app_vendored", "both"}
IsAppLayer(provenance) == provenance \in AppLayer
ClassifyProvenance(found) == IF found = "provenance_error" THEN "unknown" ELSE found

ConfidencePasses(trust) == trust.passed /\ trust.confidence = "high"
HarvestEligible(outcome) == outcome = "llm"
SkipReason(trust) == IF trust.passed THEN "low_confidence" ELSE "trust_failed"

(* FallbackTier.run answers every advisory with a refusal; an earlier      *)
(* attempt only adds an event.                                             *)
TierRun(prior) ==
    [outcome |-> "refused",
     events |-> (IF prior = <<>> THEN <<>> ELSE << "rag_skipped_on_retry" >>)
                \o << "plan_outcome", "attempt_anchor" >>,
     skippedFor |-> IF prior = <<>> THEN 0 ELSE Last(prior),
     anchor |-> Anchor("refused", "PROVENANCE_NOT_APP_LAYER")]

(* FallbackTier.on_validated and what it makes of the example. *)
OnValidated(outcome, trust, known, plan) ==
    CASE ~HarvestEligible(outcome) -> << "skipped", "outcome_not_harvestable" >>
      [] HarvestEligible(outcome) /\ ~ConfidencePasses(trust) -> << "skipped", SkipReason(trust) >>
      [] HarvestEligible(outcome) /\ ConfidencePasses(trust) /\ known -> << "skipped", "already_harvested" >>
      [] OTHER -> IF plan = "refuse" THEN << "raised", "type_error" >> ELSE << "harvested", plan >>

(* Nothing ever puts an anchor among the pending ones: there is none to    *)
(* complete, whichever attempt is named.                                   *)
FinalizeSuccessAnchor(pending, attempt) == pending \cap {attempt}

-----------------------------------------------------------------------------
(* The fence.  A payload is a sequence of pieces: text, an injection       *)
(* pattern, and the nonce on its own or in the opening or closing mark.    *)
WithNonce == {"nonce", "open", "close"}

(* INJECTION_PATTERNS is checked when the module is imported. *)
PatternFaults == << "fewer_than_50", "duplicate_id", "duplicate_bytes", "id_shape",
                    "empty_bytes", "not_utf8", "shadowed" >>

(* CanaryGuard.scan; a FenceWrapper may be given a scanner that sees less. *)
ScanPayload(payload, scanner) ==
    CASE scanner = "blind" -> "clean"
      [] scanner = "guard" /\ \E i \in DOMAIN payload : payload[i] \in WithNonce -> "nonce_collision"
      [] scanner = "guard" /\ (\A i \in DOMAIN payload : payload[i] \notin WithNonce)
                           /\ Contains(payload, "pattern") -> "pattern"
      [] OTHER -> "clean"

Redaction == << "redacted" >>
CutAt(payload, cap) ==
    [body |-> SubSeq(payload, 1, IF Len(payload) > cap THEN cap ELSE Len(payload)), truncated |-> Len(payload) > cap]

FencePure(payload, scanner, cap) ==
    LET verdict == ScanPayload(payload, scanner)
        canary == IF verdict # "clean" THEN verdict
                  ELSE IF Contains(payload, "open") \/ Contains(payload, "close") THEN "delimiter_in_body"
                  ELSE "clean"
        cut == IF canary = "clean" THEN CutAt(payload, cap) ELSE [body |-> Redaction, truncated |-> FALSE]
    IN [content |-> << "open" >> \o cut.body \o << "close" >>, truncated |-> cut.truncated, canary |-> canary]

FenceEvents(segment) ==
    IF segment.canary = "clean" THEN << "fence_applied" >> ELSE << "canary_collision", "fence_applied" >>

(* PromptBuilder.build: the untrusted segments in their one order; too     *)
(* many examples are an error, too many dependencies are cut.              *)
DepMetaCap == 16
FewShotsCap == 3
OrderedSegments(n) ==
    << "cve_description", "repo_readme" >>
    \o [i \in 1 .. n.deps |-> "transitive_dep_meta"] \o [i \in 1 .. n.snippets |-> "source_snippet"]
    \o [i \in 1 .. n.shots |-> "rag_retrieved"] \o [i \in 1 .. n.summary |-> "prior_attempt_summary"]
    \o [i \in 1 .. n.stderr |-> "sandbox_stderr"]
BuildPrompt(n) ==
    IF n.shots > FewShotsCap THEN << "value_error" >>
    ELSE OrderedSegments([n EXCEPT !.deps = IF @ > DepMetaCap THEN DepMetaCap ELSE @])

-----------------------------------------------------------------------------
(* plan_proposal.py: what a model's diff may be and which files it names.  *)
(* A header line without the a/ or b/ prefix is not read as a path.        *)
DiffFaults == << "empty", "carriage_return", "not_utf8", "too_large", "new_file", "no_op" >>
PathFaults == << "empty", "absolute", "nul", "backslash", "traversal" >>
ExtractDiffPaths(headers) == {h.path : h \in {x \in headers : x.prefixed}}
RewriteError(files, headers) ==
    CASE files = {} -> "no_files"
      [] files # {} /\ ExtractDiffPaths(headers) \ files # {} -> "path_escape"
      [] OTHER -> "ok"

-----------------------------------------------------------------------------
(* leaf/egress_guard.py *)
BaseAllowlist == {<< "api.anthropic.com", 443 >>}
LoopbackHosts == {"127.0.0.1", "::1", "localhost"}
IsAdmitted(host, port, loopback) == << host, port >> \in BaseAllowlist \/ (loopback /\ host \in LoopbackHosts)
ParseHostPort(spec) ==
    IF spec.fault \in {"no_colon", "empty_host", "port_not_integer"} THEN "value_error" ELSE << spec.host, spec.port >>
PinnedTo(spec) ==
    LET at == ParseHostPort(spec)
    IN IF at = "value_error" THEN at ELSE IF at \in BaseAllowlist THEN "ok" ELSE "egress_violation"

(* install wraps what socket.create_connection is, the first time only.    *)
InstallGuard(guard) ==
    IF guard.installed THEN guard ELSE [installed |-> TRUE, wraps |-> guard.wraps + 1]

-----------------------------------------------------------------------------
(* cassette/sanitizer.py.  A message is its headers and its body.  Headers *)
(* come in a shape: a mapping of names to values, to lists or to tuples,   *)
(* or a list of pairs; a value and a body contain some secret patterns.    *)
Forbidden == {"authorization", "x-api-key", "cookie", "set-cookie", "anthropic-version"}
SecretPatterns == {"sk_ant", "claude", "base64"}
BodyKinds == {"none", "bytes", "str", "other"}

NormalizeHeaders(headers) == IF headers.shape = "none" THEN <<>> ELSE headers.pairs
StripHeaders(pairs) == Picked(pairs, {i \in DOMAIN pairs : pairs[i].name \notin Forbidden})
RedactValue(secrets) == {}
RedactHeaderValues(pairs) == [i \in DOMAIN pairs |-> [pairs[i] EXCEPT !.secrets = RedactValue(@)]]

(* A mapping that is not of lists keeps one value for a name, the last. *)
LastOfEach(pairs) ==
    Picked(pairs, {i \in DOMAIN pairs : \A j \in DOMAIN pairs : j > i => pairs[j].name # pairs[i].name})
WriteHeaders(shape, pairs) ==
    [shape |-> shape, pairs |-> IF shape \in {"plain", "tuples"} THEN LastOfEach(pairs) ELSE pairs]

(* Mutant: the recorder's {"string": ...} round a body is not entered. *)
RedactBodyFlat(body) ==
    IF body.kind \in {"bytes", "str"} /\ body.wraps = 0 THEN [body EXCEPT !.secrets = RedactValue(@)] ELSE body

RedactBody(body) ==
    IF body.kind \in {"bytes", "str"} THEN [body EXCEPT !.secrets = RedactValue(@)] ELSE body

SanitizeMessage(message) ==
    [headers |-> WriteHeaders(message.headers.shape,
                              RedactHeaderValues(StripHeaders(NormalizeHeaders(message.headers)))),
     body |-> RedactBody(message.body)]

(* What verify_cassette finds; a body that is neither bytes nor text is    *)
(* passed by, as it is by the redaction.                                   *)
ScanMessage(message) ==
    LET pairs == ToSet(NormalizeHeaders(message.headers))
        body == message.body
    IN {<< "header", p.name >> : p \in {x \in pairs : x.name \in Forbidden}}
       \cup {<< "header_value", p.name >> : p \in {x \in pairs : x.name \notin Forbidden /\ x.secrets # {}}}
       \cup (IF body.kind \in {"bytes", "str"} /\ body.secrets # {} THEN {<< "body", body.kind >>} ELSE {})
CassetteFaults == << "unreadable", "blank", "yaml_error", "not_mapping", "no_interactions", "not_a_list" >>
VerifyCassette(fault, messages) ==
    IF fault # "none" THEN {<< "unreadable", fault >>} ELSE UNION {ScanMessage(messages[i]) : i \in DOMAIN messages}

-----------------------------------------------------------------------------
(* cassette/manifest.py.  A line of cassettes.lock, as the parser sees it. *)
LockLineError(line, seen, previous) ==
    CASE line.blank -> "trailing_garbage"
      [] ~line.blank /\ ~line.separated -> "missing_separator"
      [] ~line.blank /\ line.separated /\ line.moreAfter -> "trailing_garbage"
      [] ~line.blank /\ line.separated /\ ~line.moreAfter /\ ~line.safePath -> "bad_relpath"
      [] ~line.blank /\ line.separated /\ ~line.moreAfter /\ line.safePath /\ line.hex # "ok" -> line.hex
      [] OTHER -> IF line.name \in seen THEN "duplicate_relpath"
                  ELSE IF line.name < previous THEN "unsorted_lines" ELSE "ok"

ParseLock(lines, ended) ==
    IF lines # <<>> /\ ~ended THEN [error |-> "trailing_garbage", entries |-> {}]
    ELSE FoldLeft(LAMBDA got, line :
                    IF got.error # "ok" THEN got
                    ELSE LET names == {e[1] : e \in got.entries}
                             previous == IF names = {} THEN 0 ELSE CHOOSE n \in names : \A m \in names : m <= n
                             error == LockLineError(line, names, previous)
                         IN IF error = "ok"
                            THEN [got EXCEPT !.entries = @ \cup {<< line.name, line.digest >>}]
                            ELSE [error |-> error, entries |-> {}],
                  [error |-> "ok", entries |-> {}], lines)

(* A name that holds two spaces, or a backslash, is written as it is. *)
LockLine(file) ==
    [name |-> file.name, digest |-> file.digest, blank |-> FALSE, separated |-> TRUE,
     moreAfter |-> file.spelling = "two_spaces", safePath |-> file.spelling # "backslash", hex |-> "ok"]

RebuildLock(walked) ==
    LET rows == SortSeq(walked, LAMBDA a, b : a.name < b.name) IN [i \in DOMAIN rows |-> LockLine(rows[i])]
=============================================================================
