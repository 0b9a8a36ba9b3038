-------------------------------- MODULE Keys --------------------------------
(***************************************************************************)
(* What a cached answer of a probe is filed under (cache/keys.py) and how  *)
(* what a probe says is cleaned before anything is written                 *)
(* (output/sanitizer.py, output/envelope_redactor.py).                     *)
(***************************************************************************)
EXTENDS Integers, Sequences, SequencesExt

(* Keys.  A file is [path, size, bytes], its path a sequence of names; a   *)
(* declared input is a token, or words that the path of a file ends with.  *)
OutputNamespace == ".codegenie"
RglobFinds(declared, file) == ~declared.token /\ IsSuffix(declared.words, file.path)

DeclaredInputsAll(probe, files) ==     \* mutant: the program's own output as well
    {f \in files : \E k \in DOMAIN probe.declared : RglobFinds(probe.declared[k], f)}
DeclaredInputsFor(probe, files) ==
    {f \in files : /\ \E k \in DOMAIN probe.declared : RglobFinds(probe.declared[k], f)
                   /\ Head(f.path) # OutputNamespace}
ContentHashOfInputs(files) == {<< f.path, f.size >> : f \in files}

(* Without a context, or a resolver that knows, a token is empty. *)
Unresolved == "unresolved"
ResolveToken(digest) == IF digest = "none" THEN Unresolved ELSE digest
TokenValues(probe, digest) ==
    LET tokens == {k \in DOMAIN probe.declared : probe.declared[k].token}
    IN [k \in 1 .. Cardinality(tokens) |-> ResolveToken(digest)]
UnknownToken(probe) == \E k \in DOMAIN probe.declared : probe.declared[k].token /\ probe.declared[k].words # << "image-digest" >>

(* The schema of a probe, and where it has none that of the envelope.      *)
SchemaVersion(schemas, name) ==
    IF schemas.own[name] = 0 THEN << "envelope", schemas.envelope >> ELSE << name, schemas.own[name] >>

KeyFor(probe, repo, schemas) ==
    IF UnknownToken(probe) THEN << "CacheKeyError" >>
    ELSE << probe.name, probe.version, SchemaVersion(schemas, probe.name),
            ContentHashOfInputs(DeclaredInputsFor(probe, repo.files)), TokenValues(probe, repo.digest) >>

-----------------------------------------------------------------------------
(* Paths.  A text is a sequence of slashes and names; in the repository's  *)
(* own tree it is told from there, otherwise from the home directory on.   *)
NameRun(s, i) ==
    LET k == SelectInSubSeq(s, i, Len(s), LAMBDA x : x = "/") IN IF k = 0 THEN Len(s) + 1 - i ELSE k - i
Begins(s, i, word) == i + Len(word) - 1 <= Len(s) /\ SubSeq(s, i, i + Len(word) - 1) = word
HomeLength(s, i, home) ==
    LET n == NameRun(s, i + 3)
    IN IF Begins(s, i, << "/", home, "/" >>) /\ n > 0 /\ Begins(s, i + 3 + n, << "/" >>) THEN n + 4 ELSE 0
RepoLength(s, i, root) ==
    CASE ~Begins(s, i, root) -> 0 [] Begins(s, i, root \o << "/" >>) -> Len(root) + 1 [] OTHER -> Len(root)
Alternatives(s, i, root) ==
    << RepoLength(s, i, root), HomeLength(s, i, "Users"), HomeLength(s, i, "home"),
       IF Begins(s, i, << "/", "root", "/" >>) THEN 3 ELSE 0 >>
PathLength(s, i, root) ==
    LET hit == SelectSeq(Alternatives(s, i, root), LAMBDA n : n > 0) IN IF hit = <<>> THEN 0 ELSE Head(hit)

ScrubString(s, root) ==
    LET left[i \in 1 .. Len(s) + 1] ==
            IF i > Len(s) THEN <<>>
            ELSE IF PathLength(s, i, root) > 0 THEN left[i + PathLength(s, i, root)]
            ELSE << s[i] >> \o left[i + 1]
    IN left[1]

-----------------------------------------------------------------------------
(* Secrets.  A text is a sequence of pieces: << "key" >> a whole key, one  *)
(* of << "eyj" >>, << "begin" >>, << "end" >>, << "sk" >> that a longer    *)
(* secret begins or ends with, << "dot" >>, << "noise" >> that looks       *)
(* random, << "text" >> that does not, and << "mark", ... >> what has been *)
(* redacted with the fingerprint of it.                                    *)
Marked(secret) == << "mark" >> \o secret
IsMark(piece) == Head(piece) = "mark"
SegmentRun(s, i) ==
    LET k == SelectInSubSeq(s, i, Len(s), LAMBDA p : Head(p) \notin {"key", "eyj", "sk", "noise"})
    IN IF k = 0 THEN Len(s) + 1 - i ELSE k - i
IsDot(s, i) == i <= Len(s) /\ s[i] = << "dot" >>
JwtLength(s, i) ==
    LET one == SegmentRun(s, i)
        two == SegmentRun(s, i + one + 1)
        three == SegmentRun(s, i + one + two + 2)
    IN IF IsDot(s, i + one) /\ two > 0 /\ IsDot(s, i + one + 1 + two) /\ three > 0 THEN one + two + three + 2 ELSE 0
BlockLength(s, i) ==
    LET k == SelectInSubSeq(s, i + 2, Len(s), LAMBDA p : p = << "end" >>) IN IF k = 0 THEN 0 ELSE k + 1 - i

Patterns == << "key", "eyj", "begin", "sk" >>
PatternLength(class, s, i) ==
    CASE s[i] # << class >> -> 0
      [] class = "key" -> 1
      [] class = "eyj" -> JwtLength(s, i)
      [] class = "begin" -> BlockLength(s, i)
      [] class = "sk" -> SegmentRun(s, i)

Subn(class, s) ==
    LET left[i \in 1 .. Len(s) + 1] ==
            IF i > Len(s) THEN [text |-> <<>>, found |-> <<>>]
            ELSE LET n == PatternLength(class, s, i)
                     secret == SubSeq(s, i, i + n - 1)
                     rest == left[IF n = 0 THEN i + 1 ELSE i + n]
                 IN IF n = 0 THEN [rest EXCEPT !.text = << s[i] >> \o @]
                    ELSE [text |-> << Marked(secret) >> \o rest.text, found |-> << secret >> \o rest.found]
    IN left[1]
RedactNamed(s) ==
    FoldLeft(LAMBDA got, class : LET now == Subn(class, got.text) IN [text |-> now.text, found |-> got.found \o now.found],
             [text |-> s, found |-> <<>>], Patterns)

(* Random enough: more of it looks random than does not. *)
Entropic(s) ==
    LET Of(kind) == Len(SelectSeq(s, LAMBDA p : p = << kind >>)) IN Of("noise") > 0 /\ Of("noise") >= Of("text")
AsEntropy(s) == [text |-> << Marked(s) >>, found |-> << s >>]

(* redact_secrets: a text at a time *)
RedactString(s) ==
    LET named == RedactNamed(s) IN IF named.found = <<>> /\ Entropic(s) THEN AsEntropy(s) ELSE named

(* _redact_envelope: all texts for the names, then all of them for entropy *)
RedactEntropy(s) ==
    IF ~(\E i \in DOMAIN s : IsMark(s[i])) /\ Entropic(s) THEN AsEntropy(s) ELSE [text |-> s, found |-> <<>>]

WalkLeaves(leaves, RedactLeaf(_)) ==
    LET done == [k \in DOMAIN leaves |-> RedactLeaf(leaves[k])]
    IN [slice |-> [k \in DOMAIN leaves |-> done[k].text], found |-> FlattenSeq([k \in DOMAIN leaves |-> done[k].found])]
RedactedSlice(slice, found) ==
    [slice |-> slice, findings_count |-> Len(found),
     fingerprints |-> FoldLeft(LAMBDA seen, x : IF Contains(seen, x) THEN seen ELSE Append(seen, x), <<>>, found)]
RedactSecrets(leaves) == LET got == WalkLeaves(leaves, RedactString) IN RedactedSlice(got.slice, got.found)
RedactEnvelope(leaves) ==
    LET known == WalkLeaves(leaves, RedactNamed)
        entropy == WalkLeaves(known.slice, RedactEntropy)
    IN RedactedSlice(entropy.slice, known.found \o entropy.found)

(* Raw bytes, and the bytes of a checkpoint: the names alone. *)
RedactRawArtifact(s) == RedactNamed(s)
=============================================================================
