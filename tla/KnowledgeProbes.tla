--------------------------- MODULE KnowledgeProbes ---------------------------
(***************************************************************************)
(* What people wrote down about a repository and how it is read: skills    *)
(* (src/codegenie/skills), conventions (src/codegenie/conventions), and    *)
(* the probes of layers D and E.                                           *)
(***************************************************************************)
EXTENDS NodeProbes

(* Several of these probes: any error costs the confidence, and the rest   *)
(* of it if nothing was read.                                              *)
ErrorConfidence(items, errors) ==
    IF errors = <<>> THEN "high" ELSE IF items # <<>> THEN "medium" ELSE "low"

-----------------------------------------------------------------------------
(* Front matter.  A file is a sequence of "-" (a fence), "r" and "n" (the  *)
(* ends of a line) and "x" (anything else).  Answers are << the text       *)
(* between the fences, the length of what is before the body >>, or        *)
(* NotFenced.                                                              *)
NotFenced == << <<>>, -1 >>
IsAt(data, pos, word) ==
    /\ pos + Len(word) - 1 <= Len(data)
    /\ SubSeq(data, pos, pos + Len(word) - 1) = word
OpeningLength(data) ==
    CASE IsAt(data, 1, << "-", "n" >>) -> 2 [] IsAt(data, 1, << "-", "r", "n" >>) -> 3 [] OTHER -> 0

(* << where the line of the fence begins, where the next one does >> *)
FenceFrom(data, pos) ==
    LET EndsBare(l) == l # <<>> /\ Head(l) = "-" /\ \A i \in 2 .. Len(l) : l[i] = "r"
        fence[p \in 1 .. Len(data) + 1] ==
            LET k == SelectInSubSeq(data, p, Len(data), LAMBDA b : b = "n")
            IN IF k = 0 THEN << 0, 0 >> ELSE IF EndsBare(SubSeq(data, p, k - 1)) THEN << p, k + 1 >> ELSE fence[k + 1]
    IN fence[pos]

(* skills/loader.py: the whole file, *)
SplitFrontmatter(data) ==
    LET first == OpeningLength(data) + 1
        fence == FenceFrom(data, first)
    IN IF first = 1 \/ fence[1] = 0 THEN NotFenced
       ELSE << SubSeq(data, first, fence[1] - 1), fence[2] - 1 >>
(* or as much of it as is needed, a chunk at a time.  The opening is       *)
(* looked for in the first chunk, which holds at least the length of it.   *)
ScanFrontmatter(data, chunk) ==
    LET scan[have \in Nat, from \in Nat] ==
            LET buf == SubSeq(data, 1, IF have < Len(data) THEN have ELSE Len(data))
                opening == OpeningLength(buf)
                search == IF from = 0 THEN opening + 1 ELSE from
                fence == FenceFrom(buf, search)
                lines == {k \in search .. Len(buf) : buf[k] = "n"}
                next == IF lines = {} THEN search ELSE Max(lines) + 1
            IN CASE from = 0 /\ opening = 0 -> NotFenced
                 [] fence[1] # 0 /\ ~(from = 0 /\ opening = 0) ->
                      << SubSeq(buf, OpeningLength(buf) + 1, fence[1] - 1), fence[2] - 1 >>
                 [] OTHER -> IF have >= Len(data) THEN NotFenced ELSE scan[have + chunk, next]
    IN scan[chunk, 0]

(* layer_d/repo_config.py looks for the fence with the end of the line     *)
(* before it, first where both ends of its line are plain.                 *)
FenceWords == << << "n", "-", "n" >>, << "n", "-", "r", "n" >>, << "r", "n", "-", "r", "n" >> >>
FindWord(rest, word) == SelectInSeq([i \in 1 .. Len(rest) |-> IsAt(rest, i, word)], LAMBDA b : b)
ExtractFrontmatterBlock(data) ==
    LET first == OpeningLength(data)
        rest == SubSeq(data, first + 1, Len(data))
        k == SelectInSeq(FenceWords, LAMBDA w : FindWord(rest, w) # 0)
        idx == FindWord(rest, FenceWords[k])
    IN IF first = 0 \/ k = 0 THEN NotFenced ELSE << SubSeq(rest, 1, idx), first + idx - 1 + Len(FenceWords[k]) >>

-----------------------------------------------------------------------------
(* skills/loader.py.  A tier is a sequence of its SKILL.md files in the    *)
(* order of their paths, or absent; a file is [id, reads] with reads "ok"  *)
(* or why it is not loaded.                                                *)
LoadOneSkill(file) == file.reads

(* Mutant: the last one of an id wins *)
AddSkillLast(acc, t, file) ==
    [acc EXCEPT !.winners = Append(SelectSeq(@, LAMBDA w : w.id # file.id), [id |-> file.id, tier |-> t])]
AddSkill(acc, t, file) ==
    LET k == SelectInSeq(acc.winners, LAMBDA w : w.id = file.id) IN
    IF k = 0 THEN [acc EXCEPT !.winners = Append(@, [id |-> file.id, tier |-> t])]
    ELSE [acc EXCEPT !.shadowed = Append(@, [id |-> file.id, tier |-> t, by |-> acc.winners[k].tier])]
TakeSkill(acc, t, file) ==
    IF LoadOneSkill(file) = "ok" THEN AddSkill(acc, t, file) ELSE [acc EXCEPT !.errors = Append(@, file.reads)]
LoadTier(acc, t, tier) ==
    LET got[k \in 0 .. Len(tier.files)] == IF k = 0 THEN acc ELSE TakeSkill(got[k - 1], t, tier.files[k])
    IN IF tier.exists THEN got[Len(tier.files)] ELSE acc
NoSkills == [winners |-> <<>>, shadowed |-> <<>>, errors |-> <<>>]
LoadSkills(tiers) == LoadTier(LoadTier(LoadTier(NoSkills, 1, tiers[1]), 2, tiers[2]), 3, tiers[3])

(* layer_d/skills_index.py: the files are counted anew. *)
SortedById(found) ==
    LET Before(i) == {j \in DOMAIN found : found[j].id < found[i].id \/ (found[j].id = found[i].id /\ j < i)}
    IN [k \in DOMAIN found |-> found[CHOOSE i \in DOMAIN found : Cardinality(Before(i)) = k - 1]]
CountPerTier(tiers) == [t \in 1 .. 3 |-> IF tiers[t].exists THEN Len(tiers[t].files) ELSE 0]
SkillsIndex(tiers) ==
    LET loaded == LoadSkills(tiers)
    IN [kind |-> "output", errors |-> loaded.errors, warnings |-> <<>>,
        confidence |-> ErrorConfidence(loaded.winners, loaded.errors),
        skills |-> SortedById(loaded.winners), shadowed |-> loaded.shadowed, counts |-> CountPerTier(tiers)]

-----------------------------------------------------------------------------
(* conventions/loader.py.  A catalog file is [reads, rules], and one       *)
(* broken rule loses the file; a search path is absent, unreadable or a    *)
(* sequence of them.                                                       *)
LoadOneCatalog(acc, file) ==
    IF file.reads # "ok" THEN [acc EXCEPT !.errors = Append(@, file.reads)]
    ELSE IF \E k \in DOMAIN file.rules : file.rules[k].kind = "unknown"
    THEN [acc EXCEPT !.errors = Append(@, "unknown_pattern_type")]
    ELSE IF \E k \in DOMAIN file.rules : ~file.rules[k].compiles THEN [acc EXCEPT !.errors = Append(@, "schema")]
    ELSE [acc EXCEPT !.rules = @ \o file.rules]
LoadCatalogs(paths) ==
    IF paths # <<>> /\ \A k \in DOMAIN paths : paths[k].state # "readable" THEN [fatal |-> TRUE, rules |-> <<>>, errors |-> <<>>]
    ELSE FoldLeft(LAMBDA acc, p : IF p.state = "readable" THEN FoldLeft(LoadOneCatalog, acc, p.files) ELSE acc,
                  [fatal |-> FALSE, rules |-> <<>>, errors |-> <<>>], paths)

(* conventions/catalog.py.  Of a file what matters is whether a rule's     *)
(* pattern is found in what is read of it.                                 *)
Verdict(passes) == IF passes THEN "pass" ELSE "fail"
ApplyInverted(dockerfile) ==
    IF dockerfile = "absent" THEN "not_applicable" ELSE Verdict(dockerfile # "found")
ApplyDockerfile(dockerfile) ==
    IF dockerfile = "absent" THEN "not_applicable" ELSE Verdict(dockerfile = "found")
ApplyFilePattern(files) ==
    IF files = <<>> THEN "not_applicable" ELSE Verdict(\A k \in DOMAIN files : files[k] = "found")
ApplyMissingFile(files) == Verdict(files = <<>>)
ApplyRule(rule, repo) ==
    CASE rule.kind = "dockerfile_pattern" -> ApplyDockerfile(repo.dockerfile)
      [] rule.kind = "dockerfile_pattern_inverted" -> ApplyInverted(repo.dockerfile)
      [] rule.kind = "file_pattern" -> ApplyFilePattern(repo.files)
      [] rule.kind = "missing_file" -> ApplyMissingFile(repo.files)

(* layer_d/conventions.py *)
Conventions(paths, repo) ==
    LET loaded == LoadCatalogs(paths)
        applied == [k \in DOMAIN loaded.rules |-> ApplyRule(loaded.rules[k], repo)]
    IN Output(<<>>, IF loaded.errors = <<>> THEN <<>> ELSE << "per_file_errors_present" >>,
              IF loaded.fatal THEN "low" ELSE ErrorConfidence(applied, loaded.errors))
       @@ [results |-> applied, rules |-> loaded.rules, failed |-> Len(loaded.errors)]

-----------------------------------------------------------------------------
(* layer_d/exceptions.py.  An entry is [valid, here, expires] (here:       *)
(* whether its glob matches the name of the repository); both files count. *)
ReadExceptions(file) ==
    CASE file.reads = "absent" -> [entries |-> <<>>, errors |-> <<>>]
      [] file.reads = "not_mapping" -> [entries |-> <<>>, errors |-> << "not_mapping" >>]
      [] OTHER -> [entries |-> SelectSeq(file.entries, LAMBDA e : e.valid),
                   errors |-> [k \in 1 .. Len(SelectSeq(file.entries, LAMBDA e : ~e.valid)) |-> "malformed_entry"]]
ActiveOn(e, now) == e.expires >= now
Exceptions(user, repo, now) ==
    LET u == ReadExceptions(user)
        r == ReadExceptions(repo)
        absent == user.reads = "absent" /\ repo.reads = "absent"
        here == SelectSeq(u.entries \o r.entries, LAMBDA e : e.here)
        errors == IF absent THEN << "files_absent" >> ELSE u.errors \o r.errors
    IN Output(<<>>, <<>>, ErrorConfidence(here, errors))
       @@ [active |-> SelectSeq(here, LAMBDA e : ActiveOn(e, now)), expired |-> SelectSeq(here, LAMBDA e : ~ActiveOn(e, now))]
=============================================================================
