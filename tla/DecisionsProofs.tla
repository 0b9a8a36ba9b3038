------------------------- MODULE DecisionsProofs --------------------------
(* What TLAPS proves of the decisions, for any questions of the types the  *)
(* assumption gives them, and of the guard of the model calls, for any     *)
(* calls, caps and usages.  What a recursive function computes is proved   *)
(* from its steps: that it exists, and that no position is the first at    *)
(* which what is claimed of it fails.                                      *)
EXTENDS Decisions, LeafBudget, FiniteSetTheorems, SequenceTheorems, TLAPS

-----------------------------------------------------------------------------
(* Numbers and functions made step by step.                                *)

(* An induction is the proof that there is no smallest counterexample.     *)
LEMMA SmallestNumber ==
    ASSUME NEW T, T \subseteq Nat, T # {}
    PROVE  \E m \in T : \A k \in T : m =< k
<1> DEFINE R == OpToRel(<, Nat)
<1>1. PICK m \in T : \A k \in T : ~ (<<k, m>> \in R)
  <2>1. IsWellFoundedOn(R, Nat)
    BY NatLessThanWellFounded
  <2> HIDE DEF R
  <2> QED
    BY <2>1, WFMin
<1>2. \A k \in T : ~ (k < m)
  BY <1>1 DEF OpToRel
<1> QED
  BY <1>2

LEMMA NumbersFrom0 ==
    ASSUME NEW S, 0 \in S, \A n \in Nat : n \in S => n + 1 \in S
    PROVE  Nat \subseteq S
<1> SUFFICES ASSUME Nat \ S # {} PROVE FALSE
  OBVIOUS
<1>1. PICK m \in Nat \ S : \A k \in Nat \ S : m =< k
  BY SmallestNumber
<1>2. m - 1 \in Nat /\ m - 1 \in S
  BY <1>1
<1> QED
  BY <1>1, <1>2

(* What a function that is defined by recursion on the numbers up to N is, *)
(* its step being a function too.                                          *)
Steps(N, V, base, step, f) ==
    /\ f \in [0 .. N -> V] /\ f[0] = base
    /\ \A n \in 1 .. N : f[n] = step[<<n, f[n - 1]>>]

LEMMA StepsExist ==
    ASSUME NEW N \in Nat, NEW V, NEW base \in V, NEW step \in [(1 .. N) \X V -> V]
    PROVE  \E f : Steps(N, V, base, step, f)
<1> DEFINE S == {n \in Nat : n =< N => \E f : Steps(n, V, base, step, f)}
<1>1. 0 \in S
  <2>1. Steps(0, V, base, step, [n \in 0 .. 0 |-> base])
    BY DEF Steps
  <2> QED
    BY <2>1
<1>2. ASSUME NEW n \in Nat, n \in S PROVE n + 1 \in S
  <2> SUFFICES ASSUME n + 1 =< N PROVE \E f : Steps(n + 1, V, base, step, f)
    OBVIOUS
  <2>1. PICK f : Steps(n, V, base, step, f)
    BY <1>2
  <2> DEFINE v == step[<<n + 1, f[n]>>]
             g == [k \in 0 .. n + 1 |-> IF k = n + 1 THEN v ELSE f[k]]
  <2>2. v \in V
    BY <2>1 DEF Steps
  <2>3. g \in [0 .. n + 1 -> V] /\ g[0] = base
    BY <2>1, <2>2 DEF Steps
  <2>4. ASSUME NEW k \in 1 .. n + 1 PROVE g[k] = step[<<k, g[k - 1]>>]
    <3>1. k - 1 \in 0 .. n /\ g[k - 1] = f[k - 1]
      OBVIOUS
    <3>2. CASE k = n + 1
      <4>1. k - 1 = n /\ g[k] = v
        BY <3>2
      <4> HIDE DEF g
      <4> QED
        BY <3>1, <3>2, <4>1
    <3>3. CASE k \in 1 .. n
      <4>1. g[k] = f[k]
        BY <3>3
      <4>2. f[k] = step[<<k, f[k - 1]>>]
        BY <2>1, <3>3 DEF Steps
      <4> QED
        BY <3>1, <4>1, <4>2
    <3> QED
      BY <3>2, <3>3
  <2>5. Steps(n + 1, V, base, step, g)
    <3> HIDE DEF g
    <3> QED
      BY <2>3, <2>4 DEF Steps
  <2> QED
    BY <2>5
<1>3. Nat \subseteq S
  <2> HIDE DEF S
  <2> QED
    BY <1>1, <1>2, NumbersFrom0
<1> QED
  BY <1>3

LEMMA NumbersUpTo ==
    ASSUME NEW N \in Nat, NEW S, 0 \in S, \A n \in 1 .. N : n - 1 \in S => n \in S
    PROVE  0 .. N \subseteq S
<1> DEFINE R == {n \in Nat : n =< N => n \in S}
<1>1. 0 \in R
  OBVIOUS
<1>2. ASSUME NEW n \in Nat, n \in R PROVE n + 1 \in R
  <2>1. CASE n + 1 =< N
    <3>1. n + 1 \in 1 .. N /\ n \in S /\ (n + 1) - 1 = n
      BY <1>2, <2>1
    <3> QED
      BY <3>1
  <2>2. CASE ~ (n + 1 =< N)
    BY <2>2
  <2> QED
    BY <2>1, <2>2
<1>3. Nat \subseteq R
  <2> HIDE DEF R
  <2> QED
    BY <1>1, <1>2, NumbersFrom0
<1> QED
  BY <1>3

LEMMA AppendRange ==
    ASSUME NEW A, NEW s \in Seq(A), NEW e \in A
    PROVE  ToSet(Append(s, e)) = ToSet(s) \cup {e}
<1>1. /\ DOMAIN Append(s, e) = 1 .. Len(s) + 1 /\ DOMAIN s = 1 .. Len(s) /\ Len(s) \in Nat
      /\ Append(s, e)[Len(s) + 1] = e
      /\ \A i \in 1 .. Len(s) : Append(s, e)[i] = s[i]
  BY AppendProperties
<1> QED
  BY <1>1 DEF ToSet

-----------------------------------------------------------------------------
(* Every answer is that of the function to what was asked.                 *)

(* What stands as the answer is the function's answer to what was asked.   *)
Answered ==
    /\ asked = "load" => question \in Questions["load"] /\ answer = LoadPlugins(question.walked, question.lock)
    /\ asked = "npm" => question \in Questions["npm"] /\ answer = ApplyNpm(question.repo, question.jail)
    /\ asked = "filter" => /\ question \in Questions["filter"]
                           /\ answer = [call \in Calls |-> RunFilter(BuildFilter(question), call)]
    /\ asked = "cassette" => /\ question \in Questions["cassette"]
                             /\ answer = [out |-> SanitizeMessage(question), found |-> VerifyCassette("none", << SanitizeMessage(question) >>)]
    /\ asked = "embed_batch" => /\ question \in Questions["embed_batch"]
                                /\ answer = EmbedBatch(question.texts, question.table, question.short)
    /\ asked = "depth" => question \in Questions["depth"] /\ answer = ExceedsDepth(question, 2)
    /\ asked = "extends" => question \in Questions["extends"] /\ answer = Extends(question)
    /\ asked = "scip" => question \in Questions["scip"] /\ answer = IndexThenHealth(question)
    /\ asked = "scan" => question \in Questions["scan"] /\ answer = ScanGathers(NothingScanned, question)
    /\ asked = "skills" => question \in Questions["skills"] /\ answer = SkillsIndex(question)
    /\ asked = "key" => /\ question \in Questions["key"]
                        /\ answer = [before |-> KeyFor(question.probe, question.before, OneSchema),
                                     after |-> KeyFor(question.probe, question.after, OneSchema)]
    /\ asked = "append" => /\ question \in Questions["append"]
                           /\ answer = [memory |-> MemoryAppends(question), sqlite |-> SqliteAppends(question)]

LEMMA AnsweredInit == ASSUME Init PROVE Answered
  BY DEF Init, Answered, None

LEMMA AnsweredStep == ASSUME Answered, [Next]_vars PROVE Answered'
<1>1. CASE AskPlugins
  BY <1>1 DEF AskPlugins, Ask, Answered, None
<1>2. CASE AskTransforms
  BY <1>2 DEF AskTransforms, Ask, Answered, None
<1>3. CASE AskJail
  BY <1>3 DEF AskJail, Ask, Answered, None
<1>4. CASE AskFallback
  BY <1>4 DEF AskFallback, Ask, Answered, None
<1>5. CASE AskRetrieval
  BY <1>5 DEF AskRetrieval, Ask, Answered, None
<1>6. CASE AskParsers
  BY <1>6 DEF AskParsers, Ask, Answered, None
<1>7. CASE AskProbes
  BY <1>7 DEF AskProbes, Ask, Answered, None
<1>8. CASE AskIndexes
  BY <1>8 DEF AskIndexes, Ask, Answered, None
<1>9. CASE AskScanners
  BY <1>9 DEF AskScanners, Ask, Answered, None
<1>10. CASE AskContainer
  BY <1>10 DEF AskContainer, Ask, Answered, None
<1>11. CASE AskKnowledge
  BY <1>11 DEF AskKnowledge, Ask, Answered, None
<1>12. CASE AskKeys
  BY <1>12 DEF AskKeys, Ask, Answered, None
<1>13. CASE AskStores
  BY <1>13 DEF AskStores, Ask, Answered, None
<1>14. CASE UNCHANGED vars
  BY <1>14 DEF vars, Answered
<1> QED
  BY <1>1, <1>2, <1>3, <1>4, <1>5, <1>6, <1>7, <1>8, <1>9, <1>10, <1>11, <1>12, <1>13, <1>14 DEF Next

LEMMA AlwaysAnswered == Spec => []Answered
  BY AnsweredInit, AnsweredStep, PTL DEF Spec

-----------------------------------------------------------------------------
(* Plugins: all are verified before one is imported (loader.py).           *)

LEMMA ImportsAll ==
    ASSUME NEW w \in Seq(PluginDirs), ImportAll(w).result = "ok"
    PROVE  ImportAll(w).registered = {w[i].id : i \in DOMAIN w}
<1> DEFINE bad == {i \in DOMAIN w : ~Imports(w, i)}
<1>1. bad = {}
  BY DEF ImportAll
<1>2. ImportAll(w).registered = RegisteredBy(w, Len(w) + 1)
  BY <1>1 DEF ImportAll
<1>3. \A j \in DOMAIN w : j <= Len(w) + 1 /\ w[j].api = "registers"
  BY <1>1 DEF Imports
<1> QED
  BY <1>2, <1>3 DEF RegisteredBy

LEMMA VerifiesAllFirst ==
    ASSUME NEW w \in Seq(PluginDirs), NEW l \in [malformed : BOOLEAN, entries : Seq(LockEntries)],
           \/ LoadPlugins(w, l).ran # {} \/ LoadPlugins(w, l).registered # {} \/ LoadPlugins(w, l).result = "ok"
    PROVE  /\ LoadPlugins(w, l) = ImportAll(w)
           /\ \A i \in DOMAIN w : Rejection(w[i], l) = "no"
           /\ \A e \in DOMAIN l.entries : \E i \in DOMAIN w : w[i].id = l.entries[e].id
<1> DEFINE Rejected(d) == Rejection(d, l) # "no"
           Unseen(e) == \A i \in DOMAIN w : w[i].id # e.id
           NotLoadedAtAll == LoadPlugins(w, l).ran = {} /\ LoadPlugins(w, l).registered = {} /\ LoadPlugins(w, l).result # "ok"
<1>1. ~ NotLoadedAtAll
  OBVIOUS
<1>2. ~ l.malformed
  BY <1>1 DEF LoadPlugins, NotLoaded
<1>3. \A i \in DOMAIN w : ~ Rejected(w[i])
  <2> SUFFICES ASSUME \E i \in DOMAIN w : Rejected(w[i]) PROVE NotLoadedAtAll
    BY <1>1
  <2>1. LoadPlugins(w, l) = NotLoaded(Rejection(w[SelectInSeq(w, Rejected)], l))
    BY <1>2 DEF LoadPlugins
  <2>2. Rejection(w[SelectInSeq(w, Rejected)], l) # "ok"
    BY DEF Rejection
  <2> QED
    BY <2>1, <2>2 DEF NotLoaded
<1>4. \A e \in DOMAIN l.entries : ~ Unseen(l.entries[e])
  BY <1>1, <1>2, <1>3 DEF LoadPlugins, NotLoaded
<1>5. LoadPlugins(w, l) = ImportAll(w)
  BY <1>2, <1>3, <1>4 DEF LoadPlugins
<1> QED
  BY <1>3, <1>4, <1>5

LEMMA NotRejected ==
    ASSUME NEW d, NEW l, Rejection(d, l) = "no"
    PROVE  d.id # 0 /\ d.tree = "locked" /\ \E i \in DOMAIN l.entries : l.entries[i].id = d.id
  BY DEF Rejection

(* NothingRunsUnverified: no plugin's api.py runs and nothing is           *)
(* registered unless every directory found is as the lock has it and every *)
(* locked plugin was found, for any directories and any lock (loader.py,   *)
(* "verify-all-then-import-all").                                          *)
THEOREM OnlyVerifiedRun == Spec => []NothingRunsUnverified
<1>1. ASSUME Answered PROVE NothingRunsUnverified
  <2> SUFFICES ASSUME asked = "load" PROVE NothingRunsUnverified
    BY DEF NothingRunsUnverified
  <2> DEFINE w == question.walked
             l == question.lock
  <2>1. /\ w \in Seq(PluginDirs) /\ l \in [malformed : BOOLEAN, entries : Seq(LockEntries)]
        /\ answer = LoadPlugins(w, l)
    BY <1>1, QuestionsAssumption DEF Answered
  <2>2. ASSUME answer.ran # {} \/ answer.registered # {}
        PROVE  /\ \A i \in DOMAIN w : w[i].id # 0 /\ w[i].tree = "locked"
               /\ {w[i].id : i \in DOMAIN w} = {l.entries[i].id : i \in DOMAIN l.entries}
    <3> HIDE DEF w, l
    <3>1. /\ \A i \in DOMAIN w : Rejection(w[i], l) = "no"
          /\ \A e \in DOMAIN l.entries : \E i \in DOMAIN w : w[i].id = l.entries[e].id
      BY <2>1, <2>2, VerifiesAllFirst
    <3>2. \A i \in DOMAIN w : w[i].id # 0 /\ w[i].tree = "locked" /\ \E e \in DOMAIN l.entries : l.entries[e].id = w[i].id
      BY <3>1, NotRejected
    <3> QED
      BY <3>1, <3>2
  <2>3. ASSUME answer.result = "ok" PROVE answer.registered = {w[i].id : i \in DOMAIN w}
    <3> HIDE DEF w, l
    <3>1. answer = ImportAll(w)
      BY <2>1, <2>3, VerifiesAllFirst
    <3> QED
      BY <2>1, <2>3, <3>1, ImportsAll
  <2> QED
    BY <2>2, <2>3 DEF NothingRunsUnverified
<1> QED
  BY <1>1, AlwaysAnswered, PTL

-----------------------------------------------------------------------------
(* The npm recipe: what stands when it stops (engines/npm_lockfile.py).    *)

LEMMA LeastOf ==
    ASSUME NEW T, T \subseteq Nat, T # {}
    PROVE  Min(T) \in T /\ \A k \in T : Min(T) <= k
  BY SmallestNumber DEF Min

LEMMA FirstFaultIs ==
    ASSUME NEW order, DOMAIN order = 1 .. Len(order), Len(order) \in Nat, NEW faults \in SUBSET ToSet(order), "none" \notin ToSet(order)
    PROVE  /\ FirstFault(order, faults) = "none" => faults = {}
           /\ FirstFault(order, faults) # "none" =>
                \E i \in DOMAIN order : /\ FirstFault(order, faults) = order[i] /\ order[i] \in faults
                                        /\ \A j \in 1 .. i - 1 : order[j] \notin faults
<1> DEFINE I == {i \in 1 .. Len(order) : order[i] \in faults}
<1>1. CASE I = {}
  BY <1>1 DEF ToSet, FirstFault, SelectInSeq
<1>2. CASE I # {}
  <2>1. I \subseteq Nat
    OBVIOUS
  <2> DEFINE i == Min(I)
  <2>2. i \in I /\ \A j \in I : i <= j
    <3> HIDE DEF I
    <3> QED
      BY <1>2, <2>1, LeastOf
  <2>3. FirstFault(order, faults) = order[i]
    BY <1>2, <2>2 DEF FirstFault, SelectInSeq
  <2> HIDE DEF i
  <2> QED
    BY <2>2, <2>3 DEF ToSet
<1> QED
  BY <1>1, <1>2

LEMMA NpmLeavesWhole ==
    ASSUME NEW q \in NpmRuns
    PROVE  LET repo == q.repo  left == ApplyNpm(q.repo, q.jail) IN
           /\ left.registered => repo.lock = {} /\ q.jail = "exit_0" /\ left.edited # {}
           /\ left.edited # {} => repo.pjson = {} /\ repo.write = "ok"
           /\ left.ran => left.edited # {}
           /\ left.edited # {} => left.edited = EditDepVersion(repo.sections)
<1> DEFINE repo == q.repo
           pjson == FirstFault(PackageJsonFaults, repo.pjson)
           lock == FirstFault(PackageLockFaults, repo.lock)
           edited == EditDepVersion(repo.sections)
<1>1. pjson = "none" => repo.pjson = {}
  <2>1. DOMAIN PackageJsonFaults = 1 .. Len(PackageJsonFaults) /\ Len(PackageJsonFaults) \in Nat /\ "none" \notin ToSet(PackageJsonFaults) /\ repo.pjson \in SUBSET ToSet(PackageJsonFaults)
    <3>1. DOMAIN PackageJsonFaults = 1 .. 7 /\ Len(PackageJsonFaults) = 7 /\ \A i \in 1 .. 7 : PackageJsonFaults[i] # "none"
      BY DEF PackageJsonFaults
    <3> QED
      BY <3>1 DEF ToSet, NpmRuns
  <2> QED
    BY <2>1, FirstFaultIs
<1>2. lock = "none" => repo.lock = {}
  <2>1. DOMAIN PackageLockFaults = 1 .. Len(PackageLockFaults) /\ Len(PackageLockFaults) \in Nat /\ "none" \notin ToSet(PackageLockFaults) /\ repo.lock \in SUBSET ToSet(PackageLockFaults)
    <3>1. DOMAIN PackageLockFaults = 1 .. 7 /\ Len(PackageLockFaults) = 7 /\ \A i \in 1 .. 7 : PackageLockFaults[i] # "none"
      BY DEF PackageLockFaults
    <3> QED
      BY <3>1 DEF ToSet, NpmRuns
  <2> QED
    BY <2>1, FirstFaultIs
<1>3. repo.planned \in BOOLEAN /\ repo.write \in {"ok", "swapped", "refused"} /\ repo.again \in BOOLEAN
  BY DEF NpmRuns
<1> DEFINE left == ApplyNpm(repo, q.jail)
<1>6. \/ left.edited = {} /\ ~ left.ran /\ ~ left.registered
      \/ /\ left.edited = edited /\ edited # {} /\ pjson = "none" /\ repo.write = "ok"
         /\ left.registered => lock = "none" /\ q.jail = "exit_0"
  <2> HIDE DEF pjson, lock, edited
  <2>1. CASE \/ ~ repo.planned \/ pjson # "none" \/ edited = {} \/ repo.write # "ok"
    <3>1. \/ left = Left("failed", "package_not_in_dependencies", {}, FALSE)
          \/ left = Stopped(pjson, PackageJsonErrors, {}, FALSE)
          \/ left = Left("failed", "filesystem_race", {}, FALSE)
          \/ left = Left("raised", "os_error", {}, FALSE)
      BY <1>3, <2>1 DEF ApplyNpm, pjson, lock, edited
    <3> HIDE DEF left
    <3>2. CASE left = Stopped(pjson, PackageJsonErrors, {}, FALSE)
      BY <3>2 DEF Left, Stopped
    <3>3. CASE left = Left("failed", "package_not_in_dependencies", {}, FALSE)
      BY <3>3 DEF Left
    <3>4. CASE left = Left("failed", "filesystem_race", {}, FALSE)
      BY <3>4 DEF Left
    <3>5. CASE left = Left("raised", "os_error", {}, FALSE)
      BY <3>5 DEF Left
    <3> QED
      BY <3>1, <3>2, <3>3, <3>4, <3>5
  <2>2. CASE ~ (\/ ~ repo.planned \/ pjson # "none" \/ edited = {} \/ repo.write # "ok")
    <3>1. \/ left = Left("raised", "os_error", edited, FALSE)
          \/ left = Left("failed", InstallErrors[q.jail], edited, TRUE)
          \/ left = Stopped(lock, PackageLockErrors, edited, TRUE)
          \/ left = Left("raised", "transform_already_registered", edited, TRUE)
          \/ left = Left("applied", "", edited, TRUE) /\ lock = "none" /\ q.jail = "exit_0"
      BY <2>2 DEF ApplyNpm, pjson, lock, edited
    <3> HIDE DEF left
    <3>2. CASE left = Stopped(lock, PackageLockErrors, edited, TRUE)
      BY <2>2, <3>2 DEF Left, Stopped
    <3>3. CASE left = Left("failed", InstallErrors[q.jail], edited, TRUE)
      BY <2>2, <3>3 DEF Left
    <3>4. CASE left = Left("raised", "os_error", edited, FALSE)
      BY <2>2, <3>4 DEF Left
    <3>5. CASE left = Left("raised", "transform_already_registered", edited, TRUE)
      BY <2>2, <3>5 DEF Left
    <3>6. CASE left = Left("applied", "", edited, TRUE) /\ lock = "none" /\ q.jail = "exit_0"
      BY <2>2, <3>6 DEF Left
    <3> QED
      BY <3>1, <3>2, <3>3, <3>4, <3>5, <3>6
  <2> QED
    BY <2>1, <2>2
<1> HIDE DEF pjson, lock, edited, left
<1>7. /\ left.registered => repo.lock = {} /\ q.jail = "exit_0" /\ left.edited # {}
      /\ left.edited # {} => repo.pjson = {} /\ repo.write = "ok"
      /\ left.ran => left.edited # {}
      /\ left.edited # {} => left.edited = edited
  BY <1>1, <1>2, <1>6
<1> QED
  BY <1>7 DEF left, edited

LEMMA FirstSectionEdited ==
    ASSUME NEW sections \in SUBSET ToSet(DepSections), NEW s \in EditDepVersion(sections),
           NEW i \in DOMAIN DepSections, DepSections[i] \in sections
    PROVE  \E j \in 1 .. i : DepSections[j] = s
<1>1. DOMAIN DepSections = 1 .. 4 /\ Len(DepSections) = 4 /\ \A k \in 1 .. 4 : DepSections[k] # "none"
  BY DEF DepSections
<1>2. DOMAIN DepSections = 1 .. Len(DepSections) /\ Len(DepSections) \in Nat /\ "none" \notin ToSet(DepSections)
  BY <1>1 DEF ToSet
<1>3. s = FirstFault(DepSections, sections) /\ s # "none"
  BY DEF EditDepVersion
<1>4. PICK j \in DOMAIN DepSections : s = DepSections[j] /\ \A k \in 1 .. j - 1 : DepSections[k] \notin sections
  <2> HIDE DEF DepSections
  <2> QED
    BY <1>2, <1>3, FirstFaultIs
<1>5. j \in Nat /\ i \in Nat /\ 1 =< j /\ 1 =< i /\ i \notin 1 .. j - 1
  BY <1>1, <1>4
<1> QED
  BY <1>4, <1>5

(* AppliedIsWhole: a transform is registered only for a lockfile that npm  *)
(* wrote and the engine could read, of a package.json that was accepted    *)
(* and rewritten in the first section that has the package, for any faults *)
(* of the repository and any end of the jail (engines/npm_lockfile.py,     *)
(* NpmLockfileRecipeEngine.apply).                                         *)
THEOREM OnlyWholeApplied == Spec => []AppliedIsWhole
<1>1. ASSUME Answered PROVE AppliedIsWhole
  <2> SUFFICES ASSUME asked = "npm" PROVE AppliedIsWhole
    BY DEF AppliedIsWhole
  <2>1. question \in NpmRuns /\ answer = ApplyNpm(question.repo, question.jail)
    BY <1>1, QuestionsAssumption DEF Answered
  <2> DEFINE sections == question.repo.sections
  <2>2. /\ answer.registered => question.repo.lock = {} /\ question.jail = "exit_0" /\ answer.edited # {}
        /\ answer.edited # {} => question.repo.pjson = {} /\ question.repo.write = "ok"
        /\ answer.ran => answer.edited # {}
        /\ answer.edited # {} => answer.edited = EditDepVersion(sections)
    BY <2>1, NpmLeavesWhole
  <2>3. ASSUME NEW s \in EditDepVersion(sections), NEW i \in DOMAIN DepSections, DepSections[i] \in sections
        PROVE  \E j \in 1 .. i : DepSections[j] = s
    <3>1. sections \in SUBSET ToSet(DepSections)
      BY <2>1 DEF NpmRuns
    <3> HIDE DEF sections
    <3> QED
      BY <2>3, <3>1, FirstSectionEdited
  <2> HIDE DEF sections
  <2> QED
    BY <2>2, <2>3 DEF AppliedIsWhole, sections
<1> QED
  BY <1>1, AlwaysAnswered, PTL

-----------------------------------------------------------------------------
(* What an index that failed looks like (scip_index.py, index_health.py).  *)

LEMMA DemotedOfOne ==
    ASSUME NEW c PROVE DemoteMin({c}) = c
  BY DEF DemoteMin

LEMMA HealthOf ==
    /\ DeriveHealth(Stale("commits_behind", 1, 0)) = "medium"
    /\ \A n \in Int, all \in Int : DeriveHealth(Stale("coverage_gap", n, all)) \in {"medium", "low"}
    /\ DeriveHealth(Stale("indexer_error", 0, 0)) = "low"
    /\ DeriveHealth(Fresh) = "high"
    /\ \A reason, n, all : Stale(reason, n, all).kind = "stale" /\ Stale(reason, n, all).reason = reason
    /\ Fresh.kind = "fresh" /\ Fresh.reason = "none"
<1>1. DeriveHealth(Stale("commits_behind", 1, 0)) = "medium"
  BY DEF Stale, DeriveHealth
<1>2. \A n \in Int, all \in Int : DeriveHealth(Stale("coverage_gap", n, all)) \in {"medium", "low"}
  BY DEF Stale, DeriveHealth
<1>3. DeriveHealth(Stale("indexer_error", 0, 0)) = "low"
  BY DEF Stale, DeriveHealth
<1>4. DeriveHealth(Fresh) = "high"
  BY DEF Fresh, DeriveHealth
<1> QED
  BY <1>1, <1>2, <1>3, <1>4 DEF Stale, Fresh

LEMMA FailureIsShown ==
    ASSUME NEW r \in ScipRuns, IndexThenHealth(r).scip.slice.state # "unchanged", r.healthHead # "none"
    PROVE  LET health == IndexThenHealth(r).health
               f == health.freshness["scip"]
               whole == r.ended = "ok" /\ (r.summary < 0 \/ r.summary >= r.files)
           IN /\ f.kind = "fresh" => whole /\ r.head = r.healthHead
              /\ ~ whole => health.confidence # "high"
              /\ r.ended # "ok" /\ r.head = r.healthHead => health.confidence = "low"
<1> DEFINE failed == r.ended \in {"timeout", "missing", "nonzero"}
           slice == IF failed THEN FailureSlice(r) ELSE ScipSlice(r.head, ParseSummary(r), r.files, 0)
           file == [read |-> "ok", slice |-> slice]
           health == IndexThenHealth(r).health
           f == ScipFreshness(slice, r.healthHead)
           g == health.freshness["scip"]
           whole == r.ended = "ok" /\ (r.summary < 0 \/ r.summary >= r.files)
<1>1. /\ r.ended # "disallowed" /\ r.raw = "ok"
      /\ ScipIndex(r).slice = slice /\ slice.state = "read"
  <2>1. ScipIndex(r).slice.state # "unchanged"
    BY DEF IndexThenHealth
  <2>2. r.ended # "disallowed" /\ r.raw = "ok"
    BY <2>1 DEF ScipIndex, ScipTold, NoSlice, Escaped, ScipRuns
  <2> QED
    BY <2>2 DEF ScipIndex, ScipTold, ScipSlice, FailureSlice
<1> DEFINE sources == [s \in {"scip"} |-> [check |-> "scip", file |-> file]]
<1>2. health = IndexHealth(r.healthHead, r.behind, sources)
  BY <1>1 DEF IndexThenHealth
<1>3. Check(sources["scip"], r.healthHead) = f
  BY DEF Check, ReadRawSlice
<1> DEFINE counted == IF f.reason = "commits_behind" /\ r.behind # -1 THEN [f EXCEPT !.n = r.behind] ELSE f
<1>4. g = counted /\ health.confidence = DeriveHealth(g)
  <2> HIDE DEF f, file
  <2>1. DOMAIN sources = {"scip"}
    OBVIOUS
  <2> DEFINE checked == [s \in DOMAIN sources |-> Check(sources[s], r.healthHead)]
             results == [s \in DOMAIN sources |-> IF checked[s].reason = "commits_behind" /\ r.behind # -1
                                                 THEN [checked[s] EXCEPT !.n = r.behind] ELSE checked[s]]
  <2> HIDE DEF sources
  <2>2. checked["scip"] = f
    BY <1>3, <2>1
  <2>3. results["scip"] = counted
    BY <2>1, <2>2
  <2>4. health.freshness = results /\ health.confidence = DemoteMin({DeriveHealth(results[s]) : s \in DOMAIN sources})
    BY <1>2 DEF IndexHealth, HealthTold, Output
  <2>5. {DeriveHealth(results[s]) : s \in DOMAIN sources} = {DeriveHealth(results["scip"])}
    BY <2>1
  <2>6. g = results["scip"] /\ health.confidence = DemoteMin({DeriveHealth(results["scip"])})
    BY <2>4, <2>5
  <2> HIDE DEF health, g, counted, checked, results
  <2> QED
    BY <2>3, <2>6, DemotedOfOne
<1>5. \/ f = Stale("commits_behind", 1, 0) /\ slice.commit # r.healthHead
      \/ f = Stale("coverage_gap", slice.indexed, slice.files) /\ slice.indexed < slice.files /\ slice.commit = r.healthHead
      \/ f = Stale("indexer_error", 0, 0) /\ slice.errors > 0 /\ slice.commit = r.healthHead
      \/ f = Fresh /\ slice.commit = r.healthHead /\ ~ (slice.indexed < slice.files) /\ ~ (slice.errors > 0)
  <2> HIDE DEF slice
  <2> QED
    BY <1>1 DEF ScipFreshness
<1>6. \/ slice = [state |-> "read", commit |-> SafeIndexerHead(r.head), indexed |-> 0, files |-> 0, errors |-> 1] /\ failed
      \/ /\ slice = [state |-> "read", commit |-> SafeIndexerHead(r.head), indexed |-> ParseSummary(r), files |-> r.files, errors |-> 0]
         /\ r.ended = "ok"
  BY <1>1 DEF FailureSlice, ScipSlice, ScipRuns
<1>7. DeriveHealth(counted) = DeriveHealth(f) /\ counted.kind = f.kind
  <2> HIDE DEF slice
  <2> HIDE DEF f
  <2>1. CASE f = Stale("commits_behind", 1, 0)
    BY <2>1 DEF Stale, DeriveHealth
  <2>2. CASE f.reason # "commits_behind"
    BY <2>2
  <2> QED
    BY <1>5, <2>1, <2>2, HealthOf
<1>8. r.files \in Nat /\ r.summary \in Int /\ r.healthHead # "unknown"
      /\ r.ended \in {"ok", "timeout", "missing", "nonzero", "disallowed"}
  BY DEF ScipRuns
<1> HIDE DEF f, slice, g, health, counted
<1>9. CASE slice = [state |-> "read", commit |-> SafeIndexerHead(r.head), indexed |-> 0, files |-> 0, errors |-> 1] /\ failed
  <2>1. ~ whole /\ slice.indexed = 0 /\ slice.files = 0 /\ slice.errors = 1 /\ (r.head = r.healthHead => slice.commit = r.healthHead)
    BY <1>8, <1>9 DEF SafeIndexerHead
  <2> DEFINE shown == f.kind = "stale" /\ DeriveHealth(f) # "high" /\ (r.head = r.healthHead => DeriveHealth(f) = "low")
  <2>2. ASSUME f = Stale("commits_behind", 1, 0), slice.commit # r.healthHead PROVE shown
    BY <2>1, <2>2, HealthOf
  <2>3. ASSUME f = Stale("indexer_error", 0, 0) PROVE shown
    BY <2>3, HealthOf
  <2>4. shown
    BY <1>5, <1>8, <2>1, <2>2, <2>3
  <2>5. g.kind = f.kind /\ health.confidence = DeriveHealth(f)
    BY <1>4, <1>7
  <2> QED
    BY <2>1, <2>4, <2>5 DEF g, health
<1>10. CASE /\ slice = [state |-> "read", commit |-> SafeIndexerHead(r.head), indexed |-> ParseSummary(r), files |-> r.files, errors |-> 0]
            /\ r.ended = "ok"
  <2>1. (slice.indexed < slice.files <=> ~ whole) /\ slice.errors = 0 /\ (slice.commit = r.healthHead => r.head = r.healthHead)
    BY <1>8, <1>10 DEF SafeIndexerHead, ParseSummary
  <2> DEFINE told == (f.kind = "fresh" => whole /\ r.head = r.healthHead) /\ (~ whole => DeriveHealth(f) # "high")
  <2>2. ASSUME f = Stale("commits_behind", 1, 0) PROVE told
    BY <2>2, HealthOf
  <2>3. ASSUME f = Stale("coverage_gap", slice.indexed, slice.files) PROVE told
    <3>1. slice.indexed \in Int /\ slice.files \in Int
      BY <1>8, <1>10 DEF ParseSummary
    <3> QED
      BY <2>3, <3>1, HealthOf
  <2>4. ASSUME f = Fresh, slice.commit = r.healthHead, ~ (slice.indexed < slice.files) PROVE told
    BY <2>1, <2>4, HealthOf
  <2>5. told
    BY <1>5, <2>1, <2>2, <2>3, <2>4
  <2>6. g.kind = f.kind /\ health.confidence = DeriveHealth(f)
    BY <1>4, <1>7
  <2> QED
    BY <1>10, <2>5, <2>6 DEF g, health
<1> QED
  BY <1>6, <1>9, <1>10

(* IndexFailureShown: an index that could not be made, or was made of      *)
(* fewer files than there are, is never called fresh or healthy by the     *)
(* index_health of the same gather, for any counts and any commits         *)
(* (scip_index.py, _emit_failure_slice; index_health.py, scip_freshness).  *)
THEOREM FailuresAreShown == Spec => []IndexFailureShown
<1>1. ASSUME Answered PROVE IndexFailureShown
  <2> SUFFICES ASSUME asked = "scip", answer.scip.slice.state # "unchanged", question.healthHead # "none"
               PROVE  IndexFailureShown
    BY DEF IndexFailureShown
  <2>1. question \in ScipRuns /\ answer = IndexThenHealth(question)
    BY <1>1, QuestionsAssumption DEF Answered
  <2> QED
    BY <2>1, FailureIsShown DEF IndexFailureShown
<1> QED
  BY <1>1, AlwaysAnswered, PTL

-----------------------------------------------------------------------------
(* Heads of the checkpoint stores (InMemoryCheckpointStore.append and      *)
(* SqliteCheckpointStore.append).                                          *)

StoredRows == [head : Seq(StoredEvents), stored : StoredEvents]

(* Every head is the sequence of the events that are stored up to there.   *)
Foldable(rows) == \A k \in DOMAIN rows : rows[k].head = [j \in 1 .. k |-> rows[j].stored]

LEMMA RowKeepsFoldable ==
    ASSUME NEW rows \in Seq(StoredRows), Foldable(rows), NEW e \in StoredEvents
    PROVE  /\ RowOf(rows, e) \in StoredRows
           /\ Foldable(Append(rows, RowOf(rows, e)))
<1> DEFINE row == RowOf(rows, e)
           after == Append(rows, row)
           n == Len(rows)
<1>1. Sanitize(e) \in StoredEvents
  BY DEF Sanitize, StoredEvents
<1>2. n \in Nat /\ DOMAIN rows = 1 .. n /\ \A k \in 1 .. n : rows[k] \in StoredRows
  BY ElementOfSeq
<1>3. TailHead(rows) \in Seq(StoredEvents) /\ TailHead(rows) = [j \in 1 .. n |-> rows[j].stored]
  <2>1. CASE n = 0
    BY <1>2, <2>1 DEF TailHead
  <2>2. CASE n # 0
    <3>1. TailHead(rows) = rows[n].head /\ n \in DOMAIN rows
      BY <1>2, <2>2 DEF TailHead, Last
    <3> QED
      BY <1>2, <3>1 DEF Foldable, StoredRows
  <2> QED
    BY <2>1, <2>2
<1>4. row.head = Append(TailHead(rows), Sanitize(e)) /\ row.stored = Sanitize(e) /\ row \in StoredRows
  BY <1>1, <1>3 DEF RowOf, StoredRows
<1>5. /\ DOMAIN after = 1 .. n + 1 /\ after[n + 1] = row
      /\ \A k \in 1 .. n : after[k] = rows[k]
  <2> HIDE DEF row
  <2> QED
    BY <1>2, <1>4, AppendProperties
<1>6. row.head = [j \in 1 .. n + 1 |-> after[j].stored]
  <2>1. Len(TailHead(rows)) = n
    BY <1>2, <1>3
  <2>2. /\ DOMAIN row.head = 1 .. n + 1 /\ row.head[n + 1] = Sanitize(e)
        /\ \A k \in 1 .. n : row.head[k] = TailHead(rows)[k]
        /\ row.head \in Seq(StoredEvents)
    <3> HIDE DEF row
    <3> QED
      BY <1>1, <1>2, <1>3, <1>4, <2>1, AppendProperties
  <2> HIDE DEF row, after
  <2>3. \A j \in 1 .. n + 1 : row.head[j] = after[j].stored
    BY <1>2, <1>3, <1>4, <1>5, <2>2
  <2>4. row.head = [j \in 1 .. n + 1 |-> row.head[j]]
    BY <2>2
  <2> QED
    BY <2>3, <2>4
<1> HIDE DEF row, after
<1>7. ASSUME NEW k \in 1 .. n PROVE after[k].head = [j \in 1 .. k |-> after[j].stored]
  <2>1. after[k].head = [j \in 1 .. k |-> rows[j].stored]
    BY <1>2, <1>5 DEF Foldable
  <2>2. \A j \in 1 .. k : after[j] = rows[j]
    BY <1>2, <1>5
  <2> QED
    BY <2>1, <2>2
<1>8. Foldable(after)
  <2> SUFFICES ASSUME NEW k \in 1 .. n + 1 PROVE after[k].head = [j \in 1 .. k |-> after[j].stored]
    BY <1>5 DEF Foldable
  <2>1. CASE k = n + 1
    BY <1>5, <1>6, <2>1
  <2>2. CASE k \in 1 .. n
    BY <1>7, <2>2
  <2> QED
    BY <1>2, <2>1, <2>2
<1> QED
  BY <1>4, <1>8 DEF row, after

LEMMA RowIsTyped ==
    ASSUME NEW rows \in Seq(StoredRows), NEW e \in StoredEvents
    PROVE  RowOf(rows, e) \in StoredRows /\ Append(rows, RowOf(rows, e)) \in Seq(StoredRows)
<1>1. Sanitize(e) \in StoredEvents
  BY DEF Sanitize, StoredEvents
<1>2. TailHead(rows) \in Seq(StoredEvents)
  <2>1. CASE rows = <<>>
    BY <2>1 DEF TailHead
  <2>2. CASE rows # <<>>
    <3>1. Len(rows) \in DOMAIN rows /\ rows[Len(rows)] \in StoredRows
      BY <2>2, EmptySeq, ElementOfSeq
    <3> QED
      BY <2>2, <3>1 DEF TailHead, Last, StoredRows
  <2> QED
    BY <2>1, <2>2
<1>3. RowOf(rows, e) \in StoredRows
  BY <1>1, <1>2 DEF RowOf, StoredRows
<1> QED
  BY <1>3

MemoryGot(events) ==
    CHOOSE got : got = [k \in 0 .. Len(events) |->
        IF k = 0 THEN [rows |-> <<>>, says |-> <<>>]
        ELSE LET before == got[k - 1]
                 now == MemoryAppend(before.rows, events[k])
             IN [rows |-> now.rows, says |-> Append(before.says, now.says)]]

LEMMA MemoryGotIs ==
    ASSUME NEW events \in Seq(StoredEvents)
    PROVE  /\ MemoryAppends(events) = MemoryGot(events)[Len(events)]
           /\ MemoryGot(events)[0].rows = <<>>
           /\ \A k \in 1 .. Len(events) :
                MemoryGot(events)[k].rows = MemoryAppend(MemoryGot(events)[k - 1].rows, events[k]).rows
<1> DEFINE N == Len(events)
           base == [rows |-> <<>>, says |-> <<>>]
           V == [rows : Seq(StoredRows), says : Seq({"none", "not_a_boundary", "payload_too_large", "validation_error", "integrity_error"})]
           Next1(v, e) == [rows |-> MemoryAppend(v.rows, e).rows, says |-> Append(v.says, MemoryAppend(v.rows, e).says)]
           step == [x \in (1 .. N) \X V |-> Next1(x[2], events[x[1]])]
<1>1. N \in Nat /\ \A k \in 1 .. N : events[k] \in StoredEvents
  BY ElementOfSeq
<1>2. ASSUME NEW v \in V, NEW e \in StoredEvents PROVE Next1(v, e) \in V
  <2>1. v.rows \in Seq(StoredRows) /\ v.says \in Seq({"none", "not_a_boundary", "payload_too_large", "validation_error", "integrity_error"})
    OBVIOUS
  <2>2. /\ MemoryAppend(v.rows, e).rows \in Seq(StoredRows)
        /\ MemoryAppend(v.rows, e).says \in {"none", "not_a_boundary", "payload_too_large", "validation_error", "integrity_error"}
    BY <2>1, RowIsTyped DEF MemoryAppend, AppendTo, AppendRefusal
  <2> HIDE DEF V
  <2> QED
    BY <2>1, <2>2 DEF V
<1>3. step \in [(1 .. N) \X V -> V]
  <2> HIDE DEF V, Next1
  <2> QED
    BY <1>1, <1>2
<1>4. base \in V
  OBVIOUS
<1>5. PICK f : Steps(N, V, base, step, f)
  <2> HIDE DEF V, Next1, step, base
  <2> QED
    BY <1>1, <1>3, <1>4, StepsExist
<1>6. f = [k \in 0 .. N |-> IF k = 0 THEN base ELSE Next1(f[k - 1], events[k])]
  <2> HIDE DEF V, base
  <2>1. ASSUME NEW k \in 1 .. N PROVE f[k] = Next1(f[k - 1], events[k])
    <3> HIDE DEF Next1
    <3>0. N \in Nat /\ Steps(N, V, base, step, f)
      BY <1>1, <1>5
    <3>1. k - 1 \in 0 .. N /\ f[k - 1] \in V /\ f[k] = step[<<k, f[k - 1]>>]
      <4> HIDE DEF step, N
      <4>1. k - 1 \in 0 .. N
        BY <3>0
      <4> QED
        BY <3>0, <4>1 DEF Steps
    <3>2. step[<<k, f[k - 1]>>] = Next1(f[k - 1], events[k])
      <4> HIDE DEF N
      <4> QED
        BY <3>1
    <3> HIDE DEF step
    <3> QED
      BY <3>1, <3>2
  <2> HIDE DEF Next1
  <2> QED
    BY <1>1, <1>5, <2>1 DEF Steps
<1> HIDE DEF V, step
<1> DEFINE got == MemoryGot(events)
<1>7. got = [k \in 0 .. N |-> IF k = 0 THEN base ELSE Next1(got[k - 1], events[k])]
  BY <1>6 DEF MemoryGot
<1>8. MemoryAppends(events) = got[N]
  BY DEF MemoryGot, MemoryAppends, AppendAll
<1> HIDE DEF got
<1>9. /\ got[0] = base
      /\ \A k \in 1 .. N : got[k] = Next1(got[k - 1], events[k])
  <2> HIDE DEF base, Next1
  <2> QED
    BY <1>1, <1>7
<1>10. got[0].rows = <<>>
  BY <1>9
<1>11. ASSUME NEW k \in 1 .. N PROVE got[k].rows = MemoryAppend(got[k - 1].rows, events[k]).rows
  <2>1. got[k] = Next1(got[k - 1], events[k])
    <3> HIDE DEF Next1
    <3> QED
      BY <1>9
  <2> QED
    BY <2>1
<1> QED
  BY <1>8, <1>10, <1>11 DEF got

LEMMA MemoryFoldable ==
    ASSUME NEW events \in Seq(StoredEvents)
    PROVE  LET rows == MemoryAppends(events).rows IN rows \in Seq(StoredRows) /\ Foldable(rows)
<1> DEFINE N == Len(events)
           got == MemoryGot(events)
           kept == {r \in Seq(StoredRows) : Foldable(r)}
<1>1. N \in Nat /\ \A k \in 1 .. N : events[k] \in StoredEvents
  BY ElementOfSeq
<1>2. /\ got[0].rows = <<>>
      /\ \A k \in 1 .. N : got[k].rows = MemoryAppend(got[k - 1].rows, events[k]).rows
  BY <1>1, MemoryGotIs
<1>3. <<>> \in kept
  BY DEF Foldable
<1>4. ASSUME NEW r \in kept, NEW e \in StoredEvents PROVE MemoryAppend(r, e).rows \in kept
  <2>1. MemoryAppend(r, e).rows \in {r, Append(r, RowOf(r, e))}
    BY DEF MemoryAppend, AppendTo
  <2> QED
    BY <2>1, RowKeepsFoldable, RowIsTyped
<1> DEFINE F == [k \in 0 .. N |-> got[k].rows]
<1>5. F[0] \in kept /\ \A k \in 1 .. N : F[k - 1] \in kept => F[k] \in kept
  <2>1. ASSUME NEW k \in 1 .. N, F[k - 1] \in kept PROVE F[k] \in kept
    <3>1. k \in 0 .. N /\ k - 1 \in 0 .. N /\ F[k] = got[k].rows /\ F[k - 1] = got[k - 1].rows
      BY <1>1
    <3> HIDE DEF F, kept
    <3> QED
      BY <1>1, <1>2, <1>4, <2>1, <3>1
  <2>2. F[0] = got[0].rows
    BY <1>1
  <2> HIDE DEF F, kept
  <2> QED
    BY <1>2, <1>3, <2>1, <2>2
<1>6. F[N] \in kept
  <2> HIDE DEF F, kept, N
  <2> DEFINE S == {n \in 0 .. N : F[n] \in kept}
  <2>1. 0 \in S /\ \A n \in 1 .. N : n - 1 \in S => n \in S
    BY <1>1, <1>5
  <2>2. 0 .. N \subseteq S
    <3> HIDE DEF S
    <3> QED
      BY <1>1, <2>1, NumbersUpTo
  <2> QED
    BY <1>1, <2>2
<1>7. MemoryAppends(events).rows = F[N]
  <2>1. N \in 0 .. N
    BY <1>1
  <2> QED
    BY <2>1, MemoryGotIs
<1> QED
  BY <1>6, <1>7

SqliteGot(events) ==
    CHOOSE got : got = [k \in 0 .. Len(events) |->
        IF k = 0 THEN [rows |-> <<>>, says |-> <<>>]
        ELSE LET before == got[k - 1]
                 now == SqliteAppend(before.rows, events[k])
             IN [rows |-> now.rows, says |-> Append(before.says, now.says)]]

LEMMA SqliteGotIs ==
    ASSUME NEW events \in Seq(StoredEvents)
    PROVE  /\ SqliteAppends(events) = SqliteGot(events)[Len(events)]
           /\ SqliteGot(events)[0].rows = <<>>
           /\ \A k \in 1 .. Len(events) :
                SqliteGot(events)[k].rows = SqliteAppend(SqliteGot(events)[k - 1].rows, events[k]).rows
<1> DEFINE N == Len(events)
           base == [rows |-> <<>>, says |-> <<>>]
           V == [rows : Seq(StoredRows), says : Seq({"none", "not_a_boundary", "payload_too_large", "validation_error", "integrity_error"})]
           Next1(v, e) == [rows |-> SqliteAppend(v.rows, e).rows, says |-> Append(v.says, SqliteAppend(v.rows, e).says)]
           step == [x \in (1 .. N) \X V |-> Next1(x[2], events[x[1]])]
<1>1. N \in Nat /\ \A k \in 1 .. N : events[k] \in StoredEvents
  BY ElementOfSeq
<1>2. ASSUME NEW v \in V, NEW e \in StoredEvents PROVE Next1(v, e) \in V
  <2>1. v.rows \in Seq(StoredRows) /\ v.says \in Seq({"none", "not_a_boundary", "payload_too_large", "validation_error", "integrity_error"})
    OBVIOUS
  <2>2. /\ SqliteAppend(v.rows, e).rows \in Seq(StoredRows)
        /\ SqliteAppend(v.rows, e).says \in {"none", "not_a_boundary", "payload_too_large", "validation_error", "integrity_error"}
    BY <2>1, RowIsTyped DEF SqliteAppend, AppendTo, AppendRefusal
  <2> HIDE DEF V
  <2> QED
    BY <2>1, <2>2 DEF V
<1>3. step \in [(1 .. N) \X V -> V]
  <2> HIDE DEF V, Next1
  <2> QED
    BY <1>1, <1>2
<1>4. base \in V
  OBVIOUS
<1>5. PICK f : Steps(N, V, base, step, f)
  <2> HIDE DEF V, Next1, step, base
  <2> QED
    BY <1>1, <1>3, <1>4, StepsExist
<1>6. f = [k \in 0 .. N |-> IF k = 0 THEN base ELSE Next1(f[k - 1], events[k])]
  <2> HIDE DEF V, base
  <2>1. ASSUME NEW k \in 1 .. N PROVE f[k] = Next1(f[k - 1], events[k])
    <3> HIDE DEF Next1
    <3>0. N \in Nat /\ Steps(N, V, base, step, f)
      BY <1>1, <1>5
    <3>1. k - 1 \in 0 .. N /\ f[k - 1] \in V /\ f[k] = step[<<k, f[k - 1]>>]
      <4> HIDE DEF step, N
      <4>1. k - 1 \in 0 .. N
        BY <3>0
      <4> QED
        BY <3>0, <4>1 DEF Steps
    <3>2. step[<<k, f[k - 1]>>] = Next1(f[k - 1], events[k])
      <4> HIDE DEF N
      <4> QED
        BY <3>1
    <3> HIDE DEF step
    <3> QED
      BY <3>1, <3>2
  <2> HIDE DEF Next1
  <2> QED
    BY <1>1, <1>5, <2>1 DEF Steps
<1> HIDE DEF V, step
<1> DEFINE got == SqliteGot(events)
<1>7. got = [k \in 0 .. N |-> IF k = 0 THEN base ELSE Next1(got[k - 1], events[k])]
  BY <1>6 DEF SqliteGot
<1>8. SqliteAppends(events) = got[N]
  BY DEF SqliteGot, SqliteAppends, AppendAll
<1> HIDE DEF got
<1>9. /\ got[0] = base
      /\ \A k \in 1 .. N : got[k] = Next1(got[k - 1], events[k])
  <2> HIDE DEF base, Next1
  <2> QED
    BY <1>1, <1>7
<1>10. got[0].rows = <<>>
  BY <1>9
<1>11. ASSUME NEW k \in 1 .. N PROVE got[k].rows = SqliteAppend(got[k - 1].rows, events[k]).rows
  <2>1. got[k] = Next1(got[k - 1], events[k])
    <3> HIDE DEF Next1
    <3> QED
      BY <1>9
  <2> QED
    BY <2>1
<1> QED
  BY <1>8, <1>10, <1>11 DEF got

LEMMA SqliteFoldable ==
    ASSUME NEW events \in Seq(StoredEvents)
    PROVE  LET rows == SqliteAppends(events).rows IN rows \in Seq(StoredRows) /\ Foldable(rows)
<1> DEFINE N == Len(events)
           got == SqliteGot(events)
           kept == {r \in Seq(StoredRows) : Foldable(r)}
<1>1. N \in Nat /\ \A k \in 1 .. N : events[k] \in StoredEvents
  BY ElementOfSeq
<1>2. /\ got[0].rows = <<>>
      /\ \A k \in 1 .. N : got[k].rows = SqliteAppend(got[k - 1].rows, events[k]).rows
  BY <1>1, SqliteGotIs
<1>3. <<>> \in kept
  BY DEF Foldable
<1>4. ASSUME NEW r \in kept, NEW e \in StoredEvents PROVE SqliteAppend(r, e).rows \in kept
  <2>1. SqliteAppend(r, e).rows \in {r, Append(r, RowOf(r, e))}
    BY DEF SqliteAppend, AppendTo
  <2> QED
    BY <2>1, RowKeepsFoldable, RowIsTyped
<1> DEFINE F == [k \in 0 .. N |-> got[k].rows]
<1>5. F[0] \in kept /\ \A k \in 1 .. N : F[k - 1] \in kept => F[k] \in kept
  <2>1. ASSUME NEW k \in 1 .. N, F[k - 1] \in kept PROVE F[k] \in kept
    <3>1. k \in 0 .. N /\ k - 1 \in 0 .. N /\ F[k] = got[k].rows /\ F[k - 1] = got[k - 1].rows
      BY <1>1
    <3> HIDE DEF F, kept
    <3> QED
      BY <1>1, <1>2, <1>4, <2>1, <3>1
  <2>2. F[0] = got[0].rows
    BY <1>1
  <2> HIDE DEF F, kept
  <2> QED
    BY <1>2, <1>3, <2>1, <2>2
<1>6. F[N] \in kept
  <2> HIDE DEF F, kept, N
  <2> DEFINE S == {n \in 0 .. N : F[n] \in kept}
  <2>1. 0 \in S /\ \A n \in 1 .. N : n - 1 \in S => n \in S
    BY <1>1, <1>5
  <2>2. 0 .. N \subseteq S
    <3> HIDE DEF S
    <3> QED
      BY <1>1, <2>1, NumbersUpTo
  <2> QED
    BY <1>1, <2>2
<1>7. SqliteAppends(events).rows = F[N]
  <2>1. N \in 0 .. N
    BY <1>1
  <2> QED
    BY <2>1, SqliteGotIs
<1> QED
  BY <1>6, <1>7

LEMMA FoldableReproduces ==
    ASSUME NEW rows \in Seq(StoredRows), Foldable(rows)
    PROVE  \A k \in DOMAIN rows : rows[k].head = SubSeq(ReadAll(rows), 1, k)
<1> SUFFICES ASSUME NEW k \in DOMAIN rows PROVE rows[k].head = SubSeq(ReadAll(rows), 1, k)
  OBVIOUS
<1>1. k \in Nat /\ DOMAIN rows = 1 .. Len(rows) /\ rows[k].head = [j \in 1 .. k |-> rows[j].stored]
  BY DEF Foldable
<1>2. \A j \in 1 .. k : ReadAll(rows)[j] \in StoredEvents /\ ReadAll(rows)[j] = rows[j].stored
  <2>1. ASSUME NEW j \in 1 .. k PROVE j \in DOMAIN rows /\ rows[j] \in StoredRows
    BY <1>1, ElementOfSeq
  <2> QED
    BY <2>1 DEF ReadAll, StoredRows
<1> DEFINE sub == SubSeq(ReadAll(rows), 1, k)
<1>3. /\ sub \in Seq(StoredEvents) /\ Len(sub) = k
      /\ \A j \in 1 .. k : sub[j] = ReadAll(rows)[j]
  <2>1. 1 \in Int /\ k \in Int /\ \A i \in 1 .. k : ReadAll(rows)[i] \in StoredEvents
    BY <1>1, <1>2
  <2>2. /\ sub \in Seq(StoredEvents) /\ Len(sub) = IF 1 <= k THEN k - 1 + 1 ELSE 0
        /\ \A i \in 1 .. k - 1 + 1 : sub[i] = ReadAll(rows)[1 + i - 1]
    <3> HIDE DEF sub
    <3> QED
      BY <2>1, SubSeqProperties DEF sub
  <2>3. 1 <= k /\ k - 1 + 1 = k /\ \A i \in 1 .. k : 1 + i - 1 = i
    BY <1>1
  <2> HIDE DEF sub
  <2> QED
    BY <2>2, <2>3
<1> HIDE DEF sub
<1>4. sub = [j \in 1 .. k |-> sub[j]]
  BY <1>3
<1> QED
  BY <1>1, <1>2, <1>3, <1>4 DEF sub

(* HeadsReproduced: from what either store gives back of a workflow the    *)
(* heads can be folded again, whatever was refused, retried or had a       *)
(* secret taken out of it (append).                                        *)
THEOREM HeadsAreReproduced == Spec => []HeadsReproduced
<1>1. ASSUME Answered PROVE HeadsReproduced
  <2> SUFFICES ASSUME asked = "append" PROVE HeadsReproduced
    BY DEF HeadsReproduced
  <2>1. question \in Seq(StoredEvents) /\ answer = [memory |-> MemoryAppends(question), sqlite |-> SqliteAppends(question)]
    BY <1>1, QuestionsAssumption DEF Answered
  <2>2. answer.memory.rows \in Seq(StoredRows) /\ Foldable(answer.memory.rows)
    BY <2>1, MemoryFoldable
  <2>3. answer.sqlite.rows \in Seq(StoredRows) /\ Foldable(answer.sqlite.rows)
    BY <2>1, SqliteFoldable
  <2> QED
    BY <2>2, <2>3, FoldableReproduces DEF HeadsReproduced
<1> QED
  BY <1>1, AlwaysAnswered, PTL

-----------------------------------------------------------------------------
(* The members of a sequence at some of its positions.                     *)

PickedBody(s, I, f) ==
    [i \in 0 .. Len(s) |-> IF i = 0 THEN <<>> ELSE IF i \in I THEN Append(f[i - 1], s[i]) ELSE f[i - 1]]
PickedFun(s, I) == CHOOSE f : f = PickedBody(s, I, f)

LEMMA PickedIsFun == ASSUME NEW s, NEW I PROVE Picked(s, I) = PickedFun(s, I)[Len(s)]
  BY DEF Picked, PickedFun, PickedBody

LEMMA PickedFunIs ==
    ASSUME NEW T, NEW s \in Seq(T), NEW I
    PROVE  PickedFun(s, I) = PickedBody(s, I, PickedFun(s, I))
<1> DEFINE N == Len(s)
           V == Seq(T)
           step == [x \in (1 .. N) \X V |-> IF x[1] \in I THEN Append(x[2], s[x[1]]) ELSE x[2]]
<1>1. N \in Nat /\ \A n \in 1 .. N : s[n] \in T
  BY ElementOfSeq
<1>2. step \in [(1 .. N) \X V -> V]
  BY <1>1
<1>3. <<>> \in V
  OBVIOUS
<1>4. PICK f : Steps(N, V, <<>>, step, f)
  <2> HIDE DEF V, step
  <2> QED
    BY <1>1, <1>2, <1>3, StepsExist
<1>5. ASSUME NEW n \in 1 .. N PROVE f[n] = IF n \in I THEN Append(f[n - 1], s[n]) ELSE f[n - 1]
  <2>1. n - 1 \in 0 .. N /\ f[n - 1] \in V /\ f[n] = step[<<n, f[n - 1]>>]
    <3> HIDE DEF step, V
    <3> QED
      BY <1>1, <1>4 DEF Steps
  <2> QED
    BY <2>1
<1>6. f = PickedBody(s, I, f)
  <2>1. f[0] = <<>> /\ f = [n \in 0 .. N |-> f[n]]
    <3> HIDE DEF step, V
    <3> QED
      BY <1>1, <1>4 DEF Steps
  <2>2. \A n \in 0 .. N : f[n] = IF n = 0 THEN <<>> ELSE IF n \in I THEN Append(f[n - 1], s[n]) ELSE f[n - 1]
    BY <1>1, <1>5, <2>1
  <2> HIDE DEF step, V
  <2> QED
    BY <2>1, <2>2 DEF PickedBody
<1> QED
  BY <1>6 DEF PickedFun

LEMMA PickedProperties ==
    ASSUME NEW T, NEW s \in Seq(T), NEW I, I \subseteq DOMAIN s
    PROVE  Picked(s, I) \in Seq(T) /\ ToSet(Picked(s, I)) = {s[i] : i \in I}
<1> DEFINE N == Len(s)
           f == PickedFun(s, I)
           Upto(n) == f[n] \in Seq(T) /\ ToSet(f[n]) = {s[i] : i \in {j \in I : j =< n}}
           S == {n \in 0 .. N : Upto(n)}
<1>1. N \in Nat /\ DOMAIN s = 1 .. N /\ \A n \in 1 .. N : s[n] \in T
  BY ElementOfSeq
<1>2. f = PickedBody(s, I, f)
  BY PickedFunIs
<1> HIDE DEF f
<1>3. f[0] = <<>> /\ \A n \in 1 .. N : f[n] = IF n \in I THEN Append(f[n - 1], s[n]) ELSE f[n - 1]
  <2>1. \A n \in 0 .. N : f[n] = IF n = 0 THEN <<>> ELSE IF n \in I THEN Append(f[n - 1], s[n]) ELSE f[n - 1]
    BY <1>2 DEF PickedBody
  <2> QED
    BY <1>1, <2>1
<1>4. Upto(0)
  <2>1. {j \in I : j =< 0} = {}
    BY <1>1
  <2>2. ToSet(<<>>) = {}
    BY DEF ToSet
  <2> QED
    BY <1>3, <2>1, <2>2
<1>5. ASSUME NEW n \in 1 .. N, Upto(n - 1) PROVE Upto(n)
  <2>1. CASE n \in I
    <3>1. f[n] = Append(f[n - 1], s[n]) /\ s[n] \in T
      BY <1>1, <1>3, <2>1
    <3>2. ToSet(f[n]) = ToSet(f[n - 1]) \cup {s[n]}
      BY <1>5, <3>1, AppendRange
    <3>3. {j \in I : j =< n} = {j \in I : j =< n - 1} \cup {n}
      BY <1>1, <2>1
    <3> QED
      BY <1>5, <3>1, <3>2, <3>3
  <2>2. CASE n \notin I
    <3>1. {j \in I : j =< n} = {j \in I : j =< n - 1}
      BY <1>1, <2>2
    <3> QED
      BY <1>3, <1>5, <2>2, <3>1
  <2> QED
    BY <2>1, <2>2
<1>6. 0 \in S /\ \A n \in 1 .. N : n - 1 \in S => n \in S
  <2> HIDE DEF Upto
  <2> QED
    BY <1>1, <1>4, <1>5
<1>7. 0 .. N \subseteq S
  <2> HIDE DEF S, N
  <2> QED
    BY <1>1, <1>6, NumbersUpTo
<1>8. Upto(N)
  <2> HIDE DEF Upto
  <2> QED
    BY <1>1, <1>7
<1>9. {j \in I : j =< N} = I
  BY <1>1
<1> QED
  BY <1>8, <1>9, PickedIsFun DEF f

-----------------------------------------------------------------------------
(* Batches of embeddings (rag/embedding_cache.py).                         *)

LEMMA EmbedsEach ==
    ASSUME NEW Texts, NEW texts \in Seq(Texts), NEW table, ToSet(texts) \subseteq DOMAIN table, NEW short \in BOOLEAN,
           EmbedBatch(texts, table, short).kind = "ok"
    PROVE  /\ EmbedBatch(texts, table, short).vectors = texts
           /\ \A t \in ToSet(texts) : EmbedBatch(texts, table, short).table[t] = "good"
<1> DEFINE missing == Missing(texts, table)
           First(i) == \A j \in 1 .. i - 1 : texts[j] # texts[i]
           I == {i \in DOMAIN texts : First(i) /\ table[texts[i]] # "good"}
           looked == LookupAll(texts, table)
           done == EmbedBatch(texts, table, short)
<1>1. Len(texts) \in Nat /\ DOMAIN texts = 1 .. Len(texts) /\ \A i \in DOMAIN texts : texts[i] \in Texts
  BY ElementOfSeq
<1>2. missing \in Seq(Texts) /\ ToSet(missing) = {texts[i] : i \in I}
  <2>1. missing = Picked(texts, I)
    BY DEF Missing
  <2> HIDE DEF missing
  <2>2. I \subseteq DOMAIN texts
    OBVIOUS
  <2> HIDE DEF I
  <2> QED
    BY <2>1, <2>2, PickedProperties
<1>3. ASSUME NEW t \in ToSet(texts), table[t] # "good" PROVE t \in ToSet(missing)
  <2> DEFINE K == {i \in DOMAIN texts : texts[i] = t}
  <2>1. K \subseteq Nat /\ K # {}
    BY <1>1, <1>3 DEF ToSet
  <2>2. PICK i \in K : \A j \in K : i =< j
    <3> HIDE DEF K
    <3> QED
      BY <2>1, SmallestNumber
  <2>3. First(i)
    BY <1>1, <2>2
  <2>4. i \in I /\ texts[i] = t
    BY <1>3, <2>2, <2>3
  <2> QED
    BY <1>2, <2>4
<1> DEFINE Has(t) == Contains(missing, t)
           fresh == [i \in DOMAIN missing |-> missing[i]]
           VectorOf(t) == IF Has(t) THEN fresh[CHOOSE i \in DOMAIN missing : missing[i] = t] ELSE t
<1>4. \A t : Has(t) <=> t \in ToSet(missing)
  <2> HIDE DEF missing
  <2>1. DOMAIN missing = 1 .. Len(missing)
    BY <1>2
  <2> QED
    BY <2>1 DEF Contains, ToSet
<1>5. /\ done.vectors = [i \in DOMAIN texts |-> VectorOf(texts[i])]
      /\ done.table = [t \in DOMAIN table |-> IF Has(t) THEN "good" ELSE looked[t]]
  <2> HIDE DEF missing, looked
  <2> QED
    BY DEF EmbedBatch, missing, looked
<1> HIDE DEF missing, done, looked
<1>6. ASSUME NEW i \in DOMAIN texts PROVE VectorOf(texts[i]) = texts[i]
  <2>1. CASE Has(texts[i])
    <3>1. \E k \in DOMAIN missing : missing[k] = texts[i]
      BY <1>4, <2>1 DEF ToSet
    <3> HIDE DEF Has
    <3> QED
      BY <2>1, <3>1
  <2>2. CASE ~ Has(texts[i])
    <3> HIDE DEF Has
    <3> QED
      BY <2>2
  <2> QED
    BY <2>1, <2>2
<1>7. done.vectors = texts
  <2>1. texts = [i \in DOMAIN texts |-> texts[i]]
    OBVIOUS
  <2> HIDE DEF VectorOf
  <2> QED
    BY <1>5, <1>6, <2>1
<1>8. ASSUME NEW t \in ToSet(texts) PROVE done.table[t] = "good"
  <2>1. t \in DOMAIN table
    OBVIOUS
  <2>2. CASE table[t] # "good"
    <3> HIDE DEF Has
    <3> QED
      BY <1>3, <1>4, <1>5, <2>1, <2>2
  <2>3. CASE table[t] = "good"
    <3>1. looked[t] = "good"
      BY <2>1, <2>3 DEF looked, LookupAll
    <3> HIDE DEF Has
    <3> QED
      BY <1>5, <2>1, <3>1
  <2> QED
    BY <2>2, <2>3
<1> QED
  BY <1>7, <1>8 DEF done

(* EachTextItsOwn: each text of a batch is answered with its own vector    *)
(* and the table has a good row for it afterwards, for any texts, however  *)
(* they repeat, and any state of the table (rag/embedding_cache.py,        *)
(* embed_batch).                                                           *)
THEOREM EachTextGetsItsOwn == Spec => []EachTextItsOwn
<1>1. ASSUME Answered PROVE EachTextItsOwn
  <2> SUFFICES ASSUME asked = "embed_batch", answer.kind = "ok" PROVE EachTextItsOwn
    BY DEF EachTextItsOwn
  <2> DEFINE texts == question.texts
             table == question.table
  <2>1. texts \in Seq(DOMAIN table) /\ question.short \in BOOLEAN /\ answer = EmbedBatch(texts, table, question.short)
    BY <1>1, QuestionsAssumption DEF Answered
  <2> HIDE DEF texts, table
  <2>2. ToSet(texts) \subseteq DOMAIN table
    BY <2>1, ElementOfSeq DEF ToSet
  <2>3. answer.vectors = texts /\ \A t \in ToSet(texts) : answer.table[t] = "good"
    BY <2>1, <2>2, EmbedsEach
  <2> QED
    BY <2>3 DEF EachTextItsOwn, texts
<1> QED
  BY <1>1, AlwaysAnswered, PTL

-----------------------------------------------------------------------------
(* Cassettes (cassette/sanitizer.py).                                      *)

NamesOf(pairs) == {pairs[i].name : i \in DOMAIN pairs}

LEMMA NamesAre ==
    ASSUME NEW pairs PROVE NamesOf(pairs) = {p.name : p \in ToSet(pairs)}
  BY DEF NamesOf, ToSet

LEMMA LastKeepsNames ==
    ASSUME NEW pairs \in Seq(HeaderPairs)
    PROVE  /\ LastOfEach(pairs) \in Seq(HeaderPairs) /\ ToSet(LastOfEach(pairs)) \subseteq ToSet(pairs)
           /\ NamesOf(LastOfEach(pairs)) = NamesOf(pairs)
<1> DEFINE N == Len(pairs)
           I == {i \in DOMAIN pairs : \A j \in DOMAIN pairs : j > i => pairs[j].name # pairs[i].name}
<1>1. N \in Nat /\ DOMAIN pairs = 1 .. N
  OBVIOUS
<1>2. LastOfEach(pairs) \in Seq(HeaderPairs) /\ ToSet(LastOfEach(pairs)) = {pairs[i] : i \in I}
  <2>1. LastOfEach(pairs) = Picked(pairs, I) /\ I \subseteq DOMAIN pairs
    BY DEF LastOfEach
  <2> HIDE DEF I
  <2> QED
    BY <2>1, PickedProperties
<1>3. ASSUME NEW i \in DOMAIN pairs PROVE \E k \in I : pairs[k].name = pairs[i].name
  <2> DEFINE K == {n \in Nat : n < N /\ pairs[N - n].name = pairs[i].name}
  <2>1. N - i \in K
    BY <1>1
  <2>2. PICK n \in K : \A m \in K : n =< m
    <3>1. K \subseteq Nat /\ K # {}
      BY <2>1
    <3> HIDE DEF K
    <3> QED
      BY <3>1, SmallestNumber
  <2>3. ASSUME NEW j \in DOMAIN pairs, j > N - n PROVE pairs[j].name # pairs[N - n].name
    <3>1. N - j \in Nat /\ N - j < N /\ ~ (n =< N - j) /\ N - (N - j) = j
      BY <1>1, <2>2, <2>3
    <3>2. N - j \notin K
      BY <2>2, <3>1
    <3> QED
      BY <2>2, <3>1, <3>2
  <2>4. N - n \in I /\ pairs[N - n].name = pairs[i].name
    BY <1>1, <2>2, <2>3
  <2> QED
    BY <2>4
<1>4. ToSet(LastOfEach(pairs)) \subseteq ToSet(pairs)
  <2> HIDE DEF I
  <2>1. I \subseteq DOMAIN pairs
    BY DEF I
  <2> QED
    BY <1>2, <2>1 DEF ToSet
<1>5. NamesOf(LastOfEach(pairs)) = NamesOf(pairs)
  <2>1. NamesOf(LastOfEach(pairs)) = {pairs[i].name : i \in I}
    <3>1. NamesOf(LastOfEach(pairs)) = {p.name : p \in ToSet(LastOfEach(pairs))}
      BY NamesAre
    <3> HIDE DEF I
    <3> QED
      BY <1>2, <3>1
  <2>2. I \subseteq DOMAIN pairs
    OBVIOUS
  <2> HIDE DEF I
  <2> QED
    BY <1>3, <2>1, <2>2 DEF NamesOf
<1> QED
  BY <1>2, <1>4, <1>5

LEMMA SanitisedAnswers ==
    ASSUME NEW q \in Messages
    PROVE  /\ VerifyCassette("none", << SanitizeMessage(q) >>) = {}
           /\ q.headers.shape # "none" => NamesOf(SanitizeMessage(q).headers.pairs) = NamesOf(q.headers.pairs) \ Forbidden
<1> DEFINE given == NormalizeHeaders(q.headers)
           stripped == StripHeaders(given)
           redacted == RedactHeaderValues(stripped)
           out == SanitizeMessage(q)
           clean == {p \in HeaderPairs : p.name \notin Forbidden /\ p.secrets = {}}
<1>1. given \in Seq(HeaderPairs) /\ (q.headers.shape # "none" => given = q.headers.pairs)
  BY DEF NormalizeHeaders, Messages
<1>2. stripped \in Seq(HeaderPairs) /\ ToSet(stripped) = {p \in ToSet(given) : p.name \notin Forbidden}
  <2> DEFINE I == {i \in DOMAIN given : given[i].name \notin Forbidden}
  <2>1. stripped = Picked(given, I) /\ I \subseteq DOMAIN given
    BY DEF StripHeaders
  <2>2. {given[i] : i \in I} = {p \in ToSet(given) : p.name \notin Forbidden}
    BY DEF ToSet
  <2> HIDE DEF I, given, stripped
  <2> QED
    BY <1>1, <2>1, <2>2, PickedProperties
<1> HIDE DEF given, stripped
<1>3. redacted \in Seq(HeaderPairs) /\ ToSet(redacted) \subseteq clean /\ NamesOf(redacted) = NamesOf(stripped)
  <2>1. DOMAIN stripped = 1 .. Len(stripped) /\ Len(stripped) \in Nat /\ \A i \in DOMAIN stripped : stripped[i] \in HeaderPairs
    BY <1>2, ElementOfSeq
  <2>2. ASSUME NEW i \in DOMAIN stripped
        PROVE  redacted[i] \in clean /\ redacted[i].name = stripped[i].name
    <3>1. stripped[i] \in HeaderPairs /\ stripped[i].name \notin Forbidden
      BY <1>2, <2>1 DEF ToSet
    <3>2. redacted[i] = [stripped[i] EXCEPT !.secrets = {}]
      BY DEF RedactHeaderValues, RedactValue
    <3> HIDE DEF redacted
    <3> QED
      BY <3>1, <3>2 DEF HeaderPairs
  <2>3. DOMAIN redacted = DOMAIN stripped /\ redacted = [i \in 1 .. Len(stripped) |-> redacted[i]]
    BY <2>1 DEF RedactHeaderValues
  <2> HIDE DEF redacted
  <2>4. redacted \in Seq(HeaderPairs)
    BY <2>1, <2>2, <2>3
  <2> QED
    BY <2>2, <2>3, <2>4 DEF ToSet, NamesOf
<1> HIDE DEF redacted
<1>4. out.headers.shape = q.headers.shape /\ out.body = RedactBody(q.body)
      /\ \/ out.headers.pairs = redacted
         \/ out.headers.pairs = LastOfEach(redacted)
  BY DEF SanitizeMessage, WriteHeaders, redacted, stripped, given
<1>5. ToSet(out.headers.pairs) \subseteq clean /\ NamesOf(out.headers.pairs) = NamesOf(redacted)
  <2> HIDE DEF out, clean
  <2> QED
    BY <1>3, <1>4, LastKeepsNames
<1>6. NamesOf(stripped) = NamesOf(given) \ Forbidden
  BY <1>2, NamesAre
<1>7. ScanMessage(out) = {}
  <2>1. out.body.kind \in {"bytes", "str"} => out.body.secrets = {}
    <3>1. q.body \in [kind : STRING, wraps : Nat, secrets : SUBSET STRING]
      BY DEF Messages
    <3> HIDE DEF out
    <3> QED
      BY <1>4, <3>1 DEF RedactBody, RedactValue
  <2>2. ToSet(NormalizeHeaders(out.headers)) \subseteq clean
    <3> HIDE DEF out
    <3>1. ToSet(<<>>) = {}
      BY DEF ToSet
    <3> QED
      BY <1>5, <3>1 DEF NormalizeHeaders
  <2> HIDE DEF out
  <2> QED
    BY <2>1, <2>2 DEF ScanMessage
<1>8. VerifyCassette("none", << out >>) = {}
  <2> HIDE DEF out
  <2>1. {ScanMessage(<< out >>[i]) : i \in DOMAIN << out >>} = {ScanMessage(out)}
    OBVIOUS
  <2> QED
    BY <1>7, <2>1 DEF VerifyCassette
<1> QED
  BY <1>1, <1>3, <1>5, <1>6, <1>8 DEF out

(* SanitisedIsClean: a message that was sanitised is found clean, and has  *)
(* every header that is not forbidden still, for any headers, any body and *)
(* any secrets in them (cassette/sanitizer.py, sanitize_request and        *)
(* verify_cassette).                                                       *)
THEOREM SanitisedAreClean == Spec => []SanitisedIsClean
<1>1. ASSUME Answered PROVE SanitisedIsClean
  <2> SUFFICES ASSUME asked = "cassette" PROVE SanitisedIsClean
    BY DEF SanitisedIsClean
  <2>1. /\ question \in Messages
        /\ answer = [out |-> SanitizeMessage(question), found |-> VerifyCassette("none", << SanitizeMessage(question) >>)]
    BY <1>1, QuestionsAssumption DEF Answered
  <2>2. answer.out = SanitizeMessage(question) /\ answer.found = VerifyCassette("none", << SanitizeMessage(question) >>)
    BY <2>1
  <2>3. /\ answer.found = {}
        /\ question.headers.shape # "none" => NamesOf(answer.out.headers.pairs) = NamesOf(question.headers.pairs) \ Forbidden
    BY <2>1, <2>2, SanitisedAnswers
  <2> QED
    BY <2>3 DEF SanitisedIsClean, NamesOf
<1> QED
  BY <1>1, AlwaysAnswered, PTL

-----------------------------------------------------------------------------
(* Keys of the cache (key_for).                                            *)

LEMMA TokensFollow ==
    ASSUME NEW probe \in KeyProbes, NEW a \in STRING \ {"unresolved"}, NEW b \in STRING \ {"unresolved"}
    PROVE  (TokenValues(probe, a) = TokenValues(probe, b)) <=>
             (a = b \/ ~ \E k \in DOMAIN probe.declared : probe.declared[k].token)
<1> DEFINE tokens == {k \in DOMAIN probe.declared : probe.declared[k].token}
           c == Cardinality(tokens)
           Values(d) == [k \in 1 .. c |-> ResolveToken(d)]
<1>1. TokenValues(probe, a) = Values(a) /\ TokenValues(probe, b) = Values(b)
  BY DEF TokenValues
<1>2. IsFiniteSet(tokens)
  <2>1. probe.declared \in Seq([token : BOOLEAN, words : Seq(STRING)])
    BY DEF KeyProbes
  <2>2. DOMAIN probe.declared = 1 .. Len(probe.declared) /\ Len(probe.declared) \in Int
    BY <2>1
  <2>3. IsFiniteSet(1 .. Len(probe.declared))
    BY <2>2, FS_Interval
  <2> QED
    BY <2>2, <2>3, FS_Subset
<1>3. ResolveToken(a) = ResolveToken(b) <=> a = b
  BY DEF ResolveToken, Unresolved
<1>4. CASE tokens = {}
  <2>1. c = 0
    BY <1>4, FS_EmptySet
  <2>2. 1 .. c = {}
    <3> HIDE DEF c
    <3> QED
      BY <2>1
  <2>3. Values(a) = Values(b)
    BY <2>2
  <2> QED
    BY <1>1, <1>4, <2>3
<1>5. CASE tokens # {}
  <2>1. c \in Nat /\ c # 0
    <3> HIDE DEF tokens
    <3> QED
      BY <1>2, <1>5, FS_CardinalityType, FS_EmptySet
  <2>2. 1 \in 1 .. c
    BY <2>1
  <2>3. Values(a) = Values(b) <=> ResolveToken(a) = ResolveToken(b)
    <3>1. Values(a)[1] = ResolveToken(a) /\ Values(b)[1] = ResolveToken(b)
      BY <2>2
    <3> QED
      BY <3>1
  <2> QED
    BY <1>1, <1>3, <1>5, <2>3
<1> QED
  BY <1>4, <1>5

LEMMA PairsOrRecords ==
    ASSUME NEW S, NEW T
    PROVE  ({[path |-> f.path, size |-> f.size] : f \in S} = {[path |-> f.path, size |-> f.size] : f \in T})
             <=> ({<< f.path, f.size >> : f \in S} = {<< f.path, f.size >> : f \in T})
<1> DEFINE Alike(f, g) == f.path = g.path /\ f.size = g.size
           Both == (\A f \in S : \E g \in T : Alike(f, g)) /\ (\A g \in T : \E f \in S : Alike(f, g))
           Rec(f) == [path |-> f.path, size |-> f.size]
           Pair(f) == << f.path, f.size >>
<1>1. \A f, g : (Rec(f) = Rec(g) <=> Alike(f, g)) /\ (Pair(f) = Pair(g) <=> Alike(f, g))
  OBVIOUS
<1> HIDE DEF Rec, Pair, Alike
<1>2. ({Rec(f) : f \in S} = {Rec(f) : f \in T}) <=> Both
  <2>1. ASSUME {Rec(f) : f \in S} = {Rec(f) : f \in T} PROVE Both
    <3>1. \A f \in S : Rec(f) \in {Rec(g) : g \in T}
      BY <2>1
    <3>2. \A g \in T : Rec(g) \in {Rec(f) : f \in S}
      BY <2>1
    <3> QED
      BY <1>1, <3>1, <3>2
  <2>2. ASSUME Both PROVE {Rec(f) : f \in S} = {Rec(f) : f \in T}
    BY <1>1, <2>2
  <2> QED
    BY <2>1, <2>2
<1>3. ({Pair(f) : f \in S} = {Pair(f) : f \in T}) <=> Both
  <2>1. ASSUME {Pair(f) : f \in S} = {Pair(f) : f \in T} PROVE Both
    <3>1. \A f \in S : Pair(f) \in {Pair(g) : g \in T}
      BY <2>1
    <3>2. \A g \in T : Pair(g) \in {Pair(f) : f \in S}
      BY <2>1
    <3> QED
      BY <1>1, <3>1, <3>2
  <2>2. ASSUME Both PROVE {Pair(f) : f \in S} = {Pair(f) : f \in T}
    BY <1>1, <2>2
  <2> QED
    BY <2>1, <2>2
<1> QED
  BY <1>2, <1>3 DEF Rec, Pair

SameInputs(probe, before, after) ==
    LET Declared(f) == \E k \in DOMAIN probe.declared : RglobFinds(probe.declared[k], f)
        Inputs(repo) == {[path |-> f.path, size |-> f.size] : f \in {x \in repo.files : Declared(x) /\ x.path[1] # ".codegenie"}}
        Image(repo) == IF \E k \in DOMAIN probe.declared : probe.declared[k].token THEN repo.digest ELSE "none"
    IN Inputs(before) = Inputs(after) /\ Image(before) = Image(after)

LEMMA KeysFollow ==
    ASSUME NEW probe \in KeyProbes, NEW before \in Repos, NEW after \in Repos,
           KeyFor(probe, before, OneSchema) # << "CacheKeyError" >>
    PROVE  (KeyFor(probe, before, OneSchema) = KeyFor(probe, after, OneSchema)) <=> SameInputs(probe, before, after)
<1> DEFINE Declared(f) == \E k \in DOMAIN probe.declared : RglobFinds(probe.declared[k], f)
           Own(repo) == {x \in repo.files : Declared(x) /\ x.path[1] # ".codegenie"}
           Inputs(repo) == {[path |-> f.path, size |-> f.size] : f \in Own(repo)}
           Image(repo) == IF \E k \in DOMAIN probe.declared : probe.declared[k].token THEN repo.digest ELSE "none"
           Hash(repo) == ContentHashOfInputs(DeclaredInputsFor(probe, repo.files))
           schema == SchemaVersion(OneSchema, probe.name)
<1>1. ~ UnknownToken(probe)
  BY DEF KeyFor
<1>2. \A repo : KeyFor(probe, repo, OneSchema)
                  = << probe.name, probe.version, schema, Hash(repo), TokenValues(probe, repo.digest) >>
  BY <1>1 DEF KeyFor
<1>3. (KeyFor(probe, before, OneSchema) = KeyFor(probe, after, OneSchema))
        <=> (Hash(before) = Hash(after) /\ TokenValues(probe, before.digest) = TokenValues(probe, after.digest))
  <2> HIDE DEF Hash, schema
  <2> QED
    BY <1>2
<1>4. ASSUME NEW repo \in Repos PROVE Hash(repo) = {<< f.path, f.size >> : f \in Own(repo)}
  <2>1. DeclaredInputsFor(probe, repo.files) = Own(repo)
    <3>1. ASSUME NEW x \in repo.files PROVE Head(x.path) = x.path[1]
      <4>1. x.path \in Seq(STRING) \ {<<>>}
        BY DEF Repos, RepoFiles
      <4> QED
        BY <4>1
    <3> QED
      BY <3>1 DEF DeclaredInputsFor, OutputNamespace
  <2> HIDE DEF Own
  <2> QED
    BY <2>1 DEF ContentHashOfInputs
<1>5. Inputs(before) = Inputs(after) <=> Hash(before) = Hash(after)
  <2> HIDE DEF Own, Hash
  <2> QED
    BY <1>4, PairsOrRecords
<1>6. Image(before) = Image(after) <=> TokenValues(probe, before.digest) = TokenValues(probe, after.digest)
  <2>1. before.digest \in STRING \ {"unresolved"} /\ after.digest \in STRING \ {"unresolved"}
    BY DEF Repos
  <2> QED
    BY <2>1, TokensFollow
<1> QED
  BY <1>3, <1>5, <1>6 DEF SameInputs

(* KeyFollowsInputs: the key of a probe changes exactly when a file it     *)
(* declares comes, goes or changes its size, or the image of its token     *)
(* changes, for any repositories and declarations (key_for).               *)
THEOREM KeysFollowInputs == Spec => []KeyFollowsInputs
<1>1. ASSUME Answered PROVE KeyFollowsInputs
  <2> SUFFICES ASSUME asked = "key", answer.before # << "CacheKeyError" >> PROVE KeyFollowsInputs
    BY DEF KeyFollowsInputs
  <2>1. /\ question.probe \in KeyProbes /\ question.before \in Repos /\ question.after \in Repos
        /\ answer.before = KeyFor(question.probe, question.before, OneSchema)
        /\ answer.after = KeyFor(question.probe, question.after, OneSchema)
    BY <1>1, QuestionsAssumption DEF Answered
  <2>2. (answer.before = answer.after) <=> SameInputs(question.probe, question.before, question.after)
    BY <2>1, KeysFollow
  <2> QED
    BY <2>2 DEF KeyFollowsInputs, SameInputs
<1> QED
  BY <1>1, AlwaysAnswered, PTL

-----------------------------------------------------------------------------
(* The filter of bwrap, as the kernel runs it (sandbox/_seccomp.py).       *)

Words == STRING \cup {"", "x86_64", "other", "mount", "ptrace", "bpf", "read", "none", "allow", "kill", "out of the program"}
Insns == [op : {"ld"}, field : {"arch", "nr"}] \cup [op : {"jeq"}, k : Words, jt : Nat, jf : Nat] \cup [op : {"ret"}, verdict : Words]
Machines == [pc : Nat \ {0}, acc : Words, verdict : Words]
Boot == [pc |-> 1, acc |-> "", verdict |-> "none"]
Execute(program, call, s) ==
    IF s.verdict # "none" THEN s
    ELSE IF s.pc > Len(program) THEN [s EXCEPT !.verdict = "out of the program"]
    ELSE LET insn == program[s.pc] IN
         CASE insn.op = "ld" -> [s EXCEPT !.acc = call[insn.field], !.pc = @ + 1]
           [] insn.op = "jeq" -> [s EXCEPT !.pc = @ + 1 + (IF s.acc = insn.k THEN insn.jt ELSE insn.jf)]
           [] insn.op = "ret" -> [s EXCEPT !.verdict = insn.verdict]
RunBody(program, call, after) ==
    [n \in 0 .. Len(program) |-> IF n = 0 THEN Boot ELSE Execute(program, call, after[n - 1])]
Run(program, call) == CHOOSE after : after = RunBody(program, call, after)

LEMMA RunFilterIs ==
    ASSUME NEW program, NEW call PROVE RunFilter(program, call) = Run(program, call)[Len(program)].verdict
  BY DEF RunFilter, Run, RunBody, Boot, Execute

LEMMA ExecuteIs ==
    ASSUME NEW program, NEW call, NEW s \in Machines, s.verdict = "none", s.pc \in 1 .. Len(program), Len(program) \in Nat
    PROVE  /\ \A field \in {"arch", "nr"} : program[s.pc] = LoadWord(field) =>
                Execute(program, call, s) = [pc |-> s.pc + 1, acc |-> call[field], verdict |-> "none"]
           /\ \A k \in Words, jt \in Nat, jf \in Nat : program[s.pc] = JumpIfEqual(k, jt, jf) =>
                Execute(program, call, s) = [pc |-> s.pc + 1 + (IF s.acc = k THEN jt ELSE jf), acc |-> s.acc, verdict |-> "none"]
           /\ \A verdict \in Words : program[s.pc] = Return(verdict) =>
                Execute(program, call, s) = [pc |-> s.pc, acc |-> s.acc, verdict |-> verdict]
<1>1. ~ (s.pc > Len(program)) /\ s = [pc |-> s.pc, acc |-> s.acc, verdict |-> "none"]
  BY DEF Machines
<1>2. ASSUME NEW field \in {"arch", "nr"}, program[s.pc] = LoadWord(field)
      PROVE  Execute(program, call, s) = [pc |-> s.pc + 1, acc |-> call[field], verdict |-> "none"]
  <2>1. program[s.pc].op = "ld" /\ program[s.pc].field = field
    BY <1>2 DEF LoadWord
  <2> QED
    BY <1>1, <2>1 DEF Execute, Machines
<1>3. ASSUME NEW k \in Words, NEW jt \in Nat, NEW jf \in Nat, program[s.pc] = JumpIfEqual(k, jt, jf)
      PROVE  Execute(program, call, s) = [pc |-> s.pc + 1 + (IF s.acc = k THEN jt ELSE jf), acc |-> s.acc, verdict |-> "none"]
  <2>1. program[s.pc].op = "jeq" /\ program[s.pc].k = k /\ program[s.pc].jt = jt /\ program[s.pc].jf = jf
    BY <1>3 DEF JumpIfEqual
  <2> QED
    BY <1>1, <2>1 DEF Execute, Machines
<1>4. ASSUME NEW verdict \in Words, program[s.pc] = Return(verdict)
      PROVE  Execute(program, call, s) = [pc |-> s.pc, acc |-> s.acc, verdict |-> verdict]
  <2>1. program[s.pc].op = "ret" /\ program[s.pc].verdict = verdict
    BY <1>4 DEF Return
  <2> QED
    BY <1>1, <2>1 DEF Execute, Machines
<1> QED
  BY <1>2, <1>3, <1>4

LEMMA MachineOf ==
    ASSUME NEW at \in Nat \ {0}, NEW acc \in Words, NEW verdict \in Words
    PROVE  [pc |-> at, acc |-> acc, verdict |-> verdict] \in Machines
  BY DEF Machines

LEMMA MachineIs ==
    ASSUME NEW s \in Machines
    PROVE  /\ s.pc \in Nat \ {0} /\ s.acc \in Words /\ s.verdict \in Words
           /\ s = [pc |-> s.pc, acc |-> s.acc, verdict |-> s.verdict]
  BY DEF Machines

LEMMA ExecuteKeeps ==
    ASSUME NEW program \in Seq(Insns), NEW call \in Calls, NEW s \in Machines
    PROVE  Execute(program, call, s) \in Machines
<1>1. Len(program) \in Nat /\ \A p \in 1 .. Len(program) : program[p] \in Insns
  BY ElementOfSeq
<1>2. CASE s.verdict # "none"
  BY <1>2 DEF Execute
<1>0. CASE s.verdict = "none" /\ s.pc > Len(program)
  <2>1. Execute(program, call, s) = [s EXCEPT !.verdict = "out of the program"]
    BY <1>0 DEF Execute
  <2>2. Execute(program, call, s) = [pc |-> s.pc, acc |-> s.acc, verdict |-> "out of the program"]
    BY <2>1, MachineIs, Zenon
  <2>3. "out of the program" \in Words
    BY DEF Words
  <2>4. [pc |-> s.pc, acc |-> s.acc, verdict |-> "out of the program"] \in Machines
    BY <2>3, MachineOf, MachineIs
  <2> QED
    BY <2>2, <2>4, Zenon
<1>3. CASE s.verdict = "none" /\ s.pc \in 1 .. Len(program)
  <2>1. program[s.pc] \in Insns /\ "none" \in Words
    BY <1>1, <1>3 DEF Words
  <2>2. CASE program[s.pc] \in [op : {"ld"}, field : {"arch", "nr"}]
    <3>1. PICK field \in {"arch", "nr"} : program[s.pc] = LoadWord(field)
      BY <2>2 DEF LoadWord
    <3>2. call[field] \in Words
      <4>1. call.arch \in Words /\ call.nr \in Words
        <5>1. call.arch \in {"x86_64", "other"} /\ call.nr \in {"mount", "ptrace", "bpf", "read"}
          BY DEF Calls
        <5> QED
          BY <5>1 DEF Words
      <4>2. CASE field = "arch"
        BY <4>1, <4>2
      <4>3. CASE field = "nr"
        BY <4>1, <4>3
      <4> QED
        BY <4>2, <4>3
    <3>3. s.pc + 1 \in Nat \ {0}
      BY MachineIs
    <3>4. Execute(program, call, s) = [pc |-> s.pc + 1, acc |-> call[field], verdict |-> "none"]
      BY <1>1, <1>3, <3>1, ExecuteIs
    <3>5. [pc |-> s.pc + 1, acc |-> call[field], verdict |-> "none"] \in Machines
      BY <2>1, <3>2, <3>3, MachineOf
    <3> QED
      BY <3>4, <3>5, Zenon
  <2>3. CASE program[s.pc] \in [op : {"jeq"}, k : Words, jt : Nat, jf : Nat]
    <3>1. PICK k \in Words, jt \in Nat, jf \in Nat : program[s.pc] = JumpIfEqual(k, jt, jf)
      BY <2>3 DEF JumpIfEqual
    <3> DEFINE to == s.pc + 1 + (IF s.acc = k THEN jt ELSE jf)
    <3>2. to \in Nat \ {0}
      BY MachineIs
    <3>3. Execute(program, call, s) = [pc |-> to, acc |-> s.acc, verdict |-> "none"]
      BY <1>1, <1>3, <3>1, ExecuteIs
    <3>4. [pc |-> to, acc |-> s.acc, verdict |-> "none"] \in Machines
      <4> HIDE DEF to
      <4> QED
        BY <2>1, <3>2, MachineIs, MachineOf
    <3> QED
      BY <3>3, <3>4, Zenon
  <2>4. CASE program[s.pc] \in [op : {"ret"}, verdict : Words]
    <3>1. PICK verdict \in Words : program[s.pc] = Return(verdict)
      BY <2>4 DEF Return
    <3>2. Execute(program, call, s) = [pc |-> s.pc, acc |-> s.acc, verdict |-> verdict]
      BY <1>1, <1>3, <3>1, ExecuteIs
    <3>3. [pc |-> s.pc, acc |-> s.acc, verdict |-> verdict] \in Machines
      BY MachineIs, MachineOf
    <3> QED
      BY <3>2, <3>3, Zenon
  <2> QED
    BY <2>1, <2>2, <2>3, <2>4 DEF Insns
<1>4. s.verdict = "none" => s.pc > Len(program) \/ s.pc \in 1 .. Len(program)
  BY <1>1, MachineIs
<1> QED
  BY <1>0, <1>2, <1>3, <1>4

LEMMA RunIs ==
    ASSUME NEW program \in Seq(Insns), NEW call \in Calls
    PROVE  LET after == Run(program, call) IN
           /\ after \in [0 .. Len(program) -> Machines] /\ after[0] = Boot
           /\ \A n \in 1 .. Len(program) : after[n] = Execute(program, call, after[n - 1])
<1>0. Len(program) \in Nat
  BY LenProperties
<1> DEFINE N == Len(program)
           step == [x \in (1 .. N) \X Machines |-> Execute(program, call, x[2])]
           after == Run(program, call)
<1>1. N \in Nat /\ Boot \in Machines
  <2>1. N \in Nat
    BY <1>0 DEF N
  <2>2. Boot \in Machines
    BY DEF Boot, Machines, Words
  <2> QED
    BY <2>1, <2>2
<1>2. step \in [(1 .. N) \X Machines -> Machines]
  BY ExecuteKeeps
<1>3. PICK f : Steps(N, Machines, Boot, step, f)
  <2> HIDE DEF step
  <2> QED
    BY <1>1, <1>2, StepsExist
<1>4. ASSUME NEW n \in 1 .. N PROVE f[n] = Execute(program, call, f[n - 1])
  <2>1. n - 1 \in 0 .. N /\ f[n - 1] \in Machines /\ f[n] = step[<<n, f[n - 1]>>]
    <3> HIDE DEF step
    <3> QED
      BY <1>1, <1>3 DEF Steps
  <2> QED
    BY <2>1
<1>5. f = RunBody(program, call, f)
  <2>1. f[0] = Boot /\ f = [n \in 0 .. N |-> f[n]]
    BY <1>1, <1>3 DEF Steps
  <2>2. \A n \in 0 .. N : f[n] = IF n = 0 THEN Boot ELSE Execute(program, call, f[n - 1])
    BY <1>1, <1>4, <2>1
  <2> QED
    BY <2>1, <2>2 DEF RunBody
<1>6. after = RunBody(program, call, after)
  BY <1>5 DEF Run
<1> HIDE DEF after
<1>7. after[0] = Boot /\ \A n \in 1 .. N : after[n] = Execute(program, call, after[n - 1])
  <2>1. \A n \in 0 .. N : after[n] = IF n = 0 THEN Boot ELSE Execute(program, call, after[n - 1])
    BY <1>6 DEF RunBody
  <2> QED
    BY <1>1, <2>1
<1> DEFINE S == {n \in 0 .. N : after[n] \in Machines}
<1>8. 0 \in S /\ \A n \in 1 .. N : n - 1 \in S => n \in S
  BY <1>1, <1>7, ExecuteKeeps
<1>9. 0 .. N \subseteq S
  <2> HIDE DEF S
  <2> QED
    BY <1>1, <1>8, NumbersUpTo
<1>10. after = [n \in 0 .. N |-> after[n]]
  BY <1>6 DEF RunBody
<1> QED
  BY <1>7, <1>9, <1>10 DEF after

(* What BuildFilter builds. *)
Filters(program, blocked) ==
    /\ program \in Seq(Insns) /\ Len(program) = Len(blocked) + 5
    /\ program[1] = LoadWord("arch")
    /\ program[2] = JumpIfEqual("x86_64", 0, Len(blocked) + 2)
    /\ program[3] = LoadWord("nr")
    /\ \A i \in 1 .. Len(blocked) : program[i + 3] = JumpIfEqual(blocked[i], Len(blocked) + 1 - i, 0)
    /\ program[Len(blocked) + 4] = Return("allow")
    /\ program[Len(blocked) + 5] = Return("kill")

LEMMA FilterIs ==
    ASSUME NEW blocked \in Seq(Words) PROVE Filters(BuildFilter(blocked), blocked)
<1>0. Len(blocked) \in Nat /\ \A i \in 1 .. Len(blocked) : blocked[i] \in Words
  BY ElementOfSeq
<1> DEFINE L == Len(blocked)
           jump(i) == JumpIfEqual(blocked[i], L + 5 - (i + 3) - 1, 0)
           head == << LoadWord("arch"), JumpIfEqual("x86_64", 0, L + 5 - 2 - 1), LoadWord("nr") >>
           tests == [i \in 1 .. L |-> jump(i)]
           tail == << Return("allow"), Return("kill") >>
<1>1. \A i \in 1 .. L : jump(i) = JumpIfEqual(blocked[i], L + 1 - i, 0) /\ jump(i) \in Insns
  <2> SUFFICES ASSUME NEW i \in 1 .. L
               PROVE  jump(i) = JumpIfEqual(blocked[i], L + 1 - i, 0) /\ jump(i) \in Insns
    OBVIOUS
  <2>1. L + 5 - (i + 3) - 1 = L + 1 - i /\ L + 1 - i \in Nat /\ 0 \in Nat /\ blocked[i] \in Words
    BY <1>0
  <2> QED
    BY <2>1 DEF JumpIfEqual, Insns
<1>2. LoadWord("arch") \in Insns /\ LoadWord("nr") \in Insns
  BY DEF LoadWord, Insns
<1>3. Return("allow") \in Insns /\ Return("kill") \in Insns
  BY DEF Return, Insns, Words
<1>4. L + 5 - 2 - 1 = L + 2 /\ JumpIfEqual("x86_64", 0, L + 2) \in Insns
  <2>1. L + 5 - 2 - 1 = L + 2 /\ L + 2 \in Nat /\ 0 \in Nat
    BY <1>0
  <2> QED
    BY <2>1 DEF JumpIfEqual, Insns, Words
<1>5. head = << LoadWord("arch"), JumpIfEqual("x86_64", 0, L + 2), LoadWord("nr") >>
  BY <1>4
<1>6. /\ head \in Seq(Insns) /\ Len(head) = 3
      /\ head[1] = LoadWord("arch") /\ head[2] = JumpIfEqual("x86_64", 0, L + 2) /\ head[3] = LoadWord("nr")
  <2> HIDE DEF head
  <2> QED
    BY <1>2, <1>4, <1>5
<1>7. /\ tests \in Seq(Insns) /\ Len(tests) = L
      /\ \A i \in 1 .. L : tests[i] = JumpIfEqual(blocked[i], L + 1 - i, 0)
  <2>1. \A i \in 1 .. L : tests[i] \in Insns
    BY <1>1
  <2>2. tests \in [1 .. L -> Insns]
    <3> HIDE DEF jump
    <3> QED
      BY <1>1
  <2>3. tests \in Seq(Insns)
    <3> HIDE DEF tests
    <3> QED
      BY <1>0, <2>2, IsASeq
  <2>4. Len(tests) = L
    <3> HIDE DEF jump
    <3> QED
      BY <1>0
  <2> QED
    BY <1>1, <2>3, <2>4
<1>8. /\ tail \in Seq(Insns) /\ Len(tail) = 2
      /\ tail[1] = Return("allow") /\ tail[2] = Return("kill")
  BY <1>3
<1>9. BuildFilter(blocked) = head \o tests \o tail
  BY DEF BuildFilter
<1>17. L \in Nat
  BY <1>0
<1> HIDE DEF head, tests, tail, L
<1>10. /\ head \o tests \in Seq(Insns) /\ Len(head \o tests) = L + 3
       /\ \A p \in 1 .. L + 3 : (head \o tests)[p] = IF p =< 3 THEN head[p] ELSE tests[p - 3]
  <2>1. 3 + L = L + 3
    BY <1>17
  <2>2. /\ head \o tests \in Seq(Insns) /\ Len(head \o tests) = Len(head) + Len(tests)
        /\ \A p \in 1 .. Len(head) + Len(tests) : (head \o tests)[p] = IF p =< Len(head) THEN head[p] ELSE tests[p - Len(head)]
    BY <1>6, <1>7, ConcatProperties
  <2>3. Len(head) + Len(tests) = L + 3 /\ Len(head) = 3
    BY <1>6, <1>7, <2>1
  <2> QED
    BY <2>2, <2>3, Zenon
<1>11. /\ head \o tests \o tail \in Seq(Insns) /\ Len(head \o tests \o tail) = L + 5
       /\ \A p \in 1 .. L + 5 : (head \o tests \o tail)[p] =
                IF p =< L + 3 THEN (head \o tests)[p] ELSE tail[p - (L + 3)]
  <2> DEFINE front == head \o tests
  <2> HIDE DEF front
  <2>1. front \in Seq(Insns) /\ Len(front) = L + 3
    BY <1>10 DEF front
  <2>2. /\ front \o tail \in Seq(Insns) /\ Len(front \o tail) = Len(front) + Len(tail)
        /\ \A p \in 1 .. Len(front) + Len(tail) : (front \o tail)[p] = IF p =< Len(front) THEN front[p] ELSE tail[p - Len(front)]
    BY <1>8, <2>1, ConcatProperties
  <2>3. Len(front) + Len(tail) = L + 5
    BY <1>8, <1>17, <2>1
  <2>4. /\ front \o tail \in Seq(Insns) /\ Len(front \o tail) = L + 5
        /\ \A p \in 1 .. L + 5 : (front \o tail)[p] = IF p =< L + 3 THEN front[p] ELSE tail[p - (L + 3)]
    BY <2>1, <2>2, <2>3, Zenon
  <2> QED
    BY <2>4 DEF front
<1> DEFINE front == head \o tests
           program == front \o tail
<1> HIDE DEF front, program
<1>18. \A p \in 1 .. L + 3 : front[p] = IF p =< 3 THEN head[p] ELSE tests[p - 3]
  BY <1>10 DEF front
<1>19. \A p \in 1 .. L + 5 : program[p] = IF p =< L + 3 THEN front[p] ELSE tail[p - (L + 3)]
  BY <1>11 DEF front, program
<1>12. program[1] = head[1] /\ program[2] = head[2] /\ program[3] = head[3]
  BY <1>17, <1>18, <1>19
<1>13. \A i \in 1 .. L : program[i + 3] = tests[i]
  <2> SUFFICES ASSUME NEW i \in 1 .. L PROVE program[i + 3] = tests[i]
    OBVIOUS
  <2>1. i + 3 \in 1 .. L + 3 /\ i + 3 \in 1 .. L + 5 /\ ~ (i + 3 =< 3) /\ i + 3 =< L + 3 /\ i + 3 - 3 = i
    BY <1>17
  <2> QED
    BY <1>18, <1>19, <2>1
<1>14. program[L + 4] = tail[1] /\ program[L + 5] = tail[2]
  <2>1. ASSUME NEW p \in 1 .. L + 5, NEW q \in 1 .. 2, p = L + 3 + q PROVE program[p] = tail[q]
    <3>1. ~ (p =< L + 3) /\ p - (L + 3) = q
      BY <1>17, <2>1
    <3> QED
      BY <1>19, <3>1
  <2>2. L + 4 \in 1 .. L + 5 /\ L + 4 = L + 3 + 1 /\ 1 \in 1 .. 2
    BY <1>17
  <2>3. L + 5 \in 1 .. L + 5 /\ L + 5 = L + 3 + 2 /\ 2 \in 1 .. 2
    BY <1>17
  <2>4. program[L + 4] = tail[1]
    BY <2>1, <2>2
  <2>5. program[L + 5] = tail[2]
    BY <2>1, <2>3
  <2> QED
    BY <2>4, <2>5
<1>15. program \in Seq(Insns) /\ Len(program) = L + 5
  BY <1>11 DEF front, program
<1>16. BuildFilter(blocked) = program
  BY <1>9 DEF front, program
<1> QED
  BY <1>6, <1>7, <1>8, <1>12, <1>13, <1>14, <1>15, <1>16 DEF Filters, L

(* Where the filter's run is after n steps: still asking, on its way to    *)
(* the last instruction, or done.                                          *)
Killed(blocked, call) == call.arch # "x86_64" \/ call.nr \in ToSet(blocked)
Comparing(blocked, call, n, s) ==
    /\ s.verdict = "none" /\ s.pc = n + 1 /\ s.pc =< Len(blocked) + 4
    /\ call.arch = "x86_64" /\ s.acc = call.nr
    /\ \A j \in 1 .. n - 3 : blocked[j] # call.nr
Condemned(blocked, call, n, s) ==
    s.verdict = "none" /\ s.pc = Len(blocked) + 5 /\ n =< Len(blocked) + 3 /\ Killed(blocked, call)
Decided(blocked, call, s) == s.verdict = IF Killed(blocked, call) THEN "kill" ELSE "allow"
Reached(blocked, call, n, s) ==
    Comparing(blocked, call, n, s) \/ Condemned(blocked, call, n, s) \/ Decided(blocked, call, s)

LEMMA FilterStep ==
    ASSUME NEW blocked \in Seq(Words), NEW program, Filters(program, blocked), NEW call \in Calls,
           NEW n \in Nat, n >= 3, NEW s \in Machines, Reached(blocked, call, n, s)
    PROVE  Reached(blocked, call, n + 1, Execute(program, call, s))
<1>0. Len(blocked) \in Nat /\ Len(program) = Len(blocked) + 5 /\ Len(program) \in Nat
  BY LenProperties DEF Filters
<1>w. \A i \in 1 .. Len(blocked) : blocked[i] \in Words
  BY ElementOfSeq
<1>t. \A x : x \in ToSet(blocked) <=> \E j \in 1 .. Len(blocked) : blocked[j] = x
  <2>1. DOMAIN blocked = 1 .. Len(blocked)
    BY LenProperties
  <2> QED
    BY <2>1 DEF ToSet
<1>1. CASE Comparing(blocked, call, n, s)
  <2>1. s.verdict = "none" /\ s.pc = n + 1 /\ s.pc \in 1 .. Len(program) /\ call.arch = "x86_64" /\ s.acc = call.nr
    BY <1>0, <1>1 DEF Comparing
  <2>2. CASE n + 1 = Len(blocked) + 4
    <3>1. program[s.pc] = Return("allow") /\ "allow" \in Words
      BY <2>1, <2>2 DEF Filters, Words
    <3>2. Execute(program, call, s) = [pc |-> s.pc, acc |-> s.acc, verdict |-> "allow"]
      BY <1>0, <2>1, <3>1, ExecuteIs
    <3>3. n - 3 = Len(blocked)
      BY <1>0, <2>2
    <3>4. ~Killed(blocked, call)
      BY <1>1, <1>t, <2>1, <3>3 DEF Comparing, Killed
    <3> QED
      BY <3>2, <3>4 DEF Reached, Decided
  <2>3. CASE n + 1 # Len(blocked) + 4
    <3> DEFINE i == n - 2
    <3>1. i \in 1 .. Len(blocked) /\ s.pc = i + 3 /\ n + 1 =< Len(blocked) + 3
      BY <1>0, <1>1, <2>1, <2>3 DEF Comparing
    <3>2. /\ program[s.pc] = JumpIfEqual(blocked[i], Len(blocked) + 1 - i, 0)
          /\ blocked[i] \in Words /\ Len(blocked) + 1 - i \in Nat /\ 0 \in Nat
      <4> HIDE DEF i
      <4> QED
        BY <1>0, <1>w, <3>1 DEF Filters
    <3>6. \A k \in Words, jt \in Nat, jf \in Nat : program[s.pc] = JumpIfEqual(k, jt, jf) =>
             Execute(program, call, s) = [pc |-> s.pc + 1 + (IF s.acc = k THEN jt ELSE jf), acc |-> s.acc, verdict |-> "none"]
      <4> HIDE DEF i
      <4>1. s.verdict = "none" /\ s.pc \in 1 .. Len(program) /\ Len(program) \in Nat
        BY <1>0, <2>1
      <4> QED
        BY <4>1, ExecuteIs
    <3>3. Execute(program, call, s) =
            [pc |-> s.pc + 1 + (IF s.acc = blocked[i] THEN Len(blocked) + 1 - i ELSE 0), acc |-> s.acc, verdict |-> "none"]
      <4> HIDE DEF i
      <4> QED
        BY <3>2, <3>6
    <3>4. CASE s.acc = blocked[i]
      <4>1. s.pc + 1 + (Len(blocked) + 1 - i) = Len(blocked) + 5
        BY <1>0, <2>1
      <4>2. Execute(program, call, s) = [pc |-> Len(blocked) + 5, acc |-> s.acc, verdict |-> "none"]
        BY <3>3, <3>4, <4>1
      <4>3. Killed(blocked, call)
        <5> HIDE DEF i
        <5> QED
          BY <1>t, <2>1, <3>1, <3>4 DEF Killed
      <4> QED
        BY <3>1, <4>2, <4>3 DEF Reached, Condemned
    <3>5. CASE s.acc # blocked[i]
      <4>1. s.pc + 1 + 0 = n + 1 + 1 /\ n + 1 + 1 =< Len(blocked) + 4
        BY <1>0, <2>1, <3>1
      <4>2. Execute(program, call, s) = [pc |-> n + 1 + 1, acc |-> s.acc, verdict |-> "none"]
        BY <3>3, <3>5, <4>1
      <4>3. \A j \in 1 .. n + 1 - 3 : blocked[j] # call.nr
        <5>1. \A j \in 1 .. n + 1 - 3 : j = i \/ j \in 1 .. n - 3
          OBVIOUS
        <5> QED
          BY <1>1, <2>1, <3>5, <5>1 DEF Comparing
      <4> QED
        BY <2>1, <4>1, <4>2, <4>3 DEF Reached, Comparing
    <3> QED
      BY <3>4, <3>5
  <2> QED
    BY <2>2, <2>3
<1>2. CASE Condemned(blocked, call, n, s)
  <2>1. s.verdict = "none" /\ s.pc \in 1 .. Len(program) /\ program[s.pc] = Return("kill") /\ "kill" \in Words
    <3>1. "kill" \in Words
      BY DEF Words
    <3>2. s.verdict = "none" /\ s.pc = Len(blocked) + 5
      BY <1>2 DEF Condemned
    <3> QED
      BY <1>0, <3>1, <3>2 DEF Filters
  <2>2. Execute(program, call, s) = [pc |-> s.pc, acc |-> s.acc, verdict |-> "kill"]
    BY <1>0, <2>1, ExecuteIs
  <2> QED
    BY <1>2, <2>2 DEF Reached, Decided, Condemned
<1>3. CASE Decided(blocked, call, s)
  <2>1. Execute(program, call, s) = s
    BY <1>3 DEF Decided, Execute
  <2> QED
    BY <1>3, <2>1 DEF Reached, Decided
<1> QED
  BY <1>1, <1>2, <1>3 DEF Reached

(* The first three steps: the architecture is looked at, then the number.  *)
LEMMA FilterStart ==
    ASSUME NEW blocked \in Seq(Words), NEW program, Filters(program, blocked), NEW call \in Calls,
           NEW s1, NEW s2, NEW s3,
           s1 = Execute(program, call, Boot), s2 = Execute(program, call, s1), s3 = Execute(program, call, s2)
    PROVE  Reached(blocked, call, 3, s3)
<1>0. Len(blocked) \in Nat /\ Len(program) = Len(blocked) + 5 /\ Len(program) \in Nat
  BY LenProperties DEF Filters
<1>1. /\ Boot \in Machines /\ Boot.verdict = "none" /\ Boot.pc = 1 /\ 1 \in 1 .. Len(program)
      /\ 2 \in 1 .. Len(program) /\ 3 \in 1 .. Len(program)
  <2>1. "" \in Words /\ "none" \in Words
    BY DEF Words
  <2>2. 1 \in Nat \ {0}
    OBVIOUS
  <2>3. Boot \in Machines
    BY <2>1, <2>2, MachineOf DEF Boot
  <2>4. Boot.verdict = "none" /\ Boot.pc = 1
    BY DEF Boot
  <2>5. 1 \in 1 .. Len(program) /\ 2 \in 1 .. Len(program) /\ 3 \in 1 .. Len(program)
    BY <1>0
  <2> QED
    BY <2>3, <2>4, <2>5
<1>2. s1 = [pc |-> 2, acc |-> call["arch"], verdict |-> "none"]
  <2>1. 1 + 1 = 2
    OBVIOUS
  <2> QED
    BY <1>0, <1>1, <2>1, ExecuteIs DEF Filters
<1>3. s1 \in Machines /\ s2 \in Machines
  BY <1>1, ExecuteKeeps DEF Filters
<1>4. s2 = [pc |-> 2 + 1 + (IF call["arch"] = "x86_64" THEN 0 ELSE Len(blocked) + 2), acc |-> call["arch"], verdict |-> "none"]
  <2>1. s1.pc = 2 /\ s1.verdict = "none" /\ s1.acc = call["arch"]
    BY <1>2
  <2>2. 0 \in Nat /\ Len(blocked) + 2 \in Nat
    BY <1>0
  <2>3. "x86_64" \in Words
    BY DEF Words
  <2>4. program[s1.pc] = JumpIfEqual("x86_64", 0, Len(blocked) + 2)
    BY <2>1 DEF Filters
  <2>5. \A k \in Words, jt \in Nat, jf \in Nat : program[s1.pc] = JumpIfEqual(k, jt, jf) =>
           Execute(program, call, s1) = [pc |-> s1.pc + 1 + (IF s1.acc = k THEN jt ELSE jf), acc |-> s1.acc, verdict |-> "none"]
    BY <1>0, <1>1, <1>3, <2>1, ExecuteIs
  <2>6. s2 = [pc |-> s1.pc + 1 + (IF s1.acc = "x86_64" THEN 0 ELSE Len(blocked) + 2), acc |-> s1.acc, verdict |-> "none"]
    BY <2>2, <2>3, <2>4, <2>5
  <2> QED
    BY <2>1, <2>6
<1>5. CASE call.arch = "x86_64"
  <2>1. s2 = [pc |-> 3, acc |-> call["arch"], verdict |-> "none"]
    BY <1>4, <1>5
  <2>2. s3 = [pc |-> 3 + 1, acc |-> call["nr"], verdict |-> "none"]
    <3>1. s2.pc = 3 /\ s2.verdict = "none"
      BY <2>1
    <3> QED
      BY <1>0, <1>1, <1>3, <3>1, ExecuteIs DEF Filters
  <2>3. 3 + 1 =< Len(blocked) + 4 /\ \A j \in 1 .. 3 - 3 : FALSE
    BY <1>0
  <2> QED
    BY <1>5, <2>2, <2>3 DEF Reached, Comparing
<1>6. CASE call.arch # "x86_64"
  <2>1. s2.pc = Len(blocked) + 5 /\ s2.verdict = "none" /\ s2.pc \in 1 .. Len(program)
    BY <1>0, <1>4, <1>6
  <2>4. "kill" \in Words
    BY DEF Words
  <2>2. program[s2.pc] = Return("kill") /\ "kill" \in Words
    BY <2>1, <2>4 DEF Filters
  <2>3. s3 = [pc |-> s2.pc, acc |-> s2.acc, verdict |-> "kill"]
    BY <1>0, <1>3, <2>1, <2>2, ExecuteIs
  <2> QED
    BY <1>6, <2>3 DEF Reached, Decided, Killed
<1> QED
  BY <1>5, <1>6

LEMMA FilterDecides ==
    ASSUME NEW blocked \in Seq(Words), NEW call \in Calls
    PROVE  RunFilter(BuildFilter(blocked), call) = IF Killed(blocked, call) THEN "kill" ELSE "allow"
<1> DEFINE program == BuildFilter(blocked)
           after == Run(program, call)
           N == Len(program)
<1>1. Filters(program, blocked)
  BY FilterIs
<1>2. Len(blocked) \in Nat /\ N = Len(blocked) + 5 /\ N \in Nat /\ program \in Seq(Insns)
  <2> HIDE DEF program
  <2> QED
    BY <1>1, LenProperties DEF Filters
<1>3. /\ after \in [0 .. N -> Machines] /\ after[0] = Boot
      /\ \A n \in 1 .. N : after[n] = Execute(program, call, after[n - 1])
  BY <1>2, RunIs
<1> HIDE DEF after, program
<1> DEFINE S == {n \in 0 .. N : n >= 3 => Reached(blocked, call, n, after[n])}
<1>4. 0 \in S
  BY <1>2
<1>5. ASSUME NEW n \in 1 .. N, n - 1 \in S PROVE n \in S
  <2>1. CASE n < 3
    BY <2>1
  <2>2. CASE n = 3
    <3>1. /\ after[1] = Execute(program, call, Boot) /\ after[2] = Execute(program, call, after[1])
          /\ after[3] = Execute(program, call, after[2])
      <4>1. 1 \in 1 .. N /\ 2 \in 1 .. N /\ 3 \in 1 .. N /\ 1 - 1 = 0 /\ 2 - 1 = 1 /\ 3 - 1 = 2
        BY <1>2
      <4> QED
        BY <1>3, <4>1
    <3>2. Reached(blocked, call, 3, after[3])
      BY <1>1, <3>1, FilterStart
    <3> QED
      BY <2>2, <3>2
  <2>3. CASE n > 3
    <3>1. n - 1 \in Nat /\ n - 1 >= 3 /\ after[n - 1] \in Machines /\ Reached(blocked, call, n - 1, after[n - 1])
      BY <1>2, <1>3, <1>5, <2>3
    <3>2. Reached(blocked, call, n - 1 + 1, Execute(program, call, after[n - 1]))
      BY <1>1, <3>1, FilterStep
    <3>3. n - 1 + 1 = n /\ after[n] = Execute(program, call, after[n - 1])
      BY <1>3
    <3> QED
      BY <3>2, <3>3
  <2> QED
    BY <2>1, <2>2, <2>3
<1>6. 0 .. N \subseteq S
  <2> HIDE DEF S
  <2> QED
    BY <1>2, <1>4, <1>5, NumbersUpTo
<1>7. Reached(blocked, call, N, after[N])
  BY <1>2, <1>6
<1>8. Decided(blocked, call, after[N])
  BY <1>2, <1>7 DEF Reached, Comparing, Condemned
<1> QED
  BY <1>8, RunFilterIs DEF Decided, program, after

(* FilterKillsExactly: the filter kills a call exactly when it is blocked  *)
(* or of another architecture, for a list of any length, and so no jump of *)
(* it leaves the program (sandbox/_seccomp.py, build_filter).              *)
THEOREM FiltersKillExactly == Spec => []FilterKillsExactly
<1>1. ASSUME Answered PROVE FilterKillsExactly
  <2> SUFFICES ASSUME asked = "filter" PROVE FilterKillsExactly
    BY DEF FilterKillsExactly
  <2>1. question \in Seq(STRING) /\ answer = [call \in Calls |-> RunFilter(BuildFilter(question), call)]
    BY <1>1, QuestionsAssumption DEF Answered
  <2>2. question \in Seq(Words)
    <3>1. Len(question) \in Nat /\ question \in [1 .. Len(question) -> STRING]
      BY <2>1
    <3>2. question \in [1 .. Len(question) -> Words]
      BY <3>1 DEF Words
    <3> HIDE DEF Words
    <3> QED
      BY <3>1, <3>2
  <2>3. \A call \in Calls : RunFilter(BuildFilter(question), call) = IF Killed(question, call) THEN "kill" ELSE "allow"
    BY <2>2, FilterDecides
  <2> QED
    BY <2>1, <2>3 DEF FilterKillsExactly, Killed
<1> QED
  BY <1>1, AlwaysAnswered, PTL

-----------------------------------------------------------------------------
(* The chain of a tsconfig (node_build_system.py, _walk_extends).          *)

NextRead(files, w, depth) == IF w.ended # "no" THEN w ELSE WalkExtends(files, w, depth)
WalkBody(files, walk) ==
    [k \in 0 .. ExtendsMaxDepth + 1 |->
        IF k = 0 THEN ExtendsStart
        ELSE IF walk[k - 1].ended # "no" THEN walk[k - 1] ELSE WalkExtends(files, walk[k - 1], k - 1)]
Walked(files) == CHOOSE walk : walk = WalkBody(files, walk)
ChainBody(files, f) == [k \in 0 .. 5 |-> IF k = 0 THEN 1 ELSE IF f[k - 1] = 0 THEN 0 ELSE files[f[k - 1]].extends]

LEMMA ExtendsIs == ASSUME NEW files PROVE Extends(files) = Walked(files)[ExtendsMaxDepth + 1]
  BY DEF Extends, Walked, WalkBody
LEMMA ChainFileIs == ASSUME NEW files PROVE ChainFile(files) = CHOOSE f : f = ChainBody(files, f)
  BY DEF ChainFile, ChainBody

LEMMA WalkedIs ==
    ASSUME NEW files
    PROVE  /\ Walked(files)[0] = ExtendsStart
           /\ \A k \in 1 .. 5 : Walked(files)[k] = NextRead(files, Walked(files)[k - 1], k - 1)
<1> DEFINE w0 == ExtendsStart
           w1 == NextRead(files, w0, 0)
           w2 == NextRead(files, w1, 1)
           w3 == NextRead(files, w2, 2)
           w4 == NextRead(files, w3, 3)
           w5 == NextRead(files, w4, 4)
           f == [k \in 0 .. 5 |-> IF k = 0 THEN w0 ELSE IF k = 1 THEN w1 ELSE IF k = 2 THEN w2
                                  ELSE IF k = 3 THEN w3 ELSE IF k = 4 THEN w4 ELSE w5]
<1>1. /\ w1 = NextRead(files, w0, 0) /\ w2 = NextRead(files, w1, 1) /\ w3 = NextRead(files, w2, 2)
      /\ w4 = NextRead(files, w3, 3) /\ w5 = NextRead(files, w4, 4)
  OBVIOUS
<1> HIDE DEF w0, w1, w2, w3, w4, w5
<1>2. f[0] = w0 /\ f[1] = w1 /\ f[2] = w2 /\ f[3] = w3 /\ f[4] = w4 /\ f[5] = w5
  OBVIOUS
<1> HIDE DEF f
<1>3. \A k \in 1 .. 5 : f[k] = NextRead(files, f[k - 1], k - 1)
  <2> SUFFICES ASSUME NEW k \in 1 .. 5 PROVE f[k] = NextRead(files, f[k - 1], k - 1)
    OBVIOUS
  <2>1. CASE k = 1
    BY <1>1, <1>2, <2>1
  <2>2. CASE k = 2
    BY <1>1, <1>2, <2>2
  <2>3. CASE k = 3
    BY <1>1, <1>2, <2>3
  <2>4. CASE k = 4
    BY <1>1, <1>2, <2>4
  <2>5. CASE k = 5
    BY <1>1, <1>2, <2>5
  <2> QED
    BY <2>1, <2>2, <2>3, <2>4, <2>5
<1>4. f = WalkBody(files, f)
  <2>1. f = [k \in 0 .. 5 |-> f[k]]
    BY DEF f
  <2>2. \A k \in 0 .. 5 : f[k] = IF k = 0 THEN ExtendsStart
                                 ELSE IF f[k - 1].ended # "no" THEN f[k - 1] ELSE WalkExtends(files, f[k - 1], k - 1)
    <3>1. \A k \in 1 .. 5 : f[k] = IF f[k - 1].ended # "no" THEN f[k - 1] ELSE WalkExtends(files, f[k - 1], k - 1)
      BY <1>3 DEF NextRead
    <3>2. f[0] = ExtendsStart
      BY <1>2 DEF w0
    <3>3. \A k \in 0 .. 5 : k # 0 => k \in 1 .. 5
      OBVIOUS
    <3> QED
      BY <3>1, <3>2, <3>3, Zenon
  <2>3. 0 .. ExtendsMaxDepth + 1 = 0 .. 5
    BY DEF ExtendsMaxDepth
  <2> QED
    BY <2>1, <2>2, <2>3 DEF WalkBody
<1> DEFINE g == Walked(files)
<1>5. g = WalkBody(files, g)
  BY <1>4 DEF Walked
<1> HIDE DEF g
<1>6. \A k \in 0 .. 5 : g[k] = IF k = 0 THEN ExtendsStart
                               ELSE IF g[k - 1].ended # "no" THEN g[k - 1] ELSE WalkExtends(files, g[k - 1], k - 1)
  <2>1. 0 .. ExtendsMaxDepth + 1 = 0 .. 5
    BY DEF ExtendsMaxDepth
  <2> QED
    BY <1>5, <2>1 DEF WalkBody
<1>7. g[0] = ExtendsStart
  BY <1>6
<1>8. \A k \in 1 .. 5 : g[k] = NextRead(files, g[k - 1], k - 1)
  <2>1. \A k \in 1 .. 5 : k \in 0 .. 5 /\ k # 0
    OBVIOUS
  <2> QED
    BY <1>6, <2>1, Zenon DEF NextRead
<1> QED
  BY <1>7, <1>8 DEF g

LEMMA ChainIs ==
    ASSUME NEW files
    PROVE  /\ ChainFile(files)[0] = 1
           /\ \A k \in 1 .. 5 : ChainFile(files)[k] =
                 IF ChainFile(files)[k - 1] = 0 THEN 0 ELSE files[ChainFile(files)[k - 1]].extends
<1> DEFINE then(m) == IF m = 0 THEN 0 ELSE files[m].extends
           m1 == then(1)
           m2 == then(m1)
           m3 == then(m2)
           m4 == then(m3)
           m5 == then(m4)
           f == [k \in 0 .. 5 |-> IF k = 0 THEN 1 ELSE IF k = 1 THEN m1 ELSE IF k = 2 THEN m2
                                  ELSE IF k = 3 THEN m3 ELSE IF k = 4 THEN m4 ELSE m5]
<1>1. m1 = then(1) /\ m2 = then(m1) /\ m3 = then(m2) /\ m4 = then(m3) /\ m5 = then(m4)
  OBVIOUS
<1> HIDE DEF m1, m2, m3, m4, m5, then
<1>2. f[0] = 1 /\ f[1] = m1 /\ f[2] = m2 /\ f[3] = m3 /\ f[4] = m4 /\ f[5] = m5
  OBVIOUS
<1> HIDE DEF f
<1>3. \A k \in 1 .. 5 : f[k] = then(f[k - 1])
  <2> SUFFICES ASSUME NEW k \in 1 .. 5 PROVE f[k] = then(f[k - 1])
    OBVIOUS
  <2>1. CASE k = 1
    BY <1>1, <1>2, <2>1
  <2>2. CASE k = 2
    BY <1>1, <1>2, <2>2
  <2>3. CASE k = 3
    BY <1>1, <1>2, <2>3
  <2>4. CASE k = 4
    BY <1>1, <1>2, <2>4
  <2>5. CASE k = 5
    BY <1>1, <1>2, <2>5
  <2> QED
    BY <2>1, <2>2, <2>3, <2>4, <2>5
<1>4. f = ChainBody(files, f)
  <2>1. f = [k \in 0 .. 5 |-> f[k]]
    BY DEF f
  <2>2. \A k \in 0 .. 5 : f[k] = IF k = 0 THEN 1 ELSE IF f[k - 1] = 0 THEN 0 ELSE files[f[k - 1]].extends
    <3>1. \A k \in 0 .. 5 : k # 0 => k \in 1 .. 5
      OBVIOUS
    <3> QED
      BY <1>2, <1>3, <3>1, Zenon DEF then
  <2> QED
    BY <2>1, <2>2 DEF ChainBody
<1> DEFINE g == ChainFile(files)
<1>5. g = ChainBody(files, g)
  BY <1>4, ChainFileIs
<1> HIDE DEF g
<1>6. \A k \in 0 .. 5 : g[k] = IF k = 0 THEN 1 ELSE IF g[k - 1] = 0 THEN 0 ELSE files[g[k - 1]].extends
  BY <1>5 DEF ChainBody
<1>7. g[0] = 1
  BY <1>6
<1>8. \A k \in 1 .. 5 : g[k] = IF g[k - 1] = 0 THEN 0 ELSE files[g[k - 1]].extends
  <2>1. \A k \in 1 .. 5 : k \in 0 .. 5 /\ k # 0
    OBVIOUS
  <2> QED
    BY <1>6, <2>1, Zenon
<1> QED
  BY <1>7, <1>8 DEF g

ChainWalk(at, visited, options, warnings, ended) ==
    [at |-> at, visited |-> visited, options |-> options, warnings |-> warnings, ended |-> ended]

(* The prover takes the fields of an EXCEPT one at a time. *)
LEMMA WalkEnds ==
    ASSUME NEW at, NEW visited, NEW options, NEW warnings, NEW ended, NEW e
    PROVE  [ChainWalk(at, visited, options, warnings, ended) EXCEPT !.ended = e] = ChainWalk(at, visited, options, warnings, e)
  BY DEF ChainWalk
LEMMA WalkWarns ==
    ASSUME NEW at, NEW visited, NEW options, NEW warnings, NEW ended, NEW m
    PROVE  [ChainWalk(at, visited, options, warnings, ended) EXCEPT !.warnings = m] = ChainWalk(at, visited, options, m, ended)
  BY DEF ChainWalk
LEMMA WalkMoves ==
    ASSUME NEW at, NEW visited, NEW options, NEW warnings, NEW ended, NEW a
    PROVE  [ChainWalk(at, visited, options, warnings, ended) EXCEPT !.at = a] = ChainWalk(a, visited, options, warnings, ended)
  BY DEF ChainWalk
LEMMA WalkVisits ==
    ASSUME NEW at, NEW visited, NEW options, NEW warnings, NEW ended, NEW v
    PROVE  [ChainWalk(at, visited, options, warnings, ended) EXCEPT !.visited = v] = ChainWalk(at, v, options, warnings, ended)
  BY DEF ChainWalk
LEMMA WalkTakes ==
    ASSUME NEW at, NEW visited, NEW options, NEW warnings, NEW ended, NEW o
    PROVE  [ChainWalk(at, visited, options, warnings, ended) EXCEPT !.options = o] = ChainWalk(at, visited, o, warnings, ended)
  BY DEF ChainWalk

LEMMA WalkFields ==
    ASSUME NEW at, NEW visited, NEW options, NEW warnings, NEW ended
    PROVE  /\ ChainWalk(at, visited, options, warnings, ended).at = at
           /\ ChainWalk(at, visited, options, warnings, ended).visited = visited
           /\ ChainWalk(at, visited, options, warnings, ended).options = options
           /\ ChainWalk(at, visited, options, warnings, ended).warnings = warnings
           /\ ChainWalk(at, visited, options, warnings, ended).ended = ended
  BY DEF ChainWalk
LEMMA WalkEndsWarning ==
    ASSUME NEW at, NEW visited, NEW options, NEW warnings, NEW ended, NEW m
    PROVE  CutAs(ChainWalk(at, visited, options, warnings, ended), m) = ChainWalk(at, visited, options, << m >>, "stopped")
<1>0. PICK w : w = ChainWalk(at, visited, options, warnings, ended)
  OBVIOUS
<1>1. CutAs(w, m) = [[w EXCEPT !.ended = "stopped"] EXCEPT !.warnings = << m >>]
  BY DEF CutAs
<1>2. [w EXCEPT !.ended = "stopped"] = ChainWalk(at, visited, options, warnings, "stopped")
  BY <1>0, WalkEnds
<1>3. [ChainWalk(at, visited, options, warnings, "stopped") EXCEPT !.warnings = << m >>] = ChainWalk(at, visited, options, << m >>, "stopped")
  <2>1. \A ms : [ChainWalk(at, visited, options, warnings, "stopped") EXCEPT !.warnings = ms] = ChainWalk(at, visited, options, ms, "stopped")
    BY WalkWarns
  <2> QED
    BY <2>1
<1> QED
  BY <1>0, <1>1, <1>2, <1>3, Zenon
LEMMA WalkMovesOn ==
    ASSUME NEW at, NEW visited, NEW options, NEW warnings, NEW ended, NEW a
    PROVE  Follow(ChainWalk(at, visited, options, warnings, ended), a) = ChainWalk(a, visited \cup {at}, options, warnings, ended)
<1>0. PICK w : w = ChainWalk(at, visited, options, warnings, ended)
  OBVIOUS
<1>1. Follow(w, a) = [[w EXCEPT !.at = a] EXCEPT !.visited = w.visited \cup {w.at}]
  BY DEF Follow
<1>2. [w EXCEPT !.at = a] = ChainWalk(a, visited, options, warnings, ended)
  BY <1>0, WalkMoves
<1>3. \A v : [ChainWalk(a, visited, options, warnings, ended) EXCEPT !.visited = v] = ChainWalk(a, v, options, warnings, ended)
  BY WalkVisits
<1>4. w.visited = visited /\ w.at = at
  BY <1>0, WalkFields
<1> QED
  BY <1>0, <1>1, <1>2, <1>3, <1>4, Zenon

(* What one round of the walk does. *)
Got(files, at, options) == IF files[at].options THEN at ELSE options
LEMMA ReadExtendsIs ==
    ASSUME NEW files, NEW at, NEW visited, NEW options, NEW depth
    PROVE  ReadExtends(files, ChainWalk(at, visited, options, <<>>, "no"), depth) =
                IF files[at].extends = 0 THEN ChainWalk(at, visited, Got(files, at, options), <<>>, "stopped")
                ELSE IF depth = 4 THEN ChainWalk(at, visited, Got(files, at, options), << "extends_depth_exceeded" >>, "stopped")
                ELSE ChainWalk(files[at].extends, visited \cup {at}, Got(files, at, options), <<>>, "no")
<1>0. PICK w, got : w = ChainWalk(at, visited, options, <<>>, "no") /\ got = Got(files, at, options)
  OBVIOUS
<1>1. w.at = at /\ w.options = options /\ [w EXCEPT !.options = got] = ChainWalk(at, visited, got, <<>>, "no")
  BY <1>0, WalkFields, WalkTakes
<1>2. PICK read : read = ChainWalk(at, visited, got, <<>>, "no")
  OBVIOUS
<1>3. [read EXCEPT !.ended = "stopped"] = ChainWalk(at, visited, got, <<>>, "stopped")
  BY <1>2, WalkEnds
<1>6. CutAs(read, "extends_depth_exceeded") = ChainWalk(at, visited, got, << "extends_depth_exceeded" >>, "stopped")
  BY <1>2, WalkEndsWarning
<1>7. Follow(read, files[at].extends) = ChainWalk(files[at].extends, visited \cup {at}, got, <<>>, "no")
  BY <1>2, WalkMovesOn
<1>4. [w EXCEPT !.options = IF files[w.at].options THEN w.at ELSE @] = read
  BY <1>0, <1>1, <1>2 DEF Got
<1>5. ReadExtends(files, w, depth) =
            IF files[at].extends = 0 THEN [read EXCEPT !.ended = "stopped"]
            ELSE IF depth = 4 THEN CutAs(read, "extends_depth_exceeded")
            ELSE Follow(read, files[at].extends)
  BY <1>1, <1>4 DEF ReadExtends, ExtendsMaxDepth
<1> QED
  BY <1>0, <1>1, <1>3, <1>5, <1>6, <1>7, Zenon

Round(files, at, visited, options, depth, after) ==
    /\ ~files[at].inside => after = ChainWalk(at, visited, options, <<>>, "stopped")
    /\ files[at].inside /\ at \in visited => after = ChainWalk(at, visited, options, << "extends_cycle" >>, "stopped")
    /\ files[at].inside /\ at \notin visited /\ files[at].read # "ok" =>
          after = ChainWalk(at, visited, options, <<>>,
                            IF files[at].read \in {"size_cap_exceeded", "symlink_refused", "malformed"} THEN "stopped"
                            ELSE files[at].read)
    /\ files[at].inside /\ at \notin visited /\ files[at].read = "ok" =>
          after = IF files[at].extends = 0 THEN ChainWalk(at, visited, Got(files, at, options), <<>>, "stopped")
                  ELSE IF depth = 4 THEN ChainWalk(at, visited, Got(files, at, options), << "extends_depth_exceeded" >>, "stopped")
                  ELSE ChainWalk(files[at].extends, visited \cup {at}, Got(files, at, options), <<>>, "no")

LEMMA NextReadIs ==
    ASSUME NEW files, NEW at, NEW visited, NEW options, NEW depth
    PROVE  Round(files, at, visited, options, depth, NextRead(files, ChainWalk(at, visited, options, <<>>, "no"), depth))
<1> DEFINE after == NextRead(files, ChainWalk(at, visited, options, <<>>, "no"), depth)
<1>0. PICK w : w = ChainWalk(at, visited, options, <<>>, "no")
  OBVIOUS
<1>1. w.at = at /\ w.visited = visited /\ w.ended = "no"
  BY <1>0, WalkFields
<1>2. \A e : [w EXCEPT !.ended = e] = ChainWalk(at, visited, options, <<>>, e)
  BY <1>0, WalkEnds
<1>3. CutAs(w, "extends_cycle") = ChainWalk(at, visited, options, << "extends_cycle" >>, "stopped")
  BY <1>0, WalkEndsWarning
<1>4. after = WalkExtends(files, w, depth)
  BY <1>0, <1>1 DEF NextRead
<1> HIDE DEF after
<1>5. ASSUME ~files[at].inside
      PROVE  after = ChainWalk(at, visited, options, <<>>, "stopped")
  <2>1. WalkExtends(files, w, depth) = [w EXCEPT !.ended = "stopped"]
    BY <1>1, <1>5 DEF WalkExtends
  <2> QED
    BY <1>2, <1>4, <1>5, <2>1, Zenon
<1>6. ASSUME files[at].inside /\ at \in visited
      PROVE  after = ChainWalk(at, visited, options, << "extends_cycle" >>, "stopped")
  <2>1. WalkExtends(files, w, depth) = CutAs(w, "extends_cycle")
    BY <1>1, <1>6 DEF WalkExtends
  <2> QED
    BY <1>3, <1>4, <1>6, <2>1, Zenon
<1>7. ASSUME files[at].inside /\ at \notin visited /\ files[at].read # "ok"
      PROVE  after = ChainWalk(at, visited, options, <<>>,
                         IF files[at].read \in {"size_cap_exceeded", "symlink_refused", "malformed"} THEN "stopped" ELSE files[at].read)
  <2>1. WalkExtends(files, w, depth) =
           [w EXCEPT !.ended = IF files[at].read \in {"size_cap_exceeded", "symlink_refused", "malformed"} THEN "stopped" ELSE files[at].read]
    BY <1>1, <1>7 DEF WalkExtends
  <2> QED
    BY <1>2, <1>4, <1>7, <2>1, Zenon
<1>8. ASSUME files[at].inside /\ at \notin visited /\ files[at].read = "ok"
      PROVE  after = IF files[at].extends = 0 THEN ChainWalk(at, visited, Got(files, at, options), <<>>, "stopped")
               ELSE IF depth = 4 THEN ChainWalk(at, visited, Got(files, at, options), << "extends_depth_exceeded" >>, "stopped")
               ELSE ChainWalk(files[at].extends, visited \cup {at}, Got(files, at, options), <<>>, "no")
  <2>1. WalkExtends(files, w, depth) = ReadExtends(files, w, depth)
    BY <1>1, <1>8 DEF WalkExtends
  <2>2. ReadExtends(files, w, depth) =
             IF files[at].extends = 0 THEN ChainWalk(at, visited, Got(files, at, options), <<>>, "stopped")
             ELSE IF depth = 4 THEN ChainWalk(at, visited, Got(files, at, options), << "extends_depth_exceeded" >>, "stopped")
             ELSE ChainWalk(files[at].extends, visited \cup {at}, Got(files, at, options), <<>>, "no")
    BY <1>0, ReadExtendsIs
  <2> QED
    BY <1>4, <1>8, <2>1, <2>2, Zenon
<1> QED
  BY <1>5, <1>6, <1>7, <1>8, Zenon DEF after, Round

(* The chain's files, f[k] the k-th: which are read, and whose options     *)
(* stand after the first m.                                                *)
ComesBack(f, k) == f[k] \in {f[j] : j \in 0 .. k - 1}
IsRead(files, f, k) == f[k] # 0 /\ files[f[k]].inside /\ files[f[k]].read = "ok" /\ ~ComesBack(f, k)
AllRead(files, f, m) == \A j \in 0 .. m - 1 : IsRead(files, f, j)
HavingOptions(files, f, m) == {k \in 0 .. m - 1 : files[f[k]].options}
OptionsAfter(files, f, m) == IF HavingOptions(files, f, m) = {} THEN 0 ELSE f[Max(HavingOptions(files, f, m))]

(* Why the walk ended after m files, and what it said *)
CutHere(files, f, m, warnings) ==
    \/ m \in 0 .. 4 /\ f[m] # 0 /\ ~IsRead(files, f, m)
         /\ warnings = (IF files[f[m]].inside /\ ComesBack(f, m) THEN << "extends_cycle" >> ELSE <<>>)
    \/ m \in 1 .. 5 /\ f[m] = 0 /\ warnings = <<>>
    \/ m = 5 /\ f[5] # 0 /\ warnings = << "extends_depth_exceeded" >>
WalkOn(files, f, k, w) ==
    /\ k \in 0 .. 4 /\ AllRead(files, f, k) /\ f[k] # 0
    /\ w = ChainWalk(f[k], {f[j] : j \in 0 .. k - 1}, OptionsAfter(files, f, k), <<>>, "no")
WalkCut(files, f, w) ==
    \E m \in 0 .. 5 : \E visited, at, warnings :
        /\ AllRead(files, f, m) /\ CutHere(files, f, m, warnings)
        /\ w = ChainWalk(at, visited, OptionsAfter(files, f, m), warnings, "stopped")
WalkInv(files, f, k, w) == WalkOn(files, f, k, w) \/ WalkCut(files, f, w) \/ w.ended \notin {"no", "stopped"}

LEMMA MaxIs ==
    ASSUME NEW S, S \subseteq Nat, NEW x \in S, \A y \in S : y =< x
    PROVE  Max(S) = x
<1>1. Max(S) \in S /\ \A y \in S : Max(S) >= y
  <2>1. \E z \in S : \A y \in S : z >= y
    OBVIOUS
  <2> QED
    BY <2>1 DEF Max
<1>2. Max(S) \in Nat /\ x \in Nat /\ Max(S) =< x /\ Max(S) >= x
  BY <1>1
<1> HIDE DEF Max
<1> QED
  BY <1>2

LEMMA OptionsGrow ==
    ASSUME NEW files, NEW f, NEW m \in 0 .. 4
    PROVE  OptionsAfter(files, f, m + 1) = Got(files, f[m], OptionsAfter(files, f, m))
<1>0. \A k : k \in 0 .. m + 1 - 1 <=> k \in 0 .. m - 1 \/ k = m
  OBVIOUS
<1>1. CASE files[f[m]].options
  <2>1. m \in HavingOptions(files, f, m + 1)
    BY <1>1 DEF HavingOptions
  <2>2. Max(HavingOptions(files, f, m + 1)) = m
    <3>1. HavingOptions(files, f, m + 1) \subseteq Nat /\ \A y \in HavingOptions(files, f, m + 1) : y =< m
      BY DEF HavingOptions
    <3> QED
      BY <2>1, <3>1, MaxIs
  <2> QED
    BY <1>1, <2>1, <2>2 DEF OptionsAfter, Got
<1>2. CASE ~files[f[m]].options
  <2>1. HavingOptions(files, f, m + 1) = HavingOptions(files, f, m)
    BY <1>0, <1>2 DEF HavingOptions
  <2> QED
    BY <1>2, <2>1 DEF OptionsAfter, Got
<1> QED
  BY <1>1, <1>2

LEMMA ChainTyped ==
    ASSUME NEW files \in TsconfigChains
    PROVE  LET f == ChainFile(files) IN
           \A k \in 0 .. 5 : f[k] \in 0 .. Len(files)
<1> DEFINE f == ChainFile(files)
<1>1. Len(files) \in Nat /\ Len(files) >= 1 /\ \A i \in 1 .. Len(files) : files[i].extends \in 0 .. Len(files)
  <2> DEFINE R == [inside : BOOLEAN, read : TsconfigReads, options : BOOLEAN, extends : Nat]
  <2>1. files \in Seq(R) /\ Len(files) >= 1 /\ \A i \in 1 .. Len(files) : files[i].extends =< Len(files)
    BY DEF TsconfigChains
  <2>2. Len(files) \in Nat /\ \A i \in 1 .. Len(files) : files[i] \in R
    <3> HIDE DEF R
    <3> QED
      BY <2>1, ElementOfSeq, LenProperties
  <2> QED
    BY <2>1, <2>2
<1>2. f[0] = 1 /\ \A k \in 1 .. 5 : f[k] = IF f[k - 1] = 0 THEN 0 ELSE files[f[k - 1]].extends
  BY ChainIs
<1> HIDE DEF f
<1> DEFINE S == {k \in 0 .. 5 : f[k] \in 0 .. Len(files)}
<1>3. 0 \in S
  BY <1>1, <1>2
<1>4. \A k \in 1 .. 5 : k - 1 \in S => k \in S
  <2> SUFFICES ASSUME NEW k \in 1 .. 5, f[k - 1] \in 0 .. Len(files) PROVE f[k] \in 0 .. Len(files)
    OBVIOUS
  <2>1. CASE f[k - 1] = 0
    BY <1>1, <1>2, <2>1
  <2>2. CASE f[k - 1] # 0
    <3>1. f[k] = files[f[k - 1]].extends /\ f[k - 1] \in 1 .. Len(files)
      BY <1>1, <1>2, <2>2
    <3> QED
      BY <1>1, <3>1
  <2> QED
    BY <2>1, <2>2
<1>5. 0 .. 5 \subseteq S
  <2> HIDE DEF S
  <2> QED
    BY <1>3, <1>4, NumbersUpTo
<1> QED
  BY <1>5 DEF f

LEMMA WalkKeeps ==
    ASSUME NEW files, NEW f, NEW k \in 1 .. 5, NEW w, NEW after, after = NextRead(files, w, k - 1),
           f[k] = IF f[k - 1] = 0 THEN 0 ELSE files[f[k - 1]].extends,
           f[k - 1] # 0 => files[f[k - 1]].read \in TsconfigReads,
           WalkInv(files, f, k - 1, w)
    PROVE  WalkInv(files, f, k, after)
<1>1. CASE WalkCut(files, f, w)
  <2>1. w.ended = "stopped"
    BY <1>1, WalkFields DEF WalkCut
  <2>2. after = w
    BY <2>1 DEF NextRead
  <2> QED
    BY <1>1, <2>2 DEF WalkInv
<1>2. CASE w.ended \notin {"no", "stopped"}
  <2>1. after = w
    BY <1>2 DEF NextRead
  <2> QED
    BY <1>2, <2>1 DEF WalkInv
<1>3. CASE WalkOn(files, f, k - 1, w)
  <2> DEFINE m == k - 1
             at == f[m]
             visited == {f[j] : j \in 0 .. m - 1}
             options == OptionsAfter(files, f, m)
             got == Got(files, at, options)
  <2>0. m \in 0 .. 4 /\ k = m + 1 /\ m \in 0 .. 5 /\ m - 1 = k - 2
    OBVIOUS
  <2>1. AllRead(files, f, m) /\ at # 0 /\ w = ChainWalk(at, visited, options, <<>>, "no")
    BY <1>3 DEF WalkOn
  <2>2. after = NextRead(files, ChainWalk(at, visited, options, <<>>, "no"), m)
    BY <2>1
  <2>3. ComesBack(f, m) <=> at \in visited
    BY DEF ComesBack
  <2>4. got = OptionsAfter(files, f, k)
    BY <2>0, OptionsGrow
  <2>5. at # 0 /\ f[k] = files[at].extends /\ files[at].read \in TsconfigReads
    BY <2>1
  <2> HIDE DEF m, at, visited, options, got
  <2>11. /\ ~files[at].inside => after = ChainWalk(at, visited, options, <<>>, "stopped")
         /\ files[at].inside /\ at \in visited => after = ChainWalk(at, visited, options, << "extends_cycle" >>, "stopped")
         /\ files[at].inside /\ at \notin visited /\ files[at].read # "ok" =>
                 after = ChainWalk(at, visited, options, <<>>,
                                   IF files[at].read \in {"size_cap_exceeded", "symlink_refused", "malformed"} THEN "stopped"
                                   ELSE files[at].read)
         /\ files[at].inside /\ at \notin visited /\ files[at].read = "ok" =>
                 after = IF files[at].extends = 0 THEN ChainWalk(at, visited, Got(files, at, options), <<>>, "stopped")
                         ELSE IF m = 4 THEN ChainWalk(at, visited, Got(files, at, options), << "extends_depth_exceeded" >>, "stopped")
                         ELSE ChainWalk(files[at].extends, visited \cup {at}, Got(files, at, options), <<>>, "no")
    <3>1. Round(files, at, visited, options, m, after)
      BY <2>2, NextReadIs
    <3> QED
      BY <3>1, Zenon DEF Round
  <2>6. ASSUME NEW warnings, NEW a, NEW v, CutHere(files, f, m, warnings), after = ChainWalk(a, v, options, warnings, "stopped")
        PROVE  WalkInv(files, f, k, after)
    <3>1. WalkCut(files, f, after)
      <4> HIDE DEF m
      <4> QED
        BY <2>0, <2>1, <2>6 DEF WalkCut, options
    <3> QED
      BY <3>1 DEF WalkInv
  <2>7. CASE ~files[at].inside
    <3>1. after = ChainWalk(at, visited, options, <<>>, "stopped")
      BY <2>7, <2>11
    <3>2. CutHere(files, f, m, <<>>)
      BY <2>0, <2>5, <2>7 DEF CutHere, IsRead, at
    <3> QED
      BY <2>6, <3>1, <3>2
  <2>8. CASE files[at].inside /\ at \in visited
    <3>1. after = ChainWalk(at, visited, options, << "extends_cycle" >>, "stopped")
      BY <2>8, <2>11
    <3>2. CutHere(files, f, m, << "extends_cycle" >>)
      BY <2>0, <2>3, <2>5, <2>8 DEF CutHere, IsRead, at
    <3> QED
      BY <2>6, <3>1, <3>2
  <2>9. CASE files[at].inside /\ at \notin visited /\ files[at].read # "ok"
    <3> DEFINE ended == IF files[at].read \in {"size_cap_exceeded", "symlink_refused", "malformed"} THEN "stopped" ELSE files[at].read
    <3>1. after = ChainWalk(at, visited, options, <<>>, ended)
      BY <2>9, <2>11, Zenon
    <3>2. CASE ended = "stopped"
      <4>1. CutHere(files, f, m, <<>>)
        BY <2>0, <2>3, <2>5, <2>9 DEF CutHere, IsRead, at
      <4>2. after = ChainWalk(at, visited, options, <<>>, "stopped")
        BY <3>1, <3>2
      <4> QED
        BY <2>6, <4>1, <4>2
    <3>3. CASE ended # "stopped"
      <4>1. ended \notin {"no", "stopped"}
        BY <2>5, <3>3 DEF TsconfigReads
      <4>2. after.ended = ended
        <5> HIDE DEF ended
        <5> QED
          BY <3>1, WalkFields
      <4> QED
        BY <4>1, <4>2 DEF WalkInv
    <3> QED
      BY <3>2, <3>3
  <2>10. CASE files[at].inside /\ at \notin visited /\ files[at].read = "ok"
    <3>1. IsRead(files, f, m)
      BY <2>3, <2>5, <2>10 DEF IsRead, at
    <3>2. AllRead(files, f, k)
      <4>1. \A j \in 0 .. k - 1 : j = m \/ j \in 0 .. m - 1
        BY <2>0
      <4> HIDE DEF m
      <4> QED
        BY <2>1, <3>1, <4>1 DEF AllRead
    <3>3. after = IF f[k] = 0 THEN ChainWalk(at, visited, got, <<>>, "stopped")
                  ELSE IF m = 4 THEN ChainWalk(at, visited, got, << "extends_depth_exceeded" >>, "stopped")
                  ELSE ChainWalk(f[k], visited \cup {at}, got, <<>>, "no")
      BY <2>5, <2>10, <2>11, Zenon DEF got
    <3>4. ASSUME NEW warnings, CutHere(files, f, k, warnings), after = ChainWalk(at, visited, got, warnings, "stopped")
          PROVE  WalkInv(files, f, k, after)
      <4>1. WalkCut(files, f, after)
        BY <2>4, <3>2, <3>4 DEF WalkCut
      <4> QED
        BY <4>1 DEF WalkInv
    <3>5. CASE f[k] = 0
      <4>1. CutHere(files, f, k, <<>>)
        BY <3>5 DEF CutHere
      <4>2. after = ChainWalk(at, visited, got, <<>>, "stopped")
        BY <3>3, <3>5
      <4> QED
        BY <3>4, <4>1, <4>2
    <3>6. CASE f[k] # 0 /\ m = 4
      <4>1. CutHere(files, f, k, << "extends_depth_exceeded" >>)
        BY <2>0, <3>6 DEF CutHere
      <4>2. after = ChainWalk(at, visited, got, << "extends_depth_exceeded" >>, "stopped")
        BY <3>3, <3>6
      <4> QED
        BY <3>4, <4>1, <4>2
    <3>7. CASE f[k] # 0 /\ m # 4
      <4>1. after = ChainWalk(f[k], visited \cup {at}, got, <<>>, "no")
        BY <3>3, <3>7
      <4>2. visited \cup {at} = {f[j] : j \in 0 .. k - 1}
        <5>1. \A j : j \in 0 .. k - 1 <=> j = m \/ j \in 0 .. m - 1
          BY <2>0
        <5> HIDE DEF m
        <5> QED
          BY <5>1 DEF visited, at
      <4>3. k \in 0 .. 4
        BY <2>0, <3>7
      <4> QED
        BY <2>4, <3>2, <3>7, <4>1, <4>2, <4>3 DEF WalkInv, WalkOn
    <3> QED
      BY <3>5, <3>6, <3>7
  <2> QED
    BY <2>7, <2>8, <2>9, <2>10
<1> QED
  BY <1>1, <1>2, <1>3 DEF WalkInv

LEMMA WalkStarts ==
    ASSUME NEW files, NEW f, f[0] = 1
    PROVE  WalkInv(files, f, 0, ExtendsStart)
<1>1. \A j : j \notin 0 .. 0 - 1
  OBVIOUS
<1>2. AllRead(files, f, 0) /\ HavingOptions(files, f, 0) = {} /\ {f[j] : j \in 0 .. 0 - 1} = {}
  BY <1>1 DEF AllRead, HavingOptions
<1>3. OptionsAfter(files, f, 0) = 0
  BY <1>2 DEF OptionsAfter
<1>4. ExtendsStart = ChainWalk(1, {}, 0, <<>>, "no")
  BY DEF ExtendsStart, ChainWalk
<1>5. 0 \in 0 .. 4 /\ 1 # 0
  OBVIOUS
<1> QED
  BY <1>2, <1>3, <1>4, <1>5 DEF WalkInv, WalkOn

LEMMA WalkEndsCut ==
    ASSUME NEW files \in TsconfigChains, NEW w, w = Extends(files), w.ended = "stopped"
    PROVE  WalkCut(files, ChainFile(files), w)
<1> DEFINE f == ChainFile(files)
           walk == Walked(files)
<1>1. /\ f[0] = 1 /\ \A k \in 1 .. 5 : f[k] = IF f[k - 1] = 0 THEN 0 ELSE files[f[k - 1]].extends
      /\ \A k \in 0 .. 5 : f[k] \in 0 .. Len(files)
  BY ChainIs, ChainTyped
<1>2. walk[0] = ExtendsStart /\ \A k \in 1 .. 5 : walk[k] = NextRead(files, walk[k - 1], k - 1)
  BY WalkedIs
<1>3. w = walk[5]
  BY ExtendsIs DEF ExtendsMaxDepth
<1>4. Len(files) \in Nat /\ \A i \in 1 .. Len(files) : files[i].read \in TsconfigReads
  <2> DEFINE R == [inside : BOOLEAN, read : TsconfigReads, options : BOOLEAN, extends : Nat]
  <2>1. files \in Seq(R)
    BY DEF TsconfigChains
  <2>2. Len(files) \in Nat /\ \A i \in 1 .. Len(files) : files[i] \in R
    <3> HIDE DEF R
    <3> QED
      BY <2>1, ElementOfSeq, LenProperties
  <2> QED
    BY <2>2
<1> HIDE DEF f, walk
<1> DEFINE S == {k \in 0 .. 5 : WalkInv(files, f, k, walk[k])}
<1>5. 0 \in S
  BY <1>1, <1>2, WalkStarts
<1>6. ASSUME NEW k \in 1 .. 5, k - 1 \in S PROVE k \in S
  <2>1. k - 1 \in 0 .. 5 /\ WalkInv(files, f, k - 1, walk[k - 1])
    BY <1>6
  <2>2. f[k - 1] # 0 => files[f[k - 1]].read \in TsconfigReads
    <3>1. f[k - 1] \in 0 .. Len(files)
      BY <1>1, <2>1
    <3> QED
      BY <1>4, <3>1
  <2>3. WalkInv(files, f, k, walk[k])
    BY <1>1, <1>2, <2>1, <2>2, WalkKeeps
  <2> QED
    BY <2>3
<1>7. 0 .. 5 \subseteq S
  <2> HIDE DEF S
  <2> QED
    BY <1>5, <1>6, NumbersUpTo
<1>8. WalkInv(files, f, 5, walk[5])
  BY <1>7
<1> QED
  BY <1>3, <1>8 DEF WalkInv, WalkOn, f

LEMMA ChainCutForReason ==
    ASSUME NEW files \in TsconfigChains, NEW w, w = Extends(files), w.ended = "stopped"
    PROVE  LET f == ChainFile(files)
               Again(k) == f[k] \in {f[j] : j \in 0 .. k - 1}
               Reads(k) == \A j \in 0 .. k : f[j] # 0 /\ files[f[j]].inside /\ files[f[j]].read = "ok" /\ ~Again(j)
               having == {k \in 0 .. 4 : Reads(k) /\ files[f[k]].options}
           IN /\ w.options = (IF having = {} THEN 0 ELSE f[Max(having)])
              /\ w.warnings = << "extends_cycle" >> <=>
                   \E k \in 1 .. 4 : Reads(k - 1) /\ f[k] # 0 /\ files[f[k]].inside /\ Again(k)
              /\ w.warnings = << "extends_depth_exceeded" >> <=> Reads(4) /\ f[5] # 0
<1> DEFINE f == ChainFile(files)
           Again(k) == f[k] \in {f[j] : j \in 0 .. k - 1}
           Reads(k) == \A j \in 0 .. k : f[j] # 0 /\ files[f[j]].inside /\ files[f[j]].read = "ok" /\ ~Again(j)
           having == {k \in 0 .. 4 : Reads(k) /\ files[f[k]].options}
<1>0. PICK m \in 0 .. 5 :
         \E visited, at, warnings :
            /\ AllRead(files, f, m) /\ CutHere(files, f, m, warnings)
            /\ w = ChainWalk(at, visited, OptionsAfter(files, f, m), warnings, "stopped")
  BY WalkEndsCut DEF WalkCut
<1>1. PICK visited, at, warnings :
         /\ AllRead(files, f, m) /\ CutHere(files, f, m, warnings)
         /\ w = ChainWalk(at, visited, OptionsAfter(files, f, m), warnings, "stopped")
  BY <1>0
<1>2. w.options = OptionsAfter(files, f, m) /\ w.warnings = warnings
  <2> HIDE DEF f
  <2> QED
    BY <1>1, WalkFields
<1>3. \A k : Reads(k) <=> \A j \in 0 .. k : IsRead(files, f, j)
  BY DEF IsRead, ComesBack
<1>4. \A k : Again(k) <=> ComesBack(f, k)
  BY DEF ComesBack
<1> HIDE DEF f, Again, Reads
<1>5. m = 5 \/ ~IsRead(files, f, m)
  BY <1>1 DEF CutHere, IsRead
<1>7. \A k \in 0 .. 4 : Reads(k) <=> k < m
  <2> SUFFICES ASSUME NEW k \in 0 .. 4 PROVE Reads(k) <=> k < m
    OBVIOUS
  <2>1. CASE k < m
    <3>1. \A j \in 0 .. k : j \in 0 .. m - 1
      BY <2>1
    <3> QED
      BY <1>1, <1>3, <2>1, <3>1 DEF AllRead
  <2>2. CASE ~(k < m)
    <3>1. m \in 0 .. k /\ m # 5
      BY <2>2
    <3> QED
      BY <1>3, <1>5, <2>2, <3>1
  <2> QED
    BY <2>1, <2>2
<1>8. having = HavingOptions(files, f, m)
  <2>1. \A k : k \in 0 .. 4 /\ k < m <=> k \in 0 .. m - 1
    OBVIOUS
  <2> QED
    BY <1>7, <2>1 DEF HavingOptions
<1>9. w.options = (IF having = {} THEN 0 ELSE f[Max(having)])
  BY <1>2, <1>8 DEF OptionsAfter
<1>10. ~ComesBack(f, 0)
  BY DEF ComesBack
<1>11. \A k \in 1 .. 4 : Reads(k - 1) /\ f[k] # 0 /\ files[f[k]].inside /\ Again(k) =>
          k = m /\ ~IsRead(files, f, m) /\ f[m] # 0 /\ files[f[m]].inside /\ ComesBack(f, m)
  <2> SUFFICES ASSUME NEW k \in 1 .. 4, Reads(k - 1), f[k] # 0, files[f[k]].inside, Again(k)
               PROVE  k = m /\ ~IsRead(files, f, m) /\ f[m] # 0 /\ files[f[m]].inside /\ ComesBack(f, m)
    OBVIOUS
  <2>1. k - 1 < m
    BY <1>7
  <2>2. ~IsRead(files, f, k)
    BY <1>4 DEF IsRead
  <2>3. ~(k < m)
    BY <1>1, <2>2 DEF AllRead
  <2>4. k = m
    BY <2>1, <2>3
  <2> QED
    BY <1>4, <2>2, <2>4
<1>12. << "extends_cycle" >> # <<>> /\ << "extends_depth_exceeded" >> # <<>> /\ << "extends_cycle" >> # << "extends_depth_exceeded" >>
  OBVIOUS
<1>13. w.warnings = << "extends_cycle" >> <=> \E k \in 1 .. 4 : Reads(k - 1) /\ f[k] # 0 /\ files[f[k]].inside /\ Again(k)
  <2>1. ASSUME w.warnings = << "extends_cycle" >>
        PROVE  \E k \in 1 .. 4 : Reads(k - 1) /\ f[k] # 0 /\ files[f[k]].inside /\ Again(k)
    <3>1. m \in 0 .. 4 /\ f[m] # 0 /\ files[f[m]].inside /\ ComesBack(f, m)
      BY <1>1, <1>2, <1>12, <2>1 DEF CutHere
    <3>2. m \in 1 .. 4 /\ m - 1 \in 0 .. 4 /\ m - 1 < m
      BY <1>10, <3>1
    <3> QED
      BY <1>4, <1>7, <3>1, <3>2
  <2>2. ASSUME NEW k \in 1 .. 4, Reads(k - 1), f[k] # 0, files[f[k]].inside, Again(k)
        PROVE  w.warnings = << "extends_cycle" >>
    <3>1. m \in 1 .. 4 /\ ~IsRead(files, f, m) /\ f[m] # 0 /\ files[f[m]].inside /\ ComesBack(f, m)
      BY <1>11, <2>2
    <3> QED
      BY <1>1, <1>2, <3>1 DEF CutHere
  <2> QED
    BY <2>1, <2>2
<1>14. w.warnings = << "extends_depth_exceeded" >> <=> Reads(4) /\ f[5] # 0
  <2>1. ASSUME w.warnings = << "extends_depth_exceeded" >> PROVE Reads(4) /\ f[5] # 0
    <3>1. m = 5 /\ f[5] # 0
      BY <1>1, <1>2, <1>12, <2>1 DEF CutHere
    <3> QED
      BY <1>7, <3>1
  <2>2. ASSUME Reads(4), f[5] # 0 PROVE w.warnings = << "extends_depth_exceeded" >>
    <3>1. m = 5
      BY <1>7, <2>2
    <3> QED
      BY <1>1, <1>2, <2>2, <3>1 DEF CutHere
  <2> QED
    BY <2>1, <2>2
<1> QED
  BY <1>9, <1>13, <1>14 DEF f, Again, Reads

(* ExtendsCutForReason: a chain of tsconfigs is cut as a cycle at the      *)
(* first file that comes back, as too deep at the sixth, silently where a  *)
(* file is outside or refused, and the options are those of the last file  *)
(* read that has some, for any files (node_build_system.py,                *)
(* _walk_extends).                                                         *)
THEOREM ChainsAreCutForReason == Spec => []ExtendsCutForReason
<1>1. ASSUME Answered PROVE ExtendsCutForReason
  <2> SUFFICES ASSUME asked = "extends", answer.ended = "stopped" PROVE ExtendsCutForReason
    BY DEF ExtendsCutForReason
  <2>1. question \in TsconfigChains /\ answer = Extends(question)
    BY <1>1, QuestionsAssumption DEF Answered
  <2> QED
    BY <2>1, ChainCutForReason DEF ExtendsCutForReason
<1> QED
  BY <1>1, AlwaysAnswered, PTL

-----------------------------------------------------------------------------
(* Nesting: the walk of a graph of containers (parsers/_depth.py).         *)

Walks(graph) == [seen : SUBSET DOMAIN graph, raised : BOOLEAN]
VisitsTo3(graph) == Visits(DOMAIN graph, 0 .. 3, SUBSET DOMAIN graph)
VisitBody(graph, walk) ==
    [v \in VisitsTo3(graph) |-> WalkDepth(walk, graph, v[1], v[2], 2, v[3])]
TheWalk(graph) == CHOOSE walk : walk = VisitBody(graph, walk)

LEMMA ExceedsIs == ASSUME NEW graph PROVE ExceedsDepth(graph, 2) = TheWalk(graph)[<< 1, 0, {} >>].raised
<1>1. 2 + 1 = 3
  OBVIOUS
<1> QED
  BY <1>1 DEF ExceedsDepth, TheWalk, VisitBody, VisitsTo3

LEMMA TriplesAre ==
    ASSUME NEW A, NEW B, NEW C
    PROVE  /\ \A a \in A, b \in B, c \in C : << a, b, c >> \in Visits(A, B, C)
           /\ \A x \in Visits(A, B, C) : x[1] \in A /\ x[2] \in B /\ x[3] \in C /\ x = << x[1], x[2], x[3] >>
  BY DEF Visits

LEMMA VisitsAre ==
    ASSUME NEW graph
    PROVE  /\ \A n \in DOMAIN graph, current \in 0 .. 3, seen \in SUBSET DOMAIN graph : << n, current, seen >> \in VisitsTo3(graph)
           /\ \A x \in VisitsTo3(graph) : /\ x[1] \in DOMAIN graph /\ x[2] \in 0 .. 3 /\ x[3] \in SUBSET DOMAIN graph
                                       /\ x = << x[1], x[2], x[3] >>
  BY TriplesAre DEF VisitsTo3

LEMMA ContainersAre ==
    ASSUME NEW graph \in Containers, NEW n \in DOMAIN graph
    PROVE  /\ Len(graph) \in Nat /\ DOMAIN graph = 1 .. Len(graph) /\ 1 \in DOMAIN graph
           /\ graph[n] \in Seq(Nat) /\ Len(graph[n]) \in Nat /\ DOMAIN graph[n] = 1 .. Len(graph[n])
           /\ \A k \in 1 .. Len(graph[n]) : graph[n][k] \in DOMAIN graph
<1>1. graph \in Seq(Seq(Nat)) /\ Len(graph) >= 1 /\ ToSet(graph[n]) \subseteq DOMAIN graph
  BY DEF Containers
<1>2. Len(graph) \in Nat /\ DOMAIN graph = 1 .. Len(graph) /\ graph[n] \in Seq(Nat)
  BY <1>1
<1>3. Len(graph[n]) \in Nat /\ DOMAIN graph[n] = 1 .. Len(graph[n])
  BY <1>2
<1>4. \A k \in 1 .. Len(graph[n]) : graph[n][k] \in DOMAIN graph
  BY <1>1, <1>3 DEF ToSet
<1> QED
  BY <1>1, <1>2, <1>3, <1>4

(* The state of the walk after each of the containers in one. *)
IntoStep(walk, graph, n, current, w, k) == IF w.raised THEN w ELSE walk[<< graph[n][k], current + 1, w.seen >>]
Into(walk, graph, n, current, seen, f) ==
    /\ f \in [0 .. Len(graph[n]) -> Walks(graph)]
    /\ f[0] = [seen |-> seen \cup {n}, raised |-> FALSE]
    /\ \A k \in 1 .. Len(graph[n]) : f[k] = IntoStep(walk, graph, n, current, f[k - 1], k)

TypedAt(graph, walk, current) ==
    \A n \in DOMAIN graph, seen \in SUBSET DOMAIN graph : walk[<< n, current, seen >>] \in Walks(graph)
TypedBelow(graph, walk, current) == current < 3 => TypedAt(graph, walk, current + 1)
Enters(graph, walk, n, current, seen) ==
    \E f : Into(walk, graph, n, current, seen, f) /\ Entered(walk, graph, n, current, seen) = f[Len(graph[n])]

LEMMA IntoStepTyped ==
    ASSUME NEW graph \in Containers, NEW walk, NEW n \in DOMAIN graph, NEW current \in 0 .. 2, TypedBelow(graph, walk, current),
           NEW w \in Walks(graph), NEW k \in 1 .. Len(graph[n])
    PROVE  IntoStep(walk, graph, n, current, w, k) \in Walks(graph)
<1>1. graph[n][k] \in DOMAIN graph
  BY ContainersAre
<1>2. w.seen \in SUBSET DOMAIN graph
  BY DEF Walks
<1>3. walk[<< graph[n][k], current + 1, w.seen >>] \in Walks(graph)
  BY <1>1, <1>2 DEF TypedBelow, TypedAt
<1> QED
  BY <1>3 DEF IntoStep

LEMMA EnteredIs ==
    ASSUME NEW graph \in Containers, NEW walk, NEW n \in DOMAIN graph, NEW current \in 0 .. 2, TypedBelow(graph, walk, current),
           NEW seen \in SUBSET DOMAIN graph
    PROVE  Enters(graph, walk, n, current, seen)
<1> DEFINE N == Len(graph[n])
           V == Walks(graph)
           base == [seen |-> seen \cup {n}, raised |-> FALSE]
           step == [x \in (1 .. N) \X V |-> IntoStep(walk, graph, n, current, x[2], x[1])]
           Body(f) == [k \in 0 .. N |-> IF k = 0 THEN base
                                        ELSE IF f[k - 1].raised THEN f[k - 1] ELSE walk[<< graph[n][k], current + 1, f[k - 1].seen >>]]
           into == CHOOSE f : f = Body(f)
<1>1. N \in Nat
  BY ContainersAre
<1>2. step \in [(1 .. N) \X V -> V]
  BY IntoStepTyped
<1>3. base \in V
  BY DEF Walks
<1>4. PICK f : Steps(N, V, base, step, f)
  <2> HIDE DEF N, V, base, step
  <2> QED
    BY <1>1, <1>2, <1>3, StepsExist
<1>5. f \in [0 .. N -> V] /\ f[0] = base
  BY <1>4 DEF Steps
<1>6. ASSUME NEW k \in 1 .. N PROVE f[k] = IntoStep(walk, graph, n, current, f[k - 1], k)
  <2>1. k - 1 \in 0 .. N
    BY <1>1
  <2>2. f[k] = step[<<k, f[k - 1]>>] /\ f[k - 1] \in V
    <3> HIDE DEF step, V, N
    <3> QED
      BY <1>4, <1>5, <2>1 DEF Steps
  <2> QED
    BY <2>2
<1>7. f = Body(f)
  <2>1. \A k \in 0 .. N : f[k] = IF k = 0 THEN base ELSE IntoStep(walk, graph, n, current, f[k - 1], k)
    <3> HIDE DEF V, base, N
    <3> QED
      BY <1>1, <1>5, <1>6
  <2>2. f = [k \in 0 .. N |-> f[k]]
    <3> HIDE DEF V, base, N
    <3> QED
      BY <1>5
  <2> HIDE DEF V, base, N
  <2> QED
    BY <2>1, <2>2 DEF IntoStep
<1>8. into = Body(into)
  <2> HIDE DEF Body
  <2> QED
    BY <1>7
<1>9. Entered(walk, graph, n, current, seen) = into[N]
  BY DEF Entered
<1> HIDE DEF into, base
<1>10. into[0] = base /\ \A k \in 1 .. N : into[k] = IntoStep(walk, graph, n, current, into[k - 1], k)
  <2>1. \A k \in 0 .. N : into[k] = IF k = 0 THEN base ELSE IntoStep(walk, graph, n, current, into[k - 1], k)
    BY <1>8 DEF IntoStep
  <2> HIDE DEF N
  <2> QED
    BY <1>1, <2>1
<1>11. into \in [0 .. N -> V]
  <2> DEFINE S == {k \in 0 .. N : into[k] \in V}
  <2> HIDE DEF V, N
  <2>1. 0 \in S
    BY <1>1, <1>3, <1>10
  <2>2. \A k \in 1 .. N : k - 1 \in S => k \in S
    <3>1. ASSUME NEW k \in 1 .. N, into[k - 1] \in V PROVE into[k] \in V
      <4>1. IntoStep(walk, graph, n, current, into[k - 1], k) \in V
        BY <3>1, IntoStepTyped DEF V, N
      <4> QED
        BY <1>10, <4>1
    <3> QED
      BY <1>1, <3>1
  <2>3. 0 .. N \subseteq S
    <3> HIDE DEF S
    <3> QED
      BY <1>1, <2>1, <2>2, NumbersUpTo
  <2>4. \A k \in 0 .. N : into[k] \in V
    BY <2>3
  <2>5. into = [k \in 0 .. N |-> into[k]]
    BY <1>8
  <2> QED
    BY <2>4, <2>5
<1> QED
  BY <1>9, <1>10, <1>11 DEF Enters, Into, base

(* What is in a container is walked one level below it. *)
AgreeBelow(graph, v, w, current) ==
    \A n \in DOMAIN graph, seen \in SUBSET DOMAIN graph : v[<< n, current + 1, seen >>] = w[<< n, current + 1, seen >>]

LEMMA EnteredAgree ==
    ASSUME NEW graph \in Containers, NEW v, NEW w, NEW n \in DOMAIN graph, NEW current \in 0 .. 2, NEW seen \in SUBSET DOMAIN graph,
           TypedBelow(graph, v, current), TypedBelow(graph, w, current), AgreeBelow(graph, v, w, current)
    PROVE  Entered(v, graph, n, current, seen) = Entered(w, graph, n, current, seen)
<1> DEFINE N == Len(graph[n])
<1>1. PICK f : Into(v, graph, n, current, seen, f) /\ Entered(v, graph, n, current, seen) = f[N]
  <2>1. Enters(graph, v, n, current, seen)
    BY EnteredIs
  <2> QED
    BY <2>1 DEF Enters
<1>2. PICK g : Into(w, graph, n, current, seen, g) /\ Entered(w, graph, n, current, seen) = g[N]
  <2>1. Enters(graph, w, n, current, seen)
    BY EnteredIs
  <2> QED
    BY <2>1 DEF Enters
<1>3. N \in Nat
  BY ContainersAre
<1> DEFINE S == {k \in 0 .. N : f[k] = g[k]}
<1>4. 0 \in S
  <2>1. f[0] = [seen |-> seen \cup {n}, raised |-> FALSE] /\ g[0] = [seen |-> seen \cup {n}, raised |-> FALSE]
    BY <1>1, <1>2 DEF Into
  <2> QED
    BY <1>3, <2>1
<1>5. ASSUME NEW k \in 1 .. N, k - 1 \in S PROVE k \in S
  <2>1. f[k - 1] = g[k - 1] /\ f[k - 1] \in Walks(graph) /\ graph[n][k] \in DOMAIN graph
    <3>1. k - 1 \in 0 .. N /\ f \in [0 .. N -> Walks(graph)]
      BY <1>1, <1>3 DEF Into
    <3> QED
      BY <1>5, <3>1, ContainersAre
  <2>2. f[k - 1].seen \in SUBSET DOMAIN graph
    BY <2>1 DEF Walks
  <2>3. v[<< graph[n][k], current + 1, f[k - 1].seen >>] = w[<< graph[n][k], current + 1, f[k - 1].seen >>]
    BY <2>1, <2>2 DEF AgreeBelow
  <2>4. f[k] = IntoStep(v, graph, n, current, f[k - 1], k) /\ g[k] = IntoStep(w, graph, n, current, g[k - 1], k)
    BY <1>1, <1>2 DEF Into
  <2> QED
    BY <2>1, <2>3, <2>4 DEF IntoStep
<1>6. 0 .. N \subseteq S
  <2> HIDE DEF S, N
  <2> QED
    BY <1>3, <1>4, <1>5, NumbersUpTo
<1>7. f[N] = g[N]
  BY <1>3, <1>6
<1> QED
  BY <1>1, <1>2, <1>7

LEMMA WalkDepthTyped ==
    ASSUME NEW graph \in Containers, NEW walk, NEW n \in DOMAIN graph, NEW current \in 0 .. 3,
           TypedBelow(graph, walk, current), NEW seen \in SUBSET DOMAIN graph
    PROVE  WalkDepth(walk, graph, n, current, 2, seen) \in Walks(graph)
<1>1. [seen |-> seen, raised |-> TRUE] \in Walks(graph) /\ [seen |-> seen, raised |-> FALSE] \in Walks(graph)
  BY DEF Walks
<1>2. CASE current > 2
  BY <1>1, <1>2 DEF WalkDepth
<1>3. CASE current \in 0 .. 2
  <2>1. PICK f : Into(walk, graph, n, current, seen, f) /\ Entered(walk, graph, n, current, seen) = f[Len(graph[n])]
    <3>1. TypedBelow(graph, walk, current)
      BY <1>3
    <3>2. Enters(graph, walk, n, current, seen)
      BY <1>3, <3>1, EnteredIs
    <3> QED
      BY <3>2 DEF Enters
  <2>2. Len(graph[n]) \in 0 .. Len(graph[n])
    <3>1. Len(graph[n]) \in Nat
      BY ContainersAre
    <3> QED
      BY <3>1
  <2>3. Entered(walk, graph, n, current, seen) \in Walks(graph)
    BY <2>1, <2>2 DEF Into
  <2> QED
    BY <1>1, <1>3, <2>3 DEF WalkDepth
<1> QED
  BY <1>2, <1>3

LEMMA VisitsTyped ==
    ASSUME NEW graph, NEW walk \in [VisitsTo3(graph) -> Walks(graph)], NEW current \in 0 .. 3 PROVE TypedAt(graph, walk, current)
  BY VisitsAre DEF TypedAt

LEMMA VisitBodyIs ==
    ASSUME NEW graph, NEW walk
    PROVE  \A n \in DOMAIN graph, current \in 0 .. 3, seen \in SUBSET DOMAIN graph :
                VisitBody(graph, walk)[<< n, current, seen >>] = WalkDepth(walk, graph, n, current, 2, seen)
  BY VisitsAre DEF VisitBody

LEMMA VisitBodyTyped ==
    ASSUME NEW graph \in Containers, NEW walk \in [VisitsTo3(graph) -> Walks(graph)]
    PROVE  VisitBody(graph, walk) \in [VisitsTo3(graph) -> Walks(graph)]
<1>1. ASSUME NEW n \in DOMAIN graph, NEW current \in 0 .. 3, NEW seen \in SUBSET DOMAIN graph
      PROVE  WalkDepth(walk, graph, n, current, 2, seen) \in Walks(graph)
  <2>1. TypedBelow(graph, walk, current)
    <3>1. current < 3 => current + 1 \in 0 .. 3
      OBVIOUS
    <3> QED
      BY <3>1, VisitsTyped DEF TypedBelow
  <2> QED
    BY <2>1, WalkDepthTyped
<1> QED
  BY <1>1, VisitsAre DEF VisitBody

LEMMA BodiesAgree ==
    ASSUME NEW graph \in Containers, NEW v \in [VisitsTo3(graph) -> Walks(graph)], NEW w \in [VisitsTo3(graph) -> Walks(graph)],
           NEW current \in 0 .. 3, current < 3 => AgreeBelow(graph, v, w, current),
           NEW n \in DOMAIN graph, NEW seen \in SUBSET DOMAIN graph
    PROVE  VisitBody(graph, v)[<< n, current, seen >>] = VisitBody(graph, w)[<< n, current, seen >>]
<1>1. /\ VisitBody(graph, v)[<< n, current, seen >>] = WalkDepth(v, graph, n, current, 2, seen)
      /\ VisitBody(graph, w)[<< n, current, seen >>] = WalkDepth(w, graph, n, current, 2, seen)
  BY VisitBodyIs
<1>2. CASE current > 2
  BY <1>1, <1>2 DEF WalkDepth
<1>3. CASE current \in 0 .. 2
  <2>1. current + 1 \in 0 .. 3 /\ current < 3
    BY <1>3
  <2>2. TypedBelow(graph, v, current) /\ TypedBelow(graph, w, current)
    BY <2>1, VisitsTyped DEF TypedBelow
  <2>3. AgreeBelow(graph, v, w, current)
    BY <2>1
  <2>4. Entered(v, graph, n, current, seen) = Entered(w, graph, n, current, seen)
    BY <1>3, <2>2, <2>3, EnteredAgree
  <2>5. ~ (current > 2)
    BY <1>3
  <2>6. WalkDepth(v, graph, n, current, 2, seen) = WalkDepth(w, graph, n, current, 2, seen)
    BY <2>4, <2>5 DEF WalkDepth
  <2> QED
    BY <1>1, <2>6
<1> QED
  BY <1>2, <1>3

(* There is such a walk: level by level, from the deepest. *)
LEMMA TheWalkIs ==
    ASSUME NEW graph \in Containers
    PROVE  /\ \A current \in 0 .. 3 : TypedAt(graph, TheWalk(graph), current)
           /\ \A n \in DOMAIN graph, current \in 0 .. 3, seen \in SUBSET DOMAIN graph :
                TheWalk(graph)[<< n, current, seen >>] = WalkDepth(TheWalk(graph), graph, n, current, 2, seen)
<1> DEFINE T == [VisitsTo3(graph) -> Walks(graph)]
           w0 == [x \in VisitsTo3(graph) |-> [seen |-> x[3], raised |-> TRUE]]
           w1 == VisitBody(graph, w0)
           w2 == VisitBody(graph, w1)
           w3 == VisitBody(graph, w2)
           w4 == VisitBody(graph, w3)
           w5 == VisitBody(graph, w4)
<1>1. w0 \in T
  BY VisitsAre DEF Walks
<1> HIDE DEF w0
<1>2. w1 \in T /\ w2 \in T /\ w3 \in T /\ w4 \in T /\ w5 \in T
  <2>1. w1 \in T
    BY <1>1, VisitBodyTyped
  <2> HIDE DEF w1
  <2>2. w2 \in T
    BY <2>1, VisitBodyTyped
  <2> HIDE DEF w2
  <2>3. w3 \in T
    BY <2>2, VisitBodyTyped
  <2> HIDE DEF w3
  <2>4. w4 \in T
    BY <2>3, VisitBodyTyped
  <2> HIDE DEF w4
  <2>5. w5 \in T
    BY <2>4, VisitBodyTyped
  <2> QED
    BY <2>1, <2>2, <2>3, <2>4, <2>5
<1> DEFINE Same(v, w, c) == \A n \in DOMAIN graph, seen \in SUBSET DOMAIN graph : v[<< n, c, seen >>] = w[<< n, c, seen >>]
<1>3. ASSUME NEW v \in T, NEW w \in T PROVE Same(VisitBody(graph, v), VisitBody(graph, w), 3)
  <2>1. 3 \in 0 .. 3 /\ ~ (3 < 3)
    OBVIOUS
  <2> QED
    BY <2>1, BodiesAgree
<1>4. ASSUME NEW v \in T, NEW w \in T, NEW c \in 0 .. 2, Same(v, w, c + 1)
      PROVE  Same(VisitBody(graph, v), VisitBody(graph, w), c)
  <2>1. AgreeBelow(graph, v, w, c)
    BY <1>4 DEF AgreeBelow
  <2> QED
    BY <2>1, BodiesAgree
<1> HIDE DEF T, Same
<1>5. Same(w1, w2, 3) /\ Same(w2, w3, 3) /\ Same(w3, w4, 3) /\ Same(w4, w5, 3)
  BY <1>1, <1>2, <1>3
<1>6. Same(w2, w3, 2) /\ Same(w3, w4, 2) /\ Same(w4, w5, 2)
  <2>1. 2 \in 0 .. 2 /\ 2 + 1 = 3
    OBVIOUS
  <2> QED
    BY <1>2, <1>4, <1>5, <2>1
<1>7. Same(w3, w4, 1) /\ Same(w4, w5, 1)
  <2>1. 1 \in 0 .. 2 /\ 1 + 1 = 2
    OBVIOUS
  <2> QED
    BY <1>2, <1>4, <1>6, <2>1
<1>8. Same(w4, w5, 0)
  <2>1. 0 \in 0 .. 2 /\ 0 + 1 = 1
    OBVIOUS
  <2> QED
    BY <1>2, <1>4, <1>7, <2>1
<1> HIDE DEF w4
<1>9. w4 = w5
  <2>1. \A c \in 0 .. 3 : c = 0 \/ c = 1 \/ c = 2 \/ c = 3
    OBVIOUS
  <2>2. \A n \in DOMAIN graph, c \in 0 .. 3, seen \in SUBSET DOMAIN graph : w4[<< n, c, seen >>] = w5[<< n, c, seen >>]
    BY <1>5, <1>6, <1>7, <1>8, <2>1 DEF Same
  <2> HIDE DEF w5
  <2>3. \A x \in VisitsTo3(graph) : w4[x] = w5[x]
    BY <2>2, VisitsAre
  <2> QED
    BY <1>2, <2>3 DEF T
<1>10. TheWalk(graph) = VisitBody(graph, TheWalk(graph))
  BY <1>9 DEF TheWalk
<1> DEFINE W == TheWalk(graph)
<1> HIDE DEF W
<1>11. \A n \in DOMAIN graph, c \in 0 .. 3, seen \in SUBSET DOMAIN graph : W[<< n, c, seen >>] = WalkDepth(W, graph, n, c, 2, seen)
  BY <1>10, VisitBodyIs DEF W
<1>12. ASSUME NEW c \in 0 .. 3, TypedBelow(graph, W, c) PROVE TypedAt(graph, W, c)
  <2>1. ASSUME NEW n \in DOMAIN graph, NEW seen \in SUBSET DOMAIN graph PROVE W[<< n, c, seen >>] \in Walks(graph)
    <3>1. WalkDepth(W, graph, n, c, 2, seen) \in Walks(graph)
      BY <1>12, WalkDepthTyped
    <3> QED
      BY <1>11, <3>1
  <2> QED
    BY <2>1 DEF TypedAt
<1>13. TypedAt(graph, W, 3)
  <2>1. 3 \in 0 .. 3 /\ ~ (3 < 3)
    OBVIOUS
  <2> QED
    BY <1>12, <2>1 DEF TypedBelow
<1>14. TypedAt(graph, W, 2)
  <2>1. 2 \in 0 .. 3 /\ 2 + 1 = 3
    OBVIOUS
  <2> QED
    BY <1>12, <1>13, <2>1 DEF TypedBelow
<1>15. TypedAt(graph, W, 1)
  <2>1. 1 \in 0 .. 3 /\ 1 + 1 = 2
    OBVIOUS
  <2> QED
    BY <1>12, <1>14, <2>1 DEF TypedBelow
<1>16. TypedAt(graph, W, 0)
  <2>1. 0 \in 0 .. 3 /\ 0 + 1 = 1
    OBVIOUS
  <2> QED
    BY <1>12, <1>15, <2>1 DEF TypedBelow
<1>17. \A c \in 0 .. 3 : TypedAt(graph, W, c)
  <2>1. \A c \in 0 .. 3 : c = 0 \/ c = 1 \/ c = 2 \/ c = 3
    OBVIOUS
  <2> QED
    BY <1>13, <1>14, <1>15, <1>16, <2>1
<1> QED
  BY <1>11, <1>17 DEF W

(* What a visit answers, and what the walk has seen by then. *)
LEMMA VisitIs ==
    ASSUME NEW graph \in Containers, NEW n \in DOMAIN graph, NEW current \in 0 .. 2, NEW seen \in SUBSET DOMAIN graph
    PROVE  LET W == TheWalk(graph) IN
           /\ n \in seen => W[<< n, current, seen >>] = [seen |-> seen, raised |-> FALSE]
           /\ n \notin seen => \E f : Into(W, graph, n, current, seen, f) /\ W[<< n, current, seen >>] = f[Len(graph[n])]
<1> DEFINE W == TheWalk(graph)
<1>1. W[<< n, current, seen >>] = WalkDepth(W, graph, n, current, 2, seen)
  BY TheWalkIs
<1>2. TypedBelow(graph, W, current)
  <2>1. current + 1 \in 0 .. 3
    OBVIOUS
  <2> QED
    BY <2>1, TheWalkIs DEF TypedBelow
<1> HIDE DEF W
<1>3. Enters(graph, W, n, current, seen)
  BY <1>2, EnteredIs
<1>4. CASE n \in seen
  BY <1>1, <1>4 DEF WalkDepth, W
<1>5. CASE n \notin seen
  <2>1. W[<< n, current, seen >>] = Entered(W, graph, n, current, seen)
    BY <1>1, <1>5 DEF WalkDepth
  <2> QED
    BY <1>3, <1>5, <2>1 DEF Enters, W
<1> QED
  BY <1>4, <1>5

LEMMA VisitRaises ==
    ASSUME NEW graph \in Containers, NEW n \in DOMAIN graph, NEW seen \in SUBSET DOMAIN graph
    PROVE  TheWalk(graph)[<< n, 3, seen >>] = [seen |-> seen, raised |-> TRUE]
<1>1. 3 \in 0 .. 3 /\ 3 > 2
  OBVIOUS
<1>2. TheWalk(graph)[<< n, 3, seen >>] = WalkDepth(TheWalk(graph), graph, n, 3, 2, seen)
  BY <1>1, TheWalkIs
<1> QED
  BY <1>1, <1>2 DEF WalkDepth

Grows(graph, walk, current) ==
    \A n \in DOMAIN graph, seen \in SUBSET DOMAIN graph : seen \subseteq walk[<< n, current, seen >>].seen

LEMMA IntoGrows ==
    ASSUME NEW graph \in Containers, NEW walk, NEW n \in DOMAIN graph, NEW current \in 0 .. 2, NEW seen \in SUBSET DOMAIN graph,
           NEW f, Into(walk, graph, n, current, seen, f), Grows(graph, walk, current + 1)
    PROVE  \A k \in 0 .. Len(graph[n]) : seen \cup {n} \subseteq f[k].seen /\ f[k] \in Walks(graph)
<1> DEFINE N == Len(graph[n])
           S == {k \in 0 .. N : seen \cup {n} \subseteq f[k].seen}
<1>1. N \in Nat
  BY ContainersAre
<1>2. \A k \in 0 .. N : f[k] \in Walks(graph)
  BY DEF Into
<1>3. 0 \in S
  <2>1. f[0].seen = seen \cup {n}
    BY DEF Into
  <2> QED
    BY <1>1, <2>1
<1>4. ASSUME NEW k \in 1 .. N, k - 1 \in S PROVE k \in S
  <2>1. f[k] = IntoStep(walk, graph, n, current, f[k - 1], k)
    BY DEF Into
  <2>2. k - 1 \in 0 .. N /\ graph[n][k] \in DOMAIN graph
    <3>1. graph[n][k] \in DOMAIN graph
      BY ContainersAre
    <3> QED
      BY <1>1, <3>1
  <2>3. f[k - 1].seen \in SUBSET DOMAIN graph
    BY <1>2, <2>2 DEF Walks
  <2>4. f[k - 1].seen \subseteq walk[<< graph[n][k], current + 1, f[k - 1].seen >>].seen
    BY <2>2, <2>3 DEF Grows
  <2> QED
    BY <1>4, <2>1, <2>4 DEF IntoStep
<1>5. 0 .. N \subseteq S
  <2> HIDE DEF S, N
  <2> QED
    BY <1>1, <1>3, <1>4, NumbersUpTo
<1> QED
  BY <1>2, <1>5

LEMMA WalkGrows ==
    ASSUME NEW graph \in Containers PROVE \A current \in 0 .. 3 : Grows(graph, TheWalk(graph), current)
<1> DEFINE W == TheWalk(graph)
<1>1. Grows(graph, W, 3)
  <2>1. ASSUME NEW n \in DOMAIN graph, NEW seen \in SUBSET DOMAIN graph PROVE seen \subseteq W[<< n, 3, seen >>].seen
    <3>1. W[<< n, 3, seen >>] = [seen |-> seen, raised |-> TRUE]
      BY VisitRaises
    <3> HIDE DEF W
    <3> QED
      BY <3>1
  <2> HIDE DEF W
  <2> QED
    BY <2>1 DEF Grows
<1>2. ASSUME NEW c \in 0 .. 2, Grows(graph, W, c + 1) PROVE Grows(graph, W, c)
  <2> SUFFICES ASSUME NEW n \in DOMAIN graph, NEW seen \in SUBSET DOMAIN graph PROVE seen \subseteq W[<< n, c, seen >>].seen
    BY DEF Grows
  <2>1. CASE n \in seen
    <3>1. W[<< n, c, seen >>] = [seen |-> seen, raised |-> FALSE]
      BY <2>1, VisitIs
    <3> HIDE DEF W
    <3> QED
      BY <3>1
  <2>2. CASE n \notin seen
    <3>1. PICK f : Into(W, graph, n, c, seen, f) /\ W[<< n, c, seen >>] = f[Len(graph[n])]
      BY <2>2, VisitIs
    <3>2. Len(graph[n]) \in 0 .. Len(graph[n])
      <4>1. Len(graph[n]) \in Nat
        BY ContainersAre
      <4> QED
        BY <4>1
    <3> HIDE DEF W
    <3>3. seen \cup {n} \subseteq f[Len(graph[n])].seen
      BY <1>2, <3>1, <3>2, IntoGrows
    <3> QED
      BY <3>1, <3>3
  <2> QED
    BY <2>1, <2>2
<1> HIDE DEF W
<1>3. Grows(graph, W, 2)
  <2>1. 2 \in 0 .. 2 /\ 2 + 1 = 3
    OBVIOUS
  <2> QED
    BY <1>1, <1>2, <2>1
<1>4. Grows(graph, W, 1)
  <2>1. 1 \in 0 .. 2 /\ 1 + 1 = 2
    OBVIOUS
  <2> QED
    BY <1>2, <1>3, <2>1
<1>5. Grows(graph, W, 0)
  <2>1. 0 \in 0 .. 2 /\ 0 + 1 = 1
    OBVIOUS
  <2> QED
    BY <1>2, <1>4, <2>1
<1>6. \A c \in 0 .. 3 : c = 0 \/ c = 1 \/ c = 2 \/ c = 3
  OBVIOUS
<1> QED
  BY <1>1, <1>3, <1>4, <1>5, <1>6 DEF W

(* A visit that raises came to a container that was not seen, and met one  *)
(* in it whose visit raises.                                               *)
RaisesIn(graph, n, next, seen) ==
    \E m \in ToSet(graph[n]), s \in SUBSET DOMAIN graph : seen \cup {n} \subseteq s /\ TheWalk(graph)[<< m, next, s >>].raised

LEMMA RaisedInside ==
    ASSUME NEW graph \in Containers, NEW n \in DOMAIN graph, NEW current \in 0 .. 2, NEW seen \in SUBSET DOMAIN graph,
           TheWalk(graph)[<< n, current, seen >>].raised
    PROVE  n \notin seen /\ RaisesIn(graph, n, current + 1, seen)
<1> DEFINE W == TheWalk(graph)
           N == Len(graph[n])
<1>1. n \notin seen
  <2>1. n \in seen => W[<< n, current, seen >>] = [seen |-> seen, raised |-> FALSE]
    BY VisitIs
  <2>2. W[<< n, current, seen >>].raised
    OBVIOUS
  <2> HIDE DEF W
  <2> QED
    BY <2>1, <2>2
<1>2. PICK f : Into(W, graph, n, current, seen, f) /\ W[<< n, current, seen >>] = f[N]
  BY <1>1, VisitIs
<1>3. W[<< n, current, seen >>].raised
  OBVIOUS
<1>4. Grows(graph, W, current + 1)
  <2>1. current + 1 \in 0 .. 3
    OBVIOUS
  <2> QED
    BY <2>1, WalkGrows
<1> HIDE DEF W
<1>5. N \in Nat /\ DOMAIN graph[n] = 1 .. N /\ \A k \in 1 .. N : graph[n][k] \in DOMAIN graph
  BY ContainersAre
<1> HIDE DEF N
<1> DEFINE T == {k \in 0 .. N : f[k].raised}
<1>6. T \subseteq Nat /\ N \in T
  BY <1>2, <1>3, <1>5
<1>7. PICK m \in T : \A k \in T : m =< k
  <2> HIDE DEF T
  <2> QED
    BY <1>6, SmallestNumber
<1>8. m # 0
  <2>1. f[0] = [seen |-> seen \cup {n}, raised |-> FALSE]
    BY <1>2 DEF Into
  <2> QED
    BY <1>7, <2>1
<1>9. m \in 1 .. N /\ m - 1 \in 0 .. N /\ ~ f[m - 1].raised
  BY <1>5, <1>7, <1>8
<1>10. f[m] = W[<< graph[n][m], current + 1, f[m - 1].seen >>]
  BY <1>2, <1>9 DEF Into, IntoStep, N
<1>11. seen \cup {n} \subseteq f[m - 1].seen /\ f[m - 1].seen \in SUBSET DOMAIN graph
  <2>1. seen \cup {n} \subseteq f[m - 1].seen /\ f[m - 1] \in Walks(graph)
    BY <1>2, <1>4, <1>9, IntoGrows DEF N
  <2> QED
    BY <2>1 DEF Walks
<1>12. graph[n][m] \in ToSet(graph[n])
  BY <1>5, <1>9 DEF ToSet
<1>13. f[m].raised
  BY <1>7
<1> QED
  BY <1>1, <1>10, <1>11, <1>12, <1>13 DEF W, RaisesIn

(* Where one does not, none of those in it does. *)
Passes(walk, graph, n, current, f) ==
    /\ \A k \in 0 .. Len(graph[n]) : ~ f[k].raised /\ f[k].seen \in SUBSET DOMAIN graph
    /\ \A k \in 1 .. Len(graph[n]) : f[k] = walk[<< graph[n][k], current + 1, f[k - 1].seen >>]

LEMMA NotRaisedInside ==
    ASSUME NEW graph \in Containers, NEW walk, NEW n \in DOMAIN graph, NEW current \in 0 .. 2, NEW seen \in SUBSET DOMAIN graph,
           NEW f, Into(walk, graph, n, current, seen, f), ~ f[Len(graph[n])].raised
    PROVE  Passes(walk, graph, n, current, f)
<1> DEFINE N == Len(graph[n])
           S == {j \in 0 .. N : ~ f[N - j].raised}
<1>1. N \in Nat
  BY ContainersAre
<1>2. 0 \in S
  BY <1>1
<1>3. ASSUME NEW j \in 1 .. N, j - 1 \in S PROVE j \in S
  <2>1. N - (j - 1) \in 1 .. N /\ N - (j - 1) - 1 = N - j
    BY <1>1
  <2>2. f[N - (j - 1)] = IntoStep(walk, graph, n, current, f[N - j], N - (j - 1))
    BY <2>1 DEF Into
  <2>3. ~ f[N - (j - 1)].raised
    BY <1>3
  <2> QED
    BY <2>2, <2>3 DEF IntoStep
<1>4. 0 .. N \subseteq S
  <2> HIDE DEF S, N
  <2> QED
    BY <1>1, <1>2, <1>3, NumbersUpTo
<1>5. ASSUME NEW k \in 0 .. N PROVE ~ f[k].raised
  <2>1. N - k \in 0 .. N /\ N - (N - k) = k
    BY <1>1
  <2> QED
    BY <1>4, <2>1
<1>6. \A k \in 0 .. N : f[k].seen \in SUBSET DOMAIN graph
  BY DEF Into, Walks
<1>7. ASSUME NEW k \in 1 .. N PROVE f[k] = walk[<< graph[n][k], current + 1, f[k - 1].seen >>]
  <2>1. k - 1 \in 0 .. N
    BY <1>1
  <2>2. ~ f[k - 1].raised
    BY <1>5, <2>1
  <2>3. f[k] = IntoStep(walk, graph, n, current, f[k - 1], k)
    BY DEF Into
  <2> QED
    BY <2>2, <2>3 DEF IntoStep
<1> QED
  BY <1>5, <1>6, <1>7 DEF Passes

(* The walk of a tree at its third level and at its second.                *)
LEMMA NotRaisedAt2 ==
    ASSUME NEW graph \in Containers, NEW n \in DOMAIN graph, NEW seen \in SUBSET DOMAIN graph,
           ~ TheWalk(graph)[<< n, 2, seen >>].raised
    PROVE  /\ n \notin seen => ToSet(graph[n]) = {}
           /\ TheWalk(graph)[<< n, 2, seen >>].seen \subseteq seen \cup {n}
<1> DEFINE W == TheWalk(graph)
           N == Len(graph[n])
<1>0. 2 \in 0 .. 2 /\ 2 + 1 = 3
  OBVIOUS
<1>1. CASE n \in seen
  <2>1. W[<< n, 2, seen >>] = [seen |-> seen, raised |-> FALSE]
    BY <1>0, <1>1, VisitIs
  <2> HIDE DEF W
  <2>2. W[<< n, 2, seen >>].seen \subseteq seen \cup {n}
    BY <2>1
  <2> QED
    BY <1>1, <2>2 DEF W
<1>2. CASE n \notin seen
  <2>1. PICK f : Into(W, graph, n, 2, seen, f) /\ W[<< n, 2, seen >>] = f[N]
    BY <1>0, <1>2, VisitIs
  <2>2. ~ f[N].raised
    BY <2>1
  <2>3. N \in Nat /\ DOMAIN graph[n] = 1 .. N /\ \A k \in 1 .. N : graph[n][k] \in DOMAIN graph
    BY ContainersAre
  <2>4. /\ \A k \in 0 .. N : ~ f[k].raised /\ f[k].seen \in SUBSET DOMAIN graph
        /\ \A k \in 1 .. N : f[k] = W[<< graph[n][k], 2 + 1, f[k - 1].seen >>]
    <3> HIDE DEF W
    <3>1. Passes(W, graph, n, 2, f)
      BY <1>0, <2>1, <2>2, NotRaisedInside
    <3> QED
      BY <3>1 DEF Passes
  <2>5. N = 0
    <3> SUFFICES ASSUME 1 \in 1 .. N PROVE FALSE
      BY <2>3
    <3>1. f[0].seen \in SUBSET DOMAIN graph /\ graph[n][1] \in DOMAIN graph
      BY <2>3, <2>4
    <3>2. W[<< graph[n][1], 3, f[0].seen >>] = [seen |-> f[0].seen, raised |-> TRUE]
      BY <3>1, VisitRaises
    <3>3. f[1] = W[<< graph[n][1], 3, f[0].seen >>] /\ ~ f[1].raised
      <4>1. 1 \in 0 .. N /\ 1 - 1 = 0
        BY <2>3
      <4> HIDE DEF W
      <4> QED
        BY <1>0, <2>4, <4>1
    <3> HIDE DEF W
    <3> QED
      BY <3>2, <3>3
  <2>6. f[0] = [seen |-> seen \cup {n}, raised |-> FALSE]
    BY <2>1 DEF Into
  <2>7. ToSet(graph[n]) = {}
    BY <2>3, <2>5 DEF ToSet
  <2> HIDE DEF W
  <2>8. W[<< n, 2, seen >>].seen = seen \cup {n}
    BY <2>1, <2>5, <2>6
  <2> QED
    BY <2>7, <2>8 DEF W
<1> QED
  BY <1>1, <1>2

LEMMA NotRaisedAt1 ==
    ASSUME NEW graph \in Containers, NEW n \in DOMAIN graph, NEW seen \in SUBSET DOMAIN graph, n \notin seen,
           ~ TheWalk(graph)[<< n, 1, seen >>].raised
    PROVE  /\ TheWalk(graph)[<< n, 1, seen >>].seen \subseteq seen \cup {n} \cup ToSet(graph[n])
           /\ \A k \in DOMAIN graph[n] :
                graph[n][k] \notin seen \cup {n} \cup {graph[n][j] : j \in 1 .. k - 1} => ToSet(graph[graph[n][k]]) = {}
<1> DEFINE W == TheWalk(graph)
           N == Len(graph[n])
           Before(k) == seen \cup {n} \cup {graph[n][j] : j \in 1 .. k}
<1>0. 1 \in 0 .. 2 /\ 1 + 1 = 2
  OBVIOUS
<1>1. PICK f : Into(W, graph, n, 1, seen, f) /\ W[<< n, 1, seen >>] = f[N]
  BY <1>0, VisitIs
<1>2. ~ f[N].raised
  BY <1>1
<1>3. N \in Nat /\ DOMAIN graph[n] = 1 .. N /\ \A k \in 1 .. N : graph[n][k] \in DOMAIN graph
  BY ContainersAre
<1>4. /\ \A k \in 0 .. N : ~ f[k].raised /\ f[k].seen \in SUBSET DOMAIN graph
      /\ \A k \in 1 .. N : f[k] = W[<< graph[n][k], 2, f[k - 1].seen >>]
  <2> HIDE DEF W
  <2>1. Passes(W, graph, n, 1, f)
    BY <1>0, <1>1, <1>2, NotRaisedInside
  <2> QED
    BY <1>0, <2>1 DEF Passes
<1>5. ASSUME NEW k \in 1 .. N
      PROVE  /\ f[k].seen \subseteq f[k - 1].seen \cup {graph[n][k]}
             /\ graph[n][k] \notin f[k - 1].seen => ToSet(graph[graph[n][k]]) = {}
  <2>1. k - 1 \in 0 .. N /\ graph[n][k] \in DOMAIN graph
    BY <1>3
  <2>2. f[k - 1].seen \in SUBSET DOMAIN graph /\ ~ f[k].raised /\ f[k] = W[<< graph[n][k], 2, f[k - 1].seen >>]
    <3> HIDE DEF W
    <3> QED
      BY <1>3, <1>4, <2>1
  <2>3. ~ W[<< graph[n][k], 2, f[k - 1].seen >>].raised
    <3> HIDE DEF W
    <3> QED
      BY <2>2
  <2>4. /\ graph[n][k] \notin f[k - 1].seen => ToSet(graph[graph[n][k]]) = {}
        /\ W[<< graph[n][k], 2, f[k - 1].seen >>].seen \subseteq f[k - 1].seen \cup {graph[n][k]}
    BY <2>1, <2>2, <2>3, NotRaisedAt2
  <2> HIDE DEF W
  <2> QED
    BY <2>2, <2>4
<1> HIDE DEF W
<1> DEFINE S == {k \in 0 .. N : f[k].seen \subseteq Before(k)}
<1>6. 0 \in S
  <2>1. f[0].seen = seen \cup {n}
    BY <1>1 DEF Into
  <2> QED
    BY <1>3, <2>1
<1>7. ASSUME NEW k \in 1 .. N, k - 1 \in S PROVE k \in S
  <2>1. Before(k) = Before(k - 1) \cup {graph[n][k]}
    <3>1. \A j : j \in 1 .. k <=> j \in 1 .. k - 1 \/ j = k
      BY <1>3
    <3> QED
      BY <3>1
  <2>2. f[k - 1].seen \subseteq Before(k - 1)
    BY <1>7
  <2> HIDE DEF Before
  <2> QED
    BY <1>5, <2>1, <2>2
<1>8. 0 .. N \subseteq S
  <2> HIDE DEF S, N
  <2> QED
    BY <1>3, <1>6, <1>7, NumbersUpTo
<1>9. f[N].seen \subseteq seen \cup {n} \cup ToSet(graph[n])
  <2>1. f[N].seen \subseteq Before(N)
    BY <1>3, <1>8
  <2>2. {graph[n][j] : j \in 1 .. N} = ToSet(graph[n])
    BY <1>3 DEF ToSet
  <2> QED
    BY <2>1, <2>2
<1>10. ASSUME NEW k \in 1 .. N, graph[n][k] \notin Before(k - 1) PROVE ToSet(graph[graph[n][k]]) = {}
  <2>1. k - 1 \in S
    BY <1>3, <1>8
  <2>2. graph[n][k] \notin f[k - 1].seen
    BY <1>10, <2>1
  <2> QED
    BY <1>5, <2>2
<1> QED
  BY <1>1, <1>3, <1>9, <1>10 DEF W

(* In a tree no container is met twice, so none goes unwalked.             *)
LEMMA TreesAreWalked ==
    ASSUME NEW graph \in Containers, IsTree(graph), ~ TheWalk(graph)[<< 1, 0, {} >>].raised,
           NEW a \in ToSet(graph[1]), NEW b \in ToSet(graph[a])
    PROVE  ToSet(graph[b]) = {}
<1> DEFINE W == TheWalk(graph)
           N == Len(graph[1])
           Below(j) == {graph[1][j]} \cup ToSet(graph[graph[1][j]])
           Before(k) == {1} \cup UNION {Below(j) : j \in 1 .. k}
<1>0. 0 \in 0 .. 2 /\ 0 + 1 = 1
  OBVIOUS
<1>1. 1 \in DOMAIN graph
  <2>1. graph \in Seq(Seq(Nat)) /\ Len(graph) >= 1
    BY DEF Containers
  <2> QED
    BY <2>1
<1>2. PICK f : Into(W, graph, 1, 0, {}, f) /\ W[<< 1, 0, {} >>] = f[N]
  <2> DEFINE none == {}
  <2>1. none \in SUBSET DOMAIN graph /\ 1 \notin none
    OBVIOUS
  <2> HIDE DEF none
  <2>2. \E f : Into(W, graph, 1, 0, none, f) /\ W[<< 1, 0, none >>] = f[N]
    BY <1>0, <1>1, <2>1, VisitIs
  <2> QED
    BY <2>2 DEF none
<1>3. ~ f[N].raised
  BY <1>2
<1>4. N \in Nat /\ DOMAIN graph[1] = 1 .. N /\ \A k \in 1 .. N : graph[1][k] \in DOMAIN graph
  BY <1>1, ContainersAre
<1>5. /\ \A k \in 0 .. N : ~ f[k].raised /\ f[k].seen \in SUBSET DOMAIN graph
      /\ \A k \in 1 .. N : f[k] = W[<< graph[1][k], 1, f[k - 1].seen >>]
  <2> HIDE DEF W
  <2>1. Passes(W, graph, 1, 0, f)
    BY <1>0, <1>1, <1>2, <1>3, NotRaisedInside
  <2> QED
    BY <1>0, <2>1 DEF Passes
(* What the tree says: a container is in one other, once, and none holds the root. *)
<1>6. \A i, j \in DOMAIN graph : \A x \in DOMAIN graph[i], y \in DOMAIN graph[j] :
        graph[i][x] # 1 /\ (graph[i][x] = graph[j][y] => i = j /\ x = y)
  BY DEF IsTree
<1>7. ASSUME NEW k \in 1 .. N PROVE graph[1][k] \notin Before(k - 1)
  <2>1. graph[1][k] # 1
    BY <1>1, <1>4, <1>6
  <2>2. ASSUME NEW j \in 1 .. k - 1 PROVE graph[1][k] \notin Below(j)
    <3>1. j \in 1 .. N /\ j # k /\ graph[1][j] \in DOMAIN graph
      BY <1>4
    <3>2. graph[1][k] # graph[1][j]
      BY <1>1, <1>4, <1>6, <3>1
    <3>3. ASSUME graph[1][k] \in ToSet(graph[graph[1][j]]) PROVE FALSE
      <4>1. PICK y \in DOMAIN graph[graph[1][j]] : graph[1][k] = graph[graph[1][j]][y]
        BY <3>3 DEF ToSet
      <4>2. graph[1][j] = 1
        BY <1>1, <1>4, <1>6, <3>1, <4>1
      <4> QED
        BY <1>1, <1>4, <1>6, <3>1, <4>2
    <3> QED
      BY <3>2, <3>3
  <2> QED
    BY <2>1, <2>2
<1>8. ASSUME NEW k \in 1 .. N, f[k - 1].seen \subseteq Before(k - 1)
      PROVE  /\ f[k].seen \subseteq f[k - 1].seen \cup Below(k)
             /\ \A m \in DOMAIN graph[graph[1][k]] :
                  graph[graph[1][k]][m] \notin f[k - 1].seen \cup {graph[1][k]} \cup {graph[graph[1][k]][j] : j \in 1 .. m - 1}
                     => ToSet(graph[graph[graph[1][k]][m]]) = {}
  <2> DEFINE n == graph[1][k]
             seen == f[k - 1].seen
  <2>1. k - 1 \in 0 .. N /\ n \in DOMAIN graph
    BY <1>4
  <2>2. seen \in SUBSET DOMAIN graph /\ ~ f[k].raised /\ f[k] = W[<< n, 1, seen >>]
    <3> HIDE DEF W
    <3> QED
      BY <1>4, <1>5, <2>1
  <2>3. n \notin seen
    <3> HIDE DEF Before
    <3> QED
      BY <1>7, <1>8
  <2> HIDE DEF n, seen
  <2>4. ~ W[<< n, 1, seen >>].raised
    <3> HIDE DEF W
    <3> QED
      BY <2>2
  <2>5. W[<< n, 1, seen >>].seen \subseteq seen \cup {n} \cup ToSet(graph[n])
    BY <2>1, <2>2, <2>3, <2>4, NotRaisedAt1
  <2>6. \A m \in DOMAIN graph[n] :
          graph[n][m] \notin seen \cup {n} \cup {graph[n][j] : j \in 1 .. m - 1} => ToSet(graph[graph[n][m]]) = {}
    BY <2>1, <2>2, <2>3, <2>4, NotRaisedAt1
  <2>7. f[k].seen \subseteq seen \cup Below(k)
    <3> HIDE DEF W
    <3> QED
      BY <2>2, <2>5 DEF n
  <2> QED
    BY <2>6, <2>7 DEF n, seen
<1> DEFINE S == {k \in 0 .. N : f[k].seen \subseteq Before(k)}
<1>9. 0 \in S
  <2>1. f[0].seen = {} \cup {1}
    BY <1>2 DEF Into
  <2> QED
    BY <1>4, <2>1
<1>10. ASSUME NEW k \in 1 .. N, k - 1 \in S PROVE k \in S
  <2>1. Before(k) = Before(k - 1) \cup Below(k)
    <3>1. \A j : j \in 1 .. k <=> j \in 1 .. k - 1 \/ j = k
      BY <1>4
    <3> HIDE DEF Below
    <3> QED
      BY <3>1
  <2>2. f[k - 1].seen \subseteq Before(k - 1)
    BY <1>10
  <2> HIDE DEF Before
  <2>3. f[k].seen \subseteq f[k - 1].seen \cup Below(k)
    BY <1>8, <2>2
  <2> QED
    BY <2>1, <2>2, <2>3
<1>11. 0 .. N \subseteq S
  <2> HIDE DEF S, N
  <2> QED
    BY <1>4, <1>9, <1>10, NumbersUpTo
<1>12. PICK k \in 1 .. N : a = graph[1][k]
  BY <1>4 DEF ToSet
<1>13. PICK m \in DOMAIN graph[a] : b = graph[a][m]
  BY DEF ToSet
<1>14. a \in DOMAIN graph /\ a # 1 /\ DOMAIN graph[a] = 1 .. Len(graph[a]) /\ Len(graph[a]) \in Nat
  <2>1. a \in DOMAIN graph
    BY <1>4, <1>12
  <2> QED
    BY <1>1, <1>4, <1>6, <1>12, <2>1, ContainersAre
<1>15. f[k - 1].seen \subseteq Before(k - 1)
  BY <1>4, <1>11
<1>16. b \notin Before(k - 1)
  <2>1. b # 1
    BY <1>6, <1>13, <1>14
  <2>2. ASSUME NEW j \in 1 .. k - 1 PROVE b \notin Below(j)
    <3>1. j \in 1 .. N /\ j # k /\ graph[1][j] \in DOMAIN graph
      BY <1>4
    <3>2. b # graph[1][j]
      BY <1>1, <1>4, <1>6, <1>13, <1>14, <3>1
    <3>3. ASSUME b \in ToSet(graph[graph[1][j]]) PROVE FALSE
      <4>1. PICK y \in DOMAIN graph[graph[1][j]] : b = graph[graph[1][j]][y]
        BY <3>3 DEF ToSet
      <4>2. graph[1][j] = a
        BY <1>6, <1>13, <1>14, <3>1, <4>1
      <4> QED
        BY <1>1, <1>4, <1>6, <1>12, <3>1, <4>2
    <3> QED
      BY <3>2, <3>3
  <2> QED
    BY <2>1, <2>2
<1>17. b # a
  BY <1>1, <1>4, <1>6, <1>12, <1>13, <1>14
<1>18. b \notin {graph[a][j] : j \in 1 .. m - 1}
  BY <1>6, <1>13, <1>14
<1>19. b \notin f[k - 1].seen
  <2> HIDE DEF Before, S
  <2> QED
    BY <1>15, <1>16
<1>20. b \notin f[k - 1].seen \cup {a} \cup {graph[a][j] : j \in 1 .. m - 1}
  <2> DEFINE G == {graph[a][j] : j \in 1 .. m - 1}
  <2>1. b \notin G
    BY <1>18
  <2> HIDE DEF G, Before, S
  <2>2. b \notin f[k - 1].seen \cup {a} \cup G
    BY <1>17, <1>19, <2>1
  <2> QED
    BY <2>2 DEF G
<1>21. \A j \in DOMAIN graph[a] :
          graph[a][j] \notin f[k - 1].seen \cup {a} \cup {graph[a][i] : i \in 1 .. j - 1} => ToSet(graph[graph[a][j]]) = {}
  <2> DEFINE Q(n) == \A j \in DOMAIN graph[n] :
                      graph[n][j] \notin f[k - 1].seen \cup {n} \cup {graph[n][i] : i \in 1 .. j - 1} => ToSet(graph[graph[n][j]]) = {}
  <2>1. Q(graph[1][k])
    BY <1>8, <1>15
  <2> HIDE DEF Q
  <2>2. Q(a)
    BY <1>12, <2>1
  <2> QED
    BY <2>2 DEF Q
<1> QED
  BY <1>13, <1>20, <1>21

(* How deep the containers are, by what is at each level.                  *)
LevelsBody(graph, At) == [k \in 0 .. Len(graph) |-> IF k = 0 THEN {1} ELSE UNION {ToSet(graph[n]) : n \in At[k - 1]}]
Levels(graph) == CHOOSE At : At = LevelsBody(graph, At)

LEMMA LevelsAre ==
    ASSUME NEW graph \in Containers
    PROVE  /\ Levels(graph)[0] = {1}
           /\ \A k \in 1 .. Len(graph) : Levels(graph)[k] = UNION {ToSet(graph[n]) : n \in Levels(graph)[k - 1]}
           /\ \A k \in 0 .. Len(graph) : Levels(graph)[k] \in SUBSET DOMAIN graph
<1> DEFINE N == Len(graph)
           V == SUBSET DOMAIN graph
           Inside(at) == UNION {ToSet(graph[n]) : n \in at}
           step == [x \in (1 .. N) \X V |-> Inside(x[2])]
<1>1. N \in Nat /\ DOMAIN graph = 1 .. N /\ {1} \in V
  <2>1. graph \in Seq(Seq(Nat)) /\ Len(graph) >= 1
    BY DEF Containers
  <2> QED
    BY <2>1
<1>2. ASSUME NEW at \in V PROVE Inside(at) \in V
  <2>1. \A n \in DOMAIN graph : ToSet(graph[n]) \subseteq DOMAIN graph
    BY DEF Containers
  <2> QED
    BY <2>1
<1> HIDE DEF Inside, V
<1>3. step \in [(1 .. N) \X V -> V]
  BY <1>2
<1>4. PICK f : Steps(N, V, {1}, step, f)
  <2> HIDE DEF N, step
  <2> QED
    BY <1>1, <1>3, StepsExist
<1>5. f = LevelsBody(graph, f)
  <2>1. f \in [0 .. N -> V] /\ f[0] = {1}
    BY <1>4 DEF Steps
  <2>2. ASSUME NEW k \in 1 .. N PROVE f[k] = Inside(f[k - 1])
    <3>1. f[k - 1] \in V
      BY <1>1, <2>1
    <3>2. f[k] = step[<<k, f[k - 1]>>]
      <4> HIDE DEF step, N
      <4> QED
        BY <1>4 DEF Steps
    <3> QED
      BY <3>1, <3>2
  <2>3. \A k \in 0 .. N : f[k] = IF k = 0 THEN {1} ELSE Inside(f[k - 1])
    <3> HIDE DEF N
    <3> QED
      BY <1>1, <2>1, <2>2
  <2>4. f = [k \in 0 .. N |-> IF k = 0 THEN {1} ELSE Inside(f[k - 1])]
    BY <2>1, <2>3
  <2> QED
    BY <2>4 DEF LevelsBody, Inside
<1>6. Levels(graph) = LevelsBody(graph, Levels(graph))
  <2> HIDE DEF N
  <2> QED
    BY <1>5 DEF Levels
<1> DEFINE L == Levels(graph)
<1> HIDE DEF L
<1>7. \A k \in 0 .. N : L[k] = IF k = 0 THEN {1} ELSE Inside(L[k - 1])
  BY <1>6 DEF LevelsBody, L, Inside
<1> HIDE DEF N
<1>8. L[0] = {1} /\ \A k \in 1 .. N : L[k] = Inside(L[k - 1])
  BY <1>1, <1>7
<1> DEFINE S == {k \in 0 .. N : L[k] \in V}
<1>9. 0 \in S
  <2>1. L[0] \in V
    BY <1>1, <1>8
  <2> QED
    BY <1>1, <2>1
<1>10. ASSUME NEW k \in 1 .. N, k - 1 \in S PROVE k \in S
  <2>1. L[k - 1] \in V
    BY <1>10
  <2>2. L[k] \in V
    BY <1>2, <1>8, <2>1
  <2> QED
    BY <1>1, <2>2
<1>11. 0 .. N \subseteq S
  <2> HIDE DEF S
  <2> QED
    BY <1>1, <1>9, <1>10, NumbersUpTo
<1> QED
  BY <1>8, <1>11 DEF L, N, V, Inside

LEMMA DeepestIs ==
    ASSUME NEW graph \in Containers
    PROVE  /\ Deepest(graph) \in 0 .. Len(graph) /\ Levels(graph)[Deepest(graph)] # {}
           /\ \A k \in 0 .. Len(graph) : Levels(graph)[k] # {} => k =< Deepest(graph)
<1> DEFINE N == Len(graph)
           L == Levels(graph)
           T == {k \in 0 .. N : L[k] # {}}
<1>1. Deepest(graph) = Max(T)
  BY DEF Deepest, Levels, LevelsBody
<1>2. N \in Nat /\ L[0] # {}
  <2>1. graph \in Seq(Seq(Nat))
    BY DEF Containers
  <2>2. L[0] = {1}
    BY LevelsAre
  <2> HIDE DEF L
  <2> QED
    BY <2>1, <2>2
<1> HIDE DEF N, L
<1> DEFINE R == {j \in 0 .. N : N - j \in T}
<1>3. R \subseteq Nat /\ N \in R
  BY <1>2
<1>4. PICK m \in R : \A j \in R : m =< j
  <2> HIDE DEF R
  <2> QED
    BY <1>3, SmallestNumber
<1>5. ASSUME NEW k \in T PROVE N - m >= k
  <2>1. N - k \in R /\ k \in Nat /\ m \in Nat
    BY <1>2
  <2> HIDE DEF R, T
  <2>2. m =< N - k
    BY <1>4, <2>1
  <2> QED
    BY <1>2, <2>1, <2>2
<1>6. N - m \in T
  BY <1>4
<1> HIDE DEF T, R
<1>7. Max(T) \in T /\ \A k \in T : Max(T) >= k
  BY <1>5, <1>6 DEF Max
<1> QED
  BY <1>1, <1>2, <1>7 DEF T, N, L

(* There are three levels below the root.                                  *)
ThreeBelow(graph) == \E a \in ToSet(graph[1]) : \E b \in ToSet(graph[a]) : ToSet(graph[b]) # {}

LEMMA Level3Is ==
    ASSUME NEW graph \in Containers, Len(graph) >= 3
    PROVE  Levels(graph)[3] # {} <=> ThreeBelow(graph)
<1> DEFINE L == Levels(graph)
<1>1. Len(graph) \in Nat
  <2>1. graph \in Seq(Seq(Nat))
    BY DEF Containers
  <2> QED
    BY <2>1
<1>2. /\ 1 \in 1 .. Len(graph) /\ 2 \in 1 .. Len(graph) /\ 3 \in 1 .. Len(graph)
      /\ 1 - 1 = 0 /\ 2 - 1 = 1 /\ 3 - 1 = 2
  BY <1>1
<1>3. L[0] = {1} /\ \A k \in 1 .. Len(graph) : L[k] = UNION {ToSet(graph[n]) : n \in L[k - 1]}
  BY LevelsAre
<1> HIDE DEF L
<1>4. L[1] = UNION {ToSet(graph[n]) : n \in L[0]}
  BY <1>2, <1>3
<1>5. L[2] = UNION {ToSet(graph[n]) : n \in L[1]}
  BY <1>2, <1>3
<1>6. L[3] = UNION {ToSet(graph[n]) : n \in L[2]}
  BY <1>2, <1>3
<1>7. L[1] = ToSet(graph[1])
  BY <1>3, <1>4
<1>8. \A b : b \in L[2] <=> \E a \in ToSet(graph[1]) : b \in ToSet(graph[a])
  BY <1>5, <1>7
<1>9. L[3] # {} <=> \E b \in L[2] : ToSet(graph[b]) # {}
  <2>1. \A c : c \in L[3] <=> \E b \in L[2] : c \in ToSet(graph[b])
    BY <1>6
  <2>2. L[3] # {} => \E b \in L[2] : ToSet(graph[b]) # {}
    BY <2>1
  <2>3. ASSUME NEW b \in L[2], ToSet(graph[b]) # {} PROVE L[3] # {}
    <3>1. PICK c : c \in ToSet(graph[b])
      BY <2>3
    <3> QED
      BY <2>1, <3>1
  <2> QED
    BY <2>2, <2>3
<1> QED
  BY <1>8, <1>9 DEF ThreeBelow, L

LEMMA DeeperThan2 ==
    ASSUME NEW graph \in Containers
    PROVE  Deepest(graph) > 2 <=> Len(graph) >= 3 /\ ThreeBelow(graph)
<1> DEFINE N == Len(graph)
           L == Levels(graph)
           D == Deepest(graph)
<1>1. N \in Nat
  <2>1. graph \in Seq(Seq(Nat))
    BY DEF Containers
  <2> QED
    BY <2>1
<1>2. D \in 0 .. N /\ L[D] # {} /\ \A k \in 0 .. N : L[k] # {} => k =< D
  BY DeepestIs
<1>3. \A k \in 1 .. N : L[k] = UNION {ToSet(graph[n]) : n \in L[k - 1]}
  BY LevelsAre
<1>4. N >= 3 => (L[3] # {} <=> ThreeBelow(graph))
  BY Level3Is
<1> HIDE DEF N, L, D
<1>5. ASSUME D > 2 PROVE N >= 3 /\ L[3] # {}
  <2> DEFINE S == {j \in 0 .. D : L[D - j] # {}}
  <2>1. 0 \in S
    BY <1>1, <1>2
  <2>2. ASSUME NEW j \in 1 .. D, j - 1 \in S PROVE j \in S
    <3>1. D - (j - 1) \in 1 .. N /\ D - (j - 1) - 1 = D - j
      BY <1>1, <1>2
    <3>2. L[D - (j - 1)] = UNION {ToSet(graph[n]) : n \in L[D - j]}
      BY <1>3, <3>1
    <3>3. L[D - (j - 1)] # {}
      BY <2>2
    <3>4. L[D - j] # {}
      BY <3>2, <3>3
    <3> QED
      BY <3>4
  <2>3. 0 .. D \subseteq S
    <3>1. D \in Nat
      BY <1>1, <1>2
    <3> HIDE DEF S
    <3> QED
      BY <2>1, <2>2, <3>1, NumbersUpTo
  <2>4. D - 3 \in 0 .. D /\ D - (D - 3) = 3
    BY <1>1, <1>2, <1>5
  <2> QED
    BY <1>1, <1>2, <1>5, <2>3, <2>4
<1>6. ASSUME N >= 3, L[3] # {} PROVE D > 2
  BY <1>1, <1>2, <1>6
<1>7. D > 2 <=> N >= 3 /\ ThreeBelow(graph)
  BY <1>4, <1>5, <1>6
<1> QED
  BY <1>7 DEF N, D

(* What raises has three levels below the root, whatever its shape.        *)
LEMMA RaisesBelow2 ==
    ASSUME NEW graph \in Containers, TheWalk(graph)[<< 1, 0, {} >>].raised
    PROVE  Len(graph) >= 3 /\ ThreeBelow(graph)
<1> DEFINE W == TheWalk(graph)
<1>1. Len(graph) \in Nat /\ DOMAIN graph = 1 .. Len(graph) /\ 1 \in DOMAIN graph
  <2>1. graph \in Seq(Seq(Nat)) /\ Len(graph) >= 1
    BY DEF Containers
  <2> QED
    BY <2>1
<1>2. \A n \in DOMAIN graph : ToSet(graph[n]) \subseteq DOMAIN graph
  BY DEF Containers
<1>3. 0 \in 0 .. 2 /\ 1 \in 0 .. 2 /\ 2 \in 0 .. 2 /\ 0 + 1 = 1 /\ 1 + 1 = 2
  OBVIOUS
<1>4. RaisesIn(graph, 1, 1, {})
  <2> DEFINE none == {}
  <2>1. none \in SUBSET DOMAIN graph /\ W[<< 1, 0, none >>].raised
    OBVIOUS
  <2> HIDE DEF none
  <2>2. RaisesIn(graph, 1, 0 + 1, none)
    BY <1>1, <1>3, <2>1, RaisedInside
  <2> QED
    BY <1>3, <2>2 DEF none
<1>5. PICK a \in ToSet(graph[1]), s \in SUBSET DOMAIN graph : 1 \in s /\ W[<< a, 1, s >>].raised
  BY <1>4 DEF RaisesIn
<1>6. a \in DOMAIN graph
  BY <1>1, <1>2
<1>7. a \notin s /\ RaisesIn(graph, a, 2, s)
  <2>1. a \notin s /\ RaisesIn(graph, a, 1 + 1, s)
    BY <1>3, <1>5, <1>6, RaisedInside
  <2> QED
    BY <1>3, <2>1
<1>8. PICK b \in ToSet(graph[a]), z \in SUBSET DOMAIN graph : s \cup {a} \subseteq z /\ W[<< b, 2, z >>].raised
  BY <1>7 DEF RaisesIn
<1>9. b \in DOMAIN graph /\ b \notin z /\ ToSet(graph[b]) # {}
  <2>1. b \in DOMAIN graph
    BY <1>2, <1>6
  <2>2. b \notin z /\ RaisesIn(graph, b, 2 + 1, z)
    BY <1>3, <1>8, <2>1, RaisedInside
  <2> HIDE DEF W
  <2>3. ToSet(graph[b]) # {}
    BY <2>2 DEF RaisesIn
  <2> QED
    BY <2>1, <2>2, <2>3
<1> HIDE DEF W
<1>10. a # 1 /\ b # 1 /\ b # a
  BY <1>5, <1>7, <1>8, <1>9
<1>11. Len(graph) >= 3
  BY <1>1, <1>6, <1>9, <1>10
<1> QED
  BY <1>9, <1>11 DEF ThreeBelow

(* DepthCapExact, for any containers at the cap of the model: the check    *)
(* refuses only what is nested deeper than the cap, and of trees           *)
(* everything that is (assert_max_depth).                                  *)
THEOREM DepthIsExact == Spec => []DepthCapExact
<1>1. ASSUME Answered PROVE DepthCapExact
  <2> SUFFICES ASSUME asked = "depth" PROVE /\ answer => Deepest(question) > 2
                                            /\ IsTree(question) /\ Deepest(question) > 2 => answer
    BY DEF DepthCapExact
  <2>1. question \in Questions["depth"] /\ answer = ExceedsDepth(question, 2)
    BY <1>1 DEF Answered
  <2>2. question \in Containers
    BY <2>1, QuestionsAssumption
  <2>3. answer = TheWalk(question)[<< 1, 0, {} >>].raised
    BY <2>1, ExceedsIs
  <2>4. Deepest(question) > 2 <=> Len(question) >= 3 /\ ThreeBelow(question)
    BY <2>2, DeeperThan2
  <2>5. answer => Len(question) >= 3 /\ ThreeBelow(question)
    <3> SUFFICES ASSUME answer PROVE Len(question) >= 3 /\ ThreeBelow(question)
      OBVIOUS
    <3>1. TheWalk(question)[<< 1, 0, {} >>].raised
      BY <2>3
    <3> QED
      BY <2>2, <3>1, RaisesBelow2
  <2>6. ASSUME IsTree(question), ThreeBelow(question), ~ answer PROVE FALSE
    <3>1. ~ TheWalk(question)[<< 1, 0, {} >>].raised
      BY <2>3, <2>6
    <3>2. PICK a \in ToSet(question[1]) : \E b \in ToSet(question[a]) : ToSet(question[b]) # {}
      BY <2>6 DEF ThreeBelow
    <3>3. PICK b \in ToSet(question[a]) : ToSet(question[b]) # {}
      BY <3>2
    <3> QED
      BY <2>2, <2>6, <3>1, <3>3, TreesAreWalked
  <2> QED
    BY <2>4, <2>5, <2>6
<1> QED
  BY <1>1, AlwaysAnswered, PTL

-----------------------------------------------------------------------------
(* Image scans: what a gather scans is what the gather before traced       *)
(* (probes/layer_c, sbom.py and cve.py).                                   *)

PickedFrom(s, I, f) ==
    /\ f[0] = <<>>
    /\ \A n \in 1 .. Len(s) : f[n] = IF n \in I THEN Append(f[n - 1], s[n]) ELSE f[n - 1]

LEMMA PickedSteps ==
    ASSUME NEW T, NEW s \in Seq(T), NEW I
    PROVE  PickedFrom(s, I, PickedFun(s, I))
<1> DEFINE f == PickedFun(s, I)
<1>1. f = PickedBody(s, I, f)
  BY PickedFunIs
<1>2. Len(s) \in Nat
  OBVIOUS
<1> HIDE DEF f
<1>3. \A n \in 0 .. Len(s) : f[n] = IF n = 0 THEN <<>> ELSE IF n \in I THEN Append(f[n - 1], s[n]) ELSE f[n - 1]
  BY <1>1 DEF PickedBody
<1>4. PickedFrom(s, I, f)
  BY <1>2, <1>3 DEF PickedFrom
<1> QED
  BY <1>4 DEF f

LEMMA TupleOfTwo ==
    ASSUME NEW T, NEW a \in T, NEW b \in T
    PROVE  << a >> \o << b >> = << a, b >>
<1>1. << a >> \in Seq(T) /\ << b >> \in Seq(T) /\ << a, b >> \in Seq(T)
  OBVIOUS
<1>2. Append(<< a >>, b) = << a >> \o << b >>
  BY <1>1, AppendIsConcat
<1>3. Append(<< a >>, b) = << a, b >>
  <2> DEFINE s == Append(<< a >>, b)
             t == << a, b >>
  <2>1. s \in Seq(T) /\ Len(s) = 2 /\ s[1] = a /\ s[2] = b
    <3>1. << a >> \in Seq(T) /\ Len(<< a >>) = 1 /\ << a >>[1] = a
      OBVIOUS
    <3> QED
      BY <3>1, AppendProperties
  <2>2. t \in Seq(T) /\ Len(t) = 2 /\ t[1] = a /\ t[2] = b
    OBVIOUS
  <2> HIDE DEF s, t
  <2>3. \A i \in 1 .. Len(s) : s[i] = t[i]
    BY <2>1, <2>2
  <2>4. s = t
    BY <2>1, <2>2, <2>3, SeqEqual
  <2> QED
    BY <2>4 DEF s, t
<1> QED
  BY <1>2, <1>3

LEMMA TupleOfThree ==
    ASSUME NEW T, NEW a \in T, NEW b \in T, NEW c \in T
    PROVE  (<< a >> \o << b >>) \o << c >> = << a, b, c >> /\ << a >> \o << b, c >> = << a, b, c >>
<1>1. << a >> \in Seq(T) /\ << b >> \in Seq(T) /\ << c >> \in Seq(T) /\ << a, b >> \in Seq(T)
  OBVIOUS
<1>2. << a >> \o << b >> = << a, b >> /\ << b >> \o << c >> = << b, c >>
  BY TupleOfTwo
<1>3. Append(<< a, b >>, c) = << a, b >> \o << c >>
  BY <1>1, AppendIsConcat
<1>4. Append(<< a, b >>, c) = << a, b, c >>
  <2> DEFINE s == Append(<< a, b >>, c)
             t == << a, b, c >>
  <2>1. s \in Seq(T) /\ Len(s) = 3 /\ s[1] = a /\ s[2] = b /\ s[3] = c
    <3>1. << a, b >> \in Seq(T) /\ Len(<< a, b >>) = 2 /\ << a, b >>[1] = a /\ << a, b >>[2] = b
      OBVIOUS
    <3> QED
      BY <3>1, AppendProperties
  <2>2. t \in Seq(T) /\ Len(t) = 3 /\ t[1] = a /\ t[2] = b /\ t[3] = c
    OBVIOUS
  <2> HIDE DEF s, t
  <2>3. \A i \in 1 .. Len(s) : s[i] = t[i]
    BY <2>1, <2>2
  <2>4. s = t
    BY <2>1, <2>2, <2>3, SeqEqual
  <2> QED
    BY <2>4 DEF s, t
<1>5. (<< a >> \o << b >>) \o << c >> = << a >> \o (<< b >> \o << c >>)
  BY <1>1, ConcatAssociative
<1> QED
  BY <1>2, <1>3, <1>4, <1>5

(* Of three, each is kept or left out. *)
LEMMA PickedOfThree ==
    ASSUME NEW T, NEW s \in Seq(T), Len(s) = 3, NEW I
    PROVE  LET Kept(n) == IF n \in I THEN << s[n] >> ELSE <<>>
           IN Picked(s, I) = (Kept(1) \o Kept(2)) \o Kept(3)
<1> DEFINE f == PickedFun(s, I)
           Kept(n) == IF n \in I THEN << s[n] >> ELSE <<>>
           IsStep(n) == f[n] = IF n \in I THEN Append(f[n - 1], s[n]) ELSE f[n - 1]
<1>1. s[1] \in T /\ s[2] \in T /\ s[3] \in T
  <2>1. 1 \in 1 .. Len(s) /\ 2 \in 1 .. Len(s) /\ 3 \in 1 .. Len(s)
    OBVIOUS
  <2> QED
    BY <2>1, ElementOfSeq
<1>2. f[0] = <<>> /\ \A n \in 1 .. Len(s) : IsStep(n)
  <2>1. PickedFrom(s, I, f)
    BY PickedSteps
  <2> HIDE DEF f
  <2> QED
    BY <2>1 DEF PickedFrom
<1>3. Picked(s, I) = f[3]
  BY PickedIsFun
<1> HIDE DEF f
<1>4. IsStep(1) /\ IsStep(2) /\ IsStep(3)
  <2>1. 1 \in 1 .. Len(s) /\ 2 \in 1 .. Len(s) /\ 3 \in 1 .. Len(s)
    OBVIOUS
  <2> HIDE DEF IsStep
  <2> QED
    BY <1>2, <2>1
<1>5. Kept(1) \in Seq(T) /\ Kept(2) \in Seq(T) /\ Kept(3) \in Seq(T)
  BY <1>1
<1>6. ASSUME NEW n \in {1, 2, 3}, f[n - 1] \in Seq(T)
      PROVE  f[n] = f[n - 1] \o Kept(n) /\ f[n] \in Seq(T)
  <2>1. s[n] \in T /\ IsStep(n) /\ Kept(n) \in Seq(T)
    BY <1>1, <1>4, <1>5
  <2>2. CASE n \in I
    <3>1. f[n] = Append(f[n - 1], s[n]) /\ Kept(n) = << s[n] >>
      BY <2>1, <2>2
    <3>2. Append(f[n - 1], s[n]) = f[n - 1] \o << s[n] >>
      BY <1>6, <2>1, AppendIsConcat
    <3>3. Append(f[n - 1], s[n]) \in Seq(T)
      BY <1>6, <2>1
    <3> QED
      BY <3>1, <3>2, <3>3
  <2>3. CASE n \notin I
    <3>1. f[n] = f[n - 1] /\ Kept(n) = <<>>
      BY <2>1, <2>3
    <3>2. f[n - 1] \o <<>> = f[n - 1]
      BY <1>6, ConcatEmptySeq
    <3> QED
      BY <1>6, <3>1, <3>2
  <2> QED
    BY <2>2, <2>3
<1> HIDE DEF Kept
<1>7. f[1] = f[0] \o Kept(1) /\ f[1] \in Seq(T)
  <2>1. 1 \in {1, 2, 3} /\ 1 - 1 = 0 /\ f[0] \in Seq(T)
    BY <1>2
  <2> QED
    BY <1>6, <2>1
<1>8. f[2] = f[1] \o Kept(2) /\ f[2] \in Seq(T)
  <2>1. 2 \in {1, 2, 3} /\ 2 - 1 = 1
    OBVIOUS
  <2> QED
    BY <1>6, <1>7, <2>1
<1>9. f[3] = f[2] \o Kept(3)
  <2>1. 3 \in {1, 2, 3} /\ 3 - 1 = 2
    OBVIOUS
  <2> QED
    BY <1>6, <1>8, <2>1
<1>10. f[0] \o Kept(1) = Kept(1)
  BY <1>2, <1>5, ConcatEmptySeq
<1>11. Picked(s, I) = (Kept(1) \o Kept(2)) \o Kept(3)
  BY <1>3, <1>7, <1>8, <1>9, <1>10
<1> QED
  BY <1>11 DEF Kept

(* The probe that traces runs first, cve before sbom. *)
LEMMA ImageOrder ==
    /\ Len(SortedForTask(ImageEntries, {})) = 3
    /\ SortedForTask(ImageEntries, {})[1].name = "runtime_trace"
    /\ SortedForTask(ImageEntries, {})[2].name = "cve"
    /\ SortedForTask(ImageEntries, {})[3].name = "sbom"
<1> DEFINE a == ImageEntry("runtime_trace", 3, FALSE)
           b == ImageEntry("cve", 2, TRUE)
           c == ImageEntry("sbom", 2, TRUE)
           T == {a, b, c}
           s == << a, b, c >>
           Heavy(last, h) == {k \in DOMAIN s : s[k].last = last /\ s[k].heavy = h}
<1>1. /\ a.name = "runtime_trace" /\ a.heavy = 3 /\ a.last = FALSE /\ a.languages = {"*"}
      /\ b.name = "cve" /\ b.heavy = 2 /\ b.last = TRUE /\ b.languages = {"*"}
      /\ c.name = "sbom" /\ c.heavy = 2 /\ c.last = TRUE /\ c.languages = {"*"}
  BY DEF ImageEntry
<1>2. a \in T /\ b \in T /\ c \in T
  OBVIOUS
<1>3. ImageEntries = s
  BY DEF ImageEntries
<1> HIDE DEF a, b, c, T
<1>4. s \in Seq(T) /\ Len(s) = 3 /\ DOMAIN s = 1 .. 3 /\ s[1] = a /\ s[2] = b /\ s[3] = c
  BY <1>2
<1> HIDE DEF s
<1>5. \A k \in DOMAIN s : k = 1 \/ k = 2 \/ k = 3
  BY <1>4
<1>6. Picked(s, {k \in DOMAIN s : AdmitsLanguages(s[k].languages, {})}) = s
  <2>1. \A k \in DOMAIN s : AdmitsLanguages(s[k].languages, {})
    <3>1. \A k \in DOMAIN s : s[k].languages = {"*"}
      BY <1>1, <1>4, <1>5
    <3> QED
      BY <3>1 DEF AdmitsLanguages
  <2>2. {k \in DOMAIN s : AdmitsLanguages(s[k].languages, {})} = 1 .. 3
    BY <1>4, <2>1
  <2>3. Picked(s, 1 .. 3) = (<< a >> \o << b >>) \o << c >>
    <3>1. 1 \in 1 .. 3 /\ 2 \in 1 .. 3 /\ 3 \in 1 .. 3
      OBVIOUS
    <3> QED
      BY <1>4, <3>1, PickedOfThree
  <2>4. (<< a >> \o << b >>) \o << c >> = << a, b, c >>
    BY <1>2, TupleOfThree
  <2> QED
    BY <2>2, <2>3, <2>4 DEF s
<1>7. /\ Heavy(FALSE, 3) = {1} /\ Heavy(FALSE, 2) = {} /\ Heavy(FALSE, 1) = {}
      /\ Heavy(TRUE, 3) = {} /\ Heavy(TRUE, 2) = {2, 3} /\ Heavy(TRUE, 1) = {}
  <2>1. 1 \in DOMAIN s /\ 2 \in DOMAIN s /\ 3 \in DOMAIN s
    BY <1>4
  <2>2. /\ s[1].last = FALSE /\ s[1].heavy = 3 /\ s[2].last = TRUE /\ s[2].heavy = 2
        /\ s[3].last = TRUE /\ s[3].heavy = 2
    BY <1>1, <1>4
  <2> QED
    BY <1>5, <2>1, <2>2
<1>8. Picked(s, {1}) = << a >>
  <2>1. Picked(s, {1}) = (<< a >> \o <<>>) \o <<>>
    <3>1. 1 \in {1} /\ 2 \notin {1} /\ 3 \notin {1}
      OBVIOUS
    <3> QED
      BY <1>4, <3>1, PickedOfThree
  <2>2. << a >> \in Seq(T)
    BY <1>2
  <2> QED
    BY <2>1, <2>2, ConcatEmptySeq
<1>9. Picked(s, {}) = <<>>
  <2>1. Picked(s, {}) = (<<>> \o <<>>) \o <<>>
    BY <1>4, PickedOfThree
  <2> QED
    BY <2>1, ConcatEmptySeq, EmptySeq
<1>10. Picked(s, {2, 3}) = << b, c >>
  <2>1. Picked(s, {2, 3}) = (<<>> \o << b >>) \o << c >>
    <3>1. 1 \notin {2, 3} /\ 2 \in {2, 3} /\ 3 \in {2, 3}
      OBVIOUS
    <3> QED
      BY <1>4, <3>1, PickedOfThree
  <2>2. << b >> \in Seq(T)
    BY <1>2
  <2>3. << b >> \o << c >> = << b, c >>
    BY <1>2, TupleOfTwo
  <2> QED
    BY <2>1, <2>2, <2>3, ConcatEmptySeq
<1>11. ByHeaviness(s, FALSE) = << a >>
  <2>1. ByHeaviness(s, FALSE) = (<< a >> \o <<>>) \o <<>>
    BY <1>7, <1>8, <1>9 DEF ByHeaviness
  <2>2. << a >> \in Seq(T)
    BY <1>2
  <2> QED
    BY <2>1, <2>2, ConcatEmptySeq
<1>12. ByHeaviness(s, TRUE) = << b, c >>
  <2>1. ByHeaviness(s, TRUE) = (<<>> \o << b, c >>) \o <<>>
    BY <1>7, <1>9, <1>10 DEF ByHeaviness
  <2>2. << b, c >> \in Seq(T)
    BY <1>2
  <2> QED
    BY <2>1, <2>2, ConcatEmptySeq
<1>13. SortedForTask(s, {}) = << a >> \o << b, c >>
  BY <1>6, <1>11, <1>12 DEF SortedForTask, SortEntries
<1>14. << a >> \o << b, c >> = s
  BY <1>2, TupleOfThree DEF s
<1> QED
  BY <1>1, <1>3, <1>4, <1>13, <1>14

(* What stands in context/raw. *)
ScanWords == STRING \cup {"none", "skipped", "failed", "ran"}
ImageScans == [digest : ScanWords, kind : ScanWords, of : ScanWords]
RawScans == [trace : TraceSlices \cup {EmptyTrace("absent")}, sbom : ImageScans, artifact : ScanWords, cve : ImageScans]
AfterTrace(raw, g) == IF g.trace.state = "stays" THEN raw ELSE [raw EXCEPT !.trace = g.trace]
AfterScans(raw, g) == Sbom(Cve(AfterTrace(raw, g), g.grype), g.syft)

LEMMA ScanImageIs ==
    ASSUME NEW raw, NEW g PROVE ScanImage(raw, g) = AfterScans(raw, g)
<1> DEFINE order == SortedForTask(ImageEntries, {})
           Body(f) == [k \in 0 .. Len(order) |-> IF k = 0 THEN raw ELSE ScanWith(order[k].name, f[k - 1], g)]
           left == CHOOSE f : f = Body(f)
           v1 == ScanWith("runtime_trace", raw, g)
           v2 == ScanWith("cve", v1, g)
           v3 == ScanWith("sbom", v2, g)
           h == [k \in 0 .. 3 |-> IF k = 0 THEN raw ELSE IF k = 1 THEN v1 ELSE IF k = 2 THEN v2 ELSE v3]
<1>1. ScanImage(raw, g) = left[Len(order)]
  BY DEF ScanImage
<1>2. Len(order) = 3 /\ order[1].name = "runtime_trace" /\ order[2].name = "cve" /\ order[3].name = "sbom"
  BY ImageOrder
<1> HIDE DEF order
<1>3. v1 = AfterTrace(raw, g) /\ v2 = Cve(v1, g.grype) /\ v3 = Sbom(v2, g.syft)
  BY DEF ScanWith, AfterTrace
<1> HIDE DEF v1, v2, v3
<1>4. h = Body(h)
  <2>1. h[0] = raw /\ h[1] = v1 /\ h[2] = v2 /\ h[3] = v3
    OBVIOUS
  <2>2. v1 = ScanWith("runtime_trace", raw, g) /\ v2 = ScanWith("cve", v1, g) /\ v3 = ScanWith("sbom", v2, g)
    BY DEF v1, v2, v3
  <2> DEFINE Next1(k) == IF k = 0 THEN raw ELSE ScanWith(order[k].name, h[k - 1], g)
  <2>3. h[0] = Next1(0) /\ h[1] = Next1(1) /\ h[2] = Next1(2) /\ h[3] = Next1(3)
    <3>1. 1 - 1 = 0 /\ 2 - 1 = 1 /\ 3 - 1 = 2
      OBVIOUS
    <3> HIDE DEF h
    <3> QED
      BY <1>2, <2>1, <2>2, <3>1
  <2>4. \A k \in 0 .. 3 : k = 0 \/ k = 1 \/ k = 2 \/ k = 3
    OBVIOUS
  <2>5. h = [k \in 0 .. 3 |-> h[k]]
    OBVIOUS
  <2>6. \A k \in 0 .. 3 : h[k] = Next1(k)
    <3> HIDE DEF h, Next1
    <3> QED
      BY <2>3, <2>4
  <2>7. h = [k \in 0 .. 3 |-> Next1(k)]
    <3> HIDE DEF h, Next1
    <3> QED
      BY <2>5, <2>6
  <2> HIDE DEF h
  <2> QED
    BY <1>2, <2>7
<1> HIDE DEF h
<1>5. left = Body(left)
  <2> HIDE DEF Body
  <2> QED
    BY <1>4
<1> HIDE DEF left
<1>6. left[0] = raw /\ left[1] = v1 /\ left[2] = v2 /\ left[3] = v3
  <2>1. \A k \in 0 .. 3 : left[k] = IF k = 0 THEN raw ELSE ScanWith(order[k].name, left[k - 1], g)
    BY <1>2, <1>5
  <2>2. left[0] = raw
    BY <2>1
  <2>3. left[1] = ScanWith("runtime_trace", left[0], g)
    BY <1>2, <2>1
  <2>4. left[2] = ScanWith("cve", left[1], g)
    BY <1>2, <2>1
  <2>5. left[3] = ScanWith("sbom", left[2], g)
    BY <1>2, <2>1
  <2> QED
    BY <2>2, <2>3, <2>4, <2>5 DEF v1, v2, v3
<1> QED
  BY <1>1, <1>2, <1>3, <1>6 DEF AfterScans

LEMMA ToolKinds ==
    ASSUME NEW tool \in ScanTools PROVE ClassifyImageScan(tool).kind \in ScanWords
<1>1. \A reason : Skipped(reason).kind = "skipped" /\ Failed(reason).kind = "failed"
  BY DEF Skipped, Failed
<1>2. Ran.kind = "ran"
  BY DEF Ran
<1>3. \/ ClassifyImageScan(tool) = Skipped("tool_missing") \/ ClassifyImageScan(tool) = Failed("exit_code")
      \/ ClassifyImageScan(tool) = Failed("invalid_json") \/ ClassifyImageScan(tool) = Ran
  BY DEF ClassifyImageScan, ScanTools
<1>4. ClassifyImageScan(tool).kind \in {"skipped", "failed", "ran"}
  BY <1>1, <1>2, <1>3
<1> QED
  BY <1>4 DEF ScanWords

LEMMA AfterScansTyped ==
    ASSUME NEW raw \in RawScans, NEW g \in ScanGather PROVE AfterScans(raw, g) \in RawScans
<1> DEFINE traced == AfterTrace(raw, g)
           cved == Cve(traced, g.grype)
<1>1. traced \in RawScans
  BY DEF AfterTrace, RawScans, ScanGather
<1> HIDE DEF traced
<1>2. g.grype \in ScanTools /\ g.syft \in ScanTools
  BY DEF ScanGather
<1>3. cved \in RawScans
  <2> DEFINE outcome == CASE ~UpstreamSbom(traced.sbom) -> Skipped("upstream_unavailable")
                          [] UpstreamSbom(traced.sbom) /\ traced.artifact = "none" -> Failed("sbom_artifact_missing")
                          [] OTHER -> ClassifyImageScan(g.grype)
             digest == IF UpstreamSbom(traced.sbom) THEN traced.sbom.digest ELSE "none"
             of == IF outcome = Ran THEN traced.artifact ELSE "none"
  <2>1. outcome.kind \in ScanWords
    <3>1. /\ ClassifyImageScan(g.grype).kind \in ScanWords
          /\ Skipped("upstream_unavailable").kind = "skipped" /\ Failed("sbom_artifact_missing").kind = "failed"
      BY <1>2, ToolKinds DEF Skipped, Failed
    <3>2. \/ outcome = Skipped("upstream_unavailable") \/ outcome = Failed("sbom_artifact_missing")
          \/ outcome = ClassifyImageScan(g.grype)
      OBVIOUS
    <3> HIDE DEF outcome
    <3> QED
      BY <3>1, <3>2 DEF ScanWords
  <2>2. digest \in ScanWords /\ of \in ScanWords
    BY <1>1 DEF RawScans, ImageScans, ScanWords
  <2>3. cved = [traced EXCEPT !.cve = [digest |-> digest, kind |-> outcome.kind, of |-> of]]
    BY DEF Cve
  <2> HIDE DEF outcome, digest, of, cved
  <2>4. [digest |-> digest, kind |-> outcome.kind, of |-> of] \in ImageScans
    BY <2>1, <2>2 DEF ImageScans
  <2> QED
    BY <1>1, <2>3, <2>4 DEF RawScans
<1> HIDE DEF cved
<1>4. Sbom(cved, g.syft) \in RawScans
  <2> DEFINE digest == UpstreamImageDigest(cved.trace)
             outcome == IF digest = "none" THEN Skipped("upstream_unavailable") ELSE ClassifyImageScan(g.syft)
             artifact == IF outcome = Ran /\ g.syft # "unwritten" THEN digest ELSE cved.artifact
  <2>1. outcome.kind \in ScanWords
    <3>1. ClassifyImageScan(g.syft).kind \in ScanWords /\ Skipped("upstream_unavailable").kind = "skipped"
      BY <1>2, ToolKinds DEF Skipped
    <3>2. outcome = Skipped("upstream_unavailable") \/ outcome = ClassifyImageScan(g.syft)
      OBVIOUS
    <3> HIDE DEF outcome
    <3> QED
      BY <3>1, <3>2 DEF ScanWords
  <2>2. digest \in ScanWords
    <3>1. cved.trace \in TraceSlices \cup {EmptyTrace("absent")}
      BY <1>3 DEF RawScans
    <3>2. CASE cved.trace \in TraceSlices
      BY <3>2 DEF TraceSlices, UpstreamImageDigest, ScanWords
    <3>3. CASE cved.trace = EmptyTrace("absent")
      BY <3>3 DEF EmptyTrace, UpstreamImageDigest, ScanWords
    <3> QED
      BY <3>1, <3>2, <3>3
  <2>3. artifact \in ScanWords
    BY <1>3, <2>2 DEF RawScans
  <2>4. Sbom(cved, g.syft) = [cved EXCEPT !.sbom = [digest |-> digest, kind |-> outcome.kind, of |-> digest],
                                          !.artifact = artifact]
    BY DEF Sbom
  <2> HIDE DEF outcome, digest, artifact
  <2>5. [digest |-> digest, kind |-> outcome.kind, of |-> digest] \in ImageScans
    BY <2>1, <2>2 DEF ImageScans
  <2> QED
    BY <1>3, <2>3, <2>4, <2>5 DEF RawScans
<1> QED
  BY <1>4 DEF AfterScans, traced, cved

(* What stands after each gather comes of what stood before it. *)
LEMMA GathersAre ==
    ASSUME NEW gathers \in Seq(ScanGather)
    PROVE  \E left \in [0 .. Len(gathers) -> RawScans] :
               /\ \A k \in 1 .. Len(gathers) : left[k] = AfterScans(left[k - 1], gathers[k])
               /\ ScanGathers(NothingScanned, gathers) = [k \in 1 .. Len(gathers) |-> left[k]]
<1> DEFINE N == Len(gathers)
           step == [x \in (1 .. N) \X RawScans |-> AfterScans(x[2], gathers[x[1]])]
           Body(f) == [k \in 0 .. N |-> IF k = 0 THEN NothingScanned ELSE ScanImage(f[k - 1], gathers[k])]
           left == CHOOSE f : f = Body(f)
<1>1. N \in Nat /\ \A k \in 1 .. N : gathers[k] \in ScanGather
  BY ElementOfSeq
<1>2. step \in [(1 .. N) \X RawScans -> RawScans]
  BY <1>1, AfterScansTyped
<1>3. NothingScanned \in RawScans
  <2>1. NoScan \in ImageScans
    BY DEF ImageScans, NoScan, ScanWords
  <2> QED
    BY <2>1 DEF NothingScanned, RawScans, ScanWords
<1>4. PICK f : Steps(N, RawScans, NothingScanned, step, f)
  <2> HIDE DEF N, step
  <2> QED
    BY <1>1, <1>2, <1>3, StepsExist
<1>5. f \in [0 .. N -> RawScans] /\ f[0] = NothingScanned
  BY <1>4 DEF Steps
<1>6. ASSUME NEW k \in 1 .. N PROVE f[k] = ScanImage(f[k - 1], gathers[k])
  <2>1. k - 1 \in 0 .. N
    BY <1>1
  <2>2. f[k] = step[<<k, f[k - 1]>>] /\ f[k - 1] \in RawScans
    <3> HIDE DEF step
    <3> QED
      BY <1>4, <1>5, <2>1 DEF Steps
  <2>3. f[k] = AfterScans(f[k - 1], gathers[k])
    BY <2>2
  <2> QED
    BY <2>3, ScanImageIs
<1>7. f = Body(f)
  <2>1. \A k \in 0 .. N : f[k] = IF k = 0 THEN NothingScanned ELSE ScanImage(f[k - 1], gathers[k])
    BY <1>1, <1>5, <1>6
  <2>2. f = [k \in 0 .. N |-> f[k]]
    BY <1>5
  <2> QED
    BY <2>1, <2>2
<1>8. left = Body(left)
  <2> HIDE DEF Body
  <2> QED
    BY <1>7
<1>9. ScanGathers(NothingScanned, gathers) = [k \in 1 .. N |-> left[k]]
  BY DEF ScanGathers
<1> HIDE DEF left
<1>10. left[0] = NothingScanned /\ \A k \in 1 .. N : left[k] = AfterScans(left[k - 1], gathers[k])
  <2>1. \A k \in 0 .. N : left[k] = IF k = 0 THEN NothingScanned ELSE ScanImage(left[k - 1], gathers[k])
    BY <1>8
  <2> QED
    BY <1>1, <2>1, ScanImageIs
<1>11. ASSUME NEW k \in 1 .. N, left[k - 1] \in RawScans PROVE left[k] \in RawScans
  BY <1>1, <1>10, <1>11, AfterScansTyped
<1>12. left \in [0 .. N -> RawScans]
  <2> DEFINE S == {k \in 0 .. N : left[k] \in RawScans}
  <2>1. 0 \in S
    BY <1>1, <1>3, <1>10
  <2>2. \A k \in 1 .. N : k - 1 \in S => k \in S
    BY <1>1, <1>11
  <2>3. 0 .. N \subseteq S
    <3> HIDE DEF S, N
    <3> QED
      BY <1>1, <2>1, <2>2, NumbersUpTo
  <2>4. \A k \in 0 .. N : left[k] \in RawScans
    BY <2>3
  <2>5. left = [k \in 0 .. N |-> left[k]]
    BY <1>8
  <2> QED
    BY <2>4, <2>5
<1> QED
  BY <1>9, <1>10, <1>12

(* An image traced, and its sbom taken, in the gather before: the next     *)
(* that traces it scans it.                                                *)
LEMMA ScanOfTheSame ==
    ASSUME NEW raw \in RawScans, NEW before \in ScanGather, NEW now \in ScanGather,
           before.trace.state = "read", before.trace.built # "none", before.trace.coverage # "unavailable",
           before.syft = "ok", now.grype = "ok"
    PROVE  AfterScans(AfterScans(raw, before), now).cve =
               [digest |-> before.trace.built, kind |-> "ran", of |-> before.trace.built]
<1> DEFINE d == before.trace.built
           t1 == AfterTrace(raw, before)
           c1 == Cve(t1, before.grype)
           s1 == AfterScans(raw, before)
           t2 == AfterTrace(s1, now)
           c2 == Cve(t2, now.grype)
<1>1. t1 \in RawScans /\ t1.trace = before.trace
  BY DEF AfterTrace, RawScans, ScanGather
<1> HIDE DEF t1
<1>2. c1.trace = before.trace /\ DOMAIN c1 = {"trace", "sbom", "artifact", "cve"}
  BY <1>1 DEF Cve, RawScans
<1>3. s1 = Sbom(c1, before.syft)
  BY DEF AfterScans, t1
<1> HIDE DEF c1
<1>4. UpstreamImageDigest(c1.trace) = d /\ ClassifyImageScan(before.syft) = Ran
  BY <1>2 DEF UpstreamImageDigest, ClassifyImageScan
<1>5. s1.sbom = [digest |-> d, kind |-> "ran", of |-> d] /\ s1.artifact = d
  BY <1>2, <1>3, <1>4 DEF Sbom, Ran
<1>6. s1 \in RawScans
  BY AfterScansTyped
<1> HIDE DEF s1
<1>7. t2 \in RawScans /\ t2.sbom = s1.sbom /\ t2.artifact = s1.artifact
  BY <1>6 DEF AfterTrace, RawScans, ScanGather
<1>8. AfterScans(s1, now) = Sbom(c2, now.syft)
  BY DEF AfterScans
<1> HIDE DEF t2
<1>9. UpstreamSbom(t2.sbom) /\ t2.artifact # "none" /\ ClassifyImageScan(now.grype) = Ran
  BY <1>5, <1>7 DEF UpstreamSbom, ClassifyImageScan
<1>10. c2.cve = [digest |-> d, kind |-> "ran", of |-> d] /\ DOMAIN c2 = {"trace", "sbom", "artifact", "cve"}
  BY <1>5, <1>7, <1>9 DEF Cve, RawScans, Ran
<1> HIDE DEF c2
<1>11. Sbom(c2, now.syft).cve = c2.cve
  BY <1>10 DEF Sbom
<1> QED
  BY <1>8, <1>10, <1>11 DEF s1

(* ScanSettles, for any gathers: what a scanner finds in context/raw is    *)
(* what the probes of the gather before left there                         *)
(* (_upstream_image_digest and _upstream_sbom_artifact).                   *)
THEOREM ScansSettle == Spec => []ScanSettles
<1>1. Answered => ScanSettles
  <2> SUFFICES ASSUME Answered, asked = "scan" PROVE ScanSettles
    BY DEF ScanSettles
  <2>1. question \in Seq(ScanGather) /\ answer = ScanGathers(NothingScanned, question)
    BY QuestionsAssumption DEF Answered
  <2>2. PICK left \in [0 .. Len(question) -> RawScans] :
          /\ \A k \in 1 .. Len(question) : left[k] = AfterScans(left[k - 1], question[k])
          /\ ScanGathers(NothingScanned, question) = [k \in 1 .. Len(question) |-> left[k]]
    BY <2>1, GathersAre
  <2> DEFINE Traces(g) == g.trace.state = "read" /\ g.trace.built # "none" /\ g.trace.coverage # "unavailable"
  <2>3. ASSUME NEW k \in 2 .. Len(question), Traces(question[k - 1]), question[k].trace.built = question[k - 1].trace.built,
               question[k - 1].syft = "ok", question[k].grype = "ok"
        PROVE  answer[k].cve = [digest |-> question[k].trace.built, kind |-> "ran", of |-> question[k].trace.built]
    <3>1. Len(question) \in Nat /\ k \in 1 .. Len(question) /\ k - 1 \in 1 .. Len(question) /\ (k - 1) - 1 \in 0 .. Len(question)
      BY <2>1
    <3>2. question[k] \in ScanGather /\ question[k - 1] \in ScanGather /\ left[(k - 1) - 1] \in RawScans
      BY <2>1, <2>2, <3>1, ElementOfSeq
    <3>3. left[k] = AfterScans(AfterScans(left[(k - 1) - 1], question[k - 1]), question[k])
      BY <2>2, <3>1
    <3>4. answer[k] = left[k]
      BY <2>1, <2>2, <3>1
    <3>5. left[k].cve = [digest |-> question[k - 1].trace.built, kind |-> "ran", of |-> question[k - 1].trace.built]
      BY <2>3, <3>2, <3>3, ScanOfTheSame
    <3> QED
      BY <2>3, <3>4, <3>5
  <2> QED
    BY <2>3 DEF ScanSettles
<1> QED
  BY <1>1, AlwaysAnswered, PTL

-----------------------------------------------------------------------------
(* Skills: every file is listed, set aside or an error (skills/loader.py). *)

Winners == [id : Nat, tier : 1 .. 3]
Shadows == [id : Nat, tier : 1 .. 3, by : 1 .. 3]
SkillFiles == [id : Nat, reads : STRING]
Loads == [winners : Seq(Winners), shadowed : Seq(Shadows), errors : Seq(STRING)]

(* No name is listed twice, and what is set aside is for one that is       *)
(* listed, of a tier that does not come after it.                          *)
OneOfEach(winners) == \A a, b \in DOMAIN winners : winners[a].id = winners[b].id => a = b
ForOneListed(winners, shadowed) ==
    \A s \in ToSet(shadowed) : s.by =< s.tier /\ [id |-> s.id, tier |-> s.by] \in ToSet(winners)

(* The state of the load after n files, none of a tier after t.            *)
LoadedTo(acc, t, n) ==
    /\ acc \in Loads
    /\ Len(acc.winners) + Len(acc.shadowed) + Len(acc.errors) = n
    /\ OneOfEach(acc.winners)
    /\ \A a \in DOMAIN acc.winners : acc.winners[a].tier =< t
    /\ ForOneListed(acc.winners, acc.shadowed)

(* A name that is not listed yet, and one that is. *)
IsNewcomer(acc, t, file) ==
    /\ \A a \in DOMAIN acc.winners : acc.winners[a].id # file.id
    /\ AddSkill(acc, t, file) = [acc EXCEPT !.winners = Append(@, [id |-> file.id, tier |-> t])]
IsShadowed(acc, t, file) ==
    \E k \in DOMAIN acc.winners :
        /\ acc.winners[k].id = file.id
        /\ AddSkill(acc, t, file) = [acc EXCEPT !.shadowed = Append(@, [id |-> file.id, tier |-> t, by |-> acc.winners[k].tier])]

LEMMA AddSkillIs ==
    ASSUME NEW acc \in Loads, NEW t, NEW file
    PROVE  IsNewcomer(acc, t, file) \/ IsShadowed(acc, t, file)
<1> DEFINE w == acc.winners
           I == {i \in 1 .. Len(w) : w[i].id = file.id}
           k == IF I # {} THEN Min(I) ELSE 0
<1>1. w \in Seq(Winners) /\ Len(w) \in Nat /\ DOMAIN w = 1 .. Len(w)
  <2>1. w \in Seq(Winners)
    BY DEF Loads
  <2> HIDE DEF w
  <2> QED
    BY <2>1
<1>2. AddSkill(acc, t, file) =
        IF k = 0 THEN [acc EXCEPT !.winners = Append(@, [id |-> file.id, tier |-> t])]
        ELSE [acc EXCEPT !.shadowed = Append(@, [id |-> file.id, tier |-> t, by |-> acc.winners[k].tier])]
  BY DEF AddSkill, SelectInSeq
<1>3. CASE I = {}
  <2>1. k = 0
    BY <1>3
  <2>2. \A a \in DOMAIN w : w[a].id # file.id
    <3> HIDE DEF w
    <3> QED
      BY <1>1, <1>3
  <2> HIDE DEF k, I
  <2> QED
    BY <1>2, <2>1, <2>2 DEF IsNewcomer
<1>4. CASE I # {}
  <2>1. I \subseteq Nat /\ k = Min(I)
    BY <1>4
  <2>2. k \in I
    <3> HIDE DEF I, k
    <3> QED
      BY <1>4, <2>1, LeastOf
  <2>3. k # 0 /\ k \in DOMAIN w /\ w[k].id = file.id
    <3> HIDE DEF k, w
    <3> QED
      BY <1>1, <2>2
  <2> HIDE DEF k, I
  <2> QED
    BY <1>2, <2>3 DEF IsShadowed
<1> QED
  BY <1>3, <1>4

LEMMA NewcomerLoaded ==
    ASSUME NEW n \in Nat, NEW t \in 1 .. 3, NEW acc, LoadedTo(acc, t, n), NEW file \in SkillFiles, IsNewcomer(acc, t, file)
    PROVE  LoadedTo(AddSkill(acc, t, file), t, n + 1)
<1> DEFINE new == [id |-> file.id, tier |-> t]
           w == acc.winners
           z == Append(w, new)
           after == AddSkill(acc, t, file)
<1>1. acc \in Loads /\ new \in Winners
  BY DEF LoadedTo, Winners, SkillFiles
<1>2. w \in Seq(Winners) /\ acc.shadowed \in Seq(Shadows) /\ acc.errors \in Seq(STRING)
  BY <1>1 DEF Loads
<1>3. after = [acc EXCEPT !.winners = z]
  BY DEF IsNewcomer
<1> HIDE DEF z, after
<1>4. after.winners = z /\ after.shadowed = acc.shadowed /\ after.errors = acc.errors
  BY <1>1, <1>3 DEF Loads
<1> HIDE DEF w, new
<1>5. /\ z \in Seq(Winners) /\ Len(z) = Len(w) + 1 /\ DOMAIN z = 1 .. Len(w) + 1 /\ DOMAIN w = 1 .. Len(w) /\ Len(w) \in Nat
      /\ z[Len(w) + 1] = new /\ \A i \in 1 .. Len(w) : z[i] = w[i]
  BY <1>1, <1>2, AppendProperties DEF z
<1>6. ToSet(z) = ToSet(w) \cup {new}
  BY <1>1, <1>2, AppendRange DEF z
<1>7. after \in Loads
  BY <1>1, <1>3, <1>5 DEF Loads
<1>8. Len(after.winners) + Len(after.shadowed) + Len(after.errors) = n + 1
  <2>1. Len(w) + Len(acc.shadowed) + Len(acc.errors) = n
    BY DEF LoadedTo, w
  <2>2. Len(acc.shadowed) \in Nat /\ Len(acc.errors) \in Nat
    BY <1>2
  <2>3. (Len(w) + 1) + Len(acc.shadowed) + Len(acc.errors) = n + 1
    <3> DEFINE p == Len(w)
           q == Len(acc.shadowed)
           r == Len(acc.errors)
    <3>1. p \in Nat /\ q \in Nat /\ r \in Nat /\ p + q + r = n
      BY <1>5, <2>1, <2>2
    <3> HIDE DEF p, q, r
    <3>2. (p + 1) + q + r = n + 1
      BY <3>1
    <3> QED
      BY <3>2 DEF p, q, r
  <2> QED
    BY <1>4, <1>5, <2>3
<1>9. OneOfEach(w) /\ (\A a \in DOMAIN w : w[a].tier =< t) /\ ForOneListed(w, acc.shadowed) /\ (\A a \in DOMAIN w : w[a].id # file.id)
  BY DEF LoadedTo, IsNewcomer, w
<1>10. new.id = file.id /\ new.tier = t
  BY DEF new
<1>11. OneOfEach(z)
  <2>1. ASSUME NEW a \in DOMAIN z, NEW b \in DOMAIN z, z[a].id = z[b].id PROVE a = b
    <3>1. CASE a \in DOMAIN w /\ b \in DOMAIN w
      BY <1>5, <1>9, <2>1, <3>1 DEF OneOfEach
    <3>2. CASE a \in DOMAIN w /\ b = Len(w) + 1
      BY <1>5, <1>9, <1>10, <2>1, <3>2
    <3>3. CASE a = Len(w) + 1 /\ b \in DOMAIN w
      BY <1>5, <1>9, <1>10, <2>1, <3>3
    <3>4. CASE a = Len(w) + 1 /\ b = Len(w) + 1
      BY <3>4
    <3> QED
      BY <1>5, <3>1, <3>2, <3>3, <3>4
  <2> QED
    BY <2>1 DEF OneOfEach
<1>12. \A a \in DOMAIN z : z[a].tier =< t
  <2>1. ASSUME NEW a \in DOMAIN z PROVE z[a].tier =< t
    <3>1. CASE a \in DOMAIN w
      BY <1>5, <1>9, <3>1
    <3>2. CASE a = Len(w) + 1
      BY <1>5, <1>10, <3>2
    <3> QED
      BY <1>5, <3>1, <3>2
  <2> QED
    BY <2>1
<1>13. ForOneListed(z, acc.shadowed)
  BY <1>6, <1>9 DEF ForOneListed
<1>14. LoadedTo(after, t, n + 1)
  BY <1>4, <1>7, <1>8, <1>11, <1>12, <1>13 DEF LoadedTo
<1> QED
  BY <1>14 DEF after

LEMMA ShadowedLoaded ==
    ASSUME NEW n \in Nat, NEW t \in 1 .. 3, NEW acc, LoadedTo(acc, t, n), NEW file \in SkillFiles, IsShadowed(acc, t, file)
    PROVE  LoadedTo(AddSkill(acc, t, file), t, n + 1)
<1> DEFINE w == acc.winners
           after == AddSkill(acc, t, file)
<1>1. PICK k \in DOMAIN w : /\ w[k].id = file.id
                            /\ after = [acc EXCEPT !.shadowed = Append(@, [id |-> file.id, tier |-> t, by |-> w[k].tier])]
  BY DEF IsShadowed
<1> DEFINE new == [id |-> file.id, tier |-> t, by |-> w[k].tier]
           z == Append(acc.shadowed, new)
<1>2. acc \in Loads
  BY DEF LoadedTo
<1>3. w \in Seq(Winners) /\ acc.shadowed \in Seq(Shadows) /\ acc.errors \in Seq(STRING)
  BY <1>2 DEF Loads
<1>4. after = [acc EXCEPT !.shadowed = z]
  BY <1>1
<1> HIDE DEF after, w
<1>5. w[k] \in Winners
  BY <1>1, <1>3
<1>6. new \in Shadows /\ w[k] = [id |-> file.id, tier |-> w[k].tier] /\ w[k] \in ToSet(w)
  BY <1>1, <1>5 DEF Winners, Shadows, SkillFiles, ToSet
<1> HIDE DEF z
<1>7. after.winners = w /\ after.shadowed = z /\ after.errors = acc.errors
  BY <1>2, <1>4 DEF Loads, w
<1>8. w[k].tier =< t /\ new.id = file.id /\ new.tier = t /\ new.by = w[k].tier
  BY DEF LoadedTo, w
<1> HIDE DEF new
<1>9. z \in Seq(Shadows) /\ Len(z) = Len(acc.shadowed) + 1
  BY <1>3, <1>6, AppendProperties DEF z
<1>10. ToSet(z) = ToSet(acc.shadowed) \cup {new}
  BY <1>3, <1>6, AppendRange DEF z
<1>11. after \in Loads
  BY <1>2, <1>4, <1>9 DEF Loads
<1>12. Len(after.winners) + Len(after.shadowed) + Len(after.errors) = n + 1
  <2>1. Len(w) + Len(acc.shadowed) + Len(acc.errors) = n
    BY DEF LoadedTo, w
  <2>2. Len(w) \in Nat /\ Len(acc.shadowed) \in Nat /\ Len(acc.errors) \in Nat
    BY <1>3
  <2>3. Len(w) + (Len(acc.shadowed) + 1) + Len(acc.errors) = n + 1
    <3> DEFINE p == Len(w)
           q == Len(acc.shadowed)
           r == Len(acc.errors)
    <3>1. p \in Nat /\ q \in Nat /\ r \in Nat /\ p + q + r = n
      BY <2>1, <2>2
    <3> HIDE DEF p, q, r
    <3>2. p + (q + 1) + r = n + 1
      BY <3>1
    <3> QED
      BY <3>2 DEF p, q, r
  <2> QED
    BY <1>7, <1>9, <2>3
<1>13. OneOfEach(w) /\ (\A a \in DOMAIN w : w[a].tier =< t) /\ ForOneListed(w, acc.shadowed)
  BY DEF LoadedTo, w
<1>14. ForOneListed(w, z)
  <2>1. ASSUME NEW s \in ToSet(z) PROVE s.by =< s.tier /\ [id |-> s.id, tier |-> s.by] \in ToSet(w)
    <3>1. CASE s \in ToSet(acc.shadowed)
      BY <1>13, <3>1 DEF ForOneListed
    <3>2. CASE s = new
      BY <1>6, <1>8, <3>2
    <3> QED
      BY <1>10, <3>1, <3>2
  <2> QED
    BY <2>1 DEF ForOneListed
<1>15. LoadedTo(after, t, n + 1)
  BY <1>7, <1>11, <1>12, <1>13, <1>14 DEF LoadedTo
<1> QED
  BY <1>15 DEF after

LEMMA TakeSkillLoaded ==
    ASSUME NEW n \in Nat, NEW t \in 1 .. 3, NEW acc, LoadedTo(acc, t, n), NEW file \in SkillFiles
    PROVE  LoadedTo(TakeSkill(acc, t, file), t, n + 1)
<1>1. CASE file.reads = "ok"
  <2>1. TakeSkill(acc, t, file) = AddSkill(acc, t, file)
    BY <1>1 DEF TakeSkill, LoadOneSkill
  <2>2. acc \in Loads
    BY DEF LoadedTo
  <2>3. CASE IsNewcomer(acc, t, file)
    BY <2>1, <2>3, NewcomerLoaded
  <2>4. CASE IsShadowed(acc, t, file)
    BY <2>1, <2>4, ShadowedLoaded
  <2> QED
    BY <2>2, <2>3, <2>4, AddSkillIs
<1>2. CASE file.reads # "ok"
  <2> DEFINE z == Append(acc.errors, file.reads)
             after == TakeSkill(acc, t, file)
  <2>1. after = [acc EXCEPT !.errors = z]
    BY <1>2 DEF TakeSkill, LoadOneSkill
  <2>2. acc \in Loads /\ file.reads \in STRING
    BY DEF LoadedTo, SkillFiles
  <2>3. acc.winners \in Seq(Winners) /\ acc.shadowed \in Seq(Shadows) /\ acc.errors \in Seq(STRING)
    BY <2>2 DEF Loads
  <2>4. z \in Seq(STRING) /\ Len(z) = Len(acc.errors) + 1
    BY <2>2, <2>3, AppendProperties
  <2> HIDE DEF z, after
  <2>5. after.winners = acc.winners /\ after.shadowed = acc.shadowed /\ after.errors = z
    BY <2>1, <2>2 DEF Loads
  <2>6. after \in Loads
    BY <2>1, <2>2, <2>4 DEF Loads
  <2>7. Len(after.winners) + Len(after.shadowed) + Len(after.errors) = n + 1
    <3>1. Len(acc.winners) + Len(acc.shadowed) + Len(acc.errors) = n
      BY DEF LoadedTo
    <3>2. Len(acc.winners) \in Nat /\ Len(acc.shadowed) \in Nat /\ Len(acc.errors) \in Nat
      BY <2>3
    <3>3. Len(acc.winners) + Len(acc.shadowed) + (Len(acc.errors) + 1) = n + 1
      <4> DEFINE p == Len(acc.winners)
             q == Len(acc.shadowed)
             r == Len(acc.errors)
      <4>1. p \in Nat /\ q \in Nat /\ r \in Nat /\ p + q + r = n
        BY <3>1, <3>2
      <4> HIDE DEF p, q, r
      <4>2. p + q + (r + 1) = n + 1
        BY <4>1
      <4> QED
        BY <4>2 DEF p, q, r
    <3> QED
      BY <2>4, <2>5, <3>3
  <2>8. LoadedTo(after, t, n + 1)
    BY <2>5, <2>6, <2>7 DEF LoadedTo
  <2> QED
    BY <2>8 DEF after
<1> QED
  BY <1>1, <1>2

LEMMA TakeSkillTyped ==
    ASSUME NEW t \in 1 .. 3, NEW acc \in Loads, NEW file \in SkillFiles
    PROVE  TakeSkill(acc, t, file) \in Loads
<1>1. acc.winners \in Seq(Winners) /\ acc.shadowed \in Seq(Shadows) /\ acc.errors \in Seq(STRING)
  BY DEF Loads
<1>2. CASE file.reads # "ok"
  <2>1. Append(acc.errors, file.reads) \in Seq(STRING)
    BY <1>1 DEF SkillFiles
  <2> QED
    BY <1>2, <2>1 DEF TakeSkill, LoadOneSkill, Loads
<1>3. CASE file.reads = "ok"
  <2>1. TakeSkill(acc, t, file) = AddSkill(acc, t, file)
    BY <1>3 DEF TakeSkill, LoadOneSkill
  <2>2. CASE IsNewcomer(acc, t, file)
    <3>1. [id |-> file.id, tier |-> t] \in Winners
      BY DEF Winners, SkillFiles
    <3>2. Append(acc.winners, [id |-> file.id, tier |-> t]) \in Seq(Winners)
      BY <1>1, <3>1
    <3>3. AddSkill(acc, t, file) = [acc EXCEPT !.winners = Append(acc.winners, [id |-> file.id, tier |-> t])]
      BY <2>2 DEF IsNewcomer
    <3> QED
      BY <2>1, <3>2, <3>3 DEF Loads
  <2>3. CASE IsShadowed(acc, t, file)
    <3>1. PICK k \in DOMAIN acc.winners :
            AddSkill(acc, t, file) = [acc EXCEPT !.shadowed = Append(@, [id |-> file.id, tier |-> t, by |-> acc.winners[k].tier])]
      BY <2>3 DEF IsShadowed
    <3> DEFINE new == [id |-> file.id, tier |-> t, by |-> acc.winners[k].tier]
    <3>2. acc.winners[k] \in Winners
      BY <1>1
    <3>3. new \in Shadows
      BY <3>2 DEF Winners, Shadows, SkillFiles
    <3> HIDE DEF new
    <3>4. Append(acc.shadowed, new) \in Seq(Shadows)
      BY <1>1, <3>3
    <3>5. AddSkill(acc, t, file) = [acc EXCEPT !.shadowed = Append(acc.shadowed, new)]
      BY <3>1 DEF new
    <3> QED
      BY <2>1, <3>4, <3>5 DEF Loads
  <2> QED
    BY <2>2, <2>3, AddSkillIs
<1> QED
  BY <1>2, <1>3

(* A tier, file by file, and the three of them.                            *)
FilesOf(tier) == IF tier.exists THEN Len(tier.files) ELSE 0

LEMMA TierLoaded ==
    ASSUME NEW n \in Nat, NEW t \in 1 .. 3, NEW acc, LoadedTo(acc, t, n), NEW tier \in SkillTier
    PROVE  LoadedTo(LoadTier(acc, t, tier), t, n + FilesOf(tier))
<1> DEFINE N == Len(tier.files)
           step == [x \in (1 .. N) \X Loads |-> TakeSkill(x[2], t, tier.files[x[1]])]
           Body(f) == [k \in 0 .. N |-> IF k = 0 THEN acc ELSE TakeSkill(f[k - 1], t, tier.files[k])]
           got == CHOOSE f : f = Body(f)
<1>1. tier.files \in Seq(SkillFiles) /\ tier.exists \in BOOLEAN
  BY DEF SkillTier, SkillFiles
<1>2. N \in Nat /\ \A k \in 1 .. N : tier.files[k] \in SkillFiles
  BY <1>1
<1>3. acc \in Loads
  BY DEF LoadedTo
<1>4. LoadTier(acc, t, tier) = IF tier.exists THEN got[N] ELSE acc
  BY DEF LoadTier
<1>5. step \in [(1 .. N) \X Loads -> Loads]
  <2> HIDE DEF N
  <2> QED
    BY <1>2, TakeSkillTyped
<1>6. PICK f : Steps(N, Loads, acc, step, f)
  <2> HIDE DEF N, step
  <2> QED
    BY <1>2, <1>3, <1>5, StepsExist
<1>7. f = Body(f)
  <2>1. f \in [0 .. N -> Loads] /\ f[0] = acc
    BY <1>6 DEF Steps
  <2> HIDE DEF N
  <2>2. ASSUME NEW k \in 1 .. N PROVE f[k] = TakeSkill(f[k - 1], t, tier.files[k])
    <3>1. k - 1 \in 0 .. N
      BY <1>2
    <3>2. f[k - 1] \in Loads
      BY <2>1, <3>1
    <3>3. f[k] = step[<<k, f[k - 1]>>]
      <4> HIDE DEF step
      <4> QED
        BY <1>6 DEF Steps
    <3> QED
      BY <3>2, <3>3
  <2>3. \A k \in 0 .. N : f[k] = IF k = 0 THEN acc ELSE TakeSkill(f[k - 1], t, tier.files[k])
    BY <1>2, <2>1, <2>2
  <2> QED
    BY <2>1, <2>3
<1>8. got = Body(got)
  <2> HIDE DEF Body
  <2> QED
    BY <1>7
<1> HIDE DEF N, got
<1>9. got[0] = acc /\ \A k \in 1 .. N : got[k] = TakeSkill(got[k - 1], t, tier.files[k])
  <2>1. \A k \in 0 .. N : got[k] = IF k = 0 THEN acc ELSE TakeSkill(got[k - 1], t, tier.files[k])
    BY <1>8
  <2> QED
    BY <1>2, <2>1
<1> DEFINE S == {k \in 0 .. N : LoadedTo(got[k], t, n + k)}
<1>10. 0 \in S
  <2>1. n + 0 = n
    OBVIOUS
  <2> QED
    BY <1>2, <1>9, <2>1
<1>11. ASSUME NEW k \in 1 .. N, k - 1 \in S PROVE k \in S
  <2>1. n + (k - 1) \in Nat /\ (n + (k - 1)) + 1 = n + k
    BY <1>2
  <2>2. LoadedTo(got[k - 1], t, n + (k - 1))
    BY <1>11
  <2>3. LoadedTo(TakeSkill(got[k - 1], t, tier.files[k]), t, (n + (k - 1)) + 1)
    BY <1>2, <2>1, <2>2, TakeSkillLoaded
  <2> QED
    BY <1>2, <1>9, <2>1, <2>3
<1>12. 0 .. N \subseteq S
  <2> HIDE DEF S
  <2> QED
    BY <1>2, <1>10, <1>11, NumbersUpTo
<1>13. LoadedTo(got[N], t, n + N)
  BY <1>2, <1>12
<1>14. CASE tier.exists
  BY <1>4, <1>13, <1>14 DEF FilesOf, N
<1>15. CASE ~ tier.exists
  <2>1. n + 0 = n
    OBVIOUS
  <2> QED
    BY <1>4, <1>15, <2>1 DEF FilesOf
<1> QED
  BY <1>14, <1>15

LEMMA NextTier ==
    ASSUME NEW n, NEW acc, NEW t \in 1 .. 3, NEW u \in 1 .. 3, t =< u, LoadedTo(acc, t, n)
    PROVE  LoadedTo(acc, u, n)
<1>1. acc \in Loads /\ \A a \in DOMAIN acc.winners : acc.winners[a].tier =< t
  BY DEF LoadedTo
<1>2. acc.winners \in Seq(Winners)
  BY <1>1 DEF Loads
<1>3. \A a \in DOMAIN acc.winners : acc.winners[a].tier =< u
  <2>1. ASSUME NEW a \in DOMAIN acc.winners PROVE acc.winners[a].tier =< u
    <3>1. acc.winners[a] \in Winners
      BY <1>2
    <3>2. acc.winners[a].tier \in 1 .. 3
      BY <3>1 DEF Winners
    <3> QED
      BY <1>1, <3>2
  <2> QED
    BY <2>1
<1> QED
  BY <1>3 DEF LoadedTo

LEMMA SkillsLoaded ==
    ASSUME NEW tiers \in [1 .. 3 -> SkillTier]
    PROVE  LoadedTo(LoadSkills(tiers), 3, FilesOf(tiers[1]) + FilesOf(tiers[2]) + FilesOf(tiers[3]))
<1> DEFINE one == LoadTier(NoSkills, 1, tiers[1])
           two == LoadTier(one, 2, tiers[2])
           three == LoadTier(two, 3, tiers[3])
           a == FilesOf(tiers[1])
           b == FilesOf(tiers[2])
           c == FilesOf(tiers[3])
<1>1. LoadSkills(tiers) = three
  BY DEF LoadSkills
<1>2. tiers[1] \in SkillTier /\ tiers[2] \in SkillTier /\ tiers[3] \in SkillTier
  OBVIOUS
<1>3. \A tier \in SkillTier : FilesOf(tier) \in Nat
  BY DEF SkillTier, FilesOf
<1>4. a \in Nat /\ b \in Nat /\ c \in Nat
  BY <1>2, <1>3
<1> HIDE DEF one, two, three, a, b, c
<1>5. 1 \in 1 .. 3 /\ 2 \in 1 .. 3 /\ 3 \in 1 .. 3 /\ 1 =< 2 /\ 2 =< 3
  OBVIOUS
<1>6. LoadedTo(NoSkills, 1, 0)
  <2>1. /\ NoSkills \in Loads /\ NoSkills.winners = <<>> /\ NoSkills.shadowed = <<>> /\ NoSkills.errors = <<>>
    BY DEF NoSkills, Loads
  <2>2. Len(<<>>) = 0 /\ DOMAIN <<>> = {} /\ ToSet(<<>>) = {}
    BY DEF ToSet
  <2>3. 0 + 0 + 0 = 0
    OBVIOUS
  <2>4. Len(NoSkills.winners) + Len(NoSkills.shadowed) + Len(NoSkills.errors) = 0
    BY <2>1, <2>2, <2>3
  <2>5. OneOfEach(NoSkills.winners) /\ \A k \in DOMAIN NoSkills.winners : NoSkills.winners[k].tier =< 1
    BY <2>1, <2>2 DEF OneOfEach
  <2>6. ForOneListed(NoSkills.winners, NoSkills.shadowed)
    BY <2>1, <2>2 DEF ForOneListed
  <2> QED
    BY <2>1, <2>4, <2>5, <2>6 DEF LoadedTo
<1>7. LoadedTo(one, 1, 0 + a)
  BY <1>2, <1>5, <1>6, TierLoaded DEF one, a
<1>8. LoadedTo(one, 2, a)
  <2>1. 0 + a = a
    BY <1>4
  <2>2. LoadedTo(one, 1, a)
    BY <1>7, <2>1
  <2> QED
    BY <1>5, <2>2, NextTier
<1>9. LoadedTo(two, 2, a + b)
  BY <1>2, <1>4, <1>5, <1>8, TierLoaded DEF two, b
<1>10. LoadedTo(two, 3, a + b)
  BY <1>5, <1>9, NextTier
<1>11. LoadedTo(three, 3, (a + b) + c)
  <2>1. a + b \in Nat
    BY <1>4
  <2> QED
    BY <1>2, <1>5, <1>10, <2>1, TierLoaded DEF three, c
<1> QED
  BY <1>1, <1>11 DEF a, b, c

(* A sort lists what it sorts, once each.                                  *)
Goes(found, i) == {j \in DOMAIN found : found[j].id < found[i].id \/ (found[j].id = found[i].id /\ j < i)}
RankIn(found) == [i \in DOMAIN found |-> Cardinality(Goes(found, i))]

LEMMA RanksAre ==
    ASSUME NEW found \in Seq(Winners), Len(found) \in Nat
    PROVE  /\ \A r \in 0 .. Len(found) - 1 : \E i \in DOMAIN found : RankIn(found)[i] = r
           /\ \A i \in DOMAIN found : RankIn(found)[i] \in 0 .. Len(found) - 1
           /\ \A i, j \in DOMAIN found : RankIn(found)[i] = RankIn(found)[j] => i = j
<1> DEFINE N == Len(found)
           D == 1 .. N
           B(i) == Goes(found, i)
<1>1. DOMAIN found = D /\ IsFiniteSet(D) /\ Cardinality(D) = N
  <2>1. DOMAIN found = D
    OBVIOUS
  <2>2. IsFiniteSet(D) /\ Cardinality(D) = IF 1 > N THEN 0 ELSE N - 1 + 1
    <3>1. N \in Int /\ 1 \in Int
      OBVIOUS
    <3> HIDE DEF N
    <3> QED
      BY <3>1, FS_Interval
  <2> HIDE DEF D
  <2> QED
    BY <2>1, <2>2
<1>2. \A i \in D : found[i].id \in Nat
  <2>1. \A i \in D : found[i] \in Winners
    BY <1>1
  <2> HIDE DEF D
  <2> QED
    BY <2>1 DEF Winners
<1>3. \A i \in D : B(i) \subseteq D /\ i \notin B(i) /\ IsFiniteSet(B(i)) /\ Cardinality(B(i)) \in Nat
  <2>1. ASSUME NEW i \in D PROVE B(i) \subseteq D /\ i \notin B(i)
    <3> HIDE DEF N
    <3> QED
      BY <1>1, <1>2 DEF Goes
  <2>2. ASSUME NEW i \in D PROVE IsFiniteSet(B(i)) /\ Cardinality(B(i)) \in Nat
    <3>1. IsFiniteSet(B(i))
      <4> HIDE DEF D, B
      <4> QED
        BY <1>1, <2>1, FS_Subset
    <3> HIDE DEF B
    <3> QED
      BY <3>1, FS_CardinalityType
  <2> QED
    BY <2>1, <2>2
<1>4. ASSUME NEW i \in D, NEW j \in D, i \in B(j) PROVE Cardinality(B(i)) < Cardinality(B(j))
  <2>1. B(i) \subseteq B(j)
    <3>1. ASSUME NEW k \in B(i) PROVE k \in B(j)
      <4>1. /\ k \in D /\ (found[k].id < found[i].id \/ (found[k].id = found[i].id /\ k < i))
            /\ (found[i].id < found[j].id \/ (found[i].id = found[j].id /\ i < j))
        BY <1>1, <1>4, <3>1 DEF Goes
      <4>2. found[k].id \in Nat /\ found[i].id \in Nat /\ found[j].id \in Nat /\ k \in Nat /\ i \in Nat /\ j \in Nat
        BY <1>2, <4>1
      <4>3. found[k].id < found[j].id \/ (found[k].id = found[j].id /\ k < j)
        BY <4>1, <4>2
      <4> QED
        BY <1>1, <4>1, <4>3 DEF Goes
    <3> QED
      BY <3>1
  <2> HIDE DEF B, D
  <2>2. B(i) # B(j)
    BY <1>3, <1>4
  <2>3. Cardinality(B(i)) =< Cardinality(B(j)) /\ Cardinality(B(i)) # Cardinality(B(j))
    BY <1>3, <2>1, <2>2, FS_Subset
  <2> QED
    BY <1>3, <2>3
<1>5. ASSUME NEW i \in D, NEW j \in D, i # j PROVE i \in B(j) \/ j \in B(i)
  <2>1. found[i].id \in Nat /\ found[j].id \in Nat /\ i \in Nat /\ j \in Nat
    BY <1>2
  <2> QED
    BY <1>1, <1>5, <2>1 DEF Goes
<1>6. \A i \in D : Cardinality(B(i)) < N
  <2>1. ASSUME NEW i \in D PROVE Cardinality(B(i)) < N
    <3>1. IsFiniteSet(D \ {i}) /\ Cardinality(D \ {i}) = N - 1
      <4> HIDE DEF D, N
      <4> QED
        BY <1>1, <2>1, FS_RemoveElement
    <3>2. B(i) \subseteq D \ {i}
      <4> HIDE DEF B, D
      <4> QED
        BY <1>3
    <3> HIDE DEF B, D
    <3>3. Cardinality(B(i)) =< N - 1
      BY <3>1, <3>2, FS_Subset
    <3> QED
      BY <1>3, <3>3
  <2> QED
    BY <2>1
<1> DEFINE T == 0 .. N - 1
<1>7. IsFiniteSet(T) /\ Cardinality(T) = N
  <2>1. N - 1 \in Int /\ 0 \in Int
    OBVIOUS
  <2>2. IsFiniteSet(T) /\ Cardinality(T) = IF 0 > N - 1 THEN 0 ELSE (N - 1) - 0 + 1
    <3> HIDE DEF N
    <3> QED
      BY <2>1, FS_Interval
  <2> HIDE DEF T
  <2> QED
    BY <2>2
<1>8. RankIn(found) \in Injection(D, T)
  <2> DEFINE R == RankIn(found)
  <2>1. DOMAIN R = D /\ R = [i \in D |-> Cardinality(B(i))]
    <3> HIDE DEF D
    <3> QED
      BY <1>1 DEF RankIn
  <2>2. \A i \in D : Cardinality(B(i)) \in T
    <3> HIDE DEF B, D
    <3> QED
      BY <1>3, <1>6
  <2> HIDE DEF R, B, D
  <2>3. R \in [D -> T] /\ \A i \in D : R[i] = Cardinality(B(i))
    <3> HIDE DEF T
    <3> QED
      BY <2>1, <2>2
  <2>4. ASSUME NEW i \in D, NEW j \in D, R[i] = R[j] PROVE i = j
    <3> SUFFICES ASSUME i # j PROVE FALSE
      OBVIOUS
    <3>1. Cardinality(B(i)) = Cardinality(B(j)) /\ Cardinality(B(i)) \in Nat
      BY <1>3, <2>3, <2>4
    <3>2. Cardinality(B(i)) < Cardinality(B(j)) \/ Cardinality(B(j)) < Cardinality(B(i))
      BY <1>4, <1>5
    <3> QED
      BY <3>1, <3>2
  <2>5. IsInjective(R)
    BY <2>1, <2>4 DEF IsInjective
  <2>6. R \in Injection(D, T)
    <3> HIDE DEF T
    <3> QED
      BY <2>3, <2>5 DEF Injection
  <2> QED
    BY <2>6 DEF R
<1>9. RankIn(found) \in Surjection(D, T)
  <2> HIDE DEF D, T, N
  <2> QED
    BY <1>1, <1>7, <1>8, FS_Injection
<1>10. \A r \in T : \E i \in D : RankIn(found)[i] = r
  <2> HIDE DEF D, T
  <2> QED
    BY <1>9 DEF Surjection
<1>11. RankIn(found) \in [D -> T] /\ \A i, j \in DOMAIN RankIn(found) : RankIn(found)[i] = RankIn(found)[j] => i = j
  <2> HIDE DEF D, T
  <2> QED
    BY <1>8 DEF Injection, IsInjective
<1>12. (\A i \in D : RankIn(found)[i] \in T) /\ \A i, j \in D : RankIn(found)[i] = RankIn(found)[j] => i = j
  <2> HIDE DEF D, T
  <2> QED
    BY <1>11
<1> QED
  BY <1>1, <1>10, <1>12

LEMMA SortedAre ==
    ASSUME NEW found \in Seq(Winners), OneOfEach(found)
    PROVE  /\ Len(SortedById(found)) = Len(found) /\ OneOfEach(SortedById(found))
           /\ ToSet(SortedById(found)) = ToSet(found)
<1> DEFINE N == Len(found)
           D == 1 .. N
           c(k) == CHOOSE i \in DOMAIN found : Cardinality(Goes(found, i)) = k - 1
           s == SortedById(found)
<1>1. N \in Nat /\ DOMAIN found = D
  OBVIOUS
<1>2. s = [k \in DOMAIN found |-> found[c(k)]]
  BY DEF SortedById, Goes
<1>3. \A i \in DOMAIN found : RankIn(found)[i] = Cardinality(Goes(found, i))
  BY DEF RankIn
<1>4. /\ \A r \in 0 .. N - 1 : \E i \in DOMAIN found : RankIn(found)[i] = r
      /\ \A i \in DOMAIN found : RankIn(found)[i] \in 0 .. N - 1
      /\ \A i, j \in DOMAIN found : RankIn(found)[i] = RankIn(found)[j] => i = j
  BY <1>1, RanksAre
<1>5. ASSUME NEW k \in D PROVE c(k) \in D /\ RankIn(found)[c(k)] = k - 1
  <2>1. k - 1 \in 0 .. N - 1
    BY <1>1
  <2>2. PICK i \in DOMAIN found : RankIn(found)[i] = k - 1
    BY <1>4, <2>1
  <2>3. Cardinality(Goes(found, i)) = k - 1
    BY <1>3, <2>2
  <2>4. c(k) \in DOMAIN found /\ Cardinality(Goes(found, c(k))) = k - 1
    BY <2>3
  <2> HIDE DEF c
  <2> QED
    BY <1>1, <1>3, <2>4
<1> HIDE DEF c, s
<1>6. DOMAIN s = D /\ \A k \in D : s[k] = found[c(k)]
  BY <1>1, <1>2
<1>7. Len(s) = N /\ s \in Seq(Winners)
  <2>1. \A k \in D : found[c(k)] \in Winners
    BY <1>1, <1>5
  <2> HIDE DEF N
  <2>2. s \in Seq(Winners)
    BY <1>1, <1>2, <2>1
  <2> QED
    BY <1>1, <1>6, <2>2
<1> HIDE DEF D, N
<1>8. OneOfEach(s)
  <2>1. ASSUME NEW a \in D, NEW b \in D, s[a].id = s[b].id PROVE a = b
    <3>1. found[c(a)].id = found[c(b)].id
      BY <1>6, <2>1
    <3>2. c(a) = c(b)
      BY <1>1, <1>5, <3>1 DEF OneOfEach
    <3>3. a - 1 = b - 1
      BY <1>5, <3>2
    <3> QED
      BY <1>1, <3>3 DEF D
  <2> QED
    BY <1>6, <2>1 DEF OneOfEach
<1>9. ASSUME NEW i \in D PROVE \E k \in D : s[k] = found[i]
  <2> DEFINE k == RankIn(found)[i] + 1
  <2>1. RankIn(found)[i] \in 0 .. N - 1
    BY <1>1, <1>4
  <2>2. k \in D /\ k - 1 = RankIn(found)[i]
    BY <1>1, <2>1 DEF D
  <2>3. RankIn(found)[c(k)] = RankIn(found)[i] /\ c(k) \in D
    <3> HIDE DEF k
    <3> QED
      BY <1>5, <2>2
  <2>4. c(k) = i
    <3> HIDE DEF k
    <3> QED
      BY <1>1, <1>4, <2>3
  <2> HIDE DEF k
  <2> QED
    BY <1>6, <2>2, <2>4
<1>10. ToSet(s) = ToSet(found)
  <2>1. ToSet(s) \subseteq ToSet(found)
    BY <1>1, <1>5, <1>6 DEF ToSet
  <2>2. ToSet(found) \subseteq ToSet(s)
    BY <1>1, <1>6, <1>9 DEF ToSet
  <2> QED
    BY <2>1, <2>2
<1> QED
  BY <1>7, <1>8, <1>10 DEF s, N

(* EverySkillAccounted, for any files of the tiers: each SKILL.md is       *)
(* listed, set aside for one of its name that is listed and does not come  *)
(* after it, or an error; and no name is listed twice                      *)
(* (SkillsLoader.load_all and SkillsIndexProbe.run).                       *)
THEOREM SkillsAreAccounted == Spec => []EverySkillAccounted
<1>1. ASSUME Answered PROVE EverySkillAccounted
  <2> DEFINE loaded == LoadSkills(question)
             Total == answer.counts[1] + answer.counts[2] + answer.counts[3]
  <2> SUFFICES ASSUME asked = "skills"
               PROVE  /\ Total = Len(answer.skills) + Len(answer.shadowed) + Len(answer.errors)
                      /\ \A s \in ToSet(answer.shadowed) : s.by =< s.tier /\ [id |-> s.id, tier |-> s.by] \in ToSet(answer.skills)
                      /\ \A a, b \in DOMAIN answer.skills : answer.skills[a].id = answer.skills[b].id => a = b
    BY DEF EverySkillAccounted
  <2>1. question \in Questions["skills"] /\ answer = SkillsIndex(question)
    BY <1>1 DEF Answered
  <2>2. question \in [1 .. 3 -> SkillTier]
    BY <2>1, QuestionsAssumption
  <2>3. /\ answer.errors = loaded.errors /\ answer.skills = SortedById(loaded.winners)
        /\ answer.shadowed = loaded.shadowed /\ answer.counts = CountPerTier(question)
    <3> HIDE DEF loaded
    <3> QED
      BY <2>1 DEF SkillsIndex, loaded
  <2>4. LoadedTo(loaded, 3, FilesOf(question[1]) + FilesOf(question[2]) + FilesOf(question[3]))
    BY <2>2, SkillsLoaded
  <2>5. Total = FilesOf(question[1]) + FilesOf(question[2]) + FilesOf(question[3])
    <3>1. 1 \in 1 .. 3 /\ 2 \in 1 .. 3 /\ 3 \in 1 .. 3
      OBVIOUS
    <3>2. \A t \in 1 .. 3 : answer.counts[t] = FilesOf(question[t])
      BY <2>3 DEF CountPerTier, FilesOf
    <3> QED
      BY <3>1, <3>2
  <2> HIDE DEF loaded, Total
  <2>6. loaded.winners \in Seq(Winners) /\ OneOfEach(loaded.winners) /\ ForOneListed(loaded.winners, loaded.shadowed)
    BY <2>4 DEF LoadedTo, Loads
  <2>7. Len(loaded.winners) + Len(loaded.shadowed) + Len(loaded.errors) = Total
    BY <2>4, <2>5 DEF LoadedTo
  <2>8. /\ Len(answer.skills) = Len(loaded.winners) /\ OneOfEach(answer.skills)
        /\ ToSet(answer.skills) = ToSet(loaded.winners)
    BY <2>3, <2>6, SortedAre
  <2>9. Total = Len(answer.skills) + Len(answer.shadowed) + Len(answer.errors)
    BY <2>3, <2>7, <2>8
  <2>10. ForOneListed(answer.skills, answer.shadowed)
    BY <2>3, <2>6, <2>8 DEF ForOneListed
  <2> QED
    BY <2>8, <2>9, <2>10 DEF OneOfEach, ForOneListed
<1> QED
  BY <1>1, AlwaysAnswered, PTL

-----------------------------------------------------------------------------
(* Sums over finite sets of calls.  An induction is the proof that there   *)
(* is no smallest counterexample, so that no operator is a parameter.      *)

LEMMA SmallestSubset ==
    ASSUME NEW S, IsFiniteSet(S), NEW T \in SUBSET SUBSET S, T # {}
    PROVE  \E x \in T : \A y \in T : y \subseteq x => y = x
<1> DEFINE R == StrictSubsetOrdering(S)
<1>1. IsWellFoundedOn(R, FiniteSubsetsOf(S))
  BY FS_StrictSubsetOrderingWellFounded
<1>2. FiniteSubsetsOf(S) = SUBSET S
  BY FS_FiniteSubsetsOfFinite
<1>3. PICK x \in T : \A y \in T : ~ (<<y, x>> \in R)
  <2> HIDE DEF R
  <2> QED
    BY <1>1, <1>2, WFMin
<1>4. ASSUME NEW y \in T, y \subseteq x, y # x PROVE FALSE
  BY <1>3, <1>4 DEF StrictSubsetOrdering
<1> QED
  BY <1>4

Chosen(s) == CHOOSE x \in s : TRUE
SumBody(fun, g, S) ==
    [s \in SUBSET S |-> IF s = {} THEN 0 ELSE fun[Chosen(s)] + g[s \ {Chosen(s)}]]
SumIter(fun, S) == CHOOSE g : g = SumBody(fun, g, S)

LEMMA SumIsIter ==
    ASSUME NEW fun, NEW S PROVE SumFunctionOnSet(fun, S) = SumIter(fun, S)[S]
  BY DEF SumFunctionOnSet, FoldFunctionOnSet, MapThenFoldSet, SumIter, SumBody, Chosen

LEMMA ChosenIn == ASSUME NEW s, s # {} PROVE Chosen(s) \in s
  BY DEF Chosen

(* The functions for a set and for a subset agree.                         *)
LEMMA IterAgree ==
    ASSUME NEW fun, NEW U, IsFiniteSet(U), NEW S \in SUBSET U,
           NEW g, g = SumBody(fun, g, S), NEW h, h = SumBody(fun, h, U)
    PROVE  \A s \in SUBSET S : g[s] = h[s]
<1> DEFINE T == {s \in SUBSET S : g[s] # h[s]}
<1> SUFFICES ASSUME T # {} PROVE FALSE
  OBVIOUS
<1>1. IsFiniteSet(S)
  BY FS_Subset
<1>2. PICK x \in T : \A y \in T : y \subseteq x => y = x
  <2> HIDE DEF T
  <2>1. T \in SUBSET SUBSET S
    BY DEF T
  <2> QED
    BY <1>1, <2>1, SmallestSubset
<1>3. x # {}
  BY DEF SumBody
<1>4. Chosen(x) \in x
  BY <1>3, ChosenIn
<1> DEFINE y == x \ {Chosen(x)}
<1>5. y \subseteq x /\ y # x /\ y \in SUBSET S
  BY <1>4
<1>6. g[y] = h[y]
  BY <1>2, <1>5
<1>7. g[x] = fun[Chosen(x)] + g[y] /\ h[x] = fun[Chosen(x)] + h[y]
  BY <1>3 DEF SumBody
<1> QED
  BY <1>6, <1>7

LEMMA IterExists ==
    ASSUME NEW fun, NEW S, IsFiniteSet(S) PROVE \E g : g = SumBody(fun, g, S)
<1> DEFINE T == {s \in SUBSET S : ~ \E g : g = SumBody(fun, g, s)}
<1> SUFFICES ASSUME T # {} PROVE FALSE
  OBVIOUS
<1>1. PICK M \in T : \A y \in T : y \subseteq M => y = M
  <2> HIDE DEF T
  <2>1. T \in SUBSET SUBSET S
    BY DEF T
  <2> QED
    BY <2>1, SmallestSubset
<1>2. \A s \in SUBSET M : s # M => SumIter(fun, s) = SumBody(fun, SumIter(fun, s), s)
  <2> SUFFICES ASSUME NEW s \in SUBSET M, s # M
               PROVE  SumIter(fun, s) = SumBody(fun, SumIter(fun, s), s)
    OBVIOUS
  <2>1. \E g : g = SumBody(fun, g, s)
    BY <1>1
  <2> QED
    BY <2>1 DEF SumIter
<1> DEFINE Rest(s) == s \ {Chosen(s)}
           G == [s \in SUBSET M |->
                   IF s = {} THEN 0
                   ELSE fun[Chosen(s)] + SumIter(fun, Rest(s))[Rest(s)]]
<1>3. ASSUME NEW s \in SUBSET M, s # {}
      PROVE  Rest(s) \in SUBSET M /\ Rest(s) # M
  BY <1>3, ChosenIn
<1>4. ASSUME NEW s \in SUBSET M, s # M PROVE G[s] = SumIter(fun, s)[s]
  <2>1. CASE s = {}
    <3>1. SumIter(fun, s)[s] = SumBody(fun, SumIter(fun, s), s)[s]
      BY <1>2, <1>4
    <3> QED
      BY <2>1, <3>1 DEF SumBody
  <2>2. CASE s # {}
    <3>1. Chosen(s) \in s
      BY <2>2, ChosenIn
    <3>2. Rest(s) \in SUBSET s /\ Rest(s) \in SUBSET M /\ Rest(s) # M
      BY <1>3, <2>2
    <3>3. IsFiniteSet(s)
      BY FS_Subset
    <3>4. SumIter(fun, s) = SumBody(fun, SumIter(fun, s), s)
      BY <1>2, <1>4
    <3>5. SumIter(fun, Rest(s)) = SumBody(fun, SumIter(fun, Rest(s)), Rest(s))
      BY <1>2, <3>2
    <3>6. SumIter(fun, Rest(s))[Rest(s)] = SumIter(fun, s)[Rest(s)]
      <4> HIDE DEF Rest
      <4> QED
        BY <3>2, <3>3, <3>4, <3>5, IterAgree
    <3>7. SumIter(fun, s)[s] = fun[Chosen(s)] + SumIter(fun, s)[Rest(s)]
      <4>1. SumBody(fun, SumIter(fun, s), s)[s] = fun[Chosen(s)] + SumIter(fun, s)[Rest(s)]
        BY <2>2 DEF SumBody
      <4> QED
        BY <3>4, <4>1
    <3>8. G[s] = fun[Chosen(s)] + SumIter(fun, Rest(s))[Rest(s)]
      BY <2>2
    <3> QED
      BY <3>6, <3>7, <3>8
  <2> QED
    BY <2>1, <2>2
<1>5. G = SumBody(fun, G, M)
  <2>1. ASSUME NEW s \in SUBSET M, s # {} PROVE G[Rest(s)] = SumIter(fun, Rest(s))[Rest(s)]
    <3> HIDE DEF G, Rest
    <3> QED
      BY <1>3, <1>4, <2>1
  <2>2. ASSUME NEW s \in SUBSET M
        PROVE  G[s] = IF s = {} THEN 0 ELSE fun[Chosen(s)] + G[Rest(s)]
    <3>1. CASE s = {}
      BY <3>1
    <3>2. CASE s # {}
      <4>1. G[s] = fun[Chosen(s)] + SumIter(fun, Rest(s))[Rest(s)]
        BY <3>2
      <4> HIDE DEF G, Rest
      <4> QED
        BY <2>1, <3>2, <4>1
    <3> QED
      BY <3>1, <3>2
  <2>3. G = [s \in SUBSET M |-> G[s]]
    OBVIOUS
  <2> HIDE DEF G
  <2> QED
    BY <2>2, <2>3 DEF SumBody
<1> QED
  BY <1>1, <1>5

LEMMA SumUnfold ==
    ASSUME NEW fun, NEW S, IsFiniteSet(S)
    PROVE  SumFunctionOnSet(fun, S) =
              IF S = {} THEN 0
              ELSE fun[Chosen(S)] + SumFunctionOnSet(fun, S \ {Chosen(S)})
<1> DEFINE R == S \ {Chosen(S)}
<1>1. ASSUME NEW U, IsFiniteSet(U) PROVE SumIter(fun, U) = SumBody(fun, SumIter(fun, U), U)
  BY <1>1, IterExists DEF SumIter
<1>2. IsFiniteSet(R) /\ R \in SUBSET S
  BY FS_RemoveElement
<1>3. SumIter(fun, R)[R] = SumIter(fun, S)[R]
  <2> HIDE DEF R
  <2> QED
    BY <1>1, <1>2, IterAgree
<1>4. SumIter(fun, S)[S] = IF S = {} THEN 0 ELSE fun[Chosen(S)] + SumIter(fun, S)[R]
  <2>1. SumBody(fun, SumIter(fun, S), S)[S] = IF S = {} THEN 0 ELSE fun[Chosen(S)] + SumIter(fun, S)[R]
    BY DEF SumBody
  <2> QED
    BY <1>1, <2>1
<1> QED
  BY <1>3, <1>4, SumIsIter

LEMMA SumNat ==
    ASSUME NEW fun, NEW S, IsFiniteSet(S), \A x \in S : fun[x] \in Nat
    PROVE  SumFunctionOnSet(fun, S) \in Nat
<1> DEFINE T == {s \in SUBSET S : SumFunctionOnSet(fun, s) \notin Nat}
<1> SUFFICES ASSUME T # {} PROVE FALSE
  OBVIOUS
<1>1. PICK x \in T : \A y \in T : y \subseteq x => y = x
  <2> HIDE DEF T
  <2>1. T \in SUBSET SUBSET S
    BY DEF T
  <2> QED
    BY <2>1, SmallestSubset
<1> DEFINE c == Chosen(x)
           y == x \ {c}
<1>2. IsFiniteSet(x)
  BY FS_Subset
<1>3. SumFunctionOnSet(fun, x) = IF x = {} THEN 0 ELSE fun[c] + SumFunctionOnSet(fun, y)
  BY <1>2, SumUnfold
<1>4. x # {}
  BY <1>3
<1>5. c \in x
  BY <1>4, ChosenIn
<1>6. SumFunctionOnSet(fun, y) \in Nat
  BY <1>1, <1>5
<1> QED
  BY <1>3, <1>5, <1>6

(* The order in which the elements are taken does not matter.              *)
LEMMA SumRemove ==
    ASSUME NEW fun, NEW S, IsFiniteSet(S), \A x \in S : fun[x] \in Nat, NEW e \in S
    PROVE  SumFunctionOnSet(fun, S) = fun[e] + SumFunctionOnSet(fun, S \ {e})
<1> DEFINE Apart(s, x) == SumFunctionOnSet(fun, s) = fun[x] + SumFunctionOnSet(fun, s \ {x})
           T == {s \in SUBSET S : \E x \in s : ~ Apart(s, x)}
<1> SUFFICES ASSUME T # {} PROVE FALSE
  OBVIOUS
<1>1. PICK s \in T : \A y \in T : y \subseteq s => y = s
  <2> HIDE DEF T
  <2>1. T \in SUBSET SUBSET S
    BY DEF T
  <2> QED
    BY <2>1, SmallestSubset
<1>2. PICK x \in s : ~ Apart(s, x)
  OBVIOUS
<1> DEFINE c == Chosen(s)
<1>3. c \in s /\ Apart(s, c)
  <2>1. IsFiniteSet(s) /\ s # {}
    BY <1>2, FS_Subset
  <2> QED
    BY <2>1, ChosenIn, SumUnfold
<1>4. x # c
  BY <1>2, <1>3
<1>5. ASSUME NEW y \in SUBSET s, y # s, NEW z \in y PROVE Apart(y, z)
  <2> HIDE DEF Apart
  <2> QED
    BY <1>1, <1>5
<1>6. Apart(s \ {c}, x) /\ Apart(s \ {x}, c)
  <2> HIDE DEF Apart, c
  <2> QED
    BY <1>3, <1>4, <1>5
<1>7. (s \ {c}) \ {x} = (s \ {x}) \ {c}
  OBVIOUS
<1>8. SumFunctionOnSet(fun, (s \ {c}) \ {x}) \in Nat /\ fun[c] \in Nat /\ fun[x] \in Nat
  <2>1. IsFiniteSet((s \ {c}) \ {x})
    BY FS_Subset
  <2> QED
    BY <1>3, <2>1, SumNat
<1> HIDE DEF c
<1> QED
  BY <1>2, <1>3, <1>6, <1>7, <1>8

LEMMA SumAdd ==
    ASSUME NEW fun, NEW S, IsFiniteSet(S), NEW e, e \notin S,
           \A x \in S \cup {e} : fun[x] \in Nat
    PROVE  SumFunctionOnSet(fun, S \cup {e}) = fun[e] + SumFunctionOnSet(fun, S)
<1>1. (S \cup {e}) \ {e} = S /\ IsFiniteSet(S \cup {e})
  BY FS_AddElement
<1> QED
  BY <1>1, SumRemove

LEMMA SumSame ==
    ASSUME NEW fun, NEW gun, NEW S, IsFiniteSet(S), \A x \in S : fun[x] = gun[x]
    PROVE  SumFunctionOnSet(fun, S) = SumFunctionOnSet(gun, S)
<1> DEFINE T == {s \in SUBSET S : SumFunctionOnSet(fun, s) # SumFunctionOnSet(gun, s)}
<1> SUFFICES ASSUME T # {} PROVE FALSE
  OBVIOUS
<1>1. PICK x \in T : \A y \in T : y \subseteq x => y = x
  <2> HIDE DEF T
  <2>1. T \in SUBSET SUBSET S
    BY DEF T
  <2> QED
    BY <2>1, SmallestSubset
<1> DEFINE c == Chosen(x)
           y == x \ {c}
<1>2. /\ SumFunctionOnSet(fun, x) = IF x = {} THEN 0 ELSE fun[c] + SumFunctionOnSet(fun, y)
      /\ SumFunctionOnSet(gun, x) = IF x = {} THEN 0 ELSE gun[c] + SumFunctionOnSet(gun, y)
  <2>1. IsFiniteSet(x)
    BY FS_Subset
  <2> QED
    BY <2>1, SumUnfold
<1>3. x # {} /\ c \in x
  BY <1>2, ChosenIn
<1>4. SumFunctionOnSet(fun, y) = SumFunctionOnSet(gun, y)
  BY <1>1, <1>3
<1> QED
  BY <1>2, <1>3, <1>4

-----------------------------------------------------------------------------
(* Types and the life of a call                                            *)

Kinds == {"new", "charged", "first", "second", "answered", "violation",
          "transport", "per_call_max_exceeded", "workflow_max_tokens_exceeded",
          "workflow_max_dollars_exceeded"}

(* How far a call is says how often the service was asked and answered.    *)
Asked ==
    \A c \in Call :
        /\ pc[c] \notin {"second", "answered", "violation", "transport"} =>
              bills[c] = <<>> /\ sent[c] = errors[c] /\ errors[c] <= Retries
        /\ pc[c] = "second" => /\ Len(bills[c]) = 1 /\ errors[c] <= Retries
                               /\ sent[c] <= Retries + 1 + errors[c]
        /\ pc[c] = "answered" => bills[c] # <<>>

(* A call that is on its way holds a token, one that is new does not.      *)
Funded ==
    \A c \in Call :
        /\ pc[c] = "charged" \/ pc[c] = "first" \/ pc[c] = "second" => c \in outstanding
        /\ pc[c] = "new" => c \notin outstanding

TypeInv == TypeOK /\ Asked /\ RequestsBounded /\ MintsAccounted /\ Funded

LEMMA PcKinds == TypeOK => pc \in [Call -> Kinds]
  BY DEF TypeOK, Kinds, Asking, Refusals

LEMMA Appended ==
    ASSUME NEW S, NEW s \in Seq(S), NEW u \in S
    PROVE  /\ Append(s, u) \in Seq(S)
           /\ Len(Append(s, u)) = Len(s) + 1
           /\ Append(s, u) # <<>>
<1>1. Append(s, u) \in Seq(S) /\ Len(Append(s, u)) = Len(s) + 1 /\ Len(s) \in Nat
  OBVIOUS
<1> QED
  BY <1>1

LEMMA LastIn ==
    ASSUME NEW S, NEW s \in Seq(S), s # <<>> PROVE s[Len(s)] \in S
  OBVIOUS

LEMMA VerdictKinds ==
    ASSUME NEW n, PrechargeVerdict(n) # "minted" PROVE PrechargeVerdict(n) \in Refusals
  BY DEF PrechargeVerdict, Refusals

LEMMA TypeStep == TypeOK /\ Asked /\ [BudgetNext]_budgetVars => TypeOK'
<1> SUFFICES ASSUME TypeOK, Asked, [BudgetNext]_budgetVars PROVE TypeOK'
  OBVIOUS
<1> USE CapsAssumption, AmountsAssumption DEF TypeOK, guard, Send, MostRequests
<1>1. CASE UNCHANGED budgetVars
  BY <1>1 DEF budgetVars
<1>2. ASSUME NEW c \in Call, NEW n \in Request, Precharge(c, n) PROVE TypeOK'
  <2>1. n \in Nat \ {0} /\ pc[c] = "new"
    BY <1>2 DEF Precharge
  <2>2. CASE PrechargeVerdict(n) = "minted"
    <3>1. n \in 0 .. PerCallMax
      BY <2>1, <2>2 DEF PrechargeVerdict
    <3> QED
      BY <1>2, <2>1, <2>2, <3>1 DEF Precharge
  <2>3. CASE PrechargeVerdict(n) # "minted"
    <3>1. PrechargeVerdict(n) \in Refusals
      BY <2>3, VerdictKinds
    <3> QED
      BY <1>2, <2>1, <2>3, <3>1 DEF Precharge
  <2> QED
    BY <2>2, <2>3
<1>3. ASSUME NEW c \in Call, NEW p \in Price, Reconcile(c, p) PROVE TypeOK'
  <2>1. Reported(c) \in Nat
    <3>1. bills[c] \in Seq(Usage) /\ bills[c] # <<>>
      BY <1>3 DEF Reconcile, Asked
    <3>2. Reported(c) \in Usage
      BY <3>1, LastIn DEF Reported
    <3> QED
      BY <3>2
  <2>2. p * Reported(c) \in Nat /\ p \in Nat
    <3> HIDE DEF TypeOK, Reported
    <3> QED
      BY <2>1
  <2>3. CASE c \in outstanding
    <3> DEFINE r == Reported(c)
               q == p * Reported(c)
    <3>1. /\ outstanding' = outstanding \ {c} /\ reconciled' = reconciled \cup {c}
          /\ consumed' = consumed + r /\ dollars' = dollars + q
          /\ paid' = [paid EXCEPT ![c] = q]
          /\ UNCHANGED <<pc, precharged, errors, bills, sent>>
      BY <1>3, <2>3 DEF Reconcile
    <3>2. r \in Nat /\ q \in Nat
      BY <2>1, <2>2
    <3> HIDE DEF r, q
    <3> QED
      BY <3>1, <3>2
  <2>4. CASE c \notin outstanding
    BY <1>3, <2>4 DEF Reconcile
  <2> QED
    BY <2>3, <2>4
<1>4. ASSUME NEW c \in Call, Invoke(c) PROVE TypeOK'
  <2>1. /\ pc' \in [Call -> {"new", "charged", "answered", "violation", "transport"}
                              \cup Asking \cup Refusals]
        /\ UNCHANGED <<guard, errors, bills, paid, sent>>
    BY <1>4 DEF Invoke, Asking
  <2> QED
    BY <2>1
<1>5. ASSUME NEW c \in Call, StatusError(c) PROVE TypeOK'
  <2>1. errors[c] <= Retries
    BY <1>5 DEF StatusError, Asking, Asked
  <2>2. errors' \in [Call -> 0 .. Retries + 1]
    BY <1>5, <2>1 DEF StatusError
  <2>3. pc' \in [Call -> {"new", "charged", "answered", "violation", "transport"}
                            \cup Asking \cup Refusals]
    <3> HIDE DEF Send
    <3> QED
      BY <1>5 DEF StatusError
  <2>4. sent' \in [Call -> 0 .. MostRequests + 1] /\ UNCHANGED <<guard, bills, paid>>
    BY <1>5 DEF StatusError, Send
  <2> QED
    BY <2>2, <2>3, <2>4
<1>6. ASSUME NEW c \in Call, OtherError(c) PROVE TypeOK'
  BY <1>6 DEF OtherError
<1>7. ASSUME NEW c \in Call, NEW u \in Usage, NEW parses \in BOOLEAN, Message(c, u, parses)
      PROVE  TypeOK'
  <2>1. bills' \in [Call -> Seq(Usage)]
    BY <1>7 DEF Message
  <2>2. pc' \in [Call -> {"new", "charged", "answered", "violation", "transport"}
                           \cup Asking \cup Refusals]
    <3> HIDE DEF Send
    <3>1. \E at \in {"answered", "second", "violation"} : pc' = [pc EXCEPT ![c] = at]
      BY <1>7 DEF Message
    <3> QED
      BY <3>1 DEF Asking
  <2>3. errors' \in [Call -> 0 .. Retries + 1]
    BY <1>7 DEF Message
  <2>4. sent' \in [Call -> 0 .. MostRequests + 1] /\ UNCHANGED <<guard, paid>>
    BY <1>7 DEF Message
  <2> HIDE DEF Send
  <2> QED
    BY <2>1, <2>2, <2>3, <2>4
<1> QED
  BY <1>1, <1>2, <1>3, <1>4, <1>5, <1>6, <1>7 DEF BudgetNext, Create

LEMMA AskedStep ==
    TypeInv /\ [BudgetNext]_budgetVars => (Asked /\ RequestsBounded)'
<1> SUFFICES ASSUME TypeInv, [BudgetNext]_budgetVars PROVE (Asked /\ RequestsBounded)'
  OBVIOUS
<1>0. /\ pc \in [Call -> Kinds] /\ Retries \in Nat
      /\ errors \in [Call -> Nat] /\ sent \in [Call -> Nat]
      /\ bills \in [Call -> Seq(Usage)]
  BY PcKinds, CapsAssumption DEF TypeInv, TypeOK, MostRequests
<1> USE <1>0 DEF TypeInv, Asked, RequestsBounded, guard, Send, MostRequests, Kinds
<1>1. CASE UNCHANGED budgetVars
  BY <1>1 DEF budgetVars
<1>2. ASSUME NEW c \in Call, NEW n \in Request, Precharge(c, n)
      PROVE (Asked /\ RequestsBounded)'
  <2>1. pc[c] = "new" /\ bills' = bills /\ errors' = errors /\ sent' = sent
    BY <1>2 DEF Precharge
  <2>2. \/ pc' = [pc EXCEPT ![c] = "charged"]
        \/ pc' = [pc EXCEPT ![c] = PrechargeVerdict(n)] /\ PrechargeVerdict(n) \in Refusals
    <3>1. PrechargeVerdict(n) # "minted" => PrechargeVerdict(n) \in Refusals
      BY VerdictKinds
    <3> QED
      BY <1>2, <3>1 DEF Precharge
  <2> QED
    BY <2>1, <2>2 DEF Refusals
<1>3. ASSUME NEW c \in Call, NEW p \in Price, Reconcile(c, p)
      PROVE (Asked /\ RequestsBounded)'
  BY <1>3 DEF Reconcile
<1>4. ASSUME NEW c \in Call, Invoke(c) PROVE (Asked /\ RequestsBounded)'
  BY <1>4 DEF Invoke
<1>5. ASSUME NEW c \in Call, pc[c] = "first" \/ pc[c] = "second", Send(c),
             NEW k \in Kinds, pc' = [pc EXCEPT ![c] = k],
             NEW e \in Nat, errors' = [errors EXCEPT ![c] = e],
             NEW b \in Seq(Usage), bills' = [bills EXCEPT ![c] = b], Len(b) <= 2,
             k \notin {"new", "charged"} \cup Refusals,
             k = "first"  => pc[c] = "first" /\ e = errors[c] + 1 /\ e <= Retries /\ b = bills[c],
             k = "second" => /\ Len(b) = 1 /\ e <= Retries
                             /\ IF pc[c] = "first" THEN e = 0
                                ELSE e = errors[c] + 1,
             k = "answered" => b # <<>>
      PROVE (Asked /\ RequestsBounded)'
  <2>1. sent[c] <= 2 * Retries + 1
    <3> HIDE DEF guard, Send, MostRequests, Kinds
    <3>1. /\ pc[c] = "first" => sent[c] = errors[c] /\ errors[c] <= Retries
          /\ pc[c] = "second" => sent[c] <= Retries + 1 + errors[c] /\ errors[c] <= Retries
      OBVIOUS
    <3>2. sent[c] \in Nat /\ errors[c] \in Nat
      OBVIOUS
    <3> HIDE DEF Asked, RequestsBounded, TypeInv
    <3> QED
      BY <1>5, <3>1, <3>2
  <2>2. sent' = [sent EXCEPT ![c] = sent[c] + 1]
    <3>1. sent[c] \in Nat /\ ~ (sent[c] > 2 * (Retries + 1))
      BY <2>1
    <3> HIDE DEF Asked, RequestsBounded
    <3> QED
      BY <1>5, <3>1
  <2>3. Asked'
    <3> SUFFICES ASSUME NEW d \in Call PROVE Asked!(d)'
      BY DEF Asked
    <3>1. CASE d = c
      <4>1. pc'[c] = k /\ errors'[c] = e /\ bills'[c] = b /\ sent'[c] = sent[c] + 1
        BY <1>5, <2>2
      <4>2. k = "first" => bills[c] = <<>> /\ sent[c] = errors[c]
        BY <1>5
      <4>3. k = "second" => sent[c] + 1 <= Retries + 1 + e
        <5>1. CASE pc[c] = "first"
          <6>1. sent[c] <= Retries
            BY <5>1
          <6> QED
            BY <1>5, <5>1, <6>1
        <5>2. CASE pc[c] = "second"
          <6>1. sent[c] <= Retries + 1 + errors[c]
            BY <5>2
          <6> QED
            BY <1>5, <5>2, <6>1
        <5> QED
          BY <1>5, <5>1, <5>2
      <4> QED
        BY <1>5, <3>1, <4>1, <4>2, <4>3 DEF Refusals
    <3>2. CASE d # c
      <4>1. pc'[d] = pc[d] /\ errors'[d] = errors[d] /\ bills'[d] = bills[d] /\ sent'[d] = sent[d]
        BY <1>5, <2>2, <3>2
      <4> QED
        BY <4>1
    <3> QED
      BY <3>1, <3>2
  <2>4. RequestsBounded'
    BY <1>5, <2>1, <2>2
  <2> QED
    BY <2>3, <2>4
<1>6. ASSUME NEW c \in Call, StatusError(c) PROVE (Asked /\ RequestsBounded)'
  <2>1. /\ pc[c] = "first" \/ pc[c] = "second"
        /\ errors[c] <= Retries /\ Len(bills[c]) <= 2
    BY <1>6 DEF StatusError, Asking
  <2> DEFINE k == IF errors[c] = Retries THEN "transport" ELSE pc[c]
             e == errors[c] + 1
             b == bills[c]
  <2>2. /\ pc' = [pc EXCEPT ![c] = k] /\ errors' = [errors EXCEPT ![c] = e]
        /\ bills' = [bills EXCEPT ![c] = b] /\ Send(c)
    BY <1>6 DEF StatusError
  <2>3. /\ k \in Kinds /\ e \in Nat /\ b \in Seq(Usage) /\ k \notin {"new", "charged"} \cup Refusals
        /\ k = "first"  => pc[c] = "first" /\ e = errors[c] + 1 /\ e <= Retries
        /\ k = "second" => pc[c] = "second" /\ Len(b) = 1 /\ e <= Retries /\ e = errors[c] + 1
        /\ k # "answered"
    BY <2>1 DEF Refusals
  <2> HIDE DEF k, e, Asked, RequestsBounded, Send
  <2> QED
    BY <1>5, <2>1, <2>2, <2>3 DEF b
<1>7. ASSUME NEW c \in Call, OtherError(c) PROVE (Asked /\ RequestsBounded)'
  <2>1. pc[c] = "first" \/ pc[c] = "second"
    BY <1>7 DEF OtherError, Asking
  <2>2. /\ pc' = [pc EXCEPT ![c] = "transport"] /\ errors' = [errors EXCEPT ![c] = errors[c]]
        /\ bills' = [bills EXCEPT ![c] = bills[c]] /\ Send(c)
    BY <1>7 DEF OtherError
  <2>3. errors[c] \in Nat /\ bills[c] \in Seq(Usage) /\ Len(bills[c]) <= 2
        /\ "transport" \notin {"new", "charged"} \cup Refusals
    BY DEF Refusals
  <2>4. "transport" \in Kinds
    OBVIOUS
  <2> HIDE DEF Asked, RequestsBounded, Send, Kinds
  <2> QED
    BY <1>5, <2>1, <2>2, <2>3, <2>4
<1>8. ASSUME NEW c \in Call, NEW u \in Usage, NEW parses \in BOOLEAN, Message(c, u, parses)
      PROVE  (Asked /\ RequestsBounded)'
  <2> DEFINE b == Append(bills[c], u)
             k == IF parses THEN "answered"
                  ELSE IF pc[c] = "first" THEN "second" ELSE "violation"
  <2>1. pc[c] = "first" \/ pc[c] = "second"
    BY <1>8 DEF Message, Asking
  <2>2. b \in Seq(Usage) /\ Len(b) = Len(bills[c]) + 1 /\ b # <<>>
    BY <1>0, Appended
  <2>3. /\ pc' = [pc EXCEPT ![c] = k] /\ errors' = [errors EXCEPT ![c] = 0]
        /\ bills' = [bills EXCEPT ![c] = b] /\ Send(c)
    BY <1>8 DEF Message
  <2>4. k \in Kinds /\ k \notin {"new", "charged", "first"} \cup Refusals
    BY DEF Refusals
  <2>5. Len(bills[c]) = IF pc[c] = "first" THEN 0 ELSE 1
    <3>1. pc[c] = "first" => bills[c] = <<>>
      OBVIOUS
    <3> QED
      BY <2>1, <3>1
  <2>6. k = "second" => pc[c] = "first"
    BY <2>1
  <2>7. Len(b) <= 2 /\ (pc[c] = "first" => Len(b) = 1)
    BY <2>1, <2>2, <2>5
  <2>8. k = "second" => Len(b) = 1 /\ 0 <= Retries /\ pc[c] = "first"
    BY <2>6, <2>7
  <2> HIDE DEF k, b, Asked, RequestsBounded, Send, Kinds
  <2>9. /\ 0 \in Nat /\ k # "first"
        /\ k \notin {"new", "charged"} \cup Refusals
        /\ k = "second" => IF pc[c] = "first" THEN 0 = 0 ELSE 0 = errors[c] + 1
    BY <2>4, <2>8
  <2> QED
    BY <1>5, <2>1, <2>2, <2>3, <2>4, <2>7, <2>8, <2>9
<1> QED
  BY <1>1, <1>2, <1>3, <1>4, <1>6, <1>7, <1>8 DEF BudgetNext, Create

LEMMA MintsStep == TypeInv /\ [BudgetNext]_budgetVars => (MintsAccounted /\ Funded)'
<1> SUFFICES ASSUME TypeInv, [BudgetNext]_budgetVars PROVE (MintsAccounted /\ Funded)'
  OBVIOUS
<1>0. /\ pc \in [Call -> Kinds] /\ precharged \in [Call -> Nat]
      /\ outstanding \subseteq Call /\ reconciled \subseteq Call
  BY PcKinds, CapsAssumption DEF TypeInv, TypeOK
<1> USE <1>0 DEF TypeInv, MintsAccounted, Funded, guard, Kinds
<1>1. CASE UNCHANGED budgetVars
  BY <1>1 DEF budgetVars
<1>2. ASSUME NEW c \in Call, NEW n \in Request, Precharge(c, n) PROVE (MintsAccounted /\ Funded)'
  <2>1. n \in Nat \ {0} /\ pc[c] = "new"
    BY <1>2, AmountsAssumption DEF Precharge
  <2>2. CASE PrechargeVerdict(n) = "minted"
    BY <1>2, <2>1, <2>2 DEF Precharge
  <2>3. CASE PrechargeVerdict(n) # "minted"
    <3>1. PrechargeVerdict(n) \in Refusals
      BY <2>3, VerdictKinds
    <3> QED
      BY <1>2, <2>1, <2>3, <3>1 DEF Precharge, Refusals
  <2> QED
    BY <2>2, <2>3
<1>3. ASSUME NEW c \in Call, NEW p \in Price, Reconcile(c, p) PROVE (MintsAccounted /\ Funded)'
  BY <1>3 DEF Reconcile
<1>4. ASSUME NEW c \in Call, Invoke(c) PROVE (MintsAccounted /\ Funded)'
  BY <1>4 DEF Invoke
<1>5. ASSUME NEW c \in Call, Create(c)
      PROVE  (MintsAccounted /\ Funded)'
  <2>1. /\ UNCHANGED guard
        /\ \E k \in Kinds \ {"new"} : pc' = [pc EXCEPT ![c] = k]
    <3>1. CASE StatusError(c)
      <4>1. pc' = pc \/ pc' = [pc EXCEPT ![c] = "transport"]
        BY <3>1 DEF StatusError
      <4>2. pc = [pc EXCEPT ![c] = pc[c]] /\ pc[c] \in Kinds \ {"new"}
        BY <3>1 DEF StatusError, Asking
      <4> QED
        BY <3>1, <4>1, <4>2 DEF StatusError
    <3>2. CASE OtherError(c)
      BY <3>2 DEF OtherError
    <3>3. ASSUME NEW u \in Usage, NEW parses \in BOOLEAN, Message(c, u, parses)
          PROVE  \E k \in Kinds \ {"new"} : pc' = [pc EXCEPT ![c] = k]
      BY <3>3 DEF Message
    <3>4. ASSUME NEW u \in Usage, NEW parses \in BOOLEAN, Message(c, u, parses)
          PROVE  UNCHANGED guard
      BY <3>4 DEF Message
    <3> QED
      BY <1>5, <3>1, <3>2, <3>3, <3>4 DEF Create
  <2>2. pc[c] = "first" \/ pc[c] = "second"
    BY <1>5 DEF Create, StatusError, OtherError, Message, Asking
  <2>3. c \in outstanding /\ precharged[c] > 0 /\ c \notin reconciled
    BY <2>2
  <2> QED
    BY <1>5, <2>1, <2>3
<1> QED
  BY <1>1, <1>2, <1>3, <1>4, <1>5 DEF BudgetNext, Create

LEMMA TypeInvHolds == BudgetSpec => []TypeInv
<1>1. BudgetInit => TypeInv
  BY CapsAssumption
     DEF BudgetInit, TypeInv, TypeOK, RequestsBounded, Asked, MintsAccounted, Funded, MostRequests
<1>2. TypeInv /\ [BudgetNext]_budgetVars => TypeInv'
  BY TypeStep, AskedStep, MintsStep DEF TypeInv
<1> QED
  BY <1>1, <1>2, PTL DEF BudgetSpec

(* The guard and the calls keep their types.                               *)
THEOREM TypeCorrect == BudgetSpec => []TypeOK
<1>1. TypeInv => TypeOK
  BY DEF TypeInv
<1> QED
  BY <1>1, TypeInvHolds, PTL

(* A call is sent and answered a bounded number of times.                  *)
THEOREM RequestsAreBounded == BudgetSpec => []RequestsBounded
<1>1. TypeInv => RequestsBounded
  BY DEF TypeInv
<1> QED
  BY <1>1, TypeInvHolds, PTL

(* Every minted token is in exactly one place.                             *)
THEOREM MintsAreAccounted == BudgetSpec => []MintsAccounted
<1>1. TypeInv => MintsAccounted
  BY DEF TypeInv
<1> QED
  BY <1>1, TypeInvHolds, PTL

-----------------------------------------------------------------------------
(* What is outstanding, consumed and paid                                  *)

Usages == [c \in reconciled |-> Reported(c)]

LEMMA Finite ==
    TypeOK => IsFiniteSet(outstanding) /\ IsFiniteSet(reconciled)
  BY CallAssumption, FS_Subset DEF TypeOK

LEMMA ReportedIn ==
    ASSUME TypeInv, NEW c \in Call, pc[c] = "answered" PROVE Reported(c) \in Nat
<1>1. bills[c] \in Seq(Usage) /\ bills[c] # <<>>
  BY DEF TypeInv, TypeOK, Asked
<1> QED
  BY <1>1, LastIn, AmountsAssumption DEF Reported

LEMMA AmountsIn ==
    TypeInv => /\ \A c \in outstanding : precharged[c] \in Nat
               /\ \A c \in reconciled : Usages[c] \in Nat /\ paid[c] \in Nat
               /\ OutstandingTokens \in Nat
<1> SUFFICES ASSUME TypeInv
             PROVE  /\ \A c \in outstanding : precharged[c] \in Nat
                    /\ \A c \in reconciled : Usages[c] \in Nat /\ paid[c] \in Nat
                    /\ OutstandingTokens \in Nat
  OBVIOUS
<1>1. \A c \in outstanding : precharged[c] \in Nat
  BY CapsAssumption DEF TypeInv, TypeOK
<1>2. \A c \in reconciled : Usages[c] \in Nat /\ paid[c] \in Nat
  BY ReportedIn DEF TypeInv, TypeOK, MintsAccounted, Usages
<1> QED
  BY <1>1, <1>2, Finite, SumNat DEF TypeInv, OutstandingTokens

(* A precharge adds to what is outstanding what it asked for.              *)
LEMMA PrechargeAdds ==
    ASSUME TypeInv, NEW c \in Call, NEW n \in Request, Precharge(c, n),
           PrechargeVerdict(n) = "minted"
    PROVE  OutstandingTokens' = n + OutstandingTokens /\ n \in Nat
<1>1. n \in Nat /\ c \notin outstanding
  BY AmountsAssumption DEF Precharge, TypeInv, Funded
<1>2. /\ outstanding' = outstanding \cup {c}
      /\ precharged' = [precharged EXCEPT ![c] = n]
      /\ precharged \in [Call -> Nat] /\ outstanding \subseteq Call
  BY CapsAssumption DEF Precharge, TypeInv, TypeOK
<1>3. \A d \in outstanding : precharged'[d] = precharged[d]
  BY <1>1, <1>2
<1>4. precharged'[c] = n /\ \A d \in outstanding \cup {c} : precharged'[d] \in Nat
  BY <1>1, <1>2
<1> HIDE DEF TypeInv
<1>5. SumFunctionOnSet(precharged', outstanding) = SumFunctionOnSet(precharged, outstanding)
  BY <1>3, Finite, SumSame DEF TypeInv
<1>6. SumFunctionOnSet(precharged', outstanding \cup {c})
         = n + SumFunctionOnSet(precharged', outstanding)
  BY <1>1, <1>4, Finite, SumAdd DEF TypeInv
<1> QED
  BY <1>1, <1>2, <1>5, <1>6 DEF OutstandingTokens

(* A reconcile takes away what its call was precharged for.                *)
LEMMA ReconcileTakes ==
    ASSUME TypeInv, NEW c \in Call, NEW p \in Price, Reconcile(c, p), c \in outstanding
    PROVE  OutstandingTokens = precharged[c] + OutstandingTokens'
<1>1. outstanding' = outstanding \ {c} /\ precharged' = precharged
  BY DEF Reconcile
<1> QED
  BY <1>1, AmountsIn, Finite, SumRemove DEF OutstandingTokens, TypeInv

LEMMA Distributes ==
    \A k, a, b \in Nat : k * (a + b) = k * a + k * b
  OBVIOUS

WithinCaps == \A c \in reconciled : ~ Overran(c)

LEMMA CapsOfPrecharge ==
    ASSUME TypeInv, CapsHold, NEW c \in Call, NEW n \in Request, Precharge(c, n)
    PROVE  CapsHold'
<1>1. /\ c \notin reconciled /\ reconciled' = reconciled /\ bills' = bills /\ paid' = paid
      /\ consumed' = consumed /\ dollars' = dollars
  BY DEF Precharge, TypeInv, MintsAccounted, guard
<1>2. CASE PrechargeVerdict(n) = "minted"
  <2> DEFINE o == OutstandingTokens
  <2>1. o \in Nat /\ n \in Nat /\ OutstandingTokens' = n + o
    BY <1>2, AmountsIn, PrechargeAdds
  <2>2. consumed \in Nat /\ dollars \in Nat /\ DollarsPerToken \in Nat /\ MaxTokens \in Nat /\ MaxDollars \in Nat
    BY CapsAssumption DEF TypeInv, TypeOK
  <2>3. /\ ~ (consumed + o + n > MaxTokens)
        /\ ~ (dollars + DollarsPerToken * o + DollarsPerToken * n > MaxDollars)
    BY <1>2 DEF PrechargeVerdict, OutstandingDollars
  <2>4. OutstandingDollars' = DollarsPerToken * n + DollarsPerToken * o
    BY <2>1, <2>2, Distributes DEF OutstandingDollars
  <2>5. DollarsPerToken * n \in Nat /\ DollarsPerToken * o \in Nat
    BY <2>1, <2>2
  <2> HIDE DEF o
  <2> QED
    BY <1>1, <2>1, <2>2, <2>3, <2>4, <2>5 DEF CapsHold, RunningTotalRaises
<1>3. CASE PrechargeVerdict(n) # "minted"
  <2>1. UNCHANGED guard
    BY <1>3 DEF Precharge
  <2>2. WithinCaps' = WithinCaps /\ RunningTotalRaises' = RunningTotalRaises
    BY <1>1, <2>1
       DEF guard, WithinCaps, Overran, Reported, RunningTotalRaises, OutstandingDollars,
           OutstandingTokens
  <2> QED
    BY <2>2 DEF CapsHold, WithinCaps
<1> QED
  BY <1>2, <1>3

LEMMA CapsOfReconcile ==
    ASSUME TypeInv, CapsHold, NEW c \in Call, NEW p \in Price, Reconcile(c, p)
    PROVE  CapsHold'
<1>1. CASE c \in outstanding
  <2> SUFFICES ASSUME WithinCaps' PROVE ~ RunningTotalRaises'
    BY DEF CapsHold, WithinCaps
  <2> DEFINE r == Reported(c)
             q == p * r
             o == OutstandingTokens'
             k == precharged[c]
  <2>1. /\ reconciled' = reconciled \cup {c} /\ c \notin reconciled
        /\ precharged' = precharged /\ bills' = bills
        /\ paid' = [paid EXCEPT ![c] = q] /\ paid \in [Call -> Nat] /\ reconciled \subseteq Call
        /\ consumed' = consumed + r /\ dollars' = dollars + q
    BY <1>1 DEF Reconcile, TypeInv, MintsAccounted, TypeOK
  <2>2. r \in Nat /\ q \in Nat
    <3>1. r \in Nat /\ p \in Nat
      BY ReportedIn, AmountsAssumption DEF Reconcile
    <3> HIDE DEF r
    <3> QED
      BY <3>1
  <2>3. k \in Nat /\ OutstandingTokens = k + o
    BY <1>1, ReconcileTakes, AmountsIn
  <2>4. o \in Nat
    <3>1. IsFiniteSet(outstanding \ {c})
      BY Finite, FS_RemoveElement DEF TypeInv
    <3>2. SumFunctionOnSet(precharged, outstanding \ {c}) \in Nat
      BY <3>1, AmountsIn, SumNat
    <3> QED
      BY <1>1, <3>2 DEF OutstandingTokens, Reconcile
  <2>5. r <= k /\ q <= DollarsPerToken * k
    <3>1. ~ Overran(c)'
      BY <2>1 DEF WithinCaps
    <3>2. Reported(c)' = r /\ paid'[c] = q /\ precharged'[c] = k
      BY <2>1 DEF Reported
    <3>3. DollarsPerToken * k \in Nat
      BY <2>3, CapsAssumption
    <3> HIDE DEF r, q, k
    <3> QED
      BY <2>2, <2>3, <3>1, <3>2, <3>3 DEF Overran
  <2>6. WithinCaps
    <3> SUFFICES ASSUME NEW d \in reconciled PROVE ~ Overran(d)
      BY DEF WithinCaps
    <3>1. ~ Overran(d)' /\ d # c
      BY <2>1 DEF WithinCaps
    <3>2. paid'[d] = paid[d]
      BY <2>1, <3>1
    <3> QED
      BY <2>1, <3>1, <3>2 DEF Overran, Reported
  <2>7. /\ consumed \in Nat /\ dollars \in Nat /\ DollarsPerToken \in Nat
        /\ MaxTokens \in Nat /\ MaxDollars \in Nat
    BY CapsAssumption DEF TypeInv, TypeOK
  <2>8. ~ (consumed + (k + o) > MaxTokens) /\ ~ (dollars + DollarsPerToken * (k + o) > MaxDollars)
    BY <2>3, <2>6 DEF CapsHold, WithinCaps, RunningTotalRaises, OutstandingDollars
  <2>9. DollarsPerToken * (k + o) = DollarsPerToken * k + DollarsPerToken * o
    BY <2>3, <2>4, <2>7, Distributes
  <2>10. DollarsPerToken * k \in Nat /\ DollarsPerToken * o \in Nat
    <3> HIDE DEF r, q, o, k
    <3> QED
      BY <2>3, <2>4, <2>7
  <2> HIDE DEF r, q, o, k
  <2>11. ~ (consumed + r + o > MaxTokens) /\ ~ (dollars + q + DollarsPerToken * o > MaxDollars)
    BY <2>2, <2>3, <2>4, <2>5, <2>7, <2>8, <2>9, <2>10
  <2> QED
    BY <2>1, <2>11 DEF RunningTotalRaises, OutstandingDollars, o
<1>2. CASE c \notin outstanding
  <2>1. UNCHANGED <<guard, paid, bills>>
    BY <1>2 DEF Reconcile
  <2>2. WithinCaps' = WithinCaps /\ RunningTotalRaises' = RunningTotalRaises
    BY <2>1
       DEF guard, WithinCaps, Overran, Reported, RunningTotalRaises, OutstandingDollars,
           OutstandingTokens
  <2> QED
    BY <2>2 DEF CapsHold, WithinCaps
<1> QED
  BY <1>1, <1>2

(* A call that is under way changes neither the guard nor what a           *)
(* reconciled call reported.                                               *)
LEMMA CreateLeaves ==
    ASSUME TypeInv, NEW c \in Call, Create(c)
    PROVE  /\ UNCHANGED <<guard, paid>>
           /\ \A d \in reconciled : bills'[d] = bills[d]
<1>1. c \notin reconciled
  BY DEF Create, StatusError, OtherError, Message, Asking, TypeInv, MintsAccounted
<1>2. bills' = bills \/ \E u \in Usage : bills' = [bills EXCEPT ![c] = Append(bills[c], u)]
  BY DEF Create, StatusError, OtherError, Message
<1>3. bills \in [Call -> Seq(Usage)] /\ reconciled \subseteq Call
  BY DEF TypeInv, TypeOK
<1>4. \A d \in reconciled : bills'[d] = bills[d]
  BY <1>1, <1>2, <1>3
<1>5. UNCHANGED <<guard, paid>>
  BY DEF Create, StatusError, OtherError, Message
<1> QED
  BY <1>4, <1>5

LEMMA CapsStep == TypeInv /\ CapsHold /\ [BudgetNext]_budgetVars => CapsHold'
<1> SUFFICES ASSUME TypeInv, CapsHold, [BudgetNext]_budgetVars PROVE CapsHold'
  OBVIOUS
<1>1. ASSUME UNCHANGED <<guard, paid>>, \A d \in reconciled : bills'[d] = bills[d]
      PROVE  CapsHold'
  <2>1. RunningTotalRaises' = RunningTotalRaises /\ reconciled' = reconciled
    BY <1>1 DEF guard, RunningTotalRaises, OutstandingDollars, OutstandingTokens
  <2>2. ASSUME NEW d \in reconciled PROVE Overran(d)' = Overran(d)
    BY <1>1, <2>2 DEF guard, Overran, Reported
  <2> QED
    BY <2>1, <2>2 DEF CapsHold
<1>2. CASE UNCHANGED budgetVars
  BY <1>1, <1>2 DEF budgetVars
<1>3. ASSUME NEW c \in Call, Invoke(c) PROVE CapsHold'
  BY <1>1, <1>3 DEF Invoke
<1>4. ASSUME NEW c \in Call, Create(c) PROVE CapsHold'
  BY <1>1, <1>4, CreateLeaves
<1> QED
  BY <1>2, <1>3, <1>4, CapsOfPrecharge, CapsOfReconcile DEF BudgetNext

(* Calls that overlap never take the workflow over its caps, nor make      *)
(* running_total raise, as long as no call used or cost more than it was   *)
(* precharged for.                                                         *)
THEOREM CapsAreKept == BudgetSpec => []CapsHold
<1>1. BudgetInit => CapsHold
  <2> SUFFICES ASSUME BudgetInit PROVE CapsHold
    OBVIOUS
  <2>1. OutstandingTokens = 0
    BY FS_EmptySet, SumUnfold DEF BudgetInit, OutstandingTokens
  <2>2. OutstandingDollars = 0
    BY <2>1, CapsAssumption DEF OutstandingDollars
  <2> QED
    BY <2>1, <2>2, CapsAssumption DEF BudgetInit, CapsHold, RunningTotalRaises
<1> QED
  BY <1>1, CapsStep, TypeInvHolds, PTL DEF BudgetSpec

LEMMA FoldedOfReconcile ==
    ASSUME TypeInv, FoldedOnce, NEW c \in Call, NEW p \in Price, Reconcile(c, p)
    PROVE  FoldedOnce'
<1>1. CASE c \in outstanding
  <2> DEFINE r == Reported(c)
             q == p * r
  <2>1. /\ reconciled' = reconciled \cup {c} /\ c \notin reconciled /\ bills' = bills
        /\ paid' = [paid EXCEPT ![c] = q] /\ paid \in [Call -> Nat] /\ reconciled \subseteq Call
        /\ consumed' = consumed + r /\ dollars' = dollars + q
    BY <1>1 DEF Reconcile, TypeInv, MintsAccounted, TypeOK
  <2>2. r \in Nat /\ q \in Nat
    <3>1. r \in Nat /\ p \in Nat
      BY ReportedIn, AmountsAssumption DEF Reconcile
    <3> HIDE DEF r
    <3> QED
      BY <3>1
  <2>3. IsFiniteSet(reconciled)
    BY Finite DEF TypeInv
  <2> DEFINE u == Usages'
  <2>4. u = [d \in reconciled \cup {c} |-> Reported(d)]
    BY <2>1 DEF Usages, Reported
  <2>5. u[c] = r /\ \A d \in reconciled : u[d] = Usages[d]
    BY <2>1, <2>4 DEF Usages
  <2>6. paid'[c] = q /\ \A d \in reconciled : paid'[d] = paid[d]
    BY <2>1
  <2>7. \A d \in reconciled : Usages[d] \in Nat /\ paid[d] \in Nat
    BY AmountsIn
  <2> HIDE DEF r, q, u
  <2>8. SumFunctionOnSet(u, reconciled \cup {c}) = r + SumFunctionOnSet(Usages, reconciled)
    <3>1. SumFunctionOnSet(u, reconciled) = SumFunctionOnSet(Usages, reconciled)
      BY <2>3, <2>5, SumSame
    <3>2. \A d \in reconciled \cup {c} : u[d] \in Nat
      BY <2>2, <2>5, <2>7
    <3> QED
      BY <2>1, <2>3, <2>5, <3>1, <3>2, SumAdd
  <2>9. SumFunctionOnSet(paid', reconciled \cup {c}) = q + SumFunctionOnSet(paid, reconciled)
    <3>1. SumFunctionOnSet(paid', reconciled) = SumFunctionOnSet(paid, reconciled)
      BY <2>3, <2>6, SumSame
    <3>2. \A d \in reconciled \cup {c} : paid'[d] \in Nat
      BY <2>2, <2>6, <2>7
    <3> QED
      BY <2>1, <2>3, <2>6, <3>1, <3>2, SumAdd
  <2>10. /\ consumed = SumFunctionOnSet(Usages, reconciled) /\ consumed \in Nat
         /\ dollars = SumFunctionOnSet(paid, reconciled) /\ dollars \in Nat
    BY DEF FoldedOnce, Usages, TypeInv, TypeOK
  <2>11. consumed' = SumFunctionOnSet(u, reconciled')
    BY <2>1, <2>2, <2>8, <2>10
  <2>12. dollars' = SumFunctionOnSet(paid', reconciled')
    BY <2>1, <2>2, <2>9, <2>10
  <2> QED
    BY <2>11, <2>12 DEF FoldedOnce, Usages, u
<1>2. CASE c \notin outstanding
  BY <1>2 DEF Reconcile, guard, FoldedOnce, Reported
<1> QED
  BY <1>1, <1>2

LEMMA FoldedStep == TypeInv /\ FoldedOnce /\ [BudgetNext]_budgetVars => FoldedOnce'
<1> SUFFICES ASSUME TypeInv, FoldedOnce, [BudgetNext]_budgetVars PROVE FoldedOnce'
  OBVIOUS
<1>1. ASSUME UNCHANGED <<reconciled, consumed, dollars, paid>>,
             \A d \in reconciled : bills'[d] = bills[d]
      PROVE  FoldedOnce'
  <2>1. [d \in reconciled |-> Reported(d)]' = [d \in reconciled |-> Reported(d)]
    BY <1>1 DEF Reported
  <2> QED
    BY <1>1, <2>1 DEF FoldedOnce
<1>2. CASE UNCHANGED budgetVars
  BY <1>1, <1>2 DEF budgetVars, guard
<1>3. ASSUME NEW c \in Call, Invoke(c) PROVE FoldedOnce'
  BY <1>1, <1>3 DEF Invoke, guard
<1>4. ASSUME NEW c \in Call, Create(c) PROVE FoldedOnce'
  BY <1>1, <1>4, CreateLeaves DEF guard
<1>5. ASSUME NEW c \in Call, NEW n \in Request, Precharge(c, n) PROVE FoldedOnce'
  BY <1>1, <1>5 DEF Precharge, guard
<1> QED
  BY <1>2, <1>3, <1>4, <1>5, FoldedOfReconcile DEF BudgetNext

(* However often a call is reconciled, it is folded in once, with the      *)
(* usage of its last message.                                              *)
THEOREM EachFoldedOnce == BudgetSpec => []FoldedOnce
<1>1. BudgetInit => FoldedOnce
  BY FS_EmptySet, SumUnfold DEF BudgetInit, FoldedOnce
<1> QED
  BY <1>1, FoldedStep, TypeInvHolds, PTL DEF BudgetSpec
=============================================================================
