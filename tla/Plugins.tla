------------------------------ MODULE Plugins ------------------------------
(***************************************************************************)
(* The decisions of the plugin kernel (src/codegenie/plugins): which       *)
(* plugins are loaded, which one a scope resolves to, what its chain of    *)
(* bases composes to, in which order recipes are asked.                    *)
(*                                                                         *)
(* A plugin's id is a number, whose order is the order of the names; a     *)
(* dimension of a scope is Wildcard ("*") or a value.                           *)
(***************************************************************************)
EXTENDS Integers, SequencesExt

Wildcard == "*"
Universal == 2        \* UNIVERSAL_FALLBACK_ID
MaxExtendsDepth == 4

(* What the kernel answers: the resolutions, the exceptions of the         *)
(* registry, the rejections of the loader.                                 *)
Resolutions == {"concrete", "fallback", "raised"}
Corruption == {"missing_universal", "empty_registry"}
ChainErrors == {"cycle", "depth", "not_registered"}
PluginRejected == {"integrity_mismatch", "missing_manifest", "schema_violation",
                   "unlocked_plugin", "missing_plugin_directory",
                   "plugin_import_error", "symlink_escape", "lockfile_malformed"}
ManifestErrors == {"size_cap_exceeded", "malformed_yaml", "schema_violation", "io_error"}
PathEscapes == {"not_under_jail", "not_resolvable", "missing", "absolute", "invalid_jail"}

-----------------------------------------------------------------------------
(* plugins/scope.py: a scope is a task class, a language and a build system *)
DimAdmits(dim, candidate) == dim \in {Wildcard, candidate}
Matches(scope, asked) == \A i \in 1 .. 3 : DimAdmits(scope[i], asked[i])
Specificity(scope) == Cardinality({i \in 1 .. 3 : scope[i] # Wildcard})

(* A manifest names one value or a list of them per dimension: every       *)
(* element of the product is a candidate of its own, in declaration order. *)
LiftScope(s) ==
    LET Count(i) == Len(s[i])
        All == Count(1) * Count(2) * Count(3)
    IN [k \in 1 .. All |->
            << s[1][((k - 1) \div (Count(2) * Count(3))) + 1],
               s[2][(((k - 1) \div Count(3)) % Count(2)) + 1],
               s[3][((k - 1) % Count(3)) + 1] >>]

LiftCandidates(registry) ==
    FlattenSeq([i \in DOMAIN registry |->
        LET scopes == LiftScope(registry[i].scope) IN
        [k \in DOMAIN scopes |-> [plugin |-> registry[i], scope |-> scopes[k]]]])

FilterMatches(candidates, asked) == SelectSeq(candidates, LAMBDA c : Matches(c.scope, asked))

SortKey(c) == << -Specificity(c.scope), -c.plugin.precedence, c.plugin.name >>

KeyBefore(k, l) ==
    \E i \in DOMAIN k : k[i] < l[i] /\ \A j \in 1 .. i - 1 : k[j] = l[j]

(* sorted() is stable, so the head is the first of the least. *)
SortedHead(matches) ==
    LET least == {i \in DOMAIN matches :
                    \A j \in DOMAIN matches : ~KeyBefore(SortKey(matches[j]), SortKey(matches[i]))}
    IN matches[CHOOSE i \in least : \A j \in least : i <= j]

-----------------------------------------------------------------------------
(* compose_extends_chain: depth first, left to right, the later wins *)
Registered(registry, name) == \E i \in DOMAIN registry : registry[i].name = name
Get(registry, name) == registry[CHOOSE i \in DOMAIN registry : registry[i].name = name]

Refused(why) == [refused |-> why, chain |-> <<>>]

Walk(registry, first) ==
    LET walk[plugin \in ToSet(registry), visited \in Seq({p.name : p \in ToSet(registry)})] ==
            LET Base(acc, name) ==
                    IF acc.refused # "no" THEN acc
                    ELSE IF ~Registered(registry, name) THEN Refused("not_registered")
                    ELSE LET w == walk[Get(registry, name), Append(visited, plugin.name)] IN
                         IF w.refused # "no" THEN w ELSE [acc EXCEPT !.chain = @ \o w.chain]
                bases == FoldLeft(Base, [refused |-> "no", chain |-> <<>>], plugin.extends)
            IN IF plugin.name \in ToSet(visited) THEN Refused("cycle")
               ELSE IF Len(visited) >= MaxExtendsDepth THEN Refused("depth")
               ELSE IF bases.refused # "no" THEN bases
               ELSE [bases EXCEPT !.chain = Append(@, plugin.name)]
    IN walk[first, <<>>]

(* A primitive is answered by the last plugin of the chain that has it. *)
MergeAdapters(registry, chain) ==
    LET Having(a) == {i \in DOMAIN chain : a \in Get(registry, chain[i]).adapters}
        last(a) == CHOOSE i \in Having(a) : \A j \in Having(a) : j <= i
    IN [a \in UNION {Get(registry, chain[i]).adapters : i \in DOMAIN chain} |-> chain[last(a)]]

ComposeExtendsChain(registry, plugin) ==
    LET w == Walk(registry, plugin) IN
    IF w.refused # "no" THEN [kind |-> "raised", why |-> w.refused]
    ELSE [kind |-> "concrete", plugin |-> plugin.name, chain |-> w.chain,
          adapters |-> MergeAdapters(registry, w.chain)]

(* resolve: the exceptions are answers too. *)
Resolve(registry, asked) ==
    LET matches == FilterMatches(LiftCandidates(registry), asked)
        head == SortedHead(matches)
        considered == {registry[i].name : i \in DOMAIN registry} \ {Universal}
    IN IF registry = <<>> THEN [kind |-> "raised", why |-> "empty_registry"]
       ELSE IF matches = <<>> /\ Registered(registry, Universal)
         THEN [kind |-> "fallback", considered |-> {}]
       ELSE IF matches = <<>> THEN [kind |-> "raised", why |-> "missing_universal"]
       ELSE IF head.plugin.name = Universal THEN [kind |-> "fallback", considered |-> considered]
       ELSE ComposeExtendsChain(registry, head.plugin)

-----------------------------------------------------------------------------
(* load_plugins: discover, read the lock, verify all, import all.  A       *)
(* directory has a manifest (its id, or 0 when it cannot be read), a tree  *)
(* whose digest is the locked one, another, or has a link that escapes,    *)
(* and an api.py that is absent, raises, registers the plugin, or registers *)
(* it and raises.                                                          *)
Rejection(dir, lock) ==
    IF dir.id = 0 THEN "schema_violation"
    ELSE IF \A i \in DOMAIN lock.entries : lock.entries[i].id # dir.id THEN "unlocked_plugin"
    ELSE IF dir.tree = "escape" THEN "symlink_escape"
    ELSE IF dir.tree # "locked" THEN "integrity_mismatch"
    ELSE "no"

(* What the first i directories have registered; a second plugin of one id *)
(* makes register() raise inside the import.                               *)
RegisteredBy(walked, i) ==
    {walked[j].id : j \in {j \in DOMAIN walked : j <= i /\ walked[j].api \in {"registers", "registers_raises"}}}
Imports(walked, i) == walked[i].api = "registers" /\ walked[i].id \notin RegisteredBy(walked, i - 1)

ImportAll(walked) ==
    LET bad == {i \in DOMAIN walked : ~Imports(walked, i)}
        stop == IF bad = {} THEN Len(walked) + 1 ELSE CHOOSE i \in bad : \A j \in bad : i <= j
    IN [result |-> IF bad = {} THEN "ok" ELSE "plugin_import_error",
        ran |-> {i \in DOMAIN walked : i <= stop /\ walked[i].api # "absent"},
        registered |-> RegisteredBy(walked, stop)]

NotLoaded(why) == [result |-> why, ran |-> {}, registered |-> {}]

(* Mutant: each plugin is imported as soon as it is verified. *)
LoadAsYouGo(walked, lock) ==
    LET Rejected(d) == Rejection(d, lock) # "no"
        Unseen(e) == \A i \in DOMAIN walked : walked[i].id # e.id
        bad == {i \in DOMAIN walked : Rejected(walked[i])}
        stop == CHOOSE i \in bad : \A j \in bad : i <= j
    IN IF lock.malformed THEN NotLoaded("lockfile_malformed")
       ELSE IF bad # {} THEN [ImportAll(SubSeq(walked, 1, stop - 1)) EXCEPT
                                !.result = Rejection(walked[stop], lock)]
       ELSE IF \E i \in DOMAIN lock.entries : Unseen(lock.entries[i])
         THEN NotLoaded("missing_manifest")
       ELSE ImportAll(walked)

LoadPlugins(walked, lock) ==
    LET Rejected(d) == Rejection(d, lock) # "no"
        Unseen(e) == \A i \in DOMAIN walked : walked[i].id # e.id
    IN IF lock.malformed THEN NotLoaded("lockfile_malformed")
       ELSE IF \E i \in DOMAIN walked : Rejected(walked[i])
         THEN NotLoaded(Rejection(walked[SelectInSeq(walked, Rejected)], lock))
       ELSE IF \E i \in DOMAIN lock.entries : Unseen(lock.entries[i])
         THEN NotLoaded(IF lock.entries[SelectInSeq(lock.entries, Unseen)].dir
                        THEN "missing_manifest" ELSE "missing_plugin_directory")
       ELSE ImportAll(walked)

-----------------------------------------------------------------------------
(* RecipeRegistry: recipes are registered in any order, and asked by       *)
(* descending precedence, then by name.  A recipe that is refused leaves   *)
(* the registry as it was.                                                 *)
RegisterRecipe(recipes, r) ==
    IF \E i \in DOMAIN recipes :
        \/ recipes[i].id = r.id
        \/ recipes[i].plugin = r.plugin /\ recipes[i].name = r.name
    THEN recipes ELSE Append(recipes, r)

RecipeBefore(q, r) == q.precedence > r.precedence \/ (q.precedence = r.precedence /\ q.name < r.name)

RecipesOf(recipes, plugin) ==
    SortSeq(SelectSeq(recipes, LAMBDA r : r.plugin = plugin), RecipeBefore)

(* mint is the only constructor of a capability: one scope gives a bundle  *)
(* with that one capability, and an event that carries the bundle's digest *)
(* to a sink that drops it.                                                *)
CapabilityScopes == {"npm", "fs", "git"}
CapabilityMinted(plugin, bundle) == [plugin |-> plugin, digest |-> bundle]
Mint(plugin, scope) ==
    LET bundle == [c \in CapabilityScopes |-> IF c = scope THEN plugin ELSE 0]
    IN [bundle |-> bundle, event |-> CapabilityMinted(plugin, bundle)]

-----------------------------------------------------------------------------
(* PluginManifest.from_yaml and LockFile.from_path never raise: what the   *)
(* parser or the model raised becomes a variant of the error.              *)
ManifestError(raised) ==
    CASE raised = "size_cap" -> "size_cap_exceeded"
      [] raised \in {"symlink", "os_error"} -> "io_error"
      [] raised \in {"malformed", "depth_cap"} -> "malformed_yaml"
      [] raised = "validation" -> "schema_violation"

LockError(raised) ==
    IF raised \in {"symlink", "size_cap", "depth_cap", "malformed", "os_error", "validation"}
    THEN "lockfile_malformed" ELSE raised

(* plugins/tccm.py: a context query names one of the five primitives and   *)
(* is capped by a positive number of files, or by none; every name of a    *)
(* manifest fits its grammar.                                              *)
CreateQuery(q) ==
    IF ~q.known THEN "unknown_primitive"
    ELSE IF q.cap \in {"zero", "negative"} THEN "negative_max_files"
    ELSE "ok"

ProvidesFit(names) == \A n \in names : n.space /\ n.key /\ n.path
RequiresFit(names) == \A n \in names : n.space /\ n.key

(* SandboxedPath.create: where a relative path ends, link by link, below   *)
(* the jail; O_NOFOLLOW in open refuses a leaf that became a link.         *)
CreatePath(jail, path) ==
    CASE path.absolute -> "absolute"
      [] ~path.absolute /\ ~jail.exists -> "invalid_jail"
      [] ~path.absolute /\ jail.exists /\ path.ends = "nowhere" ->
            IF path.isLink THEN "not_resolvable" ELSE "missing"
      [] ~path.absolute /\ jail.exists /\ path.ends = "loop" -> "not_resolvable"
      [] ~path.absolute /\ jail.exists /\ path.ends = "outside" -> "not_under_jail"
      [] ~path.absolute /\ jail.exists /\ path.ends = "inside" -> "ok"
=============================================================================
