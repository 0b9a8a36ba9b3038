---------------------------- MODULE MCDecisions ----------------------------
(* The questions TLC asks: small products of the cases each function tells *)
(* apart, with the combinations that matter for its property.              *)
EXTENDS Decisions

Plugin(n, scope, p, extends, adapters) ==
    [name |-> n, scope |-> scope, precedence |-> p, extends |-> extends, adapters |-> adapters]

(* Two plugins and the universal one, in every order of registration. *)
OneOf(a, b, c) == << <<a>>, <<b>>, <<c>> >>
Scopes == {OneOf("t", "l", "b"), OneOf("t", Wildcard, "b"), OneOf("t", "l", Wildcard), OneOf("u", Wildcard, Wildcard),
           << <<"t">>, <<"k", "l">>, <<Wildcard>> >>}
Orders(S) == {s \in [1 .. Cardinality(S) -> S] : \A i, j \in 1 .. Cardinality(S) : i # j => s[i] # s[j]}
Registries ==
    UNION {Orders({Plugin(1, s, p, <<>>, {}), Plugin(3, t, q, <<>>, {}),
                   Plugin(Universal, OneOf(Wildcard, Wildcard, Wildcard), r, <<>>, {})}) :
           s \in Scopes, t \in Scopes, p \in {0, 1}, q \in {0, 1}, r \in {0, 2}}
    \cup {<<>>, << Plugin(1, OneOf("t", "l", "b"), 0, <<>>, {}) >>}

(* Five plugins that extend each other, one of them unregistered (7). *)
Chains ==
    {<< Plugin(1, OneOf("t", "l", "b"), 1, e[1], {"x"}), Plugin(3, OneOf("u", "l", "b"), 1, e[2], {"x", "y"}),
        Plugin(4, OneOf("u", "l", "b"), 1, e[3], {"y"}), Plugin(5, OneOf("u", "l", "b"), 1, e[4], {"x"}),
        Plugin(6, OneOf("u", "l", "b"), 1, e[5], {"z"}) >> :
     e \in {<<>>, <<3>>, <<3, 4>>} \X {<<>>, <<5>>, <<1>>, <<4>>} \X {<<>>, <<5>>, <<3>>} \X {<<>>, <<6>>, <<7>>} \X {<<>>, <<5>>, <<1>>}}

Dirs == [id : {0, 1, 3}, tree : {"locked", "other", "escape"}, api : {"absent", "raises", "registers", "registers_raises"}]
Walks == {<<>>} \cup {<<d>> : d \in Dirs} \cup {<<d, e>> : d \in Dirs, e \in Dirs}
Locks == [malformed : {FALSE}, entries : {<<>>, << [id |-> 1, dir |-> TRUE] >>,
              << [id |-> 1, dir |-> TRUE], [id |-> 3, dir |-> FALSE] >>}]
         \cup {[malformed |-> TRUE, entries |-> <<>>]}

Recipes == {[id |-> 1, plugin |-> 1, name |-> 1, precedence |-> 0], [id |-> 2, plugin |-> 1, name |-> 2, precedence |-> 0],
            [id |-> 3, plugin |-> 1, name |-> 3, precedence |-> 1], [id |-> 4, plugin |-> 3, name |-> 1, precedence |-> 0],
            [id |-> 1, plugin |-> 3, name |-> 4, precedence |-> 1], [id |-> 5, plugin |-> 1, name |-> 1, precedence |-> 1]}

ReadErrors == {"symlink", "size_cap", "depth_cap", "malformed", "os_error", "validation"}
Names == [space : BOOLEAN, key : BOOLEAN, path : BOOLEAN]
UpToTwo(S) == {T \in SUBSET S : Cardinality(T) <= 2}

Seqs(S, n) == UNION {[1 .. k -> S] : k \in 0 .. n}

NpmRepos ==
    [planned : {TRUE}, pjson : SUBSET {"too_large", "not_json", "bad_name"}, lock : {{}},
     sections : {{"dependencies"}}, write : {"ok"}, before : {"read"}, again : {FALSE}]
    \cup [planned : BOOLEAN, pjson : {{}}, lock : SUBSET {"unresolvable", "not_json", "other_version"},
          sections : SUBSET {"dependencies", "devDependencies", "overrides"},
          write : {"ok", "swapped", "refused"}, before : {"read", "refused"}, again : BOOLEAN]
JailEnds == {"exit_0", "nonzero", "timed_out", "oom_killed", "network_denied", "disk_quota_exceeded", "jail_setup_failed"}

JailRuns ==
    [raised : {"none"}, exit : {"zero", "error", "killed"}, stderr : SUBSET {"network", "disk", "setup", "denied"},
     hosts : {<<>>, <<"npmjs", "other">>}, allowed : {{}, {"npmjs"}}, quotaKnown : {TRUE},
     elapsed : {2, 9, 12}, budget : {10}, oomKills : {0, 1}, peak : {1, 5}, memory : {5}]
    \cup [raised : DOMAIN ExceptionNames, exit : {"zero"}, stderr : {{}}, hosts : {<<>>}, allowed : {{}},
          quotaKnown : {TRUE}, elapsed : {2}, budget : {10}, oomKills : {0}, peak : {1}, memory : {5}]
Urls == [https : BOOLEAN, port : {443, 80}, dns : BOOLEAN]

Headers == [name : {"authorization", "host"}, secrets : {{}, {"base64"}}]
Bodies == [kind : BodyKinds, wraps : {0, 2}, secrets : {{}, {"claude"}, SecretPatterns}]
CassetteNames == [name : 1 .. 3, digest : {7}, spelling : {"plain"}]
                 \cup [name : {2}, digest : {8}, spelling : {"two_spaces", "backslash"}]

Piece(text, stays) == [text |-> text, stays |-> stays]
Pieces ==
    {Piece(s, s) : s \in {<< "x" >>, << "quote", "/", "/", "quote" >>, << "quote", "\\", "quote", "/", "*", "quote" >>,
                          << "quote", "\\", "\\", "quote" >>}}
    \cup {Piece(<< "/", "/", "quote", "newline" >>, << "newline" >>), Piece(<< "/", "*", "quote", "*", "*", "/" >>, <<>>),
          Piece(<< "/", "*", "/", "*", "x", "*", "/", "quote", "*", "/" >>, <<>>)}

LcovRows == [tag : {"SF"}, at : 1 .. 2, hits : {0}, good : {TRUE}] \cup [tag : {"DA"}, at : {7, 8}, hits : 0 .. 1, good : {TRUE}]
            \cup [tag : {"DA"}, at : {0}, hits : {0}, good : {FALSE}] \cup [tag : {"end", "TN"}, at : {0}, hits : {0}, good : {TRUE}]

YarnLine1(indent, kind, key, value) == [indent |-> indent, kind |-> kind, key |-> key, value |-> value]
YarnLines(e) ==
    LET version == << YarnLine1(2, "pair", "version", e.version) >>
        block == IF e.dep = "none" THEN <<>>
                 ELSE << YarnLine1(2, "block", "dependencies", 0), YarnLine1(4, "pair", e.dep, 9) >>
    IN << YarnLine1(0, "header", e.key, 0) >> \o (IF e.first THEN version \o block ELSE block \o version)
       \o << YarnLine1(0, "blank", "none", 0) >>

(* A repository of which one part varies at a time. *)
NoField == [declared |-> "none", form |-> "no_at", major |-> 0]
Repo ==
    [pkg |-> "ok", entries |-> <<>>, readable |-> 0, deps |-> {}, markers |-> {}, locks |-> {}, field |-> NoField,
     ts |-> <<>>, node |-> "printed", pins |-> [nvmrc |-> <<>>, nodeVersion |-> <<>>, tools |-> <<>>], lock |-> "ok",
     installed |-> <<>>, engines |-> [op |-> "none", major |-> 0], coverage |-> "absent", files |-> {}, smoke |-> {}, scripts |-> {}]
PkgStates == {"absent", "dangling", "ok", "size_cap_exceeded", "malformed", "symlink_refused", "depth_cap_exceeded", "os_error", "not_utf8"}
Fields == [declared : {"yarn", "pnpm", "npm"}, form : {"major"}, major : 0 .. 2]
          \cup [declared : {"yarn", "npm"}, form : {"word", "no_at"}, major : {0}] \cup {NoField}
Installed == [path : {<<"bcrypt">>, <<"a", "bcrypt">>, <<"sharp", "a">>, <<"a">>}, version : 1 .. 2, slash : {FALSE}, scoped : {FALSE},
              peers : {"none"}]
NodeRepos ==
    {[Repo EXCEPT !.pkg = p, !.locks = l, !.lock = f, !.installed = << [path |-> <<"bcrypt">>, version |-> 1, slash |-> FALSE,
                                                                          scoped |-> FALSE, peers |-> "none"] >>] :
       p \in PkgStates, l \in SUBSET {"bun", "pnpm", "yarn", "npm"},
       f \in {"ok", "size_cap_exceeded", "depth_cap_exceeded", "malformed_lockfile", "symlink_refused", "os_error", "not_utf8"}}
    \cup {[Repo EXCEPT !.locks = {"npm"}, !.installed = i] : i \in Seqs(Installed, 2)}
    \cup {[Repo EXCEPT !.locks = {"pnpm"}, !.installed = << [path |-> <<"bcrypt">>, version |-> 1, slash |-> s, scoped |-> c, peers |-> p] >>] :
            s \in BOOLEAN, c \in BOOLEAN, p \in {"none", "paren", "underscore"}}
    \cup {[Repo EXCEPT !.locks = l, !.field = f, !.markers = b] :
            l \in {{"yarn"}, {"npm"}, {}}, f \in Fields, b \in {{}, {".yarn"}, {"nx.json", "package.json"}, {"turbo.json"}}}
    \cup {[Repo EXCEPT !.node = n, !.pins = [nvmrc |-> a, nodeVersion |-> b, tools |-> t]] :
            n \in {"missing", "nonzero", "unparseable", "printed"}, a \in {<<>>, <<0, 20>>, <<18>>, <<100>>}, b \in {<<>>, <<20>>},
            t \in {<<>>, << <<"other", 1>>, <<"node", 18>> >>}}
    \cup {[Repo EXCEPT !.entries = e, !.readable = n] :
            e \in {s \in Seqs([lang : 0 .. 2, kind : {"file", "link_in_tree", "link_out", "skipped"}], 3) : Len(s) = 3}, n \in {2, 3}}
    \cup {[Repo EXCEPT !.deps = d, !.engines = [op |-> o, major |-> m], !.coverage = c] :
            d \in UpToTwo({"vitest", "jest", "cypress", "@playwright/test", "vite", "webpack", "next"}), o \in {">=", "^", "other"}, m \in {16, 18},
            c \in {"absent", "ok", "size_cap_exceeded", "symlink_refused"}}
    \cup {[Repo EXCEPT !.ts = << [inside |-> TRUE, read |-> r, options |-> TRUE, extends |-> 0] >>, !.locks = l] :
            r \in {"ok", "malformed", "depth_cap_exceeded", "missing"}, l \in {{}, {"npm", "yarn"}}}
    \cup {[Repo EXCEPT !.files = f, !.smoke = s, !.scripts = {"test", "build"}] :
            f \in SUBSET [id : 1 .. 1, test : BOOLEAN, noise : BOOLEAN], s \in UpToTwo(ToSet(SmokePrecedence))}

Tsconfig(inside, read, options, extends) == [inside |-> inside, read |-> read, options |-> options, extends |-> extends]
Tsconfigs ==
    [1 .. 3 -> {Tsconfig(i, "ok", o, e) : i \in BOOLEAN, o \in BOOLEAN, e \in 0 .. 3} \cup {Tsconfig(TRUE, r, TRUE, 0) : r \in {"malformed", "missing", "depth_cap_exceeded"}}]
    \cup {[k \in 1 .. 7 |-> Tsconfig(TRUE, "ok", k = o, IF k < n THEN k + 1 ELSE last)] : o \in 1 .. 7, n \in 4 .. 7, last \in 0 .. 4}

OverlayNode(kind, inside, read, resources) == [kind |-> kind, inside |-> inside, read |-> read, resources |-> resources, docs |-> <<>>]
OverlayRoot(resources) == OverlayNode("kustomization", TRUE, "ok", resources)
Overlays ==
    {<< OverlayRoot(a), OverlayNode("kustomization", i, r, b), OverlayNode("kustomization", TRUE, "ok", c),
        OverlayNode("file", TRUE, "ok", <<>>), OverlayNode("file", j, "ok", <<>>), OverlayNode("dir", TRUE, "ok", <<>>) >> :
       a \in {<<2>>, <<2, 3>>, <<4, 2>>, <<3, 4, 5>>, <<2, 2>>, <<6, 5>>, <<3, 3, 4, 5>>}, b \in {<<>>, <<1>>, <<3, 5>>, <<4>>, <<2, 4>>, <<4, 4, 5>>},
       c \in {<<>>, <<2>>, <<1, 4>>, <<5, 5>>, <<4, 5>>}, i \in BOOLEAN, j \in BOOLEAN, r \in {"ok", "malformed"}}
    \cup {[k \in 1 .. 7 |-> IF k < n THEN OverlayNode("kustomization", TRUE, "ok", << k + 1 >>) ELSE OverlayNode("file", TRUE, "ok", <<>>)] :
            n \in 2 .. 7}

Doc(kind) == [kind |-> kind, ports |-> {80}, env |-> {"A"}, security |-> 1]
ValuesFiles == [base : BOOLEAN, read : {"ok", "malformed"}, image : {"string", "none"}, name : [env : {"", "prod"}, prefixed : BOOLEAN]]
Workflows == [name : {1}, read : {"ok", "malformed"}, runs : {<<>>, << "docker build", "jest" >>, << "sh" >>}, uses : {<<>>, << "./local" >>},
              secrets : {{}, {"TOKEN"}}]

(* The probes of one order of imports. *)
ProbeNames == << "index_health", "scip_index", "semgrep", "sbom", "language_detection" >>
ProbeEntry(name) ==
    [name |-> name, heavy |-> CASE name = "scip_index" -> 3 [] name \in {"semgrep", "sbom"} -> 2 [] OTHER -> 1,
     last |-> name \in {"index_health", "scip_index", "sbom"}, languages |-> IF name = "scip_index" THEN {"js"} ELSE {"*"}]
SlicePair(a, b) == [k \in {"observed", "expected"} |-> IF k = "observed" THEN a ELSE b]
VersionFile(read, a, b) == [read |-> read, own |-> SlicePair(a, 0), inner |-> SlicePair(2, b)]
ScipFiles == {[read |-> "ok", slice |-> s] : s \in {NoSlice("absent"), NoSlice("malformed")} \cup [state : {"read"}, commit : {"c1", "c2"}, indexed : {0, 8, 9, 10}, files : {0, 10}, errors : 0 .. 1]}
             \cup {[read |-> "unreadable", slice |-> NoSlice("absent")]}
HealthSources ==
    {[check |-> "raises", file |-> [read |-> "ok", slice |-> NoSlice("absent")]]} \cup {[check |-> "version", file |-> VersionFile("ok", a, b)] : a \in 1 .. 2, b \in {0, 2}}
    \cup {[check |-> "scip", file |-> f] : f \in ScipFiles}
ScanRuns ==
    [attempt : [ended : {"missing", "timeout", "config_absent"}, code : {0}, stdout : {"read"}, rules : {1}]
               \cup [ended : {"exited"}, code : 0 .. 2, stdout : {"read", "not_json", "wrong_shape", "wrong_type"}, rules : 0 .. 1],
     write : {"both", "slice", "none"}]
(* The two reports of the same coverage. *)
CoverageOf(lcov, istanbul, files) ==
    [lcov |-> lcov, istanbul |-> istanbul, files |-> files,
     rows |-> FlattenSeq([i \in DOMAIN files |->
         << [tag |-> "SF", at |-> files[i].source, hits |-> 0, good |-> TRUE] >>
         \o [j \in DOMAIN files[i].statements |-> [tag |-> "DA", at |-> files[i].statements[j].line, hits |-> files[i].statements[j].hits, good |-> TRUE]]
         \o << [tag |-> "end", at |-> 0, hits |-> 0, good |-> TRUE] >>])]

DockerLine(kind, name, form) == [kind |-> kind, name |-> name, form |-> form]
DockerFrom(name) == DockerLine("FROM", name, "absent")
DockerLines ==
    {DockerFrom(0), DockerFrom(1), DockerLine("COPY", 1, "absent"), DockerLine("COPY", IndexName(0), "absent"), DockerLine("RUN", 0, "absent"),
     DockerLine("ARG", 0, "absent"), DockerLine("ENTRYPOINT", 0, "exec"), DockerLine("ENTRYPOINT", 0, "shell"), DockerLine("CMD", 0, "exec")}
Scenarios ==
    [name : {"startup", "smoke_test"}, times : {"never"}, build : {"ok", "fails"}, run : {"ok", "raises"}, shells : {1}, certs : {{}, {"vendored"}}]
    \cup [name : {"smoke_test"}, times : {"build", "run"}, build : {"ok"}, run : {"ok"}, shells : {1}, certs : {{}}]
TracedScenario(name) == [name |-> name, times |-> "never", build |-> "ok", run |-> "ok", shells |-> 1, certs |-> {"system"}]
(* The digest a gather traced, or the trace of an earlier one. *)
ScannedTraces ==
    {EmptyTrace("stays"), EmptyTrace("read")} \cup {TraceSlice(<< Completed(TracedScenario("startup")) >>, d) : d \in {"d1", "d2"}}
    \cup {TraceSlice(<< Faulted("timeout") >>, "d1")}

SkillTiers == {[exists |-> FALSE, files |-> <<>>]}
              \cup [exists : {TRUE}, files : Seqs([id : 1 .. 2, reads : {"ok", "schema"}], 2)]
ConventionRules == [kind : {"dockerfile_pattern", "dockerfile_pattern_inverted", "missing_file"}, compiles : {TRUE}]
CatalogFiles == [reads : {"ok"}, rules : Seqs(ConventionRules, 2)]
                \cup {[reads |-> "yaml", rules |-> <<>>], [reads |-> "ok", rules |-> << [kind |-> "file_pattern", compiles |-> TRUE],
                                                                                       [kind |-> "unknown", compiles |-> TRUE] >>],
                      [reads |-> "ok", rules |-> << [kind |-> "file_pattern", compiles |-> FALSE] >>]}
ConventionPaths == {[state |-> "absent", files |-> <<>>], [state |-> "unreadable", files |-> <<>>]}
                   \cup [state : {"readable"}, files : Seqs(CatalogFiles, 1)]
ExceptionFiles == {[reads |-> "absent", entries |-> <<>>], [reads |-> "not_mapping", entries |-> <<>>]}
                  \cup [reads : {"ok"}, entries : Seqs({[valid |-> FALSE, here |-> TRUE, expires |-> 2]} \cup [valid : {TRUE}, here : BOOLEAN, expires : 1 .. 3], 2)]

DeclaredInputs == [token : {FALSE}, words : {<< "Dockerfile" >>, << "a", "Dockerfile" >>, << ".codegenie", "raw.json" >>}]
                  \cup [token : {TRUE}, words : {<< "image-digest" >>, << "other" >>}]
SomeFiles == [path : {<< "Dockerfile" >>, << "a", "Dockerfile" >>, << ".codegenie", "Dockerfile" >>}, size : 1 .. 2, bytes : {1}]
             \cup {[path |-> << "Dockerfile" >>, size |-> 1, bytes |-> 2], [path |-> << ".codegenie", "raw.json" >>, size |-> 1, bytes |-> 1]}
SomeRepos == [files : {S \in SUBSET SomeFiles : Cardinality(S) <= 2 /\ \A f, g \in S : f.path = g.path => f = g}, digest : {"none"}]
             \cup [files : UpToTwo({[path |-> << "Dockerfile" >>, size |-> 1, bytes |-> 1]}), digest : {"d1", "d2"}]
Schemas == [own : [{"p1", "p2"} -> 0 .. 2], envelope : 1 .. 2]

AdapterSets == {S \in SUBSET ([layer : {"app", "base_image"}, ecosystem : 1 .. 2, finds : {"it", "unknown", "raises"}]
                              \cup [layer : {"runtime"}, ecosystem : {1}, finds : {"it", "raises"}]) :
                  Cardinality(S) <= 3 /\ \A a, b \in S : a.layer = b.layer /\ a.ecosystem = b.ecosystem => a = b}

MCQuestions ==
    [resolve |-> [registry : Registries, scope : {<<"t", "l", "b">>, <<"t", "k", "b">>, <<"u", "l", "c">>, <<Wildcard, "l", "b">>}]
                 \cup [registry : Chains, scope : {<<"t", "l", "b">>}],
     load |-> [walked : Walks, lock : Locks],
     recipes |-> Orders(Recipes),
     mint |-> [plugin : {1, 3}, scope : CapabilityScopes],
     manifest |-> ReadErrors,
     lock |-> ReadErrors,
     query |-> [known : BOOLEAN, cap : {"none", "zero", "negative", "positive"}],
     tccm |-> [provides : UpToTwo(Names), requires : UpToTwo(Names)],
     match |-> Seqs({"applies", "MAJOR_BUMP_REFUSE", "PEER_DEP_CONFLICT"}, 4),
     register |-> [fits : BOOLEAN, taken : SUBSET {1, 2}, name : {1, 2}],
     signal_kind |-> {"build", "typecheck"},
     score |-> [signals : Seqs({"build", "tests", "unheard"} \X BOOLEAN, 3),
                events : SUBSET {<<"adapter_degraded", 1>>, <<"adapter_degraded", 2>>}],
     policy |-> SUBSET ToSet(PolicyFaults),
     lockfile |-> SUBSET [package : 1 .. 2, resolved : {"absent", "npmjs", "elsewhere"}],
     npm |-> [repo : NpmRepos, jail : JailEnds],
     openrewrite |-> [files : [there : SUBSET {"Dockerfile", "expected.Dockerfile"}, same : BOOLEAN, again : BOOLEAN],
                      jail : JailEnds],
     load_report |-> UpToTwo(ToSet(ReportFaults)),
     write_report |-> [symlink : BOOLEAN, fails : ToSet(ReportSteps) \cup {"nothing"}, unlinks : BOOLEAN,
                       errno : {"ENOSPC", "EACCES", "ELOOP", "EIO"}],
     report |-> [outcome : RemediationOutcomes, transform : BOOLEAN, branch : BOOLEAN],
     dependencies |-> [fault : {"none", "missing", "unreadable", "schema_invalid"},
                       values : [1 .. 2 -> {{}, {"a"}, {"not a table"}}]],
     cve |-> Seqs([package : {1, 3}], 3),
     summary |-> [long : BOOLEAN, controls : BOOLEAN],
     allowlist |-> UpToTwo([https : BOOLEAN, port : {443}, dns : {TRUE}]),
     spec |-> [cmd : {<<>>, <<"npm">>}, budget : {0, 1}, memory : {0, 1}, pids : {0, 1}],
     bwrap |-> [setup : {"ok", "filter", "temp", "temp_write", "netns", "netns_permission"}, run : JailRuns],
     sandbox_exec |-> [setup : {"ok", "temp", "temp_write"}, urls : {{}, {[https |-> TRUE, port |-> 443, dns |-> TRUE]},
                                                                    {[https |-> TRUE, port |-> 443, dns |-> FALSE]}},
                       template : [leftover : {FALSE}], run : JailRuns],
     clauses |-> UpToTwo(Urls),
     substrate |-> [darwin : BOOLEAN, version : {"unknown", "known"}, major : 13 .. 15],
     filter |-> Orders({"mount", "ptrace", "bpf"}) \cup {<<"mount">>, <<"bpf", "mount">>},
     external_cli |-> [call : [nameFits : BOOLEAN, binaryAllowed : BOOLEAN, cwd : {"dir", "file", "absent"},
                               egress : {{}, {"registry"}}, cap : {0, 16, 17, 18, 20, 40}],
                       host : [linux : BOOLEAN, bwrap : BOOLEAN], out : {0, 17, 19, 21, 40, 60}],
     env |-> SUBSET [secretName : BOOLEAN, awsPrefix : BOOLEAN],
     tool_version |-> [memo : {"none", "unknown", "1.2"}, inLoop : BOOLEAN,
                       outcome : {"1.2", "missing", "nonzero", "blank", "timeout"}],
     tier |-> Seqs({1, 2}, 2),
     validated |-> [outcome : PlanOutcomes, trust : [passed : BOOLEAN, confidence : Confidences], known : BOOLEAN,
                    plan : PlanKinds],
     pending |-> {1},
     anchor |-> [naive : BOOLEAN, badExtras : BOOLEAN, outcome : PlanOutcomes, reason : RefusalReasons \cup {"none"},
                 trust : {"high"}],
     provenance |-> AppLayer \cup {"os_layer", "provenance_error"},
     fence |-> [payload : Seqs({"text", "nonce", "open", "close", "pattern"}, 3), scanner : {"guard", "blind"}],
     canary |-> UpToTwo(ToSet(PatternFaults)),
     prompt |-> [deps : {0, 1, 16, 17}, snippets : 0 .. 1, shots : {0, 3, 4}, summary : 0 .. 1, stderr : 0 .. 1],
     diff |-> UpToTwo(ToSet(DiffFaults)),
     relative_path |-> UpToTwo(ToSet(PathFaults)),
     rewrite |-> [files : SUBSET {1, 2}, headers : SUBSET [path : {1, 2}, prefixed : BOOLEAN]],
     egress |-> [host : {"api.anthropic.com", "localhost", "elsewhere"}, port : {443, 80}, loopback : BOOLEAN],
     pinned |-> [fault : {"none", "no_colon", "empty_host", "port_not_integer"}, host : {"api.anthropic.com", "localhost"},
                 port : {443, 80}],
     guard |-> [installed : {FALSE}, wraps : {0}],
     cassette |-> [headers : {[shape |-> "none", pairs |-> <<>>]}, body : Bodies]
                  \cup [headers : [shape : {"plain"}, pairs : {s \in Seqs(Headers, 2) : Len(s) = 2 => s[1].name # s[2].name}],
                        body : Bodies]
                  \cup [headers : [shape : {"lists", "tuples", "pairs"}, pairs : Seqs(Headers, 2)], body : Bodies],
     cassette_file |-> UpToTwo(ToSet(CassetteFaults)) \ {{}},
     cassette_lock |-> UNION {Orders(S) : S \in {T \in SUBSET CassetteNames :
                                    \A a, b \in T : a.name = b.name => a = b}},
     lock_lines |-> [lines : Seqs([name : 1 .. 2, digest : {1}, blank : {FALSE}, separated : BOOLEAN, moreAfter : BOOLEAN,
                                   safePath : {TRUE}, hex : {"ok", "bad_hex_length"}], 2), ended : BOOLEAN],
     retrieve |-> [raw : Seqs([id : 1 .. 2, score : {40, 70, 90}, head : {"h1", "h9"}, model : 1 .. 2], 2)
                         \cup {<< [id |-> 3, score |-> 90, head |-> "", model |-> 1],
                                  [id |-> 2, score |-> 90, head |-> "h2", model |-> m],
                                  [id |-> 1, score |-> 90, head |-> "h1", model |-> 1] >> : m \in 1 .. 2},
                   filtered : BOOLEAN],
     floors |-> [high : {65, 85, 101}, degraded : {-1, 65, 85}],
     embed_batch |-> [texts : Seqs(1 .. 3, 3), table : [1 .. 3 -> {"good", "bad", "absent"}], short : BOOLEAN],
     embed_open |-> [first : {"ok", "corrupt", "locked"}, second : {"ok", "locked"}],
     weights |-> UpToTwo(ToSet(LockFaults)),
     vector |-> [dim : {384, 385}, norm : {0, 998, 999, 1001, 1002}, finite : BOOLEAN],
     example |-> [cve : {1}, advisory : {1}, transform : 1 .. 2, trust : {1}, plan : PlanKinds, head : {1}],
     record_id |-> UpToTwo(ToSet(RecordIdFaults)),
     manifest_yaml |-> UpToTwo(ToSet(ManifestFaults) \cup {"absent"}),
     candidates |-> [open : BOOLEAN, collection : BOOLEAN,
                     rows : Seqs([id : {1}, measured : BOOLEAN, distance : {5, 100}, metadata : {"example", "other"}], 2)],
     jsonc |-> Seqs(Pieces, 4),
     open |-> UpToTwo(ToSet(JsoncFaults) \cup ToSet(YamlFaults)),
     yaml_docs |-> Seqs({"mapping", "empty", "not_mapping", "too_deep"}, 3),
     depth |-> {<<2>>, <<2, 3>>, <<3, 2>>, <<2, 2>>} \X {<<>>, <<3>>, <<4>>, <<3, 4>>} \X {<<>>, <<4>>, <<5>>, <<4, 5>>} \X {<<>>, <<5>>} \X {<<>>},
     lcov |-> Seqs(LcovRows, 4),
     lcov_totals |-> Seqs([tag : {"LF", "LH"}, hits : 1 .. 2, good : BOOLEAN], 2),
     yarn |-> {[entries |-> e, lines |-> FlattenSeq([i \in DOMAIN e |-> YarnLines(e[i])])] :
               e \in Seqs([key : 1 .. 2, version : 7 .. 8, first : BOOLEAN, dep : {"none", "version", "a"}], 2)},
     node |-> NodeRepos,
     admits |-> [wanted : {{"*"}, {"js"}}, detected : SUBSET {"js", "py"}, manifest : BOOLEAN],
     extends |-> Tsconfigs,
     overlays |-> Overlays,
     deployment |-> [found : SUBSET ToSet(DeploymentPrecedence), values : Seqs(ValuesFiles, 2), nodes : {<< OverlayRoot(<<>>) >>},
                     docs : {<<>>, << Doc("Service") >>, << Doc("Service"), Doc("Pod") >>}, tf : {{1}}],
     raw_manifest |-> SUBSET [top : {"deploy", "src"}, kindLine : BOOLEAN],
     ci |-> [found : UpToTwo(ToSet(ProviderPrecedence)), workflows : Seqs(Workflows, 2), pipeline : {w \in Workflows : w.uses = <<>> /\ w.secrets = {}}, writes : {TRUE}],
     registry |-> [entries : {[i \in DOMAIN o |-> ProbeEntry(o[i])] : o \in Orders(ToSet(ProbeNames))}, languages : {{"js"}, {"py"}}],
     health |-> [head : {"none", "c1"}, behind : {-1, 3}, sources : UNION {[S -> HealthSources] : S \in SUBSET {"scip", "semgrep"}}],
     prior |-> [file : {VersionFile(r, a, b) : r \in {"ok", "unreadable"}, a \in 0 .. 1, b \in {0, 2}}, key : {"observed", "expected"}],
     scip |-> [head : {"none", "c1", "c2"}, healthHead : {"none", "c1"}, behind : {-1, 3}, files : {0, 9, 10}, summary : {-2, -1, 0, 9, 10},
               ended : {"ok", "timeout", "missing", "nonzero", "disallowed"}, tsconfig : {"own", "absent"}, infers : BOOLEAN, unlinks : BOOLEAN,
               raw : {"ok", "no_dir", "no_write"}, prior : {NoSlice("absent")}],
     dep_graph |-> {Repo @@ [strategies |-> {"npm", "yarn-berry", "pnpm"}, strategy |-> "ok", nodes |-> 2]}
                   \cup {[Repo EXCEPT !.field = f, !.locks = l, !.markers = b] @@ [strategies |-> {"npm", "yarn-berry", "pnpm"}, strategy |-> s, nodes |-> 2] :
                         f \in Fields \cup {[declared |-> "deno", form |-> "major", major |-> 2]}, l \in UpToTwo({"bun", "pnpm", "yarn", "npm"}), b \in {{}, {".yarn"}},
                         s \in {"ok", "timeout", "raises"}}
                   \cup {[Repo EXCEPT !.pkg = p, !.locks = {"npm"}] @@ [strategies |-> {"npm"}, strategy |-> "ok", nodes |-> 2] : p \in PkgStates \ {"dangling"}},
     imports |-> [grammar : {"ok", "refused"}, write : {"ok", "fails"}, files : Seqs([read : {"ok"}, imports : Seqs(0 .. 1, 2)] \cup [read : {"too_large", "error"}, imports : {<<1>>}], 3)]
                 \cup [grammar : {"ok"}, write : {"ok"}, files : {[k \in 1 .. n |-> [read |-> IF k = 3 THEN "ok" ELSE "too_large", imports |-> <<1, 2, 1>>]] : n \in 5 .. 7}],
     reflection |-> [grammar : {"ok", "refused"}, pkg : {"ok", "absent", "malformed", "os_error"}, deps : UpToTwo({"typeorm", "x"}),
                     files : Seqs({[read |-> r, evals |-> e, dynamic |-> d, envReads |-> v] :
                                   r \in {"ok", "unreadable", "parser_raises"}, e \in 0 .. 1, d \in 0 .. 1, v \in {<<>>, <<1, 3>>, <<0>>}}, 1)],
     generated |-> [pkg : {"ok", "absent", "os_error"}, scripts : UpToTwo({"codegen", "generate", "prisma:generate"}),
                    files : Seqs([read : {"ok", "unreadable"}, markers : {{}, {"prisma"}, {"prisma", "graphql-codegen"}}, dir : {"gen", "src"}], 1)],
     tsmeta |-> {t \in Tsconfigs : Len(t) = 3} \cup {<<>>},
     ast_grep |-> ScanRuns, ripgrep |-> ScanRuns, gitleaks |-> ScanRuns, semgrep |-> ScanRuns,
     redact |-> [raw : Seqs(1 .. 2, 4), secrets : Seqs({<<1>>, <<2>>, <<1, 2>>, <<2, 2>>}, 2)],
     coverage |-> {CoverageOf(l, i, f) : l \in {"absent", "read", "size_cap_exceeded", "os_error"}, i \in {"absent", "read", "malformed"},
                   f \in {s \in Seqs([source : 1 .. 2, shape : {"object"}, statements : Seqs([line : 1 .. 2, hits : 0 .. 1], 2)], 2) :
                         Len(s) = 2 => s[1].source < s[2].source}}
                  \cup {CoverageOf("absent", "read", << [source |-> 1, shape |-> "list", statements |-> <<>>] >>)},
     dockerfile |-> {<<>>} \cup {<< d >> : d \in Seqs(DockerLines, 5)} \cup {<< <<>>, << DockerFrom(1) >> >>},
     trace |-> [yaml : {"ok"}, digest : {"d1"}, linux : BOOLEAN, cut : BOOLEAN, scenarios : Seqs(Scenarios, 3)]
               \cup [yaml : {"ok", "malformed"}, digest : {"none", "not_hex", "d1"}, linux : {TRUE}, cut : {FALSE}, scenarios : Seqs(Scenarios, 1)]
               \cup [yaml : {"ok"}, digest : {"d1"}, linux : {TRUE}, cut : {FALSE}, scenarios : {[k \in 1 .. n |-> TracedScenario("startup")] : n \in 4 .. 6}],
     scan |-> Seqs([trace : ScannedTraces, syft : {"ok", "nonzero", "unwritten"}, grype : {"ok", "missing"}], 3),
     top |-> [n : 1 .. 2, matches : Seqs([severity : {0, 3, 4, 9}, package : 1 .. 2, id : {1}], 4)],
     frontmatter |-> [data : Seqs({"-", "n", "r", "x"}, 6), chunk : {3, 4}],
     skills |-> [1 .. 3 -> SkillTiers],
     conventions |-> [paths : Seqs(ConventionPaths, 2), repo : [dockerfile : {"absent", "found", "lacks"}, files : Seqs({"found", "lacks"}, 2)]],
     exceptions |-> [user : ExceptionFiles, repo : ExceptionFiles, now : {2}],
     key |-> [probe : {[name |-> "p1", version |-> 1, declared |-> d] : d \in Seqs(DeclaredInputs, 2)},
              before : SomeRepos, after : SomeRepos],
     schema |-> [before : Schemas, after : Schemas],
     scrub |-> [text : Seqs({"/", "home", "root", "a", "b"}, 6), root : {<< "/", "home", "/", "a" >>, << "/", "a", "/", "b" >>}]
               \cup [text : {<< "/", "home", "/", "a", "/", "b" >> \o t : t \in Seqs({"/", "Users", "a"}, 6)}, root : {<< "/", "home", "/", "a", "/", "b" >>}],
     secrets |-> {<< s >> : s \in Seqs({<< "key" >>, << "eyj" >>, << "dot" >>, << "noise" >>}, 6)}
                 \cup {<< s >> : s \in Seqs({<< "key" >>, << "begin" >>, << "end" >>, << "sk" >>, << "noise" >>, << "text" >>}, 4)}
                 \cup Seqs(Seqs({<< "key" >>, << "noise" >>, << "text" >>, << "mark", << "key" >> >>}, 2), 2),
     append |-> Seqs([id : 1 .. 2, boundary : {TRUE}, large : {FALSE}, secret : {"none", "leaf", "spanning"}]
                     \cup {[id |-> 3, boundary |-> FALSE, large |-> FALSE, secret |-> "none"],
                           [id |-> 3, boundary |-> TRUE, large |-> TRUE, secret |-> "leaf"]}, 4),
     attribute |-> UNION {LET o == Orders(S) IN [one : o, other : o] : S \in AdapterSets},
     path |-> [jail : [exists : BOOLEAN], path : [absolute : BOOLEAN, isLink : BOOLEAN,
                                                  ends : {"nowhere", "loop", "outside", "inside"}]]]
=============================================================================
