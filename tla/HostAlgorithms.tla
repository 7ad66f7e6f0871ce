--------------------------- MODULE HostAlgorithms ---------------------------
(***************************************************************************)
(* Pure algorithms of the host, as operators: who may inject a service     *)
(* (context/mod.rs), the subtree and the context files of a plugin         *)
(* iteration (host.rs), the inputs of a build fingerprint                  *)
(* (plugin/tooling.rs) and the capped search of the agent (agent.rs).      *)
(***************************************************************************)
EXTENDS Sample, Integers, FiniteSets, Sequences, SequencesExt

------------------------------------------------------------------------------
(* Services by scope.  A world w has the hierarchy (parent, grants, both by *)
(* child), the plugins that are unavailable, the local scopes that exist    *)
(* and the shared scopes "request", "session" and "global": the services    *)
(* that each of them holds.                                                 *)

Shared == <<"request", "session", "global">>
Known(w, p) == p \in DOMAIN w.local
Found(from) == [found |-> TRUE, from |-> from]
Denied(why) == [found |-> FALSE, from |-> why]
HasParent(w, p) == p \in DOMAIN w.parent

\* An ancestor's service needs a grant on the requester's own parent edge.
Granted(w, requester, below, id) == requester \in DOMAIN w.grants /\ id \in w.grants[requester]

\* inject_local_chain: <<>> when the walk ends without a provider.
InjectLocalChain(w, requester, id) ==
    LET From[hop \in 0..Cardinality(DOMAIN w.parent) + 1] ==
            LET Up[k \in 0..hop] == IF k = 0 THEN requester ELSE w.parent[Up[k - 1]]
                path == Up[hop]
            IN  IF path \in w.unavailable THEN <<Denied("unavailable")>>
                ELSE IF Known(w, path) /\ id \in w.local[path]
                THEN IF hop = 0 \/ Granted(w, requester, Up[hop - 1], id)
                     THEN <<Found(path)>> ELSE <<Denied("denied")>>
                ELSE IF HasParent(w, path) THEN From[hop + 1] ELSE <<>>
    IN  From[0]

\* inject: the local chain, then the shared scopes in their fixed order.
Inject(w, requester, id) ==
    LET near    == InjectLocalChain(w, requester, id)
        holding == SelectSeq(Shared, LAMBDA s : id \in w.shared[s])
    IN  CASE requester \in w.unavailable -> Denied("unavailable")
          [] near # <<>> -> near[1]
          [] holding # <<>> -> Found(holding[1])
          [] OTHER -> Denied("missing")

\* provide fails on a duplicate; a local scope is made on the way.
WithLocal(w, p, services) ==
    [w EXCEPT !.local = [q \in DOMAIN w.local \cup {p} |-> IF q = p THEN services ELSE w.local[q]]]
Provide(w, p, id) == WithLocal(w, p, {id} \cup (IF Known(w, p) THEN w.local[p] ELSE {}))
ProvideShared(w, s, id) == [w EXCEPT !.shared[s] = @ \cup {id}]

\* dispose: a local scope that is left empty is removed.
Dispose(w, p, id) ==
    IF w.local[p] = {id}
    THEN [w EXCEPT !.local = [q \in DOMAIN w.local \ {p} |-> w.local[q]]]
    ELSE WithLocal(w, p, w.local[p] \ {id})
DisposeShared(w, s, id) == [w EXCEPT !.shared[s] = @ \ {id}]

Ancestors(w, p) ==
    LET Up[k \in 0..Cardinality(DOMAIN w.parent)] ==
            IF k = 0 THEN {p} ELSE Up[k - 1] \cup {w.parent[q] : q \in Up[k - 1] \cap DOMAIN w.parent}
    IN  Up[Cardinality(DOMAIN w.parent)]
Providers(w, p, id) == {q \in Ancestors(w, p) \cap DOMAIN w.local : id \in w.local[q]}
Between(w, p, q) == {m \in Ancestors(w, p) : q \in Ancestors(w, m)}

\* Injection never borrows a grant and never looks past a plugin that is not
\* there: a service found in an ancestor is the nearest one, the requester's own
\* edge grants it and everyone up to it is loaded ("a grant on an intermediate
\* edge (b -> a) never authorizes c"); a shared one is reached only when no
\* ancestor has it.  Disposing what was provided gives everyone the old answer.
InjectAuthorised ==
    sample.of = "scope" =>
        LET w == sample.world
            r == sample.requester
            answer == Inject(w, r, "s")
            plugins == DOMAIN w.parent \cup {w.parent[p] : p \in DOMAIN w.parent}
        IN  /\ answer.found /\ answer.from \in plugins =>
                 /\ answer.from \in Providers(w, r, "s")
                 /\ Providers(w, r, "s") \cap Between(w, r, answer.from) = {answer.from}
                 /\ Between(w, r, answer.from) \cap w.unavailable = {}
                 /\ answer.from # r => "s" \in w.grants[r]
            /\ answer.found /\ answer.from \notin plugins =>
                 /\ Providers(w, r, "s") = {} /\ Ancestors(w, r) \cap w.unavailable = {}
            /\ \A p \in plugins :
                 ~ (Known(w, p) /\ "s" \in w.local[p]) =>
                     Inject(Dispose(Provide(w, p, "s"), p, "s"), r, "s") = answer
            /\ \A s \in ToSet(Shared) :
                 "s" \notin w.shared[s] =>
                     Inject(DisposeShared(ProvideShared(w, s, "s"), s, "s"), r, "s") = answer

------------------------------------------------------------------------------
(* The subtree of a plugin iteration.  A plugin path is a sequence of       *)
(* names; a context file is its plugin and its kind.                        *)

\* run_llm_auto_update: the plugins of the files it is given; a file outside the
\* sources, the tests and the manifest names none.
TargetsOf(files) == {f.plugin : f \in {g \in files : g.kind \in {"source", "tests", "manifest"}}}

\* determine_root_plugin_path, first part: the common prefix, read off the
\* shortest path.
CommonPrefix(targets) ==
    LET shortest == CHOOSE t \in targets : \A u \in targets : Len(t) <= Len(u)
        Agree(i) == \A t \in targets : t[i] = shortest[i]
        k == CHOOSE n \in 0..Len(shortest) :
                 /\ \A i \in 1..n : Agree(i)
                 /\ n < Len(shortest) => ~ Agree(n + 1)
    IN  SubSeq(shortest, 1, k)

\* Second part: segments are popped until the path is a loaded plugin.
RootOf(prefix, loaded) ==
    LET Pop[n \in 0..Len(prefix)] ==
            IF n = 0 THEN <<>>
            ELSE IF SubSeq(prefix, 1, n) \in loaded THEN <<SubSeq(prefix, 1, n)>> ELSE Pop[n - 1]
    IN  Pop[Len(prefix)]

\* begin_plugin_iteration: the loaded plugins at or below the root; without a
\* target (root mode) the root is empty and every plugin is below it.
RootFor(targets, loaded) ==
    IF targets = {} THEN << <<>> >> ELSE RootOf(CommonPrefix(targets), loaded)
Subtree(root, loaded) == {p \in loaded : IsPrefix(root, p)}

FileKinds == {"manifest", "core", "lib", "source", "tests", "overview", "human", "agent", "binary"}

\* collect_plugin_context_paths, all files: by directory and by extension.
AllFiles(targets, exists) == {f \in exists : f.plugin \in targets /\ f.kind # "binary"}

\* plugin_relative_depth: -1 for a plugin that is not below the root.
RelativeDepth(root, p) == IF root # <<>> /\ IsPrefix(root, p) THEN Len(p) - Len(root) ELSE -1

\* collect_focus_context_paths: much of the root, little of the two levels below.
FocusKinds(depth) ==
    CASE depth = 0 -> {"manifest", "core", "lib", "tests", "overview"}
      [] depth \in {1, 2} -> {"manifest", "core", "lib"}
      [] OTHER -> {}
FocusFiles(root, targets, exists) ==
    {f \in AllFiles(targets, exists) : f.kind \in FocusKinds(RelativeDepth(root, f.plugin))}

\* A plugin iteration works on the smallest loaded subtree that holds every
\* plugin it was asked for, and starts with the root's own sources in sight;
\* asked for none, it works on every plugin.
SmallestSubtree ==
    sample.of = "context" =>
        LET asked == TargetsOf(sample.files)
            root == RootFor(asked, sample.loaded)
            exists == {[plugin |-> p, kind |-> k] : p \in sample.loaded, k \in FileKinds}
            above == {p \in sample.loaded : \A t \in asked : IsPrefix(p, t)}
        IN  IF root = <<>> THEN above = {}
            ELSE LET targets == Subtree(root[1], sample.loaded)
                     focus   == FocusFiles(root[1], targets, exists)
                 IN  /\ asked \cap sample.loaded \subseteq targets
                     /\ \A f \in focus : IsPrefix(root[1], f.plugin) /\ Len(f.plugin) <= Len(root[1]) + 2
                     /\ IF asked = {} THEN targets = sample.loaded
                        ELSE /\ root[1] \in above /\ \A p \in above : IsPrefix(p, root[1])
                             /\ \A k \in FocusKinds(0) : [plugin |-> root[1], kind |-> k] \in focus

------------------------------------------------------------------------------
(* The inputs of a build fingerprint.  Packages are numbers; deps is the    *)
(* resolved graph of cargo metadata (cycles through dev-dependencies        *)
(* included), local the packages without a source.  Names are unique.       *)

\* One edge of the walk: whatever is new is walked from, local or not.
Follow(deps, local, p) == TRUE

\* collect_local_dependency_dirs: a stack, a set of visited packages.
LocalDependencies(root, deps, local) ==
    LET n == Cardinality(DOMAIN deps)
        Step(st) ==
            IF st.stack = <<>> THEN st
            ELSE LET new == deps[Last(st.stack)] \ st.visited
                 IN  [visited |-> st.visited \cup new,
                      stack   |-> Front(st.stack) \o SetToSeq({p \in new : Follow(deps, local, p)})]
        Walk[k \in 0..n + 1] ==
            IF k = 0 THEN [visited |-> {}, stack |-> <<root>>] ELSE Step(Walk[k - 1])
    IN  (Walk[n + 1].visited \cap local) \ {root}

\* collect_crate_inputs: manifest, build script, sources; docs of the plugin only.
CrateInputs(crate, withDocs) ==
    {<<crate, f>> : f \in {"Cargo.toml", "build.rs", "src"} \cup (IF withDocs THEN {"interfaces.json"} ELSE {})}

\* DependencySnapshot::load: the closure of every package of the metadata.
DependencySnapshot(deps, local) == [p \in DOMAIN deps |-> LocalDependencies(p, deps, local)]

\* collect_plugin_inputs.
PluginInputs(root, snapshot) ==
    CrateInputs(root, TRUE) \cup UNION {CrateInputs(d, FALSE) : d \in snapshot[root]}

Reaches(deps, p, q) ==
    LET Near[k \in 0..Cardinality(DOMAIN deps)] ==
            IF k = 0 THEN {p} ELSE Near[k - 1] \cup UNION {deps[m] : m \in Near[k - 1]}
    IN  q \in Near[Cardinality(DOMAIN deps)]

\* The fingerprint that decides whether an artifact is rebuilt reads the sources
\* of every local crate the plugin reaches, through whatever crates lie between.
FingerprintCovers ==
    sample.of = "inputs" =>
        LET snapshot == DependencySnapshot(sample.deps, sample.local)
        IN  \A root \in sample.local, crate \in sample.local :
                Reaches(sample.deps, root, crate) <=>
                    CrateInputs(crate, FALSE) \subseteq PluginInputs(root, snapshot)

------------------------------------------------------------------------------
(* The search of the agent.  tree: directory -> entries in the order of the *)
(* file system; a file has the numbers of its matching lines, or is no      *)
(* source; a directory entry may be one of the pruned names.                *)

\* WalkControl::Stop.
StopWalk(hits, cap) == Len(hits) >= cap

\* agent_search_code, one file: rows are added up to the cap.
SearchFile(hits, file, cap) ==
    LET room == IF Len(hits) >= cap THEN 1 ELSE cap - Len(hits)
        rows == [i \in 1..(IF file.lines < room THEN file.lines ELSE room) |-> <<file.name, i>>]
    IN  hits \o rows

\* walk_code_files_ctl, one directory: files are searched, directories stacked.
SearchEntry(st, entry, cap) ==
    IF st.stop THEN st
    ELSE IF entry.kind = "dir"
    THEN IF entry.pruned THEN st ELSE [st EXCEPT !.stack = Append(@, entry.name)]
    ELSE IF ~ entry.source THEN st
    ELSE LET hits == SearchFile(st.hits, entry, cap)
         IN  [st EXCEPT !.hits = hits, !.stop = StopWalk(hits, cap)]

SearchCode(tree, root, cap) ==
    LET Step(st) ==
            IF st.stop \/ st.stack = <<>> THEN st
            ELSE FoldLeft(LAMBDA acc, e : SearchEntry(acc, e, cap),
                          [st EXCEPT !.stack = Front(@)], tree[Last(st.stack)])
        Walk[k \in 0..Cardinality(DOMAIN tree)] ==
            IF k = 0 THEN [stack |-> <<root>>, hits |-> <<>>, stop |-> FALSE] ELSE Step(Walk[k - 1])
    IN  Walk[Cardinality(DOMAIN tree)].hits

Entries(tree, d) == ToSet(tree[d])
Reachable(tree, root) ==
    LET Down[k \in 0..Cardinality(DOMAIN tree)] ==
            IF k = 0 THEN {root}
            ELSE Down[k - 1] \cup {e.name : e \in {x \in UNION {Entries(tree, d) : d \in Down[k - 1]} :
                                                     x.kind = "dir" /\ ~ x.pruned}}
    IN  Down[Cardinality(DOMAIN tree)]
Sources(tree, root) ==
    {e \in UNION {Entries(tree, d) : d \in Reachable(tree, root)} : e.kind = "file" /\ e.source}

\* A search returns the cap or everything, never more and no line twice ("stop
\* the walker as soon as we have 40 hits").
SearchCapped ==
    sample.of = "search" =>
        LET hits == SearchCode(sample.tree, 1, sample.cap)
            all  == {<<f.name, i>> : f \in Sources(sample.tree, 1), i \in 1..2}
            real == {h \in all : \E f \in Sources(sample.tree, 1) : f.name = h[1] /\ h[2] <= f.lines}
            n    == Cardinality(real)
        IN  /\ ToSet(hits) \subseteq real /\ IsInjective(hits)
            /\ Len(hits) = IF n < sample.cap THEN n ELSE sample.cap

\* What the host answers is authorised, complete and no more than was asked.
AnswersSound == InjectAuthorised /\ SmallestSubtree /\ FingerprintCovers /\ SearchCapped
=============================================================================
