------------------------------ MODULE MCSamples ------------------------------
(***************************************************************************)
(* Inputs for the algorithms of NetAlgorithms, EditPolicy and              *)
(* HostAlgorithms.                                                         *)
(***************************************************************************)
EXTENDS NetAlgorithms, EditPolicy, HostAlgorithms

\* Three nodes with every set of inputs; every policy, outcome and order of
\* completion of up to three branches; up to two subgraphs of a router.
Field == {"x", "y", "z"}
NodeDocs == {[consumes |-> c, produces |-> p] :
                c \in SUBSET Field, p \in {{}, {"x"}, {"y"}, {"z", "error"}}}
Answer(object, ok, error) == [object |-> object, ok |-> ok, error |-> error]
Answers(first) == [n \in 1..3 |-> IF n = 1 THEN first ELSE Answer(TRUE, "none", "none")]
NetSamples ==
    {[of |-> "net", docs |-> d, answers |-> Answers(Answer(TRUE, "true", "blank"))] : d \in [1..3 -> NodeDocs]}
    \cup
    {[of |-> "net", docs |-> [d EXCEPT ![1].produces = {"x", "error"}], answers |-> Answers(a)] :
        d \in [1..3 -> {[consumes |-> c, produces |-> p] : c \in SUBSET {"x", "y"}, p \in {{}, {"x"}, {"y"}}}],
        a \in {Answer(TRUE, "false", "none"), Answer(TRUE, "true", "text"), Answer(FALSE, "false", "text")}}
GateSamples ==
    UNION {{[of |-> "gate", policy |-> pol, up |-> up, out |-> o, order |-> ord] :
        pol \in {"AllOf", "AnyOf", "FirstSuccess", "FirstCompleted", "AtLeast"},
        o \in [d -> Terminal], ord \in SetToSeqs(d)} : up \in {1..k : k \in 0..3}, d \in SUBSET (1..3)}
Subgraphs == [raw : Terminal \cup {"panic"}, late : BOOLEAN, writes : {1, 2}]
RouterSamples == {[of |-> "router", runs |-> s] : s \in UNION {[1..k -> Subgraphs] : k \in 0..2}}

\* Paths of up to five segments below plugins/, with dots and with a symbolic
\* link that leaves the plugin, the workspace, or nothing.
SeqUpTo(S, n) == UNION {[1..k -> S] : k \in 0..n}
PluginDir == <<"plugins", "p">>
RootSets == {{PluginDir}, {PluginDir, PluginDir \o <<"c">>}, {<<"plugins">>, PluginDir}}
Directories == {<<"ws">>, <<"ws", "plugins">>, <<"ws", "plugins", "p">>, <<"ws", "plugins", "p", "src">>, <<"out">>}
FileSystems ==
    {[dirs |-> Directories, link |-> <<>>, target |-> <<>>]} \cup
    {[dirs |-> Directories, link |-> <<"ws", "plugins", "p">> \o l, target |-> t] :
        l \in {<<"src">>, <<"src", "f">>, <<"docs">>},
        t \in {<<"out">>, <<"out", "gone">>, <<"ws", "plugins">>}}
EditSamples ==
    {[of |-> "edit", path |-> [absolute |-> a, segs |-> <<"plugins">> \o s], roots |-> r, fs |-> f] :
        a \in {FALSE}, s \in SeqUpTo({"p", "src", "docs", "agent", ManifestFile, "..", "f"}, 4),
        r \in RootSets, f \in FileSystems}

\* Patches of policy, texts, TOML documents, and files edited in between.
PolicySamples ==
    {[of |-> "policy", segs |-> s] : s \in SeqUpTo({"crates", "docs", "core", "config", "..", "."}, 5)}
TextSamples ==
    {[of |-> "text", text |-> t, find |-> f] : t \in SeqUpTo({"a", "b"}, 5), f \in SeqUpTo({"a", "b"}, 2)}
TomlKeys == SeqUpTo({"k", "l"}, 2)
TomlSamples ==
    {[of |-> "toml", doc |-> {p \in TomlKeys : \E q \in d : IsPrefix(p, q)}, key |-> k] :
        d \in SUBSET TomlKeys, k \in SeqUpTo({"k", "l"}, 3)}
FileStates == {<<>>} \cup {<<s>> : s \in SeqUpTo({"a", "b", "?"}, 2)}
StaleOps(seen) ==
    {FromPatch([kind |-> k, find |-> f, replace |-> <<"c">>], seen) :
        k \in {"text", "json_value", "toml_value"}, f \in {<<"a">>, <<"a", "b">>}} \cup
    {[kind |-> "create_file", old |-> o, new |-> n, sha |-> <<>>] :
        o \in {<<>>, << <<>> >>, << <<"a">> >>}, n \in {<<>>, << <<"c">> >>}} \cup
    {[kind |-> "delete_file", old |-> <<>>, new |-> <<>>, sha |-> seen]}
StaleSamples ==
    UNION {{[of |-> "stale", seen |-> s, now |-> n, op |-> o] : n \in FileStates, o \in StaleOps(s)} : s \in FileStates}

\* Three nested scopes; subtrees of up to seven plugins; closures of three
\* packages; and trees of files that are searched up to a cap.
ScopeParent == [c |-> "b", b |-> "a"]
Locals == UNION {[d -> SUBSET {"s"}] : d \in SUBSET {"a", "b", "c"}}
ScopeSamples ==
    {[of |-> "scope", requester |-> r,
      world |-> [parent |-> ScopeParent, grants |-> g, unavailable |-> u, local |-> l,
                 shared |-> [request |-> q, session |-> {"s"}, global |-> {}]]] :
        r \in {"a", "b", "c"}, g \in [{"b", "c"} -> SUBSET {"s"}], u \in SUBSET {"a", "b", "c"},
        l \in Locals, q \in SUBSET {"s"}}
    \cup
    {[of |-> "scope", requester |-> "c",
      world |-> [parent |-> ScopeParent, grants |-> [b |-> {}, c |-> {}], unavailable |-> {}, local |-> l,
                 shared |-> [request |-> {}, session |-> {}, global |-> g]]] :
        l \in Locals, g \in SUBSET {"s"}}
PluginPaths == {<<"p">>, <<"q">>, <<"p", "p">>, <<"p", "q">>, <<"p", "p", "p">>, <<"p", "p", "q">>,
          <<"p", "p", "p", "p">>}
AskedDocs == {[plugin |-> p, kind |-> k] : p \in PluginPaths, k \in {"source", "human"}}
ContextSamples ==
    {[of |-> "context", loaded |-> l, files |-> f] :
        l \in SUBSET PluginPaths, f \in {{x, y} : x, y \in AskedDocs}}
InputSamples ==
    {[of |-> "inputs", deps |-> d, local |-> l] : d \in [1..3 -> SUBSET (1..3)], l \in SUBSET (1..3)}
FileEntry(n, lines, source) == [kind |-> "file", name |-> n, lines |-> lines, source |-> source, pruned |-> FALSE]
DirEntry(n, pruned) == [kind |-> "dir", name |-> n, lines |-> 0, source |-> FALSE, pruned |-> pruned]
SearchSamples ==
    UNION {{[of |-> "search", cap |-> cap,
        tree |-> <<top, <<FileEntry("g", m, TRUE), DirEntry(3, FALSE)>>, <<FileEntry("h", k, TRUE)>>, <<FileEntry("o", 2, TRUE)>> >>] :
            top \in SetToSeqs({FileEntry("f", l, s), DirEntry(2, FALSE), DirEntry(4, p)})} :
        l \in 0..2, m \in 0..2, k \in 0..2, s \in BOOLEAN, p \in BOOLEAN, cap \in 1..3}

SampleInit ==
    \/ sample \in NetSamples \/ sample \in GateSamples \/ sample \in RouterSamples
    \/ sample \in EditSamples \/ sample \in PolicySamples \/ sample \in TextSamples
    \/ sample \in TomlSamples \/ sample \in StaleSamples
    \/ sample \in ScopeSamples \/ sample \in ContextSamples \/ sample \in InputSamples
    \/ sample \in SearchSamples
=============================================================================
