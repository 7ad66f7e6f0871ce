--------------------------- MODULE PackageResolver ---------------------------
(***************************************************************************)
(* Phase A of loading (plugin/package.rs): from the members of the plugin  *)
(* workspace the resolver walks the declared children, depth first, into   *)
(* the plugin graph: the plugins with their parents and grants, the child  *)
(* edges, and the order in which everything is loaded.                     *)
(*                                                                         *)
(* A directory name is a sequence of words, which a dash joins in the      *)
(* directory and an underscore in the crate name; a plugin path is a       *)
(* sequence of names.  A manifest is sound when its own checks pass        *)
(* (metadata, path, crate name, scaffold, docs contract).                  *)
(***************************************************************************)
EXTENDS Integers, Sequences, FiniteSets, SequencesExt

CONSTANTS Names,        \* directory names
          MemberLists,  \* member lists the workspace manifest may have
          ChildLists,   \* children a manifest may declare: sequences of
                        \* [up, parts, required, grants]
          MaxDepth      \* bound: length of a plugin path

Child == [up : BOOLEAN, parts : Seq(Names), required : BOOLEAN, grants : SUBSET STRING]

ASSUME ResolverAssumption ==
    /\ MaxDepth \in Nat \ {0} /\ Names \subseteq Seq(STRING)
    /\ MemberLists \subseteq Seq(Seq(Names)) /\ ChildLists \subseteq Seq(Child)

Roots == [1..1 -> Names]
PluginPath == UNION {[1..d -> Names] : d \in 1..MaxDepth}
NoParent == <<>>

VARIABLES
    manifest,   \* plugin path -> [sound, children]; the directories that exist
    toVisit,    \* members left to visit
    frames,     \* visit_stack: [path, children left]
    plugins,    \* plugin path -> [parent, required, grants]
    children,   \* child edges in the order they were declared
    order,      \* topo_order
    outcome     \* "visiting", "ok" or the error that ended it

resolverVars == <<manifest, toVisit, frames, plugins, children, order, outcome>>
graph == <<plugins, children, order>>

\* No member: InvalidWorkspace.
ResolveInit ==
    /\ \E roots \in SUBSET Roots, names \in SUBSET Names, child \in ChildLists, bad \in PluginPath \cup {NoParent} :
         manifest = [p \in {q \in PluginPath : <<q[1]>> \in roots /\ \A i \in 2..Len(q) : q[i] \in names} |->
                        [sound |-> p # bad, children |-> IF Len(p) < MaxDepth THEN child ELSE <<>>]]
    /\ toVisit \in MemberLists
    /\ frames = <<>> /\ plugins = [p \in {} |-> NoParent] /\ children = <<>> /\ order = <<>>
    /\ outcome = IF toVisit = <<>> THEN "InvalidWorkspace" ELSE "visiting"

Fails(error) == outcome' = error /\ UNCHANGED <<toVisit, frames, graph>>

\* visit_plugin for a path that parent declares, once the caller's own
\* bookkeeping has left rest, stack and edges.  The directory comparison that
\* reports DuplicatePluginPath never differs: the path is read off the directory.
Visit(path, parent, required, grants, rest, stack, edges) ==
    IF path \notin DOMAIN manifest THEN Fails("ChildNotFound")
    ELSE IF ~ manifest[path].sound THEN Fails("BadManifest")
    ELSE IF /\ parent # NoParent /\ path \in DOMAIN plugins
            /\ plugins[path].parent \notin {NoParent, parent}
    THEN Fails("DuplicatePluginPath")
    ELSE IF \E i \in DOMAIN stack : stack[i].path = path THEN Fails("CycleDetected")
    ELSE /\ toVisit' = rest /\ children' = edges
         /\ IF path \in DOMAIN plugins
            THEN frames' = stack /\ UNCHANGED <<plugins, order>>
            ELSE /\ frames' = Append(stack, [path |-> path, left |-> manifest[path].children])
                 /\ order' = Append(order, path)
                 /\ plugins' = [p \in DOMAIN plugins \cup {path} |->
                                   IF p = path
                                   THEN [parent |-> parent, required |-> required, grants |-> grants]
                                   ELSE plugins[p]]
         /\ UNCHANGED outcome

\* A member is a required root without grants.
VisitMember ==
    /\ outcome = "visiting" /\ frames = <<>> /\ toVisit # <<>>
    /\ Visit(Head(toVisit), NoParent, TRUE, {}, Tail(toVisit), frames, children)
    /\ UNCHANGED manifest

\* resolve_child_dir: no parent component, exactly one name.
DirectChild(child) == ~ child.up /\ Len(child.parts) = 1

VisitChild ==
    /\ outcome = "visiting" /\ frames # <<>> /\ Last(frames).left # <<>>
    /\ LET top   == Last(frames)
           child == Head(top.left)
           path  == top.path \o child.parts
           stack == Append(Front(frames), [top EXCEPT !.left = Tail(@)])
           edge  == [from |-> top.path, to |-> path, required |-> child.required,
                     grants |-> child.grants]
       IN  IF ~ DirectChild(child) THEN Fails("InvalidChildSource")
           ELSE Visit(path, top.path, child.required, child.grants, toVisit, stack,
                      Append(children, edge))
    /\ UNCHANGED manifest

VisitDone ==
    /\ outcome = "visiting" /\ frames # <<>> /\ Last(frames).left = <<>>
    /\ frames' = Front(frames)
    /\ UNCHANGED <<manifest, toVisit, graph, outcome>>

\* Mutant: names that differ as paths are taken to differ as crates.
CrateNameOfPath(path) == path

\* normalize_crate_name: slashes and dashes become underscores.
CrateName(path) == FlattenSeq(path)

\* The crate names are compared at the end of the walk.
Finish ==
    /\ outcome = "visiting" /\ frames = <<>> /\ toVisit = <<>>
    /\ outcome' = IF \E p, q \in DOMAIN plugins : p # q /\ CrateName(p) = CrateName(q)
                  THEN "Collision" ELSE "ok"
    /\ UNCHANGED <<manifest, toVisit, frames, graph>>

ResolveNext == VisitMember \/ VisitChild \/ VisitDone \/ Finish

ResolverSpec == ResolveInit /\ [][ResolveNext]_resolverVars

-----------------------------------------------------------------------------
Position(p) == CHOOSE i \in DOMAIN order : order[i] = p

\* The graph that is loaded is a forest in loading order: every plugin is there
\* once, every declared child is a plugin one level below its parent, a plugin
\* comes after the parent it has, and no two plugins build the same crate.
ResolvedForest ==
    outcome = "ok" =>
        /\ Len(order) = Cardinality(DOMAIN plugins) /\ Range(order) = DOMAIN plugins
        /\ \A i \in DOMAIN children :
              /\ children[i].to \in DOMAIN plugins
              /\ Len(children[i].to) = Len(children[i].from) + 1
        /\ \A p \in DOMAIN plugins : plugins[p].parent # NoParent =>
              /\ plugins[p].parent = Front(p)
              /\ Position(plugins[p].parent) < Position(p)
        /\ \A p, q \in DOMAIN plugins : FlattenSeq(p) = FlattenSeq(q) => p = q

=============================================================================
