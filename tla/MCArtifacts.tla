----------------------------- MODULE MCArtifacts -----------------------------
(***************************************************************************)
(* Small instances of what is on disk: the artifacts and their builders,   *)
(* the plugin workspace and its resolver, and the files that are replaced  *)
(* by a rename; and the algorithms of the host on the samples of           *)
(* MCSamples.  A behaviour drives one of them; the others rest in an       *)
(* initial state.                                                          *)
(***************************************************************************)
EXTENDS ArtifactBuild, PackageResolver, DurableFile, MCSamples, TLC

VARIABLE driven   \* the component this behaviour drives

artifactVars == <<buildVars, resolverVars, fileVars, sample, driven>>

\* Names a, b and a-b: the last collides with b below a.
A == <<"a">>
B == <<"b">>
AB == <<"a", "b">>
MCNames == {A, B, AB}
MCMemberLists == {<<>>, << <<A>> >>, << <<A>>, <<A, B>> >>, << <<A, B>>, <<A>> >>,
                  << <<AB>>, <<A>> >>, << <<A>>, <<A>> >>}
Kid(parts, required, grants) == [up |-> FALSE, parts |-> parts, required |-> required, grants |-> grants]
MCChildLists == {<<>>, <<Kid(<<B>>, TRUE, {"s"})>>,
                 <<Kid(<<B>>, FALSE, {}), Kid(<<A>>, TRUE, {})>>,
                 <<Kid(<<B>>, TRUE, {}), Kid(<<B>>, FALSE, {"s"})>>,
                 <<Kid(<<B, A>>, TRUE, {})>>, <<[up |-> TRUE, parts |-> <<A>>, required |-> TRUE, grants |-> {}]>>}

\* A resolver that rests has refused a workspace without members.
ResolverRests ==
    /\ manifest = [p \in {} |-> <<>>] /\ toVisit = <<>> /\ outcome = "InvalidWorkspace"
    /\ frames = <<>> /\ plugins = [p \in {} |-> NoParent] /\ children = <<>> /\ order = <<>>

ArtifactsInit ==
    /\ driven \in {"build", "resolve", "replace", "sample"}
    /\ BuildInit /\ (driven = "build" \/ buildIndex = Nil)
    /\ IF driven = "resolve" THEN ResolveInit ELSE ResolverRests
    /\ DurableInit /\ (driven = "replace" \/ kind = "journal")
    /\ IF driven = "sample" THEN SampleInit ELSE sample = [of |-> "none"]

ArtifactsNext ==
    /\ UNCHANGED driven
    /\ \/ driven = "build" /\ BuildNext /\ UNCHANGED <<resolverVars, fileVars, sample>>
       \/ driven = "resolve" /\ ResolveNext /\ UNCHANGED <<buildVars, fileVars, sample>>
       \/ driven = "replace" /\ DurableNext /\ UNCHANGED <<buildVars, resolverVars, sample>>
       \/ driven = "sample" /\ Again /\ UNCHANGED <<buildVars, resolverVars, fileVars>>

ArtifactsSpec == ArtifactsInit /\ [][ArtifactsNext]_artifactVars

MCSymmetry == Permutations(Proc)

\* The algorithms without state of their own agree with their reference
\* definitions on the samples: nets, gates, routers and graph levels; the
\* services a plugin may inject, the subtree a change reloads, what a
\* fingerprint covers, and the tools' searches.
AlgorithmsSound == NetsSound /\ AnswersSound
=============================================================================
