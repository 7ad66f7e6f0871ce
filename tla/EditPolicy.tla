------------------------------ MODULE EditPolicy ------------------------------
(***************************************************************************)
(* What an automatic edit may touch and what it does to a file, as pure    *)
(* operators: PluginIterationPolicy, the containment of paths and          *)
(* apply_operation of kernel/plugin_iteration.rs, IterationPolicy of       *)
(* kernel/policy.rs, the patches of kernel/auto_update.rs.                 *)
(*                                                                         *)
(* A path is a sequence of segments, a file a sequence of tokens, a TOML   *)
(* document a set of key paths of which the interior ones are its tables.  *)
(***************************************************************************)
EXTENDS Sample, Integers, FiniteSets, Sequences, SequencesExt

Surface == {"src", "tests", "docs"}
ManifestFile == "Cargo.toml"

------------------------------------------------------------------------------
(* kernel/plugin_iteration.rs: which path an edit may name *)

\* normalize_rel_path refuses an absolute path and any "..", and drops ".".
RelAllowed(p) == ~ p.absolute /\ ~ Contains(p.segs, "..")
NormalRel(p) ==
    LET kept[i \in 0..Len(p.segs)] ==
            IF i = 0 THEN <<>>
            ELSE IF p.segs[i] = "." THEN kept[i - 1] ELSE Append(kept[i - 1], p.segs[i])
    IN  kept[Len(p.segs)]

\* Default::default of the policy.
ForbiddenPrefixes ==
    {<<ManifestFile>>, <<"crates", "cordis-runtime">>, <<"crates", "cordis-plugin-sdk">>,
     <<"crates", "cordis-plugin-host">>, <<"config">>, <<".git">>, <<"target">>,
     <<"artifacts">>}

\* plugin_subtree_roots: the roots that lie in no other root.
SubtreeRoots(roots) == {r \in roots : ~ \E o \in roots : IsStrictPrefix(o, r)}

\* plugin_subtree_surface_kind
SurfaceKind(path, root) ==
    LET rel   == SubSeq(path, Len(root) + 1, Len(path))
        first == {i \in DOMAIN rel : rel[i] \in Surface /\ \A j \in 1..(i - 1) : rel[j] \notin Surface}
    IN  IF ~ IsStrictPrefix(root, path) THEN "none"
        ELSE IF Last(rel) = ManifestFile /\ \A j \in 1..(Len(rel) - 1) : rel[j] \notin Surface
        THEN "manifest"
        ELSE IF first = {} THEN "none"
        ELSE LET i == CHOOSE i \in first : TRUE
             IN  IF rel[i] # "docs" THEN IF i < Len(rel) THEN "other" ELSE "none"
                 ELSE IF i + 1 >= Len(rel) THEN "none"
                 ELSE IF rel[i + 1] = "human" THEN "other"
                 ELSE IF rel[i + 1] = "agent" THEN "generated" ELSE "none"

\* validate_path: the manifest of the workspace always, nothing forbidden,
\* and otherwise a writable place of the one subtree that holds the path.
ValidatePath(roots, p) ==
    /\ RelAllowed(p)
    /\ LET n == NormalRel(p)
       IN  \/ n = <<"plugins", ManifestFile>>
           \/ /\ ~ \E f \in ForbiddenPrefixes : IsPrefix(f, n)
              /\ \E r \in SubtreeRoots(roots) : SurfaceKind(n, r) \in {"manifest", "other"}

------------------------------------------------------------------------------
(* kernel/plugin_iteration.rs: where the path leads *)

\* External: the file system.  fs has existing directories, rooted at "ws"
\* or "out", and at most one symbolic link.
Physical(fs, abs) ==
    IF fs.link # <<>> /\ IsPrefix(fs.link, abs)
    THEN fs.target \o SubSeq(abs, Len(fs.link) + 1, Len(abs)) ELSE abs
Exists(fs, abs) == Physical(fs, abs) \in fs.dirs

Cut(abs, k) == SubSeq(abs, 1, k)

\* resolve_under_workspace climbs to the first ancestor that exists; a
\* symbolic link met on the way, which cannot be followed, is refused.
Existing(fs, abs) == {k \in 0..Len(abs) : Exists(fs, Cut(abs, k))}
Depth(fs, abs) == CHOOSE k \in Existing(fs, abs) : \A j \in Existing(fs, abs) : j <= k

\* Mutant: a link that cannot be followed counts as a file to be created.
ResolvesAnything(fs, abs) == Existing(fs, abs) # {}

Resolvable(fs, abs) ==
    /\ Existing(fs, abs) # {}
    /\ \A k \in (Depth(fs, abs) + 1)..Len(abs) : Cut(abs, k) # fs.link
Resolved(fs, abs) ==
    Physical(fs, Cut(abs, Depth(fs, abs))) \o SubSeq(abs, Depth(fs, abs) + 1, Len(abs))

\* ensure_under_workspace, and ensure_restore_contained of a rollback.
UnderWorkspace(fs, abs) == Resolvable(fs, abs) /\ IsPrefix(<<"ws">>, Resolved(fs, abs))

\* The executor's checks of one operation, before it touches the disk.
MayWrite(roots, fs, p) ==
    /\ ValidatePath(roots, p)
    /\ UnderWorkspace(fs, <<"ws">> \o NormalRel(p))

\* load_journal: a backup whose path is odd or leads outside fails the whole
\* journal, before anything is restored.
JournalLoads(fs, paths) ==
    \A i \in DOMAIN paths : RelAllowed(paths[i]) /\ UnderWorkspace(fs, <<"ws">> \o NormalRel(paths[i]))

------------------------------------------------------------------------------
(* kernel/plugin_iteration.rs: what an operation does to a file *)

\* A token "?" is a byte that is no text: reading the file as text replaces
\* it, and a hash of the text is not the hash of the file any more.
Lossy(bytes) == [i \in DOMAIN bytes |-> IF bytes[i] = "?" THEN "#" ELSE bytes[i]]

OccursAt(text, find, i) ==
    i + Len(find) - 1 <= Len(text) /\ SubSeq(text, i, i + Len(find) - 1) = find
Occurrences(text, find) == {i \in 1..(Len(text) + 1) : OccursAt(text, find, i)}
FirstOf(S) == CHOOSE i \in S : \A j \in S : i <= j

\* str::replacen(find, new, 1)
ReplaceFirst(text, find, new) ==
    LET i == FirstOf(Occurrences(text, find))
    IN  SubSeq(text, 1, i - 1) \o new \o SubSeq(text, i + Len(find), Len(text))

Refused == [end |-> "refused", bytes |-> <<>>]
Written(bytes) == [end |-> "write", bytes |-> bytes]

\* A TOML document: key paths, closed under prefixes.
IsTable(doc, key) == \E k \in doc : IsStrictPrefix(key, k)

\* The walk of toml_set over all segments but the last, then the last.
TomlSet(doc, key) ==
    /\ key # <<>>
    /\ \A k \in 1..(Len(key) - 1) : Cut(key, k) \in doc /\ IsTable(doc, Cut(key, k))
    /\ key \in doc

\* validate_expected_hash: the hash the edit was prepared with is that of
\* the text as it is read now.
HashOk(op, text) == op.sha = <<text>>

\* apply_operation; file is <<>> when there is none, else <<bytes>>.  The
\* structured kinds check the hash of the text first, then want a value and
\* a document that holds the key, which an empty text is not.
ApplyOperation(op, file) ==
    LET text == IF file = <<>> THEN <<>> ELSE Lossy(file[1])
    IN  CASE op.kind = "replace_exact" ->
                IF op.old = <<>> \/ Occurrences(text, op.old[1]) = {} \/ op.new = <<>> THEN Refused
                ELSE Written(ReplaceFirst(text, op.old[1], op.new[1]))
          [] op.kind = "create_file" ->
                IF file # <<>> \/ op.old # << <<>> >> THEN Refused
                ELSE Written(IF op.new = <<>> THEN <<>> ELSE op.new[1])
          [] op.kind = "delete_file" ->
                IF ~ HashOk(op, text) \/ file = <<>> THEN Refused
                ELSE [end |-> "delete", bytes |-> <<>>]
          [] op.kind \in {"json_set", "toml_set"} ->
                IF ~ HashOk(op, text) \/ op.new = <<>> \/ text = <<>> THEN Refused
                ELSE Written(op.new[1])

Larger(a, b) == IF a > b THEN a ELSE b
\* A token stands for a line here.
OptLines(o) == IF o = <<>> THEN 0 ELSE Len(o[1])

\* PluginEditOperation::diff_line_estimate
DiffEstimate(op) ==
    CASE op.kind = "replace_exact" -> Larger(1, Larger(OptLines(op.old), OptLines(op.new)))
      [] op.kind \in {"create_file", "delete_file"} -> Larger(1, OptLines(op.new))
      [] OTHER -> 1

\* PluginEditPlan::from_auto_update_plan: a text patch becomes replace_exact,
\* a structured one carries the hash of the file's bytes.
FromPatch(patch, file) ==
    IF patch.kind = "text"
    THEN [kind |-> "replace_exact", old |-> <<patch.find>>, new |-> <<patch.replace>>, sha |-> <<>>]
    ELSE [kind |-> IF patch.kind = "json_value" THEN "json_set" ELSE "toml_set",
          old |-> <<>>, new |-> <<patch.replace>>, sha |-> file]

------------------------------------------------------------------------------
(* kernel/auto_update.rs: patches *)

\* FilePatch::validate_shape
ShapeOk(patch) == patch.kind = "text" => patch.find # <<>>

\* str::matches counts from the left and never twice the same token:
\* Counted(text, find)[i] is the number of matches from position i on.
Counted(text, find) ==
    LET count[i \in 1..(Len(text) + Len(find) + 1)] ==
            IF i > Len(text) THEN 0
            ELSE IF OccursAt(text, find, i) THEN 1 + count[i + Len(find)]
            ELSE count[i + 1]
    IN  count[1]

\* apply_text_patch refuses no match and more than one.
TextPatchApplies(text, find) == Counted(text, find) = 1

\* replace_toml_dotted_value: the loop with its lookahead.
ReplaceDotted(doc, key) ==
    LET found[k \in 0..Len(key)] ==
            k = 0 \/ (found[k - 1] /\ IsTable(doc, Cut(key, k - 1)) /\ Cut(key, k) \in doc)
    IN  key # <<>> /\ found[Len(key)]

------------------------------------------------------------------------------
(* kernel/policy.rs *)

\* normalize_path_lexically: ".." takes the last segment away, unless there
\* is none to take.
Lexically(acc, s) ==
    IF s = "." THEN acc
    ELSE IF s # ".." THEN Append(acc, s)
    ELSE IF acc = <<>> \/ Last(acc) = ".." THEN Append(acc, "..") ELSE Front(acc)
NormalLexical(segs) ==
    LET stack[i \in 0..Len(segs)] ==
            IF i = 0 THEN <<>> ELSE Lexically(stack[i - 1], segs[i])
    IN  stack[Len(segs)]

EscapesAboveRoot(n) == Contains(n, "..")

Allowlist == {<<"crates">>, <<"docs">>, <<"tests">>}
SensitivePrefixes == {<<"crates", "core">>, <<"crates", "plugin">>, <<"crates", "kernel">>}

PathsAllowed(paths) ==
    \A p \in paths : LET n == NormalLexical(p)
                     IN  ~ EscapesAboveRoot(n) /\ \E a \in Allowlist : IsPrefix(a, n)
TouchesSensitive(paths) ==
    \E p \in paths : LET n == NormalLexical(p)
                     IN  ~ EscapesAboveRoot(n) /\ \E s \in SensitivePrefixes : IsPrefix(s, n)
ManualGatePassed(paths, approved) == TouchesSensitive(paths) => approved

------------------------------------------------------------------------------
(* Properties *)

\* The samples an operator of this module is meant for.  An operation that
\* carries a hash carries that of the content seen when it was prepared, and
\* that content does not have the character that stands for a byte that is no
\* text.
Tokens == Seq(STRING)
FileState(f) == f \in Seq(Tokens) /\ Len(f) <= 1
EditInputs ==
    /\ sample.of = "edit" =>
         /\ sample.path \in [absolute : BOOLEAN, segs : Tokens] /\ sample.roots \subseteq Tokens
         /\ sample.fs \in [dirs : SUBSET Tokens, link : Tokens, target : Tokens]
    /\ sample.of = "policy" => sample.segs \in Tokens
    /\ sample.of = "text" => sample.text \in Tokens /\ sample.find \in Tokens
    /\ sample.of = "toml" => sample.doc \subseteq Tokens /\ sample.key \in Tokens
    /\ sample.of = "stale" =>
         /\ FileState(sample.now) /\ FileState(sample.seen)
         /\ sample.op.kind \in {"replace_exact", "create_file", "delete_file", "json_set", "toml_set"}
         /\ FileState(sample.op.old) /\ FileState(sample.op.new)
         /\ sample.op.kind \in {"delete_file", "json_set", "toml_set"} =>
              sample.op.sha = sample.seen /\ \A bytes \in Range(sample.seen) : ~ Contains(bytes, "#")

\* Where a walk along the segments ends up, or "above" once it has left the
\* root: what the kernel would do with the same path.
WalkTo(w, s) ==
    IF s = "." THEN w
    ELSE IF s # ".." THEN [w EXCEPT !.dir = Append(@, s)]
    ELSE IF w.dir = <<>> THEN [w EXCEPT !.above = TRUE] ELSE [w EXCEPT !.dir = Front(@)]
Walk(segs) ==
    LET walked[i \in 0..Len(segs)] ==
            IF i = 0 THEN [above |-> FALSE, dir |-> <<>>] ELSE WalkTo(walked[i - 1], segs[i])
    IN  walked[Len(segs)]

\* Every write the executor lets through lands in the workspace, whatever
\* symbolic link is on the way, and names the workspace's manifest or a
\* place strictly inside a selected subtree that is not generated there for
\* the agent; and a journal that loads restores inside the workspace only.
EditsContained ==
    sample.of = "edit" =>
        LET n == NormalRel(sample.path)
            abs == <<"ws">> \o n
        IN  /\ MayWrite(sample.roots, sample.fs, sample.path) =>
                 /\ IsPrefix(<<"ws">>, Physical(sample.fs, abs))
                 /\ \/ n = <<"plugins", ManifestFile>>
                    \/ \E r \in sample.roots :
                         /\ IsStrictPrefix(r, n)
                         /\ \A i \in (Len(r) + 1)..(Len(n) - 1) :
                              (n[i] = "docs" /\ n[i + 1] = "agent") =>
                                \E j \in (Len(r) + 1)..(i - 1) : n[j] \in Surface
            /\ JournalLoads(sample.fs, <<sample.path>>) => IsPrefix(<<"ws">>, Physical(sample.fs, abs))

\* An iteration that runs without approval changes nothing outside the
\* allowed directories and nothing sensitive, wherever its paths lead once
\* every ".." of theirs is followed.
UnapprovedStaysOut ==
    sample.of = "policy" =>
        ((PathsAllowed({sample.segs}) /\ ManualGatePassed({sample.segs}, FALSE)) =>
            LET w == Walk(sample.segs)
            IN  /\ ~ w.above
                /\ \E a \in Allowlist : IsPrefix(a, w.dir)
                /\ ~ \E s \in SensitivePrefixes : IsPrefix(s, w.dir))

\* A text patch that is applied has one place to go to, up to matches that
\* overlap; and the two implementations of the dotted TOML key, of the
\* updater and of the iteration, accept the same keys.
PatchTargetsAgree ==
    /\ sample.of = "text" =>
         (ShapeOk([kind |-> "text", find |-> sample.find]) /\ TextPatchApplies(sample.text, sample.find) =>
            /\ Occurrences(sample.text, sample.find) # {}
            /\ \A i, j \in Occurrences(sample.text, sample.find) : j < i + Len(sample.find))
    /\ sample.of = "toml" =>
         (ReplaceDotted(sample.doc, sample.key) <=> TomlSet(sample.doc, sample.key))

\* An edit prepared from one content and applied to another is refused, or
\* it is an exact replacement whose old text is still there; a file that a
\* plan creates was not there; and neither grows a file by more lines than
\* the report of the plan counts for it.
StaleEditRefused ==
    sample.of = "stale" =>
        LET r == ApplyOperation(sample.op, sample.now)
        IN  r.end # "refused" =>
             /\ sample.op.kind \in {"replace_exact", "create_file"} =>
                  Len(r.bytes) <= DiffEstimate(sample.op) + (IF sample.now = <<>> THEN 0 ELSE Len(sample.now[1]))
             /\ (CASE sample.op.kind = "replace_exact" ->
                     /\ sample.now # <<>> \/ sample.op.old[1] = <<>>
                     /\ Len(r.bytes) - Len(sample.op.new[1]) + Len(sample.op.old[1])
                          = Len(IF sample.now = <<>> THEN <<>> ELSE sample.now[1])
                [] sample.op.kind = "create_file" -> sample.now = <<>>
                [] OTHER -> sample.now = sample.seen)

\* On inputs such as the code meets, edits stay where they may go and land on
\* what they were prepared for.
EditsSound == EditInputs /\ EditsContained /\ UnapprovedStaysOut /\ PatchTargetsAgree /\ StaleEditRefused
=============================================================================
