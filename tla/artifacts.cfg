SPECIFICATION ArtifactsSpec
CONSTANTS
    Nil = Nil
    Proc = {i1, i2, i3}
    Crates = {p1, p2, p3}
    Shipped = {p1}
    MaxEdits = 2
    MaxCrashes = 1
    Names <- MCNames
    MemberLists <- MCMemberLists
    ChildLists <- MCChildLists
    MaxDepth = 3
    Writer = {1, 2}
    Values = {v1, v2}
    Original = v0
    Kinds = {"journal", "manifest", "heal", "save"}
    MaxInode = 4
SYMMETRY MCSymmetry
CHECK_DEADLOCK FALSE
INVARIANTS  ResolvedForest AlgorithmsSound EditsSound
PROPERTIES  ReplacesAtomically
