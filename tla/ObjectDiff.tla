------------------------------ MODULE ObjectDiff ------------------------------
(***************************************************************************)
(* Package pkg/diff: Strip, Extract and Compare on decoded JSON objects,   *)
(* and the path patterns they take.                                        *)
(*                                                                         *)
(* An object is a function from the set of its paths to nodes.  A path is  *)
(* a sequence of segments; a node is MapNode, ListNode, Null or a scalar.  *)
(* The set of paths is closed under prefixes, <<>> is the root, the        *)
(* children of a map are field segments, those of a list its indexes.      *)
(***************************************************************************)
EXTENDS Naturals, Sequences

\* The paths whose text does not read back, since a key has an apostrophe, each with
\* what ParsePath reads instead: Malformed, or another path (see DiffReport).
CONSTANT Misread

Field(key) == <<"field", key>>
Index(n) == <<"index", n>>
AnyField == <<"field*">>         \* the pattern segment *
AnyIndex == <<"index*">>         \* the pattern segment [*]
ListSegments == {"index", "index*"} \* the kinds of those that name elements
Malformed == <<<<"malformed">>>> \* what ParsePath makes of a text it rejects

MapNode == "{}"
ListNode == "[]"
Null == "null"
Containers == {MapNode, ListNode}

IsPrefixOf(p, q) == Len(p) <= Len(q) /\ SubSeq(q, 1, Len(p)) = p
Parent(p) == SubSeq(p, 1, Len(p) - 1)
StrictPrefixes(p) == {SubSeq(p, 1, n) : n \in 0 .. Len(p) - 1}
Prefixes(p) == StrictPrefixes(p) \cup {p}

\* A path is a sequence of whatever segments it has.
IsPath(p) == p \in Seq({p[i] : i \in DOMAIN p})

\* The children of a map are fields, those of a list indexes, a scalar has none.
IsChild(object, p) ==
    /\ Parent(p) \in DOMAIN object
    /\ \/ object[Parent(p)] = MapNode /\ p[Len(p)][1] = "field"
       \/ object[Parent(p)] = ListNode /\ p[Len(p)][1] = "index"

\* What decodeObject returns: a map, and the nodes below it.
IsObject(object) ==
    /\ <<>> \in DOMAIN object /\ object[<<>>] = MapNode
    /\ \A p \in DOMAIN object : IsPath(p) /\ (p = <<>> \/ IsChild(object, p))

EmptyObject == [p \in {<<>>} |-> MapNode]

-----------------------------------------------------------------------------
(* Patterns                                                                *)

segmentsMatch(pattern, segment) ==
    \/ pattern = AnyField /\ segment[1] = "field"
    \/ pattern = AnyIndex /\ segment[1] = "index"
    \/ pattern = segment

\* A pattern matches paths of its own length only.
matchesPath(pattern, path) ==
    /\ Len(pattern) = Len(path)
    /\ \A i \in DOMAIN path : segmentsMatch(pattern[i], path[i])

hasDescendantMatch(pattern, prefix) ==
    /\ Len(prefix) <= Len(pattern)
    /\ \A i \in DOMAIN prefix : segmentsMatch(pattern[i], prefix[i])

matchesAnyPath(path, patterns) == \E pattern \in patterns : matchesPath(pattern, path)

hasAnyDescendantMatch(path, patterns) ==
    \E pattern \in patterns : hasDescendantMatch(pattern, path)

\* The path is matched, or lies below a path that is.
Covered(path, patterns) == \E r \in Prefixes(path) : matchesAnyPath(r, patterns)

\* What ParsePath reads of the text that RenderPath writes of a path.
ReadBack(path) == IF path \in DOMAIN Misread THEN Misread[path] ELSE path

\* MatchAny is given the text of a path and parses it.
MatchAny(path, patterns) ==
    ReadBack(path) # Malformed /\ matchesAnyPath(ReadBack(path), patterns)

-----------------------------------------------------------------------------
(* Strip and Extract                                                       *)

\* Mutant: a list is closed up to what is left in it, and so are its indexes.
PruneWithoutHoles(object, leaves) ==
    [p \in {q \in DOMAIN object : \E r \in leaves : IsPrefixOf(q, r)} \cup {<<>>} |-> object[p]]

\* The object without the paths that lead to no leaf.  A list keeps its length:
\* an element left out of it is null.  The root is a map whatever happens.
Prune(object, leaves) ==
    LET kept == {p \in DOMAIN object : \E q \in leaves : IsPrefixOf(p, q)}
        holes == {p \in DOMAIN object \ (kept \cup {<<>>}) :
                     Parent(p) \in kept /\ object[Parent(p)] = ListNode}
    IN  [p \in kept \cup holes \cup {<<>>} |-> IF p \in holes THEN Null ELSE object[p]]

\* Mutant: what is excluded goes, what it leaves empty stays.
StripLeavingShells(object, patterns) ==
    Prune(object, {q \in DOMAIN object :
                      ~Covered(q, patterns) /\ \E p \in DOMAIN object : object[q] # MapNode
                          \/ (p # q /\ IsPrefixOf(q, p) /\ Covered(p, patterns))})

\* Maps survive only for what is left in them; lists and scalars for themselves.
Strip(object, patterns) ==
    Prune(object, {q \in DOMAIN object : object[q] # MapNode /\ ~Covered(q, patterns)})

\* What is matched survives whole; a scalar also where a pattern goes deeper.
Extract(object, patterns) ==
    Prune(object, {q \in DOMAIN object :
                      \/ Covered(q, patterns)
                      \/ object[q] \notin Containers /\ hasAnyDescendantMatch(q, patterns)})

-----------------------------------------------------------------------------
(* Compare                                                                 *)

DifferAt(old, new, p) ==
    \/ p \in DOMAIN old /\ p \notin DOMAIN new
    \/ p \in DOMAIN new /\ p \notin DOMAIN old
    \/ p \in DOMAIN old /\ p \in DOMAIN new /\ old[p] # new[p]

\* Mutant: the walk follows the keys of the old object.
ChangedInOld(old, new) ==
    {p \in DOMAIN old : DifferAt(old, new, p) /\ \A r \in StrictPrefixes(p) : ~DifferAt(old, new, r)}

\* Mutant: a difference in a list is its first one.
ChangedFirstInList(old, new) ==
    {p \in DOMAIN old \cup DOMAIN new :
        /\ DifferAt(old, new, p)
        /\ \A r \in StrictPrefixes(p) : ~DifferAt(old, new, r)
        /\ p = <<>> \/ p[Len(p)][1] # "index" \/ p[Len(p)][2] = 0
               \/ ~DifferAt(old, new, Append(Parent(p), Index(p[Len(p)][2] - 1)))}

\* ChangedPaths: the walk reports a difference and does not look below it.
Changed(old, new) ==
    {p \in DOMAIN old \cup DOMAIN new :
        DifferAt(old, new, p) /\ \A r \in StrictPrefixes(p) : ~DifferAt(old, new, r)}

=============================================================================
