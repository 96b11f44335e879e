------------------------------- MODULE DiffWalk -------------------------------
(***************************************************************************)
(* The walks of pkg/diff as the code runs them, over a pair of objects     *)
(* that is edited one node at a time.  ObjectDiff states what Strip,       *)
(* Extract and Compare return; here stripValue, extractValue and           *)
(* compareValue recurse as in the source, and the two must agree.          *)
(*                                                                         *)
(* A walk is a function: what the call at each path of the object returns, *)
(* given by what the calls for the children return.  stripValue and        *)
(* extractValue return sets of <<path, node>> pairs; {} is keep = false.   *)
(***************************************************************************)
EXTENDS ObjectDiff

CONSTANTS
    Paths,           \* the paths an object may have, besides the root
    Nodes,           \* the nodes it may have there
    PatternSets      \* the lists of patterns to strip and extract by

ASSUME PathsAreBelowRoot == \A p \in Paths : IsPath(p) /\ p # <<>>

ASSUME PatternsArePaths == \A pattern \in UNION PatternSets : IsPath(pattern)

VARIABLES old, new   \* the two objects of an update

vars == <<old, new>>

Init == old = EmptyObject /\ new = EmptyObject

-----------------------------------------------------------------------------
(* The update's author (external): any JSON objects                        *)

\* A list is extended at its end, a map anywhere, a scalar nowhere.
Placeable(object, p) ==
    /\ IsChild(object, p)
    /\ p[Len(p)][1] = "index" /\ p[Len(p)][2] > 0 =>
          Append(Parent(p), Index(p[Len(p)][2] - 1)) \in DOMAIN object

Without(object, p) == [q \in {r \in DOMAIN object : ~IsPrefixOf(p, r)} |-> object[q]]

Put(object, p, node) ==
    [q \in DOMAIN Without(object, p) \cup {p} |-> IF q = p THEN node ELSE object[q]]

EditOld(p, node) == Placeable(old, p) /\ old' = Put(old, p, node) /\ UNCHANGED new
EditNew(p, node) == Placeable(new, p) /\ new' = Put(new, p, node) /\ UNCHANGED old

Next == \E p \in Paths, node \in Nodes : EditOld(p, node) \/ EditNew(p, node)

Spec == Init /\ [][Next]_vars

-----------------------------------------------------------------------------
(* The walks                                                               *)

Children(object, p) == {q \in DOMAIN object : Len(q) = Len(p) + 1 /\ Parent(q) = p}

\* An element of a list that is not kept is a nil in the result.
OrNil(q, result) == IF result = {} THEN {<<q, Null>>} ELSE result

Copy(object, p) == {<<q, object[q]>> : q \in {r \in DOMAIN object : IsPrefixOf(p, r)}}

\* One call of stripValue, for a value that is there; below has the calls for its
\* children.
stripNode(object, patterns, below, p) ==
    LET inMap == UNION {below[q] : q \in Children(object, p)}
        inList == UNION {OrNil(q, below[q]) : q \in Children(object, p)}
    IN  IF matchesAnyPath(p, patterns) THEN {}
        ELSE IF object[p] = MapNode
        THEN IF inMap = {} THEN {} ELSE {<<p, MapNode>>} \cup inMap
        ELSE IF object[p] = ListNode THEN {<<p, ListNode>>} \cup inList
        ELSE Copy(object, p)

stripValue(object, patterns) ==
    LET strip[p \in DOMAIN object] == stripNode(object, patterns, strip, p) IN strip

extractNode(object, patterns, below, p) ==
    LET inMap == UNION {below[q] : q \in Children(object, p)}
        inList == UNION {OrNil(q, below[q]) : q \in Children(object, p)}
    IN  IF matchesAnyPath(p, patterns) THEN Copy(object, p)
        ELSE IF ~hasAnyDescendantMatch(p, patterns) THEN {}
        ELSE IF object[p] = MapNode
        THEN IF inMap = {} THEN {} ELSE {<<p, MapNode>>} \cup inMap
        ELSE IF object[p] = ListNode
        THEN IF inMap = {} THEN {} ELSE {<<p, ListNode>>} \cup inList
        ELSE Copy(object, p)

extractValue(object, patterns) ==
    LET extract[p \in DOMAIN object] == extractNode(object, patterns, extract, p) IN extract

\* A child that only one of the two has is reported, not entered.
compareNode(left, right, below, p) ==
    LET children == Children(left, p) \cup Children(right, p)
        Child(q) == IF q \in DOMAIN left \cap DOMAIN right THEN below[q] ELSE {q}
    IN  IF left[p] # right[p] THEN {p}
        ELSE IF left[p] \in Containers THEN UNION {Child(q) : q \in children}
        ELSE {}

compareValue(left, right) ==
    LET compare[p \in DOMAIN left \cap DOMAIN right] == compareNode(left, right, compare, p)
    IN  compare

-----------------------------------------------------------------------------
(* Properties                                                              *)

\* The result of a walk is an object; what the code does not keep is an empty map.
AsObject(pairs) == IF pairs = {} THEN Copy(EmptyObject, <<>>) ELSE pairs

\* The laws of one object are asked of old, while new is not edited yet.
OneObject == new = EmptyObject

\* The walks of strip.go, extract.go and diff.go return what ObjectDiff, and with
\* it every verdict of Validator, says they return.
WalksAgree ==
    /\ OneObject => \A patterns \in PatternSets :
          /\ AsObject(stripValue(old, patterns)[<<>>]) = Copy(Strip(old, patterns), <<>>)
          /\ AsObject(extractValue(old, patterns)[<<>>]) = Copy(Extract(old, patterns), <<>>)
    /\ compareValue(old, new)[<<>>] = Changed(old, new)

\* The old object with what lies at the given paths taken from the new one.
Patched(paths) ==
    LET at == {p \in DOMAIN old \cup DOMAIN new : \E q \in paths : IsPrefixOf(q, p)}
    IN  [p \in (DOMAIN old \ at) \cup (DOMAIN new \cap at) |->
            IF p \in at THEN new[p] ELSE old[p]]

\* ChangedPaths misses nothing: whoever applies the change at the reported paths
\* has the new object, and leaving any of them out gives another one.
DiffIsComplete ==
    /\ Patched(Changed(old, new)) = new
    /\ \A p \in Changed(old, new) : Patched(Changed(old, new) \ {p}) # new

\* Stripping the implicit exclusions and then a rule's is stripping both at once,
\* in either order: no element of a list moves to an index that was not its own.
StripsCompose ==
    OneObject => \A first, second \in PatternSets :
        Strip(Strip(old, first), second) = Strip(old, first \cup second)

=============================================================================
