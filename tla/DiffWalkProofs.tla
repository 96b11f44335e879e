---------------------------- MODULE DiffWalkProofs ----------------------------
(***************************************************************************)
(* Theorems of DiffWalk: the walks of the source return what ObjectDiff    *)
(* says they return, and what that implies of the objects of an update,    *)
(* however they were edited.                                               *)
(*                                                                         *)
(* A walk is the one function that its recursion fits.  The closed form of *)
(* its result at every path is a fixed point of the recursion, and by      *)
(* induction from the deepest paths up there is no other.                  *)
(***************************************************************************)
EXTENDS DiffWalk, ObjectDiffProofs

-----------------------------------------------------------------------------
(* Paths below a path                                                      *)

LEMMA OneOfEachLength ==
    ASSUME NEW q, IsPath(q), NEW a, IsPath(a), NEW b, IsPath(b),
           IsPrefixOf(a, q), IsPrefixOf(b, q), Len(a) = Len(b)
    PROVE  a = b
<1>1. a = SubSeq(q, 1, Len(a)) /\ b = SubSeq(q, 1, Len(b))
  BY PrefixOfPath
<1>2. QED
  BY <1>1

\* The child of p that leads to q.
LEMMA ChildAbove ==
    ASSUME NEW p, IsPath(p), NEW q, IsPath(q), IsPrefixOf(p, q), p # q
    PROVE  \E c :
              /\ IsPath(c) /\ c # <<>> /\ Len(c) = Len(p) + 1 /\ Parent(c) = p
              /\ IsPrefixOf(p, c) /\ c # p /\ IsPrefixOf(c, q)
              /\ \A r : IsPath(r) /\ IsPrefixOf(p, r) /\ r # p /\ IsPrefixOf(r, q) => IsPrefixOf(c, r)
<1> DEFINE n == Len(p)
           c == SubSeq(q, 1, n + 1)
<1>1. /\ n \in Nat /\ Len(q) \in Nat /\ n \in 0 .. Len(q) /\ p = SubSeq(q, 1, n)
      /\ SubSeq(q, 1, Len(q)) = q
  BY PrefixOfPath, PathPrefixes DEF IsPrefixOf
<1>2. n # Len(q)
  BY <1>1
<1> HIDE DEF n
<1>3. /\ n + 1 \in 0 .. Len(q) /\ n \in 0 .. n + 1 /\ n + 1 # 0 /\ n + 1 # n
      /\ (n + 1) - 1 = n /\ n <= n + 1
  <2>1. n \in Nat /\ Len(q) \in Nat /\ n \in 0 .. Len(q)
    BY <1>1
  <2> HIDE DEF c
  <2>2. QED
    BY <1>2, <2>1
<1>4. /\ IsPath(c) /\ Len(c) = n + 1 /\ IsPrefixOf(c, q)
      /\ \A k \in 0 .. n + 1 : SubSeq(c, 1, k) = SubSeq(q, 1, k)
  BY <1>3, PathPrefixes, PrefixIsPath
<1>5. c # <<>> /\ c # p
  <2>1. Len(<<>>) = 0 /\ Len(p) = n
    BY DEF n
  <2>2. Len(c) # 0 /\ Len(c) # n
    BY <1>3, <1>4
  <2> HIDE DEF c
  <2>3. QED
    BY <2>1, <2>2
<1>6. SubSeq(c, 1, n) = p
  BY <1>1, <1>3, <1>4
<1>7. Parent(c) = p
  BY <1>3, <1>4, <1>6 DEF Parent
<1>8. IsPrefixOf(p, c)
  BY <1>3, <1>4, <1>6 DEF IsPrefixOf, n
<1>9. ASSUME NEW r, IsPath(r), IsPrefixOf(p, r), r # p, IsPrefixOf(r, q)
      PROVE  IsPrefixOf(c, r)
  <2>1. Len(r) \in 0 .. Len(q) /\ r = SubSeq(q, 1, Len(r)) /\ n \in 0 .. Len(r)
    BY <1>9, PrefixOfPath DEF n
  <2>2. Len(r) # n
    BY <1>1, <1>9, <2>1
  <2>3. n + 1 \in 0 .. Len(r) /\ n + 1 <= Len(r)
    <3>1. Len(r) \in Nat /\ n \in Nat /\ n \in 0 .. Len(r)
      BY <1>1, <1>9, <2>1, PathPrefixes
    <3> HIDE DEF c
    <3>2. QED
      BY <2>2, <3>1
  <2>4. SubSeq(SubSeq(q, 1, Len(r)), 1, n + 1) = SubSeq(q, 1, n + 1)
    BY <2>1, <2>3, PathPrefixes
  <2>5. SubSeq(r, 1, n + 1) = c
    BY <2>1, <2>4
  <2> HIDE DEF c
  <2>6. QED
    BY <1>4, <2>3, <2>5 DEF IsPrefixOf
<1> HIDE DEF c
<1>10. QED
  BY <1>4, <1>5, <1>7, <1>8, <1>9 DEF n

\* The child of p that leads to q, in an object that has q, and all there is of it.
LEMMA ChildOn ==
    ASSUME NEW object, IsObject(object), NEW p \in DOMAIN object,
           NEW q \in DOMAIN object, IsPrefixOf(p, q), p # q
    PROVE  \E c \in Children(object, p) :
              /\ IsPath(c) /\ IsPrefixOf(c, q)
              /\ \A r : IsPath(r) /\ IsPrefixOf(p, r) /\ r # p /\ IsPrefixOf(r, q) => IsPrefixOf(c, r)
<1>1. IsPath(p) /\ IsPath(q)
  BY DEF IsObject
<1>2. PICK c : /\ IsPath(c) /\ c # <<>> /\ Len(c) = Len(p) + 1 /\ Parent(c) = p
               /\ IsPrefixOf(p, c) /\ c # p /\ IsPrefixOf(c, q)
               /\ \A r : IsPath(r) /\ IsPrefixOf(p, r) /\ r # p /\ IsPrefixOf(r, q) => IsPrefixOf(c, r)
  BY <1>1, ChildAbove
<1>3. c \in DOMAIN object
  BY <1>2, PrefixInObject
<1>4. QED
  BY <1>2, <1>3 DEF Children

\* A child and what lies below it.
LEMMA BelowChild ==
    ASSUME NEW object, IsObject(object), NEW p \in DOMAIN object, NEW c \in Children(object, p)
    PROVE  /\ c \in DOMAIN object /\ IsPath(c) /\ c # <<>> /\ c # p /\ Parent(c) = p
           /\ IsPrefixOf(p, c) /\ IsChild(object, c)
           /\ \A q \in DOMAIN object : IsPrefixOf(c, q) => IsPrefixOf(p, q) /\ q # p
<1>1. /\ c \in DOMAIN object /\ IsPath(c) /\ IsPath(p) /\ Len(c) = Len(p) + 1 /\ Parent(c) = p
      /\ Len(p) \in Nat
  BY PathPrefixes DEF Children, IsObject
<1>2. c # <<>> /\ c # p
  <2>1. Len(c) # 0 /\ Len(c) # Len(p) /\ Len(<<>>) = 0
    BY <1>1
  <2>2. QED
    BY <2>1
<1>3. IsPrefixOf(p, c) /\ IsChild(object, c)
  BY <1>1, <1>2, ParentIsPrefix DEF IsObject
<1>4. ASSUME NEW q \in DOMAIN object, IsPrefixOf(c, q)
      PROVE  IsPrefixOf(p, q) /\ q # p
  <2>1. IsPath(q)
    BY DEF IsObject
  <2>2. IsPrefixOf(p, q)
    BY <1>1, <1>3, <1>4, <2>1, PrefixTransitive
  <2>3. Len(c) \in 0 .. Len(q)
    BY <1>1, <1>4, <2>1, PrefixOfPath
  <2>4. Len(q) # Len(p)
    BY <1>1, <2>1, <2>3, PathPrefixes
  <2>5. QED
    BY <2>2, <2>4
<1>5. QED
  BY <1>1, <1>2, <1>3, <1>4

\* Two children of p lead to different paths.
LEMMA ChildrenApart ==
    ASSUME NEW object, IsObject(object), NEW p \in DOMAIN object,
           NEW b \in Children(object, p), NEW c \in Children(object, p),
           NEW q \in DOMAIN object, IsPrefixOf(b, q), IsPrefixOf(c, q)
    PROVE  b = c
BY OneOfEachLength DEF Children, IsObject

-----------------------------------------------------------------------------
(* Objects as they are edited                                              *)

\* Paths with a bound on their lengths, all that an induction over them needs.
Shallow(D) == (\A p \in D : IsPath(p)) /\ \E n \in Nat : \A p \in D : Len(p) <= n

IsMapping(object) == object = [p \in DOMAIN object |-> object[p]]

ObjectsInv ==
    \A object \in {old, new} : IsObject(object) /\ IsMapping(object) /\ Shallow(DOMAIN object)

LEMMA EmptyIsObject == IsObject(EmptyObject) /\ IsMapping(EmptyObject) /\ Shallow(DOMAIN EmptyObject)
<1>1. DOMAIN EmptyObject = {<<>>} /\ EmptyObject[<<>>] = MapNode
  BY DEF EmptyObject
<1>2. IsPath(<<>>)
  BY DEF IsPath
<1>3. Len(<<>>) = 0 /\ 0 \in Nat /\ 0 <= 0
  OBVIOUS
<1>4. QED
  BY <1>1, <1>2, <1>3 DEF IsObject, Shallow, IsMapping, EmptyObject

LEMMA PutIsObject ==
    ASSUME NEW object, IsObject(object), NEW p, IsPath(p), p # <<>>, Placeable(object, p), NEW node
    PROVE  IsObject(Put(object, p, node))
<1> DEFINE others == {r \in DOMAIN object : ~IsPrefixOf(p, r)}
           after == Put(object, p, node)
<1>1. /\ DOMAIN after = others \cup {p}
      /\ \A q \in others \cup {p} : after[q] = (IF q = p THEN node ELSE object[q])
  BY DEF Put, Without
<1>2. p \notin others
  BY PathPrefixes
<1>3. <<>> \in others
  <2>1. Len(p) \in Nat \ {0} /\ Len(<<>>) = 0
    BY ParentIsPrefix
  <2>2. ~IsPrefixOf(p, <<>>)
    BY <2>1 DEF IsPrefixOf
  <2>3. QED
    BY <2>2 DEF IsObject
<1>4. ASSUME NEW q \in others \cup {p}, q # <<>>
      PROVE  Parent(q) \in others
  <2>1. IsPath(q) /\ IsChild(object, q)
    BY <1>4 DEF IsObject, Placeable
  <2>2. Parent(q) \in DOMAIN object /\ IsPath(Parent(q))
    BY <2>1 DEF IsChild, IsObject
  <2>3. CASE q = p
    <3>1. Len(Parent(p)) # Len(p) /\ ~(Len(p) <= Len(Parent(p)))
      BY ParentIsPrefix
    <3>2. ~IsPrefixOf(p, Parent(p))
      BY <3>1 DEF IsPrefixOf
    <3>3. QED
      BY <2>2, <2>3, <3>2
  <2>4. CASE q # p
    <3>1. ~IsPrefixOf(p, q)
      BY <2>4
    <3>2. ~IsPrefixOf(p, Parent(q))
      BY <1>4, <2>1, <2>2, <3>1, ParentIsPrefix, PrefixTransitive
    <3>3. QED
      BY <2>2, <3>2
  <2>5. QED
    BY <2>3, <2>4
<1>5. ASSUME NEW q \in others \cup {p}, q # <<>>
      PROVE  IsPath(q) /\ IsChild(after, q)
  <2>1. IsPath(q) /\ IsChild(object, q)
    BY <1>5 DEF IsObject, Placeable
  <2>2. Parent(q) \in DOMAIN after /\ after[Parent(q)] = object[Parent(q)]
    BY <1>1, <1>2, <1>4, <1>5
  <2> HIDE DEF after
  <2>3. QED
    BY <2>1, <2>2 DEF IsChild
<1>6. after[<<>>] = MapNode /\ IsPath(<<>>)
  BY <1>1, <1>2, <1>3 DEF IsObject
<1> HIDE DEF after, others
<1>7. QED
  BY <1>1, <1>3, <1>5, <1>6 DEF IsObject, after

LEMMA PutIsShallow ==
    ASSUME NEW object, IsObject(object), Shallow(DOMAIN object), NEW p, IsPath(p), NEW node
    PROVE  Shallow(DOMAIN Put(object, p, node))
<1>1. PICK n \in Nat : \A q \in DOMAIN object : Len(q) <= n
  BY DEF Shallow
<1>2. PICK m \in Nat : n <= m /\ Len(p) <= m
  <2>1. Len(p) \in Nat
    BY PathPrefixes
  <2>2. n + Len(p) \in Nat /\ n <= n + Len(p) /\ Len(p) <= n + Len(p)
    BY <2>1
  <2>3. QED
    BY <2>2
<1>3. DOMAIN Put(object, p, node) \subseteq DOMAIN object \cup {p}
  BY DEF Put, Without
<1>4. ASSUME NEW q \in DOMAIN object
      PROVE  Len(q) <= m
  <2>1. Len(q) \in Nat /\ Len(q) <= n
    BY <1>1, PathPrefixes DEF IsObject
  <2>2. QED
    BY <1>2, <2>1
<1>5. QED
  BY <1>2, <1>3, <1>4 DEF Shallow, IsObject

LEMMA PutIsMapping ==
    ASSUME NEW object, NEW p, NEW node
    PROVE  IsMapping(Put(object, p, node))
BY DEF Put, IsMapping

LEMMA AlwaysObjects == Spec => []ObjectsInv
<1>1. Init => ObjectsInv
  BY EmptyIsObject DEF Init, ObjectsInv
<1>2. ASSUME ObjectsInv, [Next]_vars
      PROVE  ObjectsInv'
  <2>1. ASSUME NEW p \in Paths, NEW node \in Nodes, EditOld(p, node)
        PROVE  ObjectsInv'
    <3>1. IsPath(p) /\ p # <<>>
      BY PathsAreBelowRoot
    <3>2. /\ IsObject(Put(old, p, node)) /\ IsMapping(Put(old, p, node))
          /\ Shallow(DOMAIN Put(old, p, node))
      BY <1>2, <2>1, <3>1, PutIsObject, PutIsShallow, PutIsMapping DEF ObjectsInv, EditOld
    <3>3. QED
      BY <1>2, <2>1, <3>2 DEF ObjectsInv, EditOld
  <2>2. ASSUME NEW p \in Paths, NEW node \in Nodes, EditNew(p, node)
        PROVE  ObjectsInv'
    <3>1. IsPath(p) /\ p # <<>>
      BY PathsAreBelowRoot
    <3>2. /\ IsObject(Put(new, p, node)) /\ IsMapping(Put(new, p, node))
          /\ Shallow(DOMAIN Put(new, p, node))
      BY <1>2, <2>2, <3>1, PutIsObject, PutIsShallow, PutIsMapping DEF ObjectsInv, EditNew
    <3>3. QED
      BY <1>2, <2>2, <3>2 DEF ObjectsInv, EditNew
  <2>3. CASE UNCHANGED vars
    BY <1>2, <2>3 DEF ObjectsInv, vars
  <2>4. QED
    BY <1>2, <2>1, <2>2, <2>3 DEF Next
<1>3. QED
  BY <1>1, <1>2, PTL DEF Spec

-----------------------------------------------------------------------------
(* Strip and Compare on edited objects                                     *)

\* Stripping by two lists of patterns, one after the other, is stripping by both
\* (StripsCompose), whatever the object and the patterns.
THEOREM StripsAreOne == Spec => []StripsCompose
<1>1. ASSUME ObjectsInv, NEW first, NEW second
      PROVE  Strip(Strip(old, first), second) = Strip(old, first \cup second)
  BY <1>1, ObjectHasPaths, StripTwice DEF ObjectsInv
<1>2. ObjectsInv => StripsCompose
  BY <1>1 DEF StripsCompose
<1>3. QED
  BY <1>2, AlwaysObjects, PTL

\* Whoever applies the change at the reported paths has the new object.
LEMMA ReportsSuffice ==
    ASSUME ObjectsInv
    PROVE  Patched(Changed(old, new)) = new
<1> DEFINE paths == Changed(old, new)
           at == {p \in DOMAIN old \cup DOMAIN new : \E q \in paths : IsPrefixOf(q, p)}
<1>1. ASSUME NEW p \in DOMAIN old \cup DOMAIN new, p \notin at
      PROVE  ~DifferAt(old, new, p)
  <2>1. IsPath(p)
    BY DEF ObjectsInv, IsObject
  <2>2. ASSUME DifferAt(old, new, p)
        PROVE  FALSE
    <3>1. PICK r \in paths : r \in Prefixes(p)
      BY <2>1, <2>2, DifferencesAreReported
    <3>2. IsPrefixOf(r, p)
      BY <2>1, <3>1, PrefixesArePrefixes
    <3>3. QED
      BY <1>1, <3>1, <3>2
  <2>3. QED
    BY <2>2
<1> HIDE DEF paths
<1>2. at \subseteq DOMAIN old \cup DOMAIN new
  OBVIOUS
<1>3. Patched(paths) = [p \in (DOMAIN old \ at) \cup (DOMAIN new \cap at) |->
                          IF p \in at THEN new[p] ELSE old[p]]
  BY DEF Patched
<1> HIDE DEF at
<1>4. (DOMAIN old \ at) \cup (DOMAIN new \cap at) = DOMAIN new
  BY <1>1, <1>2 DEF DifferAt
<1>5. \A p \in DOMAIN new : (IF p \in at THEN new[p] ELSE old[p]) = new[p]
  BY <1>1, <1>4 DEF DifferAt
<1>6. new = [p \in DOMAIN new |-> new[p]]
  BY DEF ObjectsInv, IsMapping
<1>7. QED
  BY <1>3, <1>4, <1>5, <1>6 DEF paths

\* And leaving any of them out gives another object.
LEMMA ReportsAreNeeded ==
    ASSUME ObjectsInv, NEW p \in Changed(old, new)
    PROVE  Patched(Changed(old, new) \ {p}) # new
<1> DEFINE paths == Changed(old, new) \ {p}
           at == {q \in DOMAIN old \cup DOMAIN new : \E r \in paths : IsPrefixOf(r, q)}
<1>1. /\ p \in DOMAIN old \cup DOMAIN new /\ DifferAt(old, new, p)
      /\ \A r \in StrictPrefixes(p) : ~DifferAt(old, new, r)
  BY DEF Changed
<1>2. p \notin at
  <2>1. ASSUME NEW r \in paths, IsPrefixOf(r, p)
        PROVE  FALSE
    <3>1. IsPath(p) /\ IsPath(r) /\ r # p /\ DifferAt(old, new, r)
      BY <1>1, <2>1 DEF ObjectsInv, IsObject, Changed
    <3>2. r \in StrictPrefixes(p)
      BY <2>1, <3>1, PrefixOfPath DEF Prefixes
    <3>3. QED
      BY <1>1, <3>1, <3>2
  <2>2. QED
    BY <2>1
<1>3. Patched(paths) = [q \in (DOMAIN old \ at) \cup (DOMAIN new \cap at) |->
                          IF q \in at THEN new[q] ELSE old[q]]
  BY DEF Patched
<1> HIDE DEF at, paths
<1>4. p \in DOMAIN Patched(paths) <=> p \in DOMAIN old
  BY <1>1, <1>2, <1>3
<1>5. p \in DOMAIN old => Patched(paths)[p] = old[p]
  BY <1>2, <1>3
<1>6. Patched(paths) # new
  BY <1>1, <1>4, <1>5 DEF DifferAt
<1>7. QED
  BY <1>6 DEF paths

\* What Compare reports is the change, all of it and nothing twice (DiffIsComplete),
\* for any two objects.
THEOREM DiffsAreComplete == Spec => []DiffIsComplete
<1>1. ObjectsInv => DiffIsComplete
  BY ReportsSuffice, ReportsAreNeeded DEF DiffIsComplete
<1>2. QED
  BY <1>1, AlwaysObjects, PTL

-----------------------------------------------------------------------------
(* What a walk gathers                                                     *)

\* Two functions that agree wherever they do on the children agree.
AgreeAbove(D, f, g) ==
    \A p \in D :
        (\A q \in D : Len(q) = Len(p) + 1 /\ Parent(q) = p => f[q] = g[q]) => f[p] = g[p]

LEMMA FromTheDepths ==
    ASSUME NEW D, Shallow(D), NEW f, NEW g, AgreeAbove(D, f, g)
    PROVE  \A p \in D : f[p] = g[p]
<1>1. PICK n \in Nat : \A p \in D : Len(p) <= n
  BY DEF Shallow
<1> DEFINE wrong == {p \in D : f[p] # g[p]}
           T == {n - Len(p) : p \in wrong}
<1>2. SUFFICES ASSUME wrong # {}
               PROVE  FALSE
  OBVIOUS
<1>3. \A p \in wrong : p \in D /\ Len(p) \in Nat /\ n - Len(p) \in Nat
  <2>1. \A p \in wrong : p \in D /\ Len(p) \in Nat /\ Len(p) <= n
    BY <1>1, PathPrefixes DEF Shallow
  <2> HIDE DEF wrong
  <2>2. QED
    BY <2>1
<1>4. PICK m \in T : \A k \in T : ~(k < m)
  <2> HIDE DEF wrong
  <2>1. T \subseteq Nat /\ T # {}
    BY <1>2, <1>3
  <2> HIDE DEF T
  <2>2. QED
    BY <2>1, LeastNatural
<1>5. PICK p \in wrong : m = n - Len(p)
  BY <1>4
<1>6. ASSUME NEW q \in D, Len(q) = Len(p) + 1, Parent(q) = p
      PROVE  f[q] = g[q]
  <2>1. q \in wrong => n - Len(q) \in T
    OBVIOUS
  <2>2. n - Len(q) < m
    BY <1>3, <1>5, <1>6
  <2>3. q \notin wrong
    BY <1>4, <2>1, <2>2
  <2>4. QED
    BY <2>3
<1>7. QED
  BY <1>5, <1>6 DEF AgreeAbove

\* A node that leads to one of the leaves, or is one.
Leads(p, leaves) == \E leaf \in leaves : IsPrefixOf(p, leaf)

\* What is kept from p down for the sake of these leaves, as a walk returns it.
KeptFor(object, leaves, p) ==
    {r \in DOMAIN object : IsPrefixOf(p, r) /\ Leads(r, leaves)}
HolesFor(object, leaves, p) ==
    {r \in DOMAIN object : /\ IsPrefixOf(p, r) /\ r # p /\ ~Leads(r, leaves)
                           /\ Leads(Parent(r), leaves) /\ object[Parent(r)] = ListNode}
Gathered(object, leaves, p) ==
    {<<q, object[q]>> : q \in KeptFor(object, leaves, p)}
        \cup {<<q, Null>> : q \in HolesFor(object, leaves, p)}

LEMMA NothingGathered ==
    ASSUME NEW object, IsObject(object), NEW p \in DOMAIN object, NEW leaves,
           \A leaf \in leaves : leaf \in DOMAIN object /\ IsPrefixOf(p, leaf)
    PROVE  /\ Gathered(object, leaves, p) = {} <=> leaves = {}
           /\ leaves # {} => <<p, object[p]>> \in Gathered(object, leaves, p)
<1>1. leaves # {} => <<p, object[p]>> \in Gathered(object, leaves, p)
  <2>1. IsPrefixOf(p, p)
    BY PathPrefixes DEF IsObject
  <2>2. QED
    BY <2>1 DEF Gathered, KeptFor, Leads
<1>2. leaves = {} => Gathered(object, leaves, p) = {}
  BY DEF Gathered, KeptFor, HolesFor, Leads
<1>3. QED
  BY <1>1, <1>2

\* Below the child c, the leaves of p and those of c lead to the same.
LEMMA LeadsBelow ==
    ASSUME NEW object, IsObject(object), NEW p \in DOMAIN object,
           NEW L, \A c \in Children(object, p) :
                     \A leaf \in L[c] : leaf \in DOMAIN object /\ IsPrefixOf(c, leaf),
           NEW leaves, leaves \ {p} = UNION {L[c] : c \in Children(object, p)},
           NEW c \in Children(object, p), NEW q \in DOMAIN object, IsPrefixOf(c, q)
    PROVE  Leads(q, leaves) <=> Leads(q, L[c])
<1>1. ASSUME NEW leaf \in leaves, IsPrefixOf(q, leaf)
      PROVE  leaf \in L[c]
  <2>1. IsPath(p) /\ IsPath(c) /\ IsPath(q) /\ IsPrefixOf(p, c) /\ IsPrefixOf(p, q) /\ q # p
    BY BelowChild DEF IsObject
  <2>2. leaf # p
    <3>1. Len(c) = Len(p) + 1 /\ Len(p) \in Nat /\ Len(c) \in 0 .. Len(q)
      BY <2>1, PrefixOfPath, PathPrefixes DEF Children
    <3>2. Len(q) \in Nat
      BY <2>1, PathPrefixes
    <3>3. ~(Len(q) <= Len(p))
      BY <3>1, <3>2
    <3>4. QED
      BY <1>1, <3>3 DEF IsPrefixOf
  <2>3. PICK b \in Children(object, p) : leaf \in L[b]
    BY <2>2
  <2>4. leaf \in DOMAIN object /\ IsPath(leaf) /\ IsPrefixOf(b, leaf)
    BY <2>3 DEF IsObject
  <2>5. IsPrefixOf(c, leaf)
    BY <1>1, <2>1, <2>4, PrefixTransitive
  <2>6. QED
    BY <2>3, <2>4, <2>5, ChildrenApart
<1>2. L[c] \subseteq leaves
  OBVIOUS
<1>3. QED
  BY <1>1, <1>2 DEF Leads

\* What is kept below p is kept below its children; below a list a child that leads
\* to no leaf is a hole.
LEMMA GatheredBelow ==
    ASSUME NEW object, IsObject(object), NEW p \in DOMAIN object,
           NEW L, \A c \in Children(object, p) :
                     \A leaf \in L[c] : leaf \in DOMAIN object /\ IsPrefixOf(c, leaf),
           NEW leaves, leaves \ {p} = UNION {L[c] : c \in Children(object, p)}, Leads(p, leaves)
    PROVE  /\ KeptFor(object, leaves, p) =
                 {p} \cup UNION {KeptFor(object, L[c], c) : c \in Children(object, p)}
           /\ HolesFor(object, leaves, p) =
                 {c \in Children(object, p) : object[p] = ListNode /\ ~Leads(c, L[c])}
                     \cup UNION {HolesFor(object, L[c], c) : c \in Children(object, p)}
<1>1. IsPath(p) /\ IsPrefixOf(p, p)
  BY PathPrefixes DEF IsObject
<1>2. \A c \in Children(object, p) :
         /\ c \in DOMAIN object /\ IsPath(c) /\ c # <<>> /\ c # p /\ Parent(c) = p
         /\ IsPrefixOf(p, c) /\ IsPrefixOf(c, c)
         /\ \A q \in DOMAIN object : IsPrefixOf(c, q) => IsPrefixOf(p, q) /\ q # p
  BY BelowChild, PathPrefixes
<1>3. \A c \in Children(object, p) : \A q \in DOMAIN object :
         IsPrefixOf(c, q) => (Leads(q, leaves) <=> Leads(q, L[c]))
  BY LeadsBelow
<1>4. \A q \in DOMAIN object : IsPrefixOf(p, q) /\ q # p =>
         \E c \in Children(object, p) : IsPrefixOf(c, q)
  BY ChildOn
<1>5. \A c \in Children(object, p) : \A q \in DOMAIN object :
         IsPrefixOf(c, q) /\ q # c => Parent(q) \in DOMAIN object /\ IsPrefixOf(c, Parent(q)) /\ Parent(q) # p
  <2>1. TAKE c \in Children(object, p)
  <2>2. TAKE q \in DOMAIN object
  <2>3. HAVE IsPrefixOf(c, q) /\ q # c
  <2>4. IsPath(q) /\ q # <<>>
    <3>1. q # <<>>
      <4>1. Len(c) \in Nat \ {0} /\ Len(c) <= Len(q) /\ Len(<<>>) = 0
        BY <1>2, <2>3, ParentIsPrefix DEF IsPrefixOf
      <4>2. QED
        BY <4>1
    <3>2. QED
      BY <3>1 DEF IsObject
  <2>5. Parent(q) \in DOMAIN object
    BY <2>4 DEF IsObject, IsChild
  <2>6. IsPrefixOf(c, Parent(q))
    BY <1>2, <2>3, <2>4, ParentIsPrefix
  <2>7. QED
    BY <1>2, <2>5, <2>6
<1>6. KeptFor(object, leaves, p) =
          {p} \cup UNION {KeptFor(object, L[c], c) : c \in Children(object, p)}
  <2>1. ASSUME NEW q \in KeptFor(object, leaves, p), q # p
        PROVE  \E c \in Children(object, p) : q \in KeptFor(object, L[c], c)
    BY <1>3, <1>4, <2>1 DEF KeptFor
  <2>2. ASSUME NEW c \in Children(object, p), NEW q \in KeptFor(object, L[c], c)
        PROVE  q \in KeptFor(object, leaves, p)
    BY <1>2, <1>3, <2>2 DEF KeptFor
  <2>3. p \in KeptFor(object, leaves, p)
    BY <1>1 DEF KeptFor
  <2>4. QED
    BY <2>1, <2>2, <2>3
<1>7. HolesFor(object, leaves, p) =
          {c \in Children(object, p) : object[p] = ListNode /\ ~Leads(c, L[c])}
              \cup UNION {HolesFor(object, L[c], c) : c \in Children(object, p)}
  <2>1. ASSUME NEW q \in HolesFor(object, leaves, p)
        PROVE  \/ q \in Children(object, p) /\ object[p] = ListNode /\ ~Leads(q, L[q])
               \/ \E c \in Children(object, p) : q \in HolesFor(object, L[c], c)
    <3>1. /\ q \in DOMAIN object /\ IsPrefixOf(p, q) /\ q # p /\ ~Leads(q, leaves)
          /\ Leads(Parent(q), leaves) /\ object[Parent(q)] = ListNode
      BY DEF HolesFor
    <3>2. PICK c \in Children(object, p) : IsPrefixOf(c, q)
      BY <1>4, <3>1
    <3>3. CASE q = c
      BY <1>2, <1>3, <3>1, <3>2, <3>3
    <3>4. CASE q # c
      BY <1>3, <1>5, <3>1, <3>2, <3>4 DEF HolesFor
    <3>5. QED
      BY <3>3, <3>4
  <2>2. ASSUME NEW c \in Children(object, p), NEW q \in HolesFor(object, L[c], c)
        PROVE  q \in HolesFor(object, leaves, p)
    BY <1>2, <1>3, <1>5, <2>2 DEF HolesFor
  <2>3. ASSUME NEW c \in Children(object, p), object[p] = ListNode, ~Leads(c, L[c])
        PROVE  c \in HolesFor(object, leaves, p)
    BY <1>2, <1>3, <2>3 DEF HolesFor
  <2>4. QED
    BY <2>1, <2>2, <2>3
<1>8. QED
  BY <1>6, <1>7

LEMMA GatheredFromChildren ==
    ASSUME NEW object, IsObject(object), NEW p \in DOMAIN object,
           NEW L, \A c \in Children(object, p) :
                     \A leaf \in L[c] : leaf \in DOMAIN object /\ IsPrefixOf(c, leaf),
           NEW leaves, leaves \ {p} = UNION {L[c] : c \in Children(object, p)}, Leads(p, leaves)
    PROVE  /\ object[p] # ListNode =>
                 Gathered(object, leaves, p) =
                     {<<p, object[p]>>}
                         \cup UNION {Gathered(object, L[c], c) : c \in Children(object, p)}
           /\ object[p] = ListNode =>
                 Gathered(object, leaves, p) =
                     {<<p, object[p]>>}
                         \cup UNION {OrNil(c, Gathered(object, L[c], c)) : c \in Children(object, p)}
<1> DEFINE C == Children(object, p)
           G(c) == Gathered(object, L[c], c)
           empty == {c \in C : object[p] = ListNode /\ ~Leads(c, L[c])}
<1>1. /\ KeptFor(object, leaves, p) = {p} \cup UNION {KeptFor(object, L[c], c) : c \in C}
      /\ HolesFor(object, leaves, p) = empty \cup UNION {HolesFor(object, L[c], c) : c \in C}
  BY GatheredBelow
<1>2. ASSUME NEW c \in C
      PROVE  G(c) = {} <=> ~Leads(c, L[c])
  <2>1. c \in DOMAIN object
    BY DEF Children
  <2>2. G(c) = {} <=> L[c] = {}
    BY <2>1, NothingGathered
  <2>3. QED
    BY <2>2 DEF Leads
<1> HIDE DEF C, empty
<1>3. Gathered(object, leaves, p) =
          {<<p, object[p]>>} \cup {<<c, Null>> : c \in empty} \cup UNION {G(c) : c \in C}
  <2>1. ASSUME NEW pair \in Gathered(object, leaves, p)
        PROVE  pair \in {<<p, object[p]>>} \cup {<<c, Null>> : c \in empty} \cup UNION {G(c) : c \in C}
    <3>1. CASE \E q \in KeptFor(object, leaves, p) : pair = <<q, object[q]>>
      BY <1>1, <3>1 DEF Gathered
    <3>2. CASE \E q \in HolesFor(object, leaves, p) : pair = <<q, Null>>
      BY <1>1, <3>2 DEF Gathered
    <3>3. QED
      BY <2>1, <3>1, <3>2 DEF Gathered
  <2>2. <<p, object[p]>> \in Gathered(object, leaves, p)
    BY <1>1 DEF Gathered
  <2>3. ASSUME NEW c \in empty
        PROVE  <<c, Null>> \in Gathered(object, leaves, p)
    BY <1>1, <2>3 DEF Gathered
  <2>4. ASSUME NEW c \in C, NEW pair \in G(c)
        PROVE  pair \in Gathered(object, leaves, p)
    <3>1. CASE \E q \in KeptFor(object, L[c], c) : pair = <<q, object[q]>>
      BY <1>1, <3>1 DEF Gathered
    <3>2. CASE \E q \in HolesFor(object, L[c], c) : pair = <<q, Null>>
      BY <1>1, <3>2 DEF Gathered
    <3>3. QED
      BY <2>4, <3>1, <3>2 DEF Gathered
  <2> HIDE DEF G
  <2>5. QED
    BY <2>1, <2>2, <2>3, <2>4
<1> HIDE DEF G
<1>4. CASE object[p] # ListNode
  <2>1. empty = {}
    BY <1>4 DEF empty
  <2>2. Gathered(object, leaves, p) = {<<p, object[p]>>} \cup UNION {G(c) : c \in C}
    BY <1>3, <2>1
  <2>3. QED
    BY <1>4, <2>2 DEF G, C
<1>5. CASE object[p] = ListNode
  <2>1. \A c \in C : c \in empty <=> G(c) = {}
    BY <1>2, <1>5 DEF empty
  <2>2. \A c \in C : OrNil(c, G(c)) = (IF c \in empty THEN {<<c, Null>>} ELSE G(c))
    BY <2>1 DEF OrNil
  <2>3. empty \subseteq C
    BY DEF empty
  <2>4. {<<c, Null>> : c \in empty} \cup UNION {G(c) : c \in C} = UNION {OrNil(c, G(c)) : c \in C}
    <3>1. ASSUME NEW pair \in UNION {OrNil(c, G(c)) : c \in C}
          PROVE  pair \in {<<c, Null>> : c \in empty} \cup UNION {G(c) : c \in C}
      BY <2>2, <3>1
    <3>2. ASSUME NEW c \in empty
          PROVE  <<c, Null>> \in UNION {OrNil(b, G(b)) : b \in C}
      BY <2>2, <2>3
    <3>3. ASSUME NEW c \in C, NEW pair \in G(c)
          PROVE  pair \in UNION {OrNil(b, G(b)) : b \in C}
      <4>1. c \notin empty
        BY <2>1, <3>3
      <4>2. OrNil(c, G(c)) = G(c)
        BY <2>2, <4>1
      <4>3. QED
        BY <3>3, <4>2
    <3>4. QED
      BY <3>1, <3>2, <3>3
  <2>5. Gathered(object, leaves, p) = {<<p, object[p]>>} \cup UNION {OrNil(c, G(c)) : c \in C}
    BY <1>3, <2>4
  <2>6. QED
    BY <1>5, <2>5 DEF G, C
<1>6. QED
  BY <1>4, <1>5

\* What Prune makes of an object is what is gathered from its root.
LEMMA PruneGathers ==
    ASSUME NEW object, IsObject(object), NEW leaves, leaves \subseteq DOMAIN object
    PROVE  Copy(Prune(object, leaves), <<>>) = AsObject(Gathered(object, leaves, <<>>))
<1> DEFINE kept == {p \in DOMAIN object : \E q \in leaves : IsPrefixOf(p, q)}
           holes == {p \in DOMAIN object \ (kept \cup {<<>>}) :
                        Parent(p) \in kept /\ object[Parent(p)] = ListNode}
           left == Prune(object, leaves)
<1>1. ASSUME NEW p, IsPath(p)
      PROVE  IsPrefixOf(<<>>, p)
  <2>1. Len(p) \in Nat /\ 0 \in 0 .. Len(p) /\ Len(<<>>) = 0
    BY <1>1, PathPrefixes
  <2>2. SubSeq(p, 1, 0) = <<>>
    BY <1>1, <2>1 DEF IsPath
  <2>3. QED
    BY <2>1, <2>2 DEF IsPrefixOf
<1>2. \A p \in DOMAIN object : IsPath(p) /\ IsPrefixOf(<<>>, p)
  BY <1>1 DEF IsObject
<1>3. /\ DOMAIN left = kept \cup holes \cup {<<>>}
      /\ \A p \in kept \cup holes \cup {<<>>} : left[p] = IF p \in holes THEN Null ELSE object[p]
  BY DEF Prune
<1>4. KeptFor(object, leaves, <<>>) = kept
  BY <1>2 DEF KeptFor, Leads
<1>5. HolesFor(object, leaves, <<>>) = holes
  <2>1. ASSUME NEW p \in DOMAIN object, p # <<>>
        PROVE  Parent(p) \in kept <=> Leads(Parent(p), leaves)
    <3>1. Parent(p) \in DOMAIN object
      BY <2>1 DEF IsObject, IsChild
    <3>2. QED
      BY <3>1 DEF Leads
  <2>2. \A p \in DOMAIN object : p \in kept <=> Leads(p, leaves)
    BY DEF Leads
  <2> HIDE DEF kept
  <2>3. QED
    BY <1>2, <2>1, <2>2 DEF HolesFor
<1>6. Copy(left, <<>>) = {<<p, left[p]>> : p \in DOMAIN left}
  <2>1. \A p \in DOMAIN left : IsPrefixOf(<<>>, p)
    BY <1>2, <1>3 DEF IsObject
  <2> HIDE DEF left
  <2>2. QED
    BY <2>1 DEF Copy
<1> HIDE DEF left
<1>7. CASE leaves = {}
  <2>1. DOMAIN left = {<<>>} /\ left[<<>>] = MapNode
    BY <1>3, <1>7 DEF IsObject
  <2>2. Gathered(object, leaves, <<>>) = {}
    BY <1>4, <1>5, <1>7 DEF Gathered
  <2>3. Copy(EmptyObject, <<>>) = {<<<<>>, MapNode>>}
    <3>1. IsPrefixOf(<<>>, <<>>)
      BY <1>2 DEF IsObject
    <3>2. QED
      BY <3>1 DEF Copy, EmptyObject
  <2>4. Copy(left, <<>>) = {<<<<>>, MapNode>>}
    BY <1>6, <2>1
  <2>5. QED
    BY <2>2, <2>3, <2>4 DEF AsObject, left
<1>8. CASE leaves # {}
  <2>1. <<>> \in kept
    BY <1>2, <1>8 DEF IsObject
  <2>2. Gathered(object, leaves, <<>>) # {}
    BY <1>4, <2>1 DEF Gathered
  <2>3. kept \cap holes = {}
    OBVIOUS
  <2>4. {<<p, left[p]>> : p \in DOMAIN left} = {<<p, object[p]>> : p \in kept} \cup {<<p, Null>> : p \in holes}
    <3> HIDE DEF kept, holes
    <3>1. DOMAIN left = kept \cup holes
      BY <1>3, <2>1
    <3>2. \A p \in kept : left[p] = object[p]
      BY <1>3, <2>3
    <3>3. \A p \in holes : left[p] = Null
      BY <1>3
    <3>4. QED
      BY <3>1, <3>2, <3>3
  <2> HIDE DEF kept, holes
  <2>5. QED
    BY <1>4, <1>5, <1>6, <2>2, <2>4 DEF Gathered, AsObject, left
<1>9. QED
  BY <1>7, <1>8

\* A scalar has nothing below it.
LEMMA NothingBelowScalar ==
    ASSUME NEW object, IsObject(object), NEW p \in DOMAIN object, object[p] \notin Containers
    PROVE  /\ Children(object, p) = {}
           /\ \A q \in DOMAIN object : IsPrefixOf(p, q) => q = p
           /\ Copy(object, p) = {<<p, object[p]>>}
           /\ Gathered(object, {p}, p) = {<<p, object[p]>>}
<1>1. Children(object, p) = {}
  <2>1. ASSUME NEW c \in Children(object, p)
        PROVE  FALSE
    <3>1. IsChild(object, c) /\ Parent(c) = p
      BY BelowChild
    <3>2. QED
      BY <3>1 DEF IsChild, Containers
  <2>2. QED
    BY <2>1
<1>2. \A q \in DOMAIN object : IsPrefixOf(p, q) => q = p
  BY <1>1, ChildOn
<1>3. IsPrefixOf(p, p)
  BY PathPrefixes DEF IsObject
<1>4. Copy(object, p) = {<<p, object[p]>>}
  BY <1>2, <1>3 DEF Copy
<1>5. KeptFor(object, {p}, p) = {p} /\ HolesFor(object, {p}, p) = {}
  BY <1>2, <1>3 DEF KeptFor, HolesFor, Leads
<1>6. Gathered(object, {p}, p) = {<<p, object[p]>>}
  BY <1>5 DEF Gathered
<1>7. QED
  BY <1>1, <1>2, <1>4, <1>6

\* What the children of a container return, when its leaves are theirs.
LEMMA ContainerGathers ==
    ASSUME NEW object, IsObject(object), NEW p \in DOMAIN object,
           NEW L, \A c \in Children(object, p) :
                     \A leaf \in L[c] : leaf \in DOMAIN object /\ IsPrefixOf(c, leaf),
           NEW leaves, leaves \ {p} = UNION {L[c] : c \in Children(object, p)},
           NEW below, \A c \in Children(object, p) : below[c] = Gathered(object, L[c], c)
    PROVE  /\ p \notin leaves =>
                 (UNION {below[c] : c \in Children(object, p)} = {} <=> leaves = {})
           /\ Leads(p, leaves) /\ object[p] # ListNode =>
                 Gathered(object, leaves, p) =
                     {<<p, object[p]>>} \cup UNION {below[c] : c \in Children(object, p)}
           /\ Leads(p, leaves) /\ object[p] = ListNode =>
                 Gathered(object, leaves, p) =
                     {<<p, object[p]>>} \cup UNION {OrNil(c, below[c]) : c \in Children(object, p)}
<1> DEFINE C == Children(object, p)
           G(c) == Gathered(object, L[c], c)
<1>1. \A c \in C : G(c) = {} <=> L[c] = {}
  <2>1. TAKE c \in C
  <2>2. c \in DOMAIN object
    BY DEF Children
  <2>3. QED
    BY <2>2, NothingGathered
<1>2. \A c \in C : below[c] = G(c)
  OBVIOUS
<1>3. /\ UNION {below[c] : c \in C} = UNION {G(c) : c \in C}
      /\ UNION {OrNil(c, below[c]) : c \in C} = UNION {OrNil(c, G(c)) : c \in C}
  <2> HIDE DEF G, C
  <2>1. QED
    BY <1>2
<1>4. p \notin leaves => (UNION {below[c] : c \in C} = {} <=> leaves = {})
  <2>1. ASSUME p \notin leaves
        PROVE  leaves = UNION {L[c] : c \in C}
    BY <2>1
  <2> HIDE DEF G, C
  <2>2. QED
    BY <1>1, <1>3, <2>1
<1>5. Leads(p, leaves) =>
          /\ object[p] # ListNode =>
                Gathered(object, leaves, p) = {<<p, object[p]>>} \cup UNION {G(c) : c \in C}
          /\ object[p] = ListNode =>
                Gathered(object, leaves, p) = {<<p, object[p]>>} \cup UNION {OrNil(c, G(c)) : c \in C}
  BY GatheredFromChildren
<1> HIDE DEF C, G
<1>6. QED
  BY <1>3, <1>4, <1>5 DEF C

-----------------------------------------------------------------------------
(* The walks of strip.go and extract.go                                    *)

\* A call at p or further down on the way to q finds a match.
MatchedFrom(p, q, patterns) ==
    \E r \in Prefixes(q) : IsPrefixOf(p, r) /\ matchesAnyPath(r, patterns)

StripLeaves(object, patterns, p) ==
    {q \in DOMAIN object :
        IsPrefixOf(p, q) /\ object[q] # MapNode /\ ~MatchedFrom(p, q, patterns)}

ExtractLeaves(object, patterns, p) ==
    {q \in DOMAIN object :
        /\ IsPrefixOf(p, q)
        /\ \/ MatchedFrom(p, q, patterns)
           \/ object[q] \notin Containers /\ hasAnyDescendantMatch(q, patterns)}

LEMMA MatchedHere ==
    ASSUME NEW object, IsObject(object), NEW patterns, NEW p \in DOMAIN object
    PROVE  /\ MatchedFrom(p, p, patterns) <=> matchesAnyPath(p, patterns)
           /\ matchesAnyPath(p, patterns) =>
                 \A q \in DOMAIN object : IsPrefixOf(p, q) => MatchedFrom(p, q, patterns)
<1>1. IsPath(p) /\ IsPrefixOf(p, p)
  BY PathPrefixes DEF IsObject
<1>2. \A r \in Prefixes(p) : IsPrefixOf(p, r) => r = p
  <2>1. TAKE r \in Prefixes(p)
  <2>2. HAVE IsPrefixOf(p, r)
  <2>3. IsPath(r) /\ IsPrefixOf(r, p) /\ Len(r) \in 0 .. Len(p)
    BY <1>1, PrefixesArePrefixes
  <2>4. Len(p) \in 0 .. Len(r)
    BY <1>1, <2>2, <2>3, PrefixOfPath
  <2>5. Len(r) = Len(p)
    <3>1. Len(p) \in Nat /\ Len(r) \in Nat
      BY <1>1, <2>3, PathPrefixes
    <3>2. QED
      BY <2>3, <2>4, <3>1
  <2>6. QED
    BY <1>1, <2>3, <2>5, OneOfEachLength
<1>3. \A q \in DOMAIN object : IsPrefixOf(p, q) => p \in Prefixes(q)
  BY <1>1, PrefixOfPath DEF IsObject
<1>4. p \in Prefixes(p)
  BY <1>1, PathPrefixes
<1>5. QED
  BY <1>1, <1>2, <1>3, <1>4 DEF MatchedFrom

LEMMA MatchedFromChild ==
    ASSUME NEW object, IsObject(object), NEW patterns, NEW p \in DOMAIN object,
           ~matchesAnyPath(p, patterns),
           NEW c \in Children(object, p), NEW q \in DOMAIN object, IsPrefixOf(c, q)
    PROVE  MatchedFrom(p, q, patterns) <=> MatchedFrom(c, q, patterns)
<1>1. /\ IsPath(p) /\ IsPath(q) /\ IsPath(c) /\ c \in DOMAIN object
      /\ IsPrefixOf(p, c) /\ IsPrefixOf(p, q) /\ q # p
  BY BelowChild DEF IsObject
<1>2. ASSUME NEW r \in Prefixes(q), IsPrefixOf(p, r), matchesAnyPath(r, patterns)
      PROVE  IsPrefixOf(c, r)
  <2>1. IsPath(r) /\ IsPrefixOf(r, q) /\ r # p
    BY <1>1, <1>2, PrefixesArePrefixes
  <2>2. PICK b \in Children(object, p) :
            /\ IsPath(b) /\ IsPrefixOf(b, q)
            /\ \A s : IsPath(s) /\ IsPrefixOf(p, s) /\ s # p /\ IsPrefixOf(s, q) => IsPrefixOf(b, s)
    BY <1>1, ChildOn
  <2>3. b = c
    BY <2>2, ChildrenApart
  <2>4. QED
    BY <1>2, <2>1, <2>2, <2>3
<1>3. ASSUME NEW r \in Prefixes(q), IsPrefixOf(c, r)
      PROVE  IsPrefixOf(p, r)
  BY <1>1, <1>3, PrefixesArePrefixes, PrefixTransitive
<1>4. QED
  BY <1>2, <1>3 DEF MatchedFrom

\* Where the call at p finds no match, the leaves below p are those of its children.
LEMMA LeavesOfChildren ==
    ASSUME NEW object, IsObject(object), NEW patterns, NEW p \in DOMAIN object,
           ~matchesAnyPath(p, patterns)
    PROVE  /\ StripLeaves(object, patterns, p) \ {p} =
                 UNION {StripLeaves(object, patterns, c) : c \in Children(object, p)}
           /\ ExtractLeaves(object, patterns, p) \ {p} =
                 UNION {ExtractLeaves(object, patterns, c) : c \in Children(object, p)}
<1>1. \A q \in DOMAIN object : IsPrefixOf(p, q) /\ q # p =>
         \E c \in Children(object, p) : IsPrefixOf(c, q)
  BY ChildOn
<1>2. \A c \in Children(object, p) : \A q \in DOMAIN object :
         IsPrefixOf(c, q) => IsPrefixOf(p, q) /\ q # p
  BY BelowChild
<1>3. \A c \in Children(object, p) : \A q \in DOMAIN object :
         IsPrefixOf(c, q) => (MatchedFrom(p, q, patterns) <=> MatchedFrom(c, q, patterns))
  BY MatchedFromChild
<1>4. \A q : q \in StripLeaves(object, patterns, p) /\ q # p <=>
                \E c \in Children(object, p) : q \in StripLeaves(object, patterns, c)
  BY <1>1, <1>2, <1>3 DEF StripLeaves
<1>5. \A q : q \in ExtractLeaves(object, patterns, p) /\ q # p <=>
                \E c \in Children(object, p) : q \in ExtractLeaves(object, patterns, c)
  BY <1>1, <1>2, <1>3 DEF ExtractLeaves
<1>6. QED
  BY <1>4, <1>5

\* The closed form of stripValue fits its recursion.
LEMMA StripFits ==
    ASSUME NEW object, IsObject(object), NEW patterns, NEW g,
           g = [p \in DOMAIN object |-> Gathered(object, StripLeaves(object, patterns, p), p)],
           NEW p \in DOMAIN object
    PROVE  g[p] = stripNode(object, patterns, g, p)
<1> DEFINE leaves == StripLeaves(object, patterns, p)
           L == [c \in DOMAIN object |-> StripLeaves(object, patterns, c)]
           inMap == UNION {g[c] : c \in Children(object, p)}
           inList == UNION {OrNil(c, g[c]) : c \in Children(object, p)}
<1>1. g[p] = Gathered(object, leaves, p)
  OBVIOUS
<1>2. \A leaf \in leaves : leaf \in DOMAIN object /\ IsPrefixOf(p, leaf)
  BY DEF StripLeaves
<1>3. /\ \A c \in Children(object, p) : L[c] = StripLeaves(object, patterns, c)
      /\ \A c \in Children(object, p) :
            \A leaf \in L[c] : leaf \in DOMAIN object /\ IsPrefixOf(c, leaf)
      /\ \A c \in Children(object, p) : g[c] = Gathered(object, L[c], c)
  BY DEF Children, StripLeaves
<1>4. p \in leaves <=> object[p] # MapNode /\ ~matchesAnyPath(p, patterns)
  BY MatchedHere, PathPrefixes DEF StripLeaves, IsObject
<1> HIDE DEF L
<1>5. ASSUME ~matchesAnyPath(p, patterns)
      PROVE  leaves \ {p} = UNION {L[c] : c \in Children(object, p)}
  <2>1. leaves \ {p} = UNION {StripLeaves(object, patterns, c) : c \in Children(object, p)}
    BY <1>5, LeavesOfChildren
  <2>2. {StripLeaves(object, patterns, c) : c \in Children(object, p)} =
            {L[c] : c \in Children(object, p)}
    BY <1>3
  <2>3. QED
    BY <2>1, <2>2
<1>6. p \in leaves => Leads(p, leaves)
  BY <1>2 DEF Leads
<1>7. CASE matchesAnyPath(p, patterns)
  <2>1. leaves = {}
    BY <1>7, MatchedHere DEF StripLeaves
  <2>2. Gathered(object, leaves, p) = {}
    BY <1>2, <2>1, NothingGathered
  <2>3. QED
    BY <1>1, <1>7, <2>2 DEF stripNode
<1> HIDE DEF leaves, inMap, inList
<1>8. ASSUME ~matchesAnyPath(p, patterns)
       PROVE  /\ p \notin leaves => (inMap = {} <=> leaves = {})
              /\ Leads(p, leaves) /\ object[p] # ListNode =>
                    Gathered(object, leaves, p) = {<<p, object[p]>>} \cup inMap
              /\ Leads(p, leaves) /\ object[p] = ListNode =>
                    Gathered(object, leaves, p) = {<<p, object[p]>>} \cup inList
  <2>1. leaves \ {p} = UNION {L[c] : c \in Children(object, p)}
    BY <1>5, <1>8
  <2> HIDE DEF leaves, L
  <2>2. QED
    BY <1>3, <2>1, ContainerGathers DEF inMap, inList
<1>9. CASE ~matchesAnyPath(p, patterns) /\ object[p] = MapNode
  <2>1. object[p] # ListNode
    BY <1>9 DEF MapNode, ListNode
  <2>2. inMap = {} <=> leaves = {}
    BY <1>4, <1>9, <1>8
  <2>3. leaves # {} => Leads(p, leaves)
    BY <1>2 DEF Leads
  <2>4. leaves # {} => Gathered(object, leaves, p) = {<<p, object[p]>>} \cup inMap
    BY <1>9, <1>8, <2>1, <2>3
  <2>5. leaves = {} => Gathered(object, leaves, p) = {}
    BY <1>2, NothingGathered
  <2>6. g[p] = IF inMap = {} THEN {} ELSE {<<p, MapNode>>} \cup inMap
    BY <1>1, <1>9, <2>2, <2>4, <2>5
  <2>7. QED
    BY <1>9, <2>6 DEF stripNode, inMap
<1>10. CASE ~matchesAnyPath(p, patterns) /\ object[p] = ListNode
  <2>1. object[p] # MapNode
    BY <1>10 DEF MapNode, ListNode
  <2>2. Leads(p, leaves)
    BY <1>4, <1>6, <1>10, <2>1
  <2>3. Gathered(object, leaves, p) = {<<p, object[p]>>} \cup inList
    BY <1>10, <1>8, <2>2
  <2>4. QED
    BY <1>1, <1>10, <2>1, <2>3 DEF stripNode, inList
<1>11. CASE ~matchesAnyPath(p, patterns) /\ object[p] \notin Containers
  <2>1. Copy(object, p) = Gathered(object, {p}, p) /\ Children(object, p) = {}
    BY <1>11, NothingBelowScalar
  <2>2. leaves = {p}
    BY <1>4, <1>5, <1>11, <2>1 DEF Containers
  <2>3. QED
    BY <1>1, <1>11, <2>1, <2>2 DEF stripNode, Containers
<1>12. QED
  BY <1>7, <1>9, <1>10, <1>11 DEF Containers

\* There is no other way to fit it: stripValue is its closed form.
LEMMA StripValueIs ==
    ASSUME NEW object, IsObject(object), Shallow(DOMAIN object), NEW patterns, NEW p \in DOMAIN object
    PROVE  stripValue(object, patterns)[p] = Gathered(object, StripLeaves(object, patterns, p), p)
<1> DEFINE Fits(f) == f = [q \in DOMAIN object |-> stripNode(object, patterns, f, q)]
           g == [q \in DOMAIN object |-> Gathered(object, StripLeaves(object, patterns, q), q)]
           walk == stripValue(object, patterns)
<1>1. Fits(g)
  <2>1. \A q \in DOMAIN object : g[q] = stripNode(object, patterns, g, q)
    BY StripFits
  <2>2. g = [q \in DOMAIN object |-> g[q]]
    OBVIOUS
  <2> HIDE DEF g
  <2>3. QED
    BY <2>1, <2>2
<1>2. walk = CHOOSE f : Fits(f)
  BY DEF stripValue
<1> HIDE DEF Fits
<1>3. Fits(walk)
  BY <1>1, <1>2, Zenon
<1>4. \A q \in DOMAIN object :
          walk[q] = stripNode(object, patterns, walk, q) /\ g[q] = stripNode(object, patterns, g, q)
  <2> HIDE DEF walk, g
  <2>1. QED
    BY <1>1, <1>3 DEF Fits
<1>5. g[p] = Gathered(object, StripLeaves(object, patterns, p), p)
  OBVIOUS
<1> HIDE DEF walk, g
<1>6. ASSUME NEW q \in DOMAIN object,
             \A c \in DOMAIN object : Len(c) = Len(q) + 1 /\ Parent(c) = q => walk[c] = g[c]
      PROVE  walk[q] = g[q]
  <2>1. \A c \in Children(object, q) : walk[c] = g[c]
    BY <1>6 DEF Children
  <2>2. /\ {walk[c] : c \in Children(object, q)} = {g[c] : c \in Children(object, q)}
        /\ {OrNil(c, walk[c]) : c \in Children(object, q)} = {OrNil(c, g[c]) : c \in Children(object, q)}
    BY <2>1
  <2>3. stripNode(object, patterns, walk, q) = stripNode(object, patterns, g, q)
    BY <2>2 DEF stripNode
  <2>4. QED
    BY <1>4, <2>3
<1>7. AgreeAbove(DOMAIN object, walk, g)
  BY <1>6 DEF AgreeAbove
<1>8. \A q \in DOMAIN object : walk[q] = g[q]
  BY <1>7, FromTheDepths
<1>9. QED
  BY <1>5, <1>8 DEF walk

\* Where no pattern goes on below p, nothing below p is matched.
LEMMA DeadEnds ==
    ASSUME NEW object, IsObject(object), NEW patterns, \A pattern \in patterns : IsPath(pattern),
           NEW p \in DOMAIN object, ~hasAnyDescendantMatch(p, patterns),
           NEW q \in DOMAIN object, IsPrefixOf(p, q)
    PROVE  ~hasAnyDescendantMatch(q, patterns) /\ ~MatchedFrom(p, q, patterns)
<1>1. ASSUME NEW r, IsPath(r), IsPrefixOf(p, r), NEW pattern \in patterns,
             hasDescendantMatch(pattern, r)
      PROVE  FALSE
  <2>1. Len(p) \in Nat /\ Len(r) \in Nat /\ Len(pattern) \in Nat /\ Len(p) <= Len(r)
    BY <1>1, PathPrefixes DEF IsObject, IsPrefixOf
  <2>2. Len(p) <= Len(pattern)
    BY <1>1, <2>1 DEF hasDescendantMatch
  <2>3. \A i \in DOMAIN p : i \in DOMAIN r /\ r[i] = p[i]
    <3>1. IsPath(p) /\ p = SubSeq(r, 1, Len(p)) /\ DOMAIN p = 1 .. Len(p) /\ DOMAIN r = 1 .. Len(r)
      BY <1>1, LenProperties DEF IsObject, IsPrefixOf, IsPath
    <3>2. \A i \in 1 .. Len(p) : SubSeq(r, 1, Len(p))[i] = r[i]
      BY <1>1, <2>1 DEF IsPath
    <3>3. \A i \in 1 .. Len(p) : i \in 1 .. Len(r)
      BY <2>1
    <3>4. \A i \in 1 .. Len(p) : p[i] = r[i]
      BY <3>1, <3>2, Zenon
    <3>5. QED
      BY <3>1, <3>3, <3>4
  <2>4. hasDescendantMatch(pattern, p)
    BY <1>1, <2>2, <2>3 DEF hasDescendantMatch
  <2>5. QED
    BY <2>4 DEF hasAnyDescendantMatch
<1>2. ~hasAnyDescendantMatch(q, patterns)
  BY <1>1 DEF hasAnyDescendantMatch, IsObject
<1>3. ASSUME NEW r \in Prefixes(q), IsPrefixOf(p, r), NEW pattern \in patterns, matchesPath(pattern, r)
      PROVE  FALSE
  <2>1. IsPath(q) /\ IsPath(r)
    BY PrefixesArePrefixes DEF IsObject
  <2>2. Len(r) \in Nat
    BY <2>1, PathPrefixes
  <2>3. hasDescendantMatch(pattern, r)
    BY <1>3, <2>2 DEF hasDescendantMatch, matchesPath
  <2>4. QED
    BY <1>1, <1>3, <2>1, <2>3
<1>4. QED
  BY <1>2, <1>3 DEF MatchedFrom, matchesAnyPath

\* The closed form of extractValue fits its recursion.
LEMMA ExtractFits ==
    ASSUME NEW object, IsObject(object), NEW patterns, \A pattern \in patterns : IsPath(pattern),
           NEW g,
           g = [p \in DOMAIN object |-> Gathered(object, ExtractLeaves(object, patterns, p), p)],
           NEW p \in DOMAIN object
    PROVE  g[p] = extractNode(object, patterns, g, p)
<1> DEFINE leaves == ExtractLeaves(object, patterns, p)
           L == [c \in DOMAIN object |-> ExtractLeaves(object, patterns, c)]
           inMap == UNION {g[c] : c \in Children(object, p)}
           inList == UNION {OrNil(c, g[c]) : c \in Children(object, p)}
<1>1. g[p] = Gathered(object, leaves, p)
  OBVIOUS
<1>2. \A leaf \in leaves : leaf \in DOMAIN object /\ IsPrefixOf(p, leaf)
  BY DEF ExtractLeaves
<1>3. /\ \A c \in Children(object, p) : L[c] = ExtractLeaves(object, patterns, c)
      /\ \A c \in Children(object, p) :
            \A leaf \in L[c] : leaf \in DOMAIN object /\ IsPrefixOf(c, leaf)
      /\ \A c \in Children(object, p) : g[c] = Gathered(object, L[c], c)
  BY DEF Children, ExtractLeaves
<1>4. ~matchesAnyPath(p, patterns) =>
          (p \in leaves <=> object[p] \notin Containers /\ hasAnyDescendantMatch(p, patterns))
  BY MatchedHere, PathPrefixes DEF ExtractLeaves, IsObject
<1>5. ~matchesAnyPath(p, patterns) /\ ~hasAnyDescendantMatch(p, patterns) => leaves = {}
  BY DeadEnds DEF ExtractLeaves
<1> HIDE DEF L
<1>6. ASSUME ~matchesAnyPath(p, patterns)
      PROVE  leaves \ {p} = UNION {L[c] : c \in Children(object, p)}
  <2>1. leaves \ {p} = UNION {ExtractLeaves(object, patterns, c) : c \in Children(object, p)}
    BY <1>6, LeavesOfChildren
  <2>2. {ExtractLeaves(object, patterns, c) : c \in Children(object, p)} =
            {L[c] : c \in Children(object, p)}
    BY <1>3
  <2>3. QED
    BY <2>1, <2>2
<1>7. CASE matchesAnyPath(p, patterns)
  <2>1. \A q \in DOMAIN object : IsPrefixOf(p, q) => q \in leaves
    BY <1>7, MatchedHere DEF ExtractLeaves
  <2>2. \A q \in DOMAIN object : IsPrefixOf(p, q) => Leads(q, leaves)
    BY <2>1, PathPrefixes DEF Leads, IsObject
  <2>3. \A q \in DOMAIN object : IsPrefixOf(p, q) => q \notin HolesFor(object, leaves, p)
    BY <2>2 DEF HolesFor
  <2>4. HolesFor(object, leaves, p) = {}
    BY <2>3 DEF HolesFor
  <2>5. KeptFor(object, leaves, p) = {q \in DOMAIN object : IsPrefixOf(p, q)}
    BY <2>2 DEF KeptFor
  <2>6. Gathered(object, leaves, p) = Copy(object, p)
    BY <2>4, <2>5 DEF Gathered, Copy
  <2>7. QED
    BY <1>1, <1>7, <2>6 DEF extractNode
<1> HIDE DEF leaves, inMap, inList
<1>8. leaves = {} => g[p] = {}
  BY <1>1, <1>2, NothingGathered
<1>9. CASE ~matchesAnyPath(p, patterns) /\ ~hasAnyDescendantMatch(p, patterns)
  BY <1>5, <1>8, <1>9 DEF extractNode
<1>10. ASSUME ~matchesAnyPath(p, patterns)
       PROVE  /\ p \notin leaves => (inMap = {} <=> leaves = {})
              /\ Leads(p, leaves) /\ object[p] # ListNode =>
                    Gathered(object, leaves, p) = {<<p, object[p]>>} \cup inMap
              /\ Leads(p, leaves) /\ object[p] = ListNode =>
                    Gathered(object, leaves, p) = {<<p, object[p]>>} \cup inList
  <2>1. leaves \ {p} = UNION {L[c] : c \in Children(object, p)}
    BY <1>6, <1>10
  <2> HIDE DEF leaves, L
  <2>2. QED
    BY <1>3, <2>1, ContainerGathers DEF inMap, inList
<1>11. CASE /\ ~matchesAnyPath(p, patterns) /\ hasAnyDescendantMatch(p, patterns)
            /\ object[p] \in Containers
  <2>1. inMap = {} <=> leaves = {}
    BY <1>4, <1>10, <1>11
  <2>2. leaves # {} => Leads(p, leaves)
    BY <1>2 DEF Leads
  <2>3. leaves # {} /\ object[p] # ListNode => g[p] = {<<p, object[p]>>} \cup inMap
    BY <1>1, <1>10, <1>11, <2>2
  <2>4. leaves # {} /\ object[p] = ListNode => g[p] = {<<p, object[p]>>} \cup inList
    BY <1>1, <1>10, <1>11, <2>2
  <2>5. MapNode # ListNode
    BY DEF MapNode, ListNode
  <2>6. object[p] = MapNode => g[p] = IF inMap = {} THEN {} ELSE {<<p, MapNode>>} \cup inMap
    BY <1>8, <2>1, <2>3, <2>5
  <2>7. object[p] = ListNode => g[p] = IF inMap = {} THEN {} ELSE {<<p, ListNode>>} \cup inList
    BY <1>8, <2>1, <2>4
  <2>8. CASE object[p] = MapNode
    BY <1>11, <2>6, <2>8 DEF extractNode, inMap
  <2>9. CASE object[p] = ListNode
    BY <1>11, <2>5, <2>7, <2>9 DEF extractNode, inMap, inList
  <2>10. QED
    BY <1>11, <2>8, <2>9 DEF Containers
<1>12. CASE /\ ~matchesAnyPath(p, patterns) /\ hasAnyDescendantMatch(p, patterns)
            /\ object[p] \notin Containers
  <2>1. Copy(object, p) = Gathered(object, {p}, p) /\ Children(object, p) = {}
    BY <1>12, NothingBelowScalar
  <2>2. leaves = {p}
    BY <1>4, <1>6, <1>12, <2>1
  <2>3. QED
    BY <1>1, <1>12, <2>1, <2>2 DEF extractNode, Containers
<1>13. QED
  BY <1>7, <1>9, <1>11, <1>12

\* And extractValue is its closed form.
LEMMA ExtractValueIs ==
    ASSUME NEW object, IsObject(object), Shallow(DOMAIN object), NEW patterns,
           \A pattern \in patterns : IsPath(pattern), NEW p \in DOMAIN object
    PROVE  extractValue(object, patterns)[p] = Gathered(object, ExtractLeaves(object, patterns, p), p)
<1> DEFINE Fits(f) == f = [q \in DOMAIN object |-> extractNode(object, patterns, f, q)]
           g == [q \in DOMAIN object |-> Gathered(object, ExtractLeaves(object, patterns, q), q)]
           walk == extractValue(object, patterns)
<1>1. Fits(g)
  <2>1. \A q \in DOMAIN object : g[q] = extractNode(object, patterns, g, q)
    BY ExtractFits
  <2>2. g = [q \in DOMAIN object |-> g[q]]
    OBVIOUS
  <2> HIDE DEF g
  <2>3. QED
    BY <2>1, <2>2
<1>2. walk = CHOOSE f : Fits(f)
  BY DEF extractValue
<1> HIDE DEF Fits
<1>3. Fits(walk)
  BY <1>1, <1>2, Zenon
<1>4. \A q \in DOMAIN object :
          walk[q] = extractNode(object, patterns, walk, q) /\ g[q] = extractNode(object, patterns, g, q)
  <2> HIDE DEF walk, g
  <2>1. QED
    BY <1>1, <1>3 DEF Fits
<1>5. g[p] = Gathered(object, ExtractLeaves(object, patterns, p), p)
  OBVIOUS
<1> HIDE DEF walk, g
<1>6. ASSUME NEW q \in DOMAIN object,
             \A c \in DOMAIN object : Len(c) = Len(q) + 1 /\ Parent(c) = q => walk[c] = g[c]
      PROVE  walk[q] = g[q]
  <2>1. \A c \in Children(object, q) : walk[c] = g[c]
    BY <1>6 DEF Children
  <2>2. /\ {walk[c] : c \in Children(object, q)} = {g[c] : c \in Children(object, q)}
        /\ {OrNil(c, walk[c]) : c \in Children(object, q)} = {OrNil(c, g[c]) : c \in Children(object, q)}
    BY <2>1
  <2>3. extractNode(object, patterns, walk, q) = extractNode(object, patterns, g, q)
    BY <2>2 DEF extractNode
  <2>4. QED
    BY <1>4, <2>3
<1>7. AgreeAbove(DOMAIN object, walk, g)
  BY <1>6 DEF AgreeAbove
<1>8. \A q \in DOMAIN object : walk[q] = g[q]
  BY <1>7, FromTheDepths
<1>9. QED
  BY <1>5, <1>8 DEF walk

-----------------------------------------------------------------------------
(* The walk of diff.go                                                     *)

\* What a call of compareValue at p reports.
ChangedBelow(left, right, p) ==
    {q \in DOMAIN left \cup DOMAIN right :
        /\ IsPrefixOf(p, q) /\ DifferAt(left, right, q)
        /\ \A r \in StrictPrefixes(q) : IsPrefixOf(p, r) => ~DifferAt(left, right, r)}

LEMMA StrictOnes ==
    ASSUME NEW q, IsPath(q), NEW r
    PROVE  r \in StrictPrefixes(q) <=> IsPath(r) /\ IsPrefixOf(r, q) /\ r # q
<1>1. ASSUME r \in StrictPrefixes(q)
      PROVE  IsPath(r) /\ IsPrefixOf(r, q) /\ r # q
  <2>1. PICK k \in 0 .. Len(q) - 1 : r = SubSeq(q, 1, k)
    BY <1>1 DEF StrictPrefixes
  <2>2. Len(q) \in Nat /\ k \in 0 .. Len(q) /\ k # Len(q)
    <3>1. Len(q) \in Nat
      BY PathPrefixes
    <3>2. QED
      BY <3>1
  <2>3. Len(r) = k
    BY <2>1, <2>2, PathPrefixes
  <2>4. QED
    BY <2>1, <2>2, <2>3, PathPrefixes, PrefixIsPath
<1>2. ASSUME IsPath(r), IsPrefixOf(r, q), r # q
      PROVE  r \in StrictPrefixes(q)
  BY <1>2, PrefixOfPath DEF Prefixes
<1>3. QED
  BY <1>1, <1>2

\* A path does not lead to one of its strict prefixes.
LEMMA NothingBetween ==
    ASSUME NEW q, IsPath(q), NEW r \in StrictPrefixes(q)
    PROVE  ~IsPrefixOf(q, r)
<1>1. IsPath(r) /\ IsPrefixOf(r, q) /\ r # q
  BY StrictOnes
<1>2. Len(r) \in Nat /\ Len(q) \in Nat /\ Len(r) <= Len(q) /\ Len(r) # Len(q)
  BY <1>1, PathPrefixes, OneOfEachLength DEF IsPrefixOf
<1>3. ~(Len(q) <= Len(r))
  BY <1>2
<1>4. QED
  BY <1>3 DEF IsPrefixOf

\* What lies between p and q, a child of p or below one, lies at or below that child.
LEMMA BetweenChild ==
    ASSUME NEW p, IsPath(p), NEW q, IsPath(q), NEW c, IsPath(c), Len(c) = Len(p) + 1,
           IsPrefixOf(p, c), IsPrefixOf(c, q),
           NEW r, IsPath(r), IsPrefixOf(p, r), r # p, IsPrefixOf(r, q)
    PROVE  IsPrefixOf(c, r)
<1>1. IsPrefixOf(p, q)
  BY PrefixTransitive
<1>2. p # q
  <2>1. Len(p) \in Nat /\ Len(c) \in 0 .. Len(q)
    BY PathPrefixes, PrefixOfPath
  <2>2. Len(p) # Len(q)
    <3>1. Len(q) \in Nat
      BY PathPrefixes
    <3>2. QED
      BY <2>1, <3>1
  <2>3. QED
    BY <2>2
<1>3. PICK b : /\ IsPath(b) /\ Len(b) = Len(p) + 1 /\ IsPrefixOf(b, q)
               /\ \A s : IsPath(s) /\ IsPrefixOf(p, s) /\ s # p /\ IsPrefixOf(s, q) => IsPrefixOf(b, s)
  BY <1>1, <1>2, ChildAbove
<1>4. b = c
  BY <1>3, OneOfEachLength
<1>5. QED
  BY <1>3, <1>4

\* The closed form of compareValue fits its recursion.
LEMMA CompareFits ==
    ASSUME NEW left, IsObject(left), NEW right, IsObject(right), NEW g,
           g = [p \in DOMAIN left \cap DOMAIN right |-> ChangedBelow(left, right, p)],
           NEW p \in DOMAIN left \cap DOMAIN right
    PROVE  g[p] = compareNode(left, right, g, p)
<1> DEFINE both == DOMAIN left \cap DOMAIN right
           all == DOMAIN left \cup DOMAIN right
           C == Children(left, p) \cup Children(right, p)
           Child(q) == IF q \in both THEN g[q] ELSE {q}
           diff == ChangedBelow(left, right, p)
<1>1. g[p] = diff /\ \A q \in both : g[q] = ChangedBelow(left, right, q)
  OBVIOUS
<1>2. IsPath(p) /\ IsPrefixOf(p, p) /\ \A q \in all : IsPath(q)
  BY PathPrefixes DEF IsObject
<1>3. \A q \in all : IsPrefixOf(p, q) /\ q # p =>
         \E c \in C : IsPath(c) /\ IsPrefixOf(c, q)
  BY ChildOn
<1>4. \A c \in C : /\ c \in all /\ IsPath(c) /\ IsPrefixOf(p, c) /\ c # p /\ Len(c) = Len(p) + 1
                   /\ IsPrefixOf(c, c)
  BY BelowChild, PathPrefixes DEF Children
<1>5. CASE left[p] # right[p]
  <2>1. DifferAt(left, right, p)
    BY <1>5 DEF DifferAt
  <2>2. p \in diff
    BY <1>2, <2>1, NothingBetween DEF ChangedBelow
  <2>3. ASSUME NEW q \in diff, q # p
        PROVE  FALSE
    <3>1. q \in all /\ IsPrefixOf(p, q)
      BY <2>3 DEF ChangedBelow
    <3>2. p \in StrictPrefixes(q)
      BY <1>2, <2>3, <3>1, StrictOnes
    <3>3. QED
      BY <1>2, <2>1, <2>3, <3>2 DEF ChangedBelow
  <2>4. diff = {p}
    BY <2>2, <2>3
  <2>5. QED
    BY <1>1, <1>5, <2>4 DEF compareNode
<1>6. CASE left[p] = right[p] /\ left[p] \in Containers
  <2>1. ~DifferAt(left, right, p)
    BY <1>6 DEF DifferAt
  <2>2. ASSUME NEW q \in diff
        PROVE  \E c \in C : q \in Child(c)
    <3>1. /\ q \in all /\ IsPath(q) /\ IsPrefixOf(p, q) /\ q # p /\ DifferAt(left, right, q)
          /\ \A r \in StrictPrefixes(q) : IsPrefixOf(p, r) => ~DifferAt(left, right, r)
      BY <1>2, <2>1, <2>2 DEF ChangedBelow
    <3>2. PICK c \in C : IsPath(c) /\ IsPrefixOf(c, q)
      BY <1>3, <3>1
    <3>3. CASE c \in both
      <4>1. ASSUME NEW r \in StrictPrefixes(q), IsPrefixOf(c, r)
            PROVE  ~DifferAt(left, right, r)
        <5>1. IsPath(r) /\ IsPrefixOf(p, r)
          BY <1>2, <1>4, <3>1, <4>1, StrictOnes, PrefixTransitive
        <5>2. QED
          BY <3>1, <4>1, <5>1
      <4>2. q \in ChangedBelow(left, right, c)
        BY <3>1, <3>2, <4>1 DEF ChangedBelow
      <4>3. QED
        BY <1>1, <3>2, <3>3, <4>2
    <3>4. CASE c \notin both
      <4>1. DifferAt(left, right, c)
        BY <1>4, <3>4 DEF DifferAt
      <4>2. c = q
        BY <1>4, <3>1, <3>2, <4>1, StrictOnes
      <4>3. QED
        BY <3>2, <3>4, <4>2
    <3>5. QED
      BY <3>3, <3>4
  <2>3. ASSUME NEW c \in C, NEW q \in Child(c)
        PROVE  q \in diff
    <3>1. /\ q \in all /\ IsPath(q) /\ IsPrefixOf(c, q) /\ DifferAt(left, right, q)
          /\ \A r \in StrictPrefixes(q) : IsPrefixOf(c, r) => ~DifferAt(left, right, r)
      <4>1. CASE c \in both
        BY <1>1, <1>2, <2>3, <4>1 DEF ChangedBelow
      <4>2. CASE c \notin both
        <5>1. q = c /\ DifferAt(left, right, c)
          BY <1>4, <2>3, <4>2 DEF DifferAt
        <5>2. \A r \in StrictPrefixes(c) : ~IsPrefixOf(c, r)
          BY <1>4, NothingBetween
        <5>3. QED
          BY <1>4, <5>1, <5>2
      <4>3. QED
        BY <4>1, <4>2
    <3>2. IsPrefixOf(p, q)
      BY <1>2, <1>4, <3>1, PrefixTransitive
    <3>3. ASSUME NEW r \in StrictPrefixes(q), IsPrefixOf(p, r)
          PROVE  ~DifferAt(left, right, r)
      <4>1. IsPath(r) /\ IsPrefixOf(r, q)
        BY <3>1, StrictOnes
      <4>2. r # p => IsPrefixOf(c, r)
        BY <1>2, <1>4, <3>1, <3>3, <4>1, BetweenChild
      <4>3. QED
        BY <2>1, <3>1, <3>3, <4>2
    <3>4. QED
      BY <3>1, <3>2, <3>3 DEF ChangedBelow
  <2>4. diff = UNION {Child(c) : c \in C}
    <3> HIDE DEF diff, C, Child
    <3>1. QED
      BY <2>2, <2>3
  <2> HIDE DEF diff
  <2>5. QED
    BY <1>1, <1>6, <2>4 DEF compareNode
<1>7. CASE left[p] = right[p] /\ left[p] \notin Containers
  <2>1. ~DifferAt(left, right, p)
    BY <1>7 DEF DifferAt
  <2>2. \A q \in all : IsPrefixOf(p, q) => q = p
    BY <1>7, NothingBelowScalar
  <2>3. diff = {}
    BY <2>1, <2>2 DEF ChangedBelow
  <2>4. QED
    BY <1>1, <1>7, <2>3 DEF compareNode
<1>8. QED
  BY <1>5, <1>6, <1>7

LEMMA CompareValueIs ==
    ASSUME NEW left, IsObject(left), Shallow(DOMAIN left), NEW right, IsObject(right),
           NEW p \in DOMAIN left \cap DOMAIN right
    PROVE  compareValue(left, right)[p] = ChangedBelow(left, right, p)
<1> DEFINE both == DOMAIN left \cap DOMAIN right
           Fits(f) == f = [q \in both |-> compareNode(left, right, f, q)]
           g == [q \in both |-> ChangedBelow(left, right, q)]
           walk == compareValue(left, right)
<1>1. Fits(g)
  <2>1. \A q \in both : g[q] = compareNode(left, right, g, q)
    BY CompareFits
  <2>2. g = [q \in both |-> g[q]]
    OBVIOUS
  <2> HIDE DEF g
  <2>3. QED
    BY <2>1, <2>2
<1>2. walk = CHOOSE f : Fits(f)
  BY DEF compareValue
<1> HIDE DEF Fits
<1>3. Fits(walk)
  BY <1>1, <1>2, Zenon
<1>4. \A q \in both :
          walk[q] = compareNode(left, right, walk, q) /\ g[q] = compareNode(left, right, g, q)
  <2> HIDE DEF walk, g, both
  <2>1. QED
    BY <1>1, <1>3 DEF Fits
<1>5. g[p] = ChangedBelow(left, right, p)
  OBVIOUS
<1> HIDE DEF walk, g
<1>6. ASSUME NEW q \in both,
             \A c \in both : Len(c) = Len(q) + 1 /\ Parent(c) = q => walk[c] = g[c]
      PROVE  walk[q] = g[q]
  <2> DEFINE C == Children(left, q) \cup Children(right, q)
  <2>1. \A c \in C : c \in both => walk[c] = g[c]
    BY <1>6 DEF Children
  <2>2. {IF c \in both THEN walk[c] ELSE {c} : c \in C} = {IF c \in both THEN g[c] ELSE {c} : c \in C}
    <3> HIDE DEF C
    <3>1. QED
      BY <2>1
  <2>3. compareNode(left, right, walk, q) = compareNode(left, right, g, q)
    BY <2>2 DEF compareNode
  <2>4. QED
    BY <1>4, <2>3
<1>7. AgreeAbove(both, walk, g)
  BY <1>6 DEF AgreeAbove
<1>8. Shallow(both)
  BY DEF Shallow
<1>9. \A q \in both : walk[q] = g[q]
  <2> HIDE DEF both
  <2>1. QED
    BY <1>7, <1>8, FromTheDepths
<1>10. QED
  BY <1>5, <1>9 DEF walk

-----------------------------------------------------------------------------
(* The walks from the root                                                 *)

LEMMA RootLeads ==
    ASSUME NEW q, IsPath(q)
    PROVE  IsPrefixOf(<<>>, q)
<1>1. Len(q) \in Nat /\ 0 \in 0 .. Len(q) /\ Len(<<>>) = 0
  BY PathPrefixes
<1>2. SubSeq(q, 1, 0) = <<>>
  BY <1>1 DEF IsPath
<1>3. QED
  BY <1>1, <1>2 DEF IsPrefixOf

LEMMA MatchedFromRoot ==
    ASSUME NEW q, IsPath(q), NEW patterns
    PROVE  MatchedFrom(<<>>, q, patterns) <=> Covered(q, patterns)
<1>1. \A r \in Prefixes(q) : IsPrefixOf(<<>>, r)
  BY PrefixesArePrefixes, RootLeads
<1>2. QED
  BY <1>1 DEF MatchedFrom, Covered

LEMMA StripWalkAgrees ==
    ASSUME NEW object, IsObject(object), Shallow(DOMAIN object), NEW patterns
    PROVE  AsObject(stripValue(object, patterns)[<<>>]) = Copy(Strip(object, patterns), <<>>)
<1> DEFINE leaves == {q \in DOMAIN object : object[q] # MapNode /\ ~Covered(q, patterns)}
<1>1. StripLeaves(object, patterns, <<>>) = leaves
  BY RootLeads, MatchedFromRoot DEF StripLeaves, IsObject
<1>2. stripValue(object, patterns)[<<>>] = Gathered(object, leaves, <<>>)
  <2>1. <<>> \in DOMAIN object
    BY DEF IsObject
  <2>2. QED
    BY <1>1, <2>1, StripValueIs
<1>3. Copy(Prune(object, leaves), <<>>) = AsObject(Gathered(object, leaves, <<>>))
  BY PruneGathers
<1>4. Strip(object, patterns) = Prune(object, leaves)
  BY DEF Strip
<1> HIDE DEF leaves
<1>5. QED
  BY <1>2, <1>3, <1>4

LEMMA ExtractWalkAgrees ==
    ASSUME NEW object, IsObject(object), Shallow(DOMAIN object), NEW patterns,
           \A pattern \in patterns : IsPath(pattern)
    PROVE  AsObject(extractValue(object, patterns)[<<>>]) = Copy(Extract(object, patterns), <<>>)
<1> DEFINE leaves == {q \in DOMAIN object :
                        \/ Covered(q, patterns)
                        \/ object[q] \notin Containers /\ hasAnyDescendantMatch(q, patterns)}
<1>1. ExtractLeaves(object, patterns, <<>>) = leaves
  BY RootLeads, MatchedFromRoot DEF ExtractLeaves, IsObject
<1>2. extractValue(object, patterns)[<<>>] = Gathered(object, leaves, <<>>)
  <2>1. <<>> \in DOMAIN object
    BY DEF IsObject
  <2>2. QED
    BY <1>1, <2>1, ExtractValueIs
<1>3. Copy(Prune(object, leaves), <<>>) = AsObject(Gathered(object, leaves, <<>>))
  BY PruneGathers
<1>4. Extract(object, patterns) = Prune(object, leaves)
  BY DEF Extract
<1> HIDE DEF leaves
<1>5. QED
  BY <1>2, <1>3, <1>4

LEMMA CompareWalkAgrees ==
    ASSUME NEW left, IsObject(left), Shallow(DOMAIN left), NEW right, IsObject(right)
    PROVE  compareValue(left, right)[<<>>] = Changed(left, right)
<1>1. <<>> \in DOMAIN left \cap DOMAIN right
  BY DEF IsObject
<1>2. \A q \in DOMAIN left \cup DOMAIN right :
         IsPath(q) /\ IsPrefixOf(<<>>, q) /\ \A r \in StrictPrefixes(q) : IsPrefixOf(<<>>, r)
  BY RootLeads, StrictOnes DEF IsObject
<1>3. ChangedBelow(left, right, <<>>) = Changed(left, right)
  BY <1>2 DEF ChangedBelow, Changed
<1>4. QED
  BY <1>1, <1>3, CompareValueIs

\* The walks of strip.go, extract.go and diff.go return what ObjectDiff says they
\* return (WalksAgree), for any objects and any patterns.
THEOREM WalksAreClosed == Spec => []WalksAgree
<1>1. ASSUME ObjectsInv
      PROVE  WalksAgree
  <2>1. /\ IsObject(old) /\ Shallow(DOMAIN old)
        /\ IsObject(new) /\ Shallow(DOMAIN new)
    BY <1>1 DEF ObjectsInv
  <2>2. compareValue(old, new)[<<>>] = Changed(old, new)
    BY <2>1, CompareWalkAgrees
  <2>3. ASSUME NEW patterns \in PatternSets
        PROVE  /\ AsObject(stripValue(old, patterns)[<<>>]) = Copy(Strip(old, patterns), <<>>)
               /\ AsObject(extractValue(old, patterns)[<<>>]) = Copy(Extract(old, patterns), <<>>)
    <3>1. \A pattern \in patterns : IsPath(pattern)
      BY <2>3, PatternsArePaths
    <3>2. QED
      BY <2>1, <3>1, StripWalkAgrees, ExtractWalkAgrees
  <2>4. QED
    BY <2>2, <2>3 DEF WalksAgree
<1>2. ObjectsInv => WalksAgree
  BY <1>1
<1>3. QED
  BY <1>2, AlwaysObjects, PTL

=============================================================================
