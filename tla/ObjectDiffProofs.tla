--------------------------- MODULE ObjectDiffProofs ---------------------------
(***************************************************************************)
(* Facts about Strip, Extract and Compare for every object and every list  *)
(* of patterns, which the theorems about verdicts rest on.                 *)
(***************************************************************************)
EXTENDS ObjectDiff, TLAPS, SequenceTheorems, WellFoundedInduction

\* A path and its own prefixes.
LEMMA PathPrefixes ==
    ASSUME NEW p, IsPath(p)
    PROVE  /\ Len(p) \in Nat
           /\ IsPrefixOf(p, p)
           /\ p \in Prefixes(p)
           /\ \A m \in 0 .. Len(p) :
                 /\ Len(SubSeq(p, 1, m)) = m
                 /\ IsPrefixOf(SubSeq(p, 1, m), p)
                 /\ SubSeq(p, 1, m) \in Prefixes(p)
                 /\ \A k \in 0 .. m : SubSeq(SubSeq(p, 1, m), 1, k) = SubSeq(p, 1, k)
<1> DEFINE S == {p[i] : i \in DOMAIN p}
<1>1. p \in Seq(S) /\ Len(p) \in Nat
  BY LenProperties DEF IsPath
<1>2. SubSeq(p, 1, Len(p)) = p
  BY <1>1, SMT
<1>3. ASSUME NEW m \in 0 .. Len(p)
      PROVE  /\ Len(SubSeq(p, 1, m)) = m
             /\ IsPrefixOf(SubSeq(p, 1, m), p)
             /\ SubSeq(p, 1, m) \in Prefixes(p)
             /\ \A k \in 0 .. m : SubSeq(SubSeq(p, 1, m), 1, k) = SubSeq(p, 1, k)
  <2>1. SubSeq(p, 1, m) \in Seq(S) /\ Len(SubSeq(p, 1, m)) = m
    BY <1>1, SMT
  <2>2. SubSeq(p, 1, m) \in Prefixes(p)
    <3>1. CASE m = Len(p)
      BY <3>1, <1>2 DEF Prefixes
    <3>2. CASE m # Len(p)
      <4>1. m \in 0 .. Len(p) - 1
        BY <3>2, <1>1
      <4>2. QED
        BY <4>1 DEF Prefixes, StrictPrefixes
    <3>3. QED
      BY <3>1, <3>2
  <2>3. ASSUME NEW k \in 0 .. m
        PROVE  SubSeq(SubSeq(p, 1, m), 1, k) = SubSeq(p, 1, k)
    BY <1>1, <2>1, SMT
  <2>4. QED
    BY <1>1, <2>1, <2>2, <2>3 DEF IsPrefixOf
<1> HIDE DEF S
<1>4. IsPrefixOf(p, p)
  BY <1>1, <1>2 DEF IsPrefixOf
<1>5. p \in Prefixes(p)
  BY DEF Prefixes
<1>6. QED
  BY <1>1, <1>3, <1>4, <1>5

\* The prefixes of a path are paths, and the parent of a path the longest of them
\* that it is not itself.
LEMMA PrefixIsPath ==
    ASSUME NEW p, IsPath(p), NEW m \in 0 .. Len(p)
    PROVE  IsPath(SubSeq(p, 1, m))
<1> DEFINE s == SubSeq(p, 1, m)
<1>1. Len(p) \in Nat /\ p \in Seq({p[i] : i \in DOMAIN p})
  BY PathPrefixes DEF IsPath
<1>2. s \in Seq({p[i] : i \in DOMAIN p}) /\ Len(s) = m
  BY <1>1, SMT
<1> HIDE DEF s
<1>3. DOMAIN s = 1 .. Len(s) /\ Len(s) \in Nat
  BY <1>2, LenProperties
<1>4. s = [i \in 1 .. Len(s) |-> s[i]]
  BY <1>2
<1>5. s \in [1 .. Len(s) -> {s[i] : i \in DOMAIN s}]
  BY <1>3, <1>4
<1>6. s \in Seq({s[i] : i \in DOMAIN s})
  BY <1>3, <1>5, SeqDef
<1>7. QED
  BY <1>6 DEF IsPath, s

\* Prefixes, in terms of IsPrefixOf.
LEMMA PrefixesArePrefixes ==
    ASSUME NEW p, IsPath(p), NEW r \in Prefixes(p)
    PROVE  IsPath(r) /\ IsPrefixOf(r, p) /\ Len(r) \in 0 .. Len(p) /\ r = SubSeq(p, 1, Len(r))
<1>1. Len(p) \in Nat /\ SubSeq(p, 1, Len(p)) = p
  BY PathPrefixes DEF IsPrefixOf
<1>2. PICK m \in 0 .. Len(p) : r = SubSeq(p, 1, m)
  BY <1>1 DEF Prefixes, StrictPrefixes
<1>3. QED
  BY <1>2, PathPrefixes, PrefixIsPath

LEMMA PrefixOfPath ==
    ASSUME NEW p, IsPath(p), NEW r, IsPath(r), IsPrefixOf(r, p)
    PROVE  r \in Prefixes(p) /\ Len(r) \in 0 .. Len(p) /\ r = SubSeq(p, 1, Len(r))
<1>1. Len(r) \in 0 .. Len(p) /\ r = SubSeq(p, 1, Len(r))
  BY PathPrefixes DEF IsPrefixOf
<1>2. QED
  BY <1>1, PathPrefixes

LEMMA PrefixTransitive ==
    ASSUME NEW p, IsPath(p), NEW q, IsPath(q), NEW r, IsPath(r),
           IsPrefixOf(r, q), IsPrefixOf(q, p)
    PROVE  IsPrefixOf(r, p)
<1>1. /\ Len(q) \in 0 .. Len(p) /\ q = SubSeq(p, 1, Len(q))
      /\ Len(r) \in 0 .. Len(q) /\ r = SubSeq(q, 1, Len(r))
  BY PrefixOfPath
<1>2. r = SubSeq(p, 1, Len(r)) /\ Len(r) \in 0 .. Len(p)
  BY <1>1, PathPrefixes
<1>3. QED
  BY <1>2 DEF IsPrefixOf

LEMMA ParentIsPrefix ==
    ASSUME NEW p, IsPath(p), p # <<>>
    PROVE  /\ IsPath(Parent(p)) /\ IsPrefixOf(Parent(p), p)
           /\ Len(p) \in Nat \ {0} /\ Len(Parent(p)) = Len(p) - 1 /\ Parent(p) # p
           /\ \A r : IsPath(r) /\ IsPrefixOf(r, p) => r = p \/ IsPrefixOf(r, Parent(p))
<1>1. Len(p) \in Nat \ {0}
  BY EmptySeq DEF IsPath
<1>2. /\ IsPath(Parent(p)) /\ IsPrefixOf(Parent(p), p) /\ Len(Parent(p)) = Len(p) - 1
      /\ \A k \in 0 .. Len(p) - 1 : SubSeq(Parent(p), 1, k) = SubSeq(p, 1, k)
  <2>1. Len(p) - 1 \in 0 .. Len(p) /\ Parent(p) = SubSeq(p, 1, Len(p) - 1)
    BY <1>1 DEF Parent
  <2>2. QED
    BY <2>1, PathPrefixes, PrefixIsPath
<1>3. ASSUME NEW r, IsPath(r), IsPrefixOf(r, p), r # p
      PROVE  IsPrefixOf(r, Parent(p))
  <2>1. Len(r) \in 0 .. Len(p) /\ r = SubSeq(p, 1, Len(r)) /\ SubSeq(p, 1, Len(p)) = p
    BY <1>3, PrefixOfPath, PathPrefixes DEF IsPrefixOf
  <2>2. Len(r) \in 0 .. Len(p) - 1
    BY <1>1, <1>3, <2>1
  <2>3. QED
    BY <1>2, <2>1, <2>2 DEF IsPrefixOf
<1>4. QED
  BY <1>1, <1>2, <1>3

\* What lies below a covered path is covered.
LEMMA CoveredBelow ==
    ASSUME NEW p, IsPath(p), NEW q, IsPath(q), IsPrefixOf(p, q), NEW patterns,
           Covered(p, patterns)
    PROVE  Covered(q, patterns)
<1>1. PICK r \in Prefixes(p) : matchesAnyPath(r, patterns)
  BY DEF Covered
<1>2. r \in Prefixes(q)
  BY PrefixesArePrefixes, PrefixTransitive, PrefixOfPath
<1>3. QED
  BY <1>1, <1>2 DEF Covered

LEMMA CoveredUnion ==
    ASSUME NEW p, NEW first, NEW second
    PROVE  Covered(p, first \cup second) <=> Covered(p, first) \/ Covered(p, second)
BY DEF Covered, matchesAnyPath

\* What a longer list of patterns leaves uncovered a shorter one does as well.
LEMMA CoveredByMore ==
    ASSUME NEW p, NEW few, NEW many, few \subseteq many, Covered(p, few)
    PROVE  Covered(p, many)
BY DEF Covered, matchesAnyPath

-----------------------------------------------------------------------------
(* Prune, and what it is used for                                          *)

\* A leaf stays what it is.
LEMMA PruneKeepsLeaves ==
    ASSUME NEW object, NEW leaves, leaves \subseteq DOMAIN object,
           NEW p \in leaves, IsPath(p)
    PROVE  p \in DOMAIN Prune(object, leaves) /\ Prune(object, leaves)[p] = object[p]
<1>1. p \in {q \in DOMAIN object : \E r \in leaves : IsPrefixOf(q, r)}
  BY PathPrefixes
<1>2. QED
  BY <1>1 DEF Prune

\* What is left below the root was there before; at most it is null now.
LEMMA PruneAddsNothing ==
    ASSUME NEW object, NEW leaves, NEW p \in DOMAIN Prune(object, leaves), p # <<>>
    PROVE  p \in DOMAIN object /\ Prune(object, leaves)[p] \in {object[p], Null}
BY DEF Prune

\* What becomes of the node at p: a scalar or a list is carried over, and
\* nothing appears that was not there, null apart.
Carries(before, after, p) ==
    /\ p \in DOMAIN before /\ before[p] \notin {MapNode, Null} =>
          p \in DOMAIN after /\ after[p] = before[p]
    /\ p \in DOMAIN after => p \in DOMAIN before /\ after[p] \in {before[p], Null}

LEMMA CarriesOn ==
    ASSUME NEW first, NEW second, NEW third, NEW p,
           Carries(first, second, p), Carries(second, third, p)
    PROVE  Carries(first, third, p)
BY DEF Carries

LEMMA StripCarries ==
    ASSUME NEW object, NEW patterns, NEW p, IsPath(p), p # <<>>, ~Covered(p, patterns)
    PROVE  Carries(object, Strip(object, patterns), p)
<1> DEFINE leaves == {q \in DOMAIN object : object[q] # MapNode /\ ~Covered(q, patterns)}
<1>1. leaves \subseteq DOMAIN object /\ Strip(object, patterns) = Prune(object, leaves)
  BY DEF Strip
<1>2. p \in DOMAIN object /\ object[p] \notin {MapNode, Null} => p \in leaves
  OBVIOUS
<1> HIDE DEF leaves
<1>3. QED
  BY <1>1, <1>2, PruneKeepsLeaves, PruneAddsNothing DEF Carries

LEMMA ExtractCarries ==
    ASSUME NEW object, NEW patterns, NEW p, IsPath(p), p # <<>>, Covered(p, patterns)
    PROVE  Carries(object, Extract(object, patterns), p)
<1> DEFINE leaves == {q \in DOMAIN object :
                        \/ Covered(q, patterns)
                        \/ object[q] \notin Containers /\ hasAnyDescendantMatch(q, patterns)}
<1>1. leaves \subseteq DOMAIN object /\ Extract(object, patterns) = Prune(object, leaves)
  BY DEF Extract
<1>2. p \in DOMAIN object => p \in leaves
  OBVIOUS
<1> HIDE DEF leaves
<1>3. QED
  BY <1>1, <1>2, PruneKeepsLeaves, PruneAddsNothing DEF Carries

\* Every set of naturals that is not empty has a least element.
LEMMA LeastNatural ==
    ASSUME NEW T, T \subseteq Nat, T # {}
    PROVE  \E m \in T : \A k \in T : ~(k < m)
<1> DEFINE R == OpToRel(<, Nat)
<1>1. IsWellFoundedOn(R, Nat)
  BY NatLessThanWellFounded
<1>2. \A k, m \in Nat : k < m => <<k, m>> \in R
  BY DEF OpToRel
<1> HIDE DEF R
<1>3. \E m \in T : \A k \in T : ~(<<k, m>> \in R)
  BY <1>1, WFMin
<1>4. QED
  BY <1>2, <1>3

-----------------------------------------------------------------------------
(* Objects                                                                 *)

\* The root and the paths of an object, all that StripTwice needs of it.
HasPaths(object) == <<>> \in DOMAIN object /\ \A p \in DOMAIN object : IsPath(p)

\* Stripping twice is stripping once by both lists of patterns: a list that the
\* first Strip keeps keeps its length, and with it the indexes the second sees.
LEMMA StripTwice ==
    ASSUME NEW object, NEW first, NEW second, HasPaths(object), object[<<>>] = MapNode
    PROVE  Strip(Strip(object, first), second) = Strip(object, first \cup second)
<1> DEFINE Holes(o, kept) == {p \in DOMAIN o \ (kept \cup {<<>>}) :
                                 Parent(p) \in kept /\ o[Parent(p)] = ListNode}
           leaves1 == {q \in DOMAIN object : object[q] # MapNode /\ ~Covered(q, first)}
           kept1 == {p \in DOMAIN object : \E q \in leaves1 : IsPrefixOf(p, q)}
           holes1 == Holes(object, kept1)
           once == Strip(object, first)
           both == {q \in DOMAIN object : object[q] # MapNode /\ ~Covered(q, first \cup second)}
           kept == {p \in DOMAIN object : \E q \in both : IsPrefixOf(p, q)}
           holes == Holes(object, kept)
           leaves2 == {q \in DOMAIN once : once[q] # MapNode /\ ~Covered(q, second)}
           kept2 == {p \in DOMAIN once : \E q \in leaves2 : IsPrefixOf(p, q)}
           holes2 == Holes(once, kept2)
           H == {h \in holes1 : ~Covered(h, second)}
<1>1. /\ once = [p \in kept1 \cup holes1 \cup {<<>>} |-> IF p \in holes1 THEN Null ELSE object[p]]
      /\ Strip(object, first \cup second) =
             [p \in kept \cup holes \cup {<<>>} |-> IF p \in holes THEN Null ELSE object[p]]
      /\ Strip(once, second) =
             [p \in kept2 \cup holes2 \cup {<<>>} |-> IF p \in holes2 THEN Null ELSE once[p]]
  BY DEF Strip, Prune
<1>2. \A p \in kept1 : ~Covered(p, first)
  BY CoveredBelow DEF HasPaths
<1>3. /\ kept1 \cap holes1 = {} /\ <<>> \notin holes1 /\ <<>> \notin holes
      /\ DOMAIN once = kept1 \cup holes1 \cup {<<>>}
      /\ \A p \in kept1 : once[p] = object[p]
      /\ \A p \in holes1 : once[p] = Null
      /\ once[<<>>] = MapNode
  BY <1>1
<1>4. both \subseteq kept1 /\ kept \subseteq kept1
  <2>1. both \subseteq leaves1
    BY CoveredUnion
  <2>2. \A q \in leaves1 : IsPrefixOf(q, q)
    BY PathPrefixes DEF HasPaths
  <2> HIDE DEF leaves1, both
  <2>3. QED
    BY <2>1, <2>2 DEF both
<1>5. leaves2 = both \cup H
  <2>1. ASSUME NEW q \in kept1
        PROVE  q \in leaves2 <=> q \in both
    BY <1>2, <1>3, CoveredUnion
  <2>2. ASSUME NEW q \in holes1
        PROVE  q \in leaves2 <=> q \in H
    BY <1>3, <2>2 DEF Null, MapNode
  <2>3. <<>> \notin leaves2
    BY <1>3
  <2> HIDE DEF kept1, holes1, both, once
  <2>4. QED
    BY <1>3, <1>4, <2>1, <2>2, <2>3
<1>6. ASSUME NEW h \in H
      PROVE  Parent(h) \in both /\ object[Parent(h)] = ListNode
                /\ \A p \in DOMAIN object : IsPrefixOf(p, h) => p = h \/ p \in kept
  <2>1. /\ h \in DOMAIN object /\ h # <<>> /\ IsPath(h) /\ ~Covered(h, second)
        /\ Parent(h) \in kept1 /\ object[Parent(h)] = ListNode
    BY DEF HasPaths
  <2>2. ~Covered(Parent(h), second)
    BY <2>1, ParentIsPrefix, CoveredBelow
  <2>3. Parent(h) \in both
    BY <1>2, <2>1, <2>2, CoveredUnion DEF ListNode, MapNode
  <2>4. ASSUME NEW p \in DOMAIN object, IsPrefixOf(p, h), p # h
        PROVE  p \in kept
    <3>1. IsPrefixOf(p, Parent(h))
      BY <2>1, <2>4, ParentIsPrefix DEF HasPaths
    <3>2. QED
      BY <2>3, <3>1
  <2>5. QED
    BY <2>1, <2>3, <2>4
<1>7. kept2 = kept \cup H
  <2>1. DOMAIN once \subseteq DOMAIN object \cup {<<>>}
    BY <1>3 DEF HasPaths
  <2>2. \A h \in H : h \in DOMAIN once /\ IsPrefixOf(h, h)
    BY <1>3, PathPrefixes DEF HasPaths
  <2>3. kept \subseteq kept2
    BY <1>3, <1>4, <1>5
  <2>4. H \subseteq kept2
    BY <1>5, <2>2
  <2>5. ASSUME NEW p \in kept2
        PROVE  p \in kept \cup H
    <3>1. PICK q \in both \cup H : IsPrefixOf(p, q)
      BY <1>5, <2>5
    <3>2. p \in DOMAIN object
      <4>1. p \in DOMAIN once /\ <<>> \in DOMAIN object
        BY <2>5 DEF HasPaths
      <4> HIDE DEF once
      <4>2. QED
        BY <2>1, <4>1
    <3>3. QED
      BY <1>6, <3>1, <3>2
  <2>6. QED
    BY <2>3, <2>4, <2>5
<1>8. holes = H \cup holes2
  <2>1. ASSUME NEW p \in H
        PROVE  p \in holes
    <3>1. p \in DOMAIN object /\ p # <<>> /\ p \notin kept1
      BY <1>3
    <3>2. \A q \in both : IsPrefixOf(q, q)
      BY PathPrefixes DEF HasPaths
    <3>3. Parent(p) \in kept /\ object[Parent(p)] = ListNode
      BY <1>6, <3>2
    <3>4. QED
      BY <1>4, <3>1, <3>3
  <2>2. ASSUME NEW p \in holes2
        PROVE  p \in holes
    <3>1. /\ p \in DOMAIN once /\ p \notin kept2 /\ p # <<>>
          /\ Parent(p) \in kept2 /\ once[Parent(p)] = ListNode
      OBVIOUS
    <3>2. Parent(p) \in kept /\ object[Parent(p)] = ListNode
      <4>1. \A h \in H : once[h] # ListNode
        BY <1>3 DEF Null, ListNode
      <4>2. QED
        BY <1>3, <1>4, <1>7, <3>1, <4>1
    <3>3. p \in DOMAIN object
      BY <1>3, <3>1
    <3>4. QED
      BY <1>7, <3>1, <3>2, <3>3
  <2>3. ASSUME NEW p \in holes
        PROVE  p \in H \cup holes2
    <3>1. /\ p \in DOMAIN object /\ p # <<>> /\ p \notin kept
          /\ Parent(p) \in kept /\ object[Parent(p)] = ListNode
      OBVIOUS
    <3>2. Parent(p) \in kept1 /\ Parent(p) \in kept2 /\ once[Parent(p)] = ListNode
      BY <1>3, <1>4, <1>7, <3>1
    <3>3. p \in DOMAIN once
      BY <1>3, <3>1, <3>2
    <3>4. QED
      BY <1>7, <3>1, <3>2, <3>3
  <2> HIDE DEF holes, holes2, H
  <2>4. QED
    BY <2>1, <2>2, <2>3
<1>9. ASSUME NEW p \in kept2 \cup holes2 \cup {<<>>}
      PROVE  (IF p \in holes2 THEN Null ELSE once[p]) = (IF p \in holes THEN Null ELSE object[p])
  <2>1. CASE p \in holes2
    BY <1>8, <2>1
  <2>2. CASE p \in H
    <3>1. once[p] = Null /\ p \in holes
      BY <1>3, <1>8, <2>2
    <3>2. QED
      BY <3>1
  <2>3. CASE p \in kept
    <3>1. p \notin holes /\ p \notin holes2 /\ once[p] = object[p]
      BY <1>3, <1>4, <1>7, <2>3
    <3>2. QED
      BY <3>1
  <2>4. CASE p = <<>>
    <3>1. <<>> \notin holes /\ <<>> \notin holes2
      OBVIOUS
    <3>2. QED
      BY <1>3, <2>4, <3>1
  <2>5. QED
    BY <1>7, <1>9, <2>1, <2>2, <2>3, <2>4
<1>10. kept2 \cup holes2 \cup {<<>>} = kept \cup holes \cup {<<>>}
  BY <1>7, <1>8
<1> HIDE DEF kept, holes, kept2, holes2, once, H
<1>11. QED
  BY <1>1, <1>9, <1>10 DEF once
LEMMA ObjectHasPaths ==
    ASSUME NEW object, IsObject(object)
    PROVE  HasPaths(object) /\ object[<<>>] = MapNode
BY DEF IsObject, HasPaths

\* What Prune leaves is an object again.
LEMMA PruneIsObject ==
    ASSUME NEW object, IsObject(object), NEW leaves, leaves \subseteq DOMAIN object
    PROVE  IsObject(Prune(object, leaves))
<1> DEFINE kept == {p \in DOMAIN object : \E q \in leaves : IsPrefixOf(p, q)}
           holes == {p \in DOMAIN object \ (kept \cup {<<>>}) :
                        Parent(p) \in kept /\ object[Parent(p)] = ListNode}
           left == Prune(object, leaves)
<1>1. left = [p \in kept \cup holes \cup {<<>>} |-> IF p \in holes THEN Null ELSE object[p]]
  BY DEF Prune
<1>2. kept \cap holes = {} /\ <<>> \notin holes /\ kept \subseteq DOMAIN object
         /\ holes \subseteq DOMAIN object
  OBVIOUS
<1>3. /\ DOMAIN left = kept \cup holes \cup {<<>>} /\ left[<<>>] = MapNode
      /\ \A p \in kept : left[p] = object[p]
  BY <1>1, <1>2 DEF IsObject
<1>4. ASSUME NEW p \in kept, p # <<>>
      PROVE  IsChild(left, p)
  <2>1. PICK q \in leaves : IsPrefixOf(p, q)
    BY <1>4
  <2>2. IsPath(p) /\ IsPath(q) /\ IsChild(object, p)
    BY <1>2, <1>4 DEF IsObject
  <2>3. IsPrefixOf(Parent(p), q) /\ Parent(p) \in DOMAIN object
    BY <1>4, <2>1, <2>2, ParentIsPrefix, PrefixTransitive DEF IsChild
  <2>4. Parent(p) \in kept
    BY <2>3
  <2> HIDE DEF kept, left
  <2>5. QED
    BY <1>3, <2>2, <2>4 DEF IsChild
<1>5. ASSUME NEW p \in holes
      PROVE  IsChild(left, p)
  <2>1. Parent(p) \in kept /\ p \in DOMAIN object /\ p # <<>> /\ IsChild(object, p)
    BY DEF IsObject
  <2> HIDE DEF kept, left, holes
  <2>2. QED
    BY <1>3, <2>1 DEF IsChild
<1> HIDE DEF kept, left, holes
<1>6. \A p \in DOMAIN left : IsPath(p)
  BY <1>2, <1>3 DEF IsObject
<1>7. QED
  BY <1>3, <1>4, <1>5, <1>6 DEF IsObject, left

\* An object has the prefixes of the paths it has.
LEMMA PrefixInObject ==
    ASSUME NEW object, IsObject(object), NEW p \in DOMAIN object,
           NEW r, IsPath(r), IsPrefixOf(r, p)
    PROVE  r \in DOMAIN object
<1> DEFINE T == {k \in 0 .. Len(p) : SubSeq(p, 1, k) \in DOMAIN object /\ Len(r) <= k}
<1>1. /\ IsPath(p) /\ Len(p) \in Nat /\ SubSeq(p, 1, Len(p)) = p
      /\ Len(r) \in 0 .. Len(p) /\ r = SubSeq(p, 1, Len(r))
  BY PathPrefixes, PrefixOfPath DEF IsObject, IsPrefixOf
<1>2. Len(p) \in T
  <2>1. Len(p) \in 0 .. Len(p) /\ Len(r) <= Len(p)
    <3>1. Len(p) \in Nat /\ Len(r) \in 0 .. Len(p)
      BY <1>1
    <3>2. QED
      BY <3>1
  <2>2. SubSeq(p, 1, Len(p)) \in DOMAIN object
    BY <1>1, Zenon
  <2>3. QED
    BY <2>1, <2>2
<1>3. PICK m \in T : \A k \in T : ~(k < m)
  <2>1. T \subseteq Nat /\ T # {}
    BY <1>1, <1>2
  <2> HIDE DEF T
  <2>2. QED
    BY <2>1, LeastNatural
<1> DEFINE s == SubSeq(p, 1, m)
<1>4. m = Len(r)
  <2>1. SUFFICES ASSUME m # Len(r) PROVE FALSE
    OBVIOUS
  <2>2. m \in Nat /\ Len(r) \in Nat /\ Len(r) < m /\ m - 1 \in 0 .. m /\ m \in 0 .. Len(p)
    <3>1. m \in 0 .. Len(p) /\ Len(r) <= m
      BY <1>3
    <3>2. Len(p) \in Nat /\ Len(r) \in 0 .. Len(p)
      BY <1>1
    <3> HIDE DEF T, s
    <3>3. QED
      BY <2>1, <3>1, <3>2
  <2>3. s \in DOMAIN object /\ Len(s) = m /\ SubSeq(s, 1, m - 1) = SubSeq(p, 1, m - 1)
    BY <1>1, <1>3, <2>2, PathPrefixes
  <2>4. s # <<>> /\ Parent(s) = SubSeq(p, 1, m - 1)
    BY <2>2, <2>3 DEF Parent
  <2>5. SubSeq(p, 1, m - 1) \in DOMAIN object
    BY <2>3, <2>4 DEF IsObject, IsChild
  <2>6. m - 1 \in T
    BY <1>1, <2>2, <2>5
  <2>7. QED
    BY <1>3, <2>2, <2>6
<1>5. QED
  BY <1>1, <1>3, <1>4

LEMMA StripIsObject ==
    ASSUME NEW object, IsObject(object), NEW patterns
    PROVE  IsObject(Strip(object, patterns))
BY PruneIsObject DEF Strip

-----------------------------------------------------------------------------
(* What Prune leaves                                                       *)

\* A node stays what it is when a leaf is left at it or below it.
LEMMA PruneKeepsAbove ==
    ASSUME NEW object, NEW leaves, NEW p \in DOMAIN object, NEW leaf \in leaves, IsPrefixOf(p, leaf)
    PROVE  p \in DOMAIN Prune(object, leaves) /\ Prune(object, leaves)[p] = object[p]
BY DEF Prune

\* What is left and is no hole has a leaf at it or below it.
LEMMA PruneKeepsFor ==
    ASSUME NEW object, NEW leaves, NEW p \in DOMAIN Prune(object, leaves), p # <<>>,
           Prune(object, leaves)[p] # Null \/ object[Parent(p)] # ListNode
    PROVE  /\ p \in DOMAIN object /\ Prune(object, leaves)[p] = object[p]
           /\ \E leaf \in leaves : IsPrefixOf(p, leaf)
BY DEF Prune

\* A list that is left keeps its length.
LEMMA PruneKeepsElements ==
    ASSUME NEW object, NEW leaves, NEW p \in DOMAIN object, p # <<>>,
           Parent(p) \in DOMAIN object, object[Parent(p)] = ListNode,
           NEW leaf \in leaves, IsPrefixOf(Parent(p), leaf)
    PROVE  p \in DOMAIN Prune(object, leaves)
BY DEF Prune

\* A node below a map that is left is no hole.
LEMMA PruneBelowMap ==
    ASSUME NEW object, IsObject(object), NEW leaves, leaves \subseteq DOMAIN object,
           NEW p \in DOMAIN Prune(object, leaves), p # <<>>,
           Prune(object, leaves)[Parent(p)] = MapNode
    PROVE  /\ p \in DOMAIN object /\ Prune(object, leaves)[p] = object[p]
           /\ object[Parent(p)] = MapNode
           /\ \E leaf \in leaves : IsPrefixOf(p, leaf)
<1> DEFINE left == Prune(object, leaves)
<1>1. IsObject(left) /\ IsPath(p) /\ Parent(p) \in DOMAIN left
  BY PruneIsObject DEF IsObject, IsChild
<1>2. MapNode # Null /\ MapNode # ListNode
  BY DEF MapNode, Null, ListNode
<1>3. object[Parent(p)] = MapNode
  <2>1. CASE Parent(p) = <<>>
    BY <2>1 DEF IsObject
  <2>2. CASE Parent(p) # <<>>
    BY <1>1, <1>2, <2>2, PruneKeepsFor
  <2>3. QED
    BY <2>1, <2>2
<1>4. QED
  BY <1>2, <1>3, PruneKeepsFor

\* No map but the root is left empty, however deep.
Filled(object) ==
    \A p \in DOMAIN object : p # <<>> /\ object[p] = MapNode =>
        \E q \in DOMAIN object : IsPrefixOf(p, q) /\ object[q] # MapNode

LEMMA StripFills ==
    ASSUME NEW object, IsObject(object), NEW patterns
    PROVE  Filled(Strip(object, patterns))
<1> DEFINE leaves == {q \in DOMAIN object : object[q] # MapNode /\ ~Covered(q, patterns)}
           left == Prune(object, leaves)
<1>1. Strip(object, patterns) = left
  BY DEF Strip
<1>2. \A q \in leaves : q \in DOMAIN left /\ left[q] # MapNode
  BY PruneKeepsLeaves DEF IsObject
<1>3. ASSUME NEW p \in DOMAIN left, p # <<>>, left[p] = MapNode
      PROVE  \E q \in DOMAIN left : IsPrefixOf(p, q) /\ left[q] # MapNode
  <2>1. left[p] # Null
    BY <1>3 DEF MapNode, Null
  <2> HIDE DEF leaves
  <2>2. PICK q \in leaves : IsPrefixOf(p, q)
    BY <1>3, <2>1, PruneKeepsFor
  <2>3. QED
    BY <1>2, <2>2
<1> HIDE DEF left
<1>4. QED
  BY <1>1, <1>3 DEF Filled

LEMMA ExtractFills ==
    ASSUME NEW object, IsObject(object), Filled(object), NEW patterns
    PROVE  Filled(Extract(object, patterns))
<1> DEFINE leaves == {q \in DOMAIN object :
                        \/ Covered(q, patterns)
                        \/ object[q] \notin Containers /\ hasAnyDescendantMatch(q, patterns)}
           left == Prune(object, leaves)
<1>1. Extract(object, patterns) = left
  BY DEF Extract
<1>2. \A q \in leaves : q \in DOMAIN left /\ left[q] = object[q]
  BY PruneKeepsLeaves DEF IsObject
<1>3. ASSUME NEW p \in DOMAIN left, p # <<>>, left[p] = MapNode
      PROVE  \E q \in DOMAIN left : IsPrefixOf(p, q) /\ left[q] # MapNode
  <2>1. left[p] # Null
    BY <1>3 DEF MapNode, Null
  <2>2. p \in DOMAIN object /\ \E q \in leaves : IsPrefixOf(p, q)
    <3> HIDE DEF leaves
    <3>1. QED
      BY <1>3, <2>1, PruneKeepsFor
  <2>3. PICK q \in leaves : IsPrefixOf(p, q)
    BY <2>2
  <2>4. IsPath(p) /\ IsPath(q) /\ q \in DOMAIN object
    BY <2>2 DEF IsObject
  <2>5. CASE object[q] # MapNode
    BY <1>2, <2>3, <2>5
  <2>6. CASE object[q] = MapNode
    <3>1. q # <<>>
      <4>1. Len(p) \in Nat \ {0} /\ Len(p) \in 0 .. Len(q)
        BY <1>3, <2>3, <2>4, PrefixOfPath, ParentIsPrefix
      <4>2. q = <<>> => Len(q) = 0
        OBVIOUS
      <4>3. QED
        BY <4>1, <4>2
    <3>2. PICK s \in DOMAIN object : IsPrefixOf(q, s) /\ object[s] # MapNode
      BY <2>4, <2>6, <3>1 DEF Filled
    <3>3. Covered(q, patterns)
      BY <2>6 DEF Containers
    <3>4. IsPath(s) /\ Covered(s, patterns)
      BY <2>4, <3>2, <3>3, CoveredBelow DEF IsObject
    <3>5. s \in leaves
      BY <3>4
    <3>6. IsPrefixOf(p, s)
      BY <2>3, <2>4, <3>2, <3>4, PrefixTransitive
    <3>7. QED
      BY <1>2, <3>2, <3>5, <3>6
  <2>7. QED
    BY <2>5, <2>6
<1> HIDE DEF left
<1>4. QED
  BY <1>1, <1>3 DEF Filled

\* Below a map that is not empty there is a first node that is no map.
LEMMA FirstBelow ==
    ASSUME NEW object, IsObject(object), Filled(object), NEW p \in DOMAIN object, p # <<>>,
           object[p] = MapNode
    PROVE  \E q \in DOMAIN object :
               /\ q # <<>> /\ IsPrefixOf(p, q) /\ IsPrefixOf(p, Parent(q))
               /\ object[q] # MapNode /\ object[Parent(q)] = MapNode
<1>1. PICK s \in DOMAIN object : IsPrefixOf(p, s) /\ object[s] # MapNode
  BY DEF Filled
<1> DEFINE T == {k \in 0 .. Len(s) : Len(p) <= k /\ object[SubSeq(s, 1, k)] # MapNode}
<1>2. /\ IsPath(s) /\ IsPath(p) /\ Len(s) \in Nat /\ SubSeq(s, 1, Len(s)) = s
      /\ Len(p) \in 0 .. Len(s) /\ p = SubSeq(s, 1, Len(p))
  BY <1>1, PathPrefixes, PrefixOfPath DEF IsObject, IsPrefixOf
<1>3. Len(s) \in T
  <2>1. Len(s) \in 0 .. Len(s) /\ Len(p) <= Len(s)
    <3>1. Len(s) \in Nat /\ Len(p) \in 0 .. Len(s)
      BY <1>2
    <3>2. QED
      BY <3>1
  <2>2. object[SubSeq(s, 1, Len(s))] # MapNode
    BY <1>1, <1>2, Zenon
  <2>3. QED
    BY <2>1, <2>2
<1>4. PICK m \in T : \A k \in T : ~(k < m)
  <2>1. T \subseteq Nat /\ T # {}
    BY <1>2, <1>3
  <2> HIDE DEF T
  <2>2. QED
    BY <2>1, LeastNatural
<1> DEFINE q == SubSeq(s, 1, m)
<1>5. m \in 0 .. Len(s) /\ Len(p) <= m /\ object[q] # MapNode
  BY <1>4
<1>6. m # Len(p)
  BY <1>2, <1>5
<1>7. Len(q) = m /\ IsPath(q) /\ IsPrefixOf(q, s) /\ m \in Nat /\ Len(p) \in Nat
         /\ m - 1 \in 0 .. m /\ m - 1 \in 0 .. Len(s) /\ Len(p) <= m - 1 /\ m # 0
  <2>1. m \in Nat /\ Len(p) \in Nat /\ Len(p) < m /\ m <= Len(s) /\ Len(s) \in Nat
    <3>1. Len(s) \in Nat /\ Len(p) \in 0 .. Len(s) /\ m \in 0 .. Len(s) /\ Len(p) <= m /\ m # Len(p)
      BY <1>2, <1>5, <1>6
    <3> HIDE DEF q, T
    <3>2. QED
      BY <3>1
  <2>2. m - 1 \in 0 .. m /\ m - 1 \in 0 .. Len(s) /\ Len(p) <= m - 1 /\ m # 0
    BY <2>1
  <2>3. QED
    BY <1>2, <1>5, <2>1, <2>2, PathPrefixes, PrefixIsPath
<1>8. q \in DOMAIN object
  BY <1>1, <1>7, PrefixInObject
<1>9. Parent(q) = SubSeq(s, 1, m - 1) /\ q # <<>>
  <2>1. SubSeq(q, 1, m - 1) = SubSeq(s, 1, m - 1)
    BY <1>2, <1>5, <1>7, PathPrefixes
  <2>2. Parent(q) = SubSeq(q, 1, m - 1)
    BY <1>7 DEF Parent
  <2>3. QED
    BY <1>7, <2>1, <2>2
<1>10. object[Parent(q)] = MapNode
  <2>1. ~(m - 1 \in T)
    BY <1>4, <1>7
  <2>2. QED
    BY <1>7, <1>9, <2>1
<1>11. IsPrefixOf(p, q) /\ IsPrefixOf(p, Parent(q))
  <2>1. \A k \in 0 .. Len(s) : Len(p) <= k => IsPrefixOf(p, SubSeq(s, 1, k))
    <3>1. TAKE k \in 0 .. Len(s)
    <3>2. HAVE Len(p) <= k
    <3>3. Len(p) \in 0 .. k
      BY <1>2, <3>2
    <3>4. Len(SubSeq(s, 1, k)) = k /\ SubSeq(SubSeq(s, 1, k), 1, Len(p)) = SubSeq(s, 1, Len(p))
      BY <1>2, <3>3, PathPrefixes
    <3>5. QED
      BY <1>2, <3>2, <3>4 DEF IsPrefixOf
  <2>2. QED
    BY <1>5, <1>7, <1>9, <2>1
<1>12. QED
  BY <1>5, <1>8, <1>9, <1>10, <1>11

-----------------------------------------------------------------------------
(* Lists and the patterns that spare them                                  *)

\* No pattern ends in an element of a list.
SpareElements(patterns) ==
    \A pattern \in patterns : pattern[Len(pattern)][1] \notin ListSegments

\* No pattern enters a list.
StayOutside(patterns) ==
    \A pattern \in patterns :
        IsPath(pattern) /\ \A i \in DOMAIN pattern : pattern[i][1] \notin ListSegments

LEMMA SegmentOfList ==
    ASSUME NEW pattern, NEW segment, segmentsMatch(pattern, segment), segment[1] = "index"
    PROVE  pattern[1] \in ListSegments
BY DEF segmentsMatch, ListSegments, AnyField, AnyIndex

\* An element is covered only where its list is.
LEMMA ElementUncovered ==
    ASSUME NEW p, IsPath(p), p # <<>>, p[Len(p)][1] = "index",
           NEW patterns, SpareElements(patterns), ~Covered(Parent(p), patterns)
    PROVE  ~Covered(p, patterns)
<1>1. SUFFICES ASSUME NEW r \in Prefixes(p), NEW pattern \in patterns, matchesPath(pattern, r)
               PROVE  FALSE
  BY DEF Covered, matchesAnyPath
<1>2. IsPath(r) /\ IsPrefixOf(r, p)
  BY PrefixesArePrefixes
<1>3. CASE r = p
  <2>1. Len(pattern) = Len(p) /\ Len(p) \in DOMAIN p
    <3>1. Len(p) \in Nat \ {0} /\ DOMAIN p = 1 .. Len(p)
      BY ParentIsPrefix, LenProperties DEF IsPath
    <3>2. QED
      BY <1>1, <1>3, <3>1 DEF matchesPath
  <2>2. segmentsMatch(pattern[Len(pattern)], p[Len(p)])
    BY <1>1, <1>3, <2>1 DEF matchesPath
  <2>3. QED
    BY <2>2, SegmentOfList DEF SpareElements
<1>4. CASE r # p
  <2>1. IsPath(Parent(p)) /\ IsPrefixOf(r, Parent(p))
    BY <1>2, <1>4, ParentIsPrefix
  <2>2. r \in Prefixes(Parent(p))
    BY <1>2, <2>1, PrefixOfPath
  <2>3. QED
    BY <1>1, <2>2 DEF Covered, matchesAnyPath
<1>5. QED
  BY <1>3, <1>4

\* What Extract keeps for something below it is a map or itself in the pattern.
LEMMA ExtractedFor ==
    ASSUME NEW object, IsObject(object), NEW patterns, StayOutside(patterns),
           NEW q \in DOMAIN object, object[q] # MapNode,
           NEW s \in DOMAIN object, IsPrefixOf(q, s),
           \/ Covered(s, patterns)
           \/ object[s] \notin Containers /\ hasAnyDescendantMatch(s, patterns)
    PROVE  \/ Covered(q, patterns)
           \/ object[q] \notin Containers /\ hasAnyDescendantMatch(q, patterns)
<1>1. SUFFICES ASSUME s # q, ~Covered(q, patterns) PROVE FALSE
  OBVIOUS
<1>2. /\ IsPath(q) /\ IsPath(s) /\ Len(s) \in Nat /\ Len(q) \in 0 .. Len(s)
      /\ q = SubSeq(s, 1, Len(q)) /\ SubSeq(s, 1, Len(s)) = s
  BY PathPrefixes, PrefixOfPath DEF IsObject, IsPrefixOf
<1> DEFINE n == Len(q) + 1
           t == SubSeq(s, 1, n)
<1>3. n \in Nat \ {0} /\ n \in 1 .. Len(s) /\ n \in 0 .. Len(s) /\ n - 1 = Len(q) /\ Len(q) \in 0 .. n
  <2>1. Len(q) # Len(s)
    BY <1>1, <1>2
  <2>2. Len(s) \in Nat /\ Len(q) \in 0 .. Len(s)
    BY <1>2
  <2>3. QED
    BY <2>1, <2>2
<1>4. IsPath(t) /\ IsPrefixOf(t, s) /\ Len(t) = n /\ Parent(t) = q
  <2>1. IsPath(t) /\ IsPrefixOf(t, s) /\ Len(t) = n /\ SubSeq(t, 1, Len(q)) = SubSeq(s, 1, Len(q))
    BY <1>2, <1>3, PathPrefixes, PrefixIsPath
  <2> HIDE DEF t
  <2>2. QED
    BY <1>2, <1>3, <2>1 DEF Parent
<1>5. t \in DOMAIN object /\ t # <<>>
  <2>1. t \in DOMAIN object
    BY <1>4, PrefixInObject
  <2> HIDE DEF t
  <2>2. QED
    BY <1>3, <1>4, <2>1
<1>6. s[n][1] = "index"
  <2>1. t[n] = s[n]
    BY <1>2, <1>3 DEF IsPath
  <2> HIDE DEF t, n
  <2>2. t[n][1] = "index"
    BY <1>4, <1>5 DEF IsObject, IsChild
  <2>3. QED
    BY <2>1, <2>2
<1> HIDE DEF t
<1>7. DOMAIN s = 1 .. Len(s)
  BY <1>2, LenProperties DEF IsPath
<1>8. \A pattern \in patterns : DOMAIN pattern = 1 .. Len(pattern) /\ Len(pattern) \in Nat
  BY LenProperties DEF StayOutside, IsPath
<1>9. CASE Covered(s, patterns)
  <2>1. PICK r \in Prefixes(s), pattern \in patterns : matchesPath(pattern, r)
    BY <1>9 DEF Covered, matchesAnyPath
  <2>2. IsPath(r) /\ IsPrefixOf(r, s) /\ Len(r) \in 0 .. Len(s) /\ r = SubSeq(s, 1, Len(r))
    BY <1>2, PrefixesArePrefixes
  <2>3. CASE Len(r) <= Len(q)
    <3>1. Len(r) \in 0 .. Len(q)
      <4>1. Len(r) \in 0 .. Len(s) /\ Len(s) \in Nat /\ Len(q) \in 0 .. Len(s)
        BY <1>2, <2>2
      <4>2. QED
        BY <2>3, <4>1
    <3>2. SubSeq(q, 1, Len(r)) = r
      <4>1. SubSeq(SubSeq(s, 1, Len(q)), 1, Len(r)) = SubSeq(s, 1, Len(r))
        BY <1>2, <3>1, PathPrefixes
      <4>2. QED
        BY <1>2, <2>2, <4>1
    <3>3. r \in Prefixes(q)
      BY <1>2, <2>2, <2>3, <3>2, PrefixOfPath DEF IsPrefixOf
    <3>4. QED
      BY <1>1, <2>1, <3>3 DEF Covered, matchesAnyPath
  <2>4. CASE ~(Len(r) <= Len(q))
    <3>1. n \in 1 .. Len(r) /\ Len(r) \in Nat
      <4>1. Len(r) \in 0 .. Len(s) /\ Len(s) \in Nat /\ Len(q) \in 0 .. Len(s)
        BY <1>2, <2>2
      <4>2. QED
        BY <2>4, <4>1
    <3>2. DOMAIN r = 1 .. Len(r)
      BY <2>2, LenProperties DEF IsPath
    <3>3. r[n] = s[n]
      <4>1. SubSeq(s, 1, Len(r))[n] = s[n]
        BY <1>2, <2>2, <3>1 DEF IsPath
      <4>2. QED
        BY <2>2, <4>1
    <3>4. segmentsMatch(pattern[n], s[n]) /\ n \in DOMAIN pattern
      BY <1>8, <2>1, <3>1, <3>2, <3>3 DEF matchesPath
    <3>5. QED
      BY <1>6, <3>4, SegmentOfList DEF StayOutside
  <2>5. QED
    BY <2>3, <2>4
<1>10. CASE hasAnyDescendantMatch(s, patterns)
  <2>1. PICK pattern \in patterns : hasDescendantMatch(pattern, s)
    BY <1>10 DEF hasAnyDescendantMatch
  <2>2. segmentsMatch(pattern[n], s[n])
    BY <1>3, <1>7, <2>1 DEF hasDescendantMatch
  <2>3. n \in DOMAIN pattern
    <3>1. Len(s) <= Len(pattern) /\ Len(pattern) \in Nat /\ DOMAIN pattern = 1 .. Len(pattern)
      BY <1>8, <2>1 DEF hasDescendantMatch
    <3>2. Len(s) \in Nat /\ n \in 1 .. Len(s)
      BY <1>2, <1>3
    <3> HIDE DEF n
    <3>3. QED
      BY <3>1, <3>2
  <2>4. QED
    BY <1>6, <2>2, <2>3, SegmentOfList DEF StayOutside
<1>11. QED
  BY <1>9, <1>10

\* An element of a list that Strip keeps.
LEMMA StripElement ==
    ASSUME NEW object, IsObject(object), NEW patterns, SpareElements(patterns),
           NEW p \in DOMAIN object, p # <<>>,
           Parent(p) \in DOMAIN Strip(object, patterns),
           Strip(object, patterns)[Parent(p)] = ListNode
    PROVE  /\ object[Parent(p)] = ListNode /\ ~Covered(p, patterns)
           /\ p \in DOMAIN Strip(object, patterns)
           /\ object[p] # MapNode => Strip(object, patterns)[p] = object[p]
<1> DEFINE leaves == {q \in DOMAIN object : object[q] # MapNode /\ ~Covered(q, patterns)}
           left == Prune(object, leaves)
<1>1. Strip(object, patterns) = left /\ leaves \subseteq DOMAIN object
  BY DEF Strip
<1>2. /\ ListNode # Null /\ ListNode # MapNode
      /\ IsPath(p) /\ IsPath(Parent(p)) /\ IsChild(object, p) /\ object[<<>>] = MapNode
  BY ParentIsPrefix DEF ListNode, MapNode, Null, IsObject
<1>3. left[<<>>] = MapNode
  BY <1>1, PruneIsObject DEF IsObject
<1>4. Parent(p) # <<>> /\ left[Parent(p)] = ListNode /\ Parent(p) \in DOMAIN left
  BY <1>1, <1>2, <1>3
<1>5. \A q \in leaves : q \in DOMAIN object /\ ~Covered(q, patterns)
  OBVIOUS
<1>6. object[p] # MapNode /\ ~Covered(p, patterns) => p \in leaves
  OBVIOUS
<1> HIDE DEF leaves
<1>7. object[Parent(p)] = ListNode /\ \E leaf \in leaves : IsPrefixOf(Parent(p), leaf)
  BY <1>2, <1>4, PruneKeepsFor
<1>8. PICK leaf \in leaves : IsPrefixOf(Parent(p), leaf)
  BY <1>7
<1>9. ~Covered(Parent(p), patterns)
  BY <1>2, <1>5, <1>8, CoveredBelow DEF IsObject
<1>10. ~Covered(p, patterns)
  BY <1>2, <1>7, <1>9, ElementUncovered DEF IsChild
<1>11. p \in DOMAIN left
  BY <1>2, <1>7, <1>8, PruneKeepsElements DEF IsChild
<1>12. object[p] # MapNode => left[p] = object[p]
  BY <1>1, <1>2, <1>6, <1>10, PruneKeepsLeaves
<1> HIDE DEF left
<1>13. QED
  BY <1>1, <1>7, <1>10, <1>11, <1>12

\* An element of a list that Extract keeps.
LEMMA ExtractElement ==
    ASSUME NEW object, IsObject(object), NEW patterns, StayOutside(patterns),
           NEW p \in DOMAIN object, p # <<>>,
           Parent(p) \in DOMAIN Extract(object, patterns),
           Extract(object, patterns)[Parent(p)] = ListNode
    PROVE  /\ object[Parent(p)] = ListNode /\ Covered(p, patterns)
           /\ p \in DOMAIN Extract(object, patterns)
           /\ Extract(object, patterns)[p] = object[p]
<1> DEFINE leaves == {q \in DOMAIN object :
                        \/ Covered(q, patterns)
                        \/ object[q] \notin Containers /\ hasAnyDescendantMatch(q, patterns)}
           left == Prune(object, leaves)
<1>1. Extract(object, patterns) = left /\ leaves \subseteq DOMAIN object
  BY DEF Extract
<1>2. /\ ListNode # Null /\ ListNode # MapNode /\ ListNode \in Containers
      /\ IsPath(p) /\ IsPath(Parent(p)) /\ IsPrefixOf(Parent(p), p)
      /\ Parent(p) \in DOMAIN object
  BY ParentIsPrefix DEF ListNode, MapNode, Null, Containers, IsObject, IsChild
<1>3. left[<<>>] = MapNode
  BY <1>1, PruneIsObject DEF IsObject
<1>4. Parent(p) # <<>> /\ left[Parent(p)] = ListNode /\ Parent(p) \in DOMAIN left
  BY <1>1, <1>2, <1>3
<1>5. \A q \in leaves : q \in DOMAIN object /\
          (\/ Covered(q, patterns)
           \/ object[q] \notin Containers /\ hasAnyDescendantMatch(q, patterns))
  OBVIOUS
<1>6. Covered(p, patterns) => p \in leaves
  OBVIOUS
<1> HIDE DEF leaves
<1>7. object[Parent(p)] = ListNode /\ \E leaf \in leaves : IsPrefixOf(Parent(p), leaf)
  BY <1>2, <1>4, PruneKeepsFor
<1>8. PICK leaf \in leaves : IsPrefixOf(Parent(p), leaf)
  BY <1>7
<1>9. Covered(Parent(p), patterns)
  BY <1>2, <1>5, <1>7, <1>8, ExtractedFor
<1>10. Covered(p, patterns)
  BY <1>2, <1>9, CoveredBelow
<1>11. p \in DOMAIN left /\ left[p] = object[p]
  BY <1>1, <1>2, <1>6, <1>10, PruneKeepsLeaves
<1> HIDE DEF left
<1>12. QED
  BY <1>1, <1>7, <1>10, <1>11

\* A node that is no map, below a map that Strip keeps.
LEMMA StripBelowMap ==
    ASSUME NEW object, IsObject(object), NEW patterns,
           NEW p \in DOMAIN Strip(object, patterns), p # <<>>,
           Strip(object, patterns)[Parent(p)] = MapNode
    PROVE  /\ p \in DOMAIN object /\ Strip(object, patterns)[p] = object[p]
           /\ object[Parent(p)] = MapNode /\ ~Covered(p, patterns)
<1> DEFINE leaves == {q \in DOMAIN object : object[q] # MapNode /\ ~Covered(q, patterns)}
           left == Prune(object, leaves)
<1>1. Strip(object, patterns) = left /\ leaves \subseteq DOMAIN object
  BY DEF Strip
<1>2. \A q \in leaves : q \in DOMAIN object /\ ~Covered(q, patterns)
  OBVIOUS
<1> HIDE DEF leaves
<1>3. /\ p \in DOMAIN object /\ left[p] = object[p] /\ object[Parent(p)] = MapNode
      /\ \E leaf \in leaves : IsPrefixOf(p, leaf)
  BY <1>1, PruneBelowMap
<1>4. ~Covered(p, patterns)
  BY <1>2, <1>3, CoveredBelow DEF IsObject
<1> HIDE DEF left
<1>5. QED
  BY <1>1, <1>3, <1>4

LEMMA ExtractBelowMap ==
    ASSUME NEW object, IsObject(object), NEW patterns, StayOutside(patterns),
           NEW p \in DOMAIN Extract(object, patterns), p # <<>>,
           Extract(object, patterns)[p] # MapNode,
           Extract(object, patterns)[Parent(p)] = MapNode
    PROVE  /\ p \in DOMAIN object /\ Extract(object, patterns)[p] = object[p]
           /\ object[Parent(p)] = MapNode
           /\ \/ Covered(p, patterns)
              \/ object[p] \notin Containers /\ hasAnyDescendantMatch(p, patterns)
<1> DEFINE leaves == {q \in DOMAIN object :
                        \/ Covered(q, patterns)
                        \/ object[q] \notin Containers /\ hasAnyDescendantMatch(q, patterns)}
           left == Prune(object, leaves)
<1>1. Extract(object, patterns) = left /\ leaves \subseteq DOMAIN object
  BY DEF Extract
<1>2. \A q \in leaves : q \in DOMAIN object /\
          (\/ Covered(q, patterns)
           \/ object[q] \notin Containers /\ hasAnyDescendantMatch(q, patterns))
  OBVIOUS
<1> HIDE DEF leaves
<1>3. /\ p \in DOMAIN object /\ left[p] = object[p] /\ object[Parent(p)] = MapNode
      /\ \E leaf \in leaves : IsPrefixOf(p, leaf)
  BY <1>1, PruneBelowMap
<1> HIDE DEF left
<1>4. object[p] # MapNode
  BY <1>1, <1>3
<1>5. \/ Covered(p, patterns)
      \/ object[p] \notin Containers /\ hasAnyDescendantMatch(p, patterns)
  BY <1>2, <1>3, <1>4, ExtractedFor
<1>6. QED
  BY <1>1, <1>3, <1>5

-----------------------------------------------------------------------------
(* Compare                                                                 *)

\* Every difference is reported, at its path or above it.
LEMMA DifferencesAreReported ==
    ASSUME NEW old, NEW new, NEW p, IsPath(p), DifferAt(old, new, p)
    PROVE  \E r \in Changed(old, new) : r \in Prefixes(p)
<1> DEFINE T == {k \in 0 .. Len(p) : DifferAt(old, new, SubSeq(p, 1, k))}
<1>1. Len(p) \in Nat /\ SubSeq(p, 1, Len(p)) = p
  BY PathPrefixes DEF IsPrefixOf
<1>2. T \subseteq Nat /\ T # {}
  <2>1. DifferAt(old, new, SubSeq(p, 1, Len(p)))
    BY <1>1
  <2>2. Len(p) \in T
    BY <1>1, <2>1
  <2>3. QED
    BY <2>2, <1>1
<1>3. PICK m \in T : \A k \in T : ~(k < m)
  BY <1>2, LeastNatural
<1> DEFINE r == SubSeq(p, 1, m)
<1>4. m \in 0 .. Len(p) /\ DifferAt(old, new, r)
  BY <1>3
<1>5. r \in Prefixes(p) /\ Len(r) = m
  BY <1>4, PathPrefixes
<1>6. ASSUME NEW q \in StrictPrefixes(r)
      PROVE  ~DifferAt(old, new, q)
  <2>1. PICK k \in 0 .. m - 1 : q = SubSeq(r, 1, k)
    BY <1>5 DEF StrictPrefixes
  <2>2. k \in 0 .. m /\ k \in 0 .. Len(p) /\ k < m
    BY <1>1, <1>4, <2>1
  <2>3. q = SubSeq(p, 1, k)
    BY <1>4, <2>1, <2>2, PathPrefixes
  <2>4. QED
    BY <1>3, <2>2, <2>3
<1>7. r \in DOMAIN old \cup DOMAIN new
  BY <1>4 DEF DifferAt
<1> HIDE DEF r
<1>8. r \in Changed(old, new)
  BY <1>4, <1>6, <1>7 DEF Changed
<1>9. QED
  BY <1>5, <1>8

\* Two objects that differ at a scalar or a list still do in what carries it.
LEMMA DifferencesAreCarried ==
    ASSUME NEW old, NEW new, NEW oldAfter, NEW newAfter, NEW p,
           DifferAt(old, new, p),
           \E object \in {old, new} : p \in DOMAIN object /\ object[p] \notin {MapNode, Null},
           Carries(old, oldAfter, p), Carries(new, newAfter, p)
    PROVE  DifferAt(oldAfter, newAfter, p)
BY DEF DifferAt, Carries

\* Compare does not tell the old object from the new one.
LEMMA ChangedIsSymmetric ==
    ASSUME NEW old, NEW new
    PROVE  Changed(old, new) = Changed(new, old)
<1>1. \A p : DifferAt(old, new, p) <=> DifferAt(new, old, p)
  BY DEF DifferAt
<1>2. QED
  BY <1>1 DEF Changed

=============================================================================
