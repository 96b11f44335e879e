---------------------------- MODULE ValidatorProofs ----------------------------
(***************************************************************************)
(* Facts about Validate for every pair of objects and every rule: what     *)
(* Prepare makes of an object, and what the bypass annotation and the      *)
(* fields of the API server have to do with it.                            *)
(***************************************************************************)
EXTENDS Validator, ObjectDiffProofs, FiniteSetTheorems

-----------------------------------------------------------------------------
(* Rule selection                                                          *)

\* The rules of a store in order: one of any two comes first, never both.
LEMMA PrecedesIsAnOrder ==
    ASSUME NEW rules, IsRuleSet(rules)
    PROVE  /\ \A one \in rules : ~Precedes(one, one)
           /\ \A one, two \in rules : one = two \/ Precedes(one, two) \/ Precedes(two, one)
           /\ \A one, two, three \in rules :
                 Precedes(one, two) /\ Precedes(two, three) => Precedes(one, three)
<1>1. \A one \in rules : one.priority \in Int /\ one.namespace \in Nat /\ one.name \in Nat
  BY DEF IsRuleSet
<1>2. \A one, two \in rules : one = two \/ Precedes(one, two) \/ Precedes(two, one)
  <2>1. \A one, two \in rules : one.namespace = two.namespace /\ one.name = two.name => one = two
    BY DEF IsRuleSet
  <2>2. QED
    BY <1>1, <2>1 DEF Precedes
<1>3. \A one \in rules : ~Precedes(one, one)
  BY <1>1 DEF Precedes
<1>4. \A one, two, three \in rules :
          Precedes(one, two) /\ Precedes(two, three) => Precedes(one, three)
  BY <1>1 DEF Precedes
<1>5. QED
  BY <1>2, <1>3, <1>4

\* Some rule of any that there are precedes all the others: the one that the
\* fewest precede.
LEMMA FirstRule ==
    ASSUME NEW rules, IsRuleSet(rules), rules # {}
    PROVE  \E rule \in rules : \A other \in rules \ {rule} : Precedes(rule, other)
<1> DEFINE Before(rule) == {other \in rules : Precedes(other, rule)}
           T == {Cardinality(Before(rule)) : rule \in rules}
<1>1. IsFiniteSet(rules)
  BY DEF IsRuleSet
<1>2. ASSUME NEW rule \in rules
      PROVE  IsFiniteSet(Before(rule)) /\ Cardinality(Before(rule)) \in Nat
  <2>1. Before(rule) \in SUBSET rules
    OBVIOUS
  <2> HIDE DEF Before
  <2>2. QED
    BY <1>1, <2>1, FS_Subset, FS_CardinalityType
<1>3. T \subseteq Nat /\ T # {}
  BY <1>2
<1>4. PICK m \in T : \A k \in T : ~(k < m)
  <2> HIDE DEF T
  <2>1. QED
    BY <1>3, LeastNatural
<1>5. PICK rule \in rules : m = Cardinality(Before(rule))
  BY <1>4
<1>6. ASSUME NEW other \in rules \ {rule}
      PROVE  Precedes(rule, other)
  <2>1. SUFFICES ASSUME ~Precedes(rule, other) PROVE FALSE
    OBVIOUS
  <2>2. Precedes(other, rule)
    BY <1>6, <2>1, PrecedesIsAnOrder
  <2>3. /\ Before(other) \subseteq Before(rule)
        /\ other \in Before(rule) /\ other \notin Before(other)
    BY <1>6, <2>2, PrecedesIsAnOrder
  <2>4. Cardinality(Before(other)) \in T
    BY <1>6
  <2>5. /\ IsFiniteSet(Before(rule)) /\ Cardinality(Before(rule)) \in Nat
        /\ Cardinality(Before(other)) \in Nat
    BY <1>2, <1>6
  <2> HIDE DEF Before, T
  <2>6. /\ Cardinality(Before(other)) <= Cardinality(Before(rule))
        /\ Cardinality(Before(rule)) = Cardinality(Before(other)) => Before(rule) = Before(other)
    BY <2>3, <2>5, FS_Subset
  <2>7. Cardinality(Before(other)) # Cardinality(Before(rule))
    BY <2>3, <2>6
  <2>8. QED
    BY <1>4, <1>5, <2>4, <2>5, <2>6, <2>7
<1>7. QED
  BY <1>6

\* Store.Match answers with the rule that comes first among those that match, or
\* with none when none does, whatever the order the rules were listed in.
THEOREM MatchIsFirst ==
    ASSUME NEW rules, IsRuleSet(rules), NEW input
    PROVE  \/ Match(rules, input) = NoRule /\ \A rule \in rules : ~Matches(rule, input)
           \/ /\ Match(rules, input) \in rules /\ Matches(Match(rules, input), input)
              /\ \A rule \in rules :
                    Matches(rule, input) =>
                        rule = Match(rules, input) \/ Precedes(Match(rules, input), rule)
<1> DEFINE matching == {rule \in rules : Matches(rule, input)}
<1>1. CASE matching = {}
  BY <1>1 DEF Match
<1>2. CASE matching # {}
  <2>1. IsRuleSet(matching)
    <3>1. matching \in SUBSET rules /\ IsFiniteSet(rules)
      BY DEF IsRuleSet
    <3>2. IsFiniteSet(matching)
      <4> HIDE DEF matching
      <4>1. QED
        BY <3>1, FS_Subset
    <3>3. QED
      BY <3>1, <3>2 DEF IsRuleSet
  <2>2. Match(rules, input) =
            CHOOSE rule \in matching : \A other \in matching \ {rule} : Precedes(rule, other)
    BY <1>2 DEF Match
  <2>3. \E rule \in matching : \A other \in matching \ {rule} : Precedes(rule, other)
    <3> HIDE DEF matching
    <3>1. QED
      BY <1>2, <2>1, FirstRule
  <2>4. /\ Match(rules, input) \in matching
        /\ \A other \in matching \ {Match(rules, input)} : Precedes(Match(rules, input), other)
    <3> HIDE DEF matching
    <3>1. QED
      BY <2>2, <2>3
  <2>5. QED
    BY <2>4
<1>3. QED
  BY <1>1, <1>2

-----------------------------------------------------------------------------
(* The path of the bypass annotation                                       *)

LEMMA Triples ==
    ASSUME NEW a, NEW b, NEW c
    PROVE  /\ IsPath(<<a, b, c>>) /\ Len(<<a, b, c>>) = 3 /\ <<a, b, c>>[3] = c
           /\ Append(<<a, b>>, c) = <<a, b, c>> /\ Parent(<<a, b, c>>) = <<a, b>>
<1>1. /\ <<a, b, c>> \in Seq({a, b, c}) /\ <<a, b>> \in Seq({a, b, c})
      /\ Len(<<a, b, c>>) = 3 /\ Len(<<a, b>>) = 2
  OBVIOUS
<1>2. Append(<<a, b>>, c) = <<a, b, c>>
  <2>1. Append(<<a, b>>, c) \in Seq({a, b, c})
    BY <1>1
  <2>2. Len(Append(<<a, b>>, c)) = 3
    BY <1>1
  <2>3. \A i \in 1 .. 3 : Append(<<a, b>>, c)[i] = <<a, b, c>>[i]
    BY <1>1
  <2>4. QED
    BY <1>1, <2>1, <2>2, <2>3, SeqEqual
<1>3. Parent(<<a, b, c>>) = <<a, b>>
  <2>1. SubSeq(<<a, b, c>>, 1, 2) \in Seq({a, b, c}) /\ Len(SubSeq(<<a, b, c>>, 1, 2)) = 2
    BY <1>1
  <2>2. \A i \in 1 .. 2 : SubSeq(<<a, b, c>>, 1, 2)[i] = <<a, b>>[i]
    BY <1>1
  <2>3. SubSeq(<<a, b, c>>, 1, 2) = <<a, b>>
    BY <1>1, <2>1, <2>2, SeqEqual
  <2>4. QED
    BY <1>1, <2>3 DEF Parent
<1>4. IsPath(<<a, b, c>>) /\ <<a, b, c>>[3] = c
  BY DEF IsPath
<1>5. QED
  BY <1>1, <1>2, <1>3, <1>4

LEMMA Pairs ==
    ASSUME NEW a, NEW b
    PROVE  /\ IsPath(<<a, b>>) /\ Len(<<a, b>>) = 2 /\ <<a, b>>[2] = b
           /\ Parent(<<a, b>>) = <<a>>
<1>1. /\ <<a, b>> \in Seq({a, b}) /\ <<a>> \in Seq({a, b})
      /\ Len(<<a, b>>) = 2 /\ Len(<<a>>) = 1
  OBVIOUS
<1>2. Parent(<<a, b>>) = <<a>>
  <2>1. SubSeq(<<a, b>>, 1, 1) \in Seq({a, b}) /\ Len(SubSeq(<<a, b>>, 1, 1)) = 1
    BY <1>1
  <2>2. \A i \in 1 .. 1 : SubSeq(<<a, b>>, 1, 1)[i] = <<a>>[i]
    BY <1>1
  <2>3. SubSeq(<<a, b>>, 1, 1) = <<a>>
    BY <1>1, <2>1, <2>2, SeqEqual
  <2>4. QED
    BY <1>1, <2>3 DEF Parent
<1>3. IsPath(<<a, b>>) /\ <<a, b>>[2] = b
  BY DEF IsPath
<1>4. QED
  BY <1>1, <1>2, <1>3

LEMMA AnnotationPathType ==
    ASSUME NEW key
    PROVE  /\ IsPath(AnnotationPath(key)) /\ AnnotationPath(key) # <<>>
           /\ AnnotationPath(key) = <<metadata, Field("annotations"), Field(key)>>
           /\ Len(AnnotationPath(key)) = 3 /\ AnnotationPath(key)[3] = Field(key)
           /\ Parent(AnnotationPath(key)) = AnnotationsPath
           /\ IsPath(AnnotationsPath) /\ Len(AnnotationsPath) = 2
           /\ AnnotationsPath[2] = Field("annotations")
           /\ AnnotationsPath # <<>> /\ Parent(AnnotationsPath) = <<metadata>>
<1> DEFINE triple == <<metadata, Field("annotations"), Field(key)>>
           pair == <<metadata, Field("annotations")>>
<1>1. AnnotationPath(key) = Append(pair, Field(key)) /\ AnnotationsPath = pair
  BY DEF AnnotationPath, AnnotationsPath
<1>2. /\ IsPath(triple) /\ Len(triple) = 3 /\ triple[3] = Field(key)
      /\ Append(pair, Field(key)) = triple /\ Parent(triple) = pair
  BY Triples, Zenon
<1>3. /\ IsPath(pair) /\ Len(pair) = 2 /\ pair[2] = Field("annotations")
      /\ Parent(pair) = <<metadata>>
  BY Pairs, Zenon
<1>4. Len(<<>>) = 0
  OBVIOUS
<1>5. AnnotationPath(key) = triple
  BY <1>1, <1>2
<1> HIDE DEF triple, pair
<1>6. triple # <<>> /\ pair # <<>>
  BY <1>2, <1>3, <1>4
<1>7. QED
  BY <1>1, <1>2, <1>3, <1>5, <1>6 DEF triple, pair

\* A pattern without wildcards covers what lies at or below itself.
LEMMA CoveredByAnnotation ==
    ASSUME NEW key, NEW p, IsPath(p)
    PROVE  Covered(p, {AnnotationPath(key)}) <=> IsPrefixOf(AnnotationPath(key), p)
<1> DEFINE A == AnnotationPath(key)
<1>1. ASSUME NEW r \in Prefixes(p)
      PROVE  matchesPath(A, r) <=> r = A
  <2>1. IsPath(r)
    BY PrefixesArePrefixes
  <2>2. A = <<metadata, Field("annotations"), Field(key)>> /\ Len(A) = 3
    BY AnnotationPathType
  <2>3. ASSUME NEW k, NEW segment
        PROVE  segmentsMatch(Field(k), segment) <=> segment = Field(k)
    <3>1. Field(k) # AnyField /\ Field(k) # AnyIndex
      <4>1. Len(Field(k)) = 2 /\ Len(AnyField) = 1 /\ Len(AnyIndex) = 1
        BY DEF Field, AnyField, AnyIndex
      <4>2. QED
        BY <4>1
    <3>2. QED
      BY <3>1 DEF segmentsMatch
  <2>4. A[1] = metadata /\ A[2] = Field("annotations") /\ A[3] = Field(key)
    BY <2>2
  <2>5. matchesPath(A, r) <=> Len(r) = 3 /\ r[1] = A[1] /\ r[2] = A[2] /\ r[3] = A[3]
    <3>1. DOMAIN r = 1 .. Len(r)
      BY <2>1 DEF IsPath
    <3> HIDE DEF A
    <3>2. QED
      BY <2>2, <2>3, <2>4, <3>1 DEF matchesPath, metadata
  <2>6. Len(r) = 3 /\ r[1] = A[1] /\ r[2] = A[2] /\ r[3] = A[3] => r = A
    <3>1. r = [i \in 1 .. Len(r) |-> r[i]]
      BY <2>1 DEF IsPath
    <3> HIDE DEF A
    <3>2. QED
      BY <2>2, <3>1
  <2>7. QED
    BY <2>2, <2>5, <2>6
<1>2. Covered(p, {A}) <=> A \in Prefixes(p)
  BY <1>1 DEF Covered, matchesAnyPath
<1>3. QED
  BY <1>2, AnnotationPathType, PrefixesArePrefixes, PrefixOfPath

\* Taking the bypass annotation out, and the map it leaves empty, is what Strip
\* does when the annotation's path is one of its patterns.
LEMMA RemoveIsStrip ==
    ASSUME NEW object, IsObject(object), NEW key, NEW patterns
    PROVE  Strip(removeAnnotation(object, key), patterns) =
               Strip(object, patterns \cup {AnnotationPath(key)})
<1> DEFINE A == AnnotationPath(key)
           others == {p \in DOMAIN object : ~IsPrefixOf(A, p)}
           annotated == \E p \in others : Len(p) = 3 /\ Parent(p) = AnnotationsPath
           isMap == AnnotationsPath \in DOMAIN object /\ object[AnnotationsPath] = MapNode
           left == IF isMap /\ ~annotated THEN others \ {AnnotationsPath} ELSE others
           removed == removeAnnotation(object, key)
           leaves == {q \in DOMAIN object : object[q] # MapNode /\ ~Covered(q, patterns \cup {A})}
           kept == {p \in DOMAIN object : \E q \in leaves : IsPrefixOf(p, q)}
           holes == {p \in DOMAIN object \ (kept \cup {<<>>}) :
                        Parent(p) \in kept /\ object[Parent(p)] = ListNode}
           leavesR == {q \in DOMAIN removed : removed[q] # MapNode /\ ~Covered(q, patterns)}
           keptR == {p \in DOMAIN removed : \E q \in leavesR : IsPrefixOf(p, q)}
           holesR == {p \in DOMAIN removed \ (keptR \cup {<<>>}) :
                        Parent(p) \in keptR /\ removed[Parent(p)] = ListNode}
<1>1. removed = [p \in left |-> object[p]]
  BY DEF removeAnnotation
<1>2. /\ Strip(object, patterns \cup {A}) =
             [p \in kept \cup holes \cup {<<>>} |-> IF p \in holes THEN Null ELSE object[p]]
      /\ Strip(removed, patterns) =
             [p \in keptR \cup holesR \cup {<<>>} |-> IF p \in holesR THEN Null ELSE removed[p]]
  BY DEF Strip, Prune
<1>3. /\ IsPath(A) /\ A # <<>> /\ Len(A) = 3 /\ Parent(A) = AnnotationsPath
      /\ A[3] = Field(key) /\ IsPath(AnnotationsPath) /\ Len(AnnotationsPath) = 2
      /\ AnnotationsPath # <<>> /\ AnnotationsPath[2] = Field("annotations")
  BY AnnotationPathType
<1> HIDE DEF A
<1>4. \A p \in DOMAIN object : IsPath(p) /\ (p = <<>> \/ IsChild(object, p))
  BY DEF IsObject
<1>5. \A p \in DOMAIN object : Covered(p, patterns \cup {A}) <=> Covered(p, patterns) \/ IsPrefixOf(A, p)
  BY <1>4, CoveredUnion, CoveredByAnnotation DEF A
\* What is left out was no leaf and led to none.
<1>6. ASSUME NEW p \in kept
      PROVE  p \in left
  <2>1. PICK q \in leaves : IsPrefixOf(p, q)
    OBVIOUS
  <2>2. IsPath(p) /\ IsPath(q) /\ ~IsPrefixOf(A, q) /\ object[q] # MapNode
    BY <1>4, <1>5
  <2>3. p \in others
    BY <1>3, <2>1, <2>2, PrefixTransitive
  <2>4. ASSUME isMap, p = AnnotationsPath
        PROVE  annotated
    <3> DEFINE r == SubSeq(q, 1, 3)
    <3>1. Len(q) \in Nat /\ AnnotationsPath = SubSeq(q, 1, 2) /\ SubSeq(q, 1, Len(q)) = q
      BY <1>3, <2>1, <2>2, <2>4, PathPrefixes DEF IsPrefixOf
    <3>2. Len(q) >= 2 /\ Len(q) # 2
      BY <1>3, <2>1, <2>2, <2>4, <3>1 DEF IsPrefixOf
    <3>3. 3 \in 0 .. Len(q) /\ 2 \in 0 .. 3
      BY <3>1, <3>2
    <3>4. Len(r) = 3 /\ IsPrefixOf(r, q) /\ IsPath(r) /\ SubSeq(r, 1, 2) = SubSeq(q, 1, 2)
      BY <2>2, <3>3, PathPrefixes, PrefixIsPath
    <3>5. Parent(r) = AnnotationsPath
      BY <3>1, <3>4 DEF Parent
    <3>6. r \in DOMAIN object
      BY <2>2, <3>4, PrefixInObject
    <3>7. ~IsPrefixOf(A, r)
      BY <1>3, <2>2, <3>4, PrefixTransitive
    <3> HIDE DEF r
    <3>8. QED
      BY <3>4, <3>5, <3>6, <3>7
  <2> HIDE DEF others, annotated, isMap
  <2>5. QED
    BY <2>3, <2>4
<1>7. /\ DOMAIN removed = left /\ \A p \in left : removed[p] = object[p]
      /\ left \subseteq DOMAIN object
  BY <1>1
<1>8. leavesR = leaves
  <2>1. ASSUME NEW q \in leavesR
        PROVE  q \in leaves
    <3>1. q \in left /\ ~IsPrefixOf(A, q)
      BY <1>7
    <3>2. QED
      BY <1>5, <1>7, <3>1
  <2>2. ASSUME NEW q \in leaves
        PROVE  q \in leavesR
    <3>1. q \in kept
      BY <1>4, PathPrefixes
    <3>2. QED
      BY <1>5, <1>6, <1>7, <3>1
  <2>3. QED
    BY <2>1, <2>2
<1>9. keptR = kept
  BY <1>6, <1>7, <1>8
<1>10. holesR = holes
  <2>1. ASSUME NEW p \in holesR
        PROVE  p \in holes
    BY <1>6, <1>7, <1>9
  <2>2. ASSUME NEW p \in holes
        PROVE  p \in left
    <3>1. /\ p \in DOMAIN object /\ p # <<>> /\ Parent(p) \in kept
          /\ object[Parent(p)] = ListNode /\ IsPath(p) /\ IsChild(object, p)
      BY <1>4
    <3>2. p[Len(p)][1] = "index"
      BY <3>1 DEF IsChild, ListNode, MapNode
    <3>3. p # A /\ p # AnnotationsPath
      <4>1. \A k : Field(k)[1] = "field"
        BY DEF Field
      <4>2. A[Len(A)][1] = "field" /\ AnnotationsPath[Len(AnnotationsPath)][1] = "field"
        BY <1>3, <4>1
      <4>3. QED
        BY <3>2, <4>2
    <3>4. ~IsPrefixOf(A, p)
      <4>1. ~IsPrefixOf(A, Parent(p))
        BY <1>6, <3>1
      <4>2. QED
        BY <1>3, <3>1, <3>3, <4>1, ParentIsPrefix
    <3>5. QED
      BY <3>1, <3>3, <3>4
  <2>3. ASSUME NEW p \in holes
        PROVE  p \in holesR
    <3>1. Parent(p) \in kept /\ object[Parent(p)] = ListNode /\ p \notin kept /\ p # <<>>
      OBVIOUS
    <3>2. p \in left /\ Parent(p) \in left
      BY <1>6, <2>2, <3>1
    <3>3. QED
      BY <1>7, <1>9, <3>1, <3>2
  <2>4. QED
    BY <2>1, <2>3
<1>11. \A p \in kept \cup holes \cup {<<>>} :
           (IF p \in holes THEN Null ELSE object[p]) = (IF p \in holes THEN Null ELSE removed[p])
  <2>1. \A p \in kept : removed[p] = object[p]
    BY <1>6, <1>7
  <2>2. <<>> \in left
    <3>1. ~IsPrefixOf(A, <<>>)
      BY <1>3 DEF IsPrefixOf
    <3>2. <<>> \in DOMAIN object
      BY DEF IsObject
    <3>3. QED
      BY <1>3, <3>1, <3>2
  <2> HIDE DEF kept, holes, removed, left
  <2>3. QED
    BY <1>7, <2>1, <2>2
<1> HIDE DEF kept, holes, keptR, holesR, removed
<1>12. QED
  BY <1>2, <1>9, <1>10, <1>11 DEF removed, A

-----------------------------------------------------------------------------
(* The scoped objects                                                      *)

\* Prepare, by what it strips first.
PrepareFrom(object, first, theRule) ==
    LET stripped == Strip(object, first)
        included == IF theRule.include = {} THEN stripped ELSE Extract(stripped, theRule.include)
    IN  IF theRule.exclude = {} THEN included ELSE Strip(included, theRule.exclude)

\* The comparison without the bypass annotation is one that strips it first.
LEMMA PrepareWithoutBypass ==
    ASSUME NEW object, IsObject(object), NEW theRule
    PROVE  Prepare(removeAnnotation(cloneObject(object), theRule.bypass), theRule) =
               PrepareFrom(object, implicitExcludePatterns \cup {AnnotationPath(theRule.bypass)}, theRule)
<1> DEFINE I == implicitExcludePatterns
           A == AnnotationPath(theRule.bypass)
           clone == cloneObject(object)
<1>1. IsObject(clone)
  BY StripIsObject DEF cloneObject
<1>2. Strip(removeAnnotation(clone, theRule.bypass), I) = Strip(clone, I \cup {A})
  BY <1>1, RemoveIsStrip
<1>3. Strip(clone, I \cup {A}) = Strip(object, {} \cup (I \cup {A}))
  BY StripTwice, ObjectHasPaths DEF cloneObject
<1>4. {} \cup (I \cup {A}) = I \cup {A}
  OBVIOUS
<1>5. Strip(removeAnnotation(clone, theRule.bypass), I) = Strip(object, I \cup {A})
  BY <1>2, <1>3, <1>4
<1> HIDE DEF I, A, clone
<1>6. QED
  BY <1>5 DEF Prepare, PrepareFrom, I, A, clone

-----------------------------------------------------------------------------
(* What Prepare makes of a node                                            *)

\* A value in the scope of a rule, or above what its include asks for.
Solid(object, q, first, theRule) ==
    /\ q \in DOMAIN object /\ object[q] # MapNode
    /\ ~Covered(q, first) /\ ~Covered(q, theRule.exclude)
    /\ \/ theRule.include = {}
       \/ Covered(q, theRule.include)
       \/ object[q] \notin Containers /\ hasAnyDescendantMatch(q, theRule.include)

Included(object, first, theRule) ==
    IF theRule.include = {} THEN Strip(object, first)
    ELSE Extract(Strip(object, first), theRule.include)

LEMMA PreparedIsObject ==
    ASSUME NEW object, IsObject(object), NEW first, NEW theRule
    PROVE  /\ IsObject(Strip(object, first))
           /\ IsObject(Included(object, first, theRule))
           /\ IsObject(PrepareFrom(object, first, theRule))
           /\ Filled(PrepareFrom(object, first, theRule))
<1>1. IsObject(Strip(object, first)) /\ Filled(Strip(object, first))
  BY StripIsObject, StripFills
<1>2. IsObject(Extract(Strip(object, first), theRule.include))
  <2>1. Extract(Strip(object, first), theRule.include) =
            Prune(Strip(object, first), {q \in DOMAIN Strip(object, first) :
                      \/ Covered(q, theRule.include)
                      \/ Strip(object, first)[q] \notin Containers
                            /\ hasAnyDescendantMatch(q, theRule.include)})
    BY DEF Extract
  <2>2. QED
    BY <1>1, <2>1, PruneIsObject
<1>3. IsObject(Included(object, first, theRule)) /\ Filled(Included(object, first, theRule))
  BY <1>1, <1>2, ExtractFills DEF Included
<1>4. PrepareFrom(object, first, theRule) =
          IF theRule.exclude = {} THEN Included(object, first, theRule)
          ELSE Strip(Included(object, first, theRule), theRule.exclude)
  BY DEF PrepareFrom, Included
<1>5. QED
  BY <1>1, <1>3, <1>4, StripIsObject, StripFills

\* Strip and Extract invent nothing.
LEMMA PrepareAddsNothing ==
    ASSUME NEW object, NEW first, NEW theRule, NEW p, p # <<>>,
           p \in DOMAIN PrepareFrom(object, first, theRule)
    PROVE  /\ p \in DOMAIN Included(object, first, theRule)
           /\ p \in DOMAIN Strip(object, first) /\ p \in DOMAIN object
           /\ PrepareFrom(object, first, theRule)[p] \in {Included(object, first, theRule)[p], Null}
           /\ Included(object, first, theRule)[p] \in {Strip(object, first)[p], Null}
           /\ Strip(object, first)[p] \in {object[p], Null}
<1>1. PrepareFrom(object, first, theRule) =
          IF theRule.exclude = {} THEN Included(object, first, theRule)
          ELSE Strip(Included(object, first, theRule), theRule.exclude)
  BY DEF PrepareFrom, Included
<1>2. /\ p \in DOMAIN Included(object, first, theRule)
      /\ PrepareFrom(object, first, theRule)[p] \in {Included(object, first, theRule)[p], Null}
  BY <1>1, PruneAddsNothing DEF Strip
<1>3. /\ p \in DOMAIN Strip(object, first)
      /\ Included(object, first, theRule)[p] \in {Strip(object, first)[p], Null}
  <2>1. CASE theRule.include = {}
    BY <1>2, <2>1 DEF Included
  <2>2. CASE theRule.include # {}
    <3>1. Included(object, first, theRule) = Extract(Strip(object, first), theRule.include)
      BY <2>2 DEF Included
    <3> DEFINE base == Strip(object, first)
    <3>2. p \in DOMAIN Extract(base, theRule.include)
      BY <1>2, <3>1
    <3> HIDE DEF base
    <3>3. p \in DOMAIN base /\ Extract(base, theRule.include)[p] \in {base[p], Null}
      BY <3>2, PruneAddsNothing DEF Extract
    <3>4. QED
      BY <3>1, <3>3 DEF base
  <2>3. QED
    BY <2>1, <2>2
<1>4. p \in DOMAIN object /\ Strip(object, first)[p] \in {object[p], Null}
  BY <1>3, PruneAddsNothing DEF Strip
<1>5. QED
  BY <1>2, <1>3, <1>4

\* Solid values stay, and so does all that leads to them.
LEMMA StripKeepsAbove ==
    ASSUME NEW object, IsObject(object), NEW patterns, NEW q \in DOMAIN object,
           object[q] # MapNode, ~Covered(q, patterns),
           NEW r, IsPath(r), IsPrefixOf(r, q)
    PROVE  r \in DOMAIN Strip(object, patterns) /\ Strip(object, patterns)[r] = object[r]
<1>1. r \in DOMAIN object
  BY PrefixInObject
<1>2. q \in {s \in DOMAIN object : object[s] # MapNode /\ ~Covered(s, patterns)}
  OBVIOUS
<1>3. QED
  BY <1>1, <1>2, PruneKeepsAbove DEF Strip

LEMMA ExtractKeepsAbove ==
    ASSUME NEW object, IsObject(object), NEW patterns, NEW q \in DOMAIN object,
           \/ Covered(q, patterns)
           \/ object[q] \notin Containers /\ hasAnyDescendantMatch(q, patterns),
           NEW r, IsPath(r), IsPrefixOf(r, q)
    PROVE  r \in DOMAIN Extract(object, patterns) /\ Extract(object, patterns)[r] = object[r]
<1>1. r \in DOMAIN object
  BY PrefixInObject
<1>2. q \in {s \in DOMAIN object :
                \/ Covered(s, patterns)
                \/ object[s] \notin Containers /\ hasAnyDescendantMatch(s, patterns)}
  OBVIOUS
<1>3. QED
  BY <1>1, <1>2, PruneKeepsAbove DEF Extract

LEMMA SolidStays ==
    ASSUME NEW object, IsObject(object), NEW first, NEW theRule,
           NEW q, Solid(object, q, first, theRule),
           NEW r, IsPath(r), IsPrefixOf(r, q)
    PROVE  /\ r \in DOMAIN PrepareFrom(object, first, theRule)
           /\ PrepareFrom(object, first, theRule)[r] = object[r]
<1> DEFINE base == Strip(object, first)
           scoped == Included(object, first, theRule)
<1>1. IsPath(q) /\ IsPrefixOf(q, q) /\ q \in DOMAIN object
  BY PathPrefixes DEF Solid, IsObject
<1>2. /\ IsObject(base) /\ IsObject(scoped)
      /\ scoped = (IF theRule.include = {} THEN base ELSE Extract(base, theRule.include))
      /\ PrepareFrom(object, first, theRule) =
             IF theRule.exclude = {} THEN scoped ELSE Strip(scoped, theRule.exclude)
  BY PreparedIsObject DEF PrepareFrom, Included
<1>3. \A s \in {q, r} : s \in DOMAIN base /\ base[s] = object[s]
  BY <1>1, StripKeepsAbove DEF Solid
<1> HIDE DEF base, scoped
<1>4. \A s \in {q, r} : s \in DOMAIN scoped /\ scoped[s] = base[s]
  <2>1. CASE theRule.include = {}
    BY <1>2, <1>3, <2>1
  <2>2. CASE theRule.include # {}
    <3>1. \/ Covered(q, theRule.include)
          \/ base[q] \notin Containers /\ hasAnyDescendantMatch(q, theRule.include)
      BY <1>3, <2>2 DEF Solid
    <3>2. QED
      BY <1>1, <1>2, <1>3, <2>2, <3>1, ExtractKeepsAbove
  <2>3. QED
    BY <2>1, <2>2
<1>5. CASE theRule.exclude = {}
  BY <1>2, <1>3, <1>4, <1>5
<1>6. CASE theRule.exclude # {}
  <2>1. scoped[q] # MapNode /\ ~Covered(q, theRule.exclude)
    BY <1>3, <1>4 DEF Solid
  <2>2. QED
    BY <1>2, <1>3, <1>4, <1>6, <2>1, StripKeepsAbove
<1>7. QED
  BY <1>5, <1>6

\* A value below a map that Prepare keeps is one that was sent.
LEMMA PreparedLeaf ==
    ASSUME NEW object, IsObject(object), NEW first, NEW theRule, StayOutside(theRule.include),
           NEW q \in DOMAIN PrepareFrom(object, first, theRule), q # <<>>,
           PrepareFrom(object, first, theRule)[q] # MapNode,
           PrepareFrom(object, first, theRule)[Parent(q)] = MapNode
    PROVE  /\ Solid(object, q, first, theRule)
           /\ PrepareFrom(object, first, theRule)[q] = object[q]
<1> DEFINE base == Strip(object, first)
           scoped == Included(object, first, theRule)
           prepared == PrepareFrom(object, first, theRule)
<1>1. /\ IsObject(base) /\ IsObject(scoped)
      /\ scoped = (IF theRule.include = {} THEN base ELSE Extract(base, theRule.include))
      /\ prepared = IF theRule.exclude = {} THEN scoped ELSE Strip(scoped, theRule.exclude)
  BY PreparedIsObject DEF PrepareFrom, Included
<1>2. q \in DOMAIN prepared /\ prepared[q] # MapNode /\ prepared[Parent(q)] = MapNode
  OBVIOUS
<1> HIDE DEF base, scoped, prepared
<1>3. /\ q \in DOMAIN scoped /\ scoped[q] = prepared[q] /\ scoped[Parent(q)] = MapNode
      /\ ~Covered(q, theRule.exclude)
  <2>1. CASE theRule.exclude = {}
    BY <1>1, <1>2, <2>1 DEF Covered, matchesAnyPath
  <2>2. CASE theRule.exclude # {}
    BY <1>1, <1>2, <2>2, StripBelowMap
  <2>3. QED
    BY <2>1, <2>2
<1>4. /\ q \in DOMAIN base /\ base[q] = prepared[q] /\ base[Parent(q)] = MapNode
      /\ \/ theRule.include = {}
         \/ Covered(q, theRule.include)
         \/ base[q] \notin Containers /\ hasAnyDescendantMatch(q, theRule.include)
  <2>1. CASE theRule.include = {}
    BY <1>1, <1>3, <2>1
  <2>2. CASE theRule.include # {}
    BY <1>1, <1>2, <1>3, <2>2, ExtractBelowMap
  <2>3. QED
    BY <2>1, <2>2
<1>5. q \in DOMAIN object /\ base[q] = object[q] /\ ~Covered(q, first)
  BY <1>4, StripBelowMap DEF base
<1>6. QED
  BY <1>2, <1>3, <1>4, <1>5 DEF Solid, prepared

\* An element of a list that Prepare keeps.
LEMMA PreparedElement ==
    ASSUME NEW object, IsObject(object), NEW first, SpareElements(first),
           NEW theRule, StayOutside(theRule.include), SpareElements(theRule.exclude),
           NEW p \in DOMAIN object, p # <<>>,
           Parent(p) \in DOMAIN PrepareFrom(object, first, theRule),
           PrepareFrom(object, first, theRule)[Parent(p)] = ListNode
    PROVE  /\ p \in DOMAIN PrepareFrom(object, first, theRule)
           /\ object[p] # MapNode => PrepareFrom(object, first, theRule)[p] = object[p]
           /\ ~Covered(p, first) /\ ~Covered(p, theRule.exclude)
           /\ theRule.include = {} \/ Covered(p, theRule.include)
<1> DEFINE base == Strip(object, first)
           scoped == Included(object, first, theRule)
           prepared == PrepareFrom(object, first, theRule)
           list == Parent(p)
<1>1. /\ IsObject(base) /\ IsObject(scoped) /\ IsObject(prepared)
      /\ scoped = (IF theRule.include = {} THEN base ELSE Extract(base, theRule.include))
      /\ prepared = IF theRule.exclude = {} THEN scoped ELSE Strip(scoped, theRule.exclude)
  BY PreparedIsObject DEF PrepareFrom, Included
<1>2. ListNode # Null /\ ListNode # MapNode
  BY DEF ListNode, Null, MapNode
<1>3. list # <<>>
  BY <1>1, <1>2 DEF IsObject
<1>4. /\ list \in DOMAIN scoped /\ scoped[list] = ListNode
      /\ list \in DOMAIN base /\ base[list] = ListNode
  BY <1>2, <1>3, PrepareAddsNothing
<1>5. list \in DOMAIN prepared /\ prepared[list] = ListNode
  OBVIOUS
<1> HIDE DEF base, scoped, prepared, list
<1>6. p \in DOMAIN base /\ ~Covered(p, first) /\ (object[p] # MapNode => base[p] = object[p])
  BY <1>4, StripElement DEF base, list
<1>7. /\ p \in DOMAIN scoped /\ scoped[p] = base[p]
      /\ theRule.include = {} \/ Covered(p, theRule.include)
  <2>1. CASE theRule.include = {}
    BY <1>1, <1>6, <2>1
  <2>2. CASE theRule.include # {}
    BY <1>1, <1>4, <1>6, <2>2, ExtractElement DEF list
  <2>3. QED
    BY <2>1, <2>2
<1>8. /\ p \in DOMAIN prepared /\ (scoped[p] # MapNode => prepared[p] = scoped[p])
      /\ ~Covered(p, theRule.exclude)
  <2>1. CASE theRule.exclude = {}
    BY <1>1, <1>7, <2>1 DEF Covered, matchesAnyPath
  <2>2. CASE theRule.exclude # {}
    BY <1>1, <1>5, <1>7, <2>2, StripElement DEF list
  <2>3. QED
    BY <2>1, <2>2
<1>9. QED
  BY <1>6, <1>7, <1>8 DEF prepared

-----------------------------------------------------------------------------
(* Reported changes are real                                               *)

\* The objects differ at p or below it in something that first and exclude leave
\* and include does not rule out.
RealChange(p, old, new, first, theRule) ==
    \E q \in DOMAIN old \cup DOMAIN new :
        /\ IsPrefixOf(p, q) /\ DifferAt(old, new, q)
        /\ ~Covered(q, first) /\ ~Covered(q, theRule.exclude)
        /\ \/ theRule.include = {}
           \/ Covered(q, theRule.include)
           \/ hasAnyDescendantMatch(q, theRule.include)

LEMMA RealChangeIsSymmetric ==
    ASSUME NEW p, NEW old, NEW new, NEW first, NEW theRule
    PROVE  RealChange(p, old, new, first, theRule) <=> RealChange(p, new, old, first, theRule)
BY DEF RealChange, DifferAt

\* A value that one object has in scope and the other has as well is prepared
\* alike in both.
LEMMA SolidInBoth ==
    ASSUME NEW old, NEW new, NEW first, NEW theRule, NEW q,
           Solid(old, q, first, theRule), ~DifferAt(old, new, q)
    PROVE  Solid(new, q, first, theRule) /\ new[q] = old[q]
BY DEF Solid, DifferAt

\* A value below a map: it differs before Prepare or not after it.
LEMMA LeafChangeIsReal ==
    ASSUME NEW old, IsObject(old), NEW new, IsObject(new), NEW first, NEW theRule,
           StayOutside(theRule.include),
           NEW p \in DOMAIN PrepareFrom(old, first, theRule), p # <<>>,
           PrepareFrom(old, first, theRule)[p] # MapNode,
           PrepareFrom(old, first, theRule)[Parent(p)] = MapNode,
           DifferAt(PrepareFrom(old, first, theRule), PrepareFrom(new, first, theRule), p)
    PROVE  RealChange(p, old, new, first, theRule)
<1> DEFINE A == PrepareFrom(old, first, theRule)
           B == PrepareFrom(new, first, theRule)
<1>1. Solid(old, p, first, theRule) /\ A[p] = old[p]
  BY PreparedLeaf
<1>2. IsPath(p) /\ IsPrefixOf(p, p)
  BY <1>1, PathPrefixes DEF Solid, IsObject
<1>3. DifferAt(old, new, p)
  <2>1. SUFFICES ASSUME ~DifferAt(old, new, p) PROVE FALSE
    OBVIOUS
  <2>2. Solid(new, p, first, theRule) /\ new[p] = old[p]
    BY <1>1, <2>1, SolidInBoth
  <2>3. p \in DOMAIN B /\ B[p] = new[p]
    BY <1>2, <2>2, SolidStays
  <2>4. p \in DOMAIN A /\ DifferAt(A, B, p)
    OBVIOUS
  <2> HIDE DEF A, B
  <2>5. QED
    BY <1>1, <2>2, <2>3, <2>4 DEF DifferAt
<1>4. QED
  BY <1>1, <1>2, <1>3 DEF RealChange, Solid

\* A map: there is a value below it, and where that is in the other object too, so
\* is the map.
LEMMA MapChangeIsReal ==
    ASSUME NEW old, IsObject(old), NEW new, IsObject(new), NEW first, NEW theRule,
           StayOutside(theRule.include),
           NEW p \in DOMAIN PrepareFrom(old, first, theRule), p # <<>>,
           PrepareFrom(old, first, theRule)[p] = MapNode,
           DifferAt(PrepareFrom(old, first, theRule), PrepareFrom(new, first, theRule), p)
    PROVE  RealChange(p, old, new, first, theRule)
<1> DEFINE A == PrepareFrom(old, first, theRule)
           B == PrepareFrom(new, first, theRule)
<1>1. IsObject(A) /\ Filled(A) /\ IsObject(B)
  BY PreparedIsObject
<1>2. p \in DOMAIN A /\ A[p] = MapNode /\ DifferAt(A, B, p)
  OBVIOUS
<1>3. PICK q \in DOMAIN A :
          /\ q # <<>> /\ IsPrefixOf(p, q) /\ IsPrefixOf(p, Parent(q))
          /\ A[q] # MapNode /\ A[Parent(q)] = MapNode
  <2> HIDE DEF A, B
  <2>1. QED
    BY <1>1, <1>2, FirstBelow
<1>4. Solid(old, q, first, theRule)
  BY <1>3, PreparedLeaf
<1>5. IsPath(p) /\ IsPath(q) /\ IsPath(Parent(q)) /\ IsPrefixOf(Parent(q), q) /\ Parent(q) \in DOMAIN A
  <2> HIDE DEF A, B
  <2>1. QED
    BY <1>1, <1>2, <1>3, ParentIsPrefix DEF IsObject, IsChild
<1>6. DifferAt(old, new, q)
  <2>1. SUFFICES ASSUME ~DifferAt(old, new, q) PROVE FALSE
    OBVIOUS
  <2>2. Solid(new, q, first, theRule)
    BY <1>4, <2>1, SolidInBoth
  <2>3. \A r : IsPath(r) /\ IsPrefixOf(r, q) => r \in DOMAIN B /\ B[r] = new[r] /\ A[r] = old[r]
    BY <1>4, <2>2, SolidStays
  <2>4. p \in DOMAIN B /\ B[p] = new[p] /\ old[p] = MapNode
    BY <1>2, <1>3, <1>5, <2>3
  <2>5. new[p] = MapNode
    <3>1. CASE p = Parent(q)
      <4>1. old[Parent(q)] = MapNode /\ q \in DOMAIN old /\ q \in DOMAIN new
        BY <1>4, <2>2, <2>4, <3>1 DEF Solid
      <4>2. IsChild(old, q) /\ IsChild(new, q)
        BY <1>3, <4>1 DEF IsObject
      <4>3. q[Len(q)][1] = "field"
        BY <4>1, <4>2 DEF IsChild, MapNode, ListNode
      <4>4. QED
        BY <3>1, <4>2, <4>3 DEF IsChild
    <3>2. CASE p # Parent(q)
      <4> DEFINE n == Len(p) + 1
                 t == SubSeq(q, 1, n)
      <4>1. /\ Len(q) \in Nat \ {0} /\ Len(p) \in Nat /\ Len(p) \in 0 .. Len(Parent(q))
            /\ Len(Parent(q)) = Len(q) - 1 /\ p = SubSeq(Parent(q), 1, Len(p))
            /\ Parent(q) = SubSeq(Parent(q), 1, Len(Parent(q)))
            /\ p = SubSeq(q, 1, Len(p))
        BY <1>3, <1>5, ParentIsPrefix, PrefixOfPath, PathPrefixes DEF IsPrefixOf
      <4>2. n \in 0 .. Len(q) /\ n - 1 = Len(p) /\ Len(p) \in 0 .. n /\ n # 0
        <5>1. Len(q) \in Nat \ {0} /\ Len(p) \in Nat /\ Len(p) \in 0 .. Len(q) - 1
          BY <4>1
        <5>2. QED
          BY <5>1
      <4>3. /\ IsPath(t) /\ IsPrefixOf(t, q) /\ Len(t) = n
            /\ SubSeq(t, 1, Len(p)) = p
        BY <1>5, <4>1, <4>2, PathPrefixes, PrefixIsPath
      <4> HIDE DEF t
      <4>4. Parent(t) = p /\ t # <<>>
        BY <4>2, <4>3 DEF Parent
      <4>5. q \in DOMAIN old /\ q \in DOMAIN new
        BY <1>4, <2>2 DEF Solid
      <4>6. IsChild(old, t) /\ IsChild(new, t)
        BY <4>3, <4>4, <4>5, PrefixInObject DEF IsObject
      <4>7. t[Len(t)][1] = "field"
        BY <2>4, <4>4, <4>6 DEF IsChild, MapNode, ListNode
      <4>8. QED
        BY <4>4, <4>6, <4>7 DEF IsChild
    <3>3. QED
      BY <3>1, <3>2
  <2> HIDE DEF A, B
  <2>6. QED
    BY <1>2, <2>4, <2>5 DEF DifferAt
<1>7. QED
  BY <1>3, <1>4, <1>6 DEF RealChange, Solid

\* An element of a list that both have.
LEMMA ElementChangeIsReal ==
    ASSUME NEW old, IsObject(old), NEW new, IsObject(new), NEW first, SpareElements(first),
           NEW theRule, StayOutside(theRule.include), SpareElements(theRule.exclude),
           NEW p \in DOMAIN PrepareFrom(old, first, theRule), p # <<>>,
           Parent(p) \in DOMAIN PrepareFrom(new, first, theRule),
           PrepareFrom(old, first, theRule)[Parent(p)] = ListNode,
           PrepareFrom(new, first, theRule)[Parent(p)] = ListNode,
           DifferAt(PrepareFrom(old, first, theRule), PrepareFrom(new, first, theRule), p)
    PROVE  RealChange(p, old, new, first, theRule)
<1> DEFINE A == PrepareFrom(old, first, theRule)
           B == PrepareFrom(new, first, theRule)
<1>1. /\ IsObject(A) /\ p \in DOMAIN A /\ A[Parent(p)] = ListNode
      /\ Parent(p) \in DOMAIN B /\ B[Parent(p)] = ListNode /\ DifferAt(A, B, p)
  BY PreparedIsObject
<1>2. p \in DOMAIN old /\ A[p] \in {old[p], Null}
  BY PrepareAddsNothing
<1>3. Parent(p) \in DOMAIN A /\ IsPath(p) /\ IsPrefixOf(p, p)
  <2> HIDE DEF A, B
  <2>1. QED
    BY <1>1, PathPrefixes DEF IsObject, IsChild
<1>4. /\ ~Covered(p, first) /\ ~Covered(p, theRule.exclude)
      /\ theRule.include = {} \/ Covered(p, theRule.include)
      /\ old[p] # MapNode => A[p] = old[p]
  BY <1>1, <1>2, <1>3, PreparedElement
<1>5. CASE DifferAt(old, new, p)
  BY <1>2, <1>3, <1>4, <1>5 DEF RealChange
<1>6. CASE ~DifferAt(old, new, p)
  <2>1. p \in DOMAIN new /\ new[p] = old[p]
    BY <1>2, <1>6 DEF DifferAt
  <2>2. p \in DOMAIN B /\ (new[p] # MapNode => B[p] = new[p])
    BY <1>1, <2>1, PreparedElement
  <2>3. B[p] \in {new[p], Null}
    BY <2>2, PrepareAddsNothing
  <2>4. CASE A[p] = MapNode
    BY <1>1, <2>4, MapChangeIsReal
  <2>5. CASE B[p] = MapNode
    <3>1. DifferAt(B, A, p)
      <4> HIDE DEF A, B
      <4>1. QED
        BY <1>1 DEF DifferAt
    <3>2. RealChange(p, new, old, first, theRule)
      BY <2>2, <2>5, <3>1, MapChangeIsReal
    <3>3. QED
      BY <3>2, RealChangeIsSymmetric
  <2>6. CASE A[p] # MapNode /\ B[p] # MapNode
    <3> HIDE DEF A, B
    <3>1. A[p] = B[p]
      BY <1>2, <1>4, <2>1, <2>2, <2>3, <2>6
    <3>2. QED
      BY <1>1, <2>2, <3>1 DEF DifferAt
  <2>7. QED
    BY <2>4, <2>5, <2>6
<1>7. QED
  BY <1>5, <1>6

\* One object has the path: by what its parent is.
LEMMA ChangeIsReal ==
    ASSUME NEW old, IsObject(old), NEW new, IsObject(new), NEW first, SpareElements(first),
           NEW theRule, StayOutside(theRule.include), SpareElements(theRule.exclude),
           NEW p \in DOMAIN PrepareFrom(old, first, theRule), p # <<>>,
           DifferAt(PrepareFrom(old, first, theRule), PrepareFrom(new, first, theRule), p),
           ~DifferAt(PrepareFrom(old, first, theRule), PrepareFrom(new, first, theRule), Parent(p))
    PROVE  RealChange(p, old, new, first, theRule)
<1> DEFINE A == PrepareFrom(old, first, theRule)
           B == PrepareFrom(new, first, theRule)
<1>1. IsObject(A) /\ p \in DOMAIN A /\ ~DifferAt(A, B, Parent(p))
  BY PreparedIsObject
<1>2. /\ Parent(p) \in DOMAIN A /\ A[Parent(p)] \in {MapNode, ListNode}
      /\ Parent(p) \in DOMAIN B /\ B[Parent(p)] = A[Parent(p)]
  <2> HIDE DEF A, B
  <2>1. QED
    BY <1>1 DEF IsObject, IsChild, DifferAt
<1>3. CASE A[Parent(p)] = ListNode
  BY <1>2, <1>3, ElementChangeIsReal
<1>4. CASE A[Parent(p)] = MapNode /\ A[p] # MapNode
  BY <1>4, LeafChangeIsReal
<1>5. CASE A[p] = MapNode
  BY <1>5, MapChangeIsReal
<1>6. QED
  BY <1>2, <1>3, <1>4, <1>5

LEMMA ChangesAreReal ==
    ASSUME NEW old, IsObject(old), NEW new, IsObject(new), NEW first, SpareElements(first),
           NEW theRule, StayOutside(theRule.include), SpareElements(theRule.exclude),
           NEW p \in Changed(PrepareFrom(old, first, theRule), PrepareFrom(new, first, theRule))
    PROVE  RealChange(p, old, new, first, theRule)
<1> DEFINE A == PrepareFrom(old, first, theRule)
           B == PrepareFrom(new, first, theRule)
<1>1. IsObject(A) /\ IsObject(B)
  BY PreparedIsObject
<1>2. /\ p \in DOMAIN A \cup DOMAIN B /\ DifferAt(A, B, p)
      /\ \A r \in StrictPrefixes(p) : ~DifferAt(A, B, r)
  <2> HIDE DEF A, B
  <2>1. p \in Changed(A, B)
    BY DEF A, B
  <2>2. QED
    BY <2>1 DEF Changed
<1> HIDE DEF A, B
<1>3. p # <<>> /\ IsPath(p)
  BY <1>1, <1>2 DEF IsObject, DifferAt
<1>4. ~DifferAt(A, B, Parent(p)) /\ DifferAt(B, A, p) /\ ~DifferAt(B, A, Parent(p))
  <2>1. Len(p) - 1 \in 0 .. Len(p) - 1
    BY <1>3, ParentIsPrefix
  <2>2. Parent(p) \in StrictPrefixes(p)
    BY <2>1 DEF Parent, StrictPrefixes
  <2>3. QED
    BY <1>2, <2>2 DEF DifferAt
<1>5. CASE p \in DOMAIN A
  BY <1>2, <1>3, <1>4, <1>5, ChangeIsReal DEF A, B
<1>6. CASE p \in DOMAIN B
  <2>1. RealChange(p, new, old, first, theRule)
    BY <1>2, <1>3, <1>4, <1>6, ChangeIsReal DEF A, B
  <2>2. QED
    BY <2>1, RealChangeIsSymmetric
<1>7. QED
  BY <1>2, <1>5, <1>6

-----------------------------------------------------------------------------
(* The fields of the API server                                            *)

\* None of the implicit exclusions is at or above an annotation.
LEMMA AnnotationsAreCompared ==
    ASSUME NEW key
    PROVE  ~Covered(AnnotationPath(key), implicitExcludePatterns)
<1> DEFINE A == AnnotationPath(key)
<1>1. /\ IsPath(A) /\ Len(A) = 3 /\ A = <<metadata, Field("annotations"), Field(key)>>
  BY AnnotationPathType
<1>2. A[1] = metadata /\ A[2] = Field("annotations")
  BY <1>1
<1> HIDE DEF A
<1>3. ASSUME NEW r \in Prefixes(A), NEW pattern \in implicitExcludePatterns, matchesPath(pattern, r)
      PROVE  FALSE
  <2>1. PICK m \in 0 .. 3 : r = SubSeq(A, 1, m) /\ Len(r) = m
    BY <1>1, PrefixesArePrefixes
  <2>2. \A i \in 1 .. m : r[i] = A[i] /\ i \in DOMAIN r
    BY <1>1, <2>1 DEF IsPath
  <2>3. CASE pattern = <<Field("status")>>
    <3>1. m = 1
      BY <1>3, <2>1, <2>3 DEF matchesPath
    <3>2. segmentsMatch(Field("status"), metadata)
      BY <1>2, <1>3, <2>2, <2>3, <3>1 DEF matchesPath
    <3>3. QED
      BY <3>2 DEF segmentsMatch, Field, metadata, AnyField, AnyIndex
  <2>4. ASSUME NEW k \in {"managedFields", "resourceVersion", "generation", "uid",
                          "creationTimestamp", "selfLink"},
               pattern = <<metadata, Field(k)>>
        PROVE  FALSE
    <3>1. m = 2
      BY <1>3, <2>1, <2>4 DEF matchesPath
    <3>2. segmentsMatch(Field(k), Field("annotations"))
      BY <1>2, <1>3, <2>2, <2>4, <3>1 DEF matchesPath
    <3>3. QED
      BY <3>2, <2>4 DEF segmentsMatch, Field, AnyField, AnyIndex
  <2>5. QED
    BY <1>3, <2>3, <2>4 DEF implicitExcludePatterns
<1>4. QED
  BY <1>3 DEF Covered, matchesAnyPath, A

LEMMA AnnotationsStay ==
    ASSUME NEW object, IsObject(object), NEW key
    PROVE  hasTrueAnnotation(Strip(object, implicitExcludePatterns), key) <=>
               hasTrueAnnotation(object, key)
<1> DEFINE A == AnnotationPath(key)
           stripped == Strip(object, implicitExcludePatterns)
<1>1. Carries(object, stripped, A)
  BY AnnotationPathType, AnnotationsAreCompared, StripCarries
<1>2. \A text \in TrueTexts : text \notin {MapNode, Null}
  BY DEF TrueTexts, MapNode, Null
<1> HIDE DEF A, stripped
<1>3. QED
  BY <1>1, <1>2 DEF Carries, hasTrueAnnotation, A, stripped

\* Neither is it at or above a label.
LEMMA LabelsAreCompared ==
    ASSUME NEW key
    PROVE  /\ IsPath(LabelPath(key)) /\ LabelPath(key) # <<>>
           /\ ~Covered(LabelPath(key), implicitExcludePatterns)
<1> DEFINE A == LabelPath(key)
<1>1. IsPath(A) /\ Len(A) = 3
  BY Triples, Zenon DEF LabelPath
<1>2. A[1] = metadata /\ A[2] = Field("labels")
  BY DEF LabelPath
<1>3. A # <<>>
  BY <1>1
<1> HIDE DEF A
<1>4. ASSUME NEW r \in Prefixes(A), NEW pattern \in implicitExcludePatterns, matchesPath(pattern, r)
      PROVE  FALSE
  <2>1. PICK m \in 0 .. 3 : r = SubSeq(A, 1, m) /\ Len(r) = m
    BY <1>1, PrefixesArePrefixes
  <2>2. \A i \in 1 .. m : r[i] = A[i] /\ i \in DOMAIN r
    BY <1>1, <2>1 DEF IsPath
  <2>3. CASE pattern = <<Field("status")>>
    <3>1. m = 1
      BY <1>4, <2>1, <2>3 DEF matchesPath
    <3>2. segmentsMatch(Field("status"), metadata)
      BY <1>2, <1>4, <2>2, <2>3, <3>1 DEF matchesPath
    <3>3. QED
      BY <3>2 DEF segmentsMatch, Field, metadata, AnyField, AnyIndex
  <2>4. ASSUME NEW k \in {"managedFields", "resourceVersion", "generation", "uid",
                          "creationTimestamp", "selfLink"},
               pattern = <<metadata, Field(k)>>
        PROVE  FALSE
    <3>1. m = 2
      BY <1>4, <2>1, <2>4 DEF matchesPath
    <3>2. segmentsMatch(Field(k), Field("labels"))
      BY <1>2, <1>4, <2>2, <2>4, <3>1 DEF matchesPath
    <3>3. QED
      BY <3>2, <2>4 DEF segmentsMatch, Field, AnyField, AnyIndex
  <2>5. QED
    BY <1>4, <2>3, <2>4 DEF implicitExcludePatterns
<1>5. QED
  BY <1>1, <1>3, <1>4 DEF Covered, matchesAnyPath, A

LEMMA LabelsStay ==
    ASSUME NEW object, NEW selectors
    PROVE  matchesLabels(selectors, Strip(object, implicitExcludePatterns)) <=>
               matchesLabels(selectors, object)
<1> DEFINE stripped == Strip(object, implicitExcludePatterns)
<1>1. ASSUME NEW key, NEW value
      PROVE  HasLabel(stripped, key, value) <=> HasLabel(object, key, value)
  <2>1. Carries(object, stripped, LabelPath(key))
    BY LabelsAreCompared, StripCarries
  <2> HIDE DEF stripped
  <2>2. QED
    BY <2>1 DEF Carries, HasLabel, Containers
<1> HIDE DEF stripped
<1>2. QED
  BY <1>1 DEF matchesLabels, stripped

\* The verdict of ServerFieldsNeverCount, on any input.
LEMMA VerdictsIgnoreServerFields ==
    ASSUME NEW input, NEW bare, NEW theRule, NEW annotation,
           IsObject(input.oldObject), IsObject(input.object),
           bare.oldObject = Strip(input.oldObject, implicitExcludePatterns),
           bare.object = Strip(input.object, implicitExcludePatterns)
    PROVE  AfterResolve(input, theRule, annotation) = AfterResolve(bare, theRule, annotation)
<1> DEFINE I == implicitExcludePatterns
           A == AnnotationPath(theRule.bypass)
<1>1. ASSUME NEW object, IsObject(object)
      PROVE  /\ Prepare(Strip(object, I), theRule) = Prepare(object, theRule)
             /\ Prepare(removeAnnotation(cloneObject(Strip(object, I)), theRule.bypass), theRule) =
                    Prepare(removeAnnotation(cloneObject(object), theRule.bypass), theRule)
  <2>1. HasPaths(object) /\ object[<<>>] = MapNode /\ IsObject(Strip(object, I))
    BY <1>1, ObjectHasPaths, StripIsObject
  <2>2. /\ Strip(Strip(object, I), I) = Strip(object, I \cup I)
        /\ Strip(Strip(object, I), I \cup {A}) = Strip(object, I \cup (I \cup {A}))
    BY <2>1, StripTwice
  <2>3. I \cup I = I /\ I \cup (I \cup {A}) = I \cup {A}
    OBVIOUS
  <2>4. /\ Strip(Strip(object, I), I) = Strip(object, I)
        /\ Strip(Strip(object, I), I \cup {A}) = Strip(object, I \cup {A})
    BY <2>2, <2>3
  <2> DEFINE J == I \cup {A}
  <2>5. PrepareFrom(Strip(object, I), J, theRule) = PrepareFrom(object, J, theRule)
    <3> HIDE DEF I, J
    <3>1. Strip(Strip(object, I), J) = Strip(object, J)
      BY <2>4 DEF J
    <3>2. QED
      BY <3>1 DEF PrepareFrom
  <2>6. Prepare(Strip(object, I), theRule) = Prepare(object, theRule)
    BY <2>4 DEF Prepare
  <2>7. QED
    BY <1>1, <2>1, <2>5, <2>6, PrepareWithoutBypass
<1> HIDE DEF I, A
<1>2. ScopedChanges(bare.oldObject, bare.object, theRule) =
          ScopedChanges(input.oldObject, input.object, theRule)
  BY <1>1 DEF ScopedChanges, I
<1>3. ChangesWithoutBypass(bare.oldObject, bare.object, theRule) =
          ChangesWithoutBypass(input.oldObject, input.object, theRule)
  BY <1>1 DEF ChangesWithoutBypass, ScopedChanges, I
<1>4. /\ hasTrueAnnotation(bare.oldObject, theRule.bypass) <=>
             hasTrueAnnotation(input.oldObject, theRule.bypass)
      /\ hasTrueAnnotation(bare.object, theRule.bypass) <=>
             hasTrueAnnotation(input.object, theRule.bypass)
  BY AnnotationsStay
<1> DEFINE had == hasTrueAnnotation(input.oldObject, theRule.bypass)
           has == hasTrueAnnotation(input.object, theRule.bypass)
           bareHad == hasTrueAnnotation(bare.oldObject, theRule.bypass)
           bareHas == hasTrueAnnotation(bare.object, theRule.bypass)
<1>5. CASE had /\ ~has
  <2>1. bareHad /\ ~bareHas
    BY <1>4, <1>5
  <2>2. QED
    BY <1>2, <1>3, <1>5, <2>1 DEF AfterResolve
<1>6. CASE ~had
  <2>1. ~bareHad
    BY <1>4, <1>6
  <2>2. QED
    BY <1>2, <1>6, <2>1 DEF AfterResolve
<1>7. CASE has
  <2>1. bareHas
    BY <1>4, <1>7
  <2>2. QED
    BY <1>2, <1>7, <2>1 DEF AfterResolve
<1>8. QED
  BY <1>5, <1>6, <1>7

-----------------------------------------------------------------------------
(* The shape of a verdict                                                  *)

\* Whatever is reported as changed is a path of one of the objects.
LEMMA ReportedPaths ==
    ASSUME NEW old, IsObject(old), NEW new, IsObject(new), NEW theRule
    PROVE  /\ ScopedChanges(old, new, theRule) \subseteq DOMAIN old \cup DOMAIN new
           /\ ChangesWithoutBypass(old, new, theRule) \subseteq DOMAIN old \cup DOMAIN new
<1>1. ASSUME NEW first, NEW p \in Changed(PrepareFrom(old, first, theRule), PrepareFrom(new, first, theRule))
      PROVE  p \in DOMAIN old \cup DOMAIN new
  <2>1. p \in DOMAIN PrepareFrom(old, first, theRule) \cup DOMAIN PrepareFrom(new, first, theRule)
    BY <1>1 DEF Changed
  <2>2. CASE p = <<>>
    BY <2>2 DEF IsObject
  <2>3. CASE p # <<>>
    BY <2>1, <2>3, PrepareAddsNothing
  <2>4. QED
    BY <2>2, <2>3
<1>2. ScopedChanges(old, new, theRule) =
          Changed(PrepareFrom(old, implicitExcludePatterns, theRule),
                  PrepareFrom(new, implicitExcludePatterns, theRule))
  BY DEF ScopedChanges, Prepare, PrepareFrom
<1>3. ChangesWithoutBypass(old, new, theRule) =
          Changed(PrepareFrom(old, implicitExcludePatterns \cup {AnnotationPath(theRule.bypass)}, theRule),
                  PrepareFrom(new, implicitExcludePatterns \cup {AnnotationPath(theRule.bypass)}, theRule))
  BY PrepareWithoutBypass DEF ChangesWithoutBypass, ScopedChanges
<1>4. QED
  BY <1>1, <1>2, <1>3

\* A denial has a status code, and what it is for is among paths.
IsVerdict(answer, paths) ==
    /\ answer.allowed \in BOOLEAN /\ answer.code \in {0, 400, 403, 500}
    /\ answer.allowed <=> answer.code = 0
    /\ answer.denied \subseteq paths

LEMMA AllowVerdict ==
    ASSUME NEW reason, NEW theRule, NEW mode, NEW changed, NEW paths
    PROVE  IsVerdict(Allow(reason, theRule, mode, changed), paths)
BY DEF IsVerdict, Allow, Decision

ErrorCodes == {400, 500}

LEMMA ErrorVerdict ==
    ASSUME NEW reason, NEW theRule, NEW code \in ErrorCodes, NEW paths
    PROVE  IsVerdict(errorDecision(theRule, code, reason), paths)
BY DEF IsVerdict, errorDecision, Decision, ErrorCodes

LEMMA EarlyVerdicts ==
    ASSUME NEW input, NEW theRule
    PROVE  /\ BeforeMatch(input) # Undecided =>
                 IsVerdict(BeforeMatch(input), {})
           /\ AfterMatch(input, theRule) # Undecided =>
                 IsVerdict(AfterMatch(input, theRule), {})
<1> DEFINE notUpdate == Allow("operation not enforced", NoRule, "", {})
           noOld == errorDecision(NoRule, 400, "invalid oldObject")
           noNew == errorDecision(NoRule, 400, "invalid object")
           noRule == Allow("no matching rule", NoRule, "off", {})
           otherUser == Allow("user not in scoped user list", theRule, theRule.mode, {})
           bypassed == Allow("bypass marker present", theRule, theRule.mode, {})
<1>1. BeforeMatch(input) \in {notUpdate, noOld, noNew, Undecided}
  BY DEF BeforeMatch
<1>2. AfterMatch(input, theRule) \in {noRule, otherUser, bypassed, Undecided}
  BY DEF AfterMatch
<1>3. /\ IsVerdict(notUpdate, {})
      /\ IsVerdict(noRule, {})
      /\ IsVerdict(otherUser, {})
      /\ IsVerdict(bypassed, {})
  BY AllowVerdict
<1>4. /\ IsVerdict(noOld, {})
      /\ IsVerdict(noNew, {})
  <2>1. 400 \in ErrorCodes
    BY DEF ErrorCodes
  <2>2. QED
    BY <2>1, ErrorVerdict, Zenon
<1> HIDE DEF notUpdate, noOld, noNew, noRule, otherUser, bypassed
<1>5. QED
  BY <1>1, <1>2, <1>3, <1>4

LEMMA LateVerdicts ==
    ASSUME NEW input, NEW theRule, NEW annotation
    PROVE  IsVerdict(AfterResolve(input, theRule, annotation),
                     ScopedChanges(input.oldObject, input.object, theRule)
                         \cup ChangesWithoutBypass(input.oldObject, input.object, theRule))
<1> DEFINE answer == AfterResolve(input, theRule, annotation)
           old == input.oldObject
           new == input.object
           mode == IF annotation = NoAnnotation THEN theRule.mode ELSE annotation
           changed == ScopedChanges(old, new, theRule)
           remaining == ChangesWithoutBypass(old, new, theRule)
           immutable == {q \in changed : ~MatchAny(q, theRule.mutable)}
           paths == changed \cup remaining
           removed == /\ hasTrueAnnotation(old, theRule.bypass)
                      /\ ~hasTrueAnnotation(new, theRule.bypass)
           unchanged == Allow("no changes detected", theRule, mode, {})
           bypassed == Allow("bypass marker removed", theRule, mode, changed)
           allowed == Allow("only mutable fields changed", theRule, mode, changed)
           carried == Decision(FALSE, 403, "bypass annotation removal must be the only change",
                               theRule, mode, changed, remaining)
           denied == Decision(mode # "enforce", IF mode = "enforce" THEN 403 ELSE 0,
                              "immutable fields changed", theRule, mode, changed, immutable)
           noMode == errorDecision(theRule, 500, "resolve namespace annotation")
           noInclude == errorDecision(theRule, 500, "parse include patterns")
           noExclude == errorDecision(theRule, 500, "parse exclude patterns")
           noMutable == errorDecision(theRule, 500, "parse mutable patterns")
<1>1. answer = IF annotation = BadAnnotation THEN noMode
               ELSE IF ~Parses(theRule.include) THEN noInclude
               ELSE IF ~Parses(theRule.exclude) THEN noExclude
               ELSE IF changed = {} THEN unchanged
               ELSE IF removed /\ remaining = {} THEN bypassed
               ELSE IF removed THEN carried
               ELSE IF ~Parses(theRule.mutable) THEN noMutable
               ELSE IF immutable = {} THEN allowed
               ELSE denied
  BY DEF AfterResolve
<1>2. immutable \subseteq changed
  OBVIOUS
<1>3. remaining \subseteq paths /\ immutable \subseteq paths
  BY <1>2
<1>4. /\ IsVerdict(noMode, paths) /\ IsVerdict(noInclude, paths)
      /\ IsVerdict(noExclude, paths) /\ IsVerdict(noMutable, paths)
  <2>1. 500 \in ErrorCodes
    BY DEF ErrorCodes
  <2>2. \A reason : IsVerdict(errorDecision(theRule, 500, reason), paths)
    BY <2>1, ErrorVerdict, Zenon
  <2>3. QED
    BY <2>2, Zenon
<1>5. /\ IsVerdict(unchanged, paths) /\ IsVerdict(bypassed, paths)
      /\ IsVerdict(allowed, paths)
  BY AllowVerdict
<1> HIDE DEF changed, remaining, immutable, mode, paths
<1>6. IsVerdict(carried, paths)
  <2>1. carried.allowed = FALSE /\ carried.code = 403 /\ carried.denied = remaining
    BY DEF Decision
  <2> HIDE DEF carried
  <2>2. ~carried.allowed /\ carried.allowed \in BOOLEAN
    BY <2>1, Zenon
  <2>3. carried.code # 0 /\ carried.code \in {0, 400, 403, 500}
    BY <2>1
  <2>4. QED
    BY <1>3, <2>1, <2>2, <2>3 DEF IsVerdict
<1>7. IsVerdict(denied, paths)
  <2>1. /\ denied.allowed = (mode # "enforce")
        /\ denied.code = (IF mode = "enforce" THEN 403 ELSE 0)
        /\ denied.denied = immutable
    BY DEF Decision
  <2> HIDE DEF denied
  <2>2. /\ denied.allowed <=> denied.code = 0
        /\ denied.allowed \in BOOLEAN /\ denied.code \in {0, 400, 403, 500}
    <3>1. CASE mode = "enforce"
      <4>1. denied.code = 403 /\ 403 # 0
        BY <2>1, <3>1
      <4>2. denied.allowed = FALSE
        BY <2>1, <3>1, Zenon
      <4>3. QED
        BY <4>1, <4>2
    <3>2. CASE mode # "enforce"
      <4>1. denied.code = 0
        BY <2>1, <3>2
      <4>2. denied.allowed = TRUE
        BY <2>1, <3>2, Zenon
      <4>3. QED
        BY <4>1, <4>2
    <3>3. QED
      BY <3>1, <3>2
  <2>3. QED
    BY <1>3, <2>1, <2>2 DEF IsVerdict
<1> HIDE DEF answer, removed, unchanged, bypassed, allowed, carried, denied,
             noMode, noInclude, noExclude, noMutable
<1>8. IsVerdict(answer, paths)
  BY <1>1, <1>4, <1>5, <1>6, <1>7
<1>9. QED
  BY <1>8 DEF answer, paths, changed, remaining

=============================================================================
