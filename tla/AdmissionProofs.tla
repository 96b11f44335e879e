---------------------------- MODULE AdmissionProofs ----------------------------
(***************************************************************************)
(* Theorems of Admission, for any number of requests and any objects,      *)
(* rules and namespaces: that every verdict is Validate's for one rule set *)
(* and one namespace state, and what follows for those that enforce lets   *)
(* through.                                                                *)
(***************************************************************************)
EXTENDS Admission, ValidatorProofs

-----------------------------------------------------------------------------
(* What the verdicts are made of                                           *)

\* In a rule's scope Prepare carries every node over.
LEMMA PrepareCarries ==
    ASSUME NEW object, NEW theRule, NEW p, IsPath(p), p # <<>>, InScope(p, theRule)
    PROVE  Carries(object, Prepare(object, theRule), p)
<1> DEFINE stripped == Strip(object, implicitExcludePatterns)
           included == IF theRule.include = {} THEN stripped ELSE Extract(stripped, theRule.include)
<1>1. ~Covered(p, implicitExcludePatterns) /\ ~Covered(p, theRule.exclude)
  BY CoveredByMore DEF InScope, Excluded
<1>2. Carries(object, stripped, p)
  BY <1>1, StripCarries
<1> HIDE DEF stripped
<1>3. Carries(object, included, p)
  <2>1. CASE theRule.include = {}
    BY <2>1, <1>2
  <2>2. CASE theRule.include # {}
    <3>1. Covered(p, theRule.include)
      BY <2>2 DEF InScope
    <3>2. QED
      BY <2>2, <3>1, <1>2, ExtractCarries, CarriesOn
  <2>3. QED
    BY <2>1, <2>2
<1> HIDE DEF included
<1>4. Prepare(object, theRule) = IF theRule.exclude = {} THEN included ELSE Strip(included, theRule.exclude)
  BY DEF Prepare, included, stripped
<1>5. QED
  BY <1>1, <1>3, <1>4, StripCarries, CarriesOn

\* Outside the annotation it removes, removeAnnotation carries every node over.
LEMMA RemoveAnnotationCarries ==
    ASSUME NEW object, NEW key, NEW p, ~IsPrefixOf(AnnotationPath(key), p)
    PROVE  Carries(object, removeAnnotation(object, key), p)
<1> DEFINE others == {q \in DOMAIN object : ~IsPrefixOf(AnnotationPath(key), q)}
           annotated == \E q \in others : Len(q) = 3 /\ Parent(q) = AnnotationsPath
           isMap == AnnotationsPath \in DOMAIN object /\ object[AnnotationsPath] = MapNode
           left == IF isMap /\ ~annotated THEN others \ {AnnotationsPath} ELSE others
<1>1. removeAnnotation(object, key) = [q \in left |-> object[q]]
  BY DEF removeAnnotation
<1>2. left \subseteq DOMAIN object
  OBVIOUS
<1>3. ASSUME p \in DOMAIN object, object[p] # MapNode
      PROVE  p \in left
  <2>1. p \in others
    BY <1>3
  <2>2. isMap => p # AnnotationsPath
    BY <1>3
  <2> HIDE DEF others, isMap, annotated
  <2>3. QED
    BY <2>1, <2>2
<1> HIDE DEF left
<1>4. QED
  BY <1>1, <1>2, <1>3 DEF Carries

\* A path where decoded objects differ in a value is not the root.
LEMMA LeafIsBelowRoot ==
    ASSUME NEW old, NEW new, NEW p, IsObject(old), IsObject(new), LeafDiffers(old, new, p)
    PROVE  IsPath(p) /\ p # <<>>
BY DEF IsObject, LeafDiffers

\* A value in the rule's scope that differs is reported, at its path or above.
LEMMA ScopedChangesReport ==
    ASSUME NEW old, NEW new, NEW theRule, NEW p, IsPath(p), p # <<>>,
           LeafDiffers(old, new, p), InScope(p, theRule)
    PROVE  \E q \in ScopedChanges(old, new, theRule) : q \in Prefixes(p)
<1>1. DifferAt(Prepare(old, theRule), Prepare(new, theRule), p)
  BY PrepareCarries, DifferencesAreCarried DEF LeafDiffers
<1>2. QED
  BY <1>1, DifferencesAreReported DEF ScopedChanges

\* The same for the comparison without the bypass annotation.
LEMMA ChangesWithoutBypassReport ==
    ASSUME NEW old, NEW new, NEW theRule, NEW p, IsPath(p), p # <<>>,
           LeafDiffers(old, new, p), InScope(p, theRule),
           ~IsPrefixOf(AnnotationPath(theRule.bypass), p)
    PROVE  ChangesWithoutBypass(old, new, theRule) # {}
<1> DEFINE Without(object) == removeAnnotation(cloneObject(object), theRule.bypass)
<1>1. ~Covered(p, {})
  BY DEF Covered, matchesAnyPath
<1>2. ASSUME NEW object
      PROVE  Carries(object, Prepare(Without(object), theRule), p)
  <2>1. Carries(object, cloneObject(object), p)
    BY <1>1, StripCarries DEF cloneObject
  <2>2. Carries(cloneObject(object), Without(object), p)
    BY RemoveAnnotationCarries
  <2>3. Carries(Without(object), Prepare(Without(object), theRule), p)
    BY PrepareCarries
  <2> HIDE DEF Without
  <2>4. QED
    BY <2>1, <2>2, <2>3, CarriesOn
<1>3. DifferAt(Prepare(Without(old), theRule), Prepare(Without(new), theRule), p)
  BY <1>2, DifferencesAreCarried DEF LeafDiffers
<1>4. QED
  BY <1>3, DifferencesAreReported DEF ChangesWithoutBypass, ScopedChanges

\* Early returns have other reasons than the verdicts on what changed.
ReasonsOfChange == {"no changes detected", "only mutable fields changed", "bypass marker removed"}

LEMMA EarlyReasons ==
    ASSUME NEW input, NEW theRule
    PROVE  /\ BeforeMatch(input) # Undecided => BeforeMatch(input).reason \notin ReasonsOfChange
           /\ AfterMatch(input, theRule) # Undecided =>
                 AfterMatch(input, theRule).reason \notin ReasonsOfChange
<1>1. BeforeMatch(input) # Undecided => BeforeMatch(input).reason \notin ReasonsOfChange
  BY DEF BeforeMatch, Allow, errorDecision, Decision, ReasonsOfChange
<1>2. AfterMatch(input, theRule) # Undecided =>
          AfterMatch(input, theRule).reason \notin ReasonsOfChange
  BY DEF AfterMatch, Allow, Decision, ReasonsOfChange
<1>3. QED
  BY <1>1, <1>2

\* What AfterResolve found when it gives one of these reasons.
LEMMA ReasonsTell ==
    ASSUME NEW input, NEW theRule, NEW annotation, NEW answer,
           answer = AfterResolve(input, theRule, annotation)
    PROVE  /\ answer # Undecided
           /\ answer.reason = "no changes detected" =>
                  ScopedChanges(input.oldObject, input.object, theRule) = {}
           /\ answer.reason = "bypass marker removed" =>
                  ChangesWithoutBypass(input.oldObject, input.object, theRule) = {}
           /\ answer.reason = "only mutable fields changed" =>
                  \A q \in ScopedChanges(input.oldObject, input.object, theRule) :
                      MatchAny(q, theRule.mutable)
<1> DEFINE mode == IF annotation = NoAnnotation THEN theRule.mode ELSE annotation
           changed == ScopedChanges(input.oldObject, input.object, theRule)
           remaining == ChangesWithoutBypass(input.oldObject, input.object, theRule)
           immutable == {q \in changed : ~MatchAny(q, theRule.mutable)}
           removed == /\ hasTrueAnnotation(input.oldObject, theRule.bypass)
                      /\ ~hasTrueAnnotation(input.object, theRule.bypass)
           unchanged == Allow("no changes detected", theRule, mode, {})
           bypassed == Allow("bypass marker removed", theRule, mode, changed)
           allowed == Allow("only mutable fields changed", theRule, mode, changed)
           carried == Decision(FALSE, 403, "bypass annotation removal must be the only change",
                               theRule, mode, changed, remaining)
           denied == Decision(mode # "enforce", IF mode = "enforce" THEN 403 ELSE 0,
                              "immutable fields changed", theRule, mode, changed, immutable)
           noMode == errorDecision(theRule, 500, "resolve namespace annotation")
           noInclude == errorDecision(theRule, 500, "parse include patterns")
           noExclude == errorDecision(theRule, 500, "parse exclude patterns")
           noMutable == errorDecision(theRule, 500, "parse mutable patterns")
<1>1. answer = IF annotation = BadAnnotation THEN noMode
               ELSE IF ~Parses(theRule.include) THEN noInclude
               ELSE IF ~Parses(theRule.exclude) THEN noExclude
               ELSE IF changed = {} THEN unchanged
               ELSE IF removed /\ remaining = {} THEN bypassed
               ELSE IF removed THEN carried
               ELSE IF ~Parses(theRule.mutable) THEN noMutable
               ELSE IF immutable = {} THEN allowed
               ELSE denied
  BY DEF AfterResolve
<1>2. /\ unchanged.reason = "no changes detected"
      /\ bypassed.reason = "bypass marker removed"
      /\ allowed.reason = "only mutable fields changed"
      /\ carried.reason = "bypass annotation removal must be the only change"
      /\ denied.reason = "immutable fields changed"
  BY DEF Allow, Decision
<1>3. /\ noMode.reason = "resolve namespace annotation"
      /\ noInclude.reason = "parse include patterns"
      /\ noExclude.reason = "parse exclude patterns"
      /\ noMutable.reason = "parse mutable patterns"
  BY DEF errorDecision, Decision
<1> HIDE DEF changed, remaining, immutable, removed, unchanged, bypassed, allowed, carried, denied,
             noMode, noInclude, noExclude, noMutable
<1>4. /\ answer.reason # "undecided"
      /\ answer.reason = "no changes detected" => changed = {}
      /\ answer.reason = "bypass marker removed" => remaining = {}
      /\ answer.reason = "only mutable fields changed" => immutable = {}
  BY <1>1, <1>2, <1>3
<1>5. answer # Undecided
  <2>1. Undecided.reason = "undecided"
    BY DEF Undecided
  <2>2. QED
    BY <1>4, <2>1
<1>6. QED
  BY <1>4, <1>5 DEF changed, remaining, immutable

\* The verdict of EnforceLetsThroughOnlyMutable, on any input.
LEMMA OnlyMutableLetThrough ==
    ASSUME NEW input, NEW theRule, NEW annotation, NEW answer,
           IsObject(input.oldObject), IsObject(input.object),
           answer = AfterResolve(input, theRule, annotation),
           answer.reason \in {"no changes detected", "only mutable fields changed"},
           NEW p \in LeafDifferences(input), InScope(p, theRule)
    PROVE  Covered(p, theRule.mutable) \/ ReadAsMutable(p, theRule)
<1> DEFINE old == input.oldObject
           new == input.object
<1>1. LeafDiffers(old, new, p)
  BY DEF LeafDifferences
<1>2. IsPath(p) /\ p # <<>>
  BY <1>1, LeafIsBelowRoot
<1>3. PICK q \in ScopedChanges(old, new, theRule) : q \in Prefixes(p)
  BY <1>1, <1>2, ScopedChangesReport
<1>4. MatchAny(q, theRule.mutable)
  BY <1>3, ReasonsTell
<1>5. CASE ReadBack(q) = q
  BY <1>3, <1>4, <1>5 DEF MatchAny, Covered
<1>6. CASE ReadBack(q) # q
  BY <1>3, <1>4, <1>6 DEF ReadAsMutable
<1>7. QED
  BY <1>5, <1>6

\* The verdict of BypassRemovalCarriesNothing, on any input.
LEMMA RemovalCarriesNothing ==
    ASSUME NEW input, NEW theRule, NEW annotation, NEW answer,
           IsObject(input.oldObject), IsObject(input.object),
           answer = AfterResolve(input, theRule, annotation),
           answer.reason = "bypass marker removed",
           NEW p \in LeafDifferences(input), InScope(p, theRule)
    PROVE  IsPrefixOf(AnnotationPath(theRule.bypass), p)
<1>1. LeafDiffers(input.oldObject, input.object, p)
  BY DEF LeafDifferences
<1>2. IsPath(p) /\ p # <<>>
  BY <1>1, LeafIsBelowRoot
<1>3. ChangesWithoutBypass(input.oldObject, input.object, theRule) = {}
  BY ReasonsTell
<1>4. QED
  BY <1>1, <1>2, <1>3, ChangesWithoutBypassReport

\* The verdict of RollbackJudgedAlike, on any input.
LEMMA VerdictsAreSymmetric ==
    ASSUME NEW input, NEW undone, NEW theRule, NEW annotation,
           undone.oldObject = input.object, undone.object = input.oldObject,
           ~hasTrueAnnotation(input.oldObject, theRule.bypass),
           ~hasTrueAnnotation(input.object, theRule.bypass)
    PROVE  AfterResolve(input, theRule, annotation) = AfterResolve(undone, theRule, annotation)
<1>1. ScopedChanges(input.oldObject, input.object, theRule) =
          ScopedChanges(undone.oldObject, undone.object, theRule)
  BY ChangedIsSymmetric DEF ScopedChanges
<1>2. QED
  BY <1>1 DEF AfterResolve

-----------------------------------------------------------------------------
(* The invariant                                                           *)

ShapeInv ==
    /\ DOMAIN pc = Requests /\ DOMAIN request = Requests /\ DOMAIN rule = Requests
    /\ DOMAIN decision = Requests
    /\ DOMAIN storesSeen = Requests /\ DOMAIN annotationsSeen = Requests

\* The decision of r and the rule it was made with are those of one rule set and
\* one namespace state seen while r was served.
Explained(r) ==
    \E rules \in storesSeen[r], modes \in annotationsSeen[r] :
        /\ BeforeMatch(request[r]) = Undecided => rule[r] = Match(rules, request[r])
        /\ decision[r] = Validate(request[r], rules, modes)

\* What r knows between its steps.
Serving(r) ==
    /\ pc[r] \in {"match", "resolve", "record"} => request[r] \in Inputs
    /\ pc[r] \in {"match", "resolve"} =>
          store \in storesSeen[r] /\ annotations \in annotationsSeen[r]
    /\ pc[r] = "resolve" =>
          /\ BeforeMatch(request[r]) = Undecided
          /\ AfterMatch(request[r], rule[r]) = Undecided
          /\ \E rules \in storesSeen[r] : rule[r] = Match(rules, request[r])
    /\ pc[r] = "record" => Explained(r)

IInv == ShapeInv /\ \A r \in Requests : Serving(r)

LEMMA InitServing == Init => IInv
BY DEF Init, IInv, ShapeInv, Serving

\* A step of one request leaves what the others know alone.
LEMMA OthersServing ==
    ASSUME IInv, NEW r \in Requests, NEW q \in Requests, q # r,
           UNCHANGED <<store, annotations>>,
           pc'[q] = pc[q], request'[q] = request[q], rule'[q] = rule[q],
           decision'[q] = decision[q], storesSeen'[q] = storesSeen[q],
           annotationsSeen'[q] = annotationsSeen[q]
    PROVE  Serving(q)'
BY DEF IInv, Serving, Explained

LEMMA PublishServing ==
    ASSUME IInv, NEW rules \in Stores, PublishRules(rules)
    PROVE  IInv'
<1>1. ShapeInv'
  BY DEF IInv, ShapeInv, PublishRules, requestVars
<1>2. ASSUME NEW r \in Requests
      PROVE  Serving(r)'
  <2>1. UNCHANGED <<annotations, pc, request, rule, decision, annotationsSeen>>
    BY DEF PublishRules, requestVars
  <2>2. CASE pc[r] \in {"match", "resolve"}
    <3>1. storesSeen'[r] = storesSeen[r] \cup {rules} /\ store' = rules
      BY <2>2 DEF PublishRules, InFlight
    <3>2. QED
      BY <2>1, <2>2, <3>1 DEF IInv, Serving
  <2>3. CASE pc[r] \notin {"match", "resolve"}
    <3>1. storesSeen'[r] = storesSeen[r]
      BY <2>3 DEF PublishRules, InFlight
    <3>2. QED
      BY <2>1, <2>3, <3>1 DEF IInv, Serving, Explained
  <2>4. QED
    BY <2>2, <2>3
<1>3. QED
  BY <1>1, <1>2 DEF IInv

LEMMA AnnotateServing ==
    ASSUME IInv, NEW namespace, NEW annotation, AnnotateNamespace(namespace, annotation)
    PROVE  IInv'
<1>1. ShapeInv'
  BY DEF IInv, ShapeInv, AnnotateNamespace, requestVars
<1>2. ASSUME NEW r \in Requests
      PROVE  Serving(r)'
  <2>1. UNCHANGED <<store, pc, request, rule, decision, storesSeen>>
    BY DEF AnnotateNamespace, requestVars
  <2>2. CASE pc[r] \in {"match", "resolve"}
    <3>1. annotationsSeen'[r] = annotationsSeen[r] \cup {annotations'}
      BY <2>2 DEF AnnotateNamespace, InFlight
    <3>2. QED
      BY <2>1, <2>2, <3>1 DEF IInv, Serving
  <2>3. CASE pc[r] \notin {"match", "resolve"}
    <3>1. annotationsSeen'[r] = annotationsSeen[r]
      BY <2>3 DEF AnnotateNamespace, InFlight
    <3>2. QED
      BY <2>1, <2>3, <3>1 DEF IInv, Serving, Explained
  <2>4. QED
    BY <2>2, <2>3
<1>3. QED
  BY <1>1, <1>2 DEF IInv

LEMMA ReceiveServing ==
    ASSUME IInv, NEW r \in Requests, NEW input \in Inputs, Receive(r, input)
    PROVE  IInv'
<1>1. ShapeInv'
  BY DEF IInv, ShapeInv, Receive, sharedVars
<1>2. Serving(r)'
  BY DEF IInv, ShapeInv, Serving, Receive, sharedVars
<1>3. ASSUME NEW q \in Requests, q # r
      PROVE  Serving(q)'
  BY <1>3, OthersServing DEF IInv, ShapeInv, Receive, sharedVars
<1>4. QED
  BY <1>1, <1>2, <1>3 DEF IInv

\* An answer that Validate gives for the rule matched in one of the states seen
\* is explained by it.
LEMMA DecideExplains ==
    ASSUME IInv, NEW r \in Requests, pc[r] \in {"match", "resolve"},
           NEW rules \in storesSeen[r], NEW modes \in annotationsSeen[r], NEW answer,
           Decide(r, answer), answer = Validate(request[r], rules, modes),
           BeforeMatch(request[r]) = Undecided => rule'[r] = Match(rules, request[r]),
           UNCHANGED <<store, annotations, changes, request, storesSeen, annotationsSeen>>,
           DOMAIN rule' = Requests, \A q \in Requests : q # r => rule'[q] = rule[q]
    PROVE  IInv'
<1>1. ShapeInv'
  BY DEF IInv, ShapeInv, Decide
<1>2. pc'[r] = "record" /\ decision'[r] = answer
  BY DEF IInv, ShapeInv, Decide
<1>3. Explained(r)'
  BY <1>2 DEF Explained
<1>4. Serving(r)'
  BY <1>2, <1>3 DEF IInv, Serving
<1>5. ASSUME NEW q \in Requests, q # r
      PROVE  Serving(q)'
  BY <1>5, OthersServing DEF IInv, ShapeInv, Decide
<1>6. QED
  BY <1>1, <1>4, <1>5 DEF IInv

LEMMA DecideUnmatchedServing ==
    ASSUME IInv, NEW r \in Requests, DecideUnmatched(r)
    PROVE  IInv'
<1>1. store \in storesSeen[r] /\ annotations \in annotationsSeen[r]
  BY DEF IInv, Serving, DecideUnmatched
<1>2. BeforeMatch(request[r]) = Validate(request[r], store, annotations)
  BY DEF Validate, DecideUnmatched
<1>3. QED
  BY <1>1, <1>2, DecideExplains
     DEF DecideUnmatched, IInv, ShapeInv, sharedVars, historyVars

LEMMA MatchRuleServing ==
    ASSUME IInv, NEW r \in Requests, MatchRule(r)
    PROVE  IInv'
<1>1. /\ pc[r] = "match" /\ BeforeMatch(request[r]) = Undecided
      /\ rule'[r] = Match(store, request[r]) /\ DOMAIN rule' = Requests
      /\ \A q \in Requests : q # r => rule'[q] = rule[q]
      /\ UNCHANGED <<store, annotations, changes, request, storesSeen, annotationsSeen>>
  BY DEF MatchRule, IInv, ShapeInv, sharedVars, historyVars
<1>2. store \in storesSeen[r] /\ annotations \in annotationsSeen[r]
  BY <1>1 DEF IInv, Serving
<1>3. CASE /\ AfterMatch(request[r], rule'[r]) # Undecided
           /\ Decide(r, AfterMatch(request[r], rule'[r]))
  <2>1. AfterMatch(request[r], rule'[r]) = Validate(request[r], store, annotations)
    BY <1>1, <1>3 DEF Validate
  <2>2. QED
    BY <1>1, <1>2, <1>3, <2>1, DecideExplains
<1>4. CASE /\ AfterMatch(request[r], rule'[r]) = Undecided
           /\ pc' = [pc EXCEPT ![r] = "resolve"]
           /\ UNCHANGED decision
  <2>1. ShapeInv'
    BY <1>1, <1>4 DEF IInv, ShapeInv
  <2>2. Serving(r)'
    BY <1>1, <1>2, <1>4 DEF IInv, ShapeInv, Serving
  <2>3. ASSUME NEW q \in Requests, q # r
        PROVE  Serving(q)'
    BY <1>1, <1>4, <2>3, OthersServing DEF IInv, ShapeInv
  <2>4. QED
    BY <2>1, <2>2, <2>3 DEF IInv
<1>5. QED
  BY <1>3, <1>4 DEF MatchRule

LEMMA ResolveModeServing ==
    ASSUME IInv, NEW r \in Requests, ResolveMode(r)
    PROVE  IInv'
<1>1. /\ pc[r] = "resolve"
      /\ UNCHANGED <<store, annotations, changes, request, rule, storesSeen, annotationsSeen>>
      /\ Decide(r, AfterResolve(request[r], rule[r], AnnotationOf(request[r], annotations)))
  BY DEF ResolveMode, sharedVars, historyVars
<1>2. PICK rules \in storesSeen[r] : rule[r] = Match(rules, request[r])
  BY <1>1 DEF IInv, Serving
<1>3. /\ BeforeMatch(request[r]) = Undecided /\ AfterMatch(request[r], rule[r]) = Undecided
      /\ annotations \in annotationsSeen[r]
  BY <1>1 DEF IInv, Serving
<1>4. AfterResolve(request[r], rule[r], AnnotationOf(request[r], annotations)) =
          Validate(request[r], rules, annotations)
  BY <1>2, <1>3 DEF Validate
<1>5. QED
  BY <1>1, <1>2, <1>3, <1>4, DecideExplains DEF IInv, ShapeInv

\* The other steps of r lead where nothing is asked of it.
LEMMA LeavingServing ==
    ASSUME IInv, NEW r \in Requests,
           RefuseEmptyReview(r) \/ RecordAdmission(r) \/ RecordViolations(r) \/ Reply(r)
    PROVE  IInv'
<1>1. ShapeInv' /\ pc'[r] \in {"done", "reply", "violations"}
  BY DEF IInv, ShapeInv, RefuseEmptyReview, RecordAdmission, RecordViolations, Reply,
         sharedVars, historyVars
<1>2. Serving(r)'
  BY <1>1 DEF Serving
<1>3. ASSUME NEW q \in Requests, q # r
      PROVE  Serving(q)'
  BY <1>3, OthersServing
     DEF IInv, ShapeInv, RefuseEmptyReview, RecordAdmission, RecordViolations, Reply,
         sharedVars, historyVars
<1>4. QED
  BY <1>1, <1>2, <1>3 DEF IInv

\* The induction step.
LEMMA NextServing == IInv /\ [Next]_vars => IInv'
<1> SUFFICES ASSUME IInv, [Next]_vars
             PROVE  IInv'
  OBVIOUS
<1>1. ASSUME NEW rules \in Stores, PublishRules(rules)
      PROVE  IInv'
  BY <1>1, PublishServing
<1>2. ASSUME NEW namespace \in Namespaces, NEW annotation \in Annotations,
             AnnotateNamespace(namespace, annotation)
      PROVE  IInv'
  BY <1>2, AnnotateServing
<1>3. ASSUME NEW r \in Requests, NEW input \in Inputs, Receive(r, input)
      PROVE  IInv'
  BY <1>3, ReceiveServing
<1>4. ASSUME NEW r \in Requests, Serve(r)
      PROVE  IInv'
  BY <1>4, DecideUnmatchedServing, MatchRuleServing, ResolveModeServing, LeavingServing
     DEF Serve
<1>5. CASE UNCHANGED vars
  BY <1>5 DEF IInv, ShapeInv, Serving, Explained, vars, sharedVars, requestVars, historyVars
<1>6. QED
  BY <1>1, <1>2, <1>3, <1>4, <1>5 DEF Next

LEMMA AlwaysServing == Spec => []IInv
BY InitServing, NextServing, PTL DEF Spec

-----------------------------------------------------------------------------
(* Counting                                                                *)

CountedAs(result) == {r \in Requests : Counted(r) /\ Result(decision[r]) = result}

Counts ==
    /\ DOMAIN admissions = {"allowed", "denied"}
    /\ \A result \in {"allowed", "denied"} : admissions[result] = Cardinality(CountedAs(result))

\* Where a request is decided, and what its response says.
DecisionInv ==
    /\ DOMAIN pc = Requests /\ DOMAIN decision = Requests /\ DOMAIN response = Requests
    /\ \A r \in Requests :
          /\ pc[r] \in {"idle", "match", "resolve"} => decision[r] = Undecided
          /\ pc[r] = "record" => Decided(r)
          /\ pc[r] = "done" /\ Decided(r) => response[r].allowed = decision[r].allowed

\* A step that takes nobody out of "record" and changes no answer counted leaves
\* the counts right.
LEMMA CountsKept ==
    ASSUME Counts, UNCHANGED admissions,
           \A r \in Requests : Counted(r)' <=> Counted(r),
           \A r \in Requests : Counted(r) => decision'[r] = decision[r]
    PROVE  Counts'
<1>1. ASSUME NEW result
      PROVE  CountedAs(result)' = CountedAs(result)
  BY DEF CountedAs
<1>2. QED
  BY <1>1 DEF Counts

LEMMA DecideCounts ==
    ASSUME DecisionInv, Counts, NEW r \in Requests, pc[r] \in {"match", "resolve"},
           NEW answer, answer # Undecided, Decide(r, answer), UNCHANGED <<admissions, response>>
    PROVE  DecisionInv' /\ Counts'
<1>1. DecisionInv'
  BY DEF DecisionInv, Decide, Decided
<1>2. \A q \in Requests : Counted(q)' <=> Counted(q)
  BY DEF DecisionInv, Decide, Decided, Counted
<1>3. \A q \in Requests : Counted(q) => decision'[q] = decision[q]
  BY DEF DecisionInv, Decide, Decided, Counted
<1>4. QED
  BY <1>1, <1>2, <1>3, CountsKept

LEMMA RecordCounts ==
    ASSUME DecisionInv, Counts, NEW r \in Requests, RecordAdmission(r)
    PROVE  DecisionInv' /\ Counts'
<1>1. /\ pc[r] = "record" /\ Decided(r)
      /\ pc'[r] \in {"reply", "violations"}
      /\ \A q \in Requests : q # r => pc'[q] = pc[q]
      /\ UNCHANGED <<decision, response>>
      /\ DOMAIN pc' = Requests
  BY DEF DecisionInv, RecordAdmission
<1>2. DecisionInv'
  BY <1>1 DEF DecisionInv, Decided
<1>3. Result(decision[r]) \in {"allowed", "denied"}
  BY DEF Result
<1>4. CountedAs(Result(decision[r]))' = CountedAs(Result(decision[r])) \cup {r}
  BY <1>1 DEF CountedAs, Counted, Decided
<1>5. r \notin CountedAs(Result(decision[r]))
  BY <1>1 DEF CountedAs, Counted
<1>6. ASSUME NEW result, result # Result(decision[r])
      PROVE  CountedAs(result)' = CountedAs(result)
  BY <1>1, <1>6 DEF CountedAs, Counted, Decided
<1>7. \A result : IsFiniteSet(CountedAs(result))
  BY RequestsAreFinite, FS_Subset DEF CountedAs
<1>8. Cardinality(CountedAs(Result(decision[r]))') = Cardinality(CountedAs(Result(decision[r]))) + 1
  BY <1>4, <1>5, <1>7, FS_AddElement
<1>9. /\ admissions'[Result(decision[r])] = admissions[Result(decision[r])] + 1
      /\ \A result \in {"allowed", "denied"} :
             result # Result(decision[r]) => admissions'[result] = admissions[result]
      /\ DOMAIN admissions' = {"allowed", "denied"}
  BY <1>3 DEF Counts, RecordAdmission
<1>10. ASSUME NEW result \in {"allowed", "denied"}
       PROVE  admissions'[result] = Cardinality(CountedAs(result)')
  <2>1. CASE result = Result(decision[r])
    <3>1. CountedAs(Result(decision[r]))' = CountedAs(result)'
      BY <1>1, <2>1
    <3>2. QED
      BY <2>1, <3>1, <1>8, <1>9 DEF Counts
  <2>2. CASE result # Result(decision[r])
    BY <2>2, <1>6, <1>9 DEF Counts
  <2>3. QED
    BY <2>1, <2>2
<1>11. QED
  BY <1>2, <1>9, <1>10 DEF Counts

\* A step of r alone that neither decides it nor sends it to be counted.
LEMMA DecisionMoves ==
    ASSUME DecisionInv, NEW r \in Requests, UNCHANGED decision,
           DOMAIN pc' = Requests, DOMAIN response' = Requests,
           \A q \in Requests : q # r => pc'[q] = pc[q] /\ response'[q] = response[q],
           pc'[r] # "record",
           pc'[r] \in {"idle", "match", "resolve"} => decision[r] = Undecided,
           pc'[r] = "done" /\ Decided(r) => response'[r].allowed = decision[r].allowed
    PROVE  DecisionInv'
<1>1. ASSUME NEW q \in Requests
      PROVE  /\ pc'[q] \in {"idle", "match", "resolve"} => decision[q] = Undecided
             /\ pc'[q] = "record" => Decided(q)
             /\ pc'[q] = "done" /\ Decided(q) => response'[q].allowed = decision[q].allowed
  <2>1. CASE q = r
    BY <2>1
  <2>2. CASE q # r
    BY <2>2 DEF DecisionInv
  <2>3. QED
    BY <2>1, <2>2
<1>2. \A q \in Requests : Decided(q)' <=> Decided(q)
  BY DEF Decided
<1>3. QED
  BY <1>1, <1>2 DEF DecisionInv

\* The steps that move a request without deciding or counting it.
LEMMA MovingCounts ==
    ASSUME DecisionInv, Counts, NEW r \in Requests,
           \/ \E input \in Inputs : Receive(r, input)
           \/ RefuseEmptyReview(r) \/ RecordViolations(r) \/ Reply(r)
    PROVE  DecisionInv' /\ Counts'
<1>1. /\ UNCHANGED <<decision, admissions>>
      /\ pc[r] # "record" /\ pc'[r] # "record"
      /\ \A q \in Requests : q # r => pc'[q] = pc[q]
  BY DEF DecisionInv, Receive, RefuseEmptyReview, RecordViolations, Reply, metricVars
<1>2. \A q \in Requests : Counted(q)' <=> Counted(q)
  BY <1>1 DEF Counted, Decided
<1>3. Counts'
  BY <1>1, <1>2, CountsKept
<1>4. ASSUME NEW input \in Inputs, Receive(r, input)
      PROVE  DecisionInv'
  <2>1. /\ pc'[r] = "match" /\ decision[r] = Undecided
        /\ DOMAIN pc' = Requests /\ UNCHANGED response
    BY <1>4 DEF DecisionInv, Receive
  <2>2. QED
    BY <1>1, <2>1, DecisionMoves DEF DecisionInv
<1>5. CASE RefuseEmptyReview(r)
  <2>1. /\ pc'[r] = "done" /\ decision[r] = Undecided
        /\ DOMAIN pc' = Requests /\ DOMAIN response' = Requests
        /\ \A q \in Requests : q # r => response'[q] = response[q]
    BY <1>5 DEF DecisionInv, RefuseEmptyReview
  <2>2. QED
    BY <1>1, <1>3, <2>1, DecisionMoves DEF Decided
<1>6. CASE RecordViolations(r)
  <2>1. pc'[r] = "reply" /\ DOMAIN pc' = Requests /\ UNCHANGED response
    BY <1>6 DEF DecisionInv, RecordViolations
  <2>2. QED
    BY <1>1, <1>3, <2>1, DecisionMoves DEF DecisionInv
<1>7. CASE Reply(r)
  <2>1. /\ pc'[r] = "done" /\ DOMAIN pc' = Requests /\ DOMAIN response' = Requests
        /\ \A q \in Requests : q # r => response'[q] = response[q]
        /\ response'[r].allowed = decision[r].allowed
    BY <1>7 DEF DecisionInv, Reply, NewResponse
  <2>2. QED
    BY <1>1, <1>3, <2>1, DecisionMoves
<1>8. QED
  BY <1>3, <1>4, <1>5, <1>6, <1>7

LEMMA InitCounts == Init => DecisionInv /\ Counts
<1> SUFFICES ASSUME Init
             PROVE  DecisionInv /\ Counts
  OBVIOUS
<1>1. \A result : CountedAs(result) = {}
  BY DEF Init, CountedAs, Counted, Decided
<1>2. Counts
  BY <1>1, FS_EmptySet DEF Init, Counts
<1>3. DecisionInv
  BY DEF Init, DecisionInv, Decided
<1>4. QED
  BY <1>2, <1>3

LEMMA NextCounts == DecisionInv /\ Counts /\ [Next]_vars => DecisionInv' /\ Counts'
<1> SUFFICES ASSUME DecisionInv, Counts, [Next]_vars
             PROVE  DecisionInv' /\ Counts'
  OBVIOUS
<1>1. ASSUME UNCHANGED <<pc, decision, response, admissions>>
      PROVE  DecisionInv' /\ Counts'
  <2>1. \A r \in Requests : Counted(r)' <=> Counted(r)
    BY <1>1 DEF Counted, Decided
  <2>2. DecisionInv'
    BY <1>1 DEF DecisionInv, Decided
  <2>3. QED
    BY <1>1, <2>1, <2>2, CountsKept
<1>2. ASSUME NEW rules \in Stores, PublishRules(rules)
      PROVE  DecisionInv' /\ Counts'
  BY <1>1, <1>2 DEF PublishRules, requestVars, metricVars
<1>3. ASSUME NEW namespace \in Namespaces, NEW annotation \in Annotations,
             AnnotateNamespace(namespace, annotation)
      PROVE  DecisionInv' /\ Counts'
  BY <1>1, <1>3 DEF AnnotateNamespace, requestVars, metricVars
<1>4. ASSUME NEW r \in Requests, (\E input \in Inputs : Receive(r, input)) \/ Serve(r)
      PROVE  DecisionInv' /\ Counts'
  <2>1. CASE DecideUnmatched(r)
    BY <2>1, DecideCounts DEF DecideUnmatched, metricVars
  <2>2. CASE MatchRule(r)
    <3>1. CASE /\ AfterMatch(request[r], rule'[r]) # Undecided
               /\ Decide(r, AfterMatch(request[r], rule'[r]))
      <4>1. UNCHANGED <<response, admissions>> /\ pc[r] = "match"
        BY <2>2 DEF MatchRule, metricVars
      <4>2. QED
        BY <3>1, <4>1, DecideCounts
    <3>2. CASE pc' = [pc EXCEPT ![r] = "resolve"] /\ UNCHANGED decision
      <4>1. UNCHANGED <<response, admissions>> /\ pc[r] = "match"
        BY <2>2 DEF MatchRule, metricVars
      <4>2. \A q \in Requests : Counted(q)' <=> Counted(q)
        BY <3>2, <4>1 DEF DecisionInv, Counted, Decided
      <4>3. DecisionInv'
        BY <3>2, <4>1 DEF DecisionInv, Decided
      <4>4. QED
        BY <3>2, <4>1, <4>2, <4>3, CountsKept
    <3>3. QED
      BY <2>2, <3>1, <3>2 DEF MatchRule
  <2>3. CASE ResolveMode(r)
    <3>1. AfterResolve(request[r], rule[r], AnnotationOf(request[r], annotations)) # Undecided
      BY ReasonsTell
    <3>2. QED
      BY <2>3, <3>1, DecideCounts DEF ResolveMode, metricVars
  <2>4. CASE RecordAdmission(r)
    BY <2>4, RecordCounts
  <2>5. QED
    BY <1>4, <2>1, <2>2, <2>3, <2>4, MovingCounts DEF Serve
<1>5. CASE UNCHANGED vars
  BY <1>1, <1>5 DEF vars, requestVars, metricVars
<1>6. QED
  BY <1>2, <1>3, <1>4, <1>5 DEF Next

-----------------------------------------------------------------------------
(* The theorems                                                            *)

\* Every verdict is Validate's for one rule set that was in the store and one
\* namespace state that was in the cache while the request was served
\* (VerdictExplained), for any number of requests, rebuilds and annotations.
THEOREM VerdictsExplained == Spec => []VerdictExplained
<1>1. IInv => VerdictExplained
  BY DEF IInv, Serving, Explained, VerdictExplained, Explains, JustDecided
<1>2. QED
  BY <1>1, AlwaysServing, PTL

\* A verdict on what changed was given by AfterResolve, on decoded objects.
LEMMA ChangeVerdicts ==
    ASSUME IInv, NEW r \in Requests, JustDecided(r), decision[r].reason \in ReasonsOfChange
    PROVE  /\ IsObject(request[r].oldObject) /\ IsObject(request[r].object)
           /\ \E annotation : decision[r] = AfterResolve(request[r], rule[r], annotation)
<1>1. PICK rules \in storesSeen[r], modes \in annotationsSeen[r] :
          /\ BeforeMatch(request[r]) = Undecided => rule[r] = Match(rules, request[r])
          /\ decision[r] = Validate(request[r], rules, modes)
  BY DEF IInv, Serving, Explained, JustDecided
<1>2. BeforeMatch(request[r]) = Undecided
  BY <1>1, EarlyReasons DEF Validate
<1>3. decision[r] = AfterResolve(request[r], rule[r], AnnotationOf(request[r], modes))
  BY <1>1, <1>2, EarlyReasons DEF Validate
<1>4. request[r] \in Inputs
  BY DEF IInv, Serving, JustDecided
<1>5. request[r].oldObject # Undecodable /\ request[r].object # Undecodable
  BY <1>2 DEF BeforeMatch, Allow, errorDecision, Decision, Undecided
<1>6. QED
  BY <1>3, <1>4, <1>5, InputsAreDecoded

\* What enforce lets through differs, in the rule's scope, at or below mutable
\* paths only (EnforceLetsThroughOnlyMutable), whatever the objects, the rule's
\* patterns and the requests served beside it, except below a path whose text
\* reads as another, mutable one.
THEOREM EnforceIsTight == Spec => []EnforceLetsThroughOnlyMutable
<1>1. ASSUME IInv, NEW r \in Requests, JustDecided(r),
             decision[r].reason \in {"no changes detected", "only mutable fields changed"},
             NEW p \in LeafDifferences(request[r]), InScope(p, rule[r])
      PROVE  Covered(p, rule[r].mutable) \/ ReadAsMutable(p, rule[r])
  <2>1. decision[r].reason \in ReasonsOfChange
    BY <1>1 DEF ReasonsOfChange
  <2>2. QED
    BY <1>1, <2>1, ChangeVerdicts, OnlyMutableLetThrough
<1>2. IInv => EnforceLetsThroughOnlyMutable
  BY <1>1 DEF EnforceLetsThroughOnlyMutable
<1>3. QED
  BY <1>2, AlwaysServing, PTL

\* The removal of the bypass annotation that is let through carries no other
\* change in the rule's scope (BypassRemovalCarriesNothing), whatever the objects.
THEOREM BypassRemovalIsAlone == Spec => []BypassRemovalCarriesNothing
<1>1. ASSUME IInv, NEW r \in Requests, JustDecided(r),
             decision[r].reason = "bypass marker removed",
             NEW p \in LeafDifferences(request[r]), InScope(p, rule[r])
      PROVE  IsPrefixOf(AnnotationPath(rule[r].bypass), p)
  <2>1. decision[r].reason \in ReasonsOfChange
    BY <1>1 DEF ReasonsOfChange
  <2>2. QED
    BY <1>1, <2>1, ChangeVerdicts, RemovalCarriesNothing
<1>2. IInv => BypassRemovalCarriesNothing
  BY <1>1 DEF BypassRemovalCarriesNothing
<1>3. QED
  BY <1>2, AlwaysServing, PTL

\* What replaces the objects of an input leaves the rest of it alone.
LEMMA ReplacedObjects ==
    ASSUME NEW input \in Inputs, NEW old, NEW new
    PROVE  LET replaced == WithObjects(input, old, new)
           IN  /\ replaced.oldObject = old /\ replaced.object = new
               /\ replaced.operation = input.operation /\ replaced.namespace = input.namespace
               /\ replaced.group = input.group /\ replaced.kind = input.kind
               /\ replaced.user = input.user
BY InputsAreDecoded DEF WithObjects

\* Inputs that differ in their objects only, which every rule selects alike.
SameButObjects(input, other, rules) ==
    /\ other.operation = input.operation /\ other.namespace = input.namespace
    /\ other.group = input.group /\ other.kind = input.kind /\ other.user = input.user
    /\ \A theRule \in rules :
          matchesLabels(theRule.labels, other.object) <=> matchesLabels(theRule.labels, input.object)

LEMMA SelectedAlike ==
    ASSUME NEW input, NEW other, NEW rules, SameButObjects(input, other, rules)
    PROVE  Match(rules, other) = Match(rules, input)
<1> DEFINE First(matching) ==
               IF matching = {} THEN NoRule
               ELSE CHOOSE theRule \in matching :
                        \A another \in matching \ {theRule} : Precedes(theRule, another)
           selected == {theRule \in rules : Matches(theRule, input)}
           others == {theRule \in rules : Matches(theRule, other)}
<1>1. \A theRule \in rules : Matches(theRule, other) <=> Matches(theRule, input)
  BY DEF SameButObjects, Matches
<1>2. others = selected
  BY <1>1
<1>3. Match(rules, input) = First(selected) /\ Match(rules, other) = First(others)
  BY DEF Match
<1> HIDE DEF First, selected, others
<1>4. QED
  BY <1>2, <1>3

\* Two such inputs are judged alike when the objects make no difference to what
\* Validate does once it has a rule.
LEMMA ValidatedAlike ==
    ASSUME NEW input, NEW other, NEW rules, NEW modes,
           SameButObjects(input, other, rules), Decoded(input), Decoded(other),
           Match(rules, input) # NoRule =>
               /\ hasTrueAnnotation(other.object, Match(rules, input).bypass) <=>
                      hasTrueAnnotation(input.object, Match(rules, input).bypass)
               /\ ~hasTrueAnnotation(input.object, Match(rules, input).bypass) =>
                      \A annotation : AfterResolve(other, Match(rules, input), annotation) =
                                         AfterResolve(input, Match(rules, input), annotation)
    PROVE  Validate(other, rules, modes) = Validate(input, rules, modes)
<1> DEFINE theRule == Match(rules, input)
<1>1. Match(rules, other) = theRule
  BY SelectedAlike
<1>2. BeforeMatch(other) = BeforeMatch(input)
  BY DEF SameButObjects, Decoded, BeforeMatch
<1>3. AnnotationOf(other, modes) = AnnotationOf(input, modes)
  BY DEF SameButObjects, AnnotationOf
<1>4. other.user = input.user
  BY DEF SameButObjects
<1> HIDE DEF theRule
<1>5. CASE theRule = NoRule
  <2>1. AfterMatch(other, theRule) = Allow("no matching rule", NoRule, "off", {})
    BY <1>5 DEF AfterMatch
  <2>2. AfterMatch(input, theRule) = Allow("no matching rule", NoRule, "off", {})
    BY <1>5 DEF AfterMatch
  <2>3. Allow("no matching rule", NoRule, "off", {}) # Undecided
    <3>1. Allow("no matching rule", NoRule, "off", {}).reason = "no matching rule"
      BY DEF Allow, Decision
    <3>2. Undecided.reason = "undecided"
      BY DEF Undecided
    <3>3. QED
      BY <3>1, <3>2
  <2>4. QED
    BY <1>1, <1>2, <2>1, <2>2, <2>3 DEF Validate, theRule
<1>6. CASE theRule # NoRule
  <2>1. hasTrueAnnotation(other.object, theRule.bypass) <=> hasTrueAnnotation(input.object, theRule.bypass)
    BY <1>6 DEF theRule
  <2>2. AfterMatch(other, theRule) = AfterMatch(input, theRule)
    BY <1>4, <2>1 DEF AfterMatch
  <2>3. AfterMatch(input, theRule) = Undecided => ~hasTrueAnnotation(input.object, theRule.bypass)
    BY <1>6 DEF AfterMatch, Allow, Decision, Undecided
  <2>4. AfterMatch(input, theRule) = Undecided =>
            \A annotation : AfterResolve(other, theRule, annotation) = AfterResolve(input, theRule, annotation)
    BY <1>6, <2>3 DEF theRule
  <2>5. QED
    BY <1>1, <1>2, <1>3, <2>2, <2>4 DEF Validate, theRule
<1>7. QED
  BY <1>5, <1>6

\* The verdict of RollbackJudgedAlike, for any rules and namespaces.
LEMMA UndoneIsAlike ==
    ASSUME NEW input \in Inputs, NEW rules, NEW modes, Decoded(input), IsReversible(input, rules)
    PROVE  Validate(Undone(input), rules, modes) = Validate(input, rules, modes)
<1> DEFINE undone == Undone(input)
           theRule == Match(rules, input)
<1>1. /\ undone.oldObject = input.object /\ undone.object = input.oldObject
      /\ undone.operation = input.operation /\ undone.namespace = input.namespace
      /\ undone.group = input.group /\ undone.kind = input.kind /\ undone.user = input.user
  BY ReplacedObjects DEF Undone
<1> HIDE DEF undone, theRule
<1>2. SameButObjects(input, undone, rules)
  BY <1>1 DEF SameButObjects, IsReversible
<1>3. Decoded(undone)
  BY <1>1 DEF Decoded
<1>4. ASSUME theRule # NoRule
      PROVE  /\ ~hasTrueAnnotation(undone.object, theRule.bypass)
             /\ ~hasTrueAnnotation(input.object, theRule.bypass)
             /\ \A annotation : AfterResolve(undone, theRule, annotation) =
                                    AfterResolve(input, theRule, annotation)
  <2>1. /\ ~hasTrueAnnotation(input.oldObject, theRule.bypass)
        /\ ~hasTrueAnnotation(input.object, theRule.bypass)
    BY <1>4 DEF IsReversible, theRule
  <2>2. QED
    BY <1>1, <2>1, VerdictsAreSymmetric
<1>5. Validate(undone, rules, modes) = Validate(input, rules, modes)
  BY <1>2, <1>3, <1>4, ValidatedAlike DEF theRule
<1>6. QED
  BY <1>5 DEF undone

\* An update and its undoing are judged alike (RollbackJudgedAlike) when no bypass
\* marker is involved and every rule selects both objects by their labels or none,
\* whatever is published and annotated meanwhile.
THEOREM RollbacksAreAlike == Spec => []RollbackJudgedAlike
<1>1. ASSUME IInv, NEW r \in Requests, JustDecided(r), Decoded(request[r]),
             NEW rules \in storesSeen[r], NEW modes \in annotationsSeen[r],
             Explains(r, rules, modes), IsReversible(request[r], rules)
      PROVE  decision[r] = Validate(Undone(request[r]), rules, modes)
  <2>1. request[r] \in Inputs
    BY <1>1 DEF IInv, Serving, JustDecided
  <2>2. QED
    BY <1>1, <2>1, UndoneIsAlike DEF Explains
<1>2. IInv => RollbackJudgedAlike
  BY <1>1 DEF RollbackJudgedAlike
<1>3. QED
  BY <1>2, AlwaysServing, PTL

\* The counter of admission requests counts every validated request once, under
\* the result it is answered with (AnswersCountedOnce), for any number of requests.
THEOREM CountedOnce == Spec => []AnswersCountedOnce
<1>1. DecisionInv /\ Counts => AnswersCountedOnce
  BY DEF DecisionInv, Counts, CountedAs, AnswersCountedOnce, Decided, Result
<1>2. QED
  BY <1>1, InitCounts, NextCounts, PTL DEF Spec

-----------------------------------------------------------------------------
(* Types                                                                   *)

\* What is known of one request wherever it is.
Typed(r) ==
    /\ pc[r] \in States
    /\ request[r] \in Inputs \cup {Nothing}
    /\ pc[r] \in {"match", "resolve", "record", "violations", "reply"} => request[r] \in Inputs
    /\ pc[r] \in {"record", "violations", "reply"} => Decided(r)
    /\ pc[r] = "violations" => ~decision[r].allowed
    /\ rule[r] \in (UNION Stores) \cup {NoRule}
    /\ Decided(r) => IsFiniteSet(decision[r].denied) /\ IsVerdict(decision[r], decision[r].denied)
    /\ Decided(r) /\ request[r] # Nothing =>
          decision[r].denied \subseteq DOMAIN request[r].oldObject \cup DOMAIN request[r].object

SharedTyped ==
    /\ store \in Stores
    /\ annotations \in [Namespaces -> Annotations]
    /\ changes \in 0 .. MaxChanges
    /\ admissions \in [{"allowed", "denied"} -> Nat]
    /\ violations \in [Modes -> Nat]

TypeInv == SharedTyped /\ \A r \in Requests : Typed(r)

LEMMA InitTyped == Init => TypeInv
BY BoundIsNatural DEF Init, TypeInv, SharedTyped, Typed, Decided, States

\* A step of one request leaves the others typed.
LEMMA OthersTyped ==
    ASSUME TypeInv, NEW r \in Requests, NEW q \in Requests, q # r,
           pc'[q] = pc[q], request'[q] = request[q], rule'[q] = rule[q],
           decision'[q] = decision[q]
    PROVE  Typed(q)'
BY DEF TypeInv, Typed, Decided

LEMMA InputsAreFinite ==
    ASSUME NEW input \in Inputs
    PROVE  IsFiniteSet(DOMAIN input.oldObject) /\ IsFiniteSet(DOMAIN input.object)
<1>1. IsFiniteSet(DOMAIN Undecodable)
  BY FS_EmptySet DEF Undecodable
<1>2. QED
  BY <1>1, InputsAreDecoded

\* The objects of an input that BeforeMatch lets pass.
LEMMA DecodedInput ==
    ASSUME NEW input \in Inputs, BeforeMatch(input) = Undecided
    PROVE  IsObject(input.oldObject) /\ IsObject(input.object)
<1>1. input.oldObject # Undecodable /\ input.object # Undecodable
  BY DEF BeforeMatch, Allow, errorDecision, Decision, Undecided
<1>2. QED
  BY <1>1, InputsAreDecoded

\* The step that decides r leaves it typed when what it decides is a verdict.
LEMMA DecideTyped ==
    ASSUME IInv, TypeInv, NEW r \in Requests, pc[r] \in {"match", "resolve"}, NEW answer,
           Decide(r, answer),
           IsVerdict(answer, DOMAIN request[r].oldObject \cup DOMAIN request[r].object),
           rule'[r] \in (UNION Stores) \cup {NoRule}, answer # Undecided,
           UNCHANGED <<store, annotations, changes, request, admissions, violations>>,
           \A q \in Requests : q # r => rule'[q] = rule[q]
    PROVE  TypeInv'
<1>1. /\ pc'[r] = "record" /\ decision'[r] = answer /\ request[r] \in Inputs
      /\ \A q \in Requests : q # r => pc'[q] = pc[q] /\ decision'[q] = decision[q]
  BY DEF IInv, ShapeInv, Decide, TypeInv, Typed
<1>2. IsFiniteSet(answer.denied)
  <2>1. IsFiniteSet(DOMAIN request[r].oldObject \cup DOMAIN request[r].object)
    BY <1>1, InputsAreFinite, FS_Union
  <2>2. QED
    BY <2>1, FS_Subset DEF IsVerdict
<1>3. Typed(r)'
  BY <1>1, <1>2 DEF TypeInv, Typed, Decided, States, IsVerdict
<1>4. ASSUME NEW q \in Requests, q # r
      PROVE  Typed(q)'
  BY <1>1, <1>4, OthersTyped
<1>5. QED
  BY <1>3, <1>4 DEF TypeInv, SharedTyped

LEMMA DecideUnmatchedTyped ==
    ASSUME IInv, TypeInv, NEW r \in Requests, DecideUnmatched(r)
    PROVE  TypeInv'
<1>1. IsVerdict(BeforeMatch(request[r]), DOMAIN request[r].oldObject \cup DOMAIN request[r].object)
  BY EarlyVerdicts DEF DecideUnmatched, IsVerdict
<1>2. QED
  BY <1>1, DecideTyped DEF DecideUnmatched, sharedVars, metricVars, historyVars, TypeInv, Typed

LEMMA MatchRuleTyped ==
    ASSUME IInv, TypeInv, NEW r \in Requests, MatchRule(r)
    PROVE  TypeInv'
<1>1. rule'[r] = Match(store, request[r])
  BY DEF MatchRule, IInv, ShapeInv
<1>2. /\ pc[r] = "match"
      /\ \A q \in Requests : q # r => rule'[q] = rule[q]
      /\ UNCHANGED <<store, annotations, changes, request, admissions, violations>>
  BY DEF MatchRule, IInv, ShapeInv, sharedVars, metricVars, historyVars
<1>3. rule'[r] \in (UNION Stores) \cup {NoRule}
  <2>1. IsRuleSet(store) /\ store \in Stores
    BY StoresAreBuilt DEF TypeInv, SharedTyped
  <2>2. QED
    BY <1>1, <2>1, MatchIsFirst
<1>4. CASE /\ AfterMatch(request[r], rule'[r]) # Undecided
           /\ Decide(r, AfterMatch(request[r], rule'[r]))
  <2>1. IsVerdict(AfterMatch(request[r], rule'[r]),
                  DOMAIN request[r].oldObject \cup DOMAIN request[r].object)
    BY <1>4, EarlyVerdicts DEF IsVerdict
  <2>2. QED
    BY <1>2, <1>3, <1>4, <2>1, DecideTyped
<1>5. CASE pc' = [pc EXCEPT ![r] = "resolve"] /\ UNCHANGED decision
  <2>1. Typed(r)'
    BY <1>2, <1>3, <1>5 DEF TypeInv, Typed, Decided, States, IInv, ShapeInv
  <2>2. ASSUME NEW q \in Requests, q # r
        PROVE  Typed(q)'
    BY <1>2, <1>5, <2>2, OthersTyped DEF IInv, ShapeInv
  <2>3. QED
    BY <1>2, <2>1, <2>2 DEF TypeInv, SharedTyped
<1>6. QED
  BY <1>4, <1>5 DEF MatchRule

LEMMA ResolveModeTyped ==
    ASSUME IInv, TypeInv, NEW r \in Requests, ResolveMode(r)
    PROVE  TypeInv'
<1> DEFINE answer == AfterResolve(request[r], rule[r], AnnotationOf(request[r], annotations))
<1>1. /\ pc[r] = "resolve" /\ Decide(r, answer)
      /\ UNCHANGED <<store, annotations, changes, request, rule, admissions, violations>>
  BY DEF ResolveMode, sharedVars, metricVars, historyVars
<1>2. request[r] \in Inputs /\ BeforeMatch(request[r]) = Undecided
  BY <1>1 DEF TypeInv, Typed, IInv, Serving
<1>3. IsVerdict(answer, DOMAIN request[r].oldObject \cup DOMAIN request[r].object)
  BY <1>2, DecodedInput, LateVerdicts, ReportedPaths DEF IsVerdict
<1>4. answer # Undecided
  BY ReasonsTell
<1> HIDE DEF answer
<1>5. QED
  BY <1>1, <1>3, <1>4, DecideTyped DEF TypeInv, Typed

LEMMA RecordAdmissionTyped ==
    ASSUME IInv, TypeInv, NEW r \in Requests, RecordAdmission(r)
    PROVE  TypeInv'
<1>1. /\ pc[r] = "record" /\ UNCHANGED <<store, annotations, changes, request, rule, decision, violations>>
      /\ pc'[r] = (IF decision[r].allowed THEN "reply" ELSE "violations")
      /\ \A q \in Requests : q # r => pc'[q] = pc[q]
  BY DEF RecordAdmission, IInv, ShapeInv, sharedVars
<1>2. admissions' \in [{"allowed", "denied"} -> Nat]
  <2>1. admissions' = [admissions EXCEPT ![Result(decision[r])] = @ + 1]
    BY DEF RecordAdmission
  <2>2. Result(decision[r]) \in {"allowed", "denied"}
    BY DEF Result
  <2>3. QED
    BY <2>1, <2>2 DEF TypeInv, SharedTyped
<1>3. Typed(r)'
  <2>1. pc'[r] \in {"reply", "violations"} /\ (pc'[r] = "violations" => ~decision[r].allowed)
    BY <1>1
  <2>2. QED
    BY <1>1, <2>1 DEF TypeInv, Typed, Decided, States
<1>4. ASSUME NEW q \in Requests, q # r
      PROVE  Typed(q)'
  BY <1>1, <1>4, OthersTyped
<1>5. QED
  BY <1>1, <1>2, <1>3, <1>4 DEF TypeInv, SharedTyped

LEMMA RecordViolationsTyped ==
    ASSUME IInv, TypeInv, NEW r \in Requests, RecordViolations(r)
    PROVE  TypeInv'
<1>1. /\ pc[r] = "violations" /\ pc'[r] = "reply"
      /\ UNCHANGED <<store, annotations, changes, request, rule, decision, admissions>>
      /\ \A q \in Requests : q # r => pc'[q] = pc[q]
  BY DEF RecordViolations, IInv, ShapeInv, sharedVars, historyVars
<1>2. violations' \in [Modes -> Nat]
  <2>1. Cardinality(decision[r].denied) \in Nat
    BY <1>1, FS_CardinalityType DEF TypeInv, Typed
  <2>2. violations' = [violations EXCEPT ![decision[r].mode] = @ + Cardinality(decision[r].denied)]
    BY DEF RecordViolations
  <2>3. violations \in [Modes -> Nat]
    BY DEF TypeInv, SharedTyped
  <2>4. CASE decision[r].mode \in Modes
    BY <2>1, <2>2, <2>3, <2>4
  <2>5. CASE decision[r].mode \notin Modes
    <3>1. violations' = violations
      BY <2>2, <2>3, <2>5
    <3>2. QED
      BY <2>3, <3>1
  <2>6. QED
    BY <2>4, <2>5
<1>3. Typed(r)'
  BY <1>1 DEF TypeInv, Typed, Decided, States
<1>4. ASSUME NEW q \in Requests, q # r
      PROVE  Typed(q)'
  BY <1>1, <1>4, OthersTyped
<1>5. QED
  BY <1>1, <1>2, <1>3, <1>4 DEF TypeInv, SharedTyped

\* The steps that decide and count nothing.
LEMMA MovingTyped ==
    ASSUME IInv, DecisionInv, TypeInv, NEW r \in Requests,
           \/ \E input \in Inputs : Receive(r, input)
           \/ RefuseEmptyReview(r) \/ Reply(r)
    PROVE  TypeInv'
<1>1. /\ UNCHANGED <<store, annotations, changes, decision, admissions, violations>>
      /\ \A q \in Requests : q # r =>
            pc'[q] = pc[q] /\ request'[q] = request[q] /\ rule'[q] = rule[q]
  BY DEF Receive, RefuseEmptyReview, Reply, sharedVars, metricVars, historyVars, IInv, ShapeInv
<1>2. ASSUME NEW input \in Inputs, Receive(r, input)
      PROVE  Typed(r)'
  <2>1. /\ pc'[r] = "match" /\ request'[r] = input /\ UNCHANGED rule
        /\ decision[r] = Undecided
    BY <1>2 DEF Receive, IInv, ShapeInv, DecisionInv
  <2>2. QED
    BY <1>1, <2>1 DEF TypeInv, SharedTyped, Typed, Decided, States
<1>3. ASSUME RefuseEmptyReview(r)
      PROVE  Typed(r)'
  <2>1. pc'[r] = "done" /\ UNCHANGED <<request, rule>>
    BY <1>3 DEF RefuseEmptyReview, IInv, ShapeInv, historyVars
  <2>2. QED
    BY <1>1, <2>1 DEF TypeInv, Typed, Decided, States
<1>4. ASSUME Reply(r)
      PROVE  Typed(r)'
  <2>1. /\ pc'[r] = "done" /\ request'[r] = Nothing /\ rule'[r] = NoRule
    BY <1>4 DEF Reply, IInv, ShapeInv, historyVars
  <2>2. QED
    BY <1>1, <2>1 DEF TypeInv, Typed, Decided, States
<1>5. Typed(r)'
  BY <1>2, <1>3, <1>4
<1>6. ASSUME NEW q \in Requests, q # r
      PROVE  Typed(q)'
  BY <1>1, <1>6, OthersTyped
<1>7. QED
  BY <1>1, <1>5, <1>6 DEF TypeInv, SharedTyped

LEMMA NextTyped == IInv /\ DecisionInv /\ TypeInv /\ [Next]_vars => TypeInv'
<1> SUFFICES ASSUME IInv, DecisionInv, TypeInv, [Next]_vars
             PROVE  TypeInv'
  OBVIOUS
<1>1. ASSUME NEW rules \in Stores, PublishRules(rules)
      PROVE  TypeInv'
  <2>1. /\ store' \in Stores /\ changes' \in 0 .. MaxChanges
        /\ UNCHANGED <<annotations, pc, request, rule, decision, admissions, violations>>
    BY <1>1, BoundIsNatural DEF PublishRules, requestVars, metricVars, TypeInv, SharedTyped
  <2>2. QED
    BY <2>1 DEF TypeInv, SharedTyped, Typed, Decided
<1>2. ASSUME NEW namespace \in Namespaces, NEW annotation \in Annotations,
             AnnotateNamespace(namespace, annotation)
      PROVE  TypeInv'
  <2>1. /\ annotations' \in [Namespaces -> Annotations] /\ changes' \in 0 .. MaxChanges
        /\ UNCHANGED <<store, pc, request, rule, decision, admissions, violations>>
    BY <1>2, BoundIsNatural DEF AnnotateNamespace, requestVars, metricVars, TypeInv, SharedTyped
  <2>2. QED
    BY <2>1 DEF TypeInv, SharedTyped, Typed, Decided
<1>3. ASSUME NEW r \in Requests, (\E input \in Inputs : Receive(r, input)) \/ Serve(r)
      PROVE  TypeInv'
  BY <1>3, DecideUnmatchedTyped, MatchRuleTyped, ResolveModeTyped, RecordAdmissionTyped,
     RecordViolationsTyped, MovingTyped DEF Serve
<1>4. CASE UNCHANGED vars
  BY <1>4 DEF TypeInv, SharedTyped, Typed, Decided, vars, sharedVars, requestVars, metricVars, historyVars
<1>5. QED
  BY <1>1, <1>2, <1>3, <1>4 DEF Next

\* The answers written, and the history.
OutputsTyped ==
    /\ \A r \in Requests :
          response[r] \in {Nothing} \cup [allowed : BOOLEAN, code : {0, 400, 403, 500}]
    /\ storesSeen \in [Requests -> SUBSET Stores]
    /\ annotationsSeen \in [Requests -> SUBSET [Namespaces -> Annotations]]

LEMMA InitOutputs == Init => OutputsTyped
BY DEF Init, OutputsTyped

LEMMA NextOutputs ==
    DecisionInv /\ TypeInv /\ OutputsTyped /\ [Next]_vars => OutputsTyped'
<1> SUFFICES ASSUME DecisionInv, TypeInv, OutputsTyped, [Next]_vars
             PROVE  OutputsTyped'
  OBVIOUS
<1>1. ASSUME NEW rules \in Stores, PublishRules(rules)
      PROVE  OutputsTyped'
  BY <1>1 DEF PublishRules, requestVars, OutputsTyped
<1>2. ASSUME NEW namespace \in Namespaces, NEW annotation \in Annotations,
             AnnotateNamespace(namespace, annotation)
      PROVE  OutputsTyped'
  <2>1. annotations' \in [Namespaces -> Annotations]
    BY <1>2 DEF AnnotateNamespace, TypeInv, SharedTyped
  <2>2. QED
    BY <1>2, <2>1 DEF AnnotateNamespace, requestVars, OutputsTyped
<1>3. ASSUME NEW r \in Requests, NEW input \in Inputs, Receive(r, input)
      PROVE  OutputsTyped'
  BY <1>3 DEF Receive, TypeInv, SharedTyped, OutputsTyped
<1>4. ASSUME NEW r \in Requests, RefuseEmptyReview(r)
      PROVE  OutputsTyped'
  BY <1>4 DEF RefuseEmptyReview, NewResponse, historyVars, DecisionInv, OutputsTyped
<1>5. ASSUME NEW r \in Requests, DecideUnmatched(r) \/ MatchRule(r) \/ ResolveMode(r) \/ RecordViolations(r)
      PROVE  OutputsTyped'
  <2>1. UNCHANGED <<response, storesSeen, annotationsSeen>>
    BY <1>5 DEF DecideUnmatched, MatchRule, ResolveMode, RecordViolations, historyVars
  <2>2. QED
    BY <2>1 DEF OutputsTyped
<1>6. ASSUME NEW r \in Requests, RecordAdmission(r)
      PROVE  OutputsTyped'
  BY <1>6 DEF RecordAdmission, OutputsTyped
<1>7. ASSUME NEW r \in Requests, Reply(r)
      PROVE  OutputsTyped'
  <2>1. IsVerdict(decision[r], decision[r].denied)
    BY <1>7 DEF Reply, TypeInv, Typed
  <2> DEFINE code == IF decision[r].allowed THEN 0
                     ELSE IF decision[r].code = 0 THEN 403 ELSE decision[r].code
  <2>2. decision[r].allowed \in BOOLEAN /\ code \in {0, 400, 403, 500}
    BY <2>1 DEF IsVerdict
  <2>3. /\ response' = [response EXCEPT ![r] = NewResponse(decision[r].allowed, code)]
        /\ UNCHANGED <<storesSeen, annotationsSeen>>
    BY <1>7 DEF Reply, historyVars
  <2> HIDE DEF code
  <2>4. NewResponse(decision[r].allowed, code) \in [allowed : BOOLEAN, code : {0, 400, 403, 500}]
    BY <2>2 DEF NewResponse
  <2>5. QED
    BY <2>3, <2>4 DEF DecisionInv, OutputsTyped
<1>8. CASE UNCHANGED vars
  BY <1>8 DEF vars, requestVars, historyVars, OutputsTyped
<1>9. QED
  BY <1>1, <1>2, <1>3, <1>4, <1>5, <1>6, <1>7, <1>8 DEF Next, Serve

LEMMA AlwaysTyped == Spec => [](IInv /\ DecisionInv /\ TypeInv /\ OutputsTyped)
BY InitServing, NextServing, InitCounts, NextCounts, InitTyped, NextTyped, InitOutputs,
   NextOutputs, PTL DEF Spec

\* Every variable has its type, a denial a status code, and what a request is
\* denied for is in the objects it sent (TypeOK).
THEOREM TypeCorrect == Spec => []TypeOK
<1>1. TypeInv /\ OutputsTyped => TypeOK
  BY DEF TypeInv, SharedTyped, Typed, OutputsTyped, TypeOK, Decided, IsVerdict
<1>2. QED
  BY <1>1, AlwaysTyped, PTL

-----------------------------------------------------------------------------
(* What the scoping of the objects does to a verdict                       *)

\* The verdict of ServerFieldsNeverCount, for any rules and namespaces.
LEMMA BareIsAlike ==
    ASSUME NEW input \in Inputs, NEW rules, NEW modes, Decoded(input)
    PROVE  Validate(Bare(input), rules, modes) = Validate(input, rules, modes)
<1> DEFINE bare == Bare(input)
           theRule == Match(rules, input)
<1>1. /\ bare.oldObject = Strip(input.oldObject, implicitExcludePatterns)
      /\ bare.object = Strip(input.object, implicitExcludePatterns)
      /\ bare.operation = input.operation /\ bare.namespace = input.namespace
      /\ bare.group = input.group /\ bare.kind = input.kind /\ bare.user = input.user
  BY ReplacedObjects DEF Bare
<1>2. IsObject(input.oldObject) /\ IsObject(input.object)
  BY InputsAreDecoded DEF Decoded
<1> HIDE DEF bare, theRule
<1>3. SameButObjects(input, bare, rules)
  BY <1>1, LabelsStay DEF SameButObjects
<1>4. Decoded(bare)
  <2>1. IsObject(bare.oldObject) /\ IsObject(bare.object)
    BY <1>1, <1>2, StripIsObject
  <2>2. DOMAIN Undecodable = {}
    BY DEF Undecodable
  <2>3. QED
    BY <2>1, <2>2 DEF IsObject, Decoded
<1>5. hasTrueAnnotation(bare.object, theRule.bypass) <=> hasTrueAnnotation(input.object, theRule.bypass)
  BY <1>1, <1>2, AnnotationsStay
<1>6. \A annotation : AfterResolve(bare, theRule, annotation) = AfterResolve(input, theRule, annotation)
  BY <1>1, <1>2, VerdictsIgnoreServerFields
<1>7. Validate(bare, rules, modes) = Validate(input, rules, modes)
  BY <1>3, <1>4, <1>5, <1>6, ValidatedAlike DEF theRule
<1>8. QED
  BY <1>7 DEF bare

\* Whatever the API server fills in, the rule chosen and the verdict are those on
\* the objects without it (ServerFieldsNeverCount), whatever is published and
\* annotated meanwhile.
THEOREM ServerFieldsDoNotCount == Spec => []ServerFieldsNeverCount
<1>1. ASSUME IInv, NEW r \in Requests, JustDecided(r), Decoded(request[r]),
             NEW rules \in storesSeen[r], NEW modes \in annotationsSeen[r],
             Explains(r, rules, modes)
      PROVE  decision[r] = Validate(Bare(request[r]), rules, modes)
  <2>1. request[r] \in Inputs
    BY <1>1 DEF IInv, Serving, JustDecided
  <2>2. QED
    BY <1>1, <2>1, BareIsAlike DEF Explains
<1>2. IInv => ServerFieldsNeverCount
  BY <1>1 DEF ServerFieldsNeverCount
<1>3. QED
  BY <1>2, AlwaysServing, PTL

-----------------------------------------------------------------------------
(* What is denied has really changed                                       *)

\* Neither what Validate always strips nor the bypass annotation is an element of
\* a list.
LEMMA FieldsSpareElements ==
    ASSUME NEW key
    PROVE  /\ SpareElements(implicitExcludePatterns)
           /\ SpareElements(implicitExcludePatterns \cup {AnnotationPath(key)})
<1>1. ASSUME NEW k
      PROVE  Field(k)[1] \notin ListSegments
  BY DEF Field, ListSegments
<1>2. ASSUME NEW pattern \in implicitExcludePatterns
      PROVE  pattern[Len(pattern)][1] \notin ListSegments
  <2>1. CASE pattern = <<Field("status")>>
    <3>1. pattern[Len(pattern)] = Field("status")
      BY <2>1
    <3>2. QED
      BY <1>1, <3>1
  <2>2. CASE \E k : pattern = <<metadata, Field(k)>>
    <3>1. PICK k : pattern = <<metadata, Field(k)>>
      BY <2>2
    <3>2. pattern[Len(pattern)] = Field(k)
      BY <3>1, Pairs
    <3>3. QED
      BY <1>1, <3>2
  <2>3. QED
    BY <2>1, <2>2 DEF implicitExcludePatterns
<1>3. AnnotationPath(key)[Len(AnnotationPath(key))][1] \notin ListSegments
  BY <1>1, AnnotationPathType
<1>4. QED
  BY <1>2, <1>3 DEF SpareElements

\* What is denied was denied for a rule, and was reported as changed.
LEMMA DeniedIsScoped ==
    ASSUME IInv, TypeInv, NEW r \in Requests, JustDecided(r), NEW p \in decision[r].denied
    PROVE  /\ IsObject(request[r].oldObject) /\ IsObject(request[r].object)
           /\ rule[r] \in UNION Stores
           /\ p \in ScopedChanges(request[r].oldObject, request[r].object, rule[r])
                        \cup ChangesWithoutBypass(request[r].oldObject, request[r].object, rule[r])
<1>1. PICK rules \in storesSeen[r], modes \in annotationsSeen[r] :
          /\ BeforeMatch(request[r]) = Undecided => rule[r] = Match(rules, request[r])
          /\ decision[r] = Validate(request[r], rules, modes)
  BY DEF IInv, Serving, Explained, JustDecided
<1>2. BeforeMatch(request[r]) = Undecided
  <2>1. ASSUME BeforeMatch(request[r]) # Undecided
        PROVE  FALSE
    BY <1>1, <2>1, EarlyVerdicts DEF Validate, IsVerdict
  <2>2. QED
    BY <2>1
<1>3. AfterMatch(request[r], rule[r]) = Undecided
  <2>1. ASSUME AfterMatch(request[r], rule[r]) # Undecided
        PROVE  FALSE
    BY <1>1, <1>2, <2>1, EarlyVerdicts DEF Validate, IsVerdict
  <2>2. QED
    BY <2>1
<1>4. rule[r] # NoRule
  BY <1>3 DEF AfterMatch, Allow, Decision, Undecided
<1>5. rule[r] \in UNION Stores
  BY <1>4 DEF TypeInv, Typed
<1>6. request[r] \in Inputs
  BY DEF IInv, Serving, JustDecided
<1>7. decision[r] = AfterResolve(request[r], rule[r], AnnotationOf(request[r], modes))
  BY <1>1, <1>2, <1>3 DEF Validate
<1>8. QED
  BY <1>2, <1>5, <1>6, <1>7, DecodedInput, LateVerdicts DEF IsVerdict

\* Every path that is denied stands for a difference of the objects sent that is
\* in the rule's scope (DeniedPathsAreReal), for any rule that spares lists.
THEOREM DenialsAreReal == Spec => []DeniedPathsAreReal
<1>1. ASSUME IInv, TypeInv, NEW r \in Requests, JustDecided(r), SparesLists(rule[r]),
             NEW p \in decision[r].denied
      PROVE  ReallyChanged(p, request[r], rule[r])
  <2> DEFINE old == request[r].oldObject
             new == request[r].object
             theRule == rule[r]
             I == implicitExcludePatterns
             A == AnnotationPath(theRule.bypass)
  <2>1. /\ IsObject(old) /\ IsObject(new) /\ theRule \in UNION Stores
        /\ p \in ScopedChanges(old, new, theRule) \cup ChangesWithoutBypass(old, new, theRule)
    BY <1>1, DeniedIsScoped
  <2>2. StayOutside(theRule.include) /\ SpareElements(theRule.exclude)
    BY <1>1, <2>1, StoresAreBuilt DEF SparesLists, StayOutside, SpareElements
  <2>3. SpareElements(I) /\ SpareElements(I \cup {A})
    BY FieldsSpareElements
  <2>4. ASSUME NEW first, I \subseteq first, SpareElements(first),
               p \in Changed(PrepareFrom(old, first, theRule), PrepareFrom(new, first, theRule))
        PROVE  ReallyChanged(p, request[r], theRule)
    <3>1. RealChange(p, old, new, first, theRule)
      BY <2>1, <2>2, <2>4, ChangesAreReal
    <3>2. ASSUME NEW q, Excluded(q, theRule)
          PROVE  Covered(q, first) \/ Covered(q, theRule.exclude)
      <4>1. Covered(q, I) \/ Covered(q, theRule.exclude)
        BY <3>2, CoveredUnion DEF Excluded
      <4>2. QED
        BY <2>4, <4>1, CoveredByMore
    <3>3. QED
      BY <3>1, <3>2 DEF RealChange, ReallyChanged
  <2>5. CASE p \in ScopedChanges(old, new, theRule)
    <3>1. p \in Changed(PrepareFrom(old, I, theRule), PrepareFrom(new, I, theRule))
      BY <2>5 DEF ScopedChanges, Prepare, PrepareFrom
    <3>2. QED
      BY <2>3, <2>4, <3>1
  <2>6. CASE p \in ChangesWithoutBypass(old, new, theRule)
    <3>1. p \in Changed(PrepareFrom(old, I \cup {A}, theRule), PrepareFrom(new, I \cup {A}, theRule))
      BY <2>1, <2>6, PrepareWithoutBypass DEF ChangesWithoutBypass, ScopedChanges
    <3>2. QED
      BY <2>3, <2>4, <3>1
  <2>7. QED
    BY <2>1, <2>5, <2>6
<1>2. IInv /\ TypeInv => DeniedPathsAreReal
  BY <1>1 DEF DeniedPathsAreReal
<1>3. QED
  BY <1>2, AlwaysTyped, PTL

=============================================================================
