------------------------------- MODULE Validator -------------------------------
(***************************************************************************)
(* What one admission request is answered: rule selection (pkg/rules       *)
(* matcher and store order) and Validator.Validate (pkg/admission).        *)
(*                                                                         *)
(* A rule is a record with the fields of rules.Rule.  Its namespace globs  *)
(* stand for the set of namespaces they match, its selectors are           *)
(* <<group, kind>> pairs, its labels <<key, value>> or <<key, AnyValue>>,  *)
(* and exclude, include and mutable are sets of path patterns of           *)
(* ObjectDiff; Malformed is a pattern that ParsePath rejects.  namespace   *)
(* and name, the ConfigMap's, are ordinals: only their order counts.       *)
(*                                                                         *)
(* A request has the fields of AdmissionRequest that Validate reads.       *)
(* Decision.Result is always "allowed" or "denied" as Allowed says, and    *)
(* Warnings is the reason exactly in mode warn; warned stands for both.    *)
(***************************************************************************)
EXTENDS ObjectDiff, FiniteSets, Integers

Modes == {"enforce", "warn", "dry-run", "off"}

AnyValue == "*"
Undecodable == [p \in {} |-> MapNode]     \* not a JSON object
NoRule == [name |-> 0, mode |-> "off"]    \* a nil rule, as errorDecision reads it
NoAnnotation == "none"                    \* no such namespace, or none annotated
BadAnnotation == "invalid"                \* an annotation isValidMode rejects

-----------------------------------------------------------------------------
(* Rule selection                                                          *)

\* The order of sortRules.
Precedes(left, right) ==
    \/ left.priority > right.priority
    \/ /\ left.priority = right.priority
       /\ \/ left.namespace < right.namespace
          \/ left.namespace = right.namespace /\ left.name < right.name

\* A rebuild makes at most one rule of a ConfigMap.
IsRuleSet(rules) ==
    /\ IsFiniteSet(rules)
    /\ \A rule \in rules : rule.priority \in Int /\ rule.namespace \in Nat /\ rule.name \in Nat
    /\ \A rule, other \in rules :
          rule.namespace = other.namespace /\ rule.name = other.name => rule = other

metadata == Field("metadata")
LabelPath(key) == <<metadata, Field("labels"), Field(key)>>
AnnotationsPath == <<metadata, Field("annotations")>>
AnnotationPath(key) == Append(AnnotationsPath, Field(key))

\* Labels that are not strings are not extracted.
HasLabel(object, key, value) ==
    /\ LabelPath(key) \in DOMAIN object
    /\ object[LabelPath(key)] \notin Containers \cup {Null}
    /\ value \in {AnyValue, object[LabelPath(key)]}

matchesLabels(selectors, object) ==
    \A selector \in selectors :
        selector[1] # "" /\ HasLabel(object, selector[1], selector[2])

Matches(rule, request) ==
    /\ request.namespace \in rule.namespaces
    /\ <<request.group, request.kind>> \in rule.selectors
    /\ matchesLabels(rule.labels, request.object)

\* The first rule in order that matches; names make the order strict.
Match(store, request) ==
    LET matching == {rule \in store : Matches(rule, request)}
    IN  IF matching = {} THEN NoRule
        ELSE CHOOSE rule \in matching :
                 \A other \in matching \ {rule} : Precedes(rule, other)

-----------------------------------------------------------------------------
(* Bypass annotation                                                       *)

\* The texts that EqualFold(TrimSpace(text), "true") accepts; the first stands
\* for the boolean too.
TrueTexts == {"true", " TRUE"}

hasTrueAnnotation(object, key) ==
    /\ AnnotationPath(key) \in DOMAIN object
    /\ object[AnnotationPath(key)] \in TrueTexts

\* Mutant: the whole annotations map goes.
removeAnnotations(object, key) ==
    [p \in {q \in DOMAIN object : ~IsPrefixOf(AnnotationsPath, q)} |-> object[p]]

removeAnnotation(object, key) ==
    LET others == {p \in DOMAIN object : ~IsPrefixOf(AnnotationPath(key), p)}
        annotated == \E p \in others : Len(p) = 3 /\ Parent(p) = AnnotationsPath
        isMap == AnnotationsPath \in DOMAIN object /\ object[AnnotationsPath] = MapNode
    IN  [p \in (IF isMap /\ ~annotated THEN others \ {AnnotationsPath} ELSE others) |-> object[p]]

-----------------------------------------------------------------------------
(* The scoped objects and their difference                                 *)

implicitExcludePatterns ==
    {<<Field("status")>>}
        \cup {<<metadata, Field(key)>> :
                key \in {"managedFields", "resourceVersion", "generation", "uid",
                         "creationTimestamp", "selfLink"}}

Parses(patterns) == Malformed \notin patterns

\* Mutant: include takes the place of the implicit exclusions.
PrepareIncluded(object, rule) ==
    LET included == IF rule.include = {} THEN Strip(object, implicitExcludePatterns)
                    ELSE Extract(object, rule.include)
    IN  IF rule.exclude = {} THEN included ELSE Strip(included, rule.exclude)

\* Include narrows what the implicit exclusions left, exclude narrows that.
Prepare(object, rule) ==
    LET stripped == Strip(object, implicitExcludePatterns)
        included == IF rule.include = {} THEN stripped ELSE Extract(stripped, rule.include)
    IN  IF rule.exclude = {} THEN included ELSE Strip(included, rule.exclude)

cloneObject(object) == Strip(object, {})

\* Mutant: the new object is compared as it came.
ChangesOfRawNew(old, new, rule) == Changed(Prepare(old, rule), new)

ScopedChanges(old, new, rule) == Changed(Prepare(old, rule), Prepare(new, rule))

ChangesWithoutBypass(old, new, rule) ==
    ScopedChanges(removeAnnotation(cloneObject(old), rule.bypass),
                  removeAnnotation(cloneObject(new), rule.bypass), rule)

-----------------------------------------------------------------------------
(* Decisions                                                               *)

Decision(allowed, code, reason, rule, mode, changed, denied) ==
    [allowed |-> allowed, code |-> code, reason |-> reason, rule |-> rule.name,
     mode |-> mode, changed |-> changed, denied |-> denied,
     warned |-> allowed /\ denied # {} /\ mode = "warn"]

Allow(reason, rule, mode, changed) == Decision(TRUE, 0, reason, rule, mode, changed, {})
\* Mutant: the status code is forgotten.
errorWithoutCode(rule, code, reason) == Decision(FALSE, 0, reason, rule, rule.mode, {}, {})

errorDecision(rule, code, reason) == Decision(FALSE, code, reason, rule, rule.mode, {}, {})

\* Validate's early returns: before it reads the rule store, then before it
\* reads the namespace.
Undecided == [reason |-> "undecided"]

BeforeMatch(request) ==
    IF request.operation \notin {"", "UPDATE"}
    THEN Allow("operation not enforced", NoRule, "", {})
    ELSE IF request.oldObject = Undecodable
    THEN errorDecision(NoRule, 400, "invalid oldObject")
    ELSE IF request.object = Undecodable
    THEN errorDecision(NoRule, 400, "invalid object")
    ELSE Undecided

AfterMatch(request, rule) ==
    IF rule = NoRule
    THEN Allow("no matching rule", NoRule, "off", {})
    ELSE IF rule.users # {} /\ request.user \notin rule.users
    THEN Allow("user not in scoped user list", rule, rule.mode, {})
    ELSE IF hasTrueAnnotation(request.object, rule.bypass)
    THEN Allow("bypass marker present", rule, rule.mode, {})
    ELSE Undecided

\* The rest of Validate, once the namespace's annotation is known.
AfterResolve(request, rule, annotation) ==
    LET mode == IF annotation = NoAnnotation THEN rule.mode ELSE annotation
        old == request.oldObject
        new == request.object
        changed == ScopedChanges(old, new, rule)
        remaining == ChangesWithoutBypass(old, new, rule)
        immutable == {p \in changed : ~MatchAny(p, rule.mutable)}
        bypassRemoved == /\ hasTrueAnnotation(old, rule.bypass)
                         /\ ~hasTrueAnnotation(new, rule.bypass)
    IN  IF annotation = BadAnnotation
        THEN errorDecision(rule, 500, "resolve namespace annotation")
        ELSE IF ~Parses(rule.include)
        THEN errorDecision(rule, 500, "parse include patterns")
        ELSE IF ~Parses(rule.exclude)
        THEN errorDecision(rule, 500, "parse exclude patterns")
        ELSE IF changed = {}
        THEN Allow("no changes detected", rule, mode, {})
        ELSE IF bypassRemoved /\ remaining = {}
        THEN Allow("bypass marker removed", rule, mode, changed)
        ELSE IF bypassRemoved
        THEN Decision(FALSE, 403, "bypass annotation removal must be the only change",
                      rule, mode, changed, remaining)
        ELSE IF ~Parses(rule.mutable)
        THEN errorDecision(rule, 500, "parse mutable patterns")
        ELSE IF immutable = {}
        THEN Allow("only mutable fields changed", rule, mode, changed)
        ELSE Decision(mode # "enforce", IF mode = "enforce" THEN 403 ELSE 0,
                      "immutable fields changed", rule, mode, changed, immutable)

\* ResolveMode is not asked about cluster-scoped objects.
AnnotationOf(request, annotations) ==
    IF request.namespace = "" THEN NoAnnotation ELSE annotations[request.namespace]

\* Validate from end to end, on one state of the store and of the namespaces.
Validate(request, store, annotations) ==
    LET rule == Match(store, request)
    IN  IF BeforeMatch(request) # Undecided THEN BeforeMatch(request)
        ELSE IF AfterMatch(request, rule) # Undecided THEN AfterMatch(request, rule)
        ELSE AfterResolve(request, rule, AnnotationOf(request, annotations))

=============================================================================
