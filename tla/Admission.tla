------------------------------ MODULE Admission ------------------------------
(***************************************************************************)
(* The admission handler: every request is served by a goroutine of its    *)
(* own (net/http), which runs Validate and records the outcome.            *)
(*                                                                         *)
(* Validate reads shared state twice: the rule store, when it looks for a  *)
(* rule, and the namespace cache, when it resolves the mode.  Between the  *)
(* two, rebuilds replace the store (RuleWatch) and the namespace informer  *)
(* moves on; both are the environment here.  Everything else Validate does *)
(* is on the goroutine's own copies: Store.Match clones the rules.         *)
(***************************************************************************)
EXTENDS Validator

CONSTANTS
    Requests,        \* requests in flight, one goroutine each
    Inputs,          \* the decoded admission requests they may carry
    Stores,          \* the sets of rules a rebuild may publish
    Namespaces,      \* the namespaces the inputs name
    Annotations,     \* the mode annotations a namespace may have
    MaxChanges       \* bound: changes of store and namespaces

ASSUME RequestsAreFinite == IsFiniteSet(Requests)

ASSUME InputsAreDecoded ==
    \A input \in Inputs :
        /\ {"operation", "namespace", "group", "kind", "user", "oldObject", "object"}
               \subseteq DOMAIN input
        /\ \A object \in {input.oldObject, input.object} :
              object = Undecodable \/ (IsObject(object) /\ IsFiniteSet(DOMAIN object))

ASSUME BoundIsNatural == MaxChanges \in Nat

\* What rebuildRules publishes; the patterns are what ParsePath returned.
ASSUME StoresAreBuilt ==
    \A rules \in Stores :
        /\ IsRuleSet(rules)
        /\ \A theRule \in rules :
              \A pattern \in theRule.include \cup theRule.exclude \cup theRule.mutable : IsPath(pattern)

VARIABLES
    store,           \* the rule store
    annotations,     \* the namespace cache
    pc,              \* where each goroutine is
    request,         \* what it serves
    rule,            \* the rule it matched, a copy
    decision,        \* what Validate returned
    admissions,      \* Registry.admissionRequests, by result
    violations,      \* Registry.violations, by mode
    response,        \* the answer written
    changes,
    storesSeen,      \* history: what the store was since the request came
    annotationsSeen  \* history: what the namespace cache was since then

sharedVars == <<store, annotations, changes>>
requestVars == <<pc, request, rule, decision, response>>
metricVars == <<admissions, violations>>
historyVars == <<storesSeen, annotationsSeen>>
vars == <<sharedVars, requestVars, metricVars, historyVars>>

States == {"idle", "match", "resolve", "record", "violations", "reply", "done"}
Nothing == [empty |-> TRUE]

\* The answer written, of which the flag and the code matter here.
NewResponse(allowed, code) == [allowed |-> allowed, code |-> code]

Init ==
    /\ store \in Stores
    /\ annotations \in [Namespaces -> Annotations]
    /\ pc = [r \in Requests |-> "idle"]
    /\ request = [r \in Requests |-> Nothing]
    /\ rule = [r \in Requests |-> NoRule]
    /\ decision = [r \in Requests |-> Undecided]
    /\ admissions = [result \in {"allowed", "denied"} |-> 0]
    /\ violations = [mode \in Modes |-> 0]
    /\ response = [r \in Requests |-> Nothing]
    /\ changes = 0
    /\ storesSeen = [r \in Requests |-> {}]
    /\ annotationsSeen = [r \in Requests |-> {}]

-----------------------------------------------------------------------------
(* The environment                                                         *)

InFlight(r) == pc[r] \in {"match", "resolve"}

\* A rebuild publishes another set of rules.
PublishRules(rules) ==
    /\ changes < MaxChanges
    /\ rules # store
    /\ store' = rules
    /\ changes' = changes + 1
    /\ storesSeen' = [r \in Requests |->
                         IF InFlight(r) THEN storesSeen[r] \cup {rules} ELSE storesSeen[r]]
    /\ UNCHANGED <<annotations, requestVars, metricVars, annotationsSeen>>

\* A namespace is annotated, created or deleted.
AnnotateNamespace(namespace, annotation) ==
    /\ changes < MaxChanges
    /\ annotation # annotations[namespace]
    /\ annotations' = [annotations EXCEPT ![namespace] = annotation]
    /\ changes' = changes + 1
    /\ annotationsSeen' = [r \in Requests |->
                              IF InFlight(r) THEN annotationsSeen[r] \cup {annotations'}
                              ELSE annotationsSeen[r]]
    /\ UNCHANGED <<store, requestVars, metricVars, storesSeen>>

-----------------------------------------------------------------------------
(* One goroutine                                                           *)

Receive(r, input) ==
    /\ pc[r] = "idle"
    /\ request' = [request EXCEPT ![r] = input]
    /\ pc' = [pc EXCEPT ![r] = "match"]
    /\ storesSeen' = [storesSeen EXCEPT ![r] = {store}]
    /\ annotationsSeen' = [annotationsSeen EXCEPT ![r] = {annotations}]
    /\ UNCHANGED <<sharedVars, rule, decision, response, metricVars>>

\* A review without a request is denied before anything is validated or counted.
RefuseEmptyReview(r) ==
    /\ pc[r] = "idle"
    /\ response' = [response EXCEPT ![r] = NewResponse(FALSE, 400)]
    /\ pc' = [pc EXCEPT ![r] = "done"]
    /\ UNCHANGED <<sharedVars, request, rule, decision, metricVars, historyVars>>

Decide(r, answer) ==
    /\ decision' = [decision EXCEPT ![r] = answer]
    /\ pc' = [pc EXCEPT ![r] = "record"]

\* An early return that no rule is needed for.
DecideUnmatched(r) ==
    /\ pc[r] = "match"
    /\ BeforeMatch(request[r]) # Undecided
    /\ Decide(r, BeforeMatch(request[r]))
    /\ UNCHANGED <<sharedVars, request, rule, response, metricVars, historyVars>>

\* Store.Match on a snapshot, and the early returns that follow it.
MatchRule(r) ==
    /\ pc[r] = "match"
    /\ BeforeMatch(request[r]) = Undecided
    /\ rule' = [rule EXCEPT ![r] = Match(store, request[r])]
    /\ \/ /\ AfterMatch(request[r], rule'[r]) # Undecided
          /\ Decide(r, AfterMatch(request[r], rule'[r]))
       \/ /\ AfterMatch(request[r], rule'[r]) = Undecided
          /\ pc' = [pc EXCEPT ![r] = "resolve"]
          /\ UNCHANGED decision
    /\ UNCHANGED <<sharedVars, request, response, metricVars, historyVars>>

\* Mutant: the rule is looked up again once the mode is known.
ResolveModeRematching(r) ==
    /\ pc[r] = "resolve"
    /\ Match(store, request[r]) # NoRule
    /\ Decide(r, AfterResolve(request[r], Match(store, request[r]),
                              AnnotationOf(request[r], annotations)))
    /\ UNCHANGED <<sharedVars, request, rule, response, metricVars, historyVars>>

\* ResolveMode reads the namespace cache; what follows is local to r.
ResolveMode(r) ==
    /\ pc[r] = "resolve"
    /\ Decide(r, AfterResolve(request[r], rule[r], AnnotationOf(request[r], annotations)))
    /\ UNCHANGED <<sharedVars, request, rule, response, metricVars, historyVars>>

Result(answer) == IF answer.allowed THEN "allowed" ELSE "denied"

\* Mutant: only what was denied counts as handled in its result.
RecordDeniedOnly(r) ==
    /\ pc[r] = "record"
    /\ admissions' = IF decision[r].denied = {} THEN admissions
                     ELSE [admissions EXCEPT ![Result(decision[r])] = @ + 1]
    /\ pc' = [pc EXCEPT ![r] = IF decision[r].allowed THEN "reply" ELSE "violations"]
    /\ storesSeen' = [storesSeen EXCEPT ![r] = {}]
    /\ annotationsSeen' = [annotationsSeen EXCEPT ![r] = {}]
    /\ UNCHANGED <<sharedVars, request, rule, decision, response, violations>>

RecordAdmission(r) ==
    /\ pc[r] = "record"
    /\ admissions' = [admissions EXCEPT ![Result(decision[r])] = @ + 1]
    /\ pc' = [pc EXCEPT ![r] = IF decision[r].allowed THEN "reply" ELSE "violations"]
    /\ storesSeen' = [storesSeen EXCEPT ![r] = {}]
    /\ annotationsSeen' = [annotationsSeen EXCEPT ![r] = {}]
    /\ UNCHANGED <<sharedVars, request, rule, decision, response, violations>>

\* RecordViolation, once for each denied path.
RecordViolations(r) ==
    /\ pc[r] = "violations"
    /\ violations' = [violations EXCEPT ![decision[r].mode] = @ + Cardinality(decision[r].denied)]
    /\ pc' = [pc EXCEPT ![r] = "reply"]
    /\ UNCHANGED <<sharedVars, request, rule, decision, response, admissions, historyVars>>

Reply(r) ==
    /\ pc[r] = "reply"
    /\ response' = [response EXCEPT ![r] = NewResponse(decision[r].allowed,
                        IF decision[r].allowed THEN 0
                        ELSE IF decision[r].code = 0 THEN 403 ELSE decision[r].code)]
    /\ pc' = [pc EXCEPT ![r] = "done"]
    /\ request' = [request EXCEPT ![r] = Nothing]
    /\ rule' = [rule EXCEPT ![r] = NoRule]
    /\ UNCHANGED <<sharedVars, decision, metricVars, historyVars>>

Serve(r) ==
    \/ RefuseEmptyReview(r) \/ DecideUnmatched(r) \/ MatchRule(r) \/ ResolveMode(r)
    \/ RecordAdmission(r) \/ RecordViolations(r) \/ Reply(r)

Next ==
    \/ \E rules \in Stores : PublishRules(rules)
    \/ \E namespace \in Namespaces, annotation \in Annotations :
           AnnotateNamespace(namespace, annotation)
    \/ \E r \in Requests : (\E input \in Inputs : Receive(r, input)) \/ Serve(r)

Spec == Init /\ [][Next]_vars

-----------------------------------------------------------------------------
(* Properties: what a decision may be                                      *)

TypeOK ==
    /\ store \in Stores
    /\ annotations \in [Namespaces -> Annotations]
    /\ changes \in 0 .. MaxChanges
    /\ \A r \in Requests :
          /\ pc[r] \in States
          /\ request[r] \in Inputs \cup {Nothing}
          /\ rule[r] \in (UNION Stores) \cup {NoRule}
          /\ decision[r] # Undecided => (decision[r].allowed <=> decision[r].code = 0)
          /\ decision[r] # Undecided /\ request[r] # Nothing =>
                decision[r].denied \subseteq
                    DOMAIN request[r].oldObject \cup DOMAIN request[r].object
          /\ response[r] \in {Nothing} \cup [allowed : BOOLEAN, code : {0, 400, 403, 500}]
    /\ admissions \in [{"allowed", "denied"} -> Nat]
    /\ violations \in [Modes -> Nat]
    /\ storesSeen \in [Requests -> SUBSET Stores]
    /\ annotationsSeen \in [Requests -> SUBSET [Namespaces -> Annotations]]

Decided(r) == decision[r] # Undecided
JustDecided(r) == pc[r] = "record"

\* A path where the two objects really differ in a value.
LeafDiffers(old, new, p) ==
    /\ DifferAt(old, new, p)
    /\ \E object \in {old, new} : p \in DOMAIN object /\ object[p] \notin {MapNode, Null}

LeafDifferences(input) ==
    {p \in DOMAIN input.oldObject \cup DOMAIN input.object :
        LeafDiffers(input.oldObject, input.object, p)}

Excluded(p, theRule) == Covered(p, implicitExcludePatterns \cup theRule.exclude)

InScope(p, theRule) ==
    /\ ~Excluded(p, theRule)
    /\ theRule.include = {} \/ Covered(p, theRule.include)

\* A path at or above p whose text reads as another one, which is mutable.
ReadAsMutable(p, theRule) ==
    \E q \in Prefixes(p) : ReadBack(q) # q /\ MatchAny(q, theRule.mutable)

\* README.md "only allows changes that fall under explicitly mutable paths": when
\* enforce lets a request through, every value that differs in the rule's scope
\* lies at or below a mutable path, whatever Strip and Extract made of the
\* objects on the way.  Only where a key holds an apostrophe and a bracket can the
\* path that MatchAny reads, and finds mutable, be another one.
EnforceLetsThroughOnlyMutable ==
    \A r \in Requests :
        JustDecided(r) /\ decision[r].allowed /\ decision[r].mode = "enforce"
            /\ decision[r].reason \in {"no changes detected", "only mutable fields changed"}
        => \A p \in LeafDifferences(request[r]) :
               InScope(p, rule[r]) =>
                   Covered(p, rule[r].mutable) \/ ReadAsMutable(p, rule[r])

\* Removing the bypass annotation is let through only when nothing else in the
\* rule's scope differs, so that it cannot carry another change with it.
BypassRemovalCarriesNothing ==
    \A r \in Requests :
        JustDecided(r) /\ decision[r].reason = "bypass marker removed"
        => \A p \in LeafDifferences(request[r]) :
               InScope(p, rule[r]) => IsPrefixOf(AnnotationPath(rule[r].bypass), p)

\* No pattern of include enters a list, none of exclude ends in an element or is the
\* root, which leaves nothing to deny.
SparesLists(theRule) ==
    /\ \A pattern \in theRule.include :
          \A i \in DOMAIN pattern : pattern[i][1] \notin ListSegments
    /\ \A pattern \in theRule.exclude :
          pattern # <<>> /\ pattern[Len(pattern)][1] \notin ListSegments

\* The objects sent differ at p or below it in something that is neither excluded
\* nor outside include.
ReallyChanged(p, input, theRule) ==
    \E q \in DOMAIN input.oldObject \cup DOMAIN input.object :
        /\ IsPrefixOf(p, q)
        /\ DifferAt(input.oldObject, input.object, q)
        /\ ~Excluded(q, theRule)
        /\ \/ theRule.include = {}
           \/ Covered(q, theRule.include)
           \/ hasAnyDescendantMatch(q, theRule.include)

\* A denied path is never a phantom of the scoping, for rules that scope no list
\* from the inside: a list that Extract or Strip reaches into may come and go with
\* elements that are out of scope, and exclude may leave nothing but its length.
DeniedPathsAreReal ==
    \A r \in Requests :
        JustDecided(r) /\ SparesLists(rule[r]) =>
            \A p \in decision[r].denied : ReallyChanged(p, request[r], rule[r])

\* The states of the store and of the namespaces that explain the decision on r.
Explains(r, rules, modes) == decision[r] = Validate(request[r], rules, modes)

Decoded(input) == Undecodable \notin {input.oldObject, input.object}

WithObjects(input, old, new) == [input EXCEPT !.oldObject = old, !.object = new]

Bare(input) == WithObjects(input, Strip(input.oldObject, implicitExcludePatterns),
                                  Strip(input.object, implicitExcludePatterns))

\* Fields the API server fills in never decide: with them taken out of both
\* objects the rule chosen and the answer are the same, even when include names
\* them.
ServerFieldsNeverCount ==
    \A r \in Requests : JustDecided(r) /\ Decoded(request[r]) =>
        \A rules \in storesSeen[r], modes \in annotationsSeen[r] :
            Explains(r, rules, modes) => decision[r] = Validate(Bare(request[r]), rules, modes)

Undone(input) == WithObjects(input, input.object, input.oldObject)

\* The labels of the two objects are the same to every rule, and neither has the
\* bypass marker of the rule chosen.
IsReversible(input, rules) ==
    /\ \A theRule \in rules :
          matchesLabels(theRule.labels, input.oldObject) <=> matchesLabels(theRule.labels, input.object)
    /\ Match(rules, input) # NoRule =>
          \A object \in {input.oldObject, input.object} :
              ~hasTrueAnnotation(object, Match(rules, input).bypass)

\* An update and its undoing are judged alike, unless the bypass marker is
\* involved or the update changes which rules select the object: the rule is
\* chosen by the labels of the new object alone, so that an update that drops a
\* rule's label is not judged by it, and the one that puts it back is.
RollbackJudgedAlike ==
    \A r \in Requests : JustDecided(r) /\ Decoded(request[r]) =>
        \A rules \in storesSeen[r], modes \in annotationsSeen[r] :
            Explains(r, rules, modes) /\ IsReversible(request[r], rules) =>
                decision[r] = Validate(Undone(request[r]), rules, modes)

-----------------------------------------------------------------------------
(* Properties: requests side by side with rebuilds and namespace changes   *)

\* Every decision is what Validate gives for some rule set that was in the store
\* and some namespace state that was in the cache while the request was served,
\* never for a mixture of two rule sets or for a rule changed under its hands.
VerdictExplained ==
    \A r \in Requests : JustDecided(r) =>
        \E rules \in storesSeen[r], modes \in annotationsSeen[r] : Explains(r, rules, modes)

Counted(r) == Decided(r) /\ pc[r] # "record"
\* drift_sentinel_admission_requests_total counts every validated request once,
\* under the result its response carries, however the requests overlap.
AnswersCountedOnce ==
    /\ \A result \in DOMAIN admissions :
          admissions[result] = Cardinality({r \in Requests : Counted(r) /\ Result(decision[r]) = result})
    /\ \A r \in Requests : pc[r] = "done" /\ Decided(r) =>
          Result(response[r]) = Result(decision[r])

-----------------------------------------------------------------------------
(* What the README and the metrics say and the code does not do            *)

\* README.md:129, mode off: "allow the request without blocking".
OffNeverBlocks ==
    \A r \in Requests : JustDecided(r) /\ rule[r] # NoRule /\ decision[r].mode = "off" =>
        decision[r].allowed

\* metrics.go:120, drift_sentinel_violations_total by mode: "Total immutable field
\* violations detected."  The counter of a mode is the number of paths found to
\* violate in it, by the requests that have been answered.
ViolationsAreDetected ==
    LET Detected(mode) ==
            UNION {{r} \X decision[r].denied :
                      r \in {q \in Requests : pc[q] = "done" /\ Decided(q) /\ decision[q].mode = mode}}
    IN  (\A r \in Requests : pc[r] = "done") =>
            \A mode \in Modes : violations[mode] = Cardinality(Detected(mode))

\* README.md:5 "only allows changes that fall under explicitly mutable paths": no
\* path at or below a mutable path is denied.
MutableCoversWhatIsBelow ==
    \A r \in Requests : JustDecided(r) => \A p \in decision[r].denied : ~Covered(p, rule[r].mutable)

\* README.md:104-105, exclude: "paths removed from comparison"; include: "only
\* these paths are compared".
OnlyScopeIsCompared ==
    \A r \in Requests : JustDecided(r) =>
        \A p \in decision[r].denied : ReallyChanged(p, request[r], rule[r])

=============================================================================
