---------------------------- MODULE MCAdmission ----------------------------
(***************************************************************************)
(* Objects, rules and requests for the runs of Admission.  An object has   *)
(* annotations, fields the API server fills in, a list spec.l and a map    *)
(* spec.m; each part has a few shapes that Strip, Extract and Compare tell *)
(* apart.  Some have a label, and some a key with an apostrophe.           *)
(***************************************************************************)
EXTENDS Admission, TLC

\* Requests are alike.  Used for safety only.
RequestSymmetry == Permutations(Requests)

spec == Field("spec")
L == <<spec, Field("l")>>
M == <<spec, Field("m")>>
Below(key) == Append(M, Field(key))
K == Below("k")
At(p, node) == p :> node
Empty == [p \in {} |-> MapNode]

\* Annotations: none, bypass in two spellings, another one, both.
Note == At(AnnotationPath("note"), "1")
Bypassed(text) == At(AnnotationPath("bypass"), text)
Annotated(annotated) ==
    (<<metadata>> :> MapNode) @@ (IF annotated = Empty THEN Empty ELSE AnnotationsPath :> MapNode) @@ annotated

ServerSet(n) == (<<metadata, Field("uid")>> :> n) @@ (<<Field("status")>> :> n)

List(nodes) == At(L, ListNode) @@ [p \in {Append(L, Index(i - 1)) : i \in DOMAIN nodes} |-> nodes[p[3][2] + 1]]
ElementField(i, key, node) == Append(Append(L, Index(i)), Field(key)) :> node

Lists == {Empty, List(<<>>), List(<<"1", "2">>),
          List(<<MapNode>>) @@ ElementField(0, "c", "1"),
          List(<<MapNode>>) @@ ElementField(0, "c", "2"),
          List(<<MapNode>>) @@ ElementField(0, "d", "1"),
          List(<<MapNode, "1">>) @@ ElementField(0, "c", "1")}
Maps == {Empty, At(M, MapNode), At(M, "1"),
         At(M, MapNode) @@ At(K, "1"),
         At(M, MapNode) @@ At(K, "2")}

\* Keys whose path is reported as spec.m['it\'s'], which does not parse, and as
\* spec.m['k\']'], which parses as four segments.
MCMisread ==
    Below("it's") :> Malformed @@ Below("k']") :> M \o <<Field("k\\"), Field("']")>>

Object(annotated, server, list, map) ==
    (<<>> :> MapNode) @@ Annotated(annotated) @@ server @@ (<<spec>> :> MapNode) @@ list @@ map

Labelled(team) ==
    Object(Empty, ServerSet("1"), Empty, At(M, MapNode)) @@ At(<<metadata, Field("labels")>>, MapNode)
        @@ At(LabelPath("team"), team)

OldObjects ==
    {Labelled("a")} \cup
    {Object(a, ServerSet("1"), l, m) :
        a \in {Empty, Note @@ Bypassed("true")},
        l \in {Empty, List(<<"1">>), List(<<MapNode>>) @@ ElementField(0, "c", "1"),
               List(<<MapNode, "1">>) @@ ElementField(0, "c", "1")},
        m \in {At(M, MapNode), At(M, MapNode) @@ At(K, "1")}}

NewObjects ==
    {Object(a, ServerSet("2"), l, m) : a \in {Empty, Note}, l \in Lists, m \in Maps}
    \cup {Object(a, ServerSet("2"), Empty, At(M, MapNode) @@ At(K, "1") @@ At(Below(key), "1")) :
              a \in {Empty, Note}, key \in {"it's", "k']"}}
    \cup {Labelled("a"), Labelled("b"), Object(Bypassed(" TRUE"), Empty, List(<<"1", "2">>), Empty)}

Update(user, old, new) ==
    [operation |-> "UPDATE", namespace |-> "prod", group |-> "apps", kind |-> "Deployment",
     user |-> user, oldObject |-> old, object |-> new]

Rule(name, priority, mode, include, exclude, mutable, users) ==
    [name |-> name, namespace |-> 1, priority |-> priority, mode |-> mode,
     namespaces |-> {"prod"}, selectors |-> {<<"apps", "Deployment">>}, labels |-> {},
     include |-> include, exclude |-> exclude, mutable |-> mutable,
     users |-> users, bypass |-> "bypass"]

Element == Append(L, AnyIndex)

-----------------------------------------------------------------------------
(* Run admission_verdicts: one request, every shape                        *)

VerdictInputs == {Update("ann", old, new) : old \in OldObjects, new \in NewObjects}

Includes == {{}, {Append(Element, Field("c")), K}, {<<Field("status")>>, L, M}}
Excludes == {{}, {Append(Element, Field("c"))}, {Append(L, Index(0)), <<metadata>>}}
Mutables == {{Element, <<spec, AnyField, AnyField, AnyField>>},
             {Append(<<spec>>, AnyField), Append(AnnotationsPath, AnyField)}}

\* One rule for every team, which leaves the labels free, before one for the rest.
TeamStores ==
    {{[Rule(1, 1, "enforce", {}, {}, {<<metadata, AnyField>>, LabelPath("team")}, {})
          EXCEPT !.labels = {<<"team", value>>}],
      Rule(2, 0, "enforce", {}, {}, {M}, {})} : value \in {AnyValue, "a"}}

VerdictStores == TeamStores \cup
    {{Rule(1, 0, "enforce", include, exclude, mutable, {})} :
        include \in Includes, exclude \in Excludes, mutable \in Mutables}

-----------------------------------------------------------------------------
(* Run admission_concurrent: few shapes, everything else moving            *)

Plain == Object(Empty, Empty, List(<<"1">>), Empty)
Edited == Object(Empty, Empty, List(<<"2">>), Empty)
Marked == Object(Bypassed("true"), Empty, List(<<"1">>), Empty)

ConcurrentInputs ==
    {Update("ann", Plain, Edited),                               \* immutable change
     Update("ann", Marked, Edited),                              \* bypass removed, and more
     [Update("ann", Plain, Edited) EXCEPT !.namespace = ""],     \* cluster scope
     [Update("ann", Plain, Undecodable) EXCEPT !.user = "bob"],
     [Update("ann", Plain, Edited) EXCEPT !.operation = "CREATE"]}

Anywhere(theRule) == [theRule EXCEPT !.namespaces = {"", "prod"}]

ConcurrentStores ==
    {{},
     {Anywhere(Rule(1, 0, "enforce", {}, {}, {}, {}))},
     {Anywhere(Rule(1, 0, "enforce", {}, {}, {}, {})),           \* outranks the first
      Rule(2, 1, "warn", {}, {}, {<<spec>>}, {"bob"})},
     {Rule(1, 0, "enforce", {}, {Malformed}, {}, {"ann"})}}

-----------------------------------------------------------------------------
(* Runs admission_off, admission_mutable, admission_scope and              *)
(* admission_violations                                                    *)

DivergenceInputs == {Update("ann", old, new) : old \in OldObjects, new \in NewObjects}

WarnStores == {{Rule(1, 0, "warn", {}, {}, {}, {})}}
OffStores == {{Rule(1, 0, "off", {}, {}, {}, {})}}
MutableStores == {{Rule(1, 0, "enforce", {}, {}, {L, M}, {})}}
ScopeStores == {{Rule(1, 0, "enforce", {}, {Append(L, Index(1)), <<metadata>>}, {}, {})}}

=============================================================================
