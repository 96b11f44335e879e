---------------------------- MODULE MCRuleConfig ----------------------------
(* The entries an author may write in the run of RuleConfig.               *)
EXTENDS RuleConfig

Scalars(key, texts) ==
    {EntryOf(key, <<Line(0, FALSE, key, Scalar(text))>>, <<Scalar(text)>>) : text \in texts}

InlineList(key, texts) ==
    EntryOf(key, <<Line(0, FALSE, key, Inline(texts))>>, <<Items(texts)>>)

\* The same as one dash per line.
BlockOfTwo(key, first, second, indent) ==
    EntryOf(key, <<Line(0, FALSE, key, None),
                   Line(indent, TRUE, NoKey, Scalar(first)),
                   Line(indent, TRUE, NoKey, Scalar(second))>>,
            <<Items({first, second})>>)

BlockOfOne(key, item) ==
    EntryOf(key, <<Line(0, FALSE, key, None), Line(2, TRUE, NoKey, Scalar(item))>>,
            <<Items({item})>>)

Selector(group, kind) == [apiGroup |-> group, kind |-> kind]

SelectorEntries ==
    {\* one selector
     EntryOf("selectors", <<Line(0, FALSE, "selectors", None),
                            Line(2, TRUE, "apiGroup", Scalar("apps")),
                            Line(4, FALSE, "kind", Scalar("Deployment"))>>,
             <<{Selector(Scalar("apps"), Scalar("Deployment"))}>>),
     \* a selector of the core group, then one with both fields
     EntryOf("selectors", <<Line(0, FALSE, "selectors", None),
                            Line(2, TRUE, "kind", Scalar("Pod")),
                            Line(2, TRUE, "kind", Scalar("Deployment")),
                            Line(4, FALSE, "apiGroup", Scalar("apps"))>>,
             <<{Selector(None, Scalar("Pod")), Selector(Scalar("apps"), Scalar("Deployment"))}>>)}

\* Entries the format does not have.
OddEntries ==
    {EntryOf("fields", <<Line(0, FALSE, "fields", Scalar("1"))>>, <<>>),
     EntryOf("exclude", <<Line(0, FALSE, "exclude", Scalar("status"))>>, <<>>)}

MCWords ==
    {NoKey, Comment, "fields", "loud", "1", "prod", "test", "status", "[", "apps", "Pod", "Deployment"}
        \cup Keys \cup Fields \cup Modes

MCEntries ==
    Scalars("mode", {"enforce", "loud"}) \cup Scalars("priority", {"1"})
        \cup {InlineList("namespaces", {"prod"}), InlineList("namespaces", {"["}),
              BlockOfTwo("namespaces", "prod", "test", 2), BlockOfOne("exclude", "status")}
        \cup SelectorEntries \cup OddEntries

=============================================================================
