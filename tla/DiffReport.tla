------------------------------ MODULE DiffReport ------------------------------
(***************************************************************************)
(* What the walks of DiffWalk report is text, which PathText writes and    *)
(* reads back, as it reads the patterns of a rule.                         *)
(***************************************************************************)
EXTENDS DiffWalk, PathText

CONSTANT Texts       \* the texts a rule may give as a pattern

\* Every key is spelled, every index is a number.
IsSpelled(segment) ==
    \/ segment \in {AnyField, AnyIndex}
    \/ segment = Field(segment[2]) /\ segment[2] \in DOMAIN Spelling
    \/ segment = Index(segment[2]) /\ segment[2] \in Int

ASSUME PathsAreSpelled ==
    \A path \in Paths \cup UNION PatternSets : \A i \in DOMAIN path : IsSpelled(path[i])

ASSUME TextsAreTexts == \A text \in Texts : IsText(text)

HasQuote(path) == \E i \in DOMAIN path : path[i][1] = "field" /\ "'" \in {path[i][2][j] : j \in DOMAIN path[i][2]}

ReadsAs(text, path) ==
    IF ParsePath(text) = Malformed THEN path = Malformed
    ELSE /\ path # Malformed /\ IsPath(path)
         /\ \A i \in DOMAIN path : IsSpelled(path[i])
         /\ Spelled(path) = ParsePath(text)

\* Misread is what ParsePath makes of paths with an apostrophe in a key, and of no others.
ASSUME MisreadIsParsed ==
    /\ \A path \in Paths : path \in DOMAIN Misread <=> HasQuote(Spelled(path))
    /\ \A path \in Paths \cap DOMAIN Misread : ReadsAs(RenderPath(Spelled(path)), Misread[path])

\* A pattern that a rule may give reads back from its own rendering, however it
\* was written, unless it names a key with an apostrophe.
PatternsReadBack ==
    \A text \in Texts :
        LET pattern == ParsePath(text)
        IN  pattern \notin {Malformed, <<>>} =>
                (ParsePath(RenderPath(pattern)) = pattern <=> ~HasQuote(pattern))

\* Compare reports a changed path in text and MatchAny parses it again: what it
\* reads is the path that changed, whatever characters its keys have, unless one is
\* an apostrophe.  A pattern matches the text exactly when it matches what is read,
\* which is the path, or nothing, or, where a bracket is behind the apostrophe,
\* another path: MatchAny on paths decides as the code does on their texts.
ReportsReadBack ==
    /\ PatternsReadBack
    /\ \A p \in Changed(old, new) :
          LET text == RenderPath(Spelled(p))
          IN  /\ ParsePath(text) = Spelled(p) <=> ~HasQuote(Spelled(p))
              /\ \A patterns \in PatternSets :
                    MatchAnyText(text, {Spelled(q) : q \in patterns}) <=> MatchAny(p, patterns)

=============================================================================
