------------------------------- MODULE PathText -------------------------------
(***************************************************************************)
(* The text of a path: ParsePath and RenderPath of pkg/diff/paths.go.      *)
(*                                                                         *)
(* Rules name paths in text, and Compare reports what changed in text:     *)
(* MatchAny parses the report again before it looks for a mutable pattern. *)
(* A text, and the key of a spelled segment, is a sequence of characters.  *)
(* Elsewhere keys are opaque and Spelling gives their characters.          *)
(***************************************************************************)
EXTENDS ObjectDiff, Integers
Sets == INSTANCE FiniteSetsExt
Seqs == INSTANCE SequencesExt

CONSTANT Spelling    \* the characters of each key an object may have

\* A text is a sequence of whatever characters it has.
IsText(text) == text \in Seq({text[i] : i \in DOMAIN text})

\* Keys are told apart by their characters.
ASSUME KeysAreTexts ==
    /\ \A key \in DOMAIN Spelling : IsText(Spelling[key])
    /\ \A key, other \in DOMAIN Spelling : Spelling[key] = Spelling[other] => key = other

Quotes == {"'", "\""}
Digits == <<"0", "1", "2", "3", "4", "5", "6", "7", "8", "9">>
\* The characters in use that are neither letters nor digits, nor _ or -.
Punctuation == Quotes \cup {".", "[", "]", "*", "/", "\\", " ", "+", "<", ">"}

SpelledSegment(segment) ==
    IF segment[1] = "field" THEN Field(Spelling[segment[2]]) ELSE segment
Spelled(path) == [i \in DOMAIN path |-> SpelledSegment(path[i])]

\* Mutant: what neither ends a token nor quotes one needs no quotes.
isBareUnlessCut(key) ==
    key # <<>> /\ \A i \in DOMAIN key : key[i] \notin Punctuation \ {"/", "*", " "}

isBareIdentifier(key) == key # <<>> /\ \A i \in DOMAIN key : key[i] \notin Punctuation

-----------------------------------------------------------------------------
(* RenderPath                                                              *)

\* A quote gets a backslash, a backslash does not.
Quoted(key) ==
    <<"[", "'">> \o Seqs!FlattenSeq([i \in DOMAIN key |->
                        IF key[i] = "'" THEN <<"\\", "'">> ELSE <<key[i]>>]) \o <<"'", "]">>

Decimal(n) ==
    LET decimal[k \in 0 .. n] ==
            IF k < 10 THEN <<Digits[k + 1]>> ELSE Append(decimal[k \div 10], Digits[(k % 10) + 1])
    IN  decimal[n]
Numeral(n) == IF n < 0 THEN <<"-">> \o Decimal(-n) ELSE Decimal(n)

Dot(i) == IF i > 1 THEN <<".">> ELSE <<>>

RenderSegment(path, i) ==
    CASE path[i] = AnyField -> Dot(i) \o <<"*">>
      [] path[i] = AnyIndex -> <<"[", "*", "]">>
      [] path[i][1] = "index" -> <<"[">> \o Numeral(path[i][2]) \o <<"]">>
      [] path[i][1] = "field" /\ isBareIdentifier(path[i][2]) -> Dot(i) \o path[i][2]
      [] OTHER -> (IF i > 1 /\ path[i - 1] = AnyField THEN <<".">> ELSE <<>>) \o Quoted(path[i][2])

RenderPath(path) ==
    IF path = <<>> THEN <<"<", "r", "o", "o", "t", ">">>
    ELSE Seqs!FlattenSeq([i \in DOMAIN path |-> RenderSegment(path, i)])

-----------------------------------------------------------------------------
(* ParsePath                                                               *)

\* Where the text has one of these characters first, from i on; past its end if nowhere.
FirstOf(text, i, characters) ==
    Sets!Min({j \in i .. Len(text) : text[j] \in characters} \cup {Len(text) + 1})

TrimSpace(text) ==
    LET solid == {i \in DOMAIN text : text[i] # " "}
    IN  IF solid = {} THEN <<>> ELSE SubSeq(text, Sets!Min(solid), Sets!Max(solid))

DigitValue(c) == (CHOOSE i \in DOMAIN Digits : Digits[i] = c) - 1

\* strconv.Atoi: the number in a set of its own, {} when it is none.
Atoi(text) ==
    LET signed == text # <<>> /\ text[1] \in {"+", "-"}
        digits == IF signed THEN Tail(text) ELSE text
        number[k \in 0 .. Len(digits)] ==
            IF k = 0 THEN 0 ELSE 10 * number[k - 1] + DigitValue(digits[k])
    IN  IF digits = <<>> \/ \E i \in DOMAIN digits : digits[i] \notin Seqs!ToSet(Digits) THEN {}
        ELSE {IF signed /\ text[1] = "-" THEN -number[Len(digits)] ELSE number[Len(digits)]}

\* The segment of the bracket at i and where it ends; {} is an error.  A quoted
\* key ends at the next quote of its kind, escaped or not.
parseBracketSegment(text, i) ==
    LET first == text[i + 1]
        quote == FirstOf(text, i + 2, {first})
        close == FirstOf(text, i + 1, {"]"})
    IN  IF i + 2 > Len(text) THEN {}
        ELSE IF first = "*" THEN {<<AnyIndex, j>> : j \in {i + 3} \cap {close + 1}}
        ELSE IF first \in Quotes
        THEN {<<Field(SubSeq(text, i + 2, quote - 1)), j>> :
                 j \in {k \in {quote + 2} : quote < Len(text) /\ text[quote + 1] = "]"}}
        ELSE {<<Index(n), close + 1>> :
                 n \in IF close > Len(text) THEN {} ELSE Atoi(SubSeq(text, i + 1, close - 1))}

\* The token from i up to a dot or a bracket.
parseToken(text, i) ==
    LET end == FirstOf(text, i, {".", "["})
        token == SubSeq(text, i, end - 1)
    IN  <<IF token = <<"*">> THEN AnyField ELSE Field(token), end>>

\* The segments from i on; rest has those from each later position on.  Dots
\* separate and are otherwise skipped.
parseFrom(text, rest, i) ==
    LET segments == IF text[i] = "[" THEN parseBracketSegment(text, i) ELSE {parseToken(text, i)}
        read == CHOOSE segment \in segments : TRUE
    IN  IF i > Len(text) THEN <<>>
        ELSE IF text[i] = "." THEN rest[i + 1]
        ELSE IF segments = {} \/ rest[read[2]] = Malformed THEN Malformed
        ELSE <<read[1]>> \o rest[read[2]]

Segments(text) ==
    LET parse[i \in 1 .. Len(text) + 1] == parseFrom(text, parse, i) IN parse

ParsePath(text) == IF TrimSpace(text) = <<>> THEN Malformed ELSE Segments(TrimSpace(text))[1]

\* MatchAny on the text of a path.
MatchAnyText(text, patterns) ==
    ParsePath(text) # Malformed /\ matchesAnyPath(ParsePath(text), patterns)

=============================================================================
