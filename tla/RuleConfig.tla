----------------------------- MODULE RuleConfig -----------------------------
(***************************************************************************)
(* ParseConfigMap: how the text of a rule ConfigMap becomes a rule.  The   *)
(* parser of pkg/rules is written for this format alone; it goes by the    *)
(* lines' indentation and accepts a part of YAML.                          *)
(*                                                                         *)
(* A line is its indentation, whether it is indented with a tab, whether a *)
(* dash follows, and the key and value after that: quotes, comments behind *)
(* a value and the spelling of scalars are left out.  The author of the    *)
(* ConfigMap is the environment: he writes one entry after the other, then *)
(* puts in blank lines and comments and gets the indentation of lines      *)
(* wrong.                                                                  *)
(***************************************************************************)
EXTENDS Naturals, Sequences

CONSTANTS
    Words,           \* what keys and scalars are made of
    Entries,         \* what the author may write, see EntryOf
    Margins,         \* how deep he may indent the whole text
    Indents,         \* the indentations a slip may give a line
    MaxEntries,      \* bound: entries in a text
    MaxFlaws         \* bound: blank lines and wrong indentations in it

VARIABLES
    entries,         \* what the author means
    lines,           \* data.spec
    margin,
    blanks,          \* blank lines and comments put in
    slips            \* lines with a wrong indentation

vars == <<entries, lines, margin, blanks, slips>>

NoKey == ""
Comment == "#"
ListKeys == {"namespaces", "exclude", "labels", "include", "mutable", "users"}
Fields == {"apiGroup", "kind"}
Keys == ListKeys \cup {"mode", "bypass", "priority", "selectors"}
Modes == {"enforce", "warn", "dry-run", "off"}

\* A value is nothing, a scalar, or an inline list of scalars.
None == [kind |-> "none", texts |-> {}]
Scalar(text) == [kind |-> "scalar", texts |-> {text}]
Inline(texts) == [kind |-> "list", texts |-> texts]

Line(indent, dash, key, value) ==
    [indent |-> indent, tab |-> FALSE, dash |-> dash, key |-> key, value |-> value]

EmptyLine == Line(0, FALSE, NoKey, None)

Invalid == [valid |-> FALSE]

-----------------------------------------------------------------------------
(* Lines                                                                   *)

\* Nothing is left of the line once its comment is stripped.
Blank(line) == ~line.dash /\ line.key \in {NoKey, Comment} /\ line.value = None

\* Spaces count, a tab ends the count.
countIndent(line) == IF line.tab THEN 0 ELSE line.indent

\* strings.TrimSpace of the whole text also takes the first line's margin.
TrimSpace(text) ==
    [i \in DOMAIN text |->
        IF text[i] # EmptyLine /\ \A j \in 1 .. i - 1 : text[j] = EmptyLine
        THEN [text[i] EXCEPT !.indent = 0, !.tab = FALSE] ELSE text[i]]

\* A line that ends the block before it and must be a top-level key.
TopLevel(line) == ~Blank(line) /\ countIndent(line) = 0

\* Mutant: a blank line ends the block.
GatherToBlank(text, i) ==
    {k \in i + 1 .. Len(text) : \A j \in i + 1 .. k : ~Blank(text[j]) /\ ~TopLevel(text[j])}

\* The lines below line i, up to the next one at the top level.
gatherIndentedBlock(text, i) ==
    {k \in i + 1 .. Len(text) : ~Blank(text[k]) /\ \A j \in i + 1 .. k : ~TopLevel(text[j])}

-----------------------------------------------------------------------------
(* Values                                                                  *)

\* An item is taken as it stands, a colon in it or not.
Item(key, value) == [key |-> key, value |-> value]
Items(texts) == {Item(NoKey, Scalar(text)) : text \in texts}

\* Whether every line is a dash and something behind it.
IsStringList(text, block) ==
    \A i \in block : text[i].dash /\ (text[i].key # NoKey \/ text[i].value # None)

parseStringList(text, block) == {Item(text[i].key, text[i].value) : i \in block}

\* Where items begin: a line deeper than the dash of the item before goes on with
\* it, so that the lines that begin one are those with none less deep before.
ItemStarts(text, block) ==
    {i \in block : \A j \in block : j < i => countIndent(text[i]) <= countIndent(text[j])}

\* A field of the item that begins at line i: the last line of it that names the
\* field, or empty.
SelectorField(text, block, starts, i, field) ==
    LET named == {j \in block : /\ i <= j /\ text[j].key = field
                                /\ \A k \in starts : k <= i \/ j < k}
    IN  IF named = {} THEN None
        ELSE text[CHOOSE j \in named : \A k \in named : k <= j].value

\* Every item begins with a dash and has none after, its fields are apiGroup and
\* kind, and kind is given.
IsSelectorList(text, block, starts) ==
    /\ \A i \in block : (text[i].dash <=> i \in starts) /\ text[i].key \in Fields
    /\ \A i \in starts : SelectorField(text, block, starts, i, "kind") # None

parseSelectorList(text, block, starts) ==
    {[apiGroup |-> SelectorField(text, block, starts, i, "apiGroup"),
      kind     |-> SelectorField(text, block, starts, i, "kind")] : i \in starts}

-----------------------------------------------------------------------------
(* The text                                                                *)

\* strconv.Atoi succeeds.
IsNumber(value) == value \in {Scalar("1"), Scalar("2")}

\* assignInlineValue; selectors are not among its keys.
InlineAccepted(line) ==
    \/ line.key \in {"mode", "bypass"}
    \/ line.key = "priority" /\ IsNumber(line.value)
    \/ line.key \in ListKeys /\ line.value.kind = "list"

\* assignBlockValue; mode, priority and bypass are not among its keys.
BlockAccepted(line, text, block, starts) ==
    \/ line.key \in ListKeys /\ IsStringList(text, block)
    \/ line.key = "selectors" /\ IsSelectorList(text, block, starts)

\* Mutant: what is indented below an inline value is passed over.
AcceptedAlone(text, i, block, starts) ==
    IF text[i].value = None THEN BlockAccepted(text[i], text, block, starts)
    ELSE InlineAccepted(text[i])

\* A key and the block below it.  After an inline value the next line has to be
\* at the top level again.
Accepted(text, i, block, starts) ==
    IF text[i].value = None THEN BlockAccepted(text[i], text, block, starts)
    ELSE InlineAccepted(text[i]) /\ block = {}

\* What it assigns to the key.
Value(text, i, block, starts) ==
    CASE text[i].key = "selectors"      -> parseSelectorList(text, block, starts)
      [] text[i].key \notin ListKeys    -> text[i].value
      [] text[i].value.kind = "list"    -> Items(text[i].value.texts)
      [] OTHER                          -> parseStringList(text, block)

Headers(text) == {i \in DOMAIN text : TopLevel(text[i])}

\* Every line is a top-level one or in the block of one, and they are accepted.
Readable(text) ==
    LET headers == Headers(text)
    IN  /\ \A i \in DOMAIN text : ~Blank(text[i]) =>
               i \in headers \/ \E j \in headers : i \in gatherIndentedBlock(text, j)
        /\ \A i \in headers :
               LET block == gatherIndentedBlock(text, i)
               IN  ~text[i].tab /\ ~text[i].dash /\ Accepted(text, i, block, ItemStarts(text, block))

\* What a key is assigned last, and its zero value otherwise.
Assigned(text, key, zero) ==
    LET at == {i \in Headers(text) : text[i].key = key}
        last == CHOOSE i \in at : \A j \in at : j <= i
        block == gatherIndentedBlock(text, last)
    IN  IF at = {} THEN zero ELSE Value(text, last, block, ItemStarts(text, block))

parseRuleSpec(text) ==
    [mode      |-> Assigned(text, "mode", None),
     priority  |-> Assigned(text, "priority", Scalar("0")),
     lists     |-> [key \in ListKeys |-> Assigned(text, key, {})],
     selectors |-> Assigned(text, "selectors", {}),
     bypass    |-> Assigned(text, "bypass", None)]

DefaultBypass == Scalar("drift-sentinel.k8s.io/bypass")

\* path.Match accepts the pattern.
ValidPattern(item) == item # Item(NoKey, Scalar("["))

\* The checks of ParseConfigMap on what was parsed.  Only namespace patterns are
\* looked at, exclude, include and mutable are not.
Checked(spec) ==
    IF /\ spec.mode \in {Scalar(mode) : mode \in Modes}
       /\ spec.lists["namespaces"] # {}
       /\ spec.selectors # {}
       /\ \A pattern \in spec.lists["namespaces"] : ValidPattern(pattern)
    THEN [valid |-> TRUE,
          rule |-> [spec EXCEPT !.bypass = IF @ = None THEN DefaultBypass ELSE @]]
    ELSE Invalid

ParseConfigMap(text) ==
    LET trimmed == TrimSpace(text)
    IN  IF Readable(trimmed) THEN Checked(parseRuleSpec(trimmed)) ELSE Invalid

-----------------------------------------------------------------------------
(* The author                                                              *)

\* An entry is a key, the lines it is written as, their indentation counted from
\* the key's, and what the author means by it; nothing when it is no entry the
\* format has.
EntryOf(key, text, means) == [key |-> key, text |-> text, means |-> means]

AnyLine ==
    [indent : Nat, tab : BOOLEAN, dash : BOOLEAN, key : Words,
     value : [kind : {"none", "scalar", "list"}, texts : SUBSET Words]]

\* One key with everything else of the entry below it.  A dash or a key of another
\* level tells the lines below from a top-level key, and dashes are as deep as
\* each other and less deep than the rest.
LaidOut(entry) ==
    LET text == entry.text
        below == 2 .. Len(text)
    IN  /\ text \in Seq(AnyLine) /\ text # <<>>
        /\ \A i \in DOMAIN text : ~Blank(text[i]) /\ ~text[i].tab
        /\ text[1].key = entry.key /\ ~text[1].dash /\ text[1].key \notin Fields
        /\ text[1].indent = 0
        /\ \A i \in below : text[i].indent > 0 /\ (text[i].dash \/ text[i].key \notin Keys)
        /\ \A i, j \in below : text[i].dash =>
               IF text[j].dash THEN text[i].indent = text[j].indent
               ELSE text[i].indent < text[j].indent

\* An entry means what its form says: the list of its dashes, or one selector for
\* each dash and the lines up to the next.
MeansAsFormed(entry) ==
    LET text == entry.text
        below == 2 .. Len(text)
        dashes == {i \in below : text[i].dash}
    IN  entry.means = IF Accepted(text, 1, below, dashes) /\ (2 \in below => 2 \in dashes)
                      THEN <<Value(text, 1, below, dashes)>> ELSE <<>>

ASSUME EntriesAssumption ==
    /\ \A entry \in Entries : LaidOut(entry) /\ MeansAsFormed(entry)
    /\ {NoKey, Comment} \subseteq Words
    /\ Margins \subseteq Nat /\ Indents \subseteq Nat

\* What the entries mean together: of two for the same key the later.
Meant(key, zero) ==
    LET at == {i \in DOMAIN entries : entries[i].key = key}
    IN  IF at = {} THEN zero
        ELSE entries[CHOOSE i \in at : \A j \in at : j <= i].means[1]

Meaning ==
    IF \E i \in DOMAIN entries : entries[i].means = <<>> THEN Invalid
    ELSE Checked([mode      |-> Meant("mode", None),
                  priority  |-> Meant("priority", Scalar("0")),
                  lists     |-> [key \in ListKeys |-> Meant(key, {})],
                  selectors |-> Meant("selectors", {}),
                  bypass    |-> Meant("bypass", None)])

Init ==
    /\ entries = <<>> /\ lines = <<>>
    /\ margin \in Margins
    /\ blanks = 0 /\ slips = 0

Indented(text) ==
    [i \in DOMAIN text |-> [text[i] EXCEPT !.indent = @ + margin]]

WriteEntry(entry) ==
    /\ Len(entries) < MaxEntries /\ blanks + slips = 0
    /\ \A i \in DOMAIN entries : entries[i] # entry
    /\ entries' = Append(entries, entry)
    /\ lines' = lines \o Indented(entry.text)
    /\ UNCHANGED <<margin, blanks, slips>>

\* A blank line or a comment goes in behind line i.
WriteBlank(i, key) ==
    /\ blanks + slips < MaxFlaws
    /\ blanks' = blanks + 1
    /\ lines' = SubSeq(lines, 1, i) \o <<Line(0, FALSE, key, None)>>
                    \o SubSeq(lines, i + 1, Len(lines))
    /\ UNCHANGED <<entries, margin, slips>>

Slip(i, indented) ==
    /\ blanks + slips < MaxFlaws
    /\ ~Blank(lines[i])
    /\ lines' = [lines EXCEPT ![i] = indented]
    /\ lines' # lines
    /\ slips' = slips + 1
    /\ UNCHANGED <<entries, margin, blanks>>

Next ==
    \/ \E entry \in Entries : WriteEntry(entry)
    \/ \E i \in 0 .. Len(lines), key \in {NoKey, Comment} : WriteBlank(i, key)
    \/ \E i \in DOMAIN lines, indent \in Indents : Slip(i, [lines[i] EXCEPT !.indent = indent])
    \/ \E i \in DOMAIN lines : Slip(i, [lines[i] EXCEPT !.tab = TRUE])

Spec == Init /\ [][Next]_vars

-----------------------------------------------------------------------------
(* Properties                                                              *)

\* A text without slips and without a margin is read as its author meant it,
\* in whatever order and in whichever of its forms the entries are written.
ReadAsWritten == slips = 0 /\ margin = 0 => ParseConfigMap(lines) = Meaning

\* Wrong indentation is refused or harmless: it never moves a line from one entry
\* to another and yields a rule that nobody wrote.
NeverMisread == ParseConfigMap(lines) \in {Invalid, Meaning}

=============================================================================
