--------------------------- MODULE RuleConfigProofs ---------------------------
(***************************************************************************)
(* Theorems of RuleConfig, for any entries that are laid out as            *)
(* EntriesAssumption says, any margin, and any number of entries, blank    *)
(* lines and wrong indentations.                                           *)
(*                                                                         *)
(* at[e][l] is where line l of entry e stands in the text.  Blank lines    *)
(* move it and wrong indentation does not touch it, so that a text is      *)
(* always the lines of the entries, in their order, up to indentation.     *)
(***************************************************************************)
EXTENDS RuleConfig, NaturalsInduction, WellFoundedInduction, TLAPS

Same(line, source) ==
    line.dash = source.dash /\ line.key = source.key /\ line.value = source.value

\* Line l of entry e stands at at[e][l], and every other line is blank.
Written(ents, text, at) ==
    /\ \A e \in DOMAIN ents : \A l \in DOMAIN ents[e].text :
           at[e][l] \in DOMAIN text /\ Same(text[at[e][l]], ents[e].text[l])
    /\ \A e, f \in DOMAIN ents : \A l \in DOMAIN ents[e].text : \A m \in DOMAIN ents[f].text :
           e < f \/ (e = f /\ l < m) => at[e][l] < at[f][m]
    /\ \A i \in DOMAIN text : ~Blank(text[i]) =>
           \E e \in DOMAIN ents : \E l \in DOMAIN ents[e].text : at[e][l] = i

\* The lines stand where they were written to stand.
Undisturbed(ents, text, at, m) ==
    \A e \in DOMAIN ents : \A l \in DOMAIN ents[e].text :
        text[at[e][l]].indent = ents[e].text[l].indent + m /\ ~text[at[e][l]].tab

\* The inductive invariant.
IInv ==
    /\ entries \in Seq(Entries) /\ lines \in Seq(AnyLine)
    /\ margin \in Nat /\ slips \in Nat /\ blanks \in Nat
    /\ \E at : /\ Written(entries, lines, at)
               /\ slips = 0 => Undisturbed(entries, lines, at, margin)

-----------------------------------------------------------------------------
(* Sequences                                                               *)

LEMMA FunctionIsSeq ==
    ASSUME NEW S, NEW n \in Nat, NEW s \in [1 .. n -> S]
    PROVE  s \in Seq(S) /\ Len(s) = n
  OBVIOUS

LEMMA Concatenated ==
    ASSUME NEW s \in Seq(AnyLine), NEW t \in Seq(AnyLine)
    PROVE  /\ s \o t \in Seq(AnyLine) /\ DOMAIN (s \o t) = 1 .. (Len(s) + Len(t))
           /\ \A i \in 1 .. Len(s) : (s \o t)[i] = s[i]
           /\ \A i \in 1 .. Len(t) : (s \o t)[Len(s) + i] = t[i]
<1>1. s \o t \in Seq(AnyLine) /\ Len(s \o t) = Len(s) + Len(t) /\ Len(s) \in Nat /\ Len(t) \in Nat
  OBVIOUS
<1>2. \A i \in 1 .. (Len(s) + Len(t)) : (s \o t)[i] = IF i <= Len(s) THEN s[i] ELSE t[i - Len(s)]
  OBVIOUS
<1>3. ASSUME NEW i \in 1 .. Len(t) PROVE (s \o t)[Len(s) + i] = t[i]
  <2>1. Len(s) + i \in 1 .. (Len(s) + Len(t)) /\ ~(Len(s) + i <= Len(s)) /\ (Len(s) + i) - Len(s) = i
    BY <1>1
  <2>2. QED
    BY <1>2, <2>1
<1>4. QED
  BY <1>1, <1>2, <1>3

-----------------------------------------------------------------------------
(* The author                                                              *)

LEMMA EntryText ==
    ASSUME NEW entry \in Entries
    PROVE  /\ entry.text \in Seq(AnyLine) /\ Len(entry.text) \in Nat /\ 1 \in DOMAIN entry.text
           /\ \A l \in DOMAIN entry.text : l \in Nat /\ l >= 1 /\ entry.text[l] \in AnyLine
                                             /\ ~Blank(entry.text[l]) /\ ~entry.text[l].tab
  BY EntriesAssumption DEF LaidOut

\* Another indentation leaves the rest of the line.
LEMMA Reindented ==
    ASSUME NEW line \in AnyLine, NEW k \in Nat
    PROVE  LET other == [line EXCEPT !.indent = k]
           IN  /\ other \in AnyLine /\ Same(other, line)
               /\ other.indent = k /\ other.tab = line.tab
  BY DEF AnyLine, Same

\* An entry goes behind the lines there are.
LEMMA AppendWritten ==
    ASSUME NEW ents \in Seq(Entries), NEW text \in Seq(AnyLine), NEW at,
           NEW entry \in Entries, NEW m \in Nat,
           Written(ents, text, at), Undisturbed(ents, text, at, m)
    PROVE  LET new == [l \in DOMAIN entry.text |-> [entry.text[l] EXCEPT !.indent = @ + m]]
           IN  /\ text \o new \in Seq(AnyLine)
               /\ \E there : /\ Written(Append(ents, entry), text \o new, there)
                             /\ Undisturbed(Append(ents, entry), text \o new, there, m)
<1> DEFINE new == [l \in DOMAIN entry.text |-> [entry.text[l] EXCEPT !.indent = @ + m]]
           all == Append(ents, entry)
           n == Len(ents)
           there == [e \in DOMAIN all |-> IF e <= n THEN at[e]
                                          ELSE [l \in DOMAIN entry.text |-> Len(text) + l]]
<1>1. /\ DOMAIN entry.text = 1 .. Len(entry.text) /\ Len(entry.text) \in Nat
      /\ \A l \in DOMAIN entry.text : entry.text[l] \in AnyLine /\ ~Blank(entry.text[l]) /\ ~entry.text[l].tab
  BY EntryText
<1>2. \A l \in DOMAIN entry.text :
          /\ new[l] \in AnyLine /\ Same(new[l], entry.text[l])
          /\ new[l].indent = entry.text[l].indent + m /\ ~new[l].tab
  <2>1. SUFFICES ASSUME NEW l \in DOMAIN entry.text
                 PROVE  LET line == [entry.text[l] EXCEPT !.indent = entry.text[l].indent + m]
                        IN  /\ line \in AnyLine /\ Same(line, entry.text[l])
                            /\ line.indent = entry.text[l].indent + m /\ ~line.tab
    OBVIOUS
  <2>2. entry.text[l].indent + m \in Nat
    BY <1>1 DEF AnyLine
  <2>3. QED
    BY <1>1, <2>2, Reindented
<1>3. DOMAIN new = DOMAIN entry.text
  OBVIOUS
<1> HIDE DEF new
<1>14. new \in [1 .. Len(entry.text) -> AnyLine]
  <2>1. new = [l \in DOMAIN entry.text |-> new[l]]
    BY DEF new
  <2>2. QED
    BY <1>1, <1>2, <2>1
<1>15. new \in Seq(AnyLine) /\ Len(new) = Len(entry.text)
  BY <1>1, <1>14, FunctionIsSeq
<1>4. /\ text \o new \in Seq(AnyLine)
      /\ Len(text) \in Nat /\ DOMAIN text = 1 .. Len(text)
      /\ DOMAIN (text \o new) = 1 .. (Len(text) + Len(entry.text))
      /\ \A i \in DOMAIN text : (text \o new)[i] = text[i]
      /\ \A l \in DOMAIN entry.text : (text \o new)[Len(text) + l] = new[l]
  <2>1. Len(text) \in Nat /\ DOMAIN text = 1 .. Len(text)
    OBVIOUS
  <2>2. /\ text \o new \in Seq(AnyLine) /\ DOMAIN (text \o new) = 1 .. (Len(text) + Len(new))
        /\ \A i \in 1 .. Len(text) : (text \o new)[i] = text[i]
        /\ \A i \in 1 .. Len(new) : (text \o new)[Len(text) + i] = new[i]
    BY <1>15, Concatenated, Zenon
  <2>3. QED
    BY <1>1, <1>15, <2>1, <2>2, Zenon
<1>5. /\ n \in Nat /\ DOMAIN ents = 1 .. n /\ DOMAIN all = 1 .. (n + 1)
      /\ \A e \in DOMAIN ents : all[e] = ents[e]
      /\ all[n + 1] = entry
  OBVIOUS
<1>6. /\ \A e \in DOMAIN ents : there[e] = at[e]
      /\ \A l \in DOMAIN entry.text : there[n + 1][l] = Len(text) + l
  BY <1>5
<1> DEFINE longer == text \o new
<1> HIDE DEF all, there, n, longer
<1>7. ASSUME NEW e \in DOMAIN all, NEW l \in DOMAIN all[e].text
      PROVE  \/ e \in DOMAIN ents /\ l \in DOMAIN ents[e].text /\ there[e][l] = at[e][l]
                /\ there[e][l] \in DOMAIN text /\ longer[there[e][l]] = text[at[e][l]]
                /\ all[e] = ents[e]
             \/ e = n + 1 /\ l \in DOMAIN entry.text /\ there[e][l] = Len(text) + l
                /\ longer[there[e][l]] = new[l] /\ all[e] = entry
  <2>1. CASE e \in DOMAIN ents
    BY <1>4, <1>5, <1>6, <2>1 DEF Written, longer
  <2>2. CASE e = n + 1
    BY <1>4, <1>5, <1>6, <2>2 DEF longer
  <2>3. QED
    BY <1>5, <2>1, <2>2
<1>8. Undisturbed(all, longer, there, m)
  BY <1>2, <1>7 DEF Undisturbed
<1>9. ASSUME NEW e \in DOMAIN all, NEW l \in DOMAIN all[e].text
      PROVE  there[e][l] \in DOMAIN longer /\ Same(longer[there[e][l]], all[e].text[l])
  <2>1. CASE e \in DOMAIN ents /\ l \in DOMAIN ents[e].text /\ there[e][l] = at[e][l]
             /\ there[e][l] \in DOMAIN text /\ longer[there[e][l]] = text[at[e][l]]
             /\ all[e] = ents[e]
    <3>1. Same(text[at[e][l]], ents[e].text[l])
      BY <2>1 DEF Written
    <3>2. there[e][l] \in DOMAIN longer
      BY <1>1, <1>4, <2>1 DEF longer
    <3>3. QED
      BY <2>1, <3>1, <3>2
  <2>2. CASE e = n + 1 /\ l \in DOMAIN entry.text /\ there[e][l] = Len(text) + l
             /\ longer[there[e][l]] = new[l] /\ all[e] = entry
    BY <1>1, <1>2, <1>4, <2>2 DEF longer
  <2>3. QED
    BY <1>7, <2>1, <2>2
<1>10. ASSUME NEW e \in DOMAIN all, NEW f \in DOMAIN all,
              NEW l \in DOMAIN all[e].text, NEW k \in DOMAIN all[f].text,
              e < f \/ (e = f /\ l < k)
       PROVE  there[e][l] < there[f][k]
  <2>1. /\ \A i \in DOMAIN longer : i \in Nat
        /\ \A i \in DOMAIN text : i \in Nat /\ i <= Len(text)
        /\ \A i \in DOMAIN entry.text : i \in Nat /\ 1 <= i
        /\ \A i \in DOMAIN ents : i \in Nat /\ i < n + 1
    BY <1>1, <1>4, <1>5 DEF longer
  <2>2. CASE e \in DOMAIN ents /\ f \in DOMAIN ents
    BY <1>5, <1>7, <1>10, <2>1, <2>2 DEF Written
  <2>3. CASE e \in DOMAIN ents /\ f \notin DOMAIN ents
    BY <1>4, <1>7, <2>1, <2>3
  <2>4. CASE e \notin DOMAIN ents /\ f \in DOMAIN ents
    BY <1>5, <1>10, <2>1, <2>4
  <2>5. CASE e \notin DOMAIN ents /\ f \notin DOMAIN ents
    BY <1>4, <1>5, <1>7, <1>10, <2>1, <2>5
  <2>6. QED
    BY <2>2, <2>3, <2>4, <2>5
<1>11. ASSUME NEW i \in DOMAIN longer, ~Blank(longer[i])
       PROVE  \E e \in DOMAIN all : \E l \in DOMAIN all[e].text : there[e][l] = i
  <2>1. CASE i \in DOMAIN text
    <3>1. PICK e \in DOMAIN ents : \E l \in DOMAIN ents[e].text : at[e][l] = i
      BY <1>4, <1>11, <2>1 DEF Written, longer
    <3>2. QED
      BY <1>5, <1>6, <3>1
  <2>2. CASE i \notin DOMAIN text
    <3>1. i - Len(text) \in DOMAIN entry.text /\ n + 1 \in DOMAIN all
      BY <1>1, <1>4, <1>5, <2>2 DEF longer
    <3>2. there[n + 1][i - Len(text)] = i
      BY <1>1, <1>4, <1>6, <3>1 DEF longer
    <3>3. QED
      BY <1>5, <3>1, <3>2
  <2>3. QED
    BY <2>1, <2>2
<1>12. Written(all, longer, there)
  BY <1>9, <1>10, <1>11 DEF Written
<1>13. QED
  BY <1>4, <1>8, <1>12 DEF all, longer, new

\* A blank line moves the lines behind it and none else.
LEMMA Inserted ==
    ASSUME NEW text \in Seq(AnyLine), NEW i \in 0 .. Len(text), NEW line \in AnyLine
    PROVE  LET longer == SubSeq(text, 1, i) \o <<line>> \o SubSeq(text, i + 1, Len(text))
           IN  /\ longer \in Seq(AnyLine) /\ DOMAIN longer = 1 .. (Len(text) + 1)
               /\ \A j \in 1 .. i : longer[j] = text[j]
               /\ longer[i + 1] = line
               /\ \A j \in (i + 1) .. Len(text) : longer[j + 1] = text[j]
<1> DEFINE n == Len(text)
           front == SubSeq(text, 1, i)
           rest == SubSeq(text, i + 1, n)
           begun == front \o <<line>>
<1>1. n \in Nat /\ i \in Nat /\ i <= n
  OBVIOUS
<1>2. /\ front \in Seq(AnyLine) /\ Len(front) = i
      /\ \A j \in 1 .. i : front[j] = text[j]
  BY <1>1
<1>3. /\ rest \in Seq(AnyLine) /\ Len(rest) = n - i
      /\ \A j \in 1 .. (n - i) : rest[j] = text[i + j]
  BY <1>1
<1>4. <<line>> \in Seq(AnyLine) /\ Len(<<line>>) = 1 /\ <<line>>[1] = line
  OBVIOUS
<1> HIDE DEF front, rest, n
<1>5. /\ begun \in Seq(AnyLine) /\ DOMAIN begun = 1 .. (i + 1)
      /\ \A j \in 1 .. i : begun[j] = text[j]
      /\ begun[i + 1] = line
  <2>1. /\ begun \in Seq(AnyLine) /\ DOMAIN begun = 1 .. (Len(front) + Len(<<line>>))
        /\ \A j \in 1 .. Len(front) : begun[j] = front[j]
        /\ \A j \in 1 .. Len(<<line>>) : begun[Len(front) + j] = <<line>>[j]
    BY <1>2, <1>4, Concatenated, Zenon
  <2> HIDE DEF begun
  <2>2. 1 \in 1 .. 1
    OBVIOUS
  <2>3. begun[i + 1] = line
    BY <1>2, <1>4, <2>1, <2>2, Zenon
  <2>4. QED
    BY <1>2, <1>4, <2>1, <2>3
<1> HIDE DEF begun
<1>6. Len(begun) = i + 1
  BY <1>1, <1>5
<1>7. /\ begun \o rest \in Seq(AnyLine) /\ DOMAIN (begun \o rest) = 1 .. (i + 1 + (n - i))
      /\ \A j \in 1 .. (i + 1) : (begun \o rest)[j] = begun[j]
      /\ \A j \in 1 .. (n - i) : (begun \o rest)[i + 1 + j] = rest[j]
  <2>1. /\ begun \o rest \in Seq(AnyLine) /\ DOMAIN (begun \o rest) = 1 .. (Len(begun) + Len(rest))
        /\ \A j \in 1 .. Len(begun) : (begun \o rest)[j] = begun[j]
        /\ \A j \in 1 .. Len(rest) : (begun \o rest)[Len(begun) + j] = rest[j]
    BY <1>3, <1>5, Concatenated, Zenon
  <2>2. QED
    BY <1>3, <1>6, <2>1, Zenon
<1> DEFINE longer == begun \o rest
<1> HIDE DEF longer
<1>8. ASSUME NEW j \in (i + 1) .. n
      PROVE  longer[j + 1] = text[j]
  <2>1. j - i \in 1 .. (n - i) /\ i + 1 + (j - i) = j + 1 /\ i + (j - i) = j
    BY <1>1
  <2>2. longer[i + 1 + (j - i)] = rest[j - i] /\ rest[j - i] = text[i + (j - i)]
    BY <1>3, <1>7, <2>1 DEF longer
  <2>3. QED
    BY <2>1, <2>2
<1>9. DOMAIN longer = 1 .. (n + 1)
  BY <1>1, <1>7 DEF longer
<1>10. \A j \in 1 .. i : j \in 1 .. (i + 1)
  BY <1>1
<1>11. i + 1 \in 1 .. (i + 1)
  BY <1>1
<1>12. /\ longer \in Seq(AnyLine) /\ \A j \in 1 .. i : longer[j] = text[j]
       /\ longer[i + 1] = line
  BY <1>5, <1>7, <1>10, <1>11 DEF longer
<1>13. QED
  BY <1>8, <1>9, <1>12 DEF longer, begun, front, rest, n

LEMMA InsertedWritten ==
    ASSUME NEW ents \in Seq(Entries), NEW text \in Seq(AnyLine), NEW at, NEW m \in Nat,
           NEW i \in 0 .. Len(text), NEW line \in AnyLine, Blank(line),
           Written(ents, text, at)
    PROVE  LET longer == SubSeq(text, 1, i) \o <<line>> \o SubSeq(text, i + 1, Len(text))
           IN  /\ longer \in Seq(AnyLine)
               /\ \E there : /\ Written(ents, longer, there)
                             /\ Undisturbed(ents, text, at, m) => Undisturbed(ents, longer, there, m)
<1> DEFINE longer == SubSeq(text, 1, i) \o <<line>> \o SubSeq(text, i + 1, Len(text))
           n == Len(text)
           moved(k) == IF k <= i THEN k ELSE k + 1
           there == [e \in DOMAIN ents |-> [l \in DOMAIN ents[e].text |-> moved(at[e][l])]]
<1>1. /\ longer \in Seq(AnyLine) /\ DOMAIN longer = 1 .. (n + 1)
      /\ \A j \in 1 .. i : longer[j] = text[j]
      /\ longer[i + 1] = line
      /\ \A j \in (i + 1) .. n : longer[j + 1] = text[j]
  BY Inserted, Zenon
<1>2. n \in Nat /\ i \in Nat /\ i <= n /\ DOMAIN text = 1 .. n
  OBVIOUS
<1> HIDE DEF longer, n
<1>3. ASSUME NEW k \in DOMAIN text
      PROVE  /\ moved(k) \in DOMAIN longer /\ longer[moved(k)] = text[k]
             /\ \A j \in DOMAIN text : k < j => moved(k) < moved(j)
  BY <1>1, <1>2
<1>4. ASSUME NEW k \in DOMAIN longer, k # i + 1
      PROVE  \E j \in DOMAIN text : moved(j) = k
  <2>1. CASE k <= i
    BY <1>1, <1>2, <2>1
  <2>2. CASE i + 1 < k
    <3>1. k - 1 \in DOMAIN text /\ moved(k - 1) = k
      BY <1>1, <1>2, <2>2
    <3>2. QED
      BY <3>1
  <2>3. QED
    BY <1>1, <1>2, <1>4, <2>1, <2>2
<1>5. \A e \in DOMAIN ents : \A l \in DOMAIN ents[e].text : there[e][l] = moved(at[e][l])
  OBVIOUS
<1> HIDE DEF there, moved
<1>6. ASSUME NEW e \in DOMAIN ents, NEW l \in DOMAIN ents[e].text
      PROVE  /\ there[e][l] = moved(at[e][l]) /\ at[e][l] \in DOMAIN text
             /\ there[e][l] \in DOMAIN longer /\ longer[there[e][l]] = text[at[e][l]]
             /\ Same(text[at[e][l]], ents[e].text[l])
  BY <1>3, <1>5 DEF Written
<1>7. Undisturbed(ents, text, at, m) => Undisturbed(ents, longer, there, m)
  BY <1>6 DEF Undisturbed
<1>8. ASSUME NEW e \in DOMAIN ents, NEW f \in DOMAIN ents,
             NEW l \in DOMAIN ents[e].text, NEW k \in DOMAIN ents[f].text,
             e < f \/ (e = f /\ l < k)
      PROVE  there[e][l] < there[f][k]
  <2>1. at[e][l] < at[f][k]
    BY <1>8 DEF Written
  <2>2. QED
    BY <1>3, <1>6, <2>1
<1>9. ASSUME NEW k \in DOMAIN longer, ~Blank(longer[k])
      PROVE  \E e \in DOMAIN ents : \E l \in DOMAIN ents[e].text : there[e][l] = k
  <2>1. PICK j \in DOMAIN text : moved(j) = k
    BY <1>1, <1>4, <1>9
  <2>2. ~Blank(text[j])
    BY <1>3, <1>9, <2>1
  <2>3. PICK e \in DOMAIN ents : \E l \in DOMAIN ents[e].text : at[e][l] = j
    BY <2>2 DEF Written
  <2>4. QED
    BY <1>6, <2>1, <2>3
<1>10. Written(ents, longer, there)
  BY <1>6, <1>8, <1>9 DEF Written
<1>11. QED
  BY <1>1, <1>7, <1>10 DEF longer

\* A line that keeps all but its indentation stays what it is.
LEMMA ReplacedWritten ==
    ASSUME NEW ents \in Seq(Entries), NEW text \in Seq(AnyLine), NEW at,
           NEW other \in Seq(AnyLine), DOMAIN other = DOMAIN text,
           \A i \in DOMAIN text : Same(other[i], text[i]),
           Written(ents, text, at)
    PROVE  Written(ents, other, at)
<1>1. \A i \in DOMAIN text : Blank(other[i]) <=> Blank(text[i])
  BY DEF Same, Blank
<1>2. \A e \in DOMAIN ents : \A l \in DOMAIN ents[e].text :
          at[e][l] \in DOMAIN other /\ Same(other[at[e][l]], ents[e].text[l])
  BY DEF Written, Same
<1>3. \A i \in DOMAIN other : ~Blank(other[i]) =>
          \E e \in DOMAIN ents : \E l \in DOMAIN ents[e].text : at[e][l] = i
  BY <1>1 DEF Written
<1>4. QED
  BY <1>2, <1>3 DEF Written

LEMMA InitWritten == Init => IInv
<1> SUFFICES ASSUME Init PROVE IInv
  OBVIOUS
<1>1. entries = <<>> /\ lines = <<>> /\ margin \in Nat /\ blanks = 0 /\ slips = 0
  BY EntriesAssumption DEF Init
<1>2. Written(<<>>, <<>>, <<>>) /\ Undisturbed(<<>>, <<>>, <<>>, margin)
  BY DEF Written, Undisturbed
<1>3. entries \in Seq(Entries) /\ lines \in Seq(AnyLine)
  BY <1>1
<1>4. QED
  BY <1>1, <1>2, <1>3 DEF IInv

LEMMA WriteEntryWritten ==
    ASSUME IInv, NEW entry \in Entries, WriteEntry(entry)
    PROVE  IInv'
<1>1. PICK at : /\ Written(entries, lines, at)
                /\ slips = 0 => Undisturbed(entries, lines, at, margin)
  BY DEF IInv
<1>2. /\ slips = 0 /\ entries' = Append(entries, entry) /\ lines' = lines \o Indented(entry.text)
      /\ margin' = margin /\ slips' = slips /\ blanks' = blanks
  BY DEF WriteEntry, IInv
<1>3. entries \in Seq(Entries) /\ lines \in Seq(AnyLine) /\ margin \in Nat /\ slips \in Nat /\ blanks \in Nat
  BY DEF IInv
<1>4. /\ lines \o Indented(entry.text) \in Seq(AnyLine)
      /\ \E there : /\ Written(Append(entries, entry), lines \o Indented(entry.text), there)
                    /\ Undisturbed(Append(entries, entry), lines \o Indented(entry.text), there, margin)
  <2>1. Undisturbed(entries, lines, at, margin)
    BY <1>1, <1>2
  <2>2. QED
    BY <1>1, <1>3, <2>1, AppendWritten, Zenon DEF Indented
<1>5. PICK there : /\ Written(entries', lines', there)
                   /\ Undisturbed(entries', lines', there, margin')
  BY <1>2, <1>4
<1>6. entries' \in Seq(Entries)
  BY <1>2, <1>3
<1>7. QED
  BY <1>2, <1>3, <1>4, <1>5, <1>6 DEF IInv

LEMMA WriteBlankWritten ==
    ASSUME IInv, NEW i \in 0 .. Len(lines), NEW key \in {NoKey, Comment}, WriteBlank(i, key)
    PROVE  IInv'
<1> DEFINE line == Line(0, FALSE, key, None)
           longer == SubSeq(lines, 1, i) \o <<line>> \o SubSeq(lines, i + 1, Len(lines))
<1>1. PICK at : /\ Written(entries, lines, at)
                /\ slips = 0 => Undisturbed(entries, lines, at, margin)
  BY DEF IInv
<1>2. /\ lines' = longer /\ entries' = entries /\ margin' = margin /\ slips' = slips
      /\ blanks' = blanks + 1
  BY DEF WriteBlank
<1>3. entries \in Seq(Entries) /\ lines \in Seq(AnyLine) /\ margin \in Nat /\ slips \in Nat /\ blanks \in Nat
  BY DEF IInv
<1>4. line \in AnyLine /\ Blank(line)
  <2>1. None \in [kind : {"none", "scalar", "list"}, texts : SUBSET Words] /\ key \in Words
    BY EntriesAssumption DEF None
  <2>2. line \in AnyLine
    BY <2>1 DEF Line, AnyLine
  <2>3. QED
    BY <2>2 DEF Line, Blank
<1> HIDE DEF line
<1>5. /\ longer \in Seq(AnyLine)
      /\ \E there : /\ Written(entries, longer, there)
                    /\ Undisturbed(entries, lines, at, margin)
                           => Undisturbed(entries, longer, there, margin)
  BY <1>1, <1>3, <1>4, InsertedWritten, Zenon
<1> HIDE DEF longer
<1>6. \E there : /\ Written(entries', lines', there)
                 /\ slips' = 0 => Undisturbed(entries', lines', there, margin')
  BY <1>1, <1>2, <1>5
<1>7. blanks' \in Nat
  BY <1>2, <1>3
<1>8. QED
  BY <1>2, <1>3, <1>5, <1>6, <1>7 DEF IInv

LEMMA SlipWritten ==
    ASSUME IInv, NEW i \in DOMAIN lines, NEW line \in AnyLine, Same(line, lines[i]), Slip(i, line)
    PROVE  IInv'
<1>1. PICK at : Written(entries, lines, at)
  BY DEF IInv
<1>2. /\ lines' = [lines EXCEPT ![i] = line] /\ entries' = entries /\ margin' = margin
      /\ slips' = slips + 1 /\ blanks' = blanks
  BY DEF Slip
<1>3. entries \in Seq(Entries) /\ lines \in Seq(AnyLine) /\ margin \in Nat /\ slips \in Nat /\ blanks \in Nat
  BY DEF IInv
<1>4. lines' \in Seq(AnyLine) /\ DOMAIN lines' = DOMAIN lines
  BY <1>2, <1>3
<1>5. \A j \in DOMAIN lines : Same(lines'[j], lines[j])
  BY <1>2, <1>3 DEF Same
<1>6. Written(entries', lines', at)
  BY <1>1, <1>2, <1>3, <1>4, <1>5, ReplacedWritten
<1>7. slips' # 0 /\ slips' \in Nat
  BY <1>2, <1>3
<1>8. QED
  BY <1>2, <1>3, <1>4, <1>6, <1>7 DEF IInv

\* A text is the lines of its entries in their order, up to blank lines and
\* indentation, and as long as nothing slipped at the depth they were written.
THEOREM TextIsItsEntries == Spec => []IInv
<1>1. ASSUME IInv, [Next]_vars
      PROVE  IInv'
  <2>1. ASSUME NEW entry \in Entries, WriteEntry(entry) PROVE IInv'
    BY <1>1, <2>1, WriteEntryWritten
  <2>2. ASSUME NEW i \in 0 .. Len(lines), NEW key \in {NoKey, Comment}, WriteBlank(i, key)
        PROVE  IInv'
    BY <1>1, <2>2, WriteBlankWritten
  <2>3. ASSUME NEW i \in DOMAIN lines, NEW indent \in Indents,
               Slip(i, [lines[i] EXCEPT !.indent = indent])
        PROVE  IInv'
    <3>1. lines[i] \in AnyLine /\ indent \in Nat
      BY <1>1, EntriesAssumption DEF IInv
    <3>2. /\ [lines[i] EXCEPT !.indent = indent] \in AnyLine
          /\ Same([lines[i] EXCEPT !.indent = indent], lines[i])
      BY <3>1 DEF AnyLine, Same
    <3>3. QED
      BY <1>1, <2>3, <3>2, SlipWritten
  <2>4. ASSUME NEW i \in DOMAIN lines, Slip(i, [lines[i] EXCEPT !.tab = TRUE])
        PROVE  IInv'
    <3>1. lines[i] \in AnyLine
      BY <1>1 DEF IInv
    <3>2. /\ [lines[i] EXCEPT !.tab = TRUE] \in AnyLine
          /\ Same([lines[i] EXCEPT !.tab = TRUE], lines[i])
      BY <3>1 DEF AnyLine, Same
    <3>3. QED
      BY <1>1, <2>4, <3>2, SlipWritten
  <2>5. CASE UNCHANGED vars
    BY <1>1, <2>5 DEF IInv, vars
  <2>6. QED
    BY <1>1, <2>1, <2>2, <2>3, <2>4, <2>5 DEF Next
<1>2. QED
  BY <1>1, InitWritten, PTL DEF Spec

-----------------------------------------------------------------------------
(* The last of some lines                                                  *)

LEMMA LastExists ==
    \A n \in Nat : \A S \in SUBSET (1 .. n) :
        S # {} => \E m \in S : \A k \in S : k <= m
<1> SUFFICES ASSUME NEW n \in Nat, NEW S \in SUBSET (1 .. n), S # {}
             PROVE  \E m \in S : \A k \in S : k <= m
  OBVIOUS
<1> DEFINE bounds == {b \in Nat : \A k \in S : k <= b}
           R == OpToRel(<, Nat)
<1>1. bounds \subseteq Nat /\ n \in bounds
  OBVIOUS
<1>2. IsWellFoundedOn(R, Nat)
  BY NatLessThanWellFounded
<1>3. \A j, k \in Nat : j < k => <<j, k>> \in R
  BY DEF OpToRel
<1> HIDE DEF R, bounds
<1>4. PICK m \in bounds : \A j \in bounds : ~(<<j, m>> \in R)
  BY <1>1, <1>2, WFMin
<1>5. m \in Nat /\ \A k \in S : k <= m
  BY <1>4 DEF bounds
<1>6. m \in S
  <2>1. SUFFICES ASSUME m \notin S PROVE FALSE
    OBVIOUS
  <2>2. \A k \in S : k \in Nat /\ k <= m - 1 /\ 1 <= k
    BY <1>5, <2>1
  <2>3. m - 1 \in Nat /\ m - 1 < m
    <3>1. PICK k \in S : TRUE
      OBVIOUS
    <3>2. k \in Nat /\ k <= m - 1 /\ 1 <= k
      BY <2>2, <3>1
    <3>3. QED
      BY <1>5, <3>2
  <2>4. m - 1 \in bounds
    BY <2>2, <2>3 DEF bounds
  <2>5. QED
    BY <1>1, <1>3, <1>4, <2>3, <2>4
<1>7. QED
  BY <1>5, <1>6

LEMMA LastIs ==
    \A S \in SUBSET Nat : \A m \in S :
        (\A k \in S : k <= m) => (CHOOSE j \in S : \A k \in S : k <= j) = m
<1> SUFFICES ASSUME NEW S \in SUBSET Nat, NEW m \in S, \A k \in S : k <= m
             PROVE  (CHOOSE j \in S : \A k \in S : k <= j) = m
  OBVIOUS
<1> DEFINE last == CHOOSE j \in S : \A k \in S : k <= j
<1>1. last \in S /\ \A k \in S : k <= last
  OBVIOUS
<1>2. last <= m /\ m <= last /\ last \in Nat /\ m \in Nat
  BY <1>1
<1>3. QED
  BY <1>2

-----------------------------------------------------------------------------
(* The lines of one entry                                                  *)

\* f takes the lines of source, in their order, to lines of text that are the
\* same.
Carries(f, source, text) ==
    /\ source \in Seq(AnyLine) /\ source # <<>> /\ text \in Seq(AnyLine)
    /\ \A l \in DOMAIN source : f[l] \in DOMAIN text /\ Same(text[f[l]], source[l])
    /\ \A l, m \in DOMAIN source : l < m => f[l] < f[m]

Below(source) == 2 .. Len(source)
Onto(f, S) == {f[l] : l \in S}
Dashes(text, block) == {i \in block : text[i].dash}

LEMMA CarriedOrder ==
    ASSUME NEW f, NEW source, NEW text, Carries(f, source, text)
    PROVE  /\ DOMAIN source = 1 .. Len(source) /\ Len(source) \in Nat
           /\ \A l \in DOMAIN source : l \in Nat /\ f[l] \in Nat /\ 1 <= f[l] /\ 1 <= l
           /\ \A l, m \in DOMAIN source : /\ (f[l] < f[m]) <=> l < m
                                          /\ (f[l] <= f[m]) <=> l <= m
                                          /\ (f[l] = f[m]) <=> l = m
           /\ Below(source) \subseteq DOMAIN source /\ 1 \in DOMAIN source
<1>1. DOMAIN source = 1 .. Len(source) /\ Len(source) \in Nat /\ source # <<>>
  BY DEF Carries
<1>2. Below(source) \subseteq DOMAIN source /\ 1 \in DOMAIN source
  BY <1>1 DEF Below, Carries
<1>3. \A l \in DOMAIN source : l \in Nat /\ f[l] \in Nat /\ 1 <= f[l] /\ 1 <= l
  BY <1>1 DEF Carries
<1>4. ASSUME NEW l \in DOMAIN source, NEW m \in DOMAIN source
      PROVE  /\ (f[l] < f[m]) <=> l < m
             /\ (f[l] <= f[m]) <=> l <= m
             /\ (f[l] = f[m]) <=> l = m
  <2>1. l < m \/ l = m \/ m < l
    BY <1>3
  <2>2. /\ l < m => f[l] < f[m]
        /\ m < l => f[m] < f[l]
    BY DEF Carries
  <2>3. QED
    BY <1>3, <2>1, <2>2
<1>5. QED
  BY <1>1, <1>2, <1>3, <1>4

LEMMA CarriedDashes ==
    ASSUME NEW f, NEW source, NEW text, Carries(f, source, text)
    PROVE  Dashes(text, Onto(f, Below(source))) = Onto(f, Dashes(source, Below(source)))
<1>1. \A l \in Below(source) : text[f[l]].dash = source[l].dash
  <2>1. Below(source) \subseteq DOMAIN source
    BY CarriedOrder
  <2>2. QED
    BY <2>1 DEF Carries, Same
<1>2. QED
  BY <1>1 DEF Dashes, Onto

LEMMA CarriedField ==
    ASSUME NEW f, NEW source, NEW text, Carries(f, source, text),
           NEW i \in Below(source), NEW field
    PROVE  SelectorField(text, Onto(f, Below(source)), Onto(f, Dashes(source, Below(source))), f[i], field)
           = SelectorField(source, Below(source), Dashes(source, Below(source)), i, field)
<1> DEFINE below == Below(source)
           dashes == Dashes(source, below)
           named == {j \in below : /\ i <= j /\ source[j].key = field
                                   /\ \A k \in dashes : k <= i \/ j < k}
           carried == {j \in Onto(f, below) : /\ f[i] <= j /\ text[j].key = field
                                              /\ \A k \in Onto(f, dashes) : k <= f[i] \/ j < k}
<1>1. dashes \subseteq below /\ below \subseteq DOMAIN source
  BY CarriedOrder DEF Dashes
<1>2. \A l \in below : text[f[l]].key = source[l].key /\ text[f[l]].value = source[l].value
  BY <1>1 DEF Carries, Same
<1>3. /\ DOMAIN source = 1 .. Len(source) /\ Len(source) \in Nat
      /\ \A l \in DOMAIN source : l \in Nat /\ f[l] \in Nat
      /\ \A l, m \in DOMAIN source : ((f[l] < f[m]) <=> l < m) /\ ((f[l] <= f[m]) <=> l <= m)
  BY CarriedOrder
<1> HIDE DEF below, dashes
<1>4. i \in below
  BY DEF below
<1>5. carried = Onto(f, named)
  <2>1. ASSUME NEW j \in below
        PROVE  f[j] \in carried <=> j \in named
    <3>1. (\A k \in Onto(f, dashes) : k <= f[i] \/ f[j] < k)
              <=> \A k \in dashes : f[k] <= f[i] \/ f[j] < f[k]
      BY DEF Onto
    <3>2. (\A k \in dashes : f[k] <= f[i] \/ f[j] < f[k]) <=> \A k \in dashes : k <= i \/ j < k
      BY <1>1, <1>3, <1>4
    <3>3. f[j] \in Onto(f, below) /\ ((f[i] <= f[j]) <=> i <= j) /\ text[f[j]].key = source[j].key
      BY <1>1, <1>2, <1>3, <1>4 DEF Onto
    <3>4. QED
      BY <3>1, <3>2, <3>3
  <2> HIDE DEF carried
  <2>2. carried \subseteq Onto(f, below)
    BY DEF carried
  <2>3. named \subseteq below
    OBVIOUS
  <2> HIDE DEF named
  <2>4. QED
    BY <2>1, <2>2, <2>3 DEF Onto
<1>6. named \subseteq below
  OBVIOUS
<1> HIDE DEF named, carried
<1>7. CASE named = {}
  BY <1>5, <1>7 DEF SelectorField, Onto, named, carried, below, dashes
<1>8. CASE named # {}
  <2>1. PICK m \in named : \A k \in named : k <= m
    <3>1. named \in SUBSET (1 .. Len(source)) /\ Len(source) \in Nat
      BY <1>1, <1>3, <1>6
    <3>2. QED
      BY <1>8, <3>1, LastExists
  <2>2. f[m] \in carried /\ \A k \in carried : k <= f[m]
    BY <1>1, <1>3, <1>5, <1>6, <2>1 DEF Onto
  <2>3. named \in SUBSET Nat /\ carried \in SUBSET Nat
    BY <1>1, <1>3, <1>5, <1>6 DEF Onto
  <2>4. (CHOOSE j \in named : \A k \in named : k <= j) = m
    BY <2>1, <2>3, LastIs, Zenon
  <2>5. (CHOOSE j \in carried : \A k \in carried : k <= j) = f[m]
    BY <2>2, <2>3, LastIs, Zenon
  <2>6. text[f[m]].value = source[m].value
    BY <1>2, <1>6, <2>1
  <2>7. carried # {}
    BY <2>2
  <2>8. SelectorField(source, below, dashes, i, field) = source[m].value
    BY <1>8, <2>4 DEF SelectorField, named
  <2>9. SelectorField(text, Onto(f, below), Onto(f, dashes), f[i], field) = text[f[m]].value
    BY <2>5, <2>7 DEF SelectorField, carried
  <2>10. QED
    BY <2>6, <2>8, <2>9 DEF below, dashes
<1>9. QED
  BY <1>7, <1>8

\* The lists and selectors below a key depend on the lines alone, not on where
\* they stand.
LEMMA CarriedLists ==
    ASSUME NEW f, NEW source, NEW text, Carries(f, source, text)
    PROVE  LET below == Below(source)
               dashes == Dashes(source, below)
               block == Onto(f, below)
               starts == Onto(f, dashes)
           IN  /\ IsStringList(text, block) <=> IsStringList(source, below)
               /\ parseStringList(text, block) = parseStringList(source, below)
               /\ IsSelectorList(text, block, starts) <=> IsSelectorList(source, below, dashes)
               /\ parseSelectorList(text, block, starts) = parseSelectorList(source, below, dashes)
<1> DEFINE below == Below(source)
           dashes == Dashes(source, below)
           block == Onto(f, below)
           starts == Onto(f, dashes)
<1>1. dashes \subseteq below /\ below \subseteq DOMAIN source
  BY CarriedOrder DEF Dashes
<1>2. \A l \in below : /\ text[f[l]].dash = source[l].dash
                       /\ text[f[l]].key = source[l].key
                       /\ text[f[l]].value = source[l].value
  BY <1>1 DEF Carries, Same
<1>3. \A l, m \in below : f[l] = f[m] => l = m
  BY <1>1, CarriedOrder
<1>4. ASSUME NEW l \in dashes, NEW field
      PROVE  SelectorField(text, block, starts, f[l], field)
             = SelectorField(source, below, dashes, l, field)
  BY <1>1, CarriedField
<1> HIDE DEF below, dashes
<1>5. IsStringList(text, block) <=> IsStringList(source, below)
  BY <1>2 DEF IsStringList, Onto
<1>6. parseStringList(text, block) = parseStringList(source, below)
  BY <1>2 DEF parseStringList, Onto
<1>7. IsSelectorList(text, block, starts) <=> IsSelectorList(source, below, dashes)
  <2>1. \A l \in below : f[l] \in starts <=> l \in dashes
    BY <1>1, <1>3 DEF Onto
  <2>2. (\A i \in block : (text[i].dash <=> i \in starts) /\ text[i].key \in Fields)
            <=> \A i \in below : (source[i].dash <=> i \in dashes) /\ source[i].key \in Fields
    BY <1>2, <2>1 DEF Onto
  <2>3. (\A i \in starts : SelectorField(text, block, starts, i, "kind") # None)
            <=> \A i \in dashes : SelectorField(source, below, dashes, i, "kind") # None
    BY <1>4 DEF Onto
  <2>4. QED
    BY <2>2, <2>3 DEF IsSelectorList
<1>8. parseSelectorList(text, block, starts) = parseSelectorList(source, below, dashes)
  <2> DEFINE found(i) == [apiGroup |-> SelectorField(text, block, starts, i, "apiGroup"),
                          kind     |-> SelectorField(text, block, starts, i, "kind")]
             meant(l) == [apiGroup |-> SelectorField(source, below, dashes, l, "apiGroup"),
                          kind     |-> SelectorField(source, below, dashes, l, "kind")]
  <2>1. \A l \in dashes : found(f[l]) = meant(l)
    BY <1>4
  <2>2. /\ parseSelectorList(text, block, starts) = {found(i) : i \in starts}
        /\ parseSelectorList(source, below, dashes) = {meant(l) : l \in dashes}
    BY DEF parseSelectorList
  <2> HIDE DEF found, meant
  <2>3. {found(i) : i \in starts} = {meant(l) : l \in dashes}
    BY <2>1 DEF Onto
  <2>4. QED
    BY <2>2, <2>3
<1>9. QED
  BY <1>5, <1>6, <1>7, <1>8 DEF below, dashes

LEMMA CarriedEntry ==
    ASSUME NEW f, NEW source, NEW text, Carries(f, source, text)
    PROVE  LET below == Below(source)
               dashes == Dashes(source, below)
               block == Onto(f, below)
               starts == Onto(f, dashes)
           IN  /\ Accepted(text, f[1], block, starts) <=> Accepted(source, 1, below, dashes)
               /\ Value(text, f[1], block, starts) = Value(source, 1, below, dashes)
<1> DEFINE below == Below(source)
           dashes == Dashes(source, below)
           block == Onto(f, below)
           starts == Onto(f, dashes)
<1>1. text[f[1]].key = source[1].key /\ text[f[1]].value = source[1].value
  BY CarriedOrder DEF Carries, Same
<1>2. block = {} <=> below = {}
  BY DEF Onto
<1>3. /\ IsStringList(text, block) <=> IsStringList(source, below)
      /\ parseStringList(text, block) = parseStringList(source, below)
      /\ IsSelectorList(text, block, starts) <=> IsSelectorList(source, below, dashes)
      /\ parseSelectorList(text, block, starts) = parseSelectorList(source, below, dashes)
  BY CarriedLists
<1> HIDE DEF below, dashes, block, starts
<1>4. Accepted(text, f[1], block, starts) <=> Accepted(source, 1, below, dashes)
  BY <1>1, <1>2, <1>3 DEF Accepted, BlockAccepted, InlineAccepted
<1>5. Value(text, f[1], block, starts) = Value(source, 1, below, dashes)
  BY <1>1, <1>3 DEF Value
<1>6. QED
  BY <1>4, <1>5 DEF below, dashes, block, starts

\* Of an accepted key the items begin where its dashes are, or do not matter.
LEMMA AcceptedByDashes ==
    ASSUME NEW text, NEW i, NEW block, Accepted(text, i, block, ItemStarts(text, block))
    PROVE  /\ Accepted(text, i, block, Dashes(text, block))
           /\ Value(text, i, block, ItemStarts(text, block)) = Value(text, i, block, Dashes(text, block))
<1> DEFINE starts == ItemStarts(text, block)
           dashes == Dashes(text, block)
<1>1. CASE text[i].key = "selectors"
  <2>1. IsSelectorList(text, block, starts)
    BY <1>1 DEF Accepted, BlockAccepted, InlineAccepted, ListKeys
  <2>2. starts = dashes
    BY <2>1 DEF IsSelectorList, ItemStarts, Dashes
  <2>3. QED
    BY <2>2
<1>2. CASE text[i].key # "selectors"
  BY <1>2 DEF Accepted, BlockAccepted, Value
<1>3. QED
  BY <1>1, <1>2

LEMMA DashesByAccepted ==
    ASSUME NEW text, NEW i, NEW block, Accepted(text, i, block, Dashes(text, block)),
           text[i].key = "selectors" => ItemStarts(text, block) = Dashes(text, block)
    PROVE  Accepted(text, i, block, ItemStarts(text, block))
  BY DEF Accepted, BlockAccepted

-----------------------------------------------------------------------------
(* The whole text                                                          *)

\* What the lemmas below assume of a text.
Fits(ents, text, at) == ents \in Seq(Entries) /\ text \in Seq(AnyLine) /\ Written(ents, text, at)

\* The top-level lines are those the entries begin with.
KeysAreHeaders(ents, text, at) == Headers(text) = {at[e][1] : e \in DOMAIN ents}

LEMMA EntryLaidOut ==
    ASSUME NEW ents, NEW text, NEW at, Fits(ents, text, at), NEW e \in DOMAIN ents
    PROVE  /\ ents[e] \in Entries /\ LaidOut(ents[e]) /\ MeansAsFormed(ents[e])
           /\ e \in Nat /\ 1 <= e
           /\ Carries(at[e], ents[e].text, text)
           /\ \A l \in DOMAIN ents[e].text :
                  /\ l = 1 \/ l \in Below(ents[e].text)
                  /\ Same(text[at[e][l]], ents[e].text[l]) /\ ~Blank(text[at[e][l]])
<1>1. ents[e] \in Entries /\ e \in Nat /\ 1 <= e
  BY DEF Fits
<1>2. LaidOut(ents[e]) /\ MeansAsFormed(ents[e])
  BY <1>1, EntriesAssumption
<1>3. /\ ents[e].text \in Seq(AnyLine) /\ ents[e].text # <<>> /\ text \in Seq(AnyLine)
      /\ \A l \in DOMAIN ents[e].text : ~Blank(ents[e].text[l])
  BY <1>2 DEF LaidOut, Fits
<1>4. \A l \in DOMAIN ents[e].text :
          at[e][l] \in DOMAIN text /\ Same(text[at[e][l]], ents[e].text[l])
  BY DEF Fits, Written
<1>5. \A l, m \in DOMAIN ents[e].text : l < m => at[e][l] < at[e][m]
  BY DEF Fits, Written
<1>6. Carries(at[e], ents[e].text, text)
  BY <1>3, <1>4, <1>5 DEF Carries
<1>7. \A l \in DOMAIN ents[e].text : ~Blank(text[at[e][l]])
  BY <1>3, <1>4 DEF Same, Blank
<1>8. \A l \in DOMAIN ents[e].text : l = 1 \/ l \in Below(ents[e].text)
  BY <1>3 DEF Below
<1>9. QED
  BY <1>1, <1>2, <1>4, <1>6, <1>7, <1>8

\* An entry's first line cannot pass for one below a key, nor one of the others
\* for a key.
LEMMA EntryLines ==
    ASSUME NEW ents, NEW text, NEW at, Fits(ents, text, at), NEW e \in DOMAIN ents
    PROVE  /\ 1 \in DOMAIN ents[e].text /\ Below(ents[e].text) \subseteq DOMAIN ents[e].text
           /\ ~text[at[e][1]].dash /\ text[at[e][1]].key \notin Fields
           /\ text[at[e][1]].key = ents[e].key
           /\ \A l \in Below(ents[e].text) :
                  text[at[e][l]].dash \/ text[at[e][l]].key \notin Keys
<1>1. Carries(at[e], ents[e].text, text) /\ LaidOut(ents[e])
  BY EntryLaidOut
<1>2. 1 \in DOMAIN ents[e].text /\ Below(ents[e].text) \subseteq DOMAIN ents[e].text
  BY <1>1, CarriedOrder
<1>3. \A l \in DOMAIN ents[e].text : Same(text[at[e][l]], ents[e].text[l])
  BY EntryLaidOut
<1>4. ~ents[e].text[1].dash /\ ents[e].text[1].key \notin Fields /\ ents[e].text[1].key = ents[e].key
  BY <1>1 DEF LaidOut
<1>5. \A l \in Below(ents[e].text) : ents[e].text[l].dash \/ ents[e].text[l].key \notin Keys
  BY <1>1 DEF LaidOut, Below
<1>6. QED
  BY <1>2, <1>3, <1>4, <1>5 DEF Same

\* In a text that is read, whatever its indentation, exactly the entries' keys are
\* at the top level.
LEMMA ReadableKeys ==
    ASSUME NEW ents, NEW text, NEW at, Fits(ents, text, at), Readable(text)
    PROVE  KeysAreHeaders(ents, text, at)
<1>1. ASSUME NEW h \in Headers(text)
      PROVE  /\ ~text[h].dash /\ text[h].key \in Keys
             /\ \A k \in gatherIndentedBlock(text, h) : text[k].dash \/ text[k].key \in Fields
  <2> DEFINE block == gatherIndentedBlock(text, h)
  <2>1. ~text[h].dash /\ Accepted(text, h, block, ItemStarts(text, block))
    BY DEF Readable
  <2> HIDE DEF block
  <2>2. text[h].key \in Keys
    BY <2>1 DEF Accepted, BlockAccepted, InlineAccepted, Keys
  <2>3. \A k \in block : text[k].dash \/ text[k].key \in Fields
    BY <2>1 DEF Accepted, BlockAccepted, IsStringList, IsSelectorList
  <2>4. QED
    BY <2>1, <2>2, <2>3 DEF block
<1>2. ASSUME NEW h \in Headers(text)
      PROVE  \E e \in DOMAIN ents : at[e][1] = h
  <2>1. h \in DOMAIN text /\ ~Blank(text[h])
    BY DEF Headers, TopLevel
  <2>2. PICK e \in DOMAIN ents : \E l \in DOMAIN ents[e].text : at[e][l] = h
    BY <2>1 DEF Fits, Written
  <2>3. PICK l \in DOMAIN ents[e].text : at[e][l] = h
    BY <2>2
  <2>4. l = 1 \/ l \in Below(ents[e].text)
    BY EntryLaidOut
  <2>5. l \notin Below(ents[e].text)
    BY <1>1, <2>3, EntryLines
  <2>6. QED
    BY <2>3, <2>4, <2>5
<1>3. ASSUME NEW e \in DOMAIN ents
      PROVE  at[e][1] \in Headers(text)
  <2>1. 1 \in DOMAIN ents[e].text /\ ~text[at[e][1]].dash /\ text[at[e][1]].key \notin Fields
    BY EntryLines
  <2>2. at[e][1] \in DOMAIN text /\ ~Blank(text[at[e][1]])
    BY <2>1, EntryLaidOut DEF Fits, Written
  <2>3. at[e][1] \in Headers(text)
            \/ \E j \in Headers(text) : at[e][1] \in gatherIndentedBlock(text, j)
    BY <2>2 DEF Readable
  <2>4. QED
    BY <1>1, <2>1, <2>3
<1>4. QED
  BY <1>2, <1>3 DEF KeysAreHeaders

\* With its key at the top level, an entry's other lines are its block.
LEMMA BlocksAreEntries ==
    ASSUME NEW ents, NEW text, NEW at, Fits(ents, text, at), KeysAreHeaders(ents, text, at),
           NEW e \in DOMAIN ents
    PROVE  gatherIndentedBlock(text, at[e][1]) = Onto(at[e], Below(ents[e].text))
<1> DEFINE h == at[e][1]
           n == Len(text)
<1>1. /\ n \in Nat /\ DOMAIN text = 1 .. n
      /\ \A f \in DOMAIN ents : \A l \in DOMAIN ents[f].text :
             at[f][l] \in DOMAIN text /\ at[f][l] \in Nat
  BY DEF Fits, Written
<1>2. /\ 1 \in DOMAIN ents[e].text /\ \A l \in Below(ents[e].text) : l \in DOMAIN ents[e].text
      /\ \A l \in Below(ents[e].text) : l \in Nat /\ 1 < l
  BY EntryLines DEF Below
<1>3. \A f \in DOMAIN ents : f \in Nat /\ 1 \in DOMAIN ents[f].text
  BY EntryLaidOut, EntryLines
<1>4. \A i \in DOMAIN text : TopLevel(text[i]) <=> \E f \in DOMAIN ents : at[f][1] = i
  BY DEF KeysAreHeaders, Headers
<1>5. \A f, g \in DOMAIN ents : \A l \in DOMAIN ents[f].text : \A m \in DOMAIN ents[g].text :
          f < g \/ (f = g /\ l < m) => at[f][l] < at[g][m]
  BY DEF Fits, Written
<1>6. ASSUME NEW k \in gatherIndentedBlock(text, h)
      PROVE  k \in Onto(at[e], Below(ents[e].text))
  <2>1. /\ k \in DOMAIN text /\ ~Blank(text[k]) /\ h < k /\ h \in Nat /\ k \in Nat
        /\ \A j \in (h + 1) .. k : ~TopLevel(text[j])
    BY <1>1, <1>2 DEF gatherIndentedBlock
  <2>2. PICK f \in DOMAIN ents : \E l \in DOMAIN ents[f].text : at[f][l] = k
    BY <2>1 DEF Fits, Written
  <2>3. PICK l \in DOMAIN ents[f].text : at[f][l] = k
    BY <2>2
  <2>4. l = 1 \/ l \in Below(ents[f].text)
    BY EntryLaidOut
  <2>5. l \in Nat /\ 1 <= l /\ f \in Nat /\ e \in Nat
    BY <1>3, <2>4 DEF Below
  <2>6. ~(f < e)
    BY <1>1, <1>2, <1>5, <2>1, <2>3, <2>5
  <2>7. ~(e < f)
    <3>1. SUFFICES ASSUME e < f PROVE FALSE
      OBVIOUS
    <3>2. h < at[f][1] /\ at[f][1] \in DOMAIN text
      BY <1>1, <1>2, <1>3, <1>5, <3>1
    <3>3. at[f][1] <= k
      <4>1. CASE l = 1
        BY <2>1, <2>3, <4>1
      <4>2. CASE 1 < l
        BY <1>1, <1>3, <1>5, <2>1, <2>3, <4>2
      <4>3. QED
        BY <2>5, <4>1, <4>2
    <3>4. TopLevel(text[at[f][1]])
      BY <1>4, <3>2
    <3>5. at[f][1] \in (h + 1) .. k
      BY <1>1, <2>1, <3>2, <3>3
    <3>6. QED
      BY <2>1, <3>4, <3>5
  <2>8. f = e
    BY <2>5, <2>6, <2>7
  <2>9. l # 1
    BY <2>1, <2>3, <2>8
  <2>10. QED
    BY <2>3, <2>4, <2>8, <2>9 DEF Onto
<1>7. ASSUME NEW l \in Below(ents[e].text)
      PROVE  at[e][l] \in gatherIndentedBlock(text, h)
  <2>1. h \in Nat /\ h < at[e][l] /\ at[e][l] \in Nat /\ at[e][l] \in DOMAIN text
    BY <1>1, <1>2, <1>5
  <2>2. ~Blank(text[at[e][l]])
    BY <1>2, EntryLaidOut
  <2>3. ASSUME NEW j \in (h + 1) .. at[e][l], TopLevel(text[j])
        PROVE  FALSE
    <3>1. j \in DOMAIN text /\ j \in Nat /\ h < j /\ j <= at[e][l]
      BY <1>1, <2>1
    <3>2. PICK f \in DOMAIN ents : at[f][1] = j
      BY <1>4, <2>3, <3>1
    <3>3. ~(f < e)
      BY <1>2, <1>3, <1>5, <2>1, <3>1, <3>2
    <3>4. ~(e < f)
      BY <1>2, <1>3, <1>5, <2>1, <3>1, <3>2
    <3>5. f = e
      BY <1>3, <3>3, <3>4
    <3>6. QED
      BY <2>1, <3>1, <3>2, <3>5
  <2>4. at[e][l] \in (h + 1) .. n
    BY <1>1, <2>1
  <2>5. QED
    BY <2>2, <2>3, <2>4 DEF gatherIndentedBlock
<1>8. QED
  BY <1>6, <1>7 DEF Onto

LEMMA EntryBlock ==
    ASSUME NEW ents, NEW text, NEW at, Fits(ents, text, at), KeysAreHeaders(ents, text, at),
           NEW e \in DOMAIN ents
    PROVE  LET source == ents[e].text
               below == Below(source)
               dashes == Dashes(source, below)
               block == gatherIndentedBlock(text, at[e][1])
           IN  /\ block = Onto(at[e], below)
               /\ Accepted(text, at[e][1], block, Dashes(text, block))
                      <=> Accepted(source, 1, below, dashes)
               /\ Value(text, at[e][1], block, Dashes(text, block)) = Value(source, 1, below, dashes)
               /\ Dashes(text, block) = Onto(at[e], dashes)
<1>1. Carries(at[e], ents[e].text, text)
  BY EntryLaidOut
<1>2. gatherIndentedBlock(text, at[e][1]) = Onto(at[e], Below(ents[e].text))
  BY BlocksAreEntries
<1>3. Dashes(text, Onto(at[e], Below(ents[e].text)))
          = Onto(at[e], Dashes(ents[e].text, Below(ents[e].text)))
  BY <1>1, CarriedDashes
<1>4. QED
  BY <1>1, <1>2, <1>3, CarriedEntry

\* An entry that is accepted means what is read.
LEMMA EntryRead ==
    ASSUME NEW ents, NEW text, NEW at, Fits(ents, text, at), KeysAreHeaders(ents, text, at),
           NEW e \in DOMAIN ents
    PROVE  LET block == gatherIndentedBlock(text, at[e][1])
               starts == ItemStarts(text, block)
           IN  Accepted(text, at[e][1], block, starts)
                   => ents[e].means = <<Value(text, at[e][1], block, starts)>>
<1> DEFINE source == ents[e].text
           below == Below(source)
           dashes == Dashes(source, below)
           block == gatherIndentedBlock(text, at[e][1])
           starts == ItemStarts(text, block)
<1> SUFFICES ASSUME Accepted(text, at[e][1], block, starts)
             PROVE  ents[e].means = <<Value(text, at[e][1], block, starts)>>
  OBVIOUS
<1>1. /\ Accepted(text, at[e][1], block, Dashes(text, block))
      /\ Value(text, at[e][1], block, starts) = Value(text, at[e][1], block, Dashes(text, block))
  BY AcceptedByDashes
<1>2. /\ block = Onto(at[e], below) /\ Dashes(text, block) = Onto(at[e], dashes)
      /\ Accepted(text, at[e][1], block, Dashes(text, block)) <=> Accepted(source, 1, below, dashes)
      /\ Value(text, at[e][1], block, Dashes(text, block)) = Value(source, 1, below, dashes)
  BY EntryBlock
<1>3. ASSUME 2 \in below
      PROVE  2 \in dashes
  <2>1. Carries(at[e], source, text)
    BY EntryLaidOut
  <2>2. /\ at[e][2] \in block
        /\ \A j \in block : ~(j < at[e][2])
    <3>1. \A l \in below : 2 <= l /\ l \in DOMAIN source /\ l \in Nat
      BY <2>1, CarriedOrder DEF Below
    <3>2. \A l \in below : at[e][2] <= at[e][l] /\ at[e][l] \in Nat
      BY <1>3, <2>1, <3>1, CarriedOrder
    <3> HIDE DEF below
    <3>3. QED
      BY <1>2, <1>3, <3>2 DEF Onto
  <2>3. at[e][2] \in starts
    BY <2>2 DEF ItemStarts
  <2>4. text[at[e][2]].dash
    BY <2>2, <2>3 DEF Accepted, BlockAccepted, IsStringList, IsSelectorList
  <2>5. source[2].dash
    BY <1>3, <2>1, <2>4, CarriedOrder DEF Carries, Same
  <2>6. QED
    BY <1>3, <2>5 DEF Dashes
<1>4. MeansAsFormed(ents[e])
  BY EntryLaidOut
<1>5. ents[e].means = <<Value(source, 1, below, dashes)>>
  BY <1>1, <1>2, <1>3, <1>4 DEF MeansAsFormed, Below, Dashes
<1>6. QED
  BY <1>1, <1>2, <1>5

\* Of two entries for a key the later is in force, in the text as in what they mean.
LEMMA AssignedIsMeant ==
    ASSUME NEW text, NEW at, Fits(entries, text, at), KeysAreHeaders(entries, text, at),
           \A i \in Headers(text) :
               LET block == gatherIndentedBlock(text, i)
               IN  Accepted(text, i, block, ItemStarts(text, block)),
           NEW key, NEW zero
    PROVE  Assigned(text, key, zero) = Meant(key, zero)
<1> DEFINE here == {i \in Headers(text) : text[i].key = key}
           of == {e \in DOMAIN entries : entries[e].key = key}
<1>1. \A e \in DOMAIN entries : /\ at[e][1] \in Headers(text) /\ at[e][1] \in Nat
                                /\ text[at[e][1]].key = entries[e].key
  <2>1. SUFFICES ASSUME NEW e \in DOMAIN entries
                 PROVE  /\ at[e][1] \in Headers(text) /\ at[e][1] \in Nat
                        /\ text[at[e][1]].key = entries[e].key
    OBVIOUS
  <2>2. text[at[e][1]].key = entries[e].key
    BY EntryLines
  <2>3. at[e][1] \in Headers(text)
    BY DEF KeysAreHeaders
  <2>4. at[e][1] \in Nat
    BY <2>3 DEF Headers, Fits
  <2>5. QED
    BY <2>2, <2>3, <2>4
<1>2. here = {at[e][1] : e \in of}
  BY <1>1 DEF KeysAreHeaders
<1>3. \A e, f \in DOMAIN entries : e \in Nat /\ f \in Nat /\ (e < f => at[e][1] < at[f][1])
  <2>1. \A e \in DOMAIN entries : e \in Nat /\ 1 \in DOMAIN entries[e].text
    BY EntryLaidOut, EntryLines
  <2>2. QED
    BY <2>1 DEF Fits, Written
<1>4. of \in SUBSET (1 .. Len(entries)) /\ Len(entries) \in Nat /\ of \subseteq DOMAIN entries
  BY DEF Fits
<1> HIDE DEF here, of
<1>5. CASE of = {}
  <2>1. here = {}
    BY <1>2, <1>5
  <2>2. QED
    BY <1>5, <2>1 DEF Assigned, Meant, here, of
<1>6. CASE of # {}
  <2>1. PICK e \in of : \A f \in of : f <= e
    BY <1>4, <1>6, LastExists
  <2>2. at[e][1] \in here /\ \A i \in here : i <= at[e][1]
    <3>1. ASSUME NEW f \in of PROVE at[f][1] <= at[e][1]
      BY <1>1, <1>3, <1>4, <2>1
    <3>2. QED
      BY <1>2, <2>1, <3>1
  <2>3. here \in SUBSET Nat /\ of \in SUBSET Nat
    BY <1>1, <1>2, <1>4
  <2>4. (CHOOSE j \in of : \A k \in of : k <= j) = e
    BY <2>1, <2>3, LastIs, Zenon
  <2>5. (CHOOSE j \in here : \A k \in here : k <= j) = at[e][1]
    BY <2>2, <2>3, LastIs, Zenon
  <2> DEFINE block == gatherIndentedBlock(text, at[e][1])
             starts == ItemStarts(text, block)
  <2>6. Assigned(text, key, zero) = Value(text, at[e][1], block, starts)
    BY <2>2, <2>5 DEF Assigned, here
  <2>7. Meant(key, zero) = entries[e].means[1]
    BY <1>6, <2>4 DEF Meant, of
  <2>8. Accepted(text, at[e][1], block, starts) /\ e \in DOMAIN entries
    BY <1>1, <1>4, <2>1
  <2>9. entries[e].means = <<Value(text, at[e][1], block, starts)>>
    BY <2>8, EntryRead
  <2> HIDE DEF block, starts
  <2>10. QED
    BY <2>6, <2>7, <2>9
<1>7. QED
  BY <1>5, <1>6

\* A text that is read is read as it is meant.
LEMMA ReadableAsMeant ==
    ASSUME NEW text, NEW at, Fits(entries, text, at), Readable(text)
    PROVE  Checked(parseRuleSpec(text)) = Meaning
<1>1. KeysAreHeaders(entries, text, at)
  BY ReadableKeys
<1>2. \A i \in Headers(text) :
          LET block == gatherIndentedBlock(text, i)
          IN  Accepted(text, i, block, ItemStarts(text, block))
  BY DEF Readable
<1>3. ASSUME NEW e \in DOMAIN entries
      PROVE  entries[e].means # <<>>
  <2> DEFINE block == gatherIndentedBlock(text, at[e][1])
             starts == ItemStarts(text, block)
  <2>1. Accepted(text, at[e][1], block, starts)
    BY <1>1, <1>2 DEF KeysAreHeaders
  <2>2. entries[e].means = <<Value(text, at[e][1], block, starts)>>
    BY <1>1, <2>1, EntryRead
  <2> HIDE DEF block, starts
  <2>3. QED
    BY <2>2
<1>4. \A key, zero : Assigned(text, key, zero) = Meant(key, zero)
  BY <1>1, <1>2, AssignedIsMeant, Zenon
<1>5. QED
  BY <1>3, <1>4 DEF Meaning, parseRuleSpec

-----------------------------------------------------------------------------
(* As written                                                              *)

\* Taking the first line's margin leaves all but an indentation.
LEMMA TrimmedSame ==
    ASSUME NEW text \in Seq(AnyLine)
    PROVE  /\ TrimSpace(text) \in Seq(AnyLine) /\ DOMAIN TrimSpace(text) = DOMAIN text
           /\ \A i \in DOMAIN text :
                  /\ Same(TrimSpace(text)[i], text[i])
                  /\ \/ TrimSpace(text)[i] = text[i]
                     \/ /\ TrimSpace(text)[i].indent = 0 /\ ~TrimSpace(text)[i].tab
                        /\ \A j \in 1 .. i - 1 : text[j] = EmptyLine
<1>1. DOMAIN text = 1 .. Len(text) /\ Len(text) \in Nat /\ \A i \in DOMAIN text : text[i] \in AnyLine
  OBVIOUS
<1>2. ASSUME NEW line \in AnyLine
      PROVE  LET other == [line EXCEPT !.indent = 0, !.tab = FALSE]
             IN  other \in AnyLine /\ Same(other, line) /\ other.indent = 0 /\ ~other.tab
  BY <1>2 DEF AnyLine, Same
<1>3. DOMAIN TrimSpace(text) = DOMAIN text
  BY DEF TrimSpace
<1>4. ASSUME NEW i \in DOMAIN text
      PROVE  /\ TrimSpace(text)[i] \in AnyLine
             /\ Same(TrimSpace(text)[i], text[i])
             /\ \/ TrimSpace(text)[i] = text[i]
                \/ /\ TrimSpace(text)[i].indent = 0 /\ ~TrimSpace(text)[i].tab
                   /\ \A j \in 1 .. i - 1 : text[j] = EmptyLine
  <2>1. CASE text[i] # EmptyLine /\ \A j \in 1 .. i - 1 : text[j] = EmptyLine
    <3>1. TrimSpace(text)[i] = [text[i] EXCEPT !.indent = 0, !.tab = FALSE]
      BY <2>1 DEF TrimSpace
    <3>2. text[i] \in AnyLine
      BY <1>1
    <3>3. QED
      BY <1>2, <2>1, <3>1, <3>2
  <2>2. CASE ~(text[i] # EmptyLine /\ \A j \in 1 .. i - 1 : text[j] = EmptyLine)
    <3>1. TrimSpace(text)[i] = text[i]
      BY <2>2 DEF TrimSpace
    <3>2. QED
      BY <1>1, <3>1 DEF Same
  <2>3. QED
    BY <2>1, <2>2
<1>5. TrimSpace(text) \in [1 .. Len(text) -> AnyLine]
  <2>1. TrimSpace(text) = [i \in 1 .. Len(text) |-> TrimSpace(text)[i]]
    BY <1>1 DEF TrimSpace
  <2>2. QED
    BY <1>1, <1>4, <2>1
<1>6. TrimSpace(text) \in Seq(AnyLine)
  BY <1>1, <1>5, FunctionIsSeq
<1>7. QED
  BY <1>3, <1>4, <1>6

LEMMA TrimmedFits ==
    ASSUME NEW ents, NEW text, NEW at, Fits(ents, text, at)
    PROVE  Fits(ents, TrimSpace(text), at)
<1>1. text \in Seq(AnyLine)
  BY DEF Fits
<1>2. /\ TrimSpace(text) \in Seq(AnyLine) /\ DOMAIN TrimSpace(text) = DOMAIN text
      /\ \A i \in DOMAIN text : Same(TrimSpace(text)[i], text[i])
  BY <1>1, TrimmedSame
<1>3. QED
  BY <1>1, <1>2, ReplacedWritten DEF Fits

\* The first line to be trimmed is the first entry's, which has no indentation.
LEMMA TrimmedUndisturbed ==
    ASSUME NEW ents, NEW text, NEW at, Fits(ents, text, at), Undisturbed(ents, text, at, 0)
    PROVE  Undisturbed(ents, TrimSpace(text), at, 0)
<1> SUFFICES ASSUME NEW e \in DOMAIN ents, NEW l \in DOMAIN ents[e].text
             PROVE  /\ TrimSpace(text)[at[e][l]].indent = ents[e].text[l].indent + 0
                    /\ ~TrimSpace(text)[at[e][l]].tab
  BY DEF Undisturbed
<1> DEFINE i == at[e][l]
<1>1. /\ text[i].indent = ents[e].text[l].indent + 0 /\ ~text[i].tab
      /\ text \in Seq(AnyLine) /\ i \in DOMAIN text
  BY DEF Undisturbed, Fits, Written
<1>2. CASE TrimSpace(text)[i] = text[i]
  BY <1>1, <1>2
<1>3. CASE /\ TrimSpace(text)[i].indent = 0 /\ ~TrimSpace(text)[i].tab
           /\ \A j \in 1 .. i - 1 : text[j] = EmptyLine
  <2>1. 1 \in DOMAIN ents[e].text /\ LaidOut(ents[e]) /\ DOMAIN ents[e].text = 1 .. Len(ents[e].text)
    BY EntryLaidOut, EntryLines DEF LaidOut
  <2>2. l = 1
    <3>1. SUFFICES ASSUME 1 < l PROVE FALSE
      BY <2>1
    <3>2. at[e][1] < i /\ at[e][1] \in DOMAIN text /\ ~Blank(text[at[e][1]])
      BY <2>1, <3>1, EntryLaidOut DEF Fits, Written
    <3>3. at[e][1] \in 1 .. i - 1
      BY <1>1, <3>2
    <3>4. Blank(EmptyLine)
      BY DEF Blank, EmptyLine, Line
    <3>5. QED
      BY <1>3, <3>2, <3>3, <3>4
  <2>3. ents[e].text[l].indent = 0
    BY <2>1, <2>2 DEF LaidOut
  <2>4. QED
    BY <1>3, <2>3
<1>4. QED
  BY <1>1, <1>2, <1>3, TrimmedSame

LEMMA UndisturbedKeys ==
    ASSUME NEW ents, NEW text, NEW at, Fits(ents, text, at), Undisturbed(ents, text, at, 0)
    PROVE  KeysAreHeaders(ents, text, at)
<1>1. ASSUME NEW e \in DOMAIN ents, NEW l \in DOMAIN ents[e].text
      PROVE  /\ at[e][l] \in DOMAIN text
             /\ TopLevel(text[at[e][l]]) <=> l = 1
  <2>1. LaidOut(ents[e]) /\ (l = 1 \/ l \in Below(ents[e].text)) /\ ~Blank(text[at[e][l]])
    BY EntryLaidOut
  <2>2. at[e][l] \in DOMAIN text /\ ~text[at[e][l]].tab
        /\ text[at[e][l]].indent = ents[e].text[l].indent + 0
    BY DEF Undisturbed, Fits, Written
  <2>3. ents[e].text[l].indent \in Nat
    <3>1. ents[e].text[l] \in AnyLine
      BY EntryLaidOut, EntryText
    <3>2. QED
      BY <3>1 DEF AnyLine
  <2>4. ents[e].text[l].indent = 0 <=> l = 1
    BY <2>1, <2>3 DEF LaidOut, Below
  <2>5. QED
    BY <2>1, <2>2, <2>3, <2>4 DEF TopLevel, countIndent
<1>2. \A e \in DOMAIN ents : 1 \in DOMAIN ents[e].text
  BY EntryLines
<1>3. ASSUME NEW h \in Headers(text)
      PROVE  \E e \in DOMAIN ents : at[e][1] = h
  <2>1. h \in DOMAIN text /\ TopLevel(text[h]) /\ ~Blank(text[h])
    BY DEF Headers, TopLevel
  <2>2. PICK e \in DOMAIN ents : \E l \in DOMAIN ents[e].text : at[e][l] = h
    BY <2>1 DEF Fits, Written
  <2>3. QED
    BY <1>1, <2>1, <2>2
<1>4. \A e \in DOMAIN ents : at[e][1] \in Headers(text)
  BY <1>1, <1>2 DEF Headers
<1>5. QED
  BY <1>3, <1>4 DEF KeysAreHeaders

\* An entry that has a meaning is accepted where it stands.
LEMMA UndisturbedAccepted ==
    ASSUME NEW ents, NEW text, NEW at, Fits(ents, text, at), Undisturbed(ents, text, at, 0),
           NEW e \in DOMAIN ents, ents[e].means # <<>>
    PROVE  LET block == gatherIndentedBlock(text, at[e][1])
           IN  Accepted(text, at[e][1], block, ItemStarts(text, block))
<1> DEFINE source == ents[e].text
           below == Below(source)
           dashes == Dashes(source, below)
           block == gatherIndentedBlock(text, at[e][1])
<1>1. KeysAreHeaders(ents, text, at)
  BY UndisturbedKeys
<1>2. /\ block = Onto(at[e], below) /\ Dashes(text, block) = Onto(at[e], dashes)
      /\ Accepted(text, at[e][1], block, Dashes(text, block)) <=> Accepted(source, 1, below, dashes)
  BY <1>1, EntryBlock
<1>3. LaidOut(ents[e]) /\ MeansAsFormed(ents[e]) /\ Carries(at[e], source, text)
  BY EntryLaidOut
<1>4. Accepted(source, 1, below, dashes) /\ (2 \in below => 2 \in dashes)
  BY <1>3 DEF MeansAsFormed, Below, Dashes
<1>5. /\ \A l \in below : /\ l \in DOMAIN source /\ l \in Nat /\ 2 <= l /\ 2 \in below
      /\ \A l, m \in below : (at[e][l] < at[e][m]) <=> l < m
  <2>1. below \subseteq DOMAIN source /\ \A l \in below : l \in Nat /\ 2 <= l /\ 2 \in below
    BY <1>3, CarriedOrder DEF Below
  <2>2. QED
    BY <1>3, <2>1, CarriedOrder
<1>6. \A l \in below : /\ countIndent(text[at[e][l]]) = source[l].indent
                       /\ source[l].indent \in Nat
  <2>1. \A l \in below : /\ source[l].indent \in Nat /\ ~text[at[e][l]].tab
                         /\ text[at[e][l]].indent = source[l].indent + 0
    <3>1. \A l \in below : source[l] \in AnyLine
      BY <1>5, EntryLaidOut, EntryText
    <3>2. \A l \in below : source[l].indent \in Nat
      BY <3>1 DEF AnyLine
    <3>3. QED
      BY <1>5, <3>2 DEF Undisturbed
  <2>2. QED
    BY <2>1 DEF countIndent
<1>7. \A i, j \in below : source[i].dash =>
          IF source[j].dash THEN source[i].indent = source[j].indent
          ELSE source[i].indent < source[j].indent
  BY <1>3 DEF LaidOut, Below
<1> HIDE DEF below
<1>8. ItemStarts(text, block) = Onto(at[e], dashes)
  <2>1. ASSUME NEW l \in below
        PROVE  at[e][l] \in ItemStarts(text, block) <=> l \in dashes
    <3>1. at[e][l] \in ItemStarts(text, block)
              <=> \A m \in below : m < l => source[l].indent <= source[m].indent
      BY <1>2, <1>5, <1>6 DEF ItemStarts, Onto
    <3>2. CASE source[l].dash
      BY <1>6, <1>7, <3>1, <3>2 DEF Dashes
    <3>3. CASE ~source[l].dash
      <4>1. 2 \in below /\ source[2].dash /\ 2 <= l /\ l # 2 /\ l \in Nat
        BY <1>4, <1>5, <3>3 DEF Dashes
      <4>2. source[2].indent < source[l].indent /\ 2 < l
        BY <1>7, <3>3, <4>1
      <4>3. QED
        BY <1>6, <3>1, <3>3, <4>1, <4>2 DEF Dashes
    <3>4. QED
      BY <3>2, <3>3
  <2>2. ItemStarts(text, block) \subseteq Onto(at[e], below) /\ dashes \subseteq below
    BY <1>2 DEF ItemStarts, Dashes
  <2> HIDE DEF dashes
  <2>3. QED
    BY <2>1, <2>2 DEF Onto
<1>9. ItemStarts(text, block) = Dashes(text, block)
  BY <1>2, <1>8
<1>10. QED
  BY <1>2, <1>4, <1>9

\* A text that stands as it was written is read, unless an entry of it has no
\* meaning.
LEMMA UndisturbedReadable ==
    ASSUME NEW ents, NEW text, NEW at, Fits(ents, text, at), Undisturbed(ents, text, at, 0),
           \A e \in DOMAIN ents : ents[e].means # <<>>
    PROVE  Readable(text)
<1>1. KeysAreHeaders(ents, text, at)
  BY UndisturbedKeys
<1>2. ASSUME NEW h \in Headers(text)
      PROVE  LET block == gatherIndentedBlock(text, h)
             IN  ~text[h].tab /\ ~text[h].dash /\ Accepted(text, h, block, ItemStarts(text, block))
  <2>1. PICK e \in DOMAIN ents : at[e][1] = h
    BY <1>1 DEF KeysAreHeaders
  <2>2. ~text[h].dash /\ 1 \in DOMAIN ents[e].text
    BY <2>1, EntryLines
  <2>3. ~text[h].tab
    BY <2>1, <2>2 DEF Undisturbed
  <2>4. QED
    BY <2>1, <2>2, <2>3, UndisturbedAccepted
<1>3. ASSUME NEW i \in DOMAIN text, ~Blank(text[i])
      PROVE  i \in Headers(text) \/ \E j \in Headers(text) : i \in gatherIndentedBlock(text, j)
  <2>1. PICK e \in DOMAIN ents : \E l \in DOMAIN ents[e].text : at[e][l] = i
    BY <1>3 DEF Fits, Written
  <2>2. PICK l \in DOMAIN ents[e].text : at[e][l] = i
    BY <2>1
  <2>3. at[e][1] \in Headers(text)
    BY <1>1 DEF KeysAreHeaders
  <2>4. gatherIndentedBlock(text, at[e][1]) = Onto(at[e], Below(ents[e].text))
    BY <1>1, BlocksAreEntries
  <2>5. l = 1 \/ l \in Below(ents[e].text)
    BY EntryLaidOut
  <2>6. QED
    BY <2>2, <2>3, <2>4, <2>5 DEF Onto
<1>4. QED
  BY <1>2, <1>3 DEF Readable

-----------------------------------------------------------------------------
(* Theorems                                                                *)

\* However a text is indented, it is refused or read as its author meant it
\* (NeverMisread): a wrong indentation never moves a line from one entry to
\* another.
THEOREM TextNeverMisread == Spec => []NeverMisread
<1>1. ASSUME IInv
      PROVE  NeverMisread
  <2>1. PICK at : Written(entries, lines, at)
    BY <1>1 DEF IInv
  <2>2. Fits(entries, lines, at)
    BY <1>1, <2>1 DEF IInv, Fits
  <2> DEFINE text == TrimSpace(lines)
  <2>3. Fits(entries, text, at)
    BY <2>2, TrimmedFits
  <2> HIDE DEF text
  <2>4. Readable(text) => Checked(parseRuleSpec(text)) = Meaning
    BY <2>3, ReadableAsMeant
  <2>5. QED
    BY <2>4 DEF NeverMisread, ParseConfigMap, text
<1>2. QED
  BY <1>1, TextIsItsEntries, PTL

\* A text without a slip and a margin is read as its author meant it
\* (ReadAsWritten), wherever he put blank lines and comments and in whatever order
\* and however often he wrote the keys.
THEOREM TextReadAsWritten == Spec => []ReadAsWritten
<1>1. ASSUME IInv, slips = 0, margin = 0
      PROVE  ParseConfigMap(lines) = Meaning
  <2>1. PICK at : Written(entries, lines, at) /\ Undisturbed(entries, lines, at, 0)
    BY <1>1 DEF IInv
  <2>2. Fits(entries, lines, at)
    BY <1>1, <2>1 DEF IInv, Fits
  <2> DEFINE text == TrimSpace(lines)
  <2>3. Fits(entries, text, at) /\ Undisturbed(entries, text, at, 0)
    BY <2>1, <2>2, TrimmedFits, TrimmedUndisturbed
  <2>4. ParseConfigMap(lines) = IF Readable(text) THEN Checked(parseRuleSpec(text)) ELSE Invalid
    BY DEF ParseConfigMap
  <2> HIDE DEF text
  <2>5. CASE Readable(text)
    BY <2>3, <2>4, <2>5, ReadableAsMeant
  <2>6. CASE ~Readable(text)
    <3>1. ~\A e \in DOMAIN entries : entries[e].means # <<>>
      BY <2>3, <2>6, UndisturbedReadable
    <3>2. QED
      BY <2>4, <2>6, <3>1 DEF Meaning
  <2>7. QED
    BY <2>5, <2>6
<1>2. IInv => ReadAsWritten
  BY <1>1 DEF ReadAsWritten
<1>3. QED
  BY <1>2, TextIsItsEntries, PTL

=============================================================================
