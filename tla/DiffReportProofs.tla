--------------------------- MODULE DiffReportProofs ---------------------------
(***************************************************************************)
(* Theorem of DiffReport: for any keys and any patterns, what RenderPath   *)
(* has written ParsePath reads back, unless a key has an apostrophe.       *)
(*                                                                         *)
(* The texts are built and read by recursive functions (FlattenSeq,        *)
(* Decimal, Atoi, Segments).  Each calls itself at one place that is       *)
(* nearer to its end, and so is the one function that its equation has.    *)
(***************************************************************************)
EXTENDS DiffReport, DiffWalkProofs

-----------------------------------------------------------------------------
(* Recursion                                                               *)

LEMMA CountingUp ==
    ASSUME NEW n \in Nat, NEW T, 0 \in T, \A k \in 0 .. n : k \in T /\ k < n => k + 1 \in T
    PROVE  0 .. n \subseteq T
<1> DEFINE U == (0 .. n) \ T
<1>1. U \subseteq Nat
  OBVIOUS
<1>2. SUFFICES ASSUME U # {} PROVE FALSE
  OBVIOUS
<1>3. PICK m \in U : \A k \in U : ~(k < m)
  BY <1>1, <1>2, LeastNatural
<1>4. m \in Nat /\ m # 0 /\ m <= n /\ m \notin T
  BY <1>3
<1>5. m - 1 \in 0 .. n /\ m - 1 < n /\ m - 1 < m /\ (m - 1) + 1 = m
  BY <1>4
<1>6. m - 1 \in T
  BY <1>3, <1>5
<1>7. QED
  BY <1>4, <1>5, <1>6

\* Every call but those of the base calls itself once, at pred, of a lower rank.
IsRecursion(D, S, bound, rank, pred, base, init, step) ==
    /\ bound \in Nat /\ rank \in [D -> 0 .. bound] /\ pred \in [D -> D]
    /\ init \in [D -> S] /\ step \in [D -> [S -> S]]
    /\ \A d \in D : d \in base \/ rank[pred[d]] < rank[d]

Solves(f, D, pred, base, init, step) ==
    \A d \in D : f[d] = IF d \in base THEN init[d] ELSE step[d][f[pred[d]]]

\* Such a recursion has a solution.
LEMMA RecursionByRank ==
    ASSUME NEW D, NEW S, NEW bound, NEW rank, NEW pred, NEW base, NEW init, NEW step,
           IsRecursion(D, S, bound, rank, pred, base, init, step)
    PROVE  \E f \in [D -> S] : Solves(f, D, pred, base, init, step)
<1> USE DEF IsRecursion
<1> DEFINE Fits(f, d) == f[d] = IF d \in base THEN init[d] ELSE step[d][f[pred[d]]]
           T == {r \in 0 .. bound + 1 : \E f \in [D -> S] : \A d \in D : rank[d] < r => Fits(f, d)}
<1>1. 0 \in T
  OBVIOUS
<1>2. ASSUME NEW r \in 0 .. bound + 1, r \in T, r < bound + 1
      PROVE  r + 1 \in T
  <2>1. PICK f \in [D -> S] : \A d \in D : rank[d] < r => Fits(f, d)
    BY <1>2
  <2> DEFINE g == [d \in D |-> IF rank[d] < r THEN f[d]
                               ELSE IF d \in base THEN init[d] ELSE step[d][f[pred[d]]]]
  <2>2. g \in [D -> S]
    OBVIOUS
  <2>3. ASSUME NEW d \in D, rank[d] < r + 1 PROVE Fits(g, d)
    <3>1. d \in base \/ (rank[pred[d]] < r /\ pred[d] \in D)
      BY <2>3
    <3>2. d \in base \/ g[pred[d]] = f[pred[d]]
      BY <3>1
    <3>3. g[d] = IF d \in base THEN init[d] ELSE step[d][f[pred[d]]]
      BY <2>1
    <3>4. QED
      BY <3>2, <3>3
  <2> HIDE DEF g
  <2>4. QED
    BY <1>2, <2>2, <2>3
<1>3. 0 .. bound + 1 \subseteq T
  <2> HIDE DEF T
  <2>1. bound + 1 \in Nat
    OBVIOUS
  <2>2. QED
    BY <1>1, <1>2, <2>1, CountingUp
<1>4. bound + 1 \in T
  BY <1>3
<1>5. PICK f \in [D -> S] : \A d \in D : rank[d] < bound + 1 => Fits(f, d)
  BY <1>4
<1>6. \A d \in D : Fits(f, d)
  BY <1>5
<1>7. QED
  BY <1>6 DEF Solves

\* And no other.
AgreeUpwards(D, rank, f, g) ==
    /\ rank \in [D -> Nat] /\ f = [d \in D |-> f[d]] /\ g = [d \in D |-> g[d]]
    /\ \A d \in D : (\A c \in D : rank[c] < rank[d] => f[c] = g[c]) => f[d] = g[d]

LEMMA AgreeByRank ==
    ASSUME NEW D, NEW rank, NEW f, NEW g, AgreeUpwards(D, rank, f, g)
    PROVE  f = g
<1> USE DEF AgreeUpwards
<1> DEFINE T == {rank[d] : d \in {c \in D : f[c] # g[c]}}
<1>1. SUFFICES ASSUME T # {} PROVE FALSE
  OBVIOUS
<1>2. T \subseteq Nat
  OBVIOUS
<1>3. PICK m \in T : \A k \in T : ~(k < m)
  BY <1>1, <1>2, LeastNatural
<1>4. PICK d \in D : f[d] # g[d] /\ rank[d] = m
  BY <1>3
<1>5. \A c \in D : rank[c] < rank[d] => f[c] = g[c]
  BY <1>3, <1>4
<1>6. QED
  BY <1>4, <1>5

-----------------------------------------------------------------------------
(* Characters                                                              *)

LEMMA FirstIs ==
    ASSUME NEW text, Len(text) \in Nat, NEW i \in Nat, NEW characters,
           NEW j \in i .. (Len(text) + 1),
           j = Len(text) + 1 \/ text[j] \in characters,
           \A k \in i .. (j - 1) : text[k] \notin characters
    PROVE  FirstOf(text, i, characters) = j
<1> DEFINE n == Len(text)
           S == {k \in i .. n : text[k] \in characters} \cup {n + 1}
<1>1. j \in S /\ S \subseteq Nat
  OBVIOUS
<1>2. \A k \in S : j <= k
  OBVIOUS
<1>3. FirstOf(text, i, characters) = CHOOSE x \in S : \A y \in S : x <= y
  BY DEF FirstOf, Sets!Min
<1> HIDE DEF S
<1>4. \A x \in S : (\A y \in S : x <= y) => x = j
  BY <1>1, <1>2
<1>5. QED
  BY <1>1, <1>2, <1>3, <1>4

-----------------------------------------------------------------------------
(* FlattenSeq                                                              *)

\* f[k] is the first k of the sequences in a row.
Grows(seqs, f, C, n) ==
    /\ f \in [1 .. n -> Seq(C)] /\ f[1] = seqs[1]
    /\ \A i \in 1 .. n : i # 1 => f[i] = f[i - 1] \o seqs[i]

LEMMA FlattenGrows ==
    ASSUME NEW C, NEW n \in Nat, n > 0, NEW seqs \in [1 .. n -> Seq(C)]
    PROVE  \E f : Grows(seqs, f, C, n) /\ Seqs!FlattenSeq(seqs) = f[n]
<1> DEFINE D == 1 .. n
           Fits(f) == f = [i \in D |-> IF i = 1 THEN seqs[i] ELSE f[i - 1] \o seqs[i]]
           flatten == CHOOSE f : Fits(f)
           step == [i \in D |-> [s \in Seq(C) |-> s \o seqs[i]]]
           pred == [i \in D |-> IF i = 1 THEN 1 ELSE i - 1]
           rank == [i \in D |-> i]
<1>1. seqs \in Seq(Seq(C)) /\ Len(seqs) = n
  OBVIOUS
<1>2. Seqs!FlattenSeq(seqs) = flatten[n]
  BY <1>1 DEF Seqs!FlattenSeq
<1>3. IsRecursion(D, Seq(C), n, rank, pred, {1}, seqs, step)
  BY DEF IsRecursion
<1>4. PICK f \in [D -> Seq(C)] : Solves(f, D, pred, {1}, seqs, step)
  <2> HIDE DEF D, step, pred, rank
  <2>1. QED
    BY <1>3, RecursionByRank
<1>5. \A d \in D : f[d] = IF d = 1 THEN seqs[d] ELSE f[d - 1] \o seqs[d]
  <2>1. ASSUME NEW d \in D PROVE f[d] = IF d = 1 THEN seqs[d] ELSE f[d - 1] \o seqs[d]
    <3>1. f[d] = IF d = 1 THEN seqs[d] ELSE step[d][f[pred[d]]]
      BY <1>4 DEF Solves
    <3>2. d # 1 => pred[d] = d - 1 /\ f[d - 1] \in Seq(C)
      OBVIOUS
    <3>3. QED
      BY <3>1, <3>2
  <2>2. QED
    BY <2>1
<1>6. Fits(f)
  <2> HIDE DEF D
  <2>1. QED
    BY <1>5
<1> HIDE DEF Fits
<1>7. Fits(flatten)
  BY <1>6, Zenon
<1> HIDE DEF flatten
<1>8. flatten = [d \in D |-> flatten[d]]
      /\ \A d \in D : flatten[d] = IF d = 1 THEN seqs[d] ELSE flatten[d - 1] \o seqs[d]
  <2> HIDE DEF D
  <2>1. QED
    BY <1>7 DEF Fits
<1>9. ASSUME NEW d \in D, \A c \in D : rank[c] < rank[d] => flatten[c] = f[c]
      PROVE  flatten[d] = f[d]
  <2>1. d # 1 => flatten[d - 1] = f[d - 1]
    BY <1>9
  <2>2. QED
    BY <1>5, <1>8, <2>1
<1>10. AgreeUpwards(D, rank, flatten, f)
  <2>1. rank \in [D -> Nat] /\ f = [d \in D |-> f[d]]
    OBVIOUS
  <2> HIDE DEF D, rank
  <2>2. QED
    BY <1>8, <1>9, <2>1 DEF AgreeUpwards
<1>11. flatten = f
  <2> HIDE DEF D, rank
  <2>1. QED
    BY <1>10, AgreeByRank
<1>12. Grows(seqs, f, C, n)
  BY <1>5 DEF Grows
<1>13. QED
  BY <1>2, <1>11, <1>12

\* off[i] is how long the first i of the sequences are.
Places(seqs, off, text) ==
    /\ off[0] = 0
    /\ \A i \in DOMAIN seqs : /\ off[i] = off[i - 1] + Len(seqs[i])
                              /\ \A j \in 1 .. Len(seqs[i]) : text[off[i - 1] + j] = seqs[i][j]

LEMMA OffsetsGrow ==
    ASSUME NEW n \in Nat, NEW off \in [0 .. n -> Nat], \A i \in 1 .. n : off[i - 1] <= off[i],
           NEW i \in 0 .. n, NEW k \in i .. n
    PROVE  off[i] <= off[k]
<1> DEFINE M == {m \in 0 .. n : m < i \/ off[i] <= off[m]}
<1>1. 0 \in M
  OBVIOUS
<1>2. ASSUME NEW m \in 0 .. n, m \in M, m < n PROVE m + 1 \in M
  <2>1. m + 1 \in 1 .. n /\ (m + 1) - 1 = m
    BY <1>2
  <2>2. off[m] <= off[m + 1]
    BY <2>1
  <2>3. off[m] \in Nat /\ off[m + 1] \in Nat /\ off[i] \in Nat
    BY <2>1
  <2>4. CASE m + 1 < i
    BY <2>1, <2>4
  <2>5. CASE m + 1 = i
    BY <2>1, <2>3, <2>5
  <2>6. CASE i < m + 1
    <3>1. off[i] <= off[m]
      BY <1>2, <2>6
    <3>2. off[i] <= off[m + 1]
      BY <2>2, <2>3, <3>1
    <3>3. QED
      BY <2>1, <3>2
  <2>7. QED
    BY <2>4, <2>5, <2>6
<1>3. 0 .. n \subseteq M
  <2> HIDE DEF M
  <2>1. QED
    BY <1>1, <1>2, CountingUp
<1>4. QED
  BY <1>3

Joins(u, s, t) ==
    /\ Len(u) = Len(s) + Len(t)
    /\ \A i \in 1 .. Len(s) : u[i] = s[i]
    /\ \A j \in 1 .. Len(t) : u[Len(s) + j] = t[j]

LEMMA Joined ==
    ASSUME NEW C, NEW s \in Seq(C), NEW t \in Seq(C)
    PROVE  s \o t \in Seq(C) /\ Joins(s \o t, s, t)
<1>1. s \o t \in Seq(C) /\ Len(s \o t) = Len(s) + Len(t) /\ Len(s) \in Nat /\ Len(t) \in Nat
  OBVIOUS
<1>2. \A i \in 1 .. (Len(s) + Len(t)) : (s \o t)[i] = IF i <= Len(s) THEN s[i] ELSE t[i - Len(s)]
  OBVIOUS
<1>3. ASSUME NEW j \in 1 .. Len(t) PROVE (s \o t)[Len(s) + j] = t[j]
  <2>1. Len(s) + j \in 1 .. (Len(s) + Len(t)) /\ ~(Len(s) + j <= Len(s)) /\ (Len(s) + j) - Len(s) = j
    BY <1>1
  <2>2. QED
    BY <1>2, <2>1
<1>4. ASSUME NEW i \in 1 .. Len(s) PROVE (s \o t)[i] = s[i]
  <2>1. i \in 1 .. (Len(s) + Len(t)) /\ i <= Len(s)
    BY <1>1
  <2>2. QED
    BY <1>2, <2>1
<1>5. QED
  BY <1>1, <1>3, <1>4 DEF Joins

LEMMA FlattenPlaces ==
    ASSUME NEW C, NEW n \in Nat, n > 0, NEW seqs \in [1 .. n -> Seq(C)]
    PROVE  /\ Seqs!FlattenSeq(seqs) \in Seq(C)
           /\ \E off \in [0 .. n -> Nat] : /\ Len(Seqs!FlattenSeq(seqs)) = off[n]
                                           /\ Places(seqs, off, Seqs!FlattenSeq(seqs))
<1>1. PICK f : Grows(seqs, f, C, n) /\ Seqs!FlattenSeq(seqs) = f[n]
  BY FlattenGrows
<1>2. f \in [1 .. n -> Seq(C)] /\ f[1] = seqs[1]
  BY <1>1 DEF Grows
<1> DEFINE off == [i \in 0 .. n |-> IF i = 0 THEN 0 ELSE Len(f[i])]
           T == {k \in 0 .. n : \A i \in 1 .. k : \A j \in 1 .. Len(seqs[i]) :
                                    f[k][off[i - 1] + j] = seqs[i][j]}
<1>3. off \in [0 .. n -> Nat] /\ off[0] = 0
  BY <1>2
<1>4. \A i \in 1 .. n : off[i] = Len(f[i])
  OBVIOUS
<1> HIDE DEF off
<1>5. ASSUME NEW k \in 1 .. n, k + 1 \in 1 .. n PROVE Joins(f[k + 1], f[k], seqs[k + 1])
  <2>1. f[k + 1] = f[k] \o seqs[k + 1]
    <3>1. k + 1 # 1 /\ (k + 1) - 1 = k
      OBVIOUS
    <3>2. QED
      BY <1>1, <1>5, <3>1 DEF Grows
  <2>2. f[k] \in Seq(C) /\ seqs[k + 1] \in Seq(C)
    BY <1>2, <1>5
  <2>3. QED
    BY <2>1, <2>2, Joined
<1>6. ASSUME NEW i \in 1 .. n PROVE off[i] = off[i - 1] + Len(seqs[i])
  <2>1. CASE i = 1
    BY <1>2, <1>3, <1>4, <2>1
  <2>2. CASE i # 1
    <3>1. i - 1 \in 1 .. n /\ (i - 1) + 1 = i
      BY <2>2
    <3>2. Joins(f[i], f[i - 1], seqs[i])
      BY <1>5, <3>1
    <3>3. QED
      BY <1>4, <3>1, <3>2 DEF Joins
  <2>3. QED
    BY <2>1, <2>2
<1>7. \A i \in 1 .. n : /\ off[i] \in Nat /\ off[i - 1] \in Nat /\ Len(seqs[i]) \in Nat
                        /\ off[i - 1] <= off[i]
  <2>1. ASSUME NEW i \in 1 .. n PROVE off[i] \in Nat /\ off[i - 1] \in Nat /\ Len(seqs[i]) \in Nat
    <3>1. i \in 0 .. n /\ i - 1 \in 0 .. n /\ seqs[i] \in Seq(C)
      OBVIOUS
    <3>2. QED
      BY <1>3, <3>1
  <2>2. QED
    BY <1>6, <2>1
<1>8. 0 \in T
  OBVIOUS
<1>9. ASSUME NEW k \in 0 .. n, k \in T, k < n PROVE k + 1 \in T
  <2>1. ASSUME NEW i \in 1 .. k + 1, NEW j \in 1 .. Len(seqs[i])
        PROVE  f[k + 1][off[i - 1] + j] = seqs[i][j]
    <3>1. CASE k = 0
      BY <1>2, <1>3, <2>1, <3>1
    <3>2. CASE k # 0
      <4>1. k + 1 \in 1 .. n /\ k \in 1 .. n /\ (k + 1) - 1 = k /\ i \in 1 .. n
        BY <1>9, <3>2
      <4>2. Joins(f[k + 1], f[k], seqs[k + 1]) /\ Len(f[k]) = off[k]
        BY <1>4, <1>5, <4>1
      <4>3. CASE i = k + 1
        BY <4>1, <4>2, <4>3 DEF Joins
      <4>4. CASE i \in 1 .. k
        <5>1. off[i] <= off[k]
          <6>1. i \in 0 .. n /\ k \in i .. n
            BY <4>1, <4>4
          <6>2. off \in [0 .. n -> Nat] /\ \A m \in 1 .. n : off[m - 1] <= off[m]
            BY <1>3, <1>7
          <6>3. QED
            BY <6>1, <6>2, OffsetsGrow
        <5>2. off[i - 1] + j \in 1 .. off[k]
          <6>1. /\ off[i] \in Nat /\ off[i - 1] \in Nat /\ Len(seqs[i]) \in Nat
                /\ off[i] = off[i - 1] + Len(seqs[i])
            BY <1>6, <1>7, <4>1
          <6>2. off[k] \in Nat
            BY <1>7, <4>1
          <6> HIDE DEF T
          <6>3. QED
            BY <5>1, <6>1, <6>2
        <5>3. f[k + 1][off[i - 1] + j] = f[k][off[i - 1] + j]
          BY <4>2, <5>2 DEF Joins
        <5>4. QED
          BY <1>9, <4>4, <5>3
      <4>5. QED
        BY <4>1, <4>3, <4>4
    <3>3. QED
      BY <3>1, <3>2
  <2>2. QED
    BY <1>9, <2>1
<1>10. n \in T
  <2> HIDE DEF T
  <2>1. 0 .. n \subseteq T
    BY <1>8, <1>9, CountingUp
  <2>2. QED
    BY <2>1
<1>11. DOMAIN seqs = 1 .. n
  OBVIOUS
<1>12. Places(seqs, off, f[n])
  BY <1>3, <1>6, <1>10, <1>11 DEF Places
<1>13. Len(f[n]) = off[n] /\ f[n] \in Seq(C)
  BY <1>2, <1>4
<1>14. QED
  BY <1>1, <1>3, <1>12, <1>13

-----------------------------------------------------------------------------
(* Numbers                                                                 *)

TenDigits == {"0", "1", "2", "3", "4", "5", "6", "7", "8", "9"}

LEMMA DigitsAreTen ==
    /\ DOMAIN Digits = 1 .. 10 /\ Seqs!ToSet(Digits) = TenDigits
    /\ \A i \in 1 .. 10 : Digits[i] \in TenDigits
    /\ \A i, j \in 1 .. 10 : Digits[i] = Digits[j] => i = j
<1>1. DOMAIN Digits = 1 .. 10
  BY DEF Digits
<1>2. 1 .. 10 = {1, 2, 3, 4, 5, 6, 7, 8, 9, 10}
  OBVIOUS
<1>3. \A i \in 1 .. 10 : Digits[i] \in TenDigits
  BY <1>2 DEF Digits, TenDigits
<1>4. \A c \in TenDigits : \E i \in 1 .. 10 : Digits[i] = c
  BY <1>2 DEF Digits, TenDigits
<1>5. Seqs!ToSet(Digits) = TenDigits
  BY <1>1, <1>3, <1>4 DEF Seqs!ToSet
<1>6. \A i, j \in 1 .. 10 : Digits[i] = Digits[j] => i = j
  BY <1>2 DEF Digits
<1>7. QED
  BY <1>1, <1>3, <1>5, <1>6

LEMMA DigitValues ==
    /\ \A i \in 1 .. 10 : DigitValue(Digits[i]) = i - 1
    /\ \A c \in TenDigits : DigitValue(c) \in 0 .. 9
<1>1. ASSUME NEW i \in 1 .. 10 PROVE DigitValue(Digits[i]) = i - 1
  <2> DEFINE P(k) == Digits[k] = Digits[i]
  <2>1. \A k \in DOMAIN Digits : P(k) <=> k = i
    BY DigitsAreTen
  <2>2. (CHOOSE k \in DOMAIN Digits : P(k)) = i
    <3> HIDE DEF P
    <3>1. QED
      BY <2>1, DigitsAreTen
  <2>3. QED
    BY <2>2 DEF DigitValue
<1>2. ASSUME NEW c \in TenDigits PROVE DigitValue(c) \in 0 .. 9
  <2>1. PICK i \in 1 .. 10 : Digits[i] = c
    BY DigitsAreTen DEF Seqs!ToSet
  <2>2. QED
    BY <1>1, <2>1
<1>3. QED
  BY <1>1, <1>2

\* The number that the first k digits of a text spell, as Atoi sums it up.
Number(digits) ==
    LET number[k \in 0 .. Len(digits)] ==
            IF k = 0 THEN 0 ELSE 10 * number[k - 1] + DigitValue(digits[k])
    IN  number

Sums(f, digits) ==
    /\ f \in [0 .. Len(digits) -> Nat] /\ f[0] = 0
    /\ \A k \in 1 .. Len(digits) : f[k] = 10 * f[k - 1] + DigitValue(digits[k])

LEMMA NumberSums ==
    ASSUME NEW digits \in Seq(TenDigits)
    PROVE  Sums(Number(digits), digits)
<1> DEFINE n == Len(digits)
           D == 0 .. n
           Fits(f) == f = [k \in D |-> IF k = 0 THEN 0 ELSE 10 * f[k - 1] + DigitValue(digits[k])]
           number == CHOOSE f : Fits(f)
           init == [k \in D |-> 0]
           step == [k \in D |-> [v \in Nat |-> IF k = 0 THEN 0 ELSE 10 * v + DigitValue(digits[k])]]
           pred == [k \in D |-> IF k = 0 THEN 0 ELSE k - 1]
           rank == [k \in D |-> k]
<1>1. Number(digits) = number
  BY DEF Number
<1>2. n \in Nat /\ \A k \in 1 .. n : DigitValue(digits[k]) \in Nat
  BY DigitValues
<1>3. IsRecursion(D, Nat, n, rank, pred, {0}, init, step)
  <2>1. step \in [D -> [Nat -> Nat]]
    BY <1>2
  <2>2. n \in Nat /\ rank \in [D -> 0 .. n] /\ pred \in [D -> D] /\ init \in [D -> Nat]
    BY <1>2
  <2>3. \A k \in D : k \in {0} \/ rank[pred[k]] < rank[k]
    BY <1>2
  <2> HIDE DEF n, D, rank, pred, init, step
  <2>4. QED
    BY <2>1, <2>2, <2>3 DEF IsRecursion
<1>4. PICK f \in [D -> Nat] : Solves(f, D, pred, {0}, init, step)
  <2> HIDE DEF D, init, step, pred, rank
  <2>1. QED
    BY <1>3, RecursionByRank
<1>5. \A k \in D : f[k] = IF k = 0 THEN 0 ELSE 10 * f[k - 1] + DigitValue(digits[k])
  <2>1. ASSUME NEW k \in D PROVE f[k] = IF k = 0 THEN 0 ELSE 10 * f[k - 1] + DigitValue(digits[k])
    <3>1. f[k] = IF k = 0 THEN 0 ELSE step[k][f[pred[k]]]
      BY <1>4 DEF Solves
    <3>2. k # 0 => pred[k] = k - 1 /\ f[k - 1] \in Nat
      OBVIOUS
    <3>3. QED
      BY <3>1, <3>2
  <2>2. QED
    BY <2>1
<1>6. Fits(f)
  <2> HIDE DEF D
  <2>1. QED
    BY <1>5
<1> HIDE DEF Fits
<1>7. Fits(number)
  BY <1>6, Zenon
<1> HIDE DEF number
<1>8. number = [k \in D |-> number[k]]
      /\ \A k \in D : number[k] = IF k = 0 THEN 0 ELSE 10 * number[k - 1] + DigitValue(digits[k])
  <2> HIDE DEF D
  <2>1. QED
    BY <1>7 DEF Fits
<1>9. ASSUME NEW k \in D, \A c \in D : rank[c] < rank[k] => number[c] = f[c]
      PROVE  number[k] = f[k]
  <2>1. k # 0 => number[k - 1] = f[k - 1]
    BY <1>9
  <2>2. QED
    BY <1>5, <1>8, <2>1
<1>10. AgreeUpwards(D, rank, number, f)
  <2>1. rank \in [D -> Nat] /\ f = [k \in D |-> f[k]]
    OBVIOUS
  <2> HIDE DEF D, rank
  <2>2. QED
    BY <1>8, <1>9, <2>1 DEF AgreeUpwards
<1>11. number = f
  <2> HIDE DEF D, rank
  <2>1. QED
    BY <1>10, AgreeByRank
<1>12. QED
  BY <1>1, <1>5, <1>11 DEF Sums

LEMMA AtoiIsInt ==
    ASSUME NEW C, NEW text \in Seq(C)
    PROVE  Atoi(text) \subseteq Int
<1> DEFINE signed == text # <<>> /\ text[1] \in {"+", "-"}
           digits == IF signed THEN Tail(text) ELSE text
<1>1. digits \in Seq(C)
  OBVIOUS
<1>2. Atoi(text) =
          IF digits = <<>> \/ \E i \in DOMAIN digits : digits[i] \notin Seqs!ToSet(Digits) THEN {}
          ELSE {IF signed /\ text[1] = "-" THEN -Number(digits)[Len(digits)]
                ELSE Number(digits)[Len(digits)]}
  BY DEF Atoi, Number
<1> HIDE DEF digits, signed
<1>3. CASE \A i \in DOMAIN digits : digits[i] \in TenDigits
  <2>1. digits \in Seq(TenDigits)
    BY <1>1, <1>3
  <2>2. Number(digits)[Len(digits)] \in Int
    BY <2>1, NumberSums DEF Sums
  <2>3. QED
    BY <1>2, <2>2
<1>4. CASE ~ \A i \in DOMAIN digits : digits[i] \in TenDigits
  BY <1>2, <1>4, DigitsAreTen
<1>5. QED
  BY <1>3, <1>4

-----------------------------------------------------------------------------
(* What is read                                                            *)

LEMMA FirstOfFinds ==
    ASSUME NEW text, Len(text) \in Nat, NEW i \in Nat, i <= Len(text) + 1, NEW characters
    PROVE  /\ FirstOf(text, i, characters) \in i .. (Len(text) + 1)
           /\ \/ FirstOf(text, i, characters) = Len(text) + 1
              \/ text[FirstOf(text, i, characters)] \in characters
           /\ \A k \in i .. (FirstOf(text, i, characters) - 1) : text[k] \notin characters
<1> DEFINE T == {j \in i .. (Len(text) + 1) : j = Len(text) + 1 \/ text[j] \in characters}
<1>1. T \subseteq Nat /\ Len(text) + 1 \in T
  OBVIOUS
<1>2. PICK j \in T : \A k \in T : ~(k < j)
  BY <1>1, LeastNatural
<1>3. \A k \in i .. (j - 1) : text[k] \notin characters
  BY <1>2
<1>4. FirstOf(text, i, characters) = j
  BY <1>2, <1>3, FirstIs
<1>5. QED
  BY <1>2, <1>3, <1>4

Segs(C) == {Field(key) : key \in Seq(C)} \cup {Index(n) : n \in Int} \cup {AnyField, AnyIndex}

\* What parseFrom may read at i.
Reads(text, i) == IF text[i] = "[" THEN parseBracketSegment(text, i) ELSE {parseToken(text, i)}

LEMMA SubText ==
    ASSUME NEW C, NEW text \in Seq(C), NEW i \in Nat \ {0}, NEW j \in Nat, j <= Len(text)
    PROVE  SubSeq(text, i, j) \in Seq(C)
  OBVIOUS

LEMMA ReadsOnward ==
    ASSUME NEW C, NEW text \in Seq(C), NEW i \in 1 .. Len(text), text[i] # ".",
           NEW read \in Reads(text, i)
    PROVE  read[1] \in Segs(C) /\ read[2] \in (i + 1) .. (Len(text) + 1)
<1>1. Len(text) \in Nat /\ i \in Nat
  OBVIOUS
<1>2. CASE text[i] # "["
  <2> DEFINE end == FirstOf(text, i, {".", "["})
             token == SubSeq(text, i, end - 1)
  <2>1. end \in i .. (Len(text) + 1) /\ (end = Len(text) + 1 \/ text[end] \in {".", "["})
    BY <1>1, FirstOfFinds
  <2>2. end \in (i + 1) .. (Len(text) + 1)
    BY <1>1, <1>2, <2>1
  <2>3. token \in Seq(C)
    BY <1>1, <2>2, SubText
  <2>4. read = <<IF token = <<"*">> THEN AnyField ELSE Field(token), end>>
    BY <1>2 DEF Reads, parseToken
  <2> HIDE DEF end, token
  <2>5. QED
    BY <2>2, <2>3, <2>4 DEF Segs
<1>3. CASE text[i] = "["
  <2> DEFINE first == text[i + 1]
             quote == FirstOf(text, i + 2, {first})
             close == FirstOf(text, i + 1, {"]"})
  <2>1. read \in parseBracketSegment(text, i)
    BY <1>3 DEF Reads
  <2>2. i + 2 <= Len(text)
    BY <2>1 DEF parseBracketSegment
  <2>3. CASE first = "*"
    <3>1. read \in {<<AnyIndex, j>> : j \in {i + 3} \cap {close + 1}}
      BY <2>1, <2>2, <2>3 DEF parseBracketSegment
    <3>2. QED
      BY <1>1, <2>2, <3>1 DEF Segs
  <2>4. CASE first # "*" /\ first \in Quotes
    <3>1. quote \in (i + 2) .. (Len(text) + 1)
      BY <1>1, <2>2, FirstOfFinds
    <3>2. read \in {<<Field(SubSeq(text, i + 2, quote - 1)), j>> :
                       j \in {k \in {quote + 2} : quote < Len(text) /\ text[quote + 1] = "]"}}
      BY <2>1, <2>2, <2>4 DEF parseBracketSegment
    <3> HIDE DEF quote, first
    <3>3. read = <<Field(SubSeq(text, i + 2, quote - 1)), quote + 2>> /\ quote < Len(text)
      BY <3>2
    <3>4. SubSeq(text, i + 2, quote - 1) \in Seq(C)
      BY <1>1, <3>1, <3>3, SubText
    <3>5. read[2] \in (i + 1) .. (Len(text) + 1)
      BY <1>1, <3>1, <3>3
    <3>6. Field(SubSeq(text, i + 2, quote - 1)) \in Segs(C)
      BY <3>4 DEF Segs
    <3>7. QED
      BY <3>3, <3>5, <3>6
  <2>5. CASE first # "*" /\ first \notin Quotes
    <3>1. close \in (i + 1) .. (Len(text) + 1)
      BY <1>1, <2>2, FirstOfFinds
    <3>2. read \in {<<Index(n), close + 1>> :
                       n \in IF close > Len(text) THEN {} ELSE Atoi(SubSeq(text, i + 1, close - 1))}
      BY <2>1, <2>2, <2>5 DEF parseBracketSegment
    <3> HIDE DEF close, first
    <3>3. close <= Len(text)
      BY <1>1, <3>1, <3>2
    <3>4. PICK n \in Atoi(SubSeq(text, i + 1, close - 1)) : read = <<Index(n), close + 1>>
      BY <3>2, <3>3
    <3>5. SubSeq(text, i + 1, close - 1) \in Seq(C)
      BY <1>1, <3>1, <3>3, SubText
    <3>6. n \in Int
      BY <3>5, AtoiIsInt
    <3>7. close + 1 \in (i + 1) .. (Len(text) + 1)
      BY <1>1, <3>1, <3>3
    <3>8. Index(n) \in Segs(C)
      BY <3>6 DEF Segs
    <3>9. read[1] = Index(n) /\ read[2] = close + 1
      BY <3>4
    <3>10. QED
      BY <3>7, <3>8, <3>9
  <2>6. QED
    BY <2>3, <2>4, <2>5
<1>4. QED
  BY <1>2, <1>3

ReadAt(text, i) == CHOOSE read \in Reads(text, i) : TRUE

LEMMA ParseFromIs ==
    ASSUME NEW text, NEW rest, NEW i
    PROVE  parseFrom(text, rest, i) =
               IF i > Len(text) THEN <<>>
               ELSE IF text[i] = "." THEN rest[i + 1]
               ELSE IF Reads(text, i) = {} \/ rest[ReadAt(text, i)[2]] = Malformed THEN Malformed
               ELSE <<ReadAt(text, i)[1]>> \o rest[ReadAt(text, i)[2]]
  BY DEF parseFrom, ReadAt, Reads

\* Segments has, at every position of a text, what parseFrom makes of the rest of it.
LEMMA SegmentsParse ==
    ASSUME NEW C, NEW text \in Seq(C)
    PROVE  /\ Segments(text) \in [1 .. Len(text) + 1 -> Seq(Segs(C)) \cup {Malformed}]
           /\ \A i \in 1 .. Len(text) + 1 :
                  Segments(text)[i] = parseFrom(text, Segments(text), i)
<1> DEFINE n == Len(text)
           D == 1 .. n + 1
           S == Seq(Segs(C)) \cup {Malformed}
           Fits(f) == f = [i \in D |-> parseFrom(text, f, i)]
           parse == CHOOSE f : Fits(f)
           base == {n + 1} \cup {i \in 1 .. n : text[i] # "." /\ Reads(text, i) = {}}
           init == [i \in D |-> IF i > n THEN <<>> ELSE Malformed]
           step == [i \in D |-> [s \in S |->
                       IF i \in base THEN Malformed
                       ELSE IF text[i] = "." THEN s
                       ELSE IF s = Malformed THEN Malformed
                       ELSE <<ReadAt(text, i)[1]>> \o s]]
           pred == [i \in D |-> IF i \in base THEN i
                                ELSE IF text[i] = "." THEN i + 1 ELSE ReadAt(text, i)[2]]
           rank == [i \in D |-> n + 1 - i]
<1>1. Segments(text) = parse
  BY DEF Segments
<1>2. n \in Nat
  OBVIOUS
<1>3. ASSUME NEW i \in D, i \notin base, text[i] # "."
      PROVE  ReadAt(text, i)[1] \in Segs(C) /\ ReadAt(text, i)[2] \in (i + 1) .. (n + 1)
  <2>1. i \in 1 .. n /\ Reads(text, i) # {}
    BY <1>2, <1>3
  <2>2. ReadAt(text, i) \in Reads(text, i)
    BY <2>1 DEF ReadAt
  <2>3. QED
    BY <1>3, <2>1, <2>2, ReadsOnward
<1>4. step \in [D -> [S -> S]]
  <2>1. ASSUME NEW i \in D, NEW s \in S PROVE step[i][s] \in S
    <3>1. CASE i \in base \/ text[i] = "." \/ s = Malformed
      <4> HIDE DEF D, base
      <4>1. QED
        BY <3>1
    <3>2. CASE ~(i \in base \/ text[i] = "." \/ s = Malformed)
      <4>1. ReadAt(text, i)[1] \in Segs(C)
        BY <1>3, <3>2
      <4>2. s \in Seq(Segs(C))
        BY <3>2
      <4>3. <<ReadAt(text, i)[1]>> \o s \in Seq(Segs(C))
        BY <4>1, <4>2
      <4> HIDE DEF D, base
      <4>4. QED
        BY <3>2, <4>3
    <3>3. QED
      BY <3>1, <3>2
  <2>2. step = [i \in D |-> step[i]] /\ \A i \in D : step[i] = [s \in S |-> step[i][s]]
    <3> HIDE DEF D, S, base
    <3>1. QED
      OBVIOUS
  <2> HIDE DEF D, S, step
  <2>3. QED
    BY <2>1, <2>2
<1>5. pred \in [D -> D] /\ \A i \in D : i \in base \/ rank[pred[i]] < rank[i]
  <2>1. ASSUME NEW i \in D, i \notin base
        PROVE  pred[i] \in D /\ i < pred[i]
    <3>1. i \in 1 .. n
      BY <1>2, <2>1
    <3>2. CASE text[i] = "."
      BY <1>2, <2>1, <3>1, <3>2
    <3>3. CASE text[i] # "."
      <4>1. ReadAt(text, i)[2] \in (i + 1) .. (n + 1)
        BY <1>3, <2>1, <3>3
      <4>2. pred[i] = ReadAt(text, i)[2]
        <5> HIDE DEF base, D
        <5>1. QED
          BY <2>1, <3>3
      <4> HIDE DEF pred, base
      <4>3. QED
        BY <1>2, <3>1, <4>1, <4>2
    <3>4. QED
      BY <3>2, <3>3
  <2>2. \A i \in D : i \in base => pred[i] = i
    <3> HIDE DEF base, D
    <3>1. QED
      OBVIOUS
  <2>3. pred = [i \in D |-> pred[i]]
    <3> HIDE DEF base, D
    <3>1. QED
      OBVIOUS
  <2>4. ASSUME NEW i \in D, i \notin base PROVE rank[pred[i]] < rank[i]
    <3>1. pred[i] \in D /\ i < pred[i]
      BY <2>1, <2>4
    <3> HIDE DEF pred, base
    <3>2. QED
      BY <1>2, <3>1
  <2> HIDE DEF pred, base, D
  <2>5. QED
    BY <2>1, <2>2, <2>3, <2>4
<1>6. IsRecursion(D, S, n + 1, rank, pred, base, init, step)
  <2>1. n + 1 \in Nat /\ rank \in [D -> 0 .. n + 1]
    BY <1>2
  <2>2. init \in [D -> S]
    <3> HIDE DEF D
    <3>1. <<>> \in S /\ Malformed \in S
      OBVIOUS
    <3> HIDE DEF S
    <3>2. QED
      BY <3>1
  <2> HIDE DEF n, D, S, base, init, step, pred, rank
  <2>3. QED
    BY <1>4, <1>5, <2>1, <2>2 DEF IsRecursion
<1>7. PICK f \in [D -> S] : Solves(f, D, pred, base, init, step)
  <2> HIDE DEF n, D, S, base, init, step, pred, rank
  <2>1. QED
    BY <1>6, RecursionByRank
<1>8. \A i \in D : f[i] = parseFrom(text, f, i)
  <2>1. ASSUME NEW i \in D PROVE f[i] = parseFrom(text, f, i)
    <3>1. f[i] = IF i \in base THEN init[i] ELSE step[i][f[pred[i]]]
      BY <1>7 DEF Solves
    <3>2. CASE i = n + 1
      <4>1. i \in base /\ init[i] = <<>> /\ i > Len(text)
        BY <1>2, <3>2
      <4> HIDE DEF base, init
      <4>2. QED
        BY <3>1, <4>1, ParseFromIs
    <3>3. CASE i # n + 1 /\ i \in base
      <4>1. i \in 1 .. n /\ text[i] # "." /\ Reads(text, i) = {} /\ ~(i > Len(text))
        BY <1>2, <3>3
      <4>2. init[i] = Malformed
        BY <1>2, <4>1
      <4> HIDE DEF base, init
      <4>3. QED
        BY <3>1, <3>3, <4>1, <4>2, ParseFromIs
    <3>4. CASE i \notin base
      <4>1. i \in 1 .. n /\ ~(i > Len(text)) /\ (text[i] # "." => Reads(text, i) # {})
        BY <1>2, <3>4
      <4>2. pred[i] = IF text[i] = "." THEN i + 1 ELSE ReadAt(text, i)[2]
        <5> HIDE DEF base, D
        <5>1. QED
          BY <3>4
      <4>3. f[pred[i]] \in S
        <5>1. pred[i] \in D
          BY <1>5
        <5> HIDE DEF pred, D
        <5>2. QED
          BY <5>1
      <4>4. step[i][f[pred[i]]] = IF text[i] = "." THEN f[pred[i]]
                                  ELSE IF f[pred[i]] = Malformed THEN Malformed
                                  ELSE <<ReadAt(text, i)[1]>> \o f[pred[i]]
        <5> HIDE DEF base, D, S, pred
        <5>1. QED
          BY <3>4, <4>3
      <4> HIDE DEF base, D, S, pred, step
      <4>5. f[i] = step[i][f[pred[i]]]
        BY <3>1, <3>4
      <4>6. CASE text[i] = "."
        BY <4>1, <4>2, <4>4, <4>5, <4>6, ParseFromIs
      <4>7. CASE text[i] # "."
        <5>1. parseFrom(text, f, i) = IF f[ReadAt(text, i)[2]] = Malformed THEN Malformed
                                      ELSE <<ReadAt(text, i)[1]>> \o f[ReadAt(text, i)[2]]
          BY <4>1, <4>7, ParseFromIs
        <5>2. QED
          BY <4>2, <4>4, <4>5, <4>7, <5>1
      <4>8. QED
        BY <4>6, <4>7
    <3>5. QED
      BY <3>2, <3>3, <3>4
  <2>2. QED
    BY <2>1
<1>9. Fits(f)
  <2> HIDE DEF D
  <2>1. QED
    BY <1>8
<1> HIDE DEF Fits
<1>10. Fits(parse)
  BY <1>9, Zenon
<1> HIDE DEF parse
<1>11. parse = [i \in D |-> parse[i]] /\ \A i \in D : parse[i] = parseFrom(text, parse, i)
  <2> HIDE DEF D
  <2>1. QED
    BY <1>10 DEF Fits
<1>12. ASSUME NEW i \in D, \A c \in D : rank[c] < rank[i] => parse[c] = f[c]
       PROVE  parse[i] = f[i]
  <2>1. i \notin base => pred[i] \in D /\ rank[pred[i]] < rank[i]
    BY <1>5
  <2>2. i \notin base => parse[pred[i]] = f[pred[i]]
    BY <1>12, <2>1
  <2>3. parseFrom(text, parse, i) = parseFrom(text, f, i)
    <3>1. CASE i \in base
      <4>1. i > Len(text) \/ (text[i] # "." /\ Reads(text, i) = {})
        BY <1>2, <3>1
      <4>2. QED
        BY <4>1, ParseFromIs
    <3>2. CASE i \notin base
      <4>1. pred[i] = IF text[i] = "." THEN i + 1 ELSE ReadAt(text, i)[2]
        <5> HIDE DEF base, D
        <5>1. QED
          BY <3>2
      <4> HIDE DEF base, D, pred
      <4>2. QED
        BY <2>2, <3>2, <4>1, ParseFromIs
    <3>3. QED
      BY <3>1, <3>2
  <2>4. QED
    BY <1>8, <1>11, <2>3
<1>13. AgreeUpwards(D, rank, parse, f)
  <2>1. rank \in [D -> Nat] /\ f = [i \in D |-> f[i]]
    BY <1>2
  <2> HIDE DEF D, rank
  <2>2. QED
    BY <1>11, <1>12, <2>1 DEF AgreeUpwards
<1>14. parse = f
  <2> HIDE DEF D, rank
  <2>1. QED
    BY <1>13, AgreeByRank
<1>15. QED
  <2> HIDE DEF parse, Fits
  <2>1. QED
    BY <1>1, <1>8, <1>14

-----------------------------------------------------------------------------
(* A segment and what follows it                                           *)

\* At i stands segment s, and at e what follows it.
Continues(parse, i, s, e) ==
    parse[i] = IF parse[e] = Malformed THEN Malformed ELSE <<s>> \o parse[e]

LEMMA ReadsOne ==
    ASSUME NEW C, NEW text \in Seq(C), NEW i \in 1 .. Len(text), text[i] # ".",
           NEW s, NEW e, Reads(text, i) = {<<s, e>>}
    PROVE  Continues(Segments(text), i, s, e)
<1>1. Reads(text, i) # {} /\ ReadAt(text, i) = <<s, e>>
  BY DEF ReadAt
<1>2. i \in 1 .. Len(text) + 1 /\ ~(i > Len(text))
  OBVIOUS
<1>3. Segments(text)[i] = parseFrom(text, Segments(text), i)
  BY <1>2, SegmentsParse
<1>4. QED
  BY <1>1, <1>2, <1>3, ParseFromIs DEF Continues

LEMMA ReadsNothing ==
    ASSUME NEW C, NEW text \in Seq(C), NEW i \in 1 .. Len(text), text[i] # ".", Reads(text, i) = {}
    PROVE  Segments(text)[i] = Malformed
<1>1. i \in 1 .. Len(text) + 1 /\ ~(i > Len(text))
  OBVIOUS
<1>2. Segments(text)[i] = parseFrom(text, Segments(text), i)
  BY <1>1, SegmentsParse
<1>3. QED
  BY <1>1, <1>2, ParseFromIs

LEMMA ReadsDot ==
    ASSUME NEW C, NEW text \in Seq(C), NEW i \in 1 .. Len(text), text[i] = "."
    PROVE  Segments(text)[i] = Segments(text)[i + 1]
<1>1. i \in 1 .. Len(text) + 1 /\ ~(i > Len(text))
  OBVIOUS
<1>2. Segments(text)[i] = parseFrom(text, Segments(text), i)
  BY <1>1, SegmentsParse
<1>3. QED
  BY <1>1, <1>2, ParseFromIs

LEMMA ReadsEnd ==
    ASSUME NEW C, NEW text \in Seq(C)
    PROVE  Segments(text)[Len(text) + 1] = <<>>
<1>1. Len(text) + 1 \in 1 .. Len(text) + 1 /\ Len(text) + 1 > Len(text)
  OBVIOUS
<1>2. Segments(text)[Len(text) + 1] = parseFrom(text, Segments(text), Len(text) + 1)
  BY <1>1, SegmentsParse
<1>3. QED
  BY <1>1, <1>2, ParseFromIs

\* A token ends where the text does, and at a dot or a bracket.
Ends(text, e) == e = Len(text) + 1 \/ text[e] \in {".", "["}

LEMMA ReadsToken ==
    ASSUME NEW C, NEW text \in Seq(C), NEW i \in 1 .. Len(text), NEW e \in (i + 1) .. (Len(text) + 1),
           Ends(text, e), \A k \in i .. (e - 1) : text[k] \notin {".", "["}
    PROVE  Continues(Segments(text), i,
                     IF SubSeq(text, i, e - 1) = <<"*">> THEN AnyField
                     ELSE Field(SubSeq(text, i, e - 1)), e)
<1>1. text[i] \notin {".", "["}
  OBVIOUS
<1>2. FirstOf(text, i, {".", "["}) = e
  <2>1. Len(text) \in Nat /\ i \in Nat /\ e \in i .. (Len(text) + 1)
    OBVIOUS
  <2>2. e = Len(text) + 1 \/ text[e] \in {".", "["}
    BY DEF Ends
  <2>3. QED
    BY <2>1, <2>2, FirstIs
<1>3. Reads(text, i) = {<<IF SubSeq(text, i, e - 1) = <<"*">> THEN AnyField
                          ELSE Field(SubSeq(text, i, e - 1)), e>>}
  BY <1>1, <1>2 DEF Reads, parseToken
<1>4. QED
  BY <1>1, <1>3, ReadsOne

LEMMA ReadsAnyIndex ==
    ASSUME NEW C, NEW text \in Seq(C), NEW i \in 1 .. Len(text), i + 2 <= Len(text),
           text[i] = "[", text[i + 1] = "*", text[i + 2] = "]"
    PROVE  Continues(Segments(text), i, AnyIndex, i + 3)
<1>1. FirstOf(text, i + 1, {"]"}) = i + 2
  <2>1. i + 2 \in (i + 1) .. (Len(text) + 1) /\ i + 1 \in Nat /\ Len(text) \in Nat
    OBVIOUS
  <2>2. \A k \in (i + 1) .. ((i + 2) - 1) : text[k] \notin {"]"}
    <3>1. \A k \in (i + 1) .. ((i + 2) - 1) : k = i + 1
      OBVIOUS
    <3>2. QED
      BY <3>1
  <2>3. i + 2 = Len(text) + 1 \/ text[i + 2] \in {"]"}
    OBVIOUS
  <2>4. QED
    BY <2>1, <2>2, <2>3, FirstIs
<1>2. ~(i + 2 > Len(text)) /\ (i + 2) + 1 = i + 3
  OBVIOUS
<1>3. parseBracketSegment(text, i) = {<<AnyIndex, j>> : j \in {i + 3} \cap {(i + 2) + 1}}
  BY <1>1, <1>2 DEF parseBracketSegment
<1>4. Reads(text, i) = {<<AnyIndex, i + 3>>}
  BY <1>2, <1>3 DEF Reads
<1>5. QED
  BY <1>4, ReadsOne

\* A quoted key ends at the next quote, and is lost unless a bracket follows.
LEMMA ReadsQuoted ==
    ASSUME NEW C, NEW text \in Seq(C), NEW i \in 1 .. Len(text), i + 2 <= Len(text),
           text[i] = "[", text[i + 1] = "'",
           NEW q \in (i + 2) .. Len(text), text[q] = "'",
           \A k \in (i + 2) .. (q - 1) : text[k] # "'"
    PROVE  IF q < Len(text) /\ text[q + 1] = "]"
           THEN Continues(Segments(text), i, Field(SubSeq(text, i + 2, q - 1)), q + 2)
           ELSE Segments(text)[i] = Malformed
<1>1. FirstOf(text, i + 2, {"'"}) = q
  <2>1. q \in (i + 2) .. (Len(text) + 1) /\ i + 2 \in Nat /\ Len(text) \in Nat
    OBVIOUS
  <2>2. \A k \in (i + 2) .. (q - 1) : text[k] \notin {"'"}
    OBVIOUS
  <2>3. q = Len(text) + 1 \/ text[q] \in {"'"}
    OBVIOUS
  <2>4. QED
    BY <2>1, <2>2, <2>3, FirstIs
<1>2. ~(i + 2 > Len(text)) /\ "'" \in Quotes /\ "'" # "*"
  BY DEF Quotes
<1>3. parseBracketSegment(text, i) =
          {<<Field(SubSeq(text, i + 2, q - 1)), j>> :
              j \in {k \in {q + 2} : q < Len(text) /\ text[q + 1] = "]"}}
  BY <1>1, <1>2 DEF parseBracketSegment
<1>4. Reads(text, i) = {<<Field(SubSeq(text, i + 2, q - 1)), j>> :
                           j \in {k \in {q + 2} : q < Len(text) /\ text[q + 1] = "]"}}
  BY <1>3 DEF Reads
<1>5. CASE q < Len(text) /\ text[q + 1] = "]"
  <2>1. Reads(text, i) = {<<Field(SubSeq(text, i + 2, q - 1)), q + 2>>}
    BY <1>4, <1>5
  <2>2. QED
    BY <1>5, <2>1, ReadsOne
<1>6. CASE ~(q < Len(text) /\ text[q + 1] = "]")
  <2>1. Reads(text, i) = {}
    BY <1>4, <1>6
  <2>2. QED
    BY <1>6, <2>1, ReadsNothing
<1>7. QED
  BY <1>5, <1>6

LEMMA ReadsIndex ==
    ASSUME NEW C, NEW text \in Seq(C), NEW i \in 1 .. Len(text), i + 2 <= Len(text),
           text[i] = "[", text[i + 1] # "*", text[i + 1] \notin Quotes,
           NEW c \in (i + 1) .. Len(text), text[c] = "]",
           \A k \in (i + 1) .. (c - 1) : text[k] # "]",
           NEW n, Atoi(SubSeq(text, i + 1, c - 1)) = {n}
    PROVE  Continues(Segments(text), i, Index(n), c + 1)
<1>1. FirstOf(text, i + 1, {"]"}) = c
  <2>1. c \in (i + 1) .. (Len(text) + 1) /\ i + 1 \in Nat /\ Len(text) \in Nat
    OBVIOUS
  <2>2. \A k \in (i + 1) .. (c - 1) : text[k] \notin {"]"}
    OBVIOUS
  <2>3. c = Len(text) + 1 \/ text[c] \in {"]"}
    OBVIOUS
  <2>4. QED
    BY <2>1, <2>2, <2>3, FirstIs
<1>2. ~(i + 2 > Len(text)) /\ ~(c > Len(text))
  OBVIOUS
<1>3. parseBracketSegment(text, i) =
          {<<Index(m), c + 1>> : m \in Atoi(SubSeq(text, i + 1, c - 1))}
  BY <1>1, <1>2 DEF parseBracketSegment
<1>4. Reads(text, i) = {<<Index(n), c + 1>>}
  BY <1>3 DEF Reads
<1>5. QED
  BY <1>4, ReadsOne

-----------------------------------------------------------------------------
(* Numerals                                                                *)

Spells(digits, v) ==
    digits \in Seq(TenDigits) /\ Len(digits) >= 1 /\ Number(digits)[Len(digits)] = v

LEMMA OneMoreDigit ==
    ASSUME NEW s \in Seq(TenDigits), NEW d \in 1 .. 10
    PROVE  Number(Append(s, Digits[d]))[Len(s) + 1] = 10 * Number(s)[Len(s)] + (d - 1)
<1> DEFINE t == Append(s, Digits[d])
           n == Len(s)
           M == {k \in 0 .. n : Number(t)[k] = Number(s)[k]}
<1>1. t \in Seq(TenDigits) /\ Len(t) = n + 1 /\ n \in Nat
  BY DigitsAreTen
<1>2. t[n + 1] = Digits[d] /\ \A k \in 1 .. n : t[k] = s[k]
  BY DigitsAreTen
<1> HIDE DEF t
<1>3. Sums(Number(t), t) /\ Sums(Number(s), s)
  BY <1>1, NumberSums
<1>4. 0 \in M
  BY <1>1, <1>3 DEF Sums
<1>5. ASSUME NEW k \in 0 .. n, k \in M, k < n PROVE k + 1 \in M
  <2>1. k + 1 \in 1 .. n /\ k + 1 \in 1 .. Len(t) /\ (k + 1) - 1 = k /\ k + 1 \in 0 .. n
    BY <1>1, <1>5
  <2>2. Number(t)[k + 1] = 10 * Number(t)[k] + DigitValue(t[k + 1])
    BY <1>3, <2>1 DEF Sums
  <2>3. Number(s)[k + 1] = 10 * Number(s)[k] + DigitValue(s[k + 1])
    BY <1>3, <2>1 DEF Sums
  <2>4. QED
    BY <1>2, <1>5, <2>1, <2>2, <2>3
<1>6. n \in M
  <2> HIDE DEF M, n
  <2>1. 0 .. n \subseteq M
    BY <1>1, <1>4, <1>5, CountingUp
  <2>2. QED
    BY <1>1, <2>1
<1>7. Number(t)[n + 1] = 10 * Number(t)[n] + DigitValue(t[n + 1])
  <2>1. n + 1 \in 1 .. Len(t) /\ (n + 1) - 1 = n
    BY <1>1
  <2>2. QED
    BY <1>3, <2>1 DEF Sums
<1>8. DigitValue(t[n + 1]) = d - 1
  BY <1>2, DigitValues
<1>9. QED
  BY <1>6, <1>7, <1>8 DEF t

LEMMA DecimalSpells ==
    ASSUME NEW n \in Nat
    PROVE  Spells(Decimal(n), n)
<1> DEFINE D == 0 .. n
           S == Seq(TenDigits)
           Fits(f) == f = [k \in D |-> IF k < 10 THEN <<Digits[k + 1]>>
                                       ELSE Append(f[k \div 10], Digits[(k % 10) + 1])]
           decimal == CHOOSE f : Fits(f)
           base == {k \in D : k < 10}
           init == [k \in D |-> IF k < 10 THEN <<Digits[k + 1]>> ELSE <<>>]
           step == [k \in D |-> [s \in S |-> Append(s, Digits[(k % 10) + 1])]]
           pred == [k \in D |-> k \div 10]
           rank == [k \in D |-> k]
<1>1. Decimal(n) = decimal[n]
  BY DEF Decimal
<1>2. \A k \in Nat : /\ k \div 10 \in Nat /\ k % 10 \in 0 .. 9 /\ (k % 10) + 1 \in 1 .. 10
                     /\ k = 10 * (k \div 10) + (k % 10)
                     /\ k \div 10 <= k /\ (k >= 10 => k \div 10 < k)
  OBVIOUS
<1>3. IsRecursion(D, S, n, rank, pred, base, init, step)
  <2>1. pred \in [D -> D] /\ rank \in [D -> 0 .. n]
    BY <1>2
  <2>2. \A k \in D : k \in base \/ rank[pred[k]] < rank[k]
    <3>1. ASSUME NEW k \in D, k \notin base PROVE rank[pred[k]] < rank[k]
      <4>1. k >= 10 /\ k \in Nat
        BY <3>1
      <4>2. k \div 10 \in D /\ k \div 10 < k
        BY <1>2, <4>1
      <4>3. QED
        BY <4>2
    <3>2. QED
      BY <3>1
  <2>3. init \in [D -> S]
    <3>1. ASSUME NEW k \in D, k < 10 PROVE <<Digits[k + 1]>> \in S
      <4>1. k + 1 \in 1 .. 10
        BY <3>1
      <4>2. QED
        BY <4>1, DigitsAreTen
    <3>2. <<>> \in S
      OBVIOUS
    <3> HIDE DEF S, D
    <3>3. QED
      BY <3>1, <3>2
  <2>4. step \in [D -> [S -> S]]
    <3>1. ASSUME NEW k \in D, NEW s \in S PROVE Append(s, Digits[(k % 10) + 1]) \in S
      <4>1. Digits[(k % 10) + 1] \in TenDigits
        BY <1>2, DigitsAreTen
      <4>2. QED
        BY <4>1
    <3> HIDE DEF S, D
    <3>2. QED
      BY <3>1
  <2> HIDE DEF D, S, rank, pred, base, init, step
  <2>5. QED
    BY <2>1, <2>2, <2>3, <2>4 DEF IsRecursion
<1>4. PICK f \in [D -> S] : Solves(f, D, pred, base, init, step)
  <2> HIDE DEF D, S, base, init, step, pred, rank
  <2>1. QED
    BY <1>3, RecursionByRank
<1>5. ASSUME NEW k \in D
      PROVE  f[k] = IF k < 10 THEN <<Digits[k + 1]>> ELSE Append(f[k \div 10], Digits[(k % 10) + 1])
  <2>1. f[k] = IF k \in base THEN init[k] ELSE step[k][f[pred[k]]]
    BY <1>4 DEF Solves
  <2>2. CASE k < 10
    BY <2>1, <2>2
  <2>3. CASE ~(k < 10)
    <3>1. k \div 10 \in D /\ pred[k] = k \div 10
      BY <1>2
    <3>2. f[pred[k]] \in S
      BY <3>1
    <3> HIDE DEF D, S
    <3>3. QED
      BY <2>1, <2>3, <3>1, <3>2
  <2>4. QED
    BY <2>2, <2>3
<1>6. Fits(f)
  <2> HIDE DEF D
  <2>1. QED
    BY <1>5
<1> HIDE DEF Fits
<1>7. Fits(decimal)
  BY <1>6, Zenon
<1> HIDE DEF decimal
<1>8. decimal = [k \in D |-> decimal[k]]
      /\ \A k \in D : decimal[k] = IF k < 10 THEN <<Digits[k + 1]>>
                                   ELSE Append(decimal[k \div 10], Digits[(k % 10) + 1])
  <2> HIDE DEF D
  <2>1. QED
    BY <1>7 DEF Fits
<1>9. ASSUME NEW k \in D, \A c \in D : rank[c] < rank[k] => decimal[c] = f[c]
      PROVE  decimal[k] = f[k]
  <2>1. ~(k < 10) => k \div 10 \in D /\ k \div 10 < k
    BY <1>2
  <2>2. ~(k < 10) => decimal[k \div 10] = f[k \div 10]
    BY <1>9, <2>1
  <2>3. QED
    BY <1>5, <1>8, <2>2
<1>10. AgreeUpwards(D, rank, decimal, f)
  <2>1. rank \in [D -> Nat] /\ f = [k \in D |-> f[k]]
    OBVIOUS
  <2> HIDE DEF D, rank
  <2>2. QED
    BY <1>8, <1>9, <2>1 DEF AgreeUpwards
<1>11. decimal = f
  <2> HIDE DEF D, rank
  <2>1. QED
    BY <1>10, AgreeByRank
<1> DEFINE Wrong == {k \in D : ~Spells(f[k], k)}
<1>12. SUFFICES ASSUME Wrong # {} PROVE FALSE
  <2>1. n \in D
    OBVIOUS
  <2> HIDE DEF D
  <2>2. QED
    BY <1>1, <1>11, <2>1
<1>13. Wrong \subseteq Nat
  OBVIOUS
<1>14. PICK k \in Wrong : \A c \in Wrong : ~(c < k)
  BY <1>12, <1>13, LeastNatural
<1>15. k \in D /\ k \in Nat
  BY <1>14
<1>16. CASE k < 10
  <2>1. k + 1 \in 1 .. 10 /\ (k + 1) - 1 = k
    BY <1>15, <1>16
  <2>2. f[k] = Append(<<>>, Digits[k + 1])
    BY <1>5, <1>15, <1>16
  <2>3. <<>> \in Seq(TenDigits) /\ Len(<<>>) = 0
    OBVIOUS
  <2>4. Number(<<>>)[0] = 0
    BY <2>3, NumberSums DEF Sums
  <2>5. Number(f[k])[1] = 10 * 0 + k
    <3>1. Number(Append(<<>>, Digits[k + 1]))[Len(<<>>) + 1] = 10 * Number(<<>>)[Len(<<>>)] + ((k + 1) - 1)
      BY <2>1, <2>3, OneMoreDigit
    <3>2. QED
      BY <2>1, <2>2, <2>3, <2>4, <3>1
  <2>6. f[k] \in Seq(TenDigits) /\ Len(f[k]) = 1
    <3> DEFINE c == Digits[k + 1]
    <3>1. c \in TenDigits
      BY <2>1, DigitsAreTen
    <3> HIDE DEF c
    <3>2. Append(<<>>, c) \in Seq(TenDigits) /\ Len(Append(<<>>, c)) = 1
      BY <3>1
    <3>3. QED
      BY <2>2, <3>2 DEF c
  <2>7. Spells(f[k], k)
    BY <1>15, <2>5, <2>6 DEF Spells
  <2>8. QED
    BY <1>14, <2>7
<1>17. CASE ~(k < 10)
  <2> DEFINE h == k \div 10
             d == (k % 10) + 1
  <2>1. h \in D /\ h < k /\ d \in 1 .. 10 /\ k = 10 * h + (d - 1) /\ h \in Nat
    BY <1>2, <1>15, <1>17
  <2>2. f[k] = Append(f[h], Digits[d])
    BY <1>5, <1>15, <1>17
  <2> HIDE DEF h, d
  <2>3. Spells(f[h], h)
    BY <1>14, <2>1
  <2>4. f[h] \in Seq(TenDigits) /\ Number(f[h])[Len(f[h])] = h
    BY <2>3 DEF Spells
  <2>5. Number(f[k])[Len(f[h]) + 1] = k
    BY <2>1, <2>2, <2>4, OneMoreDigit
  <2>6. f[k] \in Seq(TenDigits) /\ Len(f[k]) = Len(f[h]) + 1 /\ Len(f[k]) >= 1
    BY <2>1, <2>2, <2>4, DigitsAreTen
  <2>7. Spells(f[k], k)
    BY <2>5, <2>6 DEF Spells
  <2>8. QED
    BY <1>14, <2>7
<1>18. QED
  BY <1>16, <1>17

\* A numeral is read as the number it was written for.
LEMMA NumeralReads ==
    ASSUME NEW n \in Int
    PROVE  /\ Numeral(n) \in Seq(TenDigits \cup {"-"}) /\ Len(Numeral(n)) >= 1
           /\ Atoi(Numeral(n)) = {n}
<1>1. CASE n >= 0
  <2> DEFINE t == Decimal(n)
  <2>1. Spells(t, n)
    BY <1>1, DecimalSpells
  <2>2. Numeral(n) = t
    BY <1>1 DEF Numeral
  <2> HIDE DEF t
  <2>3. t \in Seq(TenDigits) /\ Len(t) >= 1 /\ Number(t)[Len(t)] = n
    BY <2>1 DEF Spells
  <2>4. t \in Seq(TenDigits \cup {"-"}) /\ t # <<>> /\ DOMAIN t = 1 .. Len(t)
    BY <2>3
  <2>5. t[1] \in TenDigits /\ \A i \in DOMAIN t : t[i] \in Seqs!ToSet(Digits)
    BY <2>3, DigitsAreTen
  <2>6. t[1] \notin {"+", "-"}
    BY <2>5 DEF TenDigits
  <2>7. Atoi(t) = {Number(t)[Len(t)]}
    BY <2>4, <2>5, <2>6 DEF Atoi, Number
  <2>8. QED
    BY <2>2, <2>3, <2>4, <2>7
<1>2. CASE n < 0
  <2> DEFINE u == Decimal(-n)
             t == <<"-">> \o u
  <2>1. Spells(u, -n)
    BY <1>2, DecimalSpells
  <2>2. Numeral(n) = t
    BY <1>2 DEF Numeral
  <2> HIDE DEF u
  <2>3. u \in Seq(TenDigits) /\ Len(u) >= 1 /\ Number(u)[Len(u)] = -n
    BY <2>1 DEF Spells
  <2>4. u # <<>> /\ \A i \in DOMAIN u : u[i] \in Seqs!ToSet(Digits)
    BY <2>3, DigitsAreTen
  <2>5. u \in Seq(TenDigits \cup {"-"}) /\ <<"-">> \in Seq(TenDigits \cup {"-"})
    BY <2>3
  <2>6. t \in Seq(TenDigits \cup {"-"}) /\ Len(t) >= 1
    BY <2>3, <2>5
  <2>7. t # <<>> /\ t[1] = "-" /\ Tail(t) = u
    BY <2>3, <2>5
  <2> HIDE DEF t
  <2>8. Atoi(t) = {-Number(u)[Len(u)]}
    BY <2>4, <2>7 DEF Atoi, Number
  <2>9. -(-n) = n
    OBVIOUS
  <2>10. QED
    BY <2>2, <2>3, <2>6, <2>8, <2>9
<1>3. QED
  BY <1>1, <1>2

-----------------------------------------------------------------------------
(* What is written                                                         *)

\* The characters that RenderPath adds to those of the keys.
Alphabet == Punctuation \cup TenDigits \cup {"-"}

Escaped(key) ==
    Seqs!FlattenSeq([i \in DOMAIN key |-> IF key[i] = "'" THEN <<"\\", "'">> ELSE <<key[i]>>])

\* The first apostrophe of a key.
Apostrophe(key, a) == a \in DOMAIN key /\ key[a] = "'" /\ \A j \in 1 .. a - 1 : key[j] # "'"

CutShort(key, a, text) ==
    /\ a + 1 <= Len(text)
    /\ \A j \in 1 .. a - 1 : text[j] = key[j]
    /\ text[a] = "\\" /\ text[a + 1] = "'"
    /\ IF a = Len(key) THEN Len(text) = a + 1
       ELSE a + 2 <= Len(text) /\ text[a + 2] = IF key[a + 1] = "'" THEN "\\" ELSE key[a + 1]

LEMMA EscapedIs ==
    ASSUME NEW C, Alphabet \subseteq C, NEW key \in Seq(C)
    PROVE  /\ Escaped(key) \in Seq(C)
           /\ (\A j \in DOMAIN key : key[j] # "'") => Escaped(key) = key
           /\ \A a \in DOMAIN key : Apostrophe(key, a) => CutShort(key, a, Escaped(key))
<1> DEFINE n == Len(key)
           pieces == [i \in DOMAIN key |-> IF key[i] = "'" THEN <<"\\", "'">> ELSE <<key[i]>>]
           text == Escaped(key)
<1>1. n \in Nat /\ DOMAIN key = 1 .. n /\ key = [i \in 1 .. n |-> key[i]]
  OBVIOUS
<1>2. text = Seqs!FlattenSeq(pieces)
  BY DEF Escaped
<1>3. CASE n = 0
  <2>1. key = <<>> /\ pieces = <<>> /\ DOMAIN key = {}
    BY <1>1, <1>3
  <2>2. Len(<<>>) = 0
    OBVIOUS
  <2>3. Escaped(key) = <<>>
    BY <1>2, <2>1, <2>2 DEF Seqs!FlattenSeq
  <2>4. QED
    BY <2>1, <2>3
<1>4. CASE n > 0
  <2>1. "'" \in C /\ "\\" \in C
    BY DEF Alphabet, Punctuation, Quotes
  <2>2. pieces \in [1 .. n -> Seq(C)]
    <3>1. ASSUME NEW i \in 1 .. n
          PROVE  (IF key[i] = "'" THEN <<"\\", "'">> ELSE <<key[i]>>) \in Seq(C)
      BY <1>1, <2>1, <3>1
    <3>2. QED
      BY <1>1, <3>1
  <2>3. text \in Seq(C) /\ \E off \in [0 .. n -> Nat] : Len(text) = off[n] /\ Places(pieces, off, text)
    <3> HIDE DEF pieces, text, n
    <3>1. QED
      BY <1>1, <1>2, <1>4, <2>2, FlattenPlaces
  <2>4. PICK off \in [0 .. n -> Nat] : Len(text) = off[n] /\ Places(pieces, off, text)
    BY <2>3
  <2>5. \A i \in 1 .. n : /\ pieces[i] = IF key[i] = "'" THEN <<"\\", "'">> ELSE <<key[i]>>
                          /\ Len(pieces[i]) = IF key[i] = "'" THEN 2 ELSE 1
                          /\ IF key[i] = "'" THEN pieces[i][1] = "\\" /\ pieces[i][2] = "'"
                             ELSE pieces[i][1] = key[i]
    BY <1>1
  <2> HIDE DEF pieces, text
  <2>6. off[0] = 0 /\ \A i \in 1 .. n : off[i] = off[i - 1] + IF key[i] = "'" THEN 2 ELSE 1
    BY <2>2, <2>4, <2>5 DEF Places
  <2>7. \A i \in 1 .. n : IF key[i] = "'" THEN text[off[i - 1] + 1] = "\\" /\ text[off[i - 1] + 2] = "'"
                          ELSE text[off[i - 1] + 1] = key[i]
    <3>1. ASSUME NEW i \in 1 .. n
          PROVE  IF key[i] = "'" THEN text[off[i - 1] + 1] = "\\" /\ text[off[i - 1] + 2] = "'"
                 ELSE text[off[i - 1] + 1] = key[i]
      <4>1. \A j \in 1 .. Len(pieces[i]) : text[off[i - 1] + j] = pieces[i][j]
        BY <2>2, <2>4 DEF Places
      <4>2. CASE key[i] = "'"
        <5>1. 1 \in 1 .. Len(pieces[i]) /\ 2 \in 1 .. Len(pieces[i])
          BY <2>5, <4>2
        <5>2. QED
          BY <2>5, <4>1, <4>2, <5>1
      <4>3. CASE key[i] # "'"
        <5>1. 1 \in 1 .. Len(pieces[i])
          BY <2>5, <4>3
        <5>2. QED
          BY <2>5, <4>1, <4>3, <5>1
      <4>4. QED
        BY <4>2, <4>3
    <3>2. QED
      BY <3>1
  <2>8. ASSUME NEW a \in 0 .. n, \A j \in 1 .. a : key[j] # "'"
        PROVE  off[a] = a /\ \A j \in 1 .. a : off[j - 1] = j - 1 /\ text[j] = key[j]
    <3> DEFINE M == {k \in 0 .. n : k <= a => off[k] = k}
    <3>1. 0 \in M
      BY <2>6
    <3>2. ASSUME NEW k \in 0 .. n, k \in M, k < n PROVE k + 1 \in M
      <4>1. k + 1 \in 1 .. n /\ (k + 1) - 1 = k /\ k + 1 \in 0 .. n
        BY <1>1, <3>2
      <4>2. CASE k + 1 <= a
        <5>1. key[k + 1] # "'" /\ off[k] = k
          BY <2>8, <3>2, <4>1, <4>2
        <5>2. off[k + 1] = off[k] + 1
          BY <2>6, <4>1, <5>1
        <5>3. QED
          BY <4>1, <5>1, <5>2
      <4>3. QED
        BY <4>1, <4>2
    <3>3. 0 .. n \subseteq M
      <4> HIDE DEF M, n
      <4>1. QED
        BY <1>1, <3>1, <3>2, CountingUp
    <3>4. ASSUME NEW j \in 1 .. a PROVE off[j - 1] = j - 1 /\ text[j] = key[j]
      <4>1. j \in 1 .. n /\ j - 1 \in 0 .. n /\ j - 1 <= a /\ (j - 1) + 1 = j
        BY <1>1
      <4>2. off[j - 1] = j - 1
        BY <3>3, <4>1
      <4>3. text[off[j - 1] + 1] = key[j]
        BY <2>7, <2>8, <4>1
      <4>4. QED
        BY <4>1, <4>2, <4>3
    <3>5. off[a] = a
      BY <3>3
    <3>6. QED
      BY <3>4, <3>5
  <2>9. ASSUME \A j \in DOMAIN key : key[j] # "'" PROVE text = key
    <3>1. off[n] = n /\ \A j \in 1 .. n : text[j] = key[j]
      BY <1>1, <2>8, <2>9
    <3>2. text = [j \in 1 .. n |-> text[j]]
      BY <2>3, <2>4, <3>1
    <3> HIDE DEF n
    <3>3. QED
      BY <1>1, <3>1, <3>2
  <2>10. ASSUME NEW a \in DOMAIN key, Apostrophe(key, a)
         PROVE  CutShort(key, a, text)
    <3>1. a \in 1 .. n /\ key[a] = "'" /\ a - 1 \in 0 .. n /\ \A j \in 1 .. a - 1 : key[j] # "'"
      BY <1>1, <2>10 DEF Apostrophe
    <3>2. off[a - 1] = a - 1 /\ \A j \in 1 .. a - 1 : text[j] = key[j]
      BY <2>8, <3>1
    <3>3. off[a] = a + 1
      BY <2>6, <3>1, <3>2
    <3>4. text[(a - 1) + 1] = "\\" /\ text[(a - 1) + 2] = "'"
      BY <2>7, <3>1, <3>2
    <3>5. (a - 1) + 1 = a /\ (a - 1) + 2 = a + 1
      BY <3>1
    <3>6. text[a] = "\\" /\ text[a + 1] = "'"
      BY <3>4, <3>5
    <3>7. CASE a = n
      BY <2>4, <3>1, <3>2, <3>3, <3>6, <3>7 DEF CutShort
    <3>8. CASE a # n
      <4>1. a + 1 \in 1 .. n /\ (a + 1) - 1 = a
        BY <1>1, <3>1, <3>8
      <4>2. text[(a + 1) + 1] = IF key[a + 1] = "'" THEN "\\" ELSE key[a + 1]
        BY <2>7, <3>3, <4>1
      <4>3. a + 2 <= off[a + 1]
        BY <2>6, <3>3, <4>1
      <4>4. off[a + 1] <= off[n]
        <5>1. ASSUME NEW m \in 1 .. n PROVE off[m - 1] <= off[m]
          <6>1. m - 1 \in 0 .. n /\ off[m - 1] \in Nat
            BY <1>1
          <6>2. QED
            BY <2>6, <6>1
        <5>2. a + 1 \in 0 .. n /\ n \in (a + 1) .. n
          BY <1>1, <4>1
        <5>3. QED
          BY <1>1, <5>1, <5>2, OffsetsGrow
      <4>5. off[a + 1] \in Nat /\ off[n] \in Nat
        BY <1>1, <4>1
      <4>6. a + 2 <= Len(text) /\ a + 1 <= Len(text) /\ (a + 1) + 1 = a + 2
        BY <2>4, <3>1, <4>3, <4>4, <4>5
      <4>7. QED
        BY <3>2, <3>6, <3>8, <4>2, <4>6 DEF CutShort
    <3>9. QED
      BY <3>7, <3>8
  <2>11. QED
    BY <2>3, <2>9, <2>10 DEF text
<1>5. QED
  BY <1>1, <1>3, <1>4

-----------------------------------------------------------------------------
(* A piece of a text                                                       *)

\* The piece stands in the text behind position p.
Stands(text, p, piece) ==
    p + Len(piece) <= Len(text) /\ \A j \in 1 .. Len(piece) : text[p + j] = piece[j]

LEMMA StandsInParts ==
    ASSUME NEW C, NEW text \in Seq(C), NEW p \in Nat, NEW s \in Seq(C), NEW t \in Seq(C),
           Stands(text, p, s \o t)
    PROVE  /\ Stands(text, p, s) /\ Stands(text, p + Len(s), t)
           /\ Len(s \o t) = Len(s) + Len(t)
<1>1. Joins(s \o t, s, t) /\ Len(s) \in Nat /\ Len(t) \in Nat /\ Len(text) \in Nat
  BY Joined
<1>2. \A j \in 1 .. Len(s) + Len(t) : text[p + j] = (s \o t)[j]
  BY <1>1 DEF Stands, Joins
<1>3. ASSUME NEW j \in 1 .. Len(s) PROVE text[p + j] = s[j]
  <2>1. j \in 1 .. Len(s) + Len(t)
    BY <1>1
  <2>2. QED
    BY <1>1, <1>2, <2>1 DEF Joins
<1>4. ASSUME NEW j \in 1 .. Len(t) PROVE text[(p + Len(s)) + j] = t[j]
  <2>1. Len(s) + j \in 1 .. Len(s) + Len(t) /\ p + (Len(s) + j) = (p + Len(s)) + j
    BY <1>1
  <2>2. text[p + (Len(s) + j)] = (s \o t)[Len(s) + j]
    BY <1>2, <2>1
  <2>3. QED
    BY <1>1, <2>1, <2>2 DEF Joins
<1>5. p + Len(s) <= Len(text) /\ (p + Len(s)) + Len(t) <= Len(text)
  BY <1>1 DEF Stands, Joins
<1>6. QED
  BY <1>1, <1>3, <1>4, <1>5 DEF Stands, Joins

LEMMA StandsIsSub ==
    ASSUME NEW C, NEW text \in Seq(C), NEW p \in Nat, NEW key \in Seq(C), Stands(text, p, key)
    PROVE  SubSeq(text, p + 1, p + Len(key)) = key
<1> DEFINE n == Len(key)
           sub == SubSeq(text, p + 1, p + n)
<1>1. n \in Nat /\ key = [j \in 1 .. n |-> key[j]] /\ p + n <= Len(text)
  BY DEF Stands
<1>2. sub = [j \in 1 .. n |-> text[(p + 1) + j - 1]]
  BY <1>1
<1>3. \A j \in 1 .. n : (p + 1) + j - 1 = p + j
  BY <1>1
<1>4. \A j \in 1 .. n : text[(p + 1) + j - 1] = key[j]
  BY <1>3 DEF Stands
<1>5. sub = [j \in 1 .. n |-> key[j]]
  <2> HIDE DEF n, sub
  <2>1. QED
    BY <1>2, <1>4
<1>6. QED
  BY <1>1, <1>5

LEMMA WrittenBare ==
    ASSUME NEW C, NEW text \in Seq(C), NEW p \in Nat, NEW key \in Seq(C), isBareIdentifier(key),
           Stands(text, p, key), Ends(text, p + Len(key) + 1)
    PROVE  Continues(Segments(text), p + 1, Field(key), p + Len(key) + 1)
<1> DEFINE e == p + Len(key) + 1
<1>1. key # <<>> /\ \A j \in 1 .. Len(key) : key[j] \notin {".", "[", "*"}
  <2>1. DOMAIN key = 1 .. Len(key) /\ {".", "[", "*"} \subseteq Punctuation
    BY DEF Punctuation
  <2>2. QED
    BY <2>1 DEF isBareIdentifier
<1>2. Len(key) \in Nat /\ Len(key) >= 1 /\ p + Len(key) <= Len(text) /\ Len(text) \in Nat
  BY <1>1 DEF Stands
<1>3. p + 1 \in 1 .. Len(text) /\ e \in ((p + 1) + 1) .. (Len(text) + 1) /\ e - 1 = p + Len(key)
  BY <1>2
<1>4. \A k \in (p + 1) .. (e - 1) : text[k] \notin {".", "["}
  <2>1. ASSUME NEW k \in (p + 1) .. (e - 1) PROVE text[k] \notin {".", "["}
    <3>1. k - p \in 1 .. Len(key) /\ p + (k - p) = k
      BY <1>2, <1>3
    <3>2. text[k] = key[k - p]
      BY <3>1 DEF Stands
    <3>3. QED
      BY <1>1, <3>1, <3>2
  <2>2. QED
    BY <2>1
<1>5. SubSeq(text, p + 1, e - 1) = key
  BY <1>3, StandsIsSub
<1>6. key # <<"*">>
  BY <1>1, <1>2
<1> HIDE DEF e
<1>7. Ends(text, e)
  BY DEF e
<1>8. Continues(Segments(text), p + 1, IF SubSeq(text, p + 1, e - 1) = <<"*">> THEN AnyField
                                       ELSE Field(SubSeq(text, p + 1, e - 1)), e)
  BY <1>3, <1>4, <1>7, ReadsToken
<1>9. QED
  BY <1>5, <1>6, <1>8 DEF e

LEMMA WrittenAnyField ==
    ASSUME NEW C, NEW text \in Seq(C), NEW p \in Nat, Stands(text, p, <<"*">>), Ends(text, p + 2)
    PROVE  Continues(Segments(text), p + 1, AnyField, p + 2)
<1>1. p + 1 <= Len(text) /\ text[p + 1] = "*" /\ Len(text) \in Nat
  BY DEF Stands
<1>2. p + 1 \in 1 .. Len(text) /\ p + 2 \in ((p + 1) + 1) .. (Len(text) + 1) /\ (p + 2) - 1 = p + 1
  BY <1>1
<1>3. \A k \in (p + 1) .. ((p + 2) - 1) : text[k] \notin {".", "["}
  <2>1. \A k \in (p + 1) .. ((p + 2) - 1) : k = p + 1
    BY <1>2
  <2>2. QED
    BY <1>1, <2>1
<1>4. SubSeq(text, p + 1, (p + 2) - 1) = <<"*">>
  <2> DEFINE star == <<"*">>
  <2>1. star \in Seq(C) /\ Len(star) = 1 /\ Stands(text, p, star)
    BY <1>1, <1>2
  <2> HIDE DEF star
  <2>2. SubSeq(text, p + 1, p + Len(star)) = star
    BY <2>1, StandsIsSub
  <2>3. QED
    BY <1>2, <2>1, <2>2 DEF star
<1>5. Continues(Segments(text), p + 1, IF SubSeq(text, p + 1, (p + 2) - 1) = <<"*">> THEN AnyField
                                       ELSE Field(SubSeq(text, p + 1, (p + 2) - 1)), p + 2)
  BY <1>2, <1>3, ReadsToken
<1>6. QED
  BY <1>4, <1>5

LEMMA WrittenAnyIndex ==
    ASSUME NEW C, NEW text \in Seq(C), NEW p \in Nat, Stands(text, p, <<"[", "*", "]">>)
    PROVE  Continues(Segments(text), p + 1, AnyIndex, p + 4)
<1> DEFINE i == p + 1
<1>1. p + 3 <= Len(text) /\ text[p + 1] = "[" /\ text[p + 2] = "*" /\ text[p + 3] = "]"
      /\ Len(text) \in Nat
  BY DEF Stands
<1>2. i \in 1 .. Len(text) /\ i + 2 = p + 3 /\ i + 1 = p + 2 /\ i + 3 = p + 4
  BY <1>1
<1> HIDE DEF i
<1>3. text[i] = "[" /\ text[i + 1] = "*" /\ text[i + 2] = "]" /\ i + 2 <= Len(text)
  BY <1>1, <1>2 DEF i
<1>4. Continues(Segments(text), i, AnyIndex, i + 3)
  BY <1>2, <1>3, ReadsAnyIndex
<1>5. QED
  BY <1>2, <1>4 DEF i

LEMMA WrittenIndex ==
    ASSUME NEW C, Alphabet \subseteq C, NEW text \in Seq(C), NEW p \in Nat, NEW n \in Int,
           Stands(text, p, <<"[">> \o Numeral(n) \o <<"]">>)
    PROVE  /\ Len(<<"[">> \o Numeral(n) \o <<"]">>) = Len(Numeral(n)) + 2
           /\ Continues(Segments(text), p + 1, Index(n), p + Len(Numeral(n)) + 3)
<1> DEFINE numeral == Numeral(n)
           l == Len(numeral)
           i == p + 1
           c == p + l + 2
<1>1. numeral \in Seq(TenDigits \cup {"-"}) /\ l >= 1 /\ l \in Nat /\ Atoi(numeral) = {n}
  <2>1. Numeral(n) \in Seq(TenDigits \cup {"-"}) /\ Len(Numeral(n)) >= 1 /\ Atoi(Numeral(n)) = {n}
    BY NumeralReads
  <2>2. Len(Numeral(n)) \in Nat
    BY <2>1
  <2>3. QED
    BY <2>1, <2>2
<1>2. /\ "[" \in C /\ "]" \in C /\ TenDigits \cup {"-"} \subseteq C
      /\ \A x \in TenDigits \cup {"-"} : x \notin {"*", "]"} \cup Quotes
  BY DEF Alphabet, Punctuation, TenDigits, Quotes
<1>3. numeral \in Seq(C) /\ <<"[">> \in Seq(C) /\ <<"]">> \in Seq(C) /\ <<"[">> \o numeral \in Seq(C)
  BY <1>1, <1>2
<1> HIDE DEF numeral
<1>4. /\ Stands(text, p, <<"[">> \o numeral) /\ Stands(text, p + Len(<<"[">> \o numeral), <<"]">>)
      /\ Len(<<"[">> \o numeral \o <<"]">>) = Len(<<"[">> \o numeral) + Len(<<"]">>)
  <2> DEFINE start == <<"[">> \o numeral
             close == <<"]">>
  <2>1. start \in Seq(C) /\ close \in Seq(C) /\ Stands(text, p, start \o close)
    BY <1>3 DEF numeral
  <2> HIDE DEF start, close
  <2>2. /\ Stands(text, p, start) /\ Stands(text, p + Len(start), close)
        /\ Len(start \o close) = Len(start) + Len(close)
    BY <2>1, StandsInParts
  <2>3. QED
    BY <2>2 DEF start, close
<1>5. /\ Stands(text, p, <<"[">>) /\ Stands(text, p + Len(<<"[">>), numeral)
      /\ Len(<<"[">> \o numeral) = Len(<<"[">>) + Len(numeral)
  <2> DEFINE open == <<"[">>
  <2>1. open \in Seq(C) /\ numeral \in Seq(C) /\ Stands(text, p, open \o numeral)
    BY <1>3, <1>4
  <2> HIDE DEF open
  <2>2. /\ Stands(text, p, open) /\ Stands(text, p + Len(open), numeral)
        /\ Len(open \o numeral) = Len(open) + Len(numeral)
    BY <2>1, StandsInParts
  <2>3. QED
    BY <2>2 DEF open
<1>6. Len(<<"[">>) = 1 /\ Len(<<"]">>) = 1 /\ <<"[">>[1] = "[" /\ <<"]">>[1] = "]"
  OBVIOUS
<1>7. Stands(text, p + 1, numeral) /\ Stands(text, p + (l + 1), <<"]">>) /\ Len(<<"[">> \o numeral) = l + 1
  BY <1>1, <1>4, <1>5, <1>6
<1>8. text[i] = "[" /\ i \in 1 .. Len(text) /\ c = i + l + 1 /\ c - 1 = i + l
      /\ c \in (i + 1) .. Len(text) /\ i + 2 <= Len(text)
  BY <1>1, <1>5, <1>6, <1>7 DEF Stands
<1>9. text[c] = "]"
  <2>1. text[(p + (l + 1)) + 1] = "]"
    BY <1>6, <1>7 DEF Stands
  <2>2. (p + (l + 1)) + 1 = c
    BY <1>1
  <2>3. QED
    BY <2>1, <2>2
<1>10. \A k \in (i + 1) .. (c - 1) : text[k] \in TenDigits \cup {"-"}
  <2>1. ASSUME NEW k \in (i + 1) .. (c - 1) PROVE text[k] \in TenDigits \cup {"-"}
    <3>1. k - i \in 1 .. l /\ i + (k - i) = k
      BY <1>1, <1>8
    <3>2. text[k] = numeral[k - i]
      BY <1>7, <3>1 DEF Stands
    <3>3. QED
      BY <1>1, <3>1, <3>2
  <2>2. QED
    BY <2>1
<1>11. SubSeq(text, i + 1, c - 1) = numeral
  <2>1. SubSeq(text, i + 1, i + l) = numeral
    BY <1>3, <1>7, StandsIsSub
  <2>2. QED
    BY <1>8, <2>1
<1>12. text[i + 1] \in TenDigits \cup {"-"}
  BY <1>1, <1>8, <1>10
<1>13. (p + l) + 3 = c + 1 /\ Len(<<"[">> \o numeral \o <<"]">>) = l + 2
  BY <1>1, <1>4, <1>6, <1>7
<1> HIDE DEF i, c
<1>14. Continues(Segments(text), i, Index(n), c + 1)
  <2>1. text[i + 1] # "*" /\ text[i + 1] \notin Quotes /\ \A k \in (i + 1) .. (c - 1) : text[k] # "]"
    BY <1>2, <1>10, <1>12
  <2>2. Atoi(SubSeq(text, i + 1, c - 1)) = {n}
    BY <1>1, <1>11
  <2>3. QED
    BY <1>8, <1>9, <2>1, <2>2, ReadsIndex
<1>15. QED
  BY <1>13, <1>14 DEF i, numeral

LEMMA QuotedParts ==
    ASSUME NEW C, Alphabet \subseteq C, NEW key \in Seq(C)
    PROVE  /\ Quoted(key) \in Seq(C) /\ Len(Quoted(key)) = Len(Escaped(key)) + 4
           /\ Quoted(key)[1] = "[" /\ Quoted(key)[Len(Quoted(key))] = "]"
           /\ \A text \in Seq(C), p \in Nat : Stands(text, p, Quoted(key)) =>
                  /\ text[p + 1] = "[" /\ text[p + 2] = "'" /\ Stands(text, p + 2, Escaped(key))
                  /\ text[p + Len(Escaped(key)) + 3] = "'" /\ text[p + Len(Escaped(key)) + 4] = "]"
                  /\ p + Len(Escaped(key)) + 4 <= Len(text)
<1> DEFINE open == <<"[", "'">>
           close == <<"'", "]">>
           escaped == Escaped(key)
           start == open \o escaped
           l == Len(escaped)
<1>1. "[" \in C /\ "'" \in C /\ "]" \in C
  BY DEF Alphabet, Punctuation, Quotes
<1>2. open \in Seq(C) /\ close \in Seq(C) /\ escaped \in Seq(C) /\ l \in Nat
  BY <1>1, EscapedIs
<1>3. /\ Len(open) = 2 /\ open[1] = "[" /\ open[2] = "'"
      /\ Len(close) = 2 /\ close[1] = "'" /\ close[2] = "]"
  OBVIOUS
<1>4. Quoted(key) = start \o close
  BY DEF Quoted, Escaped
<1> HIDE DEF open, close, escaped
<1>5. start \in Seq(C) /\ Joins(start, open, escaped)
  BY <1>2, Joined
<1>6. Len(start) = 2 + l /\ start[1] = "["
  BY <1>2, <1>3, <1>5 DEF Joins
<1> DEFINE quoted == start \o close
<1>7. quoted \in Seq(C) /\ Joins(quoted, start, close)
  <2> HIDE DEF start
  <2>1. QED
    BY <1>2, <1>5, Joined
<1>8. Len(quoted) = l + 4 /\ quoted[1] = "[" /\ quoted[l + 4] = "]"
  <2> HIDE DEF start, quoted
  <2>1. Len(quoted) = l + 4 /\ 1 \in 1 .. Len(start) /\ 2 \in 1 .. Len(close) /\ Len(start) + 2 = l + 4
    BY <1>2, <1>3, <1>6, <1>7 DEF Joins
  <2>2. QED
    BY <1>3, <1>6, <1>7, <2>1 DEF Joins
<1>9. ASSUME NEW text \in Seq(C), NEW p \in Nat, Stands(text, p, quoted)
      PROVE  /\ text[p + 1] = "[" /\ text[p + 2] = "'" /\ Stands(text, p + 2, escaped)
             /\ text[p + l + 3] = "'" /\ text[p + l + 4] = "]"
             /\ p + l + 4 <= Len(text)
  <2>1. Stands(text, p, start) /\ Stands(text, p + Len(start), close)
    <3> HIDE DEF start
    <3>1. QED
      BY <1>2, <1>5, <1>9, StandsInParts
  <2>2. Stands(text, p, open) /\ Stands(text, p + Len(open), escaped)
    BY <1>2, <2>1, StandsInParts
  <2>3. text[p + 1] = "[" /\ text[p + 2] = "'"
    BY <1>3, <2>2 DEF Stands
  <2>4. text[(p + (2 + l)) + 1] = "'" /\ text[(p + (2 + l)) + 2] = "]" /\ (p + (2 + l)) + 2 <= Len(text)
    BY <1>3, <1>6, <2>1 DEF Stands
  <2>5. (p + (2 + l)) + 1 = p + l + 3 /\ (p + (2 + l)) + 2 = p + l + 4
    BY <1>2
  <2>6. QED
    BY <1>3, <2>2, <2>3, <2>4, <2>5
<1>10. QED
  <2> HIDE DEF start
  <2>1. QED
    BY <1>4, <1>7, <1>8, <1>9 DEF escaped

LEMMA WrittenQuoted ==
    ASSUME NEW C, Alphabet \subseteq C, NEW text \in Seq(C), NEW p \in Nat, NEW key \in Seq(C),
           \A j \in DOMAIN key : key[j] # "'", Stands(text, p, Quoted(key))
    PROVE  Continues(Segments(text), p + 1, Field(key), p + Len(Quoted(key)) + 1)
<1> DEFINE l == Len(key)
           i == p + 1
           q == p + l + 3
<1>1. Escaped(key) = key
  BY EscapedIs
<1>2. Len(Quoted(key)) = l + 4
  BY <1>1, QuotedParts
<1>3. /\ text[p + 1] = "[" /\ text[p + 2] = "'" /\ Stands(text, p + 2, key)
      /\ text[p + l + 3] = "'" /\ text[p + l + 4] = "]" /\ p + l + 4 <= Len(text)
  BY <1>1, QuotedParts
<1>4. l \in Nat /\ Len(text) \in Nat /\ DOMAIN key = 1 .. l
  OBVIOUS
<1>5. /\ i \in 1 .. Len(text) /\ i + 2 <= Len(text) /\ i + 1 = p + 2 /\ q \in (i + 2) .. Len(text)
      /\ q < Len(text) /\ q + 1 = p + l + 4 /\ (p + (l + 4)) + 1 = q + 2
      /\ i + 2 = (p + 2) + 1 /\ q - 1 = (p + 2) + l
  BY <1>3, <1>4
<1>6. \A k \in (i + 2) .. (q - 1) : text[k] # "'"
  <2>1. ASSUME NEW k \in (i + 2) .. (q - 1) PROVE text[k] # "'"
    <3>1. k - (p + 2) \in 1 .. l /\ (p + 2) + (k - (p + 2)) = k
      BY <1>4, <1>5
    <3>2. text[k] = key[k - (p + 2)]
      BY <1>3, <3>1 DEF Stands
    <3>3. QED
      BY <1>4, <3>1, <3>2
  <2>2. QED
    BY <2>1
<1>7. SubSeq(text, i + 2, q - 1) = key
  <2>1. SubSeq(text, (p + 2) + 1, (p + 2) + Len(key)) = key
    BY <1>3, StandsIsSub
  <2>2. QED
    BY <1>5, <2>1
<1> HIDE DEF i, q
<1>8. text[i] = "[" /\ text[i + 1] = "'" /\ text[q] = "'" /\ text[q + 1] = "]"
  BY <1>3, <1>5 DEF i, q
<1>9. Continues(Segments(text), i, Field(SubSeq(text, i + 2, q - 1)), q + 2)
  BY <1>5, <1>6, <1>8, ReadsQuoted
<1>10. QED
  BY <1>2, <1>5, <1>7, <1>9 DEF i

LEMMA CutPositions ==
    ASSUME NEW p \in Nat, NEW a \in Nat, NEW l \in Nat, NEW n \in Nat,
           a >= 1, a + 1 <= l, p + l + 4 <= n
    PROVE  /\ p + 1 \in 1 .. n /\ (p + 1) + 2 <= n /\ (p + 1) + 1 = p + 2
           /\ p + a + 3 \in ((p + 1) + 2) .. n /\ p + a + 3 < n
           /\ p + a + 3 = p + 2 + (a + 1) /\ (p + a + 3) + 1 = p + 2 + (a + 2)
           /\ (p + a + 3) + 2 \in 1 .. n + 1 /\ (p + a + 3) - 1 = p + 2 + a
           /\ (p + 1) + 2 = (p + 2) + 1
           /\ (p + 2) + 1 \in 1 .. n /\ (p + 2) + a \in 1 .. n
           /\ ((p + 2) + 1) + a - 1 = (p + 2) + a
<1>1. p + a + 3 < n
  OBVIOUS
<1>2. (p + a + 3) - 1 = p + 2 + a /\ ((p + 2) + 1) + a - 1 = (p + 2) + a
  OBVIOUS
<1>3. QED
  BY <1>1, <1>2

\* A key with an apostrophe is cut short behind its first one, where the escape is.
LEMMA WrittenLost ==
    ASSUME NEW C, Alphabet \subseteq C, NEW text \in Seq(C), NEW p \in Nat, NEW key \in Seq(C),
           NEW a \in DOMAIN key, Apostrophe(key, a), Stands(text, p, Quoted(key))
    PROVE  /\ \/ Segments(text)[p + 1] = Malformed
              \/ \E s, e : /\ Continues(Segments(text), p + 1, s, e)
                           /\ s # Field(key) /\ e \in 1 .. Len(text) + 1
           /\ ~(a < Len(key) /\ key[a + 1] = "]") => Segments(text)[p + 1] = Malformed
<1> DEFINE escaped == Escaped(key)
           l == Len(escaped)
           i == p + 1
           q == p + a + 3
<1>1. /\ text[p + 1] = "[" /\ text[p + 2] = "'" /\ Stands(text, p + 2, escaped)
      /\ text[p + l + 3] = "'" /\ text[p + l + 4] = "]" /\ p + l + 4 <= Len(text)
  BY QuotedParts
<1>2. /\ a + 1 <= l /\ \A j \in 1 .. a - 1 : escaped[j] = key[j]
      /\ escaped[a] = "\\" /\ escaped[a + 1] = "'"
      /\ IF a = Len(key) THEN l = a + 1
         ELSE a + 2 <= l /\ escaped[a + 2] = IF key[a + 1] = "'" THEN "\\" ELSE key[a + 1]
      /\ escaped \in Seq(C)
  <2>1. CutShort(key, a, escaped) /\ escaped \in Seq(C)
    BY EscapedIs
  <2>2. QED
    BY <2>1 DEF CutShort
<1>3. l \in Nat /\ Len(text) \in Nat /\ a \in 1 .. Len(key) /\ Len(key) \in Nat
  BY <1>2
<1>4. key[a] = "'" /\ \A j \in 1 .. a - 1 : key[j] # "'"
  BY DEF Apostrophe
<1>5. \A j \in 1 .. l : text[p + 2 + j] = escaped[j]
  BY <1>1 DEF Stands
<1> HIDE DEF escaped, l
<1>6. /\ i \in 1 .. Len(text) /\ i + 2 <= Len(text) /\ i + 1 = p + 2 /\ q \in (i + 2) .. Len(text)
      /\ q < Len(text) /\ q = p + 2 + (a + 1) /\ q + 1 = p + 2 + (a + 2) /\ q + 2 \in 1 .. Len(text) + 1
      /\ q - 1 = p + 2 + a /\ i + 2 = (p + 2) + 1 /\ a \in Nat
  <2>1. a + 1 <= l /\ p + l + 4 <= Len(text) /\ a \in Nat /\ a >= 1
    BY <1>1, <1>2, <1>3 DEF l, escaped
  <2> DEFINE n == Len(text)
  <2>2. n \in Nat /\ l \in Nat
    BY <1>3
  <2> HIDE DEF l
  <2>3. /\ p + 1 \in 1 .. n /\ (p + 1) + 2 <= n /\ (p + 1) + 1 = p + 2
        /\ p + a + 3 \in ((p + 1) + 2) .. n /\ p + a + 3 < n
        /\ p + a + 3 = p + 2 + (a + 1) /\ (p + a + 3) + 1 = p + 2 + (a + 2)
        /\ (p + a + 3) + 2 \in 1 .. n + 1 /\ (p + a + 3) - 1 = p + 2 + a
        /\ (p + 1) + 2 = (p + 2) + 1
    <3> HIDE DEF n
    <3>1. p + l + 4 <= n
      BY <2>1 DEF n
    <3>2. a \in Nat /\ a >= 1 /\ a + 1 <= l
      BY <2>1
    <3>3. QED
      BY ONLY p \in Nat, <2>2, <3>1, <3>2, CutPositions
  <2>4. QED
    BY <2>1, <2>3
<1>7. \A k \in (i + 2) .. (q - 1) : text[k] # "'"
  <2>1. ASSUME NEW k \in (i + 2) .. (q - 1) PROVE text[k] # "'"
    <3> DEFINE j == k - (p + 2)
    <3>1. j \in 1 .. a /\ j \in 1 .. l /\ p + 2 + j = k
      <4>1. a + 1 <= l /\ a \in Nat /\ l \in Nat
        BY <1>2, <1>3, <1>6
      <4>2. QED
        BY <4>1
    <3>2. text[k] = escaped[j]
      BY <1>5, <3>1
    <3>3. CASE j = a
      BY <1>2, <3>2, <3>3
    <3>4. CASE j # a
      <4>1. j \in 1 .. a - 1
        BY <1>3, <3>1, <3>4
      <4>2. QED
        BY <1>2, <1>4, <3>2, <4>1
    <3>5. QED
      BY <3>3, <3>4
  <2>2. QED
    BY <2>1
<1>8. text[i] = "[" /\ text[i + 1] = "'"
  BY <1>1, <1>6
<1>9. text[q] = "'"
  <2>1. a + 1 \in 1 .. l
    BY <1>2, <1>3
  <2>2. QED
    BY <1>2, <1>5, <1>6, <2>1
<1>10. IF q < Len(text) /\ text[q + 1] = "]"
       THEN Continues(Segments(text), i, Field(SubSeq(text, i + 2, q - 1)), q + 2)
       ELSE Segments(text)[i] = Malformed
  <2> HIDE DEF i, q
  <2>1. QED
    BY <1>6, <1>7, <1>8, <1>9, ReadsQuoted
<1>11. SubSeq(text, i + 2, q - 1) # key
  <2> DEFINE sub == SubSeq(text, (p + 2) + 1, (p + 2) + a)
  <2>1. sub[a] = text[(p + 2) + a]
    <3>1. (p + 2) + 1 \in 1 .. Len(text) /\ (p + 2) + a \in 1 .. Len(text) /\ a \in Nat
          /\ ((p + 2) + 1) + a - 1 = (p + 2) + a
      <4>1. a + 1 <= l /\ p + l + 4 <= Len(text) /\ a \in Nat /\ a >= 1
        BY <1>1, <1>2, <1>3 DEF l, escaped
      <4> HIDE DEF l
      <4>2. QED
        BY <1>3, <4>1, CutPositions
    <3>2. sub = [j \in 1 .. a |-> text[((p + 2) + 1) + j - 1]]
      BY <3>1
    <3>3. QED
      BY <1>3, <3>1, <3>2
  <2>2. text[(p + 2) + a] = "\\"
    <3>1. a \in 1 .. l
      BY <1>2, <1>3
    <3>2. QED
      BY <1>2, <1>5, <3>1
  <2>3. sub = SubSeq(text, i + 2, q - 1)
    BY <1>6
  <2> HIDE DEF sub, i, q
  <2>4. QED
    BY <1>4, <2>1, <2>2, <2>3
<1>12. ASSUME ~(a < Len(key) /\ key[a + 1] = "]") PROVE text[q + 1] # "]"
  <2>1. CASE a = Len(key)
    <3>1. q + 1 = p + l + 3
      BY <1>2, <1>3, <2>1
    <3>2. QED
      BY <1>1, <3>1 DEF l, escaped
  <2>2. CASE a # Len(key)
    <3>1. a + 2 \in 1 .. l /\ a < Len(key)
      BY <1>2, <1>3, <2>2
    <3>2. text[q + 1] = escaped[a + 2]
      BY <1>5, <1>6, <3>1
    <3>3. QED
      BY <1>2, <1>12, <2>2, <3>1, <3>2
  <2>3. QED
    BY <2>1, <2>2
<1>13. CASE text[q + 1] = "]"
  <2> DEFINE s == Field(SubSeq(text, i + 2, q - 1))
  <2>1. s # Field(key)
    BY <1>11 DEF Field
  <2>2. Continues(Segments(text), i, s, q + 2)
    BY <1>6, <1>10, <1>13
  <2> HIDE DEF s, q
  <2>3. QED
    BY <1>6, <1>12, <1>13, <2>1, <2>2
<1>14. CASE text[q + 1] # "]"
  BY <1>10, <1>14
<1>15. QED
  BY <1>13, <1>14

-----------------------------------------------------------------------------
(* A segment of a path                                                     *)

\* A dot in front of a segment changes nothing.
Skipped(text, p, d, t) ==
    /\ p + Len(d) \in Nat /\ Stands(text, p + Len(d), t)
    /\ Len(d) \in Nat /\ Len(t) \in Nat /\ Len(d \o t) = Len(d) + Len(t)
    /\ Segments(text)[p + 1] = Segments(text)[(p + Len(d)) + 1]

LEMMA DotSkips ==
    ASSUME NEW C, Alphabet \subseteq C, NEW text \in Seq(C), NEW p \in Nat,
           NEW d \in {<<>>, <<".">>}, NEW t \in Seq(C), Stands(text, p, d \o t)
    PROVE  Skipped(text, p, d, t)
<1>1. d \in Seq(C) /\ Len(d) \in Nat /\ Len(t) \in Nat
  <2>1. "." \in C
    BY DEF Alphabet, Punctuation
  <2>2. <<".">> \in Seq(C) /\ <<>> \in Seq(C)
    BY <2>1
  <2>3. d \in Seq(C)
    BY <2>2
  <2>4. QED
    BY <2>3
<1>2. Stands(text, p, d) /\ Stands(text, p + Len(d), t) /\ Len(d \o t) = Len(d) + Len(t)
  BY <1>1, StandsInParts
<1>3. CASE d = <<>>
  BY <1>1, <1>2, <1>3 DEF Skipped
<1>4. CASE d = <<".">>
  <2>1. Len(d) = 1 /\ d[1] = "."
    BY <1>4
  <2>2. text[p + 1] = "." /\ p + 1 <= Len(text)
    BY <1>2, <2>1 DEF Stands
  <2>3. p + 1 \in 1 .. Len(text)
    BY <2>2
  <2>4. Segments(text)[p + 1] = Segments(text)[(p + 1) + 1]
    BY <2>2, <2>3, ReadsDot
  <2>5. QED
    BY <1>1, <1>2, <2>1, <2>4 DEF Skipped
<1>5. QED
  BY <1>3, <1>4

\* The segment names a key with an apostrophe.
Marked(s) == s[1] = "field" /\ "'" \in {s[2][j] : j \in DOMAIN s[2]}

\* No apostrophe of the key has a bracket behind it.
Closed(key) == \A j \in DOMAIN key : key[j] = "'" => ~(j < Len(key) /\ key[j + 1] = "]")

\* At i stands no segment or another one than s.
Lost(parse, i, s, n) ==
    \/ parse[i] = Malformed
    \/ \E r, e : Continues(parse, i, r, e) /\ r # s /\ e \in 1 .. n + 1

LEMMA FirstApostrophe ==
    ASSUME NEW C, NEW key \in Seq(C), "'" \in {key[j] : j \in DOMAIN key}
    PROVE  \E a \in DOMAIN key : Apostrophe(key, a)
<1> DEFINE T == {j \in DOMAIN key : key[j] = "'"}
<1>1. T # {} /\ T \subseteq Nat
  OBVIOUS
<1>2. PICK a \in T : \A k \in T : ~(k < a)
  BY <1>1, LeastNatural
<1>3. a \in 1 .. Len(key) /\ DOMAIN key = 1 .. Len(key) /\ Len(key) \in Nat /\ key[a] = "'"
  BY <1>2
<1>4. \A j \in 1 .. a - 1 : j \in DOMAIN key /\ j < a
  BY <1>3
<1>5. QED
  BY <1>2, <1>3, <1>4 DEF Apostrophe

LEMMA QuotedRead ==
    ASSUME NEW C, Alphabet \subseteq C, NEW text \in Seq(C), NEW p \in Nat, NEW key \in Seq(C),
           Stands(text, p, Quoted(key))
    PROVE  IF Marked(Field(key))
           THEN /\ Lost(Segments(text), p + 1, Field(key), Len(text))
                /\ Closed(key) => Segments(text)[p + 1] = Malformed
           ELSE Continues(Segments(text), p + 1, Field(key), p + Len(Quoted(key)) + 1)
<1>1. Marked(Field(key)) <=> "'" \in {key[j] : j \in DOMAIN key}
  BY DEF Marked, Field
<1>2. CASE "'" \in {key[j] : j \in DOMAIN key}
  <2>1. PICK a \in DOMAIN key : Apostrophe(key, a)
    BY <1>2, FirstApostrophe
  <2>2. /\ \/ Segments(text)[p + 1] = Malformed
           \/ \E s, e : /\ Continues(Segments(text), p + 1, s, e)
                        /\ s # Field(key) /\ e \in 1 .. Len(text) + 1
        /\ ~(a < Len(key) /\ key[a + 1] = "]") => Segments(text)[p + 1] = Malformed
    BY <2>1, WrittenLost
  <2>3. Lost(Segments(text), p + 1, Field(key), Len(text))
    BY <2>2 DEF Lost
  <2>4. Closed(key) => ~(a < Len(key) /\ key[a + 1] = "]")
    BY <2>1 DEF Closed, Apostrophe
  <2>5. QED
    BY <1>1, <1>2, <2>2, <2>3, <2>4
<1>3. CASE "'" \notin {key[j] : j \in DOMAIN key}
  <2>1. \A j \in DOMAIN key : key[j] # "'"
    BY <1>3
  <2>2. QED
    BY <1>1, <1>3, <2>1, WrittenQuoted
<1>4. QED
  BY <1>2, <1>3

\* How RenderSegment writes each kind of segment.
LEMMA RenderedAs ==
    ASSUME NEW C, NEW path \in Seq(Segs(C)), NEW m \in DOMAIN path
    PROVE  \/ path[m] = AnyField /\ RenderSegment(path, m) = Dot(m) \o <<"*">>
           \/ path[m] = AnyIndex /\ RenderSegment(path, m) = <<"[", "*", "]">>
           \/ \E n \in Int : /\ path[m] = Index(n)
                             /\ RenderSegment(path, m) = <<"[">> \o Numeral(n) \o <<"]">>
           \/ \E key \in Seq(C) : /\ path[m] = Field(key) /\ isBareIdentifier(key)
                                  /\ RenderSegment(path, m) = Dot(m) \o key
           \/ \E key \in Seq(C) : \E d \in {<<>>, <<".">>} :
                  /\ path[m] = Field(key)
                  /\ RenderSegment(path, m) = d \o Quoted(key) /\ (m = 1 => d = <<>>)
<1>1. path[m] \in Segs(C)
  OBVIOUS
<1>2. CASE path[m] = AnyField
  <2>1. path[m] # AnyIndex /\ path[m][1] # "index" /\ path[m][1] # "field"
    BY <1>2 DEF AnyField, AnyIndex
  <2>2. RenderSegment(path, m) = Dot(m) \o <<"*">>
    BY <1>2, <2>1 DEF RenderSegment
  <2>3. QED
    BY <1>2, <2>2
<1>3. CASE path[m] = AnyIndex
  <2>1. path[m] # AnyField /\ path[m][1] # "index" /\ path[m][1] # "field"
    BY <1>3 DEF AnyField, AnyIndex
  <2>2. RenderSegment(path, m) = <<"[", "*", "]">>
    BY <1>3, <2>1 DEF RenderSegment
  <2>3. QED
    BY <1>3, <2>2
<1>4. ASSUME NEW n \in Int, path[m] = Index(n)
      PROVE  RenderSegment(path, m) = <<"[">> \o Numeral(n) \o <<"]">>
  <2>1. path[m] # AnyField /\ path[m] # AnyIndex /\ path[m][1] = "index" /\ path[m][2] = n
    BY <1>4 DEF Index, AnyField, AnyIndex
  <2>2. QED
    BY <2>1 DEF RenderSegment
<1>5. ASSUME NEW key \in Seq(C), path[m] = Field(key)
      PROVE  \/ isBareIdentifier(key) /\ RenderSegment(path, m) = Dot(m) \o key
             \/ \E d \in {<<>>, <<".">>} :
                    RenderSegment(path, m) = d \o Quoted(key) /\ (m = 1 => d = <<>>)
  <2>1. /\ path[m] # AnyField /\ path[m] # AnyIndex /\ path[m][1] = "field" /\ path[m][1] # "index"
        /\ path[m][2] = key
    BY <1>5 DEF Field, AnyField, AnyIndex
  <2>2. CASE isBareIdentifier(key)
    BY <2>1, <2>2 DEF RenderSegment
  <2>3. CASE ~isBareIdentifier(key)
    <3> DEFINE d == IF m > 1 /\ path[m - 1] = AnyField THEN <<".">> ELSE <<>>
    <3>1. RenderSegment(path, m) = d \o Quoted(key)
      BY <2>1, <2>3 DEF RenderSegment
    <3>2. d \in {<<>>, <<".">>} /\ (m = 1 => d = <<>>)
      OBVIOUS
    <3> HIDE DEF d
    <3>3. QED
      BY <3>1, <3>2
  <2>4. QED
    BY <2>2, <2>3
<1>6. CASE \E key \in Seq(C) : path[m] = Field(key)
  <2>1. PICK key \in Seq(C) : path[m] = Field(key)
    BY <1>6
  <2>2. \/ isBareIdentifier(key) /\ RenderSegment(path, m) = Dot(m) \o key
        \/ \E d \in {<<>>, <<".">>} :
               RenderSegment(path, m) = d \o Quoted(key) /\ (m = 1 => d = <<>>)
    BY <1>5, <2>1
  <2>3. CASE isBareIdentifier(key) /\ RenderSegment(path, m) = Dot(m) \o key
    <3>1. \E k \in Seq(C) : /\ path[m] = Field(k) /\ isBareIdentifier(k)
                            /\ RenderSegment(path, m) = Dot(m) \o k
      BY <2>1, <2>3
    <3>2. QED
      BY <3>1
  <2>4. ASSUME NEW d \in {<<>>, <<".">>},
               RenderSegment(path, m) = d \o Quoted(key) /\ (m = 1 => d = <<>>)
        PROVE  \E k \in Seq(C) : \E e \in {<<>>, <<".">>} :
                   path[m] = Field(k) /\ RenderSegment(path, m) = e \o Quoted(k) /\ (m = 1 => e = <<>>)
    BY <2>1, <2>4
  <2>5. QED
    BY <2>2, <2>3, <2>4
<1>7. CASE \E n \in Int : path[m] = Index(n)
  BY <1>4, <1>7
<1>8. path[m] \in {AnyField, AnyIndex} \/ (\E key \in Seq(C) : path[m] = Field(key))
      \/ (\E n \in Int : path[m] = Index(n))
  BY <1>1 DEF Segs
<1>9. QED
  BY <1>2, <1>3, <1>6, <1>7, <1>8

LEMMA SegmentRead ==
    ASSUME NEW C, Alphabet \subseteq C, NEW path \in Seq(Segs(C)), NEW m \in DOMAIN path,
           NEW text \in Seq(C), NEW p \in Nat, Stands(text, p, RenderSegment(path, m)),
           Ends(text, p + Len(RenderSegment(path, m)) + 1)
    PROVE  IF Marked(path[m])
           THEN /\ Lost(Segments(text), p + 1, path[m], Len(text))
                /\ Closed(path[m][2]) => Segments(text)[p + 1] = Malformed
           ELSE Continues(Segments(text), p + 1, path[m], p + Len(RenderSegment(path, m)) + 1)
<1> DEFINE piece == RenderSegment(path, m)
<1>1. Dot(m) \in {<<>>, <<".">>}
  BY DEF Dot
<1>2. CASE path[m] = AnyField /\ piece = Dot(m) \o <<"*">>
  <2> DEFINE star == <<"*">>
             o == p + Len(Dot(m))
  <2>1. star \in Seq(C) /\ Len(star) = 1
    <3>1. "*" \in C
      BY DEF Alphabet, Punctuation
    <3>2. QED
      BY <3>1
  <2>2. ~Marked(path[m])
    BY <1>2 DEF Marked, AnyField
  <2>3. Stands(text, p, Dot(m) \o star)
    BY <1>2
  <2> HIDE DEF star
  <2>4. /\ o \in Nat /\ Stands(text, o, star) /\ Len(Dot(m) \o star) = Len(Dot(m)) + Len(star)
        /\ Segments(text)[p + 1] = Segments(text)[o + 1]
    <3> DEFINE dot == Dot(m)
    <3> HIDE DEF dot
    <3>1. dot \in {<<>>, <<".">>} /\ Stands(text, p, dot \o star)
      BY <1>1, <2>3 DEF dot
    <3>2. Skipped(text, p, dot, star)
      BY <2>1, <3>1, DotSkips
    <3>3. QED
      BY <3>2 DEF Skipped, dot
  <2>5. Len(Dot(m)) \in Nat
    BY DEF Dot
  <2>6. p + Len(piece) + 1 = o + 2
    BY <1>2, <2>1, <2>4, <2>5 DEF star
  <2> HIDE DEF o, piece
  <2>7. Ends(text, o + 2)
    BY <2>6 DEF piece
  <2>8. Continues(Segments(text), o + 1, AnyField, o + 2)
    BY <2>4, <2>7, WrittenAnyField DEF star
  <2>9. Continues(Segments(text), p + 1, path[m], p + Len(piece) + 1)
    BY <1>2, <2>4, <2>6, <2>8 DEF Continues
  <2>10. QED
    BY <2>2, <2>9 DEF piece
<1>3. CASE path[m] = AnyIndex /\ piece = <<"[", "*", "]">>
  <2>1. ~Marked(path[m])
    BY <1>3 DEF Marked, AnyIndex
  <2>2. Len(piece) = 3 /\ p + Len(piece) + 1 = p + 4
    BY <1>3
  <2>3. Continues(Segments(text), p + 1, AnyIndex, p + 4)
    BY <1>3, WrittenAnyIndex
  <2>4. QED
    BY <1>3, <2>1, <2>2, <2>3
<1>4. ASSUME NEW n \in Int, path[m] = Index(n), piece = <<"[">> \o Numeral(n) \o <<"]">>
      PROVE  ~Marked(path[m]) /\ Continues(Segments(text), p + 1, path[m], p + Len(piece) + 1)
  <2>1. ~Marked(path[m])
    BY <1>4 DEF Marked, Index
  <2>2. /\ Len(piece) = Len(Numeral(n)) + 2
        /\ Continues(Segments(text), p + 1, Index(n), p + Len(Numeral(n)) + 3)
    BY <1>4, WrittenIndex
  <2>3. Len(Numeral(n)) \in Nat
    BY NumeralReads
  <2>4. p + Len(piece) + 1 = p + Len(Numeral(n)) + 3
    BY <2>2, <2>3
  <2>5. QED
    BY <1>4, <2>1, <2>2, <2>4
<1>5. ASSUME NEW key \in Seq(C), path[m] = Field(key), isBareIdentifier(key), piece = Dot(m) \o key
      PROVE  ~Marked(path[m]) /\ Continues(Segments(text), p + 1, path[m], p + Len(piece) + 1)
  <2> DEFINE o == p + Len(Dot(m))
  <2>1. ~Marked(path[m])
    <3>1. "'" \in Punctuation
      BY DEF Punctuation, Quotes
    <3>2. \A j \in DOMAIN key : key[j] # "'"
      BY <1>5, <3>1 DEF isBareIdentifier
    <3>3. path[m][2] = key
      BY <1>5 DEF Field
    <3>4. QED
      BY <3>2, <3>3 DEF Marked
  <2>2. /\ o \in Nat /\ Stands(text, o, key) /\ Len(Dot(m) \o key) = Len(Dot(m)) + Len(key)
        /\ Segments(text)[p + 1] = Segments(text)[o + 1]
    <3> DEFINE dot == Dot(m)
    <3> HIDE DEF dot
    <3>1. dot \in {<<>>, <<".">>} /\ Stands(text, p, dot \o key)
      BY <1>1, <1>5 DEF dot
    <3>2. Skipped(text, p, dot, key)
      BY <3>1, DotSkips
    <3>3. QED
      BY <3>2 DEF Skipped, dot
  <2>3. Len(Dot(m)) \in Nat /\ Len(key) \in Nat
    BY DEF Dot
  <2>4. p + Len(piece) + 1 = o + Len(key) + 1
    BY <1>5, <2>2, <2>3
  <2> HIDE DEF o, piece
  <2>5. Ends(text, o + Len(key) + 1)
    BY <2>4 DEF piece
  <2>6. Continues(Segments(text), o + 1, Field(key), o + Len(key) + 1)
    BY <1>5, <2>2, <2>5, WrittenBare
  <2>7. QED
    BY <1>5, <2>1, <2>2, <2>4, <2>6 DEF Continues
<1>6. ASSUME NEW key \in Seq(C), NEW d \in {<<>>, <<".">>}, path[m] = Field(key),
             piece = d \o Quoted(key)
      PROVE  IF Marked(path[m])
             THEN /\ Lost(Segments(text), p + 1, path[m], Len(text))
                  /\ Closed(path[m][2]) => Segments(text)[p + 1] = Malformed
             ELSE Continues(Segments(text), p + 1, path[m], p + Len(piece) + 1)
  <2> DEFINE o == p + Len(d)
             quoted == Quoted(key)
  <2>1. quoted \in Seq(C)
    BY QuotedParts
  <2> HIDE DEF quoted
  <2>2. /\ o \in Nat /\ Stands(text, o, quoted) /\ Len(d \o quoted) = Len(d) + Len(quoted)
        /\ Segments(text)[p + 1] = Segments(text)[o + 1]
    <3>1. Stands(text, p, d \o quoted)
      BY <1>6 DEF quoted
    <3>2. Skipped(text, p, d, quoted)
      BY <2>1, <3>1, DotSkips
    <3>3. QED
      BY <3>2 DEF Skipped
  <2>3. Len(d) \in Nat /\ Len(quoted) \in Nat
    BY <2>1
  <2>4. p + Len(piece) + 1 = o + Len(quoted) + 1
    BY <1>6, <2>2, <2>3 DEF quoted
  <2> HIDE DEF o, piece
  <2>5. path[m][2] = key
    BY <1>6 DEF Field
  <2>6. IF Marked(Field(key))
        THEN /\ Lost(Segments(text), o + 1, Field(key), Len(text))
             /\ Closed(key) => Segments(text)[o + 1] = Malformed
        ELSE Continues(Segments(text), o + 1, Field(key), o + Len(quoted) + 1)
    BY <2>2, QuotedRead DEF quoted
  <2>7. QED
    BY <1>6, <2>2, <2>4, <2>5, <2>6 DEF Continues, Lost
<1>7. QED
  <2> HIDE DEF piece
  <2>1. \/ path[m] = AnyField /\ piece = Dot(m) \o <<"*">>
        \/ path[m] = AnyIndex /\ piece = <<"[", "*", "]">>
        \/ \E n \in Int : path[m] = Index(n) /\ piece = <<"[">> \o Numeral(n) \o <<"]">>
        \/ \E key \in Seq(C) : path[m] = Field(key) /\ isBareIdentifier(key) /\ piece = Dot(m) \o key
        \/ \E key \in Seq(C) : \E d \in {<<>>, <<".">>} : path[m] = Field(key) /\ piece = d \o Quoted(key)
    BY RenderedAs DEF piece
  <2>2. QED
    BY <1>2, <1>3, <1>4, <1>5, <1>6, <2>1 DEF piece

-----------------------------------------------------------------------------
(* The segments of a path in a row                                         *)

LEMMA NotMalformed ==
    ASSUME NEW C, NEW s \in Seq(Segs(C))
    PROVE  s # Malformed
<1>1. SUFFICES ASSUME s = Malformed PROVE FALSE
  OBVIOUS
<1>2. Len(s) = 1 /\ s[1] = <<"malformed">>
  BY <1>1 DEF Malformed
<1>3. s[1] \in Segs(C)
  BY <1>2
<1>4. <<"malformed">> \notin Segs(C)
  BY DEF Segs, Field, Index, AnyField, AnyIndex
<1>5. QED
  BY <1>2, <1>3, <1>4

\* A text reads segment m of the path at at[m - 1], and what follows it at at[m].
Chained(parse, at, path, C) ==
    /\ \A k \in 0 .. Len(path) : parse[at[k]] \in Seq(Segs(C)) \cup {Malformed}
    /\ \A m \in 1 .. Len(path) : ~Marked(path[m]) => Continues(parse, at[m - 1], path[m], at[m])

LEMMA OneBefore ==
    ASSUME NEW S, NEW s \in Seq(S), NEW k \in 1 .. Len(s)
    PROVE  <<s[k]>> \o SubSeq(s, k + 1, Len(s)) = SubSeq(s, k, Len(s))
<1> DEFINE n == Len(s)
           left == <<s[k]>>
           rest == SubSeq(s, k + 1, n)
           both == SubSeq(s, k, n)
<1>1. n \in Nat /\ k \in Nat /\ s[k] \in S
  OBVIOUS
<1>2. rest \in Seq(S) /\ Len(rest) = n - k /\ \A j \in 1 .. n - k : rest[j] = s[k + j]
  <2>1. rest \in Seq(S) /\ Len(rest) = n - k
    BY <1>1
  <2>2. ASSUME NEW j \in 1 .. n - k PROVE rest[j] = s[k + j]
    <3>1. rest[j] = s[(k + 1) + j - 1] /\ (k + 1) + j - 1 = k + j
      BY <1>1
    <3>2. QED
      BY <3>1
  <2>3. QED
    BY <2>1, <2>2
<1>3. both \in Seq(S) /\ Len(both) = n - k + 1 /\ \A j \in 1 .. n - k + 1 : both[j] = s[k + j - 1]
  BY <1>1
<1>4. left \in Seq(S) /\ Len(left) = 1 /\ left[1] = s[k]
  BY <1>1
<1> HIDE DEF left, rest, both
<1>5. left \o rest \in Seq(S) /\ Joins(left \o rest, left, rest)
  BY <1>2, <1>4, Joined
<1> DEFINE join == left \o rest
<1>6. Len(join) = n - k + 1
  BY <1>1, <1>2, <1>4, <1>5 DEF Joins
<1>7. ASSUME NEW j \in 1 .. n - k + 1 PROVE join[j] = both[j]
  <2>1. CASE j = 1
    BY <1>1, <1>3, <1>4, <1>5, <2>1 DEF Joins
  <2>2. CASE j # 1
    <3>1. j - 1 \in 1 .. n - k /\ 1 + (j - 1) = j /\ k + (j - 1) = k + j - 1
      BY <1>1, <2>2
    <3>2. join[1 + (j - 1)] = rest[j - 1]
      BY <1>2, <1>4, <1>5, <3>1 DEF Joins
    <3>3. QED
      BY <1>2, <1>3, <3>1, <3>2
  <2>3. QED
    BY <2>1, <2>2
<1> DEFINE l == n - k + 1
<1>8. join = [j \in 1 .. l |-> join[j]] /\ both = [j \in 1 .. l |-> both[j]]
  <2>1. join \in Seq(S) /\ Len(join) = l /\ both \in Seq(S) /\ Len(both) = l
    BY <1>3, <1>5, <1>6
  <2> HIDE DEF join, l
  <2>2. QED
    BY <2>1
<1>9. join = both
  <2> HIDE DEF join
  <2>1. QED
    BY <1>7, <1>8
<1>10. QED
  BY <1>9 DEF left, rest, both

LEMMA StepBack ==
    ASSUME NEW n \in Nat, NEW d \in Nat, d < n
    PROVE  n - d \in 1 .. n /\ n - (d + 1) = (n - d) - 1 /\ d + 1 \in 0 .. n /\ ((n - d) - 1) + 1 = n - d
  OBVIOUS

LEMMA ChainReads ==
    ASSUME NEW C, NEW path \in Seq(Segs(C)), NEW parse, NEW at, Chained(parse, at, path, C),
           parse[at[Len(path)]] = <<>>, \A m \in 1 .. Len(path) : ~Marked(path[m])
    PROVE  parse[at[0]] = path
<1> DEFINE n == Len(path)
           rest(k) == SubSeq(path, k + 1, n)
           T == {d \in 0 .. n : parse[at[n - d]] = rest(n - d)}
<1>1. n \in Nat /\ path = [i \in 1 .. n |-> path[i]]
  OBVIOUS
<1>2. 0 \in T
  <2>1. n - 0 = n /\ 0 \in 0 .. n
    BY <1>1
  <2>2. rest(n) = <<>>
    BY <1>1
  <2> HIDE DEF rest
  <2>3. QED
    BY <2>1, <2>2
<1>3. ASSUME NEW d \in 0 .. n, d \in T, d < n PROVE d + 1 \in T
  <2> DEFINE k == n - d
  <2>1. k \in 1 .. n /\ n - (d + 1) = k - 1 /\ d + 1 \in 0 .. n /\ (k - 1) + 1 = k
    <3> HIDE DEF T, rest, n
    <3>1. d \in Nat /\ n \in Nat
      BY <1>1
    <3>2. QED
      BY <1>3, <3>1, StepBack
  <2>2. parse[at[k]] = rest(k)
    BY <1>3
  <2> HIDE DEF k
  <2>3. Continues(parse, at[k - 1], path[k], at[k])
    BY <2>1 DEF Chained
  <2>4. rest(k) \in Seq(Segs(C)) /\ path[k] \in Segs(C)
    BY <1>1, <2>1
  <2>5. rest(k) # Malformed
    <3> HIDE DEF rest
    <3>1. QED
      BY <2>4, NotMalformed
  <2>6. parse[at[k - 1]] = <<path[k]>> \o rest(k)
    <3> HIDE DEF rest
    <3>1. QED
      BY <2>2, <2>3, <2>5 DEF Continues
  <2>7. <<path[k]>> \o rest(k) = rest(k - 1)
    <3>1. <<path[k]>> \o SubSeq(path, k + 1, Len(path)) = SubSeq(path, k, Len(path))
      BY <2>1, OneBefore
    <3>2. QED
      BY <2>1, <3>1
  <2>8. parse[at[n - (d + 1)]] = rest(n - (d + 1))
    BY <2>1, <2>6, <2>7
  <2>9. QED
    BY <2>1, <2>8
<1>4. n \in T
  <2> HIDE DEF T, n
  <2>1. 0 .. n \subseteq T
    BY <1>1, <1>2, <1>3, CountingUp
  <2>2. QED
    BY <1>1, <2>1
<1>5. n - n = 0 /\ rest(0) = path
  BY <1>1
<1>6. QED
  BY <1>4, <1>5

\* One segment further back from the m-th.
LEMMA OneBack ==
    ASSUME NEW m \in Nat, NEW n \in Nat, m <= n, NEW d \in Nat, d < m - 1
    PROVE  /\ (m - 1) - d \in 1 .. m - 1 /\ (m - 1) - d \in 1 .. n
           /\ (m - 1) - (d + 1) = ((m - 1) - d) - 1 /\ d + 1 \in 0 .. m - 1
  OBVIOUS

\* What is not read at segment m is not read at the first.
LEMMA ChainFails ==
    ASSUME NEW C, NEW path \in Seq(Segs(C)), NEW parse, NEW at, Chained(parse, at, path, C),
           NEW m \in 1 .. Len(path), \A k \in 1 .. m - 1 : ~Marked(path[k]),
           parse[at[m - 1]] = Malformed
    PROVE  parse[at[0]] = Malformed
<1> DEFINE T == {d \in 0 .. m - 1 : parse[at[(m - 1) - d]] = Malformed}
<1>1. m - 1 \in Nat /\ m \in Nat /\ (m - 1) - (m - 1) = 0
  OBVIOUS
<1>2. 0 \in T
  <2>1. m - 1 \in Nat
    BY <1>1
  <2>2. 0 \in 0 .. m - 1 /\ (m - 1) - 0 = m - 1
    BY ONLY <2>1
  <2>3. QED
    BY <2>2
<1>3. ASSUME NEW d \in 0 .. m - 1, d \in T, d < m - 1 PROVE d + 1 \in T
  <2> DEFINE k == (m - 1) - d
  <2>1. k \in 1 .. m - 1 /\ (m - 1) - (d + 1) = k - 1 /\ d + 1 \in 0 .. m - 1 /\ k \in 1 .. Len(path)
    <3> HIDE DEF T
    <3>1. Len(path) \in Nat /\ m <= Len(path) /\ d \in Nat
      OBVIOUS
    <3>2. QED
      BY <1>1, <1>3, <3>1, OneBack
  <2>2. parse[at[k]] = Malformed
    BY <1>3
  <2> HIDE DEF k
  <2>3. Continues(parse, at[k - 1], path[k], at[k])
    BY <2>1 DEF Chained
  <2>4. parse[at[k - 1]] = Malformed
    BY <2>2, <2>3 DEF Continues
  <2>5. QED
    BY <2>1, <2>4
<1>4. m - 1 \in T
  <2> HIDE DEF T
  <2>1. 0 .. m - 1 \subseteq T
    <3> DEFINE n == m - 1
    <3>1. n \in Nat
      BY <1>1
    <3>2. \A d \in 0 .. n : d \in T /\ d < n => d + 1 \in T
      BY <1>3
    <3> HIDE DEF n
    <3>3. 0 .. n \subseteq T
      BY <1>2, <3>1, <3>2, CountingUp
    <3>4. QED
      BY <3>3 DEF n
  <2>2. QED
    BY <1>1, <2>1
<1>5. QED
  BY <1>1, <1>4

\* Where another segment is read for segment m, another path is.
LEMMA ChainLoses ==
    ASSUME NEW C, NEW path \in Seq(Segs(C)), NEW parse, NEW at, Chained(parse, at, path, C),
           NEW m \in 1 .. Len(path), \A k \in 1 .. m - 1 : ~Marked(path[k]),
           Len(parse[at[m - 1]]) >= 1, parse[at[m - 1]][1] # path[m]
    PROVE  parse[at[0]] # path
<1> DEFINE Other(d) == LET s == parse[at[(m - 1) - d]]
                       IN  s = Malformed \/ (s \in Seq(Segs(C)) /\ Len(s) >= d + 1 /\ s[d + 1] # path[m])
           T == {d \in 0 .. m - 1 : Other(d)}
<1>1. m - 1 \in Nat /\ m \in Nat /\ (m - 1) - (m - 1) = 0 /\ m - 1 \in 0 .. Len(path) /\ 0 \in 0 .. m - 1
      /\ (m - 1) - 0 = m - 1
  OBVIOUS
<1>2. 0 \in T
  <2>1. parse[at[m - 1]] \in Seq(Segs(C)) \cup {Malformed}
    BY <1>1 DEF Chained
  <2>2. Other(0)
    BY <1>1, <2>1
  <2> HIDE DEF Other
  <2>3. QED
    BY <1>1, <2>2
<1>3. ASSUME NEW d \in 0 .. m - 1, d \in T, d < m - 1 PROVE d + 1 \in T
  <2> DEFINE k == (m - 1) - d
             s == parse[at[k]]
  <2>1. k \in 1 .. m - 1 /\ (m - 1) - (d + 1) = k - 1 /\ d + 1 \in 0 .. m - 1 /\ k \in 1 .. Len(path)
    <3> HIDE DEF T, Other
    <3>1. Len(path) \in Nat /\ m <= Len(path) /\ d \in Nat
      OBVIOUS
    <3>2. QED
      BY <1>1, <1>3, <3>1, OneBack
  <2>2. s = Malformed \/ (s \in Seq(Segs(C)) /\ Len(s) >= d + 1 /\ s[d + 1] # path[m])
    BY <1>3
  <2> HIDE DEF k
  <2>3. Continues(parse, at[k - 1], path[k], at[k])
    BY <2>1 DEF Chained
  <2>4. CASE s = Malformed
    <3>1. parse[at[k - 1]] = Malformed
      BY <2>3, <2>4 DEF Continues
    <3>2. Other(d + 1)
      BY <2>1, <3>1
    <3> HIDE DEF Other
    <3>3. QED
      BY <2>1, <3>2
  <2>5. CASE s # Malformed
    <3> DEFINE t == <<path[k]>> \o s
    <3>1. parse[at[k - 1]] = t
      BY <2>3, <2>5 DEF Continues
    <3>2. s \in Seq(Segs(C)) /\ Len(s) >= d + 1 /\ s[d + 1] # path[m]
      BY <2>2, <2>5
    <3> HIDE DEF s
    <3>3. path[k] \in Segs(C) /\ d + 1 \in Nat
      BY <2>1
    <3>4. t \in Seq(Segs(C)) /\ Len(t) >= (d + 1) + 1
      BY <3>2, <3>3
    <3>5. t[(d + 1) + 1] = s[d + 1]
      BY <3>2, <3>3
    <3> HIDE DEF t
    <3>6. Other(d + 1)
      BY <2>1, <3>1, <3>2, <3>4, <3>5
    <3> HIDE DEF Other
    <3>7. QED
      BY <2>1, <3>6
  <2>6. QED
    BY <2>4, <2>5
<1>4. Other(m - 1)
  <2> HIDE DEF Other
  <2>1. 0 .. m - 1 \subseteq T
    <3> DEFINE n == m - 1
    <3>1. n \in Nat
      BY <1>1
    <3>2. \A d \in 0 .. n : d \in T /\ d < n => d + 1 \in T
      BY <1>3
    <3> HIDE DEF n, T
    <3>3. 0 .. n \subseteq T
      BY <1>2, <3>1, <3>2, CountingUp
    <3>4. QED
      BY <3>3 DEF n
  <2>2. QED
    BY <1>1, <2>1
<1>5. parse[at[0]] = Malformed \/ parse[at[0]][m] # path[m]
  <2>1. (m - 1) - (m - 1) = 0 /\ (m - 1) + 1 = m
    BY <1>1
  <2>2. QED
    BY <1>4, <2>1
<1>6. path # Malformed
  BY NotMalformed
<1>7. QED
  BY <1>5, <1>6

-----------------------------------------------------------------------------
(* The text of a path                                                      *)

\* No space to trim at either end.
Solid(piece, C) == piece \in Seq(C) /\ Len(piece) >= 1 /\ piece[1] # " " /\ piece[Len(piece)] # " "

Dotted(text, d, t, C) ==
    Solid(text, C) /\ (d = <<".">> => text[1] = ".") /\ (d = <<>> => text = t)

LEMMA DottedIsSolid ==
    ASSUME NEW C, Alphabet \subseteq C, NEW d \in {<<>>, <<".">>}, NEW t \in Seq(C), Solid(t, C)
    PROVE  Dotted(d \o t, d, t, C)
<1>0. Len(t) \in Nat
  OBVIOUS
<1>1. Len(t) >= 1 /\ t[1] # " " /\ t[Len(t)] # " "
  BY DEF Solid
<1>2. CASE d = <<>>
  <2>1. d \o t = t
    BY <1>2
  <2>2. d # <<".">>
    BY <1>2
  <2>3. QED
    BY <2>1, <2>2 DEF Dotted
<1>3. CASE d = <<".">>
  <2>1. "." \in C
    BY DEF Alphabet, Punctuation
  <2>2. d \in Seq(C) /\ Len(d) = 1 /\ d[1] = "." /\ d # <<>>
    BY <1>3, <2>1
  <2>3. d \o t \in Seq(C) /\ Joins(d \o t, d, t)
    BY <1>1, <2>2, Joined
  <2> DEFINE join == d \o t
  <2> HIDE DEF join
  <2>4. Len(join) = 1 + Len(t) /\ join[1] = "." /\ join[1 + Len(t)] = t[Len(t)]
    <3>0. Len(d) = 1 /\ Len(t) >= 1
      BY <1>1, <2>2
    <3>1. 1 \in 1 .. Len(d) /\ Len(t) \in 1 .. Len(t)
      BY ONLY <1>0, <3>0
    <3>2. QED
      BY <2>2, <2>3, <3>1 DEF Joins, join
  <2>5. Solid(join, C)
    <3>1. join[Len(join)] = t[Len(t)]
      BY <2>4
    <3>2. 1 + Len(t) >= 1
      BY ONLY <1>0
    <3>3. QED
      BY <1>1, <2>3, <2>4, <3>1, <3>2 DEF Solid, join
  <2>6. QED
    BY <2>2, <2>4, <2>5 DEF Dotted, join
<1>4. QED
  BY <1>2, <1>3

\* A segment begins, but for the first of a path, where a token ends.
LEMMA SegmentShape ==
    ASSUME NEW C, Alphabet \subseteq C, NEW path \in Seq(Segs(C)), NEW m \in DOMAIN path
    PROVE  /\ Solid(RenderSegment(path, m), C)
           /\ m > 1 => RenderSegment(path, m)[1] \in {".", "["}
<1> DEFINE piece == RenderSegment(path, m)
<1>0. /\ {"*", "[", "]", ".", "'"} \subseteq C
      /\ Dot(m) \in {<<>>, <<".">>} /\ (m > 1 => Dot(m) = <<".">>)
  BY DEF Alphabet, Punctuation, Quotes, Dot
<1>1. ASSUME piece = Dot(m) \o <<"*">>
      PROVE  Solid(piece, C) /\ (m > 1 => piece[1] \in {".", "["})
  <2> DEFINE star == <<"*">>
             dot == Dot(m)
  <2>1. Solid(star, C)
    BY <1>0 DEF Solid
  <2>2. piece = dot \o star
    BY <1>1
  <2> HIDE DEF star, dot, piece
  <2>3. Dotted(dot \o star, dot, star, C)
    <3>1. star \in Seq(C) /\ dot \in {<<>>, <<".">>}
      BY <1>0, <2>1 DEF Solid, dot
    <3>2. QED
      BY <2>1, <3>1, DottedIsSolid
  <2>4. QED
    BY <1>0, <2>2, <2>3 DEF Dotted, dot
<1>2. ASSUME piece = <<"[", "*", "]">>
      PROVE  Solid(piece, C) /\ piece[1] \in {".", "["}
  <2>1. <<"[", "*", "]">> \in Seq(C)
    BY <1>0
  <2>2. QED
    BY <1>2, <2>1 DEF Solid
<1>3. ASSUME NEW n \in Int, piece = <<"[">> \o Numeral(n) \o <<"]">>
      PROVE  Solid(piece, C) /\ piece[1] \in {".", "["}
  <2> DEFINE numeral == Numeral(n)
             open == <<"[">>
             close == <<"]">>
             start == open \o numeral
  <2>1. numeral \in Seq(TenDigits \cup {"-"}) /\ TenDigits \cup {"-"} \subseteq C
    BY NumeralReads DEF Alphabet
  <2>2. numeral \in Seq(C) /\ open \in Seq(C) /\ close \in Seq(C)
    BY <1>0, <2>1
  <2>3. Len(open) = 1 /\ open[1] = "[" /\ Len(close) = 1 /\ close[1] = "]" /\ Len(numeral) \in Nat
    BY <2>2
  <2>4. piece = start \o close
    BY <1>3
  <2> HIDE DEF numeral, open, close, piece
  <2>5. start \in Seq(C) /\ Joins(start, open, numeral)
    BY <2>2, Joined
  <2>6. Len(start) = 1 + Len(numeral) /\ start[1] = "["
    BY <2>3, <2>5 DEF Joins
  <2> HIDE DEF start
  <2>7. piece \in Seq(C) /\ Joins(piece, start, close)
    BY <2>2, <2>4, <2>5, Joined
  <2>8. Len(piece) = Len(start) + 1 /\ piece[1] = "[" /\ piece[Len(start) + 1] = "]"
    BY <2>3, <2>6, <2>7 DEF Joins
  <2>9. QED
    BY <2>3, <2>6, <2>7, <2>8 DEF Solid
<1>4. ASSUME NEW key \in Seq(C), isBareIdentifier(key), piece = Dot(m) \o key
      PROVE  Solid(piece, C) /\ (m > 1 => piece[1] \in {".", "["})
  <2> DEFINE dot == Dot(m)
  <2>1. " " \in Punctuation /\ DOMAIN key = 1 .. Len(key) /\ Len(key) \in Nat
    BY DEF Punctuation
  <2>2. key # <<>> /\ \A j \in 1 .. Len(key) : key[j] # " "
    BY <1>4, <2>1 DEF isBareIdentifier
  <2>3. Len(key) >= 1
    <3>0. key \in Seq(C) /\ key # <<>>
      BY <2>2
    <3>1. Len(key) # 0
      BY ONLY <3>0
    <3>2. Len(key) \in Nat
      BY ONLY <3>0
    <3>3. QED
      BY ONLY <3>1, <3>2
  <2>4. Solid(key, C)
    <3>0. Len(key) \in Nat
      BY <2>1
    <3>1. 1 \in 1 .. Len(key) /\ Len(key) \in 1 .. Len(key)
      BY ONLY <2>3, <3>0
    <3>2. QED
      BY <2>2, <2>3, <3>1 DEF Solid
  <2>5. piece = dot \o key
    BY <1>4
  <2> HIDE DEF dot, piece
  <2>6. Dotted(dot \o key, dot, key, C)
    <3>1. dot \in {<<>>, <<".">>}
      BY <1>0 DEF dot
    <3>2. QED
      BY <2>4, <3>1, DottedIsSolid
  <2>7. QED
    BY <1>0, <2>5, <2>6 DEF Dotted, dot
<1>5. ASSUME NEW key \in Seq(C), NEW d \in {<<>>, <<".">>}, piece = d \o Quoted(key)
      PROVE  Solid(piece, C) /\ piece[1] \in {".", "["}
  <2> DEFINE quoted == Quoted(key)
  <2>1. /\ quoted \in Seq(C) /\ Len(quoted) = Len(Escaped(key)) + 4 /\ Escaped(key) \in Seq(C)
        /\ quoted[1] = "[" /\ quoted[Len(quoted)] = "]"
    BY QuotedParts, EscapedIs
  <2> HIDE DEF quoted
  <2>2. Len(quoted) >= 1
    BY <2>1
  <2>3. Solid(quoted, C)
    BY <2>1, <2>2 DEF Solid
  <2>4. Dotted(d \o quoted, d, quoted, C)
    BY <2>1, <2>3, DottedIsSolid
  <2>5. QED
    BY <1>5, <2>1, <2>4 DEF Dotted, quoted
<1>6. QED
  <2> HIDE DEF piece
  <2>1. \/ piece = Dot(m) \o <<"*">>
        \/ piece = <<"[", "*", "]">>
        \/ \E n \in Int : piece = <<"[">> \o Numeral(n) \o <<"]">>
        \/ \E key \in Seq(C) : isBareIdentifier(key) /\ piece = Dot(m) \o key
        \/ \E key \in Seq(C) : \E d \in {<<>>, <<".">>} : piece = d \o Quoted(key)
    BY RenderedAs DEF piece
  <2>2. Solid(piece, C) /\ (m > 1 => piece[1] \in {".", "["})
    BY <1>1, <1>2, <1>3, <1>4, <1>5, <2>1
  <2>3. QED
    BY <2>2 DEF piece

\* RenderPath puts its segments in a row, each where the one before it ends.
LEMMA RenderedInARow ==
    ASSUME NEW C, Alphabet \subseteq C, NEW path \in Seq(Segs(C)), path # <<>>
    PROVE  /\ Solid(RenderPath(path), C)
           /\ \E off \in [0 .. Len(path) -> Nat] :
                  /\ off[0] = 0 /\ off[Len(path)] = Len(RenderPath(path))
                  /\ \A m \in 1 .. Len(path) :
                        /\ off[m] = off[m - 1] + Len(RenderSegment(path, m))
                        /\ Stands(RenderPath(path), off[m - 1], RenderSegment(path, m))
                        /\ Ends(RenderPath(path), off[m] + 1)
<1> DEFINE n == Len(path)
           pieces == [m \in DOMAIN path |-> RenderSegment(path, m)]
           text == RenderPath(path)
<1>1. n \in Nat /\ n > 0 /\ DOMAIN path = 1 .. n
  OBVIOUS
<1>2. text = Seqs!FlattenSeq(pieces)
  BY DEF RenderPath
<1>3. \A m \in 1 .. n : Solid(pieces[m], C) /\ (m > 1 => pieces[m][1] \in {".", "["})
  BY <1>1, SegmentShape
<1>4. pieces \in [1 .. n -> Seq(C)]
  <2>1. \A m \in 1 .. n : RenderSegment(path, m) \in Seq(C)
    BY <1>1, <1>3 DEF Solid
  <2>2. QED
    BY <1>1, <2>1
<1>5. \A m \in 1 .. n : pieces[m] = RenderSegment(path, m)
  BY <1>1
<1> HIDE DEF n, pieces, text
<1>6. text \in Seq(C) /\ \E off \in [0 .. n -> Nat] : Len(text) = off[n] /\ Places(pieces, off, text)
  BY <1>1, <1>2, <1>4, FlattenPlaces
<1>7. PICK off \in [0 .. n -> Nat] : Len(text) = off[n] /\ Places(pieces, off, text)
  BY <1>6
<1>8. /\ off[0] = 0
      /\ \A m \in 1 .. n : /\ off[m] = off[m - 1] + Len(pieces[m])
                           /\ \A j \in 1 .. Len(pieces[m]) : text[off[m - 1] + j] = pieces[m][j]
  BY <1>4, <1>7 DEF Places
<1>9. \A m \in 1 .. n : /\ off[m] \in Nat /\ off[m - 1] \in Nat /\ Len(pieces[m]) \in Nat
                        /\ Len(pieces[m]) >= 1 /\ off[m - 1] <= off[m]
  <2>1. ASSUME NEW m \in 1 .. n
        PROVE  off[m] \in Nat /\ off[m - 1] \in Nat /\ Len(pieces[m]) \in Nat /\ Len(pieces[m]) >= 1
    <3>1. m \in 0 .. n /\ m - 1 \in 0 .. n
      BY <1>1
    <3>2. pieces[m] \in Seq(C)
      BY <1>4
    <3>3. Len(pieces[m]) \in Nat
      BY <3>2
    <3>4. Len(pieces[m]) >= 1
      BY <1>3 DEF Solid
    <3>5. QED
      BY <3>1, <3>3, <3>4
  <2>2. QED
    BY <1>8, <2>1
<1>10. ASSUME NEW m \in 1 .. n PROVE Stands(text, off[m - 1], pieces[m])
  <2>1. off[m] <= off[n]
    <3>1. m \in 0 .. n /\ n \in m .. n /\ \A k \in 1 .. n : off[k - 1] <= off[k]
      BY <1>1, <1>9
    <3>2. QED
      BY <1>1, <3>1, OffsetsGrow
  <2>2. QED
    BY <1>7, <1>8, <2>1 DEF Stands
<1>11. ASSUME NEW m \in 1 .. n PROVE Ends(text, off[m] + 1)
  <2>1. CASE m = n
    BY <1>7, <2>1 DEF Ends
  <2>2. CASE m # n
    <3>1. m + 1 \in 1 .. n /\ (m + 1) - 1 = m /\ m + 1 > 1
      BY <1>1, <2>2
    <3>2. 1 \in 1 .. Len(pieces[m + 1])
      BY <1>9, <3>1
    <3>3. text[off[m] + 1] = pieces[m + 1][1]
      BY <1>8, <3>1, <3>2
    <3>4. QED
      BY <1>3, <3>1, <3>3 DEF Ends
  <2>3. QED
    BY <2>1, <2>2
<1>12. Solid(text, C)
  <2>1. 1 \in 1 .. n /\ n \in 1 .. n /\ 1 - 1 = 0
    BY <1>1
  <2>2. text[1] = pieces[1][1]
    <3>1. 1 \in 1 .. Len(pieces[1])
      BY <1>9, <2>1
    <3>2. text[off[0] + 1] = pieces[1][1]
      BY <1>8, <2>1, <3>1
    <3>3. QED
      BY <1>8, <3>2
  <2>3. text[Len(text)] = pieces[n][Len(pieces[n])]
    <3>1. Len(pieces[n]) \in 1 .. Len(pieces[n])
      BY <1>9, <2>1
    <3>2. text[off[n - 1] + Len(pieces[n])] = pieces[n][Len(pieces[n])]
      BY <1>8, <2>1, <3>1
    <3>3. QED
      BY <1>7, <1>8, <2>1, <3>2
  <2>4. Len(text) >= 1
    BY <1>7, <1>8, <1>9, <2>1
  <2>5. QED
    BY <1>3, <1>6, <2>1, <2>2, <2>3, <2>4 DEF Solid
<1>13. QED
  <2>1. \A m \in 1 .. n : /\ off[m] = off[m - 1] + Len(RenderSegment(path, m))
                          /\ Stands(text, off[m - 1], RenderSegment(path, m))
                          /\ Ends(text, off[m] + 1)
    BY <1>5, <1>8, <1>10, <1>11
  <2>2. QED
    BY <1>7, <1>8, <1>12, <2>1 DEF n, text

LEMMA SolidStays ==
    ASSUME NEW C, NEW text, Solid(text, C)
    PROVE  ParsePath(text) = Segments(text)[1]
<1> DEFINE n == Len(text)
           solid == {i \in DOMAIN text : text[i] # " "}
<1>0. text \in Seq(C)
  BY DEF Solid
<1>1. n \in Nat /\ DOMAIN text = 1 .. n
  BY <1>0
<1>2. n >= 1 /\ text[1] # " " /\ text[n] # " "
  BY DEF Solid
<1>3. 1 \in 1 .. n /\ n \in 1 .. n /\ n # 0
  <2> HIDE DEF n
  <2>1. n \in Nat
    BY <1>1
  <2>2. n >= 1
    BY <1>2
  <2>3. QED
    BY ONLY <2>1, <2>2
<1>4. 1 \in solid /\ n \in solid /\ solid \subseteq 1 .. n
  BY <1>1, <1>2, <1>3
<1> HIDE DEF n, solid
<1>5. \A i \in solid : i \in Int /\ 1 <= i /\ i <= n
  BY <1>1, <1>4
<1>6. Sets!Min(solid) = 1
  <2>1. \A i \in solid : (\A k \in solid : i <= k) => i = 1
    BY <1>4, <1>5
  <2>2. QED
    BY <1>4, <1>5, <2>1 DEF Sets!Min
<1>7. Sets!Max(solid) = n
  <2>1. \A i \in solid : (\A k \in solid : i >= k) => i = n
    BY <1>1, <1>4, <1>5
  <2>2. \A k \in solid : n >= k
    BY <1>1, <1>5
  <2>3. QED
    BY <1>4, <2>1, <2>2 DEF Sets!Max
<1>8. SubSeq(text, 1, n) = text
  BY <1>0 DEF n
<1>9. TrimSpace(text) = text
  BY <1>4, <1>6, <1>7, <1>8 DEF TrimSpace, solid
<1>10. text # <<>>
  BY <1>3 DEF n
<1>11. QED
  BY <1>9, <1>10 DEF ParsePath

LEMMA OneAhead ==
    ASSUME NEW S, NEW r, NEW s \in Seq(S)
    PROVE  Len(<<r>> \o s) >= 1 /\ (<<r>> \o s)[1] = r
<1> DEFINE T == S \cup {r}
           one == <<r>>
<1>1. one \in Seq(T) /\ s \in Seq(T) /\ Len(one) = 1 /\ one[1] = r /\ Len(s) \in Nat
  OBVIOUS
<1> HIDE DEF one
<1>2. Joins(one \o s, one, s)
  BY <1>1, Joined
<1>3. 1 \in 1 .. Len(one) /\ Len(one) + Len(s) >= 1
  BY ONLY <1>1
<1>4. QED
  BY <1>1, <1>2, <1>3 DEF Joins, one

\* A key with a bracket behind an apostrophe: quoted, it ends there for ParsePath.
EndsEarly(path) ==
    \E i \in DOMAIN path : path[i][1] = "field" /\
        \E j \in DOMAIN path[i][2] : j < Len(path[i][2]) /\ path[i][2][j] = "'" /\ path[i][2][j + 1] = "]"

\* ParsePath reads the text that RenderPath has written as the path it was written
\* for exactly if no key has an apostrophe, and as nothing if one has, unless it
\* has a bracket behind it.
THEOREM PathRead ==
    ASSUME NEW C, Alphabet \subseteq C, NEW path \in Seq(Segs(C)), path # <<>>
    PROVE  /\ ParsePath(RenderPath(path)) = path <=> ~HasQuote(path)
           /\ HasQuote(path) /\ ~EndsEarly(path) => ParsePath(RenderPath(path)) = Malformed
<1> DEFINE n == Len(path)
           text == RenderPath(path)
           parse == Segments(text)
<1>1. n \in Nat /\ n > 0 /\ DOMAIN path = 1 .. n
  OBVIOUS
<1>2. Solid(text, C) /\ text \in Seq(C) /\ Len(text) \in Nat
  <2>1. Solid(text, C)
    BY RenderedInARow
  <2>2. text \in Seq(C)
    BY <2>1 DEF Solid
  <2>3. Len(text) \in Nat
    BY <2>2
  <2>4. QED
    BY <2>1, <2>2, <2>3
<1>3. PICK off \in [0 .. n -> Nat] :
          /\ off[0] = 0 /\ off[n] = Len(text)
          /\ \A m \in 1 .. n : /\ off[m] = off[m - 1] + Len(RenderSegment(path, m))
                               /\ Stands(text, off[m - 1], RenderSegment(path, m))
                               /\ Ends(text, off[m] + 1)
  BY RenderedInARow
<1> DEFINE at == [k \in 0 .. n |-> off[k] + 1]
<1> HIDE DEF n, text, parse
<1>4. \A m \in 1 .. n : /\ off[m] \in Nat /\ off[m - 1] \in Nat /\ off[m - 1] <= off[m]
                        /\ at[m] = off[m] + 1 /\ at[m - 1] = off[m - 1] + 1
  <2>1. ASSUME NEW m \in 1 .. n
        PROVE  /\ off[m] \in Nat /\ off[m - 1] \in Nat /\ off[m - 1] <= off[m]
               /\ at[m] = off[m] + 1 /\ at[m - 1] = off[m - 1] + 1
    <3>1. m \in 0 .. n /\ m - 1 \in 0 .. n
      BY <1>1
    <3>2. off[m] \in Nat /\ off[m - 1] \in Nat
      BY <3>1
    <3>3. RenderSegment(path, m) \in Seq(C)
      BY <1>1, SegmentShape DEF Solid
    <3>4. Len(RenderSegment(path, m)) \in Nat
      BY <3>3
    <3>5. off[m] = off[m - 1] + Len(RenderSegment(path, m))
      BY <1>3
    <3>6. off[m - 1] <= off[m]
      BY ONLY <3>2, <3>4, <3>5
    <3>7. QED
      BY <3>1, <3>2, <3>6
  <2>2. QED
    BY <2>1
<1>5. \A k \in 0 .. n : at[k] \in 1 .. Len(text) + 1
  <2>1. ASSUME NEW k \in 0 .. n PROVE at[k] \in 1 .. Len(text) + 1
    <3>1. off[k] <= off[n]
      <4>1. n \in Nat /\ k \in 0 .. n
        BY <1>1
      <4>2. n \in k .. n
        BY ONLY <4>1
      <4>3. \A m \in 1 .. n : off[m - 1] <= off[m]
        BY <1>4
      <4>4. QED
        BY <4>1, <4>2, <4>3, OffsetsGrow
    <3>2. off[k] \in Nat /\ off[k] <= Len(text) /\ at[k] = off[k] + 1
      BY <1>3, <3>1
    <3>3. QED
      BY ONLY <1>2, <3>2
  <2>2. QED
    BY <2>1
<1>6. at[0] = 1 /\ at[n] = Len(text) + 1
  BY <1>1, <1>3
<1>7. ASSUME NEW m \in 1 .. n
      PROVE  IF Marked(path[m])
             THEN /\ Lost(parse, at[m - 1], path[m], Len(text))
                  /\ Closed(path[m][2]) => parse[at[m - 1]] = Malformed
             ELSE Continues(parse, at[m - 1], path[m], at[m])
  <2>1. /\ m \in DOMAIN path /\ text \in Seq(C) /\ off[m - 1] \in Nat
        /\ Stands(text, off[m - 1], RenderSegment(path, m))
        /\ Ends(text, off[m - 1] + Len(RenderSegment(path, m)) + 1)
        /\ off[m - 1] + Len(RenderSegment(path, m)) + 1 = at[m] /\ off[m - 1] + 1 = at[m - 1]
    BY <1>1, <1>2, <1>3, <1>4
  <2> HIDE DEF at
  <2>2. QED
    BY <2>1, SegmentRead DEF parse
<1>8. parse \in [1 .. Len(text) + 1 -> Seq(Segs(C)) \cup {Malformed}]
  BY <1>2, SegmentsParse DEF parse
<1>9. parse[at[n]] = <<>> /\ ParsePath(text) = parse[at[0]]
  BY <1>2, <1>6, ReadsEnd, SolidStays DEF parse
<1> HIDE DEF at
<1>10. Chained(parse, at, path, C)
  BY <1>5, <1>7, <1>8 DEF Chained, n
<1>11. CASE \A m \in 1 .. n : ~Marked(path[m])
  <2>1. ~HasQuote(path)
    BY <1>1, <1>11 DEF HasQuote, Marked
  <2>2. parse[at[0]] = path
    BY <1>9, <1>10, <1>11, ChainReads DEF n
  <2>3. QED
    BY <1>9, <2>1, <2>2 DEF text
<1>12. CASE \E m \in 1 .. n : Marked(path[m])
  <2>1. HasQuote(path)
    BY <1>1, <1>12 DEF HasQuote, Marked
  <2>2. PICK m \in 1 .. n : Marked(path[m]) /\ \A k \in 1 .. m - 1 : ~Marked(path[k])
    <3> DEFINE M == {m \in 1 .. n : Marked(path[m])}
    <3>1. M # {} /\ M \subseteq Nat
      BY <1>12
    <3>2. PICK m \in M : \A k \in M : ~(k < m)
      BY <3>1, LeastNatural
    <3>3. m \in 1 .. n /\ Marked(path[m])
      BY <3>2
    <3>4. ASSUME NEW k \in 1 .. m - 1 PROVE ~Marked(path[k])
      <4>1. k \in 1 .. n /\ k < m
        BY ONLY <3>3, <1>1, k \in 1 .. m - 1
      <4>2. QED
        BY <3>2, <4>1
    <3>5. QED
      BY <3>3, <3>4
  <2>3. parse[at[m - 1]] = Malformed => parse[at[0]] = Malformed
    BY <1>10, <2>2, ChainFails DEF n
  <2>4. ~EndsEarly(path) => Closed(path[m][2])
    BY <1>1, <2>2 DEF EndsEarly, Closed, Marked
  <2>5. HasQuote(path) /\ ~EndsEarly(path) => parse[at[0]] = Malformed
    BY <1>7, <2>2, <2>3, <2>4
  <2>6. parse[at[0]] # path
    <3>1. path # Malformed
      BY NotMalformed
    <3>2. CASE parse[at[m - 1]] = Malformed
      BY <2>3, <3>1, <3>2
    <3>3. CASE parse[at[m - 1]] # Malformed
      <4>1. PICK r, e : /\ Continues(parse, at[m - 1], r, e) /\ r # path[m]
                        /\ e \in 1 .. Len(text) + 1
        BY <1>7, <2>2, <3>3 DEF Lost
      <4>2. parse[e] # Malformed /\ parse[at[m - 1]] = <<r>> \o parse[e]
        BY <3>3, <4>1 DEF Continues
      <4>3. parse[e] \in Seq(Segs(C))
        BY <1>8, <4>1, <4>2
      <4>4. Len(parse[at[m - 1]]) >= 1 /\ parse[at[m - 1]][1] # path[m]
        BY <4>1, <4>2, <4>3, OneAhead
      <4>5. QED
        BY <1>10, <2>2, <4>4, ChainLoses DEF n
    <3>4. QED
      BY <3>2, <3>3
  <2>7. QED
    BY <1>9, <2>1, <2>5, <2>6 DEF text
<1>13. QED
  BY <1>11, <1>12

\* ParsePath returns a path or an error.
LEMMA Parsed ==
    ASSUME NEW C, NEW text \in Seq(C)
    PROVE  ParsePath(text) \in Seq(Segs(C)) \cup {Malformed}
<1> DEFINE n == Len(text)
           solid == {i \in DOMAIN text : text[i] # " "}
           trimmed == TrimSpace(text)
<1>0. Len(text) \in Nat /\ DOMAIN text = 1 .. Len(text)
  OBVIOUS
<1>1. n \in Nat /\ solid \subseteq 1 .. n
  BY ONLY <1>0
<1>2. CASE solid = {}
  BY <1>2 DEF ParsePath, TrimSpace
<1>3. CASE solid # {}
  <2> HIDE DEF solid
  <2>1. Sets!Min(solid) \in solid
    <3>1. solid \subseteq Nat
      BY <1>1
    <3>2. PICK i \in solid : \A k \in solid : ~(k < i)
      BY <1>3, <3>1, LeastNatural
    <3>3. \A k \in solid : i <= k
      BY <3>1, <3>2
    <3>4. QED
      BY <3>3 DEF Sets!Min
  <2>2. Sets!Max(solid) \in solid
    <3> DEFINE ends == {n - k : k \in solid}
    <3> HIDE DEF n
    <3>1. ends \subseteq Nat /\ ends # {}
      <4>1. \A k \in solid : n - k \in Nat
        BY ONLY <1>1
      <4>2. QED
        BY <1>3, <4>1
    <3>2. PICK d \in ends : \A k \in ends : ~(k < d)
      BY <3>1, LeastNatural
    <3>3. PICK i \in solid : d = n - i
      BY <3>2
    <3>4. \A k \in solid : i >= k
      <4>1. ASSUME NEW k \in solid PROVE i >= k
        <5>1. ~(n - k < n - i)
          BY <3>2, <3>3
        <5>2. n \in Nat /\ k \in Nat /\ i \in Nat
          BY <1>1
        <5>3. QED
          BY ONLY <5>1, <5>2
      <4>2. QED
        BY <4>1
    <3>5. QED
      BY <3>4 DEF Sets!Max
  <2>3. trimmed = SubSeq(text, Sets!Min(solid), Sets!Max(solid))
    BY <1>3 DEF TrimSpace, solid
  <2>4. Sets!Min(solid) \in Nat \ {0} /\ Sets!Max(solid) \in Nat /\ Sets!Max(solid) <= Len(text)
    <3>1. \A k \in solid : k \in Nat \ {0} /\ k <= n
      BY ONLY <1>1
    <3>2. QED
      BY <2>1, <2>2, <3>1
  <2>5. trimmed \in Seq(C)
    BY <2>3, <2>4, SubText
  <2> HIDE DEF trimmed
  <2>6. 1 \in 1 .. Len(trimmed) + 1
    BY <2>5
  <2>7. Segments(trimmed)[1] \in Seq(Segs(C)) \cup {Malformed}
    BY <2>5, <2>6, SegmentsParse
  <2>8. QED
    BY <2>7 DEF ParsePath, trimmed
<1>4. QED
  BY <1>2, <1>3

LEMMA ReadablePatterns == PatternsReadBack
<1>1. ASSUME NEW text \in Texts, ParsePath(text) \notin {Malformed, <<>>}
      PROVE  ParsePath(RenderPath(ParsePath(text))) = ParsePath(text) <=> ~HasQuote(ParsePath(text))
  <2> DEFINE own == {text[i] : i \in DOMAIN text}
             C == own \cup Alphabet
             pattern == ParsePath(text)
  <2>1. text \in Seq(own)
    BY TextsAreTexts DEF IsText
  <2> HIDE DEF own
  <2>2. text \in Seq(C) /\ Alphabet \subseteq C
    BY <2>1
  <2> HIDE DEF C
  <2>3. pattern \in Seq(Segs(C)) /\ pattern # <<>>
    BY <1>1, <2>2, Parsed
  <2> HIDE DEF pattern
  <2>4. ParsePath(RenderPath(pattern)) = pattern <=> ~HasQuote(pattern)
    BY <2>2, <2>3, PathRead
  <2>5. QED
    BY <2>4 DEF pattern
<1>2. QED
  BY <1>1 DEF PatternsReadBack

-----------------------------------------------------------------------------
(* Spelling                                                                *)

Characters == Alphabet \cup UNION {{Spelling[key][i] : i \in DOMAIN Spelling[key]} : key \in DOMAIN Spelling}

LEMMA KeysHaveCharacters ==
    ASSUME NEW key \in DOMAIN Spelling
    PROVE  Spelling[key] \in Seq(Characters)
<1> DEFINE own == {Spelling[key][i] : i \in DOMAIN Spelling[key]}
<1>1. Spelling[key] \in Seq(own)
  BY KeysAreTexts DEF IsText
<1>2. own \subseteq Characters
  BY DEF Characters
<1> HIDE DEF own
<1>3. QED
  BY <1>1, <1>2

\* A segment is either a field, with a key, or spelled as it is.
LEMMA SegmentsSpelled ==
    ASSUME NEW s, IsSpelled(s)
    PROVE  /\ SpelledSegment(s) \in Segs(Characters)
           /\ \/ /\ s[1] = "field" /\ s = Field(s[2]) /\ s[2] \in DOMAIN Spelling
                 /\ SpelledSegment(s) = Field(Spelling[s[2]])
              \/ s[1] # "field" /\ SpelledSegment(s) = s
<1>1. CASE s \in {AnyField, AnyIndex}
  <2>1. s[1] # "field"
    BY <1>1 DEF AnyField, AnyIndex
  <2>2. QED
    BY <1>1, <2>1 DEF SpelledSegment, Segs
<1>2. CASE s = Field(s[2]) /\ s[2] \in DOMAIN Spelling
  <2>1. s[1] = "field"
    BY <1>2 DEF Field
  <2>2. SpelledSegment(s) = Field(Spelling[s[2]]) /\ Spelling[s[2]] \in Seq(Characters)
    BY <1>2, <2>1, KeysHaveCharacters DEF SpelledSegment
  <2>3. QED
    BY <1>2, <2>1, <2>2 DEF Segs
<1>3. CASE s = Index(s[2]) /\ s[2] \in Int
  <2>1. s[1] # "field"
    BY <1>3 DEF Index
  <2>2. QED
    BY <1>3, <2>1 DEF SpelledSegment, Segs
<1>4. QED
  BY <1>1, <1>2, <1>3 DEF IsSpelled

\* Spelling keeps apart what is apart.
LEMMA SpelledApart ==
    ASSUME NEW r, IsSpelled(r), NEW s, IsSpelled(s)
    PROVE  /\ SpelledSegment(r) = SpelledSegment(s) <=> r = s
           /\ SpelledSegment(s)[1] = s[1]
           /\ SpelledSegment(s) = AnyField <=> s = AnyField
           /\ SpelledSegment(s) = AnyIndex <=> s = AnyIndex
<1>1. ASSUME NEW t, IsSpelled(t) PROVE SpelledSegment(t)[1] = t[1]
  BY <1>1, SegmentsSpelled DEF Field
<1>2. ASSUME SpelledSegment(r) = SpelledSegment(s) PROVE r = s
  <2>1. r[1] = s[1]
    BY <1>1, <1>2
  <2>2. CASE s[1] # "field"
    BY <1>2, <2>1, <2>2, SegmentsSpelled
  <2>3. CASE s[1] = "field"
    <3>1. /\ r = Field(r[2]) /\ r[2] \in DOMAIN Spelling /\ SpelledSegment(r) = Field(Spelling[r[2]])
          /\ s = Field(s[2]) /\ s[2] \in DOMAIN Spelling /\ SpelledSegment(s) = Field(Spelling[s[2]])
      BY <2>1, <2>3, SegmentsSpelled
    <3>2. Spelling[r[2]] = Spelling[s[2]]
      <4>1. Field(Spelling[r[2]]) = Field(Spelling[s[2]])
        BY <1>2, <3>1
      <4>2. \A key : Field(key)[2] = key
        BY DEF Field
      <4>3. QED
        BY <4>1, <4>2
    <3>3. r[2] = s[2]
      BY <3>1, <3>2, KeysAreTexts
    <3>4. QED
      BY <3>1, <3>3
  <2>4. QED
    BY <2>2, <2>3
<1>3. \A star \in {AnyField, AnyIndex} : star[1] # "field"
  BY DEF AnyField, AnyIndex
<1>4. ASSUME NEW star \in {AnyField, AnyIndex} PROVE SpelledSegment(s) = star <=> s = star
  <2>1. CASE s[1] = "field"
    BY <1>1, <1>3, <2>1
  <2>2. CASE s[1] # "field"
    BY <2>2, SegmentsSpelled
  <2>3. QED
    BY <2>1, <2>2
<1>5. QED
  BY <1>1, <1>2, <1>4

IsSpelledPath(p) == IsPath(p) /\ \A i \in DOMAIN p : IsSpelled(p[i])

LEMMA PathsSpelled ==
    ASSUME NEW p, IsSpelledPath(p)
    PROVE  /\ Spelled(p) \in Seq(Segs(Characters)) /\ Len(Spelled(p)) = Len(p) /\ Len(p) \in Nat
           /\ DOMAIN p = 1 .. Len(p) /\ DOMAIN Spelled(p) = 1 .. Len(p)
           /\ \A i \in 1 .. Len(p) : Spelled(p)[i] = SpelledSegment(p[i])
           /\ p # <<>> => Spelled(p) # <<>>
<1>1. Len(p) \in Nat /\ DOMAIN p = 1 .. Len(p) /\ p = [i \in 1 .. Len(p) |-> p[i]]
  BY DEF IsSpelledPath, IsPath
<1>2. \A i \in 1 .. Len(p) : SpelledSegment(p[i]) \in Segs(Characters)
  BY <1>1, SegmentsSpelled DEF IsSpelledPath
<1> DEFINE n == Len(p)
           f == [i \in 1 .. n |-> SpelledSegment(p[i])]
<1>3. Spelled(p) = f
  BY <1>1 DEF Spelled
<1>4. f \in [1 .. n -> Segs(Characters)]
  BY <1>2
<1>5. n \in Nat
  BY <1>1
<1> HIDE DEF f, n
<1>6. f \in Seq(Segs(Characters)) /\ Len(f) = n
  BY <1>4, <1>5
<1>7. p # <<>> => f # <<>>
  <2>1. n = 0 => p = <<>>
    BY <1>1 DEF n
  <2>2. f = <<>> => n = 0
    BY <1>6
  <2>3. QED
    BY <2>1, <2>2
<1>8. QED
  BY <1>1, <1>3, <1>6, <1>7 DEF f, n

\* A pattern matches a path exactly as the spelled pattern matches the spelled path.
LEMMA SpelledMatch ==
    ASSUME NEW p, IsSpelledPath(p), NEW q, IsSpelledPath(q)
    PROVE  matchesPath(Spelled(q), Spelled(p)) <=> matchesPath(q, p)
<1>1. ASSUME NEW i \in 1 .. Len(p), Len(p) = Len(q)
      PROVE  segmentsMatch(Spelled(q)[i], Spelled(p)[i]) <=> segmentsMatch(q[i], p[i])
  <2>1. /\ IsSpelled(p[i]) /\ IsSpelled(q[i])
        /\ Spelled(p)[i] = SpelledSegment(p[i]) /\ Spelled(q)[i] = SpelledSegment(q[i])
    BY <1>1, PathsSpelled DEF IsSpelledPath
  <2>2. /\ SpelledSegment(q[i]) = SpelledSegment(p[i]) <=> q[i] = p[i]
        /\ SpelledSegment(p[i])[1] = p[i][1]
        /\ SpelledSegment(q[i]) = AnyField <=> q[i] = AnyField
        /\ SpelledSegment(q[i]) = AnyIndex <=> q[i] = AnyIndex
    BY <2>1, SpelledApart
  <2>3. QED
    BY <2>1, <2>2 DEF segmentsMatch
<1>2. /\ Len(Spelled(p)) = Len(p) /\ Len(Spelled(q)) = Len(q)
      /\ DOMAIN p = 1 .. Len(p) /\ DOMAIN Spelled(p) = 1 .. Len(p)
  BY PathsSpelled
<1>3. QED
  BY <1>1, <1>2 DEF matchesPath

\* A spelled path is none of those that stand for a text that does not parse.
LEMMA SpelledParses ==
    ASSUME NEW p, IsSpelledPath(p), p # <<>>
    PROVE  p # Malformed
<1>1. SUFFICES ASSUME p = Malformed
               PROVE  FALSE
  OBVIOUS
<1>2. IsSpelled(<<"malformed">>)
  BY <1>1 DEF IsSpelledPath, Malformed
<1>3. \A x : <<"malformed">>[1] # Field(x)[1] /\ <<"malformed">>[1] # Index(x)[1]
  BY DEF Field, Index
<1>4. <<"malformed">>[1] # AnyField[1] /\ <<"malformed">>[1] # AnyIndex[1]
  BY DEF AnyField, AnyIndex
<1>5. QED
  BY <1>2, <1>3, <1>4 DEF IsSpelled

\* MatchAny on the text of a path, and on the path.
LEMMA TextMatch ==
    ASSUME NEW p \in Paths, IsSpelledPath(p), p # <<>>,
           NEW patterns, \A q \in patterns : IsSpelledPath(q)
    PROVE  MatchAnyText(RenderPath(Spelled(p)), {Spelled(q) : q \in patterns}) <=> MatchAny(p, patterns)
<1> DEFINE text == RenderPath(Spelled(p))
<1>1. Spelled(p) \in Seq(Segs(Characters)) /\ Spelled(p) # <<>> /\ Alphabet \subseteq Characters
  BY PathsSpelled DEF Characters
<1>2. ASSUME NEW read, IsSpelledPath(read)
      PROVE  matchesAnyPath(Spelled(read), {Spelled(q) : q \in patterns}) <=> matchesAnyPath(read, patterns)
  BY <1>2, SpelledMatch DEF matchesAnyPath
<1>3. CASE HasQuote(Spelled(p))
  <2>1. ReadBack(p) = Misread[p] /\ ReadsAs(text, Misread[p])
    BY <1>3, MisreadIsParsed DEF ReadBack
  <2> HIDE DEF text
  <2>2. CASE ParsePath(text) = Malformed
    <3>1. Misread[p] = Malformed
      BY <2>1, <2>2 DEF ReadsAs
    <3>2. QED
      BY <2>1, <2>2, <3>1 DEF MatchAnyText, MatchAny, text
  <2>3. CASE ParsePath(text) # Malformed
    <3>1. Misread[p] # Malformed /\ IsSpelledPath(Misread[p]) /\ Spelled(Misread[p]) = ParsePath(text)
      BY <2>1, <2>3 DEF ReadsAs, IsSpelledPath
    <3>2. matchesAnyPath(ParsePath(text), {Spelled(q) : q \in patterns}) <=>
              matchesAnyPath(Misread[p], patterns)
      BY <1>2, <3>1
    <3>3. QED
      BY <2>1, <2>3, <3>1, <3>2 DEF MatchAnyText, MatchAny, text
  <2>4. QED
    BY <2>2, <2>3
<1>4. CASE ~HasQuote(Spelled(p))
  <2>1. ParsePath(text) = Spelled(p)
    BY <1>1, <1>4, PathRead
  <2>2. Spelled(p) # Malformed /\ p # Malformed
    BY <1>1, NotMalformed, SpelledParses
  <2>3. ReadBack(p) = p
    BY <1>4, MisreadIsParsed DEF ReadBack
  <2>4. matchesAnyPath(Spelled(p), {Spelled(q) : q \in patterns}) <=> matchesAnyPath(p, patterns)
    BY <1>2
  <2> HIDE DEF text
  <2>5. MatchAnyText(text, {Spelled(q) : q \in patterns}) <=> matchesAnyPath(p, patterns)
    BY <2>1, <2>2, <2>4 DEF MatchAnyText
  <2>6. MatchAny(p, patterns) <=> matchesAnyPath(p, patterns)
    BY <2>2, <2>3 DEF MatchAny
  <2>7. QED
    BY <2>5, <2>6 DEF text
<1>5. QED
  BY <1>3, <1>4

-----------------------------------------------------------------------------
(* The objects                                                             *)

\* An object has only the paths it may have.
OnlyPathsInv == DOMAIN old \subseteq Paths \cup {<<>>} /\ DOMAIN new \subseteq Paths \cup {<<>>}

LEMMA OnlyPaths == Spec => []OnlyPathsInv
<1>1. Init => OnlyPathsInv
  BY DEF Init, OnlyPathsInv, EmptyObject
<1>2. ASSUME OnlyPathsInv, [Next]_vars
      PROVE  OnlyPathsInv'
  <2>1. ASSUME NEW p \in Paths, NEW node \in Nodes, EditOld(p, node)
        PROVE  OnlyPathsInv'
    BY <1>2, <2>1 DEF OnlyPathsInv, EditOld, Put, Without
  <2>2. ASSUME NEW p \in Paths, NEW node \in Nodes, EditNew(p, node)
        PROVE  OnlyPathsInv'
    BY <1>2, <2>2 DEF OnlyPathsInv, EditNew, Put, Without
  <2>3. CASE UNCHANGED vars
    BY <1>2, <2>3 DEF OnlyPathsInv, vars
  <2>4. QED
    BY <1>2, <2>1, <2>2, <2>3 DEF Next
<1>3. QED
  BY <1>1, <1>2, PTL DEF Spec

\* What RenderPath writes of a changed path, ParsePath reads as that path unless a
\* key of it has an apostrophe, and a pattern matches the text exactly when it
\* matches the path that is read: MatchAny decides as the code does on the text.
THEOREM ReportsAreReadBack == Spec => []ReportsReadBack
<1>1. ASSUME ObjectsInv, OnlyPathsInv
      PROVE  ReportsReadBack
  <2>1. ASSUME NEW p \in Changed(old, new)
        PROVE  /\ ParsePath(RenderPath(Spelled(p))) = Spelled(p) <=> ~HasQuote(Spelled(p))
               /\ \A patterns \in PatternSets :
                     MatchAnyText(RenderPath(Spelled(p)), {Spelled(q) : q \in patterns})
                         <=> MatchAny(p, patterns)
    <3>1. p \in DOMAIN old \cup DOMAIN new /\ DifferAt(old, new, p)
      BY DEF Changed
    <3>2. p # <<>>
      BY <1>1, <3>1 DEF ObjectsInv, IsObject, DifferAt
    <3>3. p \in Paths
      BY <1>1, <3>1, <3>2 DEF OnlyPathsInv
    <3>4. IsSpelledPath(p)
      BY <3>3, PathsAreBelowRoot, PathsAreSpelled DEF IsSpelledPath
    <3>5. Spelled(p) \in Seq(Segs(Characters)) /\ Spelled(p) # <<>> /\ Alphabet \subseteq Characters
      BY <3>2, <3>4, PathsSpelled DEF Characters
    <3>6. ParsePath(RenderPath(Spelled(p))) = Spelled(p) <=> ~HasQuote(Spelled(p))
      BY <3>5, PathRead
    <3>7. ASSUME NEW patterns \in PatternSets PROVE \A q \in patterns : IsSpelledPath(q)
      BY PatternsArePaths, PathsAreSpelled DEF IsSpelledPath
    <3>8. ASSUME NEW patterns \in PatternSets
          PROVE  MatchAnyText(RenderPath(Spelled(p)), {Spelled(q) : q \in patterns})
                     <=> MatchAny(p, patterns)
      BY <3>2, <3>3, <3>4, <3>7, <3>8, TextMatch
    <3>9. QED
      BY <3>6, <3>8
  <2>2. QED
    BY <2>1, ReadablePatterns DEF ReportsReadBack
<1>2. QED
  BY <1>1, AlwaysObjects, OnlyPaths, PTL

=============================================================================
