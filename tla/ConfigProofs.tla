---------------------------- MODULE ConfigProofs ----------------------------
(***************************************************************************)
(* Proofs about ConfigText and ConfigManager: what the two edits make of a *)
(* text, and that every edit lands, for any number of callers.             *)
(***************************************************************************)
EXTENDS ConfigManager, SequenceTheorems, FiniteSetTheorems, TLAPS

-----------------------------------------------------------------------------
(* Numbers                                                                 *)

\* A non-empty set of naturals has a least element.
LEMMA LeastElement ==
  ASSUME NEW T, T \subseteq Nat, T # {}
  PROVE  \E x \in T : \A y \in T : x <= y
<1> DEFINE R == {p \in Nat \X Nat : p[1] < p[2]}
<1>1. IsWellFoundedOn(R, Nat)
  BY NatLessThanWellFounded DEF OpToRel
<1>2. PICK x \in T : \A y \in T : <<y, x>> \notin R
  <2> HIDE DEF R
  <2> QED BY WFMin, <1>1
<1>3. ASSUME NEW y \in T PROVE x <= y
  <2>1. x \in Nat /\ y \in Nat
    OBVIOUS
  <2>2. <<y, x>> \in Nat \X Nat /\ <<y, x>>[1] = y /\ <<y, x>>[2] = x
    BY <2>1
  <2>3. ~(y < x)
    BY <1>2, <2>2
  <2> QED BY <2>1, <2>3
<1> QED BY <1>3

\* Induction up to a bound, over a set instead of a predicate.
LEMMA UpTo ==
  ASSUME NEW n \in Nat, NEW S, 0 \in S,
         \A i \in 0 .. n : i \in S /\ i < n => i + 1 \in S
  PROVE  0 .. n \subseteq S
<1> DEFINE T == (0 .. n) \ S
<1> SUFFICES ASSUME T # {} PROVE FALSE
  OBVIOUS
<1>1. T \subseteq Nat
  OBVIOUS
<1>2. PICK x \in T : \A y \in T : x <= y
  <2> HIDE DEF T
  <2> QED BY <1>1, LeastElement
<1>3. x \in 0 .. n /\ x \notin S /\ x # 0
  BY <1>2
<1>4. x - 1 \in 0 .. n /\ x - 1 < n /\ x - 1 \notin T
  BY <1>2, <1>3
<1>5. (x - 1) + 1 \in S
  BY <1>4
<1> QED BY <1>3, <1>5

-----------------------------------------------------------------------------
(* Lines                                                                   *)

\* Two lines are the same if they are of one kind and of one service.
LEMMA LineEq ==
  ASSUME NEW l \in Line, NEW k, NEW s
  PROVE  l = L(k, s) <=> l.kind = k /\ l.svc = s
BY DEF Line, L

LEMMA LineType ==
  ASSUME NEW s \in Services \cup {None},
         NEW k \in {"header", "acl", "use", "default", "other", "blank"}
  PROVE  L(k, s) \in Line /\ Blank \in Line
BY DEF Line, L, Blank

\* A part of a text.
LEMMA Slice ==
  ASSUME NEW text \in Seq(Line), NEW m \in 1 .. (Len(text) + 1),
         NEW n \in 0 .. Len(text), m <= n + 1
  PROVE  /\ SubSeq(text, m, n) \in Seq(Line)
         /\ Len(SubSeq(text, m, n)) = (n - m) + 1
         /\ \A i \in 1 .. ((n - m) + 1) : SubSeq(text, m, n)[i] = text[(m + i) - 1]
<1>1. \A i \in m .. n : text[i] \in Line
  BY ElementOfSeq
<1>2. m \in Int /\ n \in Int
  OBVIOUS
<1>3. /\ SubSeq(text, m, n) \in Seq(Line)
      /\ Len(SubSeq(text, m, n)) = IF m <= n THEN n - m + 1 ELSE 0
      /\ \A i \in 1 .. n - m + 1 : SubSeq(text, m, n)[i] = text[m + i - 1]
  BY <1>1, <1>2, SubSeqProperties, SMTT(30)
<1> QED BY <1>2, <1>3

\* str::lines drops the last line if it is blank, and nothing else.
LEMMA LinesOf ==
  ASSUME NEW text \in Seq(Line)
  PROVE  /\ Lines(text) \in Seq(Line)
         /\ Len(Lines(text)) \in Nat
         /\ Len(Lines(text)) <= Len(text)
         /\ \A i \in 1 .. Len(Lines(text)) : Lines(text)[i] = text[i]
         /\ text # <<>> =>
              /\ Last(text) = Blank => Len(Lines(text)) = Len(text) - 1
              /\ Last(text) # Blank => Len(Lines(text)) = Len(text)
<1>1. CASE text = <<>>
  BY <1>1 DEF Lines, Front
<1>2. CASE text # <<>>
  <2>1. Len(text) \in Nat /\ Len(text) > 0
    BY <1>2
  <2>a. 1 \in 1 .. (Len(text) + 1) /\ Len(text) - 1 \in 0 .. Len(text)
    BY <2>1
  <2>2. /\ Front(text) \in Seq(Line)
        /\ Len(Front(text)) = Len(text) - 1
        /\ \A i \in 1 .. (Len(text) - 1) : Front(text)[i] = text[i]
    <3>1. ASSUME NEW n \in 0 .. Len(text)
          PROVE  /\ SubSeq(text, 1, n) \in Seq(Line)
                 /\ Len(SubSeq(text, 1, n)) = n
                 /\ \A i \in 1 .. n : SubSeq(text, 1, n)[i] = text[i]
      <4>1. 1 \in 1 .. (Len(text) + 1) /\ 1 <= n + 1
        OBVIOUS
      <4>2. /\ SubSeq(text, 1, n) \in Seq(Line)
            /\ Len(SubSeq(text, 1, n)) = (n - 1) + 1
            /\ \A i \in 1 .. ((n - 1) + 1) : SubSeq(text, 1, n)[i] = text[(1 + i) - 1]
        BY <4>1, Slice
      <4> QED BY <4>2
    <3> QED BY <2>1, <2>a, <3>1 DEF Front
  <2> QED BY <2>1, <2>2 DEF Lines
<1> QED BY <1>1, <1>2

\* The place of a new service: before the first use or default line.
LEMMA InsertPosOf ==
  ASSUME NEW text \in Seq(Line)
  PROVE  /\ InsertPos(text) \in 0 .. Len(Lines(text))
         /\ InsertPos(text) # 0 =>
              text[InsertPos(text)].kind \in {"use", "default"}
         /\ \A i \in 1 .. Len(Lines(text)) :
              text[i].kind \in {"use", "default"} =>
                InsertPos(text) # 0 /\ InsertPos(text) <= i
<1> DEFINE n == Len(Lines(text))
           I == {i \in 1 .. n : Lines(text)[i].kind \in {"use", "default"}}
<1>1. n \in Nat /\ \A i \in 1 .. n : Lines(text)[i] = text[i]
  BY LinesOf
<1>2. InsertPos(text) = IF I # {} THEN Min(I) ELSE 0
  BY DEF InsertPos, SelectInSeq
<1>3. CASE I = {}
  BY <1>1, <1>2, <1>3
<1>4. CASE I # {}
  <2>1. \E x \in I : \A y \in I : x <= y
    <3>1. I \subseteq Nat
      BY <1>1
    <3> HIDE DEF I
    <3> QED BY <3>1, <1>4, LeastElement
  <2>2. Min(I) \in I /\ \A y \in I : Min(I) <= y
    <3> HIDE DEF I
    <3>1. Min(I) = CHOOSE x \in I : \A y \in I : x <= y
      BY DEF Min
    <3> QED BY <2>1, <3>1, Zenon
  <2>3. InsertPos(text) \in I /\ \A y \in I : InsertPos(text) <= y
    <3> HIDE DEF I
    <3> QED BY <1>2, <1>4, <2>2
  <2>4. InsertPos(text) \in 1 .. n
    BY <2>3
  <2>5. text[InsertPos(text)].kind \in {"use", "default"}
    BY <1>1, <2>3, <2>4
  <2>6. ASSUME NEW i \in 1 .. n, text[i].kind \in {"use", "default"}
        PROVE  InsertPos(text) <= i
    BY <1>1, <2>3, <2>6
  <2> QED BY <1>1, <2>4, <2>5, <2>6
<1> QED BY <1>3, <1>4

\* W is U and V, one after the other.
Joins(W, U, V) ==
  /\ W \in Seq(Line) /\ Len(W) = Len(U) + Len(V)
  /\ \A i \in 1 .. Len(U) : W[i] = U[i]
  /\ \A i \in (Len(U) + 1) .. (Len(U) + Len(V)) : W[i] = V[i - Len(U)]

LEMMA Concat2 ==
  ASSUME NEW U \in Seq(Line), NEW V \in Seq(Line)
  PROVE  Joins(U \o V, U, V)
<1>1. Len(U) \in Nat /\ Len(V) \in Nat
  BY LenProperties
<1>2. /\ U \o V \in Seq(Line) /\ Len(U \o V) = Len(U) + Len(V)
      /\ \A i \in 1 .. Len(U) + Len(V) :
           (U \o V)[i] = IF i <= Len(U) THEN U[i] ELSE V[i - Len(U)]
  BY ConcatProperties
<1> QED BY <1>1, <1>2 DEF Joins

\* What add_service makes of a text of n lines: the two lines before the first
\* use or default line, p, the block after the last line, and everything else
\* as it was.
IsAdded(new, text, s, n, p) ==
  /\ new \in Seq(Line) /\ Len(new) = n + 6
  /\ \A i \in 1 .. (p - 1) : new[i] = text[i]
  /\ new[p] = L("acl", s) /\ new[p + 1] = L("use", s)
  /\ \A i \in p .. n : new[i + 2] = text[i]
  /\ new[n + 3] = Blank /\ new[n + 4] = L("header", s)
  /\ new[n + 5] = L("other", s) /\ new[n + 6] = Blank

LEMMA Added ==
  ASSUME NEW text \in Seq(Line), NEW s \in Services,
         NEW n, n = Len(Lines(text)), NEW p \in 1 .. n, p = InsertPos(text)
  PROVE  IsAdded(WithService(text, s), text, s, n, p)
<1>1. PICK lines : lines = Lines(text)
  OBVIOUS
<1>2. /\ lines \in Seq(Line) /\ n \in Nat /\ Len(lines) = n
      /\ \A i \in 1 .. n : lines[i] = text[i]
  BY <1>1, LinesOf
<1>3. PICK A : A = SubSeq(lines, 1, p - 1)
  OBVIOUS
<1>4. PICK B : B = acl_lines(s)
  OBVIOUS
<1>5. PICK C : C = SubSeq(lines, p, n)
  OBVIOUS
<1>6. PICK D : D = backend_block(s)
  OBVIOUS
<1>7. PICK new : new = WithService(text, s)
  OBVIOUS
<1>8. PICK AB : AB = A \o B
  OBVIOUS
<1>a. PICK ABC : ABC = AB \o C
  OBVIOUS
<1>b. new = ABC \o D
  BY <1>1, <1>3, <1>4, <1>5, <1>6, <1>7, <1>8, <1>a DEF WithService
<1>c. n \in Nat /\ p \in Nat /\ 1 <= p /\ p <= n
  BY <1>2
<1>9. A \in Seq(Line) /\ Len(A) = p - 1 /\ \A i \in 1 .. (p - 1) : A[i] = text[i]
  <2>1. PICK q \in 0 .. Len(lines) : q = p - 1
    BY <1>2
  <2>2. 1 \in 1 .. (Len(lines) + 1) /\ 1 <= q + 1
    BY <1>2
  <2>3. /\ SubSeq(lines, 1, q) \in Seq(Line)
        /\ Len(SubSeq(lines, 1, q)) = (q - 1) + 1
        /\ \A i \in 1 .. ((q - 1) + 1) : SubSeq(lines, 1, q)[i] = lines[(1 + i) - 1]
    BY <1>2, <2>2, Slice
  <2>4. A = SubSeq(lines, 1, q)
    BY <1>3, <2>1
  <2> QED BY <1>2, <2>1, <2>3, <2>4
<1>10. /\ C \in Seq(Line) /\ Len(C) = (n - p) + 1
       /\ \A i \in 1 .. ((n - p) + 1) : C[i] = lines[(p + i) - 1]
  <2>1. p \in 1 .. (Len(lines) + 1) /\ n \in 0 .. Len(lines) /\ p <= n + 1
    BY <1>2
  <2> QED BY <1>2, <1>5, <2>1, Slice
<1>11. B \in Seq(Line) /\ Len(B) = 2 /\ B[1] = L("acl", s) /\ B[2] = L("use", s)
  BY <1>4, LineType DEF acl_lines
<1>12. /\ D \in Seq(Line) /\ Len(D) = 4
       /\ D[1] = Blank /\ D[2] = L("header", s)
       /\ D[3] = L("other", s) /\ D[4] = Blank
  BY <1>6, LineType DEF backend_block
<1>13. /\ new \in Seq(Line) /\ Len(new) = n + 6
       /\ \A i \in 1 .. (p - 1) : new[i] = A[i]
       /\ \A i \in p .. (p + 1) : new[i] = B[i - (p - 1)]
       /\ \A i \in (p + 2) .. (n + 2) : new[i] = C[i - (p + 1)]
       /\ \A i \in (n + 3) .. (n + 6) : new[i] = D[i - (n + 2)]
  <2>1. PICK a \in Nat, b \in Nat, c \in Nat, d \in Nat :
          a = p - 1 /\ b = p + 1 /\ c = n + 2 /\ d = n + 6
    BY <1>2, SMTT(30)
  <2>2. a = Len(A) /\ b = a + Len(B) /\ c = b + Len(C) /\ d = c + Len(D)
    <3>1. Len(A) = p - 1 /\ Len(B) = 2 /\ Len(C) = (n - p) + 1 /\ Len(D) = 4
      BY <1>9, <1>10, <1>11, <1>12
    <3>2. /\ p + 1 = (p - 1) + 2 /\ n + 2 = (p + 1) + ((n - p) + 1)
          /\ n + 6 = (n + 2) + 4
      BY <1>c
    <3> QED BY <2>1, <3>1, <3>2
  <2>3. /\ new \in Seq(Line) /\ Len(new) = d
        /\ \A i \in 1 .. a : new[i] = A[i]
        /\ \A i \in (a + 1) .. b : new[i] = B[i - a]
        /\ \A i \in (b + 1) .. c : new[i] = C[i - b]
        /\ \A i \in (c + 1) .. d : new[i] = D[i - c]
    <3>1. Joins(AB, A, B)
      BY <1>8, <1>9, <1>11, Concat2
    <3>2. Joins(ABC, AB, C)
      BY <1>a, <1>10, <3>1, Concat2 DEF Joins
    <3>3. Joins(new, ABC, D)
      BY <1>b, <1>12, <3>2, Concat2 DEF Joins
    <3>12. /\ Len(AB) = b
           /\ \A i \in 1 .. a : AB[i] = A[i]
           /\ \A i \in (a + 1) .. b : AB[i] = B[i - a]
      BY <2>2, <3>1 DEF Joins
    <3>13. /\ Len(ABC) = c
           /\ \A i \in 1 .. b : ABC[i] = AB[i]
           /\ \A i \in (b + 1) .. c : ABC[i] = C[i - b]
      BY <2>2, <3>2, <3>12 DEF Joins
    <3>14. /\ new \in Seq(Line) /\ Len(new) = d
           /\ \A i \in 1 .. c : new[i] = ABC[i]
           /\ \A i \in (c + 1) .. d : new[i] = D[i - c]
      BY <2>2, <3>3, <3>13 DEF Joins
    <3>15. a <= b /\ b <= c
      BY <2>1, <1>c
    <3>16. ASSUME NEW i \in 1 .. b PROVE new[i] = AB[i]
      <4>1. i \in 1 .. c
        BY <3>15
      <4>2. new[i] = ABC[i]
        BY <3>14, <4>1
      <4>3. ABC[i] = AB[i]
        BY <3>13
      <4> QED BY <4>2, <4>3
    <3>17. \A i \in 1 .. a : new[i] = A[i]
      BY <3>12, <3>15, <3>16
    <3>18. ASSUME NEW i \in (a + 1) .. b PROVE new[i] = B[i - a]
      <4>1. i \in 1 .. b
        OBVIOUS
      <4>2. new[i] = AB[i]
        BY <3>16, <4>1
      <4>3. AB[i] = B[i - a]
        BY <3>12
      <4> QED BY <4>2, <4>3
    <3>19. ASSUME NEW i \in (b + 1) .. c PROVE new[i] = C[i - b]
      <4>1. i \in 1 .. c
        OBVIOUS
      <4>2. new[i] = ABC[i]
        BY <3>14, <4>1
      <4>3. \A j \in (b + 1) .. c : ABC[j] = C[j - b]
        BY <3>13
      <4>4. ABC[i] = C[i - b]
        BY <4>3
      <4> QED BY <4>2, <4>4
    <3> QED BY <3>14, <3>17, <3>18, <3>19
  <2> QED BY <1>2, <2>1, <2>3, SMTT(30)
<1>14. \A i \in 1 .. (p - 1) : new[i] = text[i]
  BY <1>9, <1>13
<1>15. new[p] = L("acl", s) /\ new[p + 1] = L("use", s)
  <2>1. new[p] = B[p - (p - 1)] /\ new[p + 1] = B[(p + 1) - (p - 1)]
    <3>1. p \in p .. (p + 1) /\ p + 1 \in p .. (p + 1)
      BY <1>c
    <3> QED BY <1>13, <3>1
  <2>2. p - (p - 1) = 1 /\ (p + 1) - (p - 1) = 2
    OBVIOUS
  <2> QED BY <1>11, <2>1, <2>2
<1>16. ASSUME NEW i \in p .. n PROVE new[i + 2] = text[i]
  <2>1. i + 2 \in (p + 2) .. (n + 2)
    BY <1>2
  <2>2. new[i + 2] = C[(i + 2) - (p + 1)]
    BY <1>13, <2>1
  <2>3. PICK k : k = (i + 2) - (p + 1)
    OBVIOUS
  <2>4. k \in 1 .. ((n - p) + 1) /\ (p + k) - 1 = i /\ i \in 1 .. n
    BY <1>c, <2>3
  <2> QED BY <1>2, <1>10, <2>2, <2>3, <2>4
<1>17. /\ new[n + 3] = Blank /\ new[n + 4] = L("header", s)
       /\ new[n + 5] = L("other", s) /\ new[n + 6] = Blank
  <2>1. /\ new[n + 3] = D[(n + 3) - (n + 2)] /\ new[n + 4] = D[(n + 4) - (n + 2)]
        /\ new[n + 5] = D[(n + 5) - (n + 2)] /\ new[n + 6] = D[(n + 6) - (n + 2)]
    <3>1. {n + 3, n + 4, n + 5, n + 6} \subseteq (n + 3) .. (n + 6)
      BY <1>c
    <3> QED BY <1>13, <3>1
  <2>2. /\ (n + 3) - (n + 2) = 1 /\ (n + 4) - (n + 2) = 2
        /\ (n + 5) - (n + 2) = 3 /\ (n + 6) - (n + 2) = 4
    BY <1>2
  <2> QED BY <1>12, <2>1, <2>2
<1> QED BY <1>7, <1>13, <1>14, <1>15, <1>16, <1>17 DEF IsAdded

\* The loop of remove_service is well defined: line by line it skips or
\* collects.
LEMMA FilteredIs ==
  ASSUME NEW text \in Seq(Line), NEW s, NEW n \in Nat, n = Len(Lines(text))
  PROVE  /\ Filtered(text, s)[0] = <<>>
         /\ \A i \in 1 .. n :
              Filtered(text, s)[i] =
                IF Skipped(text, i, s) THEN Filtered(text, s)[i - 1]
                ELSE Append(Filtered(text, s)[i - 1], text[i])
<1> DEFINE Does(g, m) ==
      g = [i \in 0 .. m |->
             IF i = 0 THEN <<>>
             ELSE IF Skipped(text, i, s) THEN g[i - 1]
             ELSE Append(g[i - 1], text[i])]
    S == {m \in 0 .. n : \E g : Does(g, m)}
<1>1. 0 \in S
  <2> DEFINE z == [i \in 0 .. 0 |-> <<>>]
  <2>1. Does(z, 0)
    OBVIOUS
  <2> HIDE DEF Does
  <2> QED BY <2>1
<1>2. ASSUME NEW m \in 0 .. n, m \in S, m < n PROVE m + 1 \in S
  <2>1. PICK g : Does(g, m)
    BY <1>2
  <2> DEFINE x == IF Skipped(text, m + 1, s) THEN g[m] ELSE Append(g[m], text[m + 1])
             h == [i \in 0 .. (m + 1) |-> IF i <= m THEN g[i] ELSE x]
  <2>2. \A i \in 0 .. m : h[i] = g[i]
    BY <1>2
  <2>3. ASSUME NEW i \in 0 .. (m + 1)
        PROVE  h[i] = IF i = 0 THEN <<>>
                      ELSE IF Skipped(text, i, s) THEN h[i - 1]
                      ELSE Append(h[i - 1], text[i])
    <3>1. CASE i <= m
      <4>1. i \in 0 .. m /\ h[i] = g[i]
        BY <2>2, <3>1
      <4>2. g[i] = IF i = 0 THEN <<>>
                   ELSE IF Skipped(text, i, s) THEN g[i - 1]
                   ELSE Append(g[i - 1], text[i])
        BY <2>1, <4>1
      <4>3. i # 0 => i - 1 \in 0 .. m /\ h[i - 1] = g[i - 1]
        BY <2>2, <4>1
      <4> HIDE DEF h
      <4> QED BY <4>1, <4>2, <4>3
    <3>2. CASE i = m + 1
      <4>1. h[i] = x /\ i # 0 /\ i - 1 = m
        BY <3>2
      <4>2. h[m] = g[m]
        BY <2>2
      <4> HIDE DEF h
      <4> QED BY <3>2, <4>1, <4>2
    <3> QED BY <1>2, <3>1, <3>2
  <2>4. Does(h, m + 1)
    <3>1. h = [i \in 0 .. (m + 1) |-> h[i]]
      OBVIOUS
    <3> HIDE DEF h
    <3> QED BY <2>3, <3>1
  <2>5. m + 1 \in 0 .. n
    BY <1>2
  <2> HIDE DEF Does
  <2> QED BY <2>4, <2>5
<1>3. n \in S
  <2> HIDE DEF S
  <2>1. 0 .. n \subseteq S
    BY <1>1, <1>2, UpTo
  <2> QED BY <2>1
<1>4. PICK g : Does(g, n)
  <2> HIDE DEF Does
  <2> QED BY <1>3
<1>5. Filtered(text, s) = CHOOSE k : Does(k, n)
  BY DEF Filtered
<1>6. Does(Filtered(text, s), n)
  <2> HIDE DEF Does
  <2> QED BY <1>4, <1>5
<1>7. ASSUME NEW f, Does(f, n)
      PROVE  /\ f[0] = <<>>
             /\ \A i \in 1 .. n :
                  f[i] = IF Skipped(text, i, s) THEN f[i - 1]
                         ELSE Append(f[i - 1], text[i])
  <2>1. \A i \in 0 .. n :
          f[i] = IF i = 0 THEN <<>>
                 ELSE IF Skipped(text, i, s) THEN f[i - 1]
                 ELSE Append(f[i - 1], text[i])
    BY <1>7
  <2> QED BY <2>1
<1> HIDE DEF Does
<1> QED BY <1>6, <1>7

\* q has the first m lines of the text but the skipped ones: e says where each
\* of its lines was, in order.
Picks(q, e, text, m, s) ==
  /\ q \in Seq(Line)
  /\ \A k \in 1 .. Len(q) :
       e[k] \in 1 .. m /\ ~Skipped(text, e[k], s) /\ q[k] = text[e[k]]
  /\ \A j, k \in 1 .. Len(q) : j < k => e[j] < e[k]
  /\ \A i \in 1 .. m : ~Skipped(text, i, s) => \E k \in 1 .. Len(q) : e[k] = i

\* One more line, skipped or collected.
LEMMA PickStep ==
  ASSUME NEW text \in Seq(Line), NEW s, NEW m \in Nat, m < Len(text),
         NEW q, NEW e, Picks(q, e, text, m, s)
  PROVE  /\ Skipped(text, m + 1, s) => Picks(q, e, text, m + 1, s)
         /\ ~Skipped(text, m + 1, s) =>
              \E f : Picks(Append(q, text[m + 1]), f, text, m + 1, s)
<1>0. q \in Seq(Line) /\ Len(q) \in Nat /\ text[m + 1] \in Line
  BY ElementOfSeq DEF Picks
<1>1. ASSUME Skipped(text, m + 1, s) PROVE Picks(q, e, text, m + 1, s)
  <2>1. ASSUME NEW k \in 1 .. Len(q)
        PROVE  e[k] \in 1 .. (m + 1) /\ ~Skipped(text, e[k], s) /\ q[k] = text[e[k]]
    BY DEF Picks
  <2>2. \A j, k \in 1 .. Len(q) : j < k => e[j] < e[k]
    BY DEF Picks
  <2>3. ASSUME NEW i \in 1 .. (m + 1), ~Skipped(text, i, s)
        PROVE  \E k \in 1 .. Len(q) : e[k] = i
    <3>1. i # m + 1
      BY <1>1, <2>3
    <3>2. i \in 1 .. m
      BY <3>1
    <3> QED BY <2>3, <3>2 DEF Picks
  <2> QED BY <1>0, <2>1, <2>2, <2>3 DEF Picks
<1>2. ASSUME ~Skipped(text, m + 1, s)
      PROVE  \E f : Picks(Append(q, text[m + 1]), f, text, m + 1, s)
  <2>1. PICK r : r = Append(q, text[m + 1])
    OBVIOUS
  <2>2. PICK l \in Nat : l = Len(q)
    BY <1>0
  <2>3. /\ r \in Seq(Line) /\ Len(r) = l + 1
        /\ \A k \in 1 .. l : r[k] = q[k]
        /\ r[l + 1] = text[m + 1]
    BY <1>0, <2>1, <2>2, AppendProperties
  <2>4. PICK f : f = [k \in 1 .. (l + 1) |-> IF k <= l THEN e[k] ELSE m + 1]
    OBVIOUS
  <2>5. (\A k \in 1 .. l : f[k] = e[k]) /\ f[l + 1] = m + 1
    BY <2>2, <2>4
  <2>6. ASSUME NEW k \in 1 .. (l + 1)
        PROVE  f[k] \in 1 .. (m + 1) /\ ~Skipped(text, f[k], s) /\ r[k] = text[f[k]]
    <3>1. CASE k \in 1 .. l
      <4>1. e[k] \in 1 .. m /\ ~Skipped(text, e[k], s) /\ q[k] = text[e[k]]
        BY <2>2, <3>1 DEF Picks
      <4> QED BY <2>3, <2>5, <3>1, <4>1
    <3>2. CASE k = l + 1
      BY <1>2, <2>3, <2>5, <3>2
    <3> QED BY <2>2, <3>1, <3>2
  <2>7. ASSUME NEW j \in 1 .. (l + 1), NEW k \in 1 .. (l + 1), j < k
        PROVE  f[j] < f[k]
    <3>1. j \in 1 .. l /\ f[j] = e[j] /\ e[j] \in 1 .. m
      BY <2>2, <2>5, <2>7 DEF Picks
    <3>2. CASE k \in 1 .. l
      <4>1. e[j] < e[k]
        BY <2>2, <2>7, <3>1, <3>2 DEF Picks
      <4> QED BY <2>5, <3>1, <3>2, <4>1
    <3>3. CASE k = l + 1
      BY <2>5, <3>1, <3>3
    <3> QED BY <2>2, <3>2, <3>3
  <2>8. ASSUME NEW i \in 1 .. (m + 1), ~Skipped(text, i, s)
        PROVE  \E k \in 1 .. (l + 1) : f[k] = i
    <3>1. CASE i \in 1 .. m
      <4>1. PICK k \in 1 .. l : e[k] = i
        BY <2>2, <2>8, <3>1 DEF Picks
      <4>2. k \in 1 .. (l + 1) /\ f[k] = i
        BY <2>5, <4>1
      <4> QED BY <4>2
    <3>2. CASE i = m + 1
      <4>1. l + 1 \in 1 .. (l + 1)
        OBVIOUS
      <4> QED BY <2>5, <3>2, <4>1
    <3> QED BY <3>1, <3>2
  <2>9. Picks(r, f, text, m + 1, s)
    BY <2>3, <2>6, <2>7, <2>8 DEF Picks
  <2> QED BY <2>1, <2>9
<1> QED BY <1>1, <1>2

\* What remove_service makes of a text.
LEMMA Removed ==
  ASSUME NEW text \in Seq(Line), NEW s
  PROVE  \E q, e : /\ Picks(q, e, text, Len(Lines(text)), s)
                   /\ WithoutService(text, s) = Joined(q)
<1>1. PICK n \in Nat : n = Len(Lines(text)) /\ n <= Len(text)
  BY LinesOf
<1>2. PICK F : F = Filtered(text, s)
  OBVIOUS
<1>3. /\ F[0] = <<>>
      /\ \A i \in 1 .. n :
           F[i] = IF Skipped(text, i, s) THEN F[i - 1] ELSE Append(F[i - 1], text[i])
  BY <1>1, <1>2, FilteredIs
<1> DEFINE S == {m \in 0 .. n : \E e : Picks(F[m], e, text, m, s)}
<1>4. 0 \in S
  <2>1. \A e : Picks(<<>>, e, text, 0, s)
    BY DEF Picks
  <2> QED BY <1>3, <2>1
<1>5. ASSUME NEW m \in 0 .. n, m \in S, m < n PROVE m + 1 \in S
  <2>1. PICK e : Picks(F[m], e, text, m, s)
    BY <1>5
  <2>2. /\ m + 1 \in 1 .. n /\ m + 1 \in 0 .. n /\ (m + 1) - 1 = m
        /\ m < Len(text) /\ m \in Nat
    BY <1>1, <1>5, LenProperties
  <2>3. F[m + 1] = IF Skipped(text, m + 1, s) THEN F[m] ELSE Append(F[m], text[m + 1])
    BY <1>3, <2>2
  <2>4. \E f : Picks(F[m + 1], f, text, m + 1, s)
    BY <2>1, <2>2, <2>3, PickStep
  <2> QED BY <2>2, <2>4
<1>6. n \in S
  <2> HIDE DEF S
  <2>1. 0 .. n \subseteq S
    BY <1>4, <1>5, UpTo
  <2> QED BY <2>1
<1> QED BY <1>1, <1>2, <1>6 DEF WithoutService

LEMMA JoinedType ==
  ASSUME NEW q \in Seq(Line)
  PROVE  Joined(q) \in Seq(Line)
<1>1. <<Blank>> \in Seq(Line)
  BY DEF Line, L, Blank
<1> QED BY <1>1 DEF Joined

LEMMA EditedType ==
  ASSUME NEW text \in Seq(Line), NEW s \in Services
  PROVE  /\ WithoutService(text, s) \in Seq(Line)
         /\ InsertPos(text) # 0 => WithService(text, s) \in Seq(Line)
<1>1. WithoutService(text, s) \in Seq(Line)
  <2>1. PICK q, e : /\ Picks(q, e, text, Len(Lines(text)), s)
                    /\ WithoutService(text, s) = Joined(q)
    BY Removed
  <2> QED BY <2>1, JoinedType DEF Picks
<1>2. ASSUME InsertPos(text) # 0 PROVE WithService(text, s) \in Seq(Line)
  <2>1. PICK n : n = Len(Lines(text))
    OBVIOUS
  <2>2. PICK p \in 1 .. n : p = InsertPos(text)
    <3>1. InsertPos(text) \in 0 .. Len(Lines(text)) /\ Len(Lines(text)) \in Nat
      BY InsertPosOf, LinesOf
    <3> QED BY <1>2, <2>1, <3>1
  <2> QED BY <2>1, <2>2, Added DEF IsAdded
<1> QED BY <1>1, <1>2

LEMMA TruncatedType ==
  ASSUME NEW text \in Seq(Line), NEW x \in Truncated(text)
  PROVE  x \in Seq(Line)
<1>1. Len(text) \in Nat
  BY LenProperties
<1>2. PICK k \in Cuts \cap 0 .. Len(text) : x = Joined(SubSeq(text, 1, k))
  BY DEF Truncated
<1>3. k \in 0 .. Len(text) /\ 1 \in 1 .. (Len(text) + 1) /\ 1 <= k + 1
  BY <1>1, <1>2
<1>4. SubSeq(text, 1, k) \in Seq(Line)
  BY <1>3, Slice
<1> QED BY <1>2, <1>4, JoinedType

-----------------------------------------------------------------------------
(* Types and mutual exclusion                                              *)

\* Only the record of this call changes.
Rest(t) == op' \in [Tasks -> Op] /\ \A u \in Tasks : u # t => op'[u] = op[u]

LEMMA SetOp ==
  ASSUME TypeOK, NEW t \in Tasks, NEW o \in Op, op' = [op EXCEPT ![t] = o]
  PROVE  Rest(t) /\ op'[t] = o
BY DEF TypeOK, Rest

LEMMA GotoOp ==
  ASSUME TypeOK, NEW t \in Tasks, NEW l \in OpPC, Goto(t, l)
  PROVE  /\ Rest(t)
         /\ op'[t].pc = l /\ op'[t].kind = op[t].kind
         /\ op'[t].svc = op[t].svc /\ op'[t].content = op[t].content
<1>1. op[t] \in Op
  BY DEF TypeOK
<1>2. [op[t] EXCEPT !.pc = l] \in Op
  BY <1>1 DEF Op
<1>3. PICK o \in Op : o = [op[t] EXCEPT !.pc = l]
  BY <1>2
<1>4. /\ o.pc = l /\ o.kind = op[t].kind
      /\ o.svc = op[t].svc /\ o.content = op[t].content
  BY <1>1, <1>3 DEF Op
<1>5. op' = [op EXCEPT ![t] = o]
  BY <1>3 DEF Goto
<1>6. Rest(t) /\ op'[t] = o
  BY <1>5, SetOp
<1> QED BY <1>4, <1>6

\* A call that goes on under the lock, one that gives it up, and one that
\* neither has it nor takes it.
LEMMA KeepsLock ==
  ASSUME Exclusive, NEW t \in Tasks, Rest(t), lock' = lock,
         op'[t].pc \in Critical <=> op[t].pc \in Critical
  PROVE  Exclusive'
BY DEF Exclusive, Rest

LEMMA GivesLock ==
  ASSUME Exclusive, NEW t \in Tasks, Rest(t), op[t].pc \in Critical,
         op'[t].pc \notin Critical, lock' = None
  PROVE  Exclusive'
<1>1. lock = t /\ None \notin Tasks
  BY ConfigAssumption DEF Exclusive
<1>2. ASSUME NEW u \in Tasks PROVE op'[u].pc \notin Critical /\ lock' # u
  BY <1>1 DEF Exclusive, Rest
<1> QED BY <1>2 DEF Exclusive

\* What is left of the types once the calls and the lock are done.
OtherTypes ==
  /\ file \in Seq(Line) /\ running \in Seq(Line) /\ image \in Seq(Line)
  /\ master \in {"idle", "read", "fork"}
  /\ lock \in Opt(Tasks)
  /\ ledger \in SUBSET Services
  /\ cut \in BOOLEAN /\ events \in Nat

LEMMA CallStep ==
  ASSUME TypeOK, MutexInv, NEW t \in Tasks, Rest(t), OpOK(op'[t]),
         Exclusive', OtherTypes'
  PROVE  TypeOK' /\ MutexInv'
<1>1. \A u \in Tasks : OpOK(op'[u])
  BY DEF MutexInv, Rest
<1>2. MutexInv'
  BY <1>1 DEF MutexInv
<1>3. TypeOK'
  BY DEF TypeOK, OtherTypes, Rest
<1> QED BY <1>2, <1>3

\* Facts about a call in each of its steps.
LEMMA OpFacts ==
  ASSUME TypeOK, MutexInv, NEW t \in Tasks
  PROVE  /\ op[t] \in Op /\ op[t].pc \in OpPC /\ op[t].kind \in {"add", "remove"}
         /\ op[t].content \in Seq(Line)
         /\ op[t].pc # "idle" => op[t].svc \in Services
         /\ op[t].pc = "write" => Edited(op[t]) \in Seq(Line)
<1>1. /\ op[t] \in Op /\ op[t].pc \in OpPC /\ op[t].kind \in {"add", "remove"}
      /\ op[t].content \in Seq(Line)
  BY DEF TypeOK, Op
<1>2. op[t].pc # "idle" => op[t].svc \in Services
  BY DEF MutexInv, OpOK
<1>3. ASSUME op[t].pc = "write" PROVE Edited(op[t]) \in Seq(Line)
  <2>1. op[t].svc \in Services
    BY <1>2, <1>3
  <2>2. op[t].kind = "add" => InsertPos(op[t].content) # 0
    BY <1>3 DEF MutexInv, OpOK
  <2> QED BY <1>1, <2>1, <2>2, EditedType DEF Edited
<1> QED BY <1>1, <1>2, <1>3

LEMMA EventFacts ==
  ASSUME TypeOK, NEW e, Event(e)
  PROVE  events' = events + 1 /\ events' \in Nat /\ events' # 0 /\ e \in Env
BY DEF TypeOK, Event

LEMMA MutexCall ==
  ASSUME TypeOK, MutexInv, NEW t \in Tasks, NEW k \in {"add", "remove"},
         NEW s \in Services, Call(t, k, s)
  PROVE  TypeOK' /\ MutexInv'
<1> DEFINE o == [pc |-> "lock", kind |-> k, svc |-> s, content |-> <<>>]
<1>1. o \in Op
  BY DEF Op, OpPC, Opt
<1>2. Rest(t) /\ op'[t] = o
  <2> HIDE DEF o
  <2>1. op' = [op EXCEPT ![t] = o]
    BY DEF Call, o
  <2> QED BY <1>1, <2>1, SetOp
<1>3. OpOK(op'[t])
  BY <1>2 DEF OpOK
<1>4. Exclusive'
  <2>1. op'[t].pc \notin Critical /\ op[t].pc \notin Critical /\ lock' = lock
    BY <1>2 DEF Call, At, Critical
  <2> QED BY <1>2, <2>1, KeepsLock DEF MutexInv
<1>5. OtherTypes'
  BY DEF Call, OtherTypes, TypeOK, haproxy
<1> QED BY <1>2, <1>3, <1>4, <1>5, CallStep

LEMMA MutexAcquire ==
  ASSUME TypeOK, MutexInv, NEW t \in Tasks, Acquire(t)
  PROVE  TypeOK' /\ MutexInv'
<1>1. /\ Rest(t)
      /\ op'[t].pc = "read" /\ op'[t].kind = op[t].kind
      /\ op'[t].svc = op[t].svc /\ op'[t].content = op[t].content
  BY GotoOp DEF Acquire, OpPC
<1>2. OpOK(op'[t])
  BY <1>1, OpFacts DEF Acquire, At, OpOK
<1>3. Exclusive'
  <2>1. ASSUME NEW u \in Tasks PROVE op'[u].pc \in Critical <=> lock' = u
    <3>1. CASE u = t
      BY <1>1, <3>1 DEF Acquire, Critical
    <3>2. CASE u # t
      <4>1. lock = None /\ lock' = t /\ op'[u] = op[u]
        BY <1>1, <3>2 DEF Acquire, Rest
      <4>2. op[u].pc \notin Critical
        BY <4>1, ConfigAssumption DEF MutexInv, Exclusive
      <4> QED BY <3>2, <4>1, <4>2
    <3> QED BY <3>1, <3>2
  <2> QED BY <2>1 DEF Exclusive
<1>4. OtherTypes'
  BY DEF Acquire, OtherTypes, TypeOK, haproxy, Opt
<1> QED BY <1>1, <1>2, <1>3, <1>4, CallStep

\* Goto within the call, or its end.
LEMMA MutexGoto ==
  ASSUME TypeOK, MutexInv, NEW t \in Tasks, NEW l \in OpPC,
         Goto(t, l), l \notin {"idle", "write"},
         op[t].pc \in Critical, l \in Critical \/ l \in {"ok", "err"},
         lock' = IF l \in Critical THEN lock ELSE None, OtherTypes'
  PROVE  TypeOK' /\ MutexInv'
<1>1. /\ Rest(t)
      /\ op'[t].pc = l /\ op'[t].kind = op[t].kind
      /\ op'[t].svc = op[t].svc /\ op'[t].content = op[t].content
  BY GotoOp
<1>2. OpOK(op'[t])
  BY <1>1, OpFacts DEF OpOK, Critical
<1>3. CASE l \in Critical
  BY <1>1, <1>2, <1>3, KeepsLock, CallStep DEF MutexInv
<1>4. CASE l \notin Critical
  BY <1>1, <1>2, <1>4, GivesLock, CallStep DEF MutexInv
<1> QED BY <1>3, <1>4

LEMMA MutexRead ==
  ASSUME TypeOK, MutexInv, NEW t \in Tasks, Read(t)
  PROVE  TypeOK' /\ MutexInv'
<1>1. At(t, "read") /\ UNCHANGED <<file, haproxy, cut>>
  BY DEF Read
<1>2. op[t].pc = "read" /\ op[t].pc \in Critical /\ op[t].svc \in Services
  BY <1>1, OpFacts DEF At, Critical
<1>3. CASE Event("read_err") /\ Release(t, "err") /\ UNCHANGED ledger
  <2>1. OtherTypes'
    BY <1>1, <1>3, EventFacts DEF Release, OtherTypes, TypeOK, haproxy, Opt
  <2> QED BY <1>2, <1>3, <2>1, MutexGoto DEF Release, OpPC, Critical
<1>4. CASE Release(t, "ok") /\ Enter(op[t]) /\ UNCHANGED events
  <2>1. ledger' \in SUBSET Services
    BY <1>2, <1>4 DEF Enter, TypeOK
  <2>2. OtherTypes'
    BY <1>1, <1>4, <2>1 DEF Release, OtherTypes, TypeOK, haproxy, Opt
  <2> QED BY <1>2, <1>4, <2>2, MutexGoto DEF Release, OpPC, Critical
<1>5. CASE Release(t, "err") /\ UNCHANGED <<ledger, events>>
  <2>1. OtherTypes'
    BY <1>1, <1>5 DEF Release, OtherTypes, TypeOK, haproxy, Opt
  <2> QED BY <1>2, <1>5, <2>1, MutexGoto DEF Release, OpPC, Critical
<1>6. CASE /\ ~Settled(op[t]) /\ ~NoPlace(op[t])
           /\ op' = [op EXCEPT ![t].pc = "write", ![t].content = file]
           /\ UNCHANGED <<lock, ledger, events>>
  <2>1. PICK o : o = [op[t] EXCEPT !.pc = "write", !.content = file]
    OBVIOUS
  <2>2. /\ o \in Op /\ o.pc = "write" /\ o.kind = op[t].kind
        /\ o.svc = op[t].svc /\ o.content = file
    BY <2>1, OpFacts DEF Op, OpPC, TypeOK
  <2>3. op' = [op EXCEPT ![t] = o]
    BY <1>6, <2>1 DEF TypeOK
  <2>4. Rest(t) /\ op'[t] = o
    BY <2>2, <2>3, SetOp
  <2>5. OpOK(op'[t])
    BY <1>2, <1>6, <2>2, <2>4 DEF OpOK, NoPlace
  <2>6. Exclusive'
    BY <1>2, <1>6, <2>2, <2>4, KeepsLock DEF MutexInv, Critical
  <2>7. OtherTypes'
    BY <1>1, <1>6 DEF OtherTypes, TypeOK, haproxy
  <2> QED BY <2>4, <2>5, <2>6, <2>7, CallStep
<1> QED BY <1>3, <1>4, <1>5, <1>6 DEF Read

LEMMA MutexWrite ==
  ASSUME TypeOK, MutexInv, NEW t \in Tasks, Write(t)
  PROVE  TypeOK' /\ MutexInv'
<1>1. At(t, "write") /\ UNCHANGED <<haproxy, ledger>>
  BY DEF Write
<1>2. op[t].pc = "write" /\ op[t].pc \in Critical /\ Edited(op[t]) \in Seq(Line)
  BY <1>1, OpFacts DEF At, Critical
<1>3. CASE /\ file' = Edited(op[t]) /\ Goto(t, "validate")
           /\ UNCHANGED <<lock, cut, events>>
  <2>1. OtherTypes'
    BY <1>1, <1>2, <1>3 DEF OtherTypes, TypeOK, haproxy
  <2> QED BY <1>2, <1>3, <2>1, MutexGoto DEF OpPC, Critical
<1>4. CASE WriteFails(Edited(op[t])) /\ Release(t, "err")
  <2>1. file' \in Seq(Line) /\ events' \in Nat /\ cut' \in BOOLEAN
    BY <1>2, <1>4, TruncatedType, EventFacts DEF WriteFails
  <2>2. OtherTypes'
    BY <1>1, <1>4, <2>1 DEF Release, OtherTypes, TypeOK, haproxy, Opt
  <2> QED BY <1>2, <1>4, <2>2, MutexGoto DEF Release, OpPC, Critical
<1> QED BY <1>3, <1>4 DEF Write

LEMMA MutexValidate ==
  ASSUME TypeOK, MutexInv, NEW t \in Tasks, Validate(t)
  PROVE  TypeOK' /\ MutexInv'
<1>1. op[t].pc = "validate" /\ op[t].pc \in Critical
  BY DEF Validate, At, Critical
<1>2. OtherTypes' /\ lock' = lock
  BY EventFacts DEF Validate, OtherTypes, TypeOK, haproxy
<1>3. Goto(t, "reload") \/ Goto(t, "restore")
  BY DEF Validate
<1> QED BY <1>1, <1>2, <1>3, MutexGoto DEF OpPC, Critical

LEMMA MutexRestore ==
  ASSUME TypeOK, MutexInv, NEW t \in Tasks, Restore(t)
  PROVE  TypeOK' /\ MutexInv'
<1>1. op[t].pc = "restore" /\ op[t].pc \in Critical /\ op[t].content \in Seq(Line)
  BY OpFacts DEF Restore, At, Critical
<1>2. Release(t, "err")
  BY DEF Restore
<1>3. file' \in Seq(Line) /\ events' \in Nat /\ cut' \in BOOLEAN
  <2>1. CASE /\ file' = op[t].content /\ cut' = (cut \/ running = file)
             /\ UNCHANGED events
    BY <1>1, <2>1 DEF TypeOK
  <2>2. CASE WriteFails(op[t].content)
    BY <1>1, <2>2, TruncatedType, EventFacts DEF WriteFails
  <2> QED BY <2>1, <2>2 DEF Restore
<1>4. OtherTypes'
  BY <1>2, <1>3 DEF Restore, Release, OtherTypes, TypeOK, haproxy, Opt
<1> QED BY <1>1, <1>2, <1>4, MutexGoto DEF Release, OpPC, Critical

LEMMA MutexReload ==
  ASSUME TypeOK, MutexInv, NEW t \in Tasks, Reload(t)
  PROVE  TypeOK' /\ MutexInv'
<1>1. op[t].pc = "reload" /\ op[t].pc \in Critical
      /\ UNCHANGED <<file, running, image, ledger>>
  BY DEF Reload, At, Critical
<1>2. CASE /\ master' = IF master = "idle" THEN "read" ELSE master
           /\ Goto(t, "settle") /\ UNCHANGED <<lock, cut, events>>
  <2>1. OtherTypes'
    BY <1>1, <1>2 DEF OtherTypes, TypeOK
  <2> QED BY <1>1, <1>2, <2>1, MutexGoto DEF OpPC, Critical
<1>3. CASE /\ Event("reload_err") /\ cut' = TRUE
           /\ Release(t, "err") /\ UNCHANGED master
  <2>1. OtherTypes'
    BY <1>1, <1>3, EventFacts DEF Release, OtherTypes, TypeOK, Opt
  <2> QED BY <1>1, <1>3, <2>1, MutexGoto DEF Release, OpPC, Critical
<1> QED BY <1>2, <1>3 DEF Reload

LEMMA MutexSettle ==
  ASSUME TypeOK, MutexInv, NEW t \in Tasks, Settle(t)
  PROVE  TypeOK' /\ MutexInv'
<1>1. op[t].pc = "settle" /\ op[t].pc \in Critical /\ op[t].svc \in Services
  BY OpFacts DEF Settle, At, Critical
<1>2. ledger' \in SUBSET Services
  BY <1>1 DEF Settle, Enter, TypeOK
<1>3. OtherTypes'
  BY <1>2 DEF Settle, Release, OtherTypes, TypeOK, haproxy, Opt
<1> QED BY <1>1, <1>3, MutexGoto DEF Settle, Release, OpPC, Critical

LEMMA IdleType == IdleOp \in Op /\ OpOK(IdleOp) /\ IdleOp.pc = "idle"
BY DEF IdleOp, Op, OpPC, Opt, OpOK

LEMMA MutexReturn ==
  ASSUME TypeOK, MutexInv, NEW t \in Tasks, Return(t)
  PROVE  TypeOK' /\ MutexInv'
<1>1. Rest(t) /\ op'[t] = IdleOp
  BY SetOp, IdleType DEF Return
<1>2. Exclusive'
  BY <1>1, IdleType, KeepsLock DEF Return, MutexInv, Critical
<1>3. OtherTypes'
  BY DEF Return, OtherTypes, TypeOK, haproxy
<1> QED BY <1>1, <1>2, <1>3, IdleType, CallStep

LEMMA MutexCancel ==
  ASSUME TypeOK, MutexInv, NEW t \in Tasks, Cancel(t)
  PROVE  TypeOK' /\ MutexInv'
<1>1. Rest(t) /\ op'[t] = IdleOp
  BY SetOp, IdleType DEF Cancel
<1>2. Exclusive'
  <2>1. CASE op[t].pc \in Critical
    <3>1. lock' = None
      BY <2>1 DEF Cancel, MutexInv, Exclusive
    <3> QED BY <1>1, <2>1, <3>1, IdleType, GivesLock DEF MutexInv, Critical
  <2>2. CASE op[t].pc \notin Critical
    <3>1. lock' = lock
      BY <2>2 DEF Cancel, MutexInv, Exclusive
    <3> QED BY <1>1, <2>2, <3>1, IdleType, KeepsLock DEF MutexInv, Critical
  <2> QED BY <2>1, <2>2
<1>3. OtherTypes'
  <2>1. cut' \in BOOLEAN
    BY DEF Cancel, TypeOK, Halfway
  <2> QED BY <2>1, EventFacts DEF Cancel, OtherTypes, TypeOK, haproxy, Opt
<1> QED BY <1>1, <1>2, <1>3, IdleType, CallStep

LEMMA MutexCrash ==
  ASSUME TypeOK, MutexInv, Crash
  PROVE  TypeOK' /\ MutexInv'
<1>1. \A u \in Tasks : op'[u] = IdleOp
  BY DEF Crash
<1>2. MutexInv'
  BY <1>1, IdleType, ConfigAssumption DEF Crash, MutexInv, Exclusive, Critical
<1>3. op' \in [Tasks -> Op] /\ cut' \in BOOLEAN
  BY IdleType DEF Crash, TypeOK, Halfway
<1> QED BY <1>2, <1>3, EventFacts DEF Crash, TypeOK, haproxy, Opt

LEMMA MutexHAProxy ==
  ASSUME TypeOK, MutexInv, MasterReads \/ MasterForks \/ Restart
  PROVE  TypeOK' /\ MutexInv'
<1>1. op' = op /\ lock' = lock
  BY DEF MasterReads, MasterForks, Restart
<1>2. MutexInv'
  BY <1>1 DEF MutexInv, Exclusive
<1>3. cut' = cut /\ file' = file /\ ledger' = ledger
  BY DEF MasterReads, MasterForks, Restart
<1>4. events' \in Nat
  BY EventFacts DEF MasterReads, MasterForks, Restart, TypeOK
<1>5. running' \in Seq(Line) /\ image' \in Seq(Line)
  <2>1. CASE MasterReads
    BY <2>1 DEF MasterReads, TypeOK
  <2>2. CASE MasterForks
    BY <2>2 DEF MasterForks, TypeOK
  <2>3. CASE Restart
    BY <2>3 DEF Restart, TypeOK
  <2> QED BY <2>1, <2>2, <2>3
<1>6. master' \in {"idle", "read", "fork"}
  BY DEF MasterReads, MasterForks, Restart, TypeOK
<1>7. TypeOK'
  BY <1>1, <1>3, <1>4, <1>5, <1>6 DEF TypeOK
<1> QED BY <1>2, <1>7

LEMMA MutexStep ==
  ASSUME TypeOK, MutexInv, [Next]_vars
  PROVE  TypeOK' /\ MutexInv'
<1>1. CASE UNCHANGED vars
  BY <1>1 DEF vars, haproxy, TypeOK, MutexInv, Exclusive
<1>2. ASSUME NEW t \in Tasks, NEW k \in {"add", "remove"}, NEW s \in Services,
             Call(t, k, s)
      PROVE  TypeOK' /\ MutexInv'
  BY <1>2, MutexCall
<1>3. ASSUME NEW t \in Tasks, Acquire(t) \/ Step(t) \/ Cancel(t)
      PROVE  TypeOK' /\ MutexInv'
  BY <1>3, MutexAcquire, MutexRead, MutexWrite, MutexValidate, MutexRestore,
     MutexReload, MutexSettle, MutexReturn, MutexCancel DEF Step
<1>4. CASE MasterReads \/ MasterForks \/ Restart
  BY <1>4, MutexHAProxy
<1>5. CASE Crash
  BY <1>5, MutexCrash
<1> QED BY <1>1, <1>2, <1>3, <1>4, <1>5 DEF Next

LEMMA BaseTextType == BaseText \in Seq(Line)
BY DEF BaseText, Line, L, Blank

LEMMA StartsWell ==
  ASSUME Init
  PROVE  TypeOK /\ MutexInv
<1>1. op \in [Tasks -> Op]
  BY IdleType DEF Init
<1>2. file \in Seq(Line) /\ running \in Seq(Line) /\ image \in Seq(Line)
  BY BaseTextType DEF Init
<1>3. TypeOK
  BY <1>1, <1>2 DEF Init, TypeOK, Opt
<1>4. MutexInv
  BY IdleType, ConfigAssumption DEF Init, MutexInv, Exclusive, Critical
<1> QED BY <1>3, <1>4

\* The state of config.rs keeps its types, and config_lock does what it is
\* for: at most one call is between its read of the file and its return, for
\* any number of callers, whatever fails and whoever is dropped.
THEOREM ConfigTypeCorrect == Spec => [](TypeOK /\ MutexInv)
<1>1. Init => TypeOK /\ MutexInv
  BY StartsWell
<1>2. TypeOK /\ MutexInv /\ [Next]_vars => TypeOK' /\ MutexInv'
  BY MutexStep
<1> QED BY <1>1, <1>2, PTL DEF Spec

-----------------------------------------------------------------------------
(* Well-formed texts                                                       *)

LEMMA Fields ==
  /\ \A k, s : L(k, s).kind = k /\ L(k, s).svc = s
  /\ Blank.kind = "blank" /\ Blank.svc = None /\ Blank = L("blank", None)
BY DEF L, Blank

\* A line that is not blank is looked at, wherever it stands.
LEMMA NotBlankSeen ==
  ASSUME NEW text \in Seq(Line), NEW i \in 1 .. Len(text), text[i] # Blank
  PROVE  i \in 1 .. Len(Lines(text)) /\ Lines(text)[i] = text[i]
<1>1. Len(text) \in Nat /\ text # <<>>
  BY LenProperties, EmptySeq
<1>2. i = Len(text) => Last(text) # Blank
  BY DEF Last
<1> QED BY <1>1, <1>2, LinesOf

LEMMA ContainsHas ==
  ASSUME NEW text \in Seq(Line), NEW l, l # Blank
  PROVE  Contains(Lines(text), l) <=> Has(text, l)
<1>1. DOMAIN text = 1 .. Len(text) /\ Len(text) \in Nat
  BY LenProperties
<1>2. ASSUME Contains(Lines(text), l) PROVE Has(text, l)
  <2>1. PICK i \in 1 .. Len(Lines(text)) : Lines(text)[i] = l
    BY <1>2 DEF Contains
  <2>2. i \in 1 .. Len(text) /\ text[i] = l
    BY <1>1, <2>1, LinesOf
  <2> QED BY <1>1, <2>2 DEF Has
<1>3. ASSUME Has(text, l) PROVE Contains(Lines(text), l)
  <2>1. PICK i \in 1 .. Len(text) : text[i] = l
    BY <1>1, <1>3 DEF Has
  <2>2. i \in 1 .. Len(Lines(text)) /\ Lines(text)[i] = l
    BY <2>1, NotBlankSeen
  <2> QED BY <2>2 DEF Contains
<1> QED BY <1>2, <1>3

LEMMA ServiceExists ==
  ASSUME NEW text \in Seq(Line)
  PROVE  /\ \A s : service_exists(text, s) <=> Has(text, L("acl", s))
         /\ ServicesIn(text) = {s \in Services : Has(text, L("acl", s))}
         /\ list_services(text) = {s \in Services : Has(text, L("header", s))}
<1>1. \A s : L("acl", s) # Blank /\ L("header", s) # Blank
  BY DEF L, Blank
<1>2. \A s : service_exists(text, s) <=> Has(text, L("acl", s))
  BY <1>1, ContainsHas DEF service_exists
<1>3. \A s : Contains(Lines(text), L("header", s)) <=> Has(text, L("header", s))
  BY <1>1, ContainsHas
<1> QED BY <1>2, <1>3 DEF ServicesIn, list_services

\* In a well-formed text a service has a section if and only if it has an acl.
LEMMA AllOrNone ==
  ASSUME NEW text \in Seq(Line), WellFormed(text), NEW s \in Services
  PROVE  /\ Has(text, L("acl", s)) <=> Has(text, L("header", s))
         /\ ~Has(text, L("acl", s)) => \A i \in DOMAIN text : text[i].svc # s
<1>1. s # None
  BY TextAssumption
<1>2. ASSUME NEW i \in DOMAIN text, text[i].svc = s
      PROVE  Has(text, L("acl", s)) /\ Has(text, L("header", s))
  BY <1>1, <1>2 DEF WellFormed, Sections
<1>3. ASSUME NEW k, Has(text, L(k, s)) PROVE \E i \in DOMAIN text : text[i].svc = s
  BY <1>3, Fields DEF Has
<1> QED BY <1>2, <1>3

\* A new service in a well-formed text: its lines move, none is lost, and the
\* new ones are where they belong.
LEMMA AddedWellFormed ==
  ASSUME NEW text \in Seq(Line), WellFormed(text), Last(text) = Blank,
         NEW s \in Services, ~Has(text, L("acl", s))
  PROVE  /\ InsertPos(text) # 0
         /\ WellFormed(WithService(text, s))
         /\ \A k \in {"acl", "header"}, x \in Services :
              Has(WithService(text, s), L(k, x)) <=> x = s \/ Has(text, L(k, x))
         /\ Last(WithService(text, s)) = Blank
         /\ \A i \in DOMAIN WithService(text, s) :
              \/ WithService(text, s)[i].svc \in {s, None}
              \/ \E j \in DOMAIN text : text[j] = WithService(text, s)[i]
<1>1. PICK n \in Nat : n = Len(Lines(text))
  BY LinesOf
<1>2. PICK f \in DOMAIN text, d \in DOMAIN text, b \in DOMAIN text,
           o \in DOMAIN text : Frame(text, f, d, b, o)
  BY DEF WellFormed
<1>3. DOMAIN text = 1 .. Len(text) /\ Len(text) \in Nat /\ text # <<>>
  BY <1>2, LenProperties, EmptySeq
<1>4. Len(text) = n + 1 /\ text[n + 1] = Blank
  <2>1. Len(Lines(text)) = Len(text) - 1
    BY <1>3, LinesOf
  <2>2. Len(text) = n + 1
    BY <1>1, <1>3, <2>1
  <2> QED BY <2>2 DEF Last
<1>5. \A i \in DOMAIN text : text[i] # Blank => i \in 1 .. n
  BY <1>3, <1>4
<1>6. /\ {f, d, b, o} \subseteq 1 .. n /\ f < d /\ d < b /\ b < o
      /\ text[d].kind = "default"
  BY <1>2, <1>5, Fields DEF Frame, L, Blank
<1>7. PICK p \in 1 .. n : p = InsertPos(text)
  BY <1>1, <1>6, InsertPosOf
<1>8. p <= d
  BY <1>1, <1>6, <1>7, InsertPosOf
<1>9. \A i \in 1 .. n : text[i].svc # s
  BY <1>3, <1>4, AllOrNone
<1>10. PICK new : new = WithService(text, s)
  OBVIOUS
<1>11. /\ new \in Seq(Line) /\ Len(new) = n + 6 /\ DOMAIN new = 1 .. (n + 6)
       /\ \A i \in 1 .. (p - 1) : new[i] = text[i]
       /\ new[p] = L("acl", s) /\ new[p + 1] = L("use", s)
       /\ \A i \in p .. n : new[i + 2] = text[i]
       /\ new[n + 3] = Blank /\ new[n + 4] = L("header", s)
       /\ new[n + 5] = L("other", s) /\ new[n + 6] = Blank
  <2>1. /\ new \in Seq(Line) /\ Len(new) = n + 6
        /\ \A i \in 1 .. (p - 1) : new[i] = text[i]
        /\ new[p] = L("acl", s) /\ new[p + 1] = L("use", s)
        /\ \A i \in p .. n : new[i + 2] = text[i]
        /\ new[n + 3] = Blank /\ new[n + 4] = L("header", s)
        /\ new[n + 5] = L("other", s) /\ new[n + 6] = Blank
    <3>1. IsAdded(new, text, s, n, p)
      BY <1>1, <1>7, <1>10, Added
    <3> QED BY <3>1 DEF IsAdded
  <2> QED BY <2>1, LenProperties
\* Where the old lines go.
<1>12. PICK g : g = [i \in 1 .. n |-> IF i < p THEN i ELSE i + 2]
  OBVIOUS
<1>13. ASSUME NEW i \in 1 .. n
       PROVE  /\ g[i] \in 1 .. (n + 2) /\ new[g[i]] = text[i]
              /\ i < p => g[i] = i
              /\ i >= p => g[i] = i + 2
  <2>1. CASE i < p
    <3>1. g[i] = i /\ i \in 1 .. (p - 1)
      BY <1>12, <2>1
    <3> QED BY <1>11, <2>1, <3>1
  <2>2. CASE ~(i < p)
    <3>1. g[i] = i + 2 /\ i \in p .. n
      BY <1>12, <2>2
    <3> QED BY <1>11, <2>2, <3>1
  <2> QED BY <2>1, <2>2
<1>14. ASSUME NEW i \in 1 .. n, NEW j \in 1 .. n, i < j PROVE g[i] < g[j]
  BY <1>12, <1>14
<1>15. ASSUME NEW j \in 1 .. (n + 6)
       PROVE  j \in {p, p + 1, n + 3, n + 4, n + 5, n + 6} \/ \E i \in 1 .. n : j = g[i]
  <2>1. CASE j < p
    <3>1. j \in 1 .. n /\ g[j] = j
      BY <1>12, <2>1
    <3> QED BY <3>1
  <2>2. CASE j > p + 1 /\ j <= n + 2
    <3>1. j - 2 \in 1 .. n /\ g[j - 2] = (j - 2) + 2
      BY <1>12, <2>2
    <3> QED BY <3>1
  <2> QED BY <2>1, <2>2
<1>16. /\ s # None
       /\ new[p].kind = "acl" /\ new[p].svc = s
       /\ new[p + 1].kind = "use" /\ new[p + 1].svc = s
       /\ new[n + 4].kind = "header" /\ new[n + 4].svc = s
       /\ new[n + 5].kind = "other" /\ new[n + 5].svc = s
       /\ new[n + 3].svc = None /\ new[n + 6].svc = None
  BY <1>11, Fields, TextAssumption
<1>17. \A i \in 1 .. n :
         \/ i \in {f, d, b, o}
         \/ text[i] = Blank
         \/ text[i].svc # None /\ text[i].kind \in {"acl", "use"} /\ i < d
         \/ text[i].svc # None /\ text[i].kind \in {"header", "other"} /\ o < i
  BY <1>2, <1>3, <1>4 DEF Frame
<1>18. Frame(new, g[f], g[d], g[b], g[o])
  <2>1. /\ {g[f], g[d], g[b], g[o]} \subseteq 1 .. (n + 2)
        /\ g[f] < g[d] /\ g[d] < g[b] /\ g[b] < g[o]
    BY <1>6, <1>13, <1>14
  <2>2. /\ new[g[f]] = L("header", None) /\ new[g[d]] = L("default", None)
        /\ new[g[b]] = L("header", None) /\ new[g[o]] = L("other", None)
    BY <1>2, <1>6, <1>13 DEF Frame
  <2>3. g[d] = d + 2 /\ p < g[d] /\ p + 1 < g[d]
    BY <1>6, <1>8, <1>13, SMTT(30)
  <2>4. ASSUME NEW j \in 1 .. (n + 6)
        PROVE  \/ j \in {g[f], g[d], g[b], g[o]}
               \/ new[j] = Blank
               \/ new[j].svc # None /\ new[j].kind \in {"acl", "use"} /\ j < g[d]
               \/ new[j].svc # None /\ new[j].kind \in {"header", "other"} /\ g[o] < j
    <3>1. CASE j \in {p, p + 1}
      BY <1>16, <2>3, <3>1
    <3>2. CASE j \in {n + 3, n + 6}
      BY <1>11, <3>2
    <3>3. CASE j \in {n + 4, n + 5}
      <4>1. g[o] < j
        BY <2>1, <3>3, SMTT(30)
      <4> QED BY <1>16, <3>3, <4>1
    <3>4. CASE \E i \in 1 .. n : j = g[i]
      <4>1. PICK i \in 1 .. n : j = g[i]
        BY <3>4
      <4>2. new[j] = text[i]
        BY <1>13, <4>1
      <4>3. (i < d => g[i] < g[d]) /\ (o < i => g[o] < g[i])
        BY <1>6, <1>14
      <4> QED BY <1>17, <4>1, <4>2, <4>3
    <3> QED BY <1>15, <3>1, <3>2, <3>3, <3>4
  <2>5. {g[f], g[d], g[b], g[o]} \subseteq DOMAIN new
    <3>1. DOMAIN new = 1 .. (n + 6)
      BY <1>11
    <3>2. \A j \in 1 .. (n + 2) : j \in 1 .. (n + 6)
      OBVIOUS
    <3> QED BY <2>1, <3>1, <3>2
  <2> QED BY <1>11, <2>1, <2>2, <2>4, <2>5 DEF Frame
\* Whose the lines are.
<1>19. ASSUME NEW j \in 1 .. (n + 6)
       PROVE  /\ new[j].svc = s => j \in {p, p + 1, n + 4, n + 5}
              /\ new[j].svc \notin {s, None} => \E i \in 1 .. n : j = g[i]
  <2>1. ASSUME NEW i \in 1 .. n, j = g[i] PROVE new[j].svc # s
    BY <1>9, <1>13, <2>1
  <2> QED BY <1>15, <1>16, <2>1
<1>20. \A l : l # Blank /\ Has(text, l) => Has(new, l)
  <2> SUFFICES ASSUME NEW l, l # Blank, Has(text, l) PROVE Has(new, l)
    OBVIOUS
  <2>1. PICK i \in 1 .. n : text[i] = l
    BY <1>5 DEF Has
  <2>2. g[i] \in DOMAIN new /\ new[g[i]] = l
    BY <1>11, <1>13, <2>1, SMTT(30)
  <2> QED BY <2>2 DEF Has
<1>21. /\ Has(new, L("acl", s)) /\ Has(new, L("use", s))
       /\ Has(new, L("header", s)) /\ Has(new, L("other", s))
  <2>1. {p, p + 1, n + 4, n + 5} \subseteq DOMAIN new
    BY <1>11
  <2> QED BY <1>11, <2>1 DEF Has
<1>22. ASSUME NEW i \in DOMAIN new, NEW j \in DOMAIN new, new[i] = new[j],
              new[i].svc # None
       PROVE  i = j
  <2>1. CASE new[i].svc = s
    <3>1. i \in {p, p + 1, n + 4, n + 5} /\ j \in {p, p + 1, n + 4, n + 5}
      BY <1>11, <1>19, <1>22, <2>1
    <3>2. new[i].kind = new[j].kind
      BY <1>22
    <3> QED BY <1>16, <3>1, <3>2, SMTT(30)
  <2>2. CASE new[i].svc # s
    <3>a. i \in 1 .. (n + 6) /\ j \in 1 .. (n + 6)
      BY <1>11
    <3>b. new[i].svc \notin {s, None} /\ new[j].svc \notin {s, None}
      BY <1>22, <2>2
    <3>1. PICK x \in 1 .. n : i = g[x]
      BY <1>19, <3>a, <3>b
    <3>2. PICK y \in 1 .. n : j = g[y]
      BY <1>19, <3>a, <3>b
    <3>3. text[x] = text[y] /\ text[x].svc # None
      BY <1>13, <1>22, <3>1, <3>2, SMTT(30)
    <3>4. x \in DOMAIN text /\ y \in DOMAIN text
      BY <1>3, <1>4
    <3>5. x = y
      BY <3>3, <3>4 DEF WellFormed, Sections
    <3> QED BY <3>1, <3>2, <3>5
  <2> QED BY <2>1, <2>2
<1>23. ASSUME NEW j \in DOMAIN new, NEW x, x = new[j].svc, x # None
       PROVE  /\ Has(new, L("acl", x)) /\ Has(new, L("use", x))
              /\ Has(new, L("header", x)) /\ Has(new, L("other", x))
              /\ new[j].kind = "header" =>
                   /\ j - 1 \in DOMAIN new /\ new[j - 1] = Blank
                   /\ j + 1 \in DOMAIN new /\ new[j + 1] = L("other", x)
  <2>1. CASE x = s
    <3>1. j \in {p, p + 1, n + 4, n + 5}
      BY <1>11, <1>19, <1>23, <2>1
    <3>2. new[j].kind = "header" => j = n + 4
      BY <1>16, <3>1
    <3>3. (n + 4) - 1 = n + 3 /\ (n + 4) + 1 = n + 5 /\ {n + 3, n + 5} \subseteq DOMAIN new
      BY <1>11
    <3> QED BY <1>11, <1>21, <2>1, <3>2, <3>3
  <2>2. CASE x # s
    <3>1. PICK i \in 1 .. n : j = g[i]
      BY <1>11, <1>19, <1>23, <2>2
    <3>2. new[j] = text[i] /\ i \in DOMAIN text /\ text[i].svc = x
      BY <1>3, <1>4, <1>13, <1>23, <3>1
    <3>3. /\ Has(text, L("acl", x)) /\ Has(text, L("use", x))
          /\ Has(text, L("header", x)) /\ Has(text, L("other", x))
          /\ text[i].kind = "header" =>
               /\ i - 1 \in DOMAIN text /\ text[i - 1] = Blank
               /\ i + 1 \in DOMAIN text /\ text[i + 1] = L("other", x)
      BY <1>23, <3>2 DEF WellFormed, Sections
    <3>4. \A k \in {"acl", "use", "header", "other"} : L(k, x) # Blank
      BY <1>23, Fields
    <3>5. ASSUME text[i].kind = "header"
          PROVE  /\ j - 1 \in DOMAIN new /\ new[j - 1] = Blank
                 /\ j + 1 \in DOMAIN new /\ new[j + 1] = L("other", x)
      <4>1. text[f].svc = None /\ text[d].svc = None /\ text[b].svc = None
            /\ text[o].svc = None
        BY <1>2, Fields DEF Frame
      <4>2. o < i
        BY <1>17, <1>23, <3>2, <3>5, <4>1, Fields
      <4>3. i + 1 \in 1 .. n
        BY <1>5, <3>3, <3>4, <3>5
      <4>4. i - 1 \in 1 .. n /\ i - 1 >= p /\ i + 1 >= p /\ i >= p
        BY <1>6, <1>8, <4>2
      <4>5. g[i] = i + 2 /\ g[i - 1] = (i - 1) + 2 /\ g[i + 1] = (i + 1) + 2
        BY <1>13, <4>3, <4>4
      <4>6. g[i - 1] = j - 1 /\ g[i + 1] = j + 1
        BY <3>1, <4>5
      <4>7. /\ g[i - 1] \in DOMAIN new /\ g[i + 1] \in DOMAIN new
            /\ new[g[i - 1]] = text[i - 1] /\ new[g[i + 1]] = text[i + 1]
        BY <1>11, <1>13, <4>3, <4>4, SMTT(30)
      <4> QED BY <3>3, <3>5, <4>6, <4>7
    <3> QED BY <1>20, <3>2, <3>3, <3>4, <3>5
  <2> QED BY <2>1, <2>2
<1>24. ASSUME NEW i \in DOMAIN new, NEW j \in DOMAIN new, new[i].kind = "acl",
              new[j] = L("use", new[i].svc)
       PROVE  i < j
  <2>1. new[j].svc = new[i].svc /\ new[j].kind = "use"
    BY <1>24, Fields
  <2>2. new[i].svc # None
    BY <1>18, <1>24, Fields DEF Frame
  <2>3. CASE new[i].svc = s
    <3>1. i \in {p, p + 1, n + 4, n + 5} /\ j \in {p, p + 1, n + 4, n + 5}
      BY <1>11, <1>19, <2>1, <2>3
    <3>2. i = p /\ j = p + 1
      BY <1>16, <1>24, <2>1, <3>1
    <3> QED BY <3>2
  <2>4. CASE new[i].svc # s
    <3>1. PICK x \in 1 .. n : i = g[x]
      BY <1>11, <1>19, <2>2, <2>4
    <3>2. PICK y \in 1 .. n : j = g[y]
      BY <1>11, <1>19, <2>1, <2>2, <2>4
    <3>3. text[x].kind = "acl" /\ text[y] = L("use", text[x].svc)
      BY <1>13, <1>24, <3>1, <3>2
    <3>4. x \in DOMAIN text /\ y \in DOMAIN text
      BY <1>3, <1>4
    <3>5. x < y
      BY <3>3, <3>4 DEF WellFormed, Sections
    <3> QED BY <1>14, <3>1, <3>2, <3>5
  <2> QED BY <2>3, <2>4
<1>25. WellFormed(new)
  <2>1. Sections(new)
    BY <1>22, <1>23, <1>24 DEF Sections
  <2>2. {g[f], g[d], g[b], g[o]} \subseteq DOMAIN new
    BY <1>18 DEF Frame
  <2> QED BY <1>18, <2>1, <2>2 DEF WellFormed
<1>26. ASSUME NEW j \in DOMAIN new
       PROVE  new[j].svc \in {s, None} \/ \E i \in DOMAIN text : text[i] = new[j]
  <2>1. ASSUME NEW i \in 1 .. n, j = g[i] PROVE i \in DOMAIN text /\ text[i] = new[j]
    BY <1>3, <1>4, <1>13, <2>1
  <2>2. j \in 1 .. (n + 6)
    BY <1>11
  <2>3. CASE new[j].svc \in {s, None}
    BY <2>3
  <2>4. CASE new[j].svc \notin {s, None}
    <3>1. PICK i \in 1 .. n : j = g[i]
      BY <1>19, <2>2, <2>4
    <3> QED BY <2>1, <3>1
  <2> QED BY <2>3, <2>4
<1>27. ASSUME NEW k \in {"acl", "header"}, NEW x \in Services
       PROVE  Has(new, L(k, x)) <=> x = s \/ Has(text, L(k, x))
  <2>1. x # None /\ L(k, x) # Blank /\ L(k, x).svc = x
    BY TextAssumption, Fields
  <2>2. ASSUME Has(new, L(k, x)), x # s PROVE Has(text, L(k, x))
    BY <1>26, <2>1, <2>2 DEF Has
  <2> QED BY <1>20, <1>21, <2>1, <2>2
<1>28. Last(new) = Blank
  BY <1>11 DEF Last
<1> QED BY <1>7, <1>10, <1>25, <1>26, <1>27, <1>28

\* remove_service skips the lines from the header on, up to the next header.
LEMMA InSectionIs ==
  ASSUME NEW text \in Seq(Line), Sections(text), NEW s \in Services,
         NEW h \in DOMAIN text, text[h] = L("header", s),
         NEW i \in DOMAIN text
  PROVE  InSection(text, i, s) <=>
           h <= i /\ \A j \in (h + 1) .. i : text[j].kind # "header"
<1>1. DOMAIN text = 1 .. Len(text) /\ Len(text) \in Nat
  BY LenProperties
<1>2. s # None /\ text[h].svc = s
  BY TextAssumption, Fields
<1>3. ASSUME NEW x \in 1 .. i, text[x] = L("header", s) PROVE x = h
  <2>1. x \in DOMAIN text /\ text[x] = text[h]
    BY <1>1, <1>3
  <2> QED BY <1>2, <2>1 DEF Sections
<1>4. h <= i => h \in 1 .. i
  BY <1>1
<1> QED BY <1>1, <1>3, <1>4 DEF InSection

\* Removing a service from a well-formed text: its lines go and no other but
\* blank ones, and what stays keeps its order and its sections.
LEMMA RemovedWellFormed ==
  ASSUME NEW text \in Seq(Line), WellFormed(text), Last(text) = Blank,
         NEW s \in Services, Has(text, L("acl", s))
  PROVE  /\ WellFormed(WithoutService(text, s))
         /\ \A k \in {"acl", "header"}, x \in Services :
              Has(WithoutService(text, s), L(k, x)) <=> x # s /\ Has(text, L(k, x))
         /\ IsLast(text, s) => Last(WithoutService(text, s)) = Blank
         /\ \A i \in DOMAIN WithoutService(text, s) :
              \E j \in DOMAIN text : text[j] = WithoutService(text, s)[i]
<1>1. PICK n \in Nat : n = Len(Lines(text))
  BY LinesOf
<1>2. PICK f \in DOMAIN text, d \in DOMAIN text, b \in DOMAIN text,
           o \in DOMAIN text : Frame(text, f, d, b, o)
  BY DEF WellFormed
<1>3. DOMAIN text = 1 .. Len(text) /\ Len(text) \in Nat /\ text # <<>>
  BY <1>2, LenProperties, EmptySeq
<1>4. Len(text) = n + 1 /\ text[n + 1] = Blank /\ 1 .. n \subseteq DOMAIN text
  <2>1. Len(Lines(text)) = Len(text) - 1
    BY <1>3, LinesOf
  <2>2. Len(text) = n + 1
    BY <1>1, <1>3, <2>1
  <2> QED BY <1>3, <2>2 DEF Last
<1>5. \A i \in DOMAIN text : text[i] # Blank => i \in 1 .. n
  BY <1>3, <1>4
<1>6. /\ {f, d, b, o} \subseteq 1 .. n /\ f < d /\ d < b /\ b < o
      /\ text[f] = L("header", None) /\ text[d] = L("default", None)
      /\ text[b] = L("header", None) /\ text[o] = L("other", None)
      /\ text[f].svc = None /\ text[d].svc = None
      /\ text[b].svc = None /\ text[o].svc = None
  BY <1>2, <1>5, Fields DEF Frame, L, Blank
<1>7. s # None /\ Sections(text)
  BY TextAssumption DEF WellFormed
<1>8. \A i \in 1 .. n :
        \/ i \in {f, d, b, o}
        \/ text[i] = Blank
        \/ text[i].svc # None /\ text[i].kind \in {"acl", "use"} /\ i < d
        \/ text[i].svc # None /\ text[i].kind \in {"header", "other"} /\ o < i
  BY <1>2, <1>4 DEF Frame
<1>9. PICK h \in DOMAIN text : text[h] = L("header", s)
  BY AllOrNone DEF Has
<1>10. text[h].kind = "header" /\ text[h].svc = s /\ h \in 1 .. n
  BY <1>5, <1>7, <1>9, Fields
<1>11. /\ o < h /\ h - 1 \in 1 .. n /\ text[h - 1] = Blank
       /\ h + 1 \in 1 .. n /\ text[h + 1] = L("other", s)
  <2>1. o < h
    BY <1>6, <1>7, <1>8, <1>10, Fields
  <2>2. text[h - 1] = Blank /\ h + 1 \in DOMAIN text /\ text[h + 1] = L("other", s)
    BY <1>7, <1>9, <1>10 DEF Sections
  <2>3. h + 1 \in 1 .. n
    BY <1>5, <2>2, Fields
  <2>4. h - 1 \in 1 .. n
    BY <1>6, <1>10, <2>1
  <2> QED BY <2>1, <2>2, <2>3, <2>4
\* Which lines are skipped.
<1>12. ASSUME NEW i \in 1 .. n
       PROVE  /\ Skipped(text, i, s) <=>
                   \/ text[i] \in {L("acl", s), L("use", s)}
                   \/ h <= i /\ \A j \in (h + 1) .. i : text[j].kind # "header"
              /\ text[i].svc = s => Skipped(text, i, s)
  <2>1. i \in DOMAIN text
    BY <1>4
  <2>2. Skipped(text, i, s) <=>
          \/ text[i] \in {L("acl", s), L("use", s)}
          \/ h <= i /\ \A j \in (h + 1) .. i : text[j].kind # "header"
    BY <1>7, <1>9, <2>1, InSectionIs DEF Skipped
  <2>3. ASSUME text[i].svc = s PROVE Skipped(text, i, s)
    <3>1. text[i] \in Line
      BY <2>1, <1>3, ElementOfSeq
    <3>2. text[i].kind \in {"acl", "use", "header", "other"}
      BY <1>6, <1>7, <1>8, <2>3, Fields
    <3>3. CASE text[i].kind \in {"acl", "use"}
      BY <2>2, <2>3, <3>1, <3>3, LineEq
    <3>4. CASE text[i].kind = "header"
      <4>1. text[i] = text[h]
        BY <1>9, <2>3, <3>1, <3>4, LineEq
      <4>2. i = h
        BY <1>7, <1>10, <2>1, <4>1 DEF Sections
      <4> QED BY <2>2, <4>2
    <3>5. CASE text[i].kind = "other"
      <4>1. text[i] = text[h + 1]
        BY <1>11, <2>3, <3>1, <3>5, LineEq
      <4>2. i = h + 1
        BY <1>4, <1>7, <1>11, <2>1, <2>3, <4>1 DEF Sections
      <4>3. \A j \in (h + 1) .. i : j = i
        BY <4>2
      <4> QED BY <1>10, <2>2, <3>5, <4>2, <4>3
    <3> QED BY <3>2, <3>3, <3>4, <3>5
  <2> QED BY <2>2, <2>3
\* A line of another service, or of the image, is not.
<1>13. ASSUME NEW i \in 1 .. n, text[i] # Blank, text[i].svc # s
       PROVE  ~Skipped(text, i, s)
  <2> SUFFICES ASSUME Skipped(text, i, s) PROVE FALSE
    OBVIOUS
  <2>1. h <= i /\ \A j \in (h + 1) .. i : text[j].kind # "header"
    BY <1>12, <1>13, Fields
  <2>2. h < i
    BY <1>10, <1>13, <2>1
  <2>3. o < i /\ i \notin {f, d, b, o}
    BY <1>6, <1>10, <1>11, <2>2, SMTT(30)
  <2>4. text[i].kind = "other" /\ text[i].svc # None
    <3>1. i \in (h + 1) .. i
      BY <1>10, <2>2
    <3>2. ~(i < d)
      BY <1>6, <2>3
    <3> QED BY <1>8, <1>13, <2>1, <2>3, <3>1, <3>2
  <2>5. PICK x : x = text[i].svc
    OBVIOUS
  <2>6. PICK y \in DOMAIN text : text[y] = L("header", x)
    BY <1>4, <1>7, <2>4, <2>5 DEF Sections, Has
  <2>7. y + 1 \in DOMAIN text /\ text[y + 1] = L("other", x)
    BY <1>7, <2>4, <2>5, <2>6, Fields DEF Sections
  <2>8. i \in DOMAIN text /\ text[i] = L("other", x)
    <3>1. i \in DOMAIN text /\ text[i] \in Line
      BY <1>3, <1>4, ElementOfSeq
    <3> QED BY <2>4, <2>5, <3>1, LineEq
  <2>9. i = y + 1
    BY <1>7, <2>4, <2>7, <2>8 DEF Sections
  <2>10. y # h
    BY <1>10, <1>13, <2>5, <2>6, Fields
  <2>11. y \in (h + 1) .. i
    BY <1>3, <1>10, <2>2, <2>6, <2>9, <2>10
  <2> QED BY <2>1, <2>6, <2>11, Fields
\* The blank line before the section stays.
<1>a. ~Skipped(text, h - 1, s)
  <2>1. PICK i \in 1 .. n : i = h - 1
    BY <1>11
  <2>2. ~(h <= i) /\ text[i] = Blank
    BY <1>10, <1>11, <2>1
  <2>3. Blank \notin {L("acl", s), L("use", s)}
    BY Fields
  <2>4. ~Skipped(text, i, s)
    BY <1>12, <2>2, <2>3
  <2> QED BY <2>1, <2>4
\* Where the kept lines come from.
<1>14. PICK q, e : Picks(q, e, text, n, s) /\ WithoutService(text, s) = Joined(q)
  BY <1>1, Removed
<1>15. PICK m \in Nat : m = Len(q)
  BY <1>14, LenProperties DEF Picks
<1>16. /\ q \in Seq(Line) /\ DOMAIN q = 1 .. m
       /\ \A k \in 1 .. m :
            e[k] \in 1 .. n /\ ~Skipped(text, e[k], s) /\ q[k] = text[e[k]]
       /\ \A j, k \in 1 .. m : j < k => e[j] < e[k]
       /\ \A i \in 1 .. n : ~Skipped(text, i, s) => \E k \in 1 .. m : e[k] = i
  BY <1>14, <1>15, LenProperties DEF Picks
<1>17. ASSUME NEW j \in 1 .. m, NEW k \in 1 .. m
       PROVE  (e[j] < e[k] => j < k) /\ (e[j] = e[k] => j = k)
  <2>1. e[j] \in Int /\ e[k] \in Int
    BY <1>16, SMTT(30)
  <2>2. k < j => e[k] < e[j]
    BY <1>16
  <2>3. j < k => e[j] < e[k]
    BY <1>16
  <2> QED BY <2>1, <2>2, <2>3
<1>18. ASSUME NEW i \in 1 .. n, text[i] # Blank, text[i].svc # s
       PROVE  \E k \in 1 .. m : e[k] = i
  BY <1>13, <1>16, <1>18
<1>19. ASSUME NEW j \in 1 .. m, NEW k \in 1 .. m, e[j] < e[k],
              \A i \in 1 .. n : e[j] < i /\ i < e[k] => Skipped(text, i, s)
       PROVE  j = k - 1 /\ k = j + 1
  <2>1. j < k
    BY <1>17, <1>19
  <2>2. ASSUME j + 1 < k PROVE FALSE
    <3>1. j + 1 \in 1 .. m
      BY <2>2
    <3>2. e[j] < e[j + 1] /\ e[j + 1] < e[k]
      BY <1>16, <2>2, <3>1
    <3>3. e[j + 1] \in 1 .. n /\ ~Skipped(text, e[j + 1], s)
      BY <1>16, <3>1
    <3> QED BY <1>19, <3>2, <3>3
  <2> QED BY <2>1, <2>2
<1>20. PICK F \in 1 .. m : e[F] = f
  BY <1>6, <1>7, <1>18, Fields
<1>21. PICK D \in 1 .. m : e[D] = d
  BY <1>6, <1>7, <1>18, Fields
<1>22. PICK B \in 1 .. m : e[B] = b
  BY <1>6, <1>7, <1>18, Fields
<1>23. PICK O \in 1 .. m : e[O] = o
  BY <1>6, <1>7, <1>18, Fields
<1>24. WithoutService(text, s) = q
  <2>1. q # <<>>
    BY <1>15, <1>20
  <2> QED BY <1>14, <2>1 DEF Joined
<1>25. Frame(q, F, D, B, O)
  <2>1. F < D /\ D < B /\ B < O
    BY <1>6, <1>17, <1>20, <1>21, <1>22, <1>23
  <2>2. /\ q[F] = L("header", None) /\ q[D] = L("default", None)
        /\ q[B] = L("header", None) /\ q[O] = L("other", None)
    BY <1>6, <1>16, <1>20, <1>21, <1>22, <1>23
  <2>3. ASSUME NEW k \in 1 .. m
        PROVE  \/ k \in {F, D, B, O}
               \/ q[k] = Blank
               \/ q[k].svc # None /\ q[k].kind \in {"acl", "use"} /\ k < D
               \/ q[k].svc # None /\ q[k].kind \in {"header", "other"} /\ O < k
    <3>1. e[k] \in 1 .. n /\ q[k] = text[e[k]]
      BY <1>16
    <3>2. e[k] < d => k < D
      BY <1>17, <1>21
    <3>3. o < e[k] => O < k
      BY <1>17, <1>23
    <3>4. e[k] \in {f, d, b, o} => k \in {F, D, B, O}
      BY <1>17, <1>20, <1>21, <1>22, <1>23
    <3> QED BY <1>8, <3>1, <3>2, <3>3, <3>4
  <2> QED BY <1>16, <2>1, <2>2, <2>3 DEF Frame
<1>26. ASSUME NEW k \in 1 .. m
       PROVE  q[k].svc # s /\ e[k] \in DOMAIN text /\ q[k] = text[e[k]]
  BY <1>4, <1>12, <1>16, SMTT(30)
<1>27. ASSUME NEW l, l # Blank, l.svc # s, Has(text, l) PROVE Has(q, l)
  <2>1. PICK i \in 1 .. n : text[i] = l
    BY <1>5, <1>27 DEF Has
  <2>2. PICK k \in 1 .. m : e[k] = i
    BY <1>18, <1>27, <2>1
  <2> QED BY <1>16, <2>1, <2>2 DEF Has
<1>28. ASSUME NEW i \in DOMAIN q, NEW j \in DOMAIN q, q[i] = q[j], q[i].svc # None
       PROVE  i = j
  <2>1. e[i] = e[j]
    BY <1>7, <1>16, <1>26, <1>28, SMTT(30) DEF Sections
  <2> QED BY <1>16, <1>17, <2>1
<1>29. ASSUME NEW k \in DOMAIN q, NEW x, x = q[k].svc, x # None
       PROVE  /\ Has(q, L("acl", x)) /\ Has(q, L("use", x))
              /\ Has(q, L("header", x)) /\ Has(q, L("other", x))
              /\ q[k].kind = "header" =>
                   /\ k - 1 \in DOMAIN q /\ q[k - 1] = Blank
                   /\ k + 1 \in DOMAIN q /\ q[k + 1] = L("other", x)
  <2>1. PICK i \in 1 .. n : i = e[k]
    BY <1>16
  <2>2. k \in 1 .. m /\ q[k] = text[i] /\ i \in DOMAIN text /\ x # s
    BY <1>16, <1>26, <1>29, <2>1
  <2>3. /\ Has(text, L("acl", x)) /\ Has(text, L("use", x))
        /\ Has(text, L("header", x)) /\ Has(text, L("other", x))
        /\ text[i].kind = "header" =>
             /\ i - 1 \in DOMAIN text /\ text[i - 1] = Blank
             /\ i + 1 \in DOMAIN text /\ text[i + 1] = L("other", x)
    BY <1>7, <1>29, <2>2 DEF Sections
  <2>4. \A c \in {"acl", "use", "header", "other"} : L(c, x) # Blank /\ L(c, x).svc # s
    BY <2>2, Fields
  <2>5. /\ Has(q, L("acl", x)) /\ Has(q, L("use", x))
        /\ Has(q, L("header", x)) /\ Has(q, L("other", x))
    BY <1>27, <2>3, <2>4
  <2>6. ASSUME q[k].kind = "header"
        PROVE  k + 1 \in DOMAIN q /\ q[k + 1] = L("other", x)
    <3>1. i + 1 \in 1 .. n /\ text[i + 1] = L("other", x)
      BY <1>5, <2>2, <2>3, <2>4, <2>6
    <3>2. PICK c \in 1 .. m : e[c] = i + 1
      BY <1>18, <2>4, <3>1
    <3>3. e[k] < e[c] /\ \A j \in 1 .. n : ~(e[k] < j /\ j < e[c])
      BY <2>1, <3>2
    <3>4. c = k + 1
      BY <1>19, <2>2, <3>3
    <3> QED BY <1>16, <3>1, <3>2, <3>4
  <2>7. ASSUME q[k].kind = "header"
        PROVE  k - 1 \in DOMAIN q /\ q[k - 1] = Blank
    <3>1. i - 1 \in 1 .. n /\ text[i - 1] = Blank
      <4>1. i - 1 \in DOMAIN text /\ text[i - 1] = Blank
        BY <2>2, <2>3, <2>7
      <4> QED BY <1>3, <2>1, <4>1
    <3>2. CASE ~Skipped(text, i - 1, s)
      <4>1. PICK c \in 1 .. m : e[c] = i - 1
        BY <1>16, <3>1, <3>2
      <4>2. e[c] < e[k] /\ \A j \in 1 .. n : ~(e[c] < j /\ j < e[k])
        BY <2>1, <4>1
      <4>3. c = k - 1
        BY <1>19, <2>2, <4>2
      <4> QED BY <1>16, <3>1, <4>1, <4>3
    <3>3. CASE Skipped(text, i - 1, s)
      <4>1. h <= i - 1 /\ \A j \in (h + 1) .. (i - 1) : text[j].kind # "header"
        BY <1>12, <3>1, <3>3, Fields
      <4>3. PICK c \in 1 .. m : e[c] = h - 1
        BY <1>11, <1>16, <1>a
      <4>4. e[c] < e[k]
        BY <1>10, <2>1, <4>1, <4>3, SMTT(30)
      <4>5. ASSUME NEW j \in 1 .. n, e[c] < j, j < e[k] PROVE Skipped(text, j, s)
        <5>1. h <= j /\ \A y \in (h + 1) .. j : y \in (h + 1) .. (i - 1)
          BY <1>10, <2>1, <4>3, <4>5, SMTT(30)
        <5> QED BY <1>12, <4>1, <5>1
      <4>6. c = k - 1
        BY <1>19, <2>2, <4>4, <4>5
      <4> QED BY <1>11, <1>16, <4>3, <4>6
    <3> QED BY <3>2, <3>3
  <2> QED BY <2>5, <2>6, <2>7
<1>30. ASSUME NEW i \in DOMAIN q, NEW j \in DOMAIN q, q[i].kind = "acl",
              q[j] = L("use", q[i].svc)
       PROVE  i < j
  <2>1. /\ e[i] \in DOMAIN text /\ e[j] \in DOMAIN text
        /\ text[e[i]].kind = "acl" /\ text[e[j]] = L("use", text[e[i]].svc)
    BY <1>16, <1>26, <1>30
  <2>2. e[i] < e[j]
    BY <1>7, <2>1 DEF Sections
  <2> QED BY <1>16, <1>17, <2>2
<1>31. WellFormed(q)
  <2>1. Sections(q)
    BY <1>28, <1>29, <1>30 DEF Sections
  <2> QED BY <1>16, <1>25, <2>1 DEF WellFormed
<1>32. ASSUME NEW k \in {"acl", "header"}, NEW x \in Services
       PROVE  Has(q, L(k, x)) <=> x # s /\ Has(text, L(k, x))
  <2>1. L(k, x) # Blank /\ L(k, x).svc = x
    BY Fields
  <2>2. ASSUME Has(q, L(k, x)) PROVE x # s /\ Has(text, L(k, x))
    <3>1. PICK i \in 1 .. m : q[i] = L(k, x)
      BY <1>16, <2>2 DEF Has
    <3> QED BY <1>26, <2>1, <3>1 DEF Has
  <2> QED BY <1>27, <2>1, <2>2
<1>33. ASSUME IsLast(text, s) PROVE Last(q) = Blank
  <2>2. PICK c \in 1 .. m : e[c] = h - 1
    BY <1>11, <1>16, <1>a
  <2>3. ASSUME NEW i \in 1 .. n, h <= i PROVE Skipped(text, i, s)
    <3>1. ASSUME NEW j \in (h + 1) .. i PROVE text[j].kind # "header"
      <4>1. j \in DOMAIN text /\ ~(j <= h)
        BY <1>4, <1>10
      <4> QED BY <1>9, <1>33, <4>1 DEF IsLast
    <3> QED BY <1>12, <2>3, <3>1
  <2>4. m \in 1 .. m
    BY <1>20
  <2>5. e[m] \in 1 .. n /\ e[m] < h
    <3>1. e[m] \in 1 .. n /\ ~Skipped(text, e[m], s)
      BY <1>16, <2>4
    <3> QED BY <1>10, <2>3, <3>1
  <2>6. c = m
    <3>1. c < m => e[c] < e[m]
      BY <1>16, <2>4
    <3>2. ~(e[c] < e[m])
      BY <1>10, <2>2, <2>5
    <3> QED BY <3>1, <3>2
  <2>7. q[m] = Blank
    BY <1>11, <1>16, <2>2, <2>6
  <2> QED BY <1>15, <2>7 DEF Last
<1>34. \A i \in DOMAIN q : \E j \in DOMAIN text : text[j] = q[i]
  BY <1>16, <1>26
<1> QED BY <1>24, <1>31, <1>32, <1>33, <1>34

\* At most one element, and exactly two.
LEMMA CountOne ==
  ASSUME NEW S, \A x, y \in S : x = y
  PROVE  /\ S = {} => Cardinality(S) = 0
         /\ S # {} => Cardinality(S) = 1
<1>1. CASE S = {}
  BY <1>1, FS_EmptySet
<1>2. CASE S # {}
  <2>1. PICK x : S = {x}
    BY <1>2
  <2> QED BY <1>2, <2>1, FS_Singleton
<1> QED BY <1>1, <1>2

LEMMA CountTwo ==
  ASSUME NEW x, NEW y, x # y
  PROVE  Cardinality({x, y}) = 2
<1>1. IsFiniteSet({x}) /\ Cardinality({x}) = 1
  BY FS_Singleton
<1>2. {x, y} = {x} \cup {y} /\ y \notin {x}
  OBVIOUS
<1>3. Cardinality({x} \cup {y}) = Cardinality({x}) + 1
  BY <1>1, <1>2, FS_AddElement
<1> QED BY <1>1, <1>2, <1>3

\* HAProxy accepts a well-formed text if it ends with LF and can be parsed.
LEMMA AcceptedIs ==
  ASSUME NEW text \in Seq(Line), WellFormed(text)
  PROVE  Accepted(text) <=>
           Last(text) = Blank /\ \A i \in DOMAIN text : text[i].svc \notin Invalid
<1> DEFINE at(l) == {i \in DOMAIN text : text[i] = l}
<1>1. PICK f \in DOMAIN text, d \in DOMAIN text, b \in DOMAIN text,
           o \in DOMAIN text : Frame(text, f, d, b, o)
  BY DEF WellFormed
<1>2. Cardinality(at(L("header", None))) = 2
  <2>1. f # b /\ text[f] = L("header", None) /\ text[b] = L("header", None)
    BY <1>1, LenProperties DEF Frame
  <2>2. ASSUME NEW i \in DOMAIN text, text[i] = L("header", None) PROVE i \in {f, b}
    BY <1>1, <2>2, Fields DEF Frame
  <2>3. at(L("header", None)) = {f, b}
    BY <2>1, <2>2
  <2>4. Cardinality({f, b}) = 2
    BY <2>1, CountTwo
  <2> HIDE DEF at
  <2> QED BY <2>3, <2>4
<1>3. ASSUME NEW s \in Services
      PROVE  /\ Cardinality(at(L("use", s))) > 0 => Cardinality(at(L("header", s))) = 1
             /\ Cardinality(at(L("header", s))) <= 1
  <2>1. s # None
    BY TextAssumption
  <2>2. ASSUME NEW k, NEW i \in at(L(k, s)), NEW j \in at(L(k, s)) PROVE i = j
    BY <2>1, Fields DEF WellFormed, Sections
  <2>3. at(L("use", s)) # {} => at(L("header", s)) # {}
    BY <2>1, Fields DEF WellFormed, Sections, Has
  <2> HIDE DEF at
  <2>4. \A k : /\ at(L(k, s)) = {} => Cardinality(at(L(k, s))) = 0
               /\ at(L(k, s)) # {} => Cardinality(at(L(k, s))) = 1
    BY <2>2, CountOne
  <2> QED BY <2>3, <2>4
<1>4. Accepted(text) <=>
        /\ Last(text) = Blank
        /\ Cardinality(at(L("header", None))) = 2
        /\ \A s \in Services :
             /\ Cardinality(at(L("use", s))) > 0 => Cardinality(at(L("header", s))) = 1
             /\ Cardinality(at(L("header", s))) <= 1
        /\ \A i \in DOMAIN text : text[i].svc \notin Invalid
  BY DEF Accepted
<1> HIDE DEF at
<1> QED BY <1>2, <1>3, <1>4

\* A well-formed text has what Intact counts.
LEMMA IntactIs ==
  ASSUME NEW text \in Seq(Line), WellFormed(text)
  PROVE  Intact(text) /\ list_services(text) = ServicesIn(text)
<1> DEFINE at(k, s) == {i \in DOMAIN text : text[i] = L(k, s)}
<1>1. PICK f \in DOMAIN text, d \in DOMAIN text, b \in DOMAIN text,
           o \in DOMAIN text : Frame(text, f, d, b, o)
  BY DEF WellFormed
<1>2. /\ f < d /\ d < b /\ b < o
      /\ f \in at("header", None) /\ d \in at("default", None)
      /\ b \in at("header", None) /\ o \in at("other", None)
  BY <1>1 DEF Frame
<1>3. {i \in DOMAIN text : text[i].svc = None /\ text[i].kind # "blank"} = {f, d, b, o}
  BY <1>1, Fields DEF Frame
<1>4. ASSUME NEW s \in ServicesIn(text), NEW k \in {"acl", "use", "header", "other"}
      PROVE  Cardinality(at(k, s)) = 1
  <2>1. s \in Services /\ s # None /\ Has(text, L("acl", s))
    BY TextAssumption, ServiceExists
  <2>2. \A i, j \in at(k, s) : i = j
    BY <2>1, Fields DEF WellFormed, Sections
  <2>3. Has(text, L(k, s))
    <3>1. PICK i \in DOMAIN text : text[i] = L("acl", s)
      BY <2>1 DEF Has
    <3> QED BY <2>1, <3>1, Fields DEF WellFormed, Sections
  <2>4. at(k, s) # {}
    BY <2>3 DEF Has
  <2> HIDE DEF at
  <2> QED BY <2>2, <2>4, CountOne
<1>5. ASSUME NEW s \in ServicesIn(text), NEW i \in at("acl", s),
             NEW j \in at("use", s), NEW c \in at("default", None)
      PROVE  i < j /\ j < c
  <2>1. s # None
    BY TextAssumption, ServiceExists
  <2>2. i < j
    BY Fields DEF WellFormed, Sections
  <2>3. c = d
    BY <1>1, Fields DEF Frame
  <2>4. j < d
    BY <1>1, <2>1, Fields DEF Frame
  <2> QED BY <2>2, <2>3, <2>4
<1>6. Intact(text)
  <2>1. \E f1, b1 \in at("header", None), d1 \in at("default", None),
           o1 \in at("other", None) :
          /\ f1 < d1 /\ d1 < b1 /\ b1 < o1
          /\ {i \in DOMAIN text : text[i].svc = None /\ text[i].kind # "blank"}
               = {f1, d1, b1, o1}
    <3> HIDE DEF at
    <3> QED BY <1>2, <1>3
  <2> QED BY <1>4, <1>5, <2>1 DEF Intact
<1>7. list_services(text) = ServicesIn(text)
  BY AllOrNone, ServiceExists
<1> QED BY <1>6, <1>7

LEMMA BaseTextGood ==
  WellFormed(BaseText) /\ Accepted(BaseText) /\ ServicesIn(BaseText) = {}
<1>1. PICK text : text = BaseText
  OBVIOUS
<1>2. /\ text \in Seq(Line) /\ Len(text) = 6 /\ DOMAIN text = 1 .. 6
      /\ text[1] = L("header", None) /\ text[2] = L("default", None)
      /\ text[3] = Blank /\ text[4] = L("header", None)
      /\ text[5] = L("other", None) /\ text[6] = Blank
  BY <1>1, BaseTextType DEF BaseText
<1>3. \A i \in 1 .. 6 : i \in {1, 2, 3, 4, 5, 6}
  OBVIOUS
<1>4. \A i \in DOMAIN text : text[i].svc = None /\ text[i].kind # "acl"
  BY <1>2, <1>3, Fields
<1>5. Frame(text, 1, 2, 4, 5)
  BY <1>2, <1>3 DEF Frame
<1>6. WellFormed(text)
  <2>1. Sections(text)
    BY <1>4 DEF Sections
  <2>2. {1, 2, 4, 5} \subseteq DOMAIN text
    BY <1>2
  <2> QED BY <1>5, <2>1, <2>2 DEF WellFormed
<1>7. Accepted(text)
  <2>1. Last(text) = Blank
    BY <1>2 DEF Last
  <2> QED BY <1>2, <1>4, <1>6, <2>1, AcceptedIs, TextAssumption
<1>8. ServicesIn(text) = {}
  <2>1. \A s \in Services : ~Has(text, L("acl", s))
    BY <1>4, Fields DEF Has
  <2> QED BY <1>2, <2>1, ServiceExists
<1> QED BY <1>1, <1>6, <1>7, <1>8

\* What a call makes of the text it has read.
After(o) == IF o.kind = "add" THEN ledger \cup {o.svc} ELSE ledger \ {o.svc}

LEMMA EditGood ==
  ASSUME NEW o \in Op, o.svc \in Services, Sound(o.content),
         service_exists(o.content, o.svc) <=> o.kind = "remove"
  PROVE  /\ o.kind = "add" => InsertPos(o.content) # 0
         /\ Edited(o) \in Seq(Line) /\ WellFormed(Edited(o))
         /\ ServicesIn(Edited(o)) = After(o)
         /\ o.svc \notin Invalid /\ (o.kind = "remove" => IsLast(o.content, o.svc))
              => Accepted(Edited(o))
<1>1. PICK text, s : text = o.content /\ s = o.svc
  OBVIOUS
<1>2. /\ text \in Seq(Line) /\ WellFormed(text) /\ Accepted(text)
      /\ ServicesIn(text) = ledger /\ s \in Services
      /\ o.kind \in {"add", "remove"}
  BY <1>1 DEF Op, Sound
<1>3. Last(text) = Blank /\ \A i \in DOMAIN text : text[i].svc \notin Invalid
  BY <1>2, AcceptedIs
<1>4. None \notin Invalid
  BY TextAssumption
<1>5. \A x \in Services : x \in ledger <=> Has(text, L("acl", x))
  BY <1>2, ServiceExists
<1>6. ledger \subseteq Services
  BY <1>2 DEF ServicesIn
<1>7. CASE o.kind = "add"
  <2>1. ~Has(text, L("acl", s))
    BY <1>1, <1>2, <1>7, ServiceExists
  <2>2. PICK new : new = WithService(text, s)
    OBVIOUS
  <2>3. /\ InsertPos(text) # 0
        /\ WellFormed(new)
        /\ \A k \in {"acl", "header"}, x \in Services :
             Has(new, L(k, x)) <=> x = s \/ Has(text, L(k, x))
        /\ Last(new) = Blank
        /\ \A i \in DOMAIN new :
             new[i].svc \in {s, None} \/ \E j \in DOMAIN text : text[j] = new[i]
    BY <1>2, <1>3, <2>1, <2>2, AddedWellFormed
  <2>4. new \in Seq(Line)
    BY <1>2, <2>2, <2>3, EditedType
  <2>5. ServicesIn(new) = ledger \cup {s}
    BY <1>2, <1>5, <1>6, <2>3, <2>4, ServiceExists
  <2>6. s \notin Invalid => Accepted(new)
    BY <1>3, <1>4, <2>3, <2>4, AcceptedIs
  <2>7. Edited(o) = new
    BY <1>1, <1>7, <2>2 DEF Edited
  <2> QED BY <1>1, <1>7, <2>3, <2>4, <2>5, <2>6, <2>7 DEF After
<1>8. CASE o.kind = "remove"
  <2>1. Has(text, L("acl", s))
    BY <1>1, <1>2, <1>8, ServiceExists
  <2>2. PICK new : new = WithoutService(text, s)
    OBVIOUS
  <2>3. /\ WellFormed(new)
        /\ \A k \in {"acl", "header"}, x \in Services :
             Has(new, L(k, x)) <=> x # s /\ Has(text, L(k, x))
        /\ IsLast(text, s) => Last(new) = Blank
        /\ \A i \in DOMAIN new : \E j \in DOMAIN text : text[j] = new[i]
    BY <1>2, <1>3, <2>1, <2>2, RemovedWellFormed
  <2>4. new \in Seq(Line)
    BY <1>2, <2>2, EditedType
  <2>5. ServicesIn(new) = ledger \ {s}
    BY <1>2, <1>5, <1>6, <2>3, <2>4, ServiceExists
  <2>6. IsLast(text, s) => Accepted(new)
    BY <1>3, <2>3, <2>4, AcceptedIs
  <2>7. Edited(o) = new
    BY <1>1, <1>8, <2>2 DEF Edited
  <2> QED BY <1>1, <1>8, <2>3, <2>4, <2>5, <2>6, <2>7 DEF After
<1> QED BY <1>2, <1>7, <1>8

-----------------------------------------------------------------------------
(* The edits under way                                                     *)

CallInv == TypeOK /\ MutexInv /\ TextInv

\* Nothing is said of a call that has not the lock.
LEMMA Outside ==
  ASSUME NEW u \in Tasks, op[u].pc \notin Critical
  PROVE  TextOK(u) /\ WorkerOK(u)
BY DEF TextOK, WorkerOK, At, Halfway, Critical

LEMMA OutsideNext ==
  ASSUME NEW u \in Tasks, op'[u].pc \notin Critical
  PROVE  TextOK(u)' /\ WorkerOK(u)'
BY DEF TextOK, WorkerOK, At, Halfway, Critical

\* So a step of the one that has it is a matter of that call alone.
LEMMA Others ==
  ASSUME MutexInv, NEW t \in Tasks, op[t].pc \in Critical, Rest(t)
  PROVE  \A u \in Tasks : u # t => TextOK(u)' /\ WorkerOK(u)'
<1>1. \A u \in Tasks : u # t => op'[u].pc \notin Critical
  BY DEF MutexInv, Exclusive, Rest
<1> QED BY <1>1, OutsideNext

LEMMA HolderStep ==
  ASSUME CallInv, NEW t \in Tasks, op[t].pc \in Critical, Rest(t),
         events' = 0 => ~cut',
         ~cut' => TextOK(t)' /\ (lock' = None => Sound(file)')
  PROVE  TextInv'
<1>1. \A u \in Tasks : u # t => TextOK(u)'
  BY Others DEF CallInv
<1> QED BY <1>1 DEF TextInv

\* Steps that leave the file and the calls under the lock alone.
LEMMA Quiet ==
  ASSUME TextInv, UNCHANGED <<file, lock, ledger, cut>>,
         events' = events \/ events' # 0,
         \A u \in Tasks : op'[u] = op[u] \/ op'[u].pc \notin Critical
  PROVE  TextInv'
<1>1. events' = 0 => ~cut'
  BY DEF TextInv
<1>2. ASSUME NEW u \in Tasks, TextOK(u) PROVE TextOK(u)'
  <2>1. CASE op'[u].pc \notin Critical
    BY <2>1, OutsideNext
  <2>2. CASE op'[u] = op[u]
    BY <1>2, <2>2 DEF TextOK, At, Halfway, Sound, Settled
  <2> QED BY <2>1, <2>2
<1>3. Sound(file) => Sound(file)'
  BY DEF Sound
<1> QED BY <1>1, <1>2, <1>3 DEF TextInv

LEMMA TextCall ==
  ASSUME CallInv, NEW t \in Tasks, NEW k \in {"add", "remove"},
         NEW s \in Services, Call(t, k, s)
  PROVE  TextInv'
<1>1. \A u \in Tasks : op'[u] = op[u] \/ op'[u].pc \notin Critical
  BY DEF Call, CallInv, TypeOK, Critical
<1> QED BY <1>1, Quiet DEF Call, CallInv

LEMMA TextReturn ==
  ASSUME CallInv, NEW t \in Tasks, Return(t)
  PROVE  TextInv'
<1>1. \A u \in Tasks : op'[u] = op[u] \/ op'[u].pc \notin Critical
  BY IdleType DEF Return, CallInv, TypeOK, Critical
<1> QED BY <1>1, Quiet DEF Return, CallInv

LEMMA TextHAProxy ==
  ASSUME CallInv, MasterReads \/ MasterForks \/ Restart
  PROVE  TextInv'
<1>1. events' = events \/ events' # 0
  BY EventFacts DEF MasterReads, MasterForks, Restart, CallInv
<1>2. UNCHANGED <<file, lock, ledger, cut, op>>
  BY DEF MasterReads, MasterForks, Restart
<1> QED BY <1>1, <1>2, Quiet DEF CallInv

LEMMA TextAcquire ==
  ASSUME CallInv, NEW t \in Tasks, Acquire(t)
  PROVE  TextInv'
<1>1. /\ lock = None /\ lock' = t /\ t # None
      /\ UNCHANGED <<file, ledger, cut, events>>
  BY ConfigAssumption DEF Acquire
<1>2. Rest(t) /\ op'[t].pc = "read"
  BY GotoOp DEF Acquire, CallInv, OpPC
<1>3. \A u \in Tasks : u # t => op'[u].pc \notin Critical
  BY <1>1, <1>2, ConfigAssumption DEF CallInv, MutexInv, Exclusive, Rest
<1>4. ASSUME ~cut' PROVE TextOK(t)'
  <2>1. Sound(file)
    BY <1>1, <1>4 DEF CallInv, TextInv
  <2>2. Sound(file)'
    BY <1>1, <2>1 DEF Sound
  <2> QED BY <1>2, <2>2 DEF TextOK, At, Halfway
<1>5. events' = 0 => ~cut'
  BY <1>1 DEF CallInv, TextInv
<1> QED BY <1>1, <1>3, <1>4, <1>5, OutsideNext DEF TextInv

\* What a call has before it, whatever it does next.
LEMMA InHand ==
  ASSUME CallInv, NEW t \in Tasks, op[t].pc \in Critical, ~cut
  PROVE  /\ TextOK(t) /\ op[t] \in Op /\ op[t].svc \in Services
         /\ op[t].kind \in {"add", "remove"} /\ lock = t
<1>1. TextOK(t)
  BY DEF CallInv, TextInv
<1>2. op[t].pc # "idle"
  BY DEF Critical
<1> QED BY <1>1, <1>2, OpFacts DEF CallInv, MutexInv, Exclusive

LEMMA TextRead ==
  ASSUME CallInv, NEW t \in Tasks, Read(t)
  PROVE  TextInv'
<1>1. op[t].pc = "read" /\ op[t].pc \in Critical /\ UNCHANGED <<file, haproxy, cut>>
  BY DEF Read, At, Critical
<1>2. events' = 0 => ~cut'
  <2>1. events' = events \/ events' # 0
    BY EventFacts DEF Read, CallInv
  <2> QED BY <1>1, <2>1 DEF CallInv, TextInv
<1>3. ASSUME ~cut PROVE Sound(file)
  BY <1>1, <1>3, InHand DEF TextOK, At
<1>4. ASSUME NEW l \in {"ok", "err"}, Release(t, l), ~cut => ledger' = ledger
      PROVE  TextInv'
  <2>1. Rest(t) /\ op'[t].pc = l
    BY <1>4, GotoOp DEF Release, CallInv, OpPC
  <2>2. TextOK(t)'
    BY <2>1, OutsideNext DEF Critical
  <2>3. ~cut' => Sound(file)'
    BY <1>1, <1>3, <1>4 DEF Sound
  <2> QED BY <1>1, <1>2, <2>1, <2>2, <2>3, HolderStep
<1>5. CASE Event("read_err") /\ Release(t, "err") /\ UNCHANGED ledger
  BY <1>4, <1>5
<1>6. CASE /\ Settled(op[t])
           /\ Release(t, "ok") /\ Enter(op[t]) /\ UNCHANGED events
  <2>1. ASSUME ~cut PROVE ledger' = ledger
    <3>1. ServicesIn(file) = ledger /\ op[t].svc \in Services /\ file \in Seq(Line)
      BY <1>1, <1>3, <2>1, InHand DEF Sound, CallInv, TypeOK
    <3>2. service_exists(file, op[t].svc) <=> op[t].svc \in ledger
      BY <3>1 DEF ServicesIn
    <3> QED BY <1>6, <3>2 DEF Settled, Enter
  <2> QED BY <1>4, <1>6, <2>1
<1>7. CASE /\ ~Settled(op[t]) /\ NoPlace(op[t])
           /\ Release(t, "err") /\ UNCHANGED <<ledger, events>>
  BY <1>4, <1>7
<1>8. CASE /\ ~Settled(op[t]) /\ ~NoPlace(op[t])
           /\ op' = [op EXCEPT ![t].pc = "write", ![t].content = file]
           /\ UNCHANGED <<lock, ledger, events>>
  <2>1. PICK o : o = [op[t] EXCEPT !.pc = "write", !.content = file]
    OBVIOUS
  <2>2. /\ o \in Op /\ o.pc = "write" /\ o.kind = op[t].kind
        /\ o.svc = op[t].svc /\ o.content = file
    BY <2>1, OpFacts DEF Op, OpPC, CallInv, TypeOK
  <2>3. op' = [op EXCEPT ![t] = o]
    BY <1>8, <2>1 DEF CallInv, TypeOK
  <2>4. Rest(t) /\ op'[t] = o
    BY <2>2, <2>3, SetOp DEF CallInv
  <2>5. ~Settled(o)'
    BY <1>1, <1>8, <2>2 DEF Settled
  <2>6. ~cut' => Sound(file)'
    BY <1>1, <1>3, <1>8 DEF Sound
  <2>7. ~cut' => TextOK(t)'
    <3>1. op'[t].content = file' /\ op'[t].pc = "write"
      BY <1>1, <2>2, <2>4
    <3>2. ~Settled(op[t])'
      BY <2>4, <2>5 DEF Settled
    <3> QED BY <2>6, <3>1, <3>2 DEF TextOK, At, Halfway
  <2> QED BY <1>1, <1>2, <2>4, <2>6, <2>7, HolderStep
<1> QED BY <1>5, <1>6, <1>7, <1>8 DEF Read

LEMMA TextWrite ==
  ASSUME CallInv, NEW t \in Tasks, Write(t)
  PROVE  TextInv'
<1>1. op[t].pc = "write" /\ op[t].pc \in Critical /\ UNCHANGED ledger
  BY DEF Write, At, Critical
<1>2. CASE /\ file' = Edited(op[t]) /\ Goto(t, "validate")
           /\ UNCHANGED <<lock, cut, events>>
  <2>1. /\ Rest(t) /\ op'[t].pc = "validate" /\ op'[t].kind = op[t].kind
        /\ op'[t].svc = op[t].svc /\ op'[t].content = op[t].content
    BY <1>2, GotoOp DEF CallInv, OpPC
  <2>2. ASSUME ~cut' PROVE TextOK(t)'
    <3>1. op[t].content = file /\ Sound(file) /\ ~Settled(op[t])
          /\ op[t].kind \in {"add", "remove"}
      BY <1>1, <1>2, <2>2, InHand DEF TextOK, At
    <3>2. Sound(op[t].content)'
      BY <1>1, <2>1, <3>1 DEF Sound
    <3>3. file' = Edited(op'[t])
      BY <1>2, <2>1 DEF Edited
    <3>4. service_exists(op'[t].content, op'[t].svc) <=> op'[t].kind = "remove"
      BY <2>1, <3>1 DEF Settled
    <3>5. file' = Edited(op[t])'
      BY <3>3 DEF Edited
    <3> QED BY <2>1, <3>2, <3>4, <3>5 DEF TextOK, At, Halfway
  <2>3. events' = 0 => ~cut'
    BY <1>2 DEF CallInv, TextInv
  <2>4. ~cut' => lock' # None
    BY <1>1, <1>2, InHand, ConfigAssumption
  <2> QED BY <1>1, <2>1, <2>2, <2>3, <2>4, HolderStep
<1>3. CASE WriteFails(Edited(op[t])) /\ Release(t, "err")
  <2>1. events' # 0 /\ cut'
    BY <1>3, EventFacts DEF WriteFails, CallInv
  <2> QED BY <2>1 DEF TextInv
<1> QED BY <1>2, <1>3 DEF Write

LEMMA TextValidate ==
  ASSUME CallInv, NEW t \in Tasks, Validate(t)
  PROVE  TextInv'
<1>1. /\ op[t].pc = "validate" /\ op[t].pc \in Critical
      /\ UNCHANGED <<file, lock, ledger, cut>>
  BY DEF Validate, At, Critical
<1>2. /\ Goto(t, "reload") => Accepted(file)
      /\ Goto(t, "restore") => ~Accepted(file) \/ events' # 0
      /\ Goto(t, "reload") \/ Goto(t, "restore")
      /\ events' = events \/ events' # 0
  <2>1. CASE /\ Goto(t, IF Accepted(file) THEN "reload" ELSE "restore")
             /\ UNCHANGED events
    <3>1. \A l, m \in OpPC : Goto(t, l) /\ Goto(t, m) => l = m
      BY GotoOp DEF CallInv
    <3> QED BY <2>1, <3>1 DEF OpPC
  <2>2. CASE Event("validate_err") /\ Goto(t, "restore")
    <3>1. \A l, m \in OpPC : Goto(t, l) /\ Goto(t, m) => l = m
      BY GotoOp DEF CallInv
    <3> QED BY <2>2, <3>1, EventFacts DEF OpPC, CallInv
  <2> QED BY <2>1, <2>2 DEF Validate
<1>3. ASSUME NEW l \in {"reload", "restore"}, Goto(t, l) PROVE TextInv'
  <2>1. /\ Rest(t) /\ op'[t].pc = l /\ op'[t].kind = op[t].kind
        /\ op'[t].svc = op[t].svc /\ op'[t].content = op[t].content
    BY <1>3, GotoOp DEF CallInv, OpPC
  <2>2. ASSUME ~cut' PROVE TextOK(t)'
    <3>1. /\ Sound(op[t].content) /\ file = Edited(op[t])
          /\ service_exists(op[t].content, op[t].svc) <=> op[t].kind = "remove"
      BY <1>1, <2>2, InHand DEF TextOK, At, Halfway
    <3>2. Sound(op[t].content)'
      BY <1>1, <2>1, <3>1 DEF Sound
    <3>3. file' = Edited(op[t])'
      BY <1>1, <2>1, <3>1 DEF Edited
    <3>4. service_exists(op'[t].content, op'[t].svc) <=> op'[t].kind = "remove"
      BY <2>1, <3>1
    <3>5. /\ op'[t].pc = "restore" /\ events' = 0 => ~Accepted(file')
          /\ op'[t].pc = "reload" => Accepted(file')
      BY <1>1, <1>2, <1>3, <2>1
    <3> QED BY <2>1, <3>2, <3>3, <3>4, <3>5 DEF TextOK, At, Halfway
  <2>3. events' = 0 => ~cut'
    BY <1>1, <1>2 DEF CallInv, TextInv
  <2>4. ~cut' => lock' # None
    BY <1>1, InHand, ConfigAssumption
  <2> QED BY <1>1, <2>1, <2>2, <2>3, <2>4, HolderStep
<1> QED BY <1>2, <1>3

LEMMA TextRestore ==
  ASSUME CallInv, WorkerInv, NEW t \in Tasks, Restore(t)
  PROVE  TextInv'
<1>1. /\ op[t].pc = "restore" /\ op[t].pc \in Critical
      /\ UNCHANGED ledger /\ Release(t, "err")
  BY DEF Restore, At, Critical
<1>2. CASE /\ file' = op[t].content /\ cut' = (cut \/ running = file)
           /\ UNCHANGED events
  <2>1. Rest(t) /\ op'[t].pc = "err"
    BY <1>1, GotoOp DEF Release, CallInv, OpPC
  <2>2. TextOK(t)'
    BY <2>1, OutsideNext DEF Critical
  <2>3. ASSUME ~cut PROVE Sound(op[t].content) /\ Sound(file)'
    <3>1. Sound(op[t].content)
      BY <1>1, <2>3, InHand DEF TextOK, At, Halfway
    <3> QED BY <1>1, <1>2, <3>1 DEF Sound
  <2>4. ASSUME events' = 0 PROVE ~cut'
    <3>1. events = 0 /\ ~cut
      BY <1>2, <2>4 DEF CallInv, TextInv
    <3>2. ~Accepted(file)
      BY <1>1, <3>1, InHand DEF TextOK, At
    <3>3. running = op[t].content
      BY <1>1, <3>1, <3>2 DEF WorkerInv, WorkerOK
    <3>4. Accepted(running)
      BY <2>3, <3>1, <3>3 DEF Sound
    <3> QED BY <1>2, <3>1, <3>2, <3>4
  <2>5. ~cut' => ~cut
    BY <1>2
  <2> QED BY <1>1, <2>1, <2>2, <2>3, <2>4, <2>5, HolderStep
<1>3. CASE WriteFails(op[t].content)
  <2>1. events' # 0 /\ cut'
    BY <1>3, EventFacts DEF WriteFails, CallInv
  <2> QED BY <2>1 DEF TextInv
<1> QED BY <1>2, <1>3 DEF Restore

LEMMA TextReload ==
  ASSUME CallInv, NEW t \in Tasks, Reload(t)
  PROVE  TextInv'
<1>1. op[t].pc = "reload" /\ op[t].pc \in Critical /\ UNCHANGED <<file, ledger>>
  BY DEF Reload, At, Critical
<1>2. CASE Goto(t, "settle") /\ UNCHANGED <<lock, cut, events>>
  <2>1. /\ Rest(t) /\ op'[t].pc = "settle" /\ op'[t].kind = op[t].kind
        /\ op'[t].svc = op[t].svc /\ op'[t].content = op[t].content
    BY <1>2, GotoOp DEF CallInv, OpPC
  <2>2. ASSUME ~cut' PROVE TextOK(t)'
    <3>1. /\ Sound(op[t].content) /\ file = Edited(op[t]) /\ Accepted(file)
          /\ service_exists(op[t].content, op[t].svc) <=> op[t].kind = "remove"
      BY <1>1, <1>2, <2>2, InHand DEF TextOK, At, Halfway
    <3>2. Sound(op[t].content)'
      BY <1>1, <2>1, <3>1 DEF Sound
    <3>3. file' = Edited(op[t])' /\ Accepted(file')
      BY <1>1, <2>1, <3>1 DEF Edited
    <3>4. service_exists(op'[t].content, op'[t].svc) <=> op'[t].kind = "remove"
      BY <2>1, <3>1
    <3> QED BY <2>1, <3>2, <3>3, <3>4 DEF TextOK, At, Halfway
  <2>3. events' = 0 => ~cut'
    BY <1>2 DEF CallInv, TextInv
  <2>4. ~cut' => lock' # None
    BY <1>1, <1>2, InHand, ConfigAssumption
  <2> QED BY <1>1, <2>1, <2>2, <2>3, <2>4, HolderStep
<1>3. CASE Event("reload_err") /\ cut' = TRUE
  <2>1. events' # 0 /\ cut'
    BY <1>3, EventFacts DEF CallInv
  <2> QED BY <2>1 DEF TextInv
<1> QED BY <1>2, <1>3 DEF Reload

\* The edit of a call that is about to return Ok.
LEMMA SettledText ==
  ASSUME CallInv, NEW t \in Tasks, op[t].pc = "settle", ~cut
  PROVE  /\ WellFormed(file) /\ Accepted(file) /\ ServicesIn(file) = After(op[t])
         /\ op[t].svc \in Services /\ op[t].kind \in {"add", "remove"}
<1>1. op[t].pc \in Critical
  BY DEF Critical
<1>2. /\ Sound(op[t].content) /\ file = Edited(op[t]) /\ Accepted(file)
      /\ service_exists(op[t].content, op[t].svc) <=> op[t].kind = "remove"
      /\ op[t] \in Op /\ op[t].svc \in Services /\ op[t].kind \in {"add", "remove"}
  BY <1>1, InHand DEF TextOK, At, Halfway
<1> QED BY <1>2, EditGood

LEMMA TextSettle ==
  ASSUME CallInv, NEW t \in Tasks, Settle(t)
  PROVE  TextInv'
<1>1. /\ op[t].pc = "settle" /\ op[t].pc \in Critical /\ Release(t, "ok")
      /\ Enter(op[t]) /\ UNCHANGED <<file, cut, events>>
  BY DEF Settle, At, Critical
<1>2. Rest(t) /\ op'[t].pc = "ok"
  BY <1>1, GotoOp DEF Release, CallInv, OpPC
<1>3. TextOK(t)'
  BY <1>2, OutsideNext DEF Critical
<1>4. ASSUME ~cut' PROVE Sound(file)'
  <2>1. WellFormed(file) /\ Accepted(file) /\ ServicesIn(file) = After(op[t])
    BY <1>1, <1>4, SettledText
  <2>2. ledger' = After(op[t])
    BY <1>1 DEF Enter, After
  <2> QED BY <1>1, <2>1, <2>2 DEF Sound
<1>5. events' = 0 => ~cut'
  BY <1>1 DEF CallInv, TextInv
<1> QED BY <1>1, <1>2, <1>3, <1>4, <1>5, HolderStep

\* A call that is dropped before its write leaves the file sound.
LEMMA NotYet ==
  ASSUME CallInv, NEW t \in Tasks, op[t].pc \in Critical, ~Halfway(t), ~cut
  PROVE  Sound(file) /\ op[t].pc \in {"read", "write"}
<1>1. op[t].pc \in {"read", "write"}
  BY DEF Critical, Halfway
<1> QED BY <1>1, InHand DEF TextOK, At

LEMMA TextCancel ==
  ASSUME CallInv, NEW t \in Tasks, Cancel(t)
  PROVE  TextInv'
<1>1. Rest(t) /\ op'[t] = IdleOp /\ op'[t].pc \notin Critical
  BY SetOp, IdleType DEF Cancel, CallInv, Critical
<1>2. events' # 0 /\ UNCHANGED <<file, ledger>> /\ cut' = (cut \/ Halfway(t))
  BY EventFacts DEF Cancel, CallInv
<1>3. CASE op[t].pc \in Critical
  <2>1. ASSUME ~cut' PROVE Sound(file)'
    <3>1. ~cut /\ ~Halfway(t)
      BY <1>2, <2>1
    <3>2. Sound(file)
      BY <1>3, <3>1, NotYet
    <3> QED BY <1>2, <3>2 DEF Sound
  <2>2. TextOK(t)'
    BY <1>1, OutsideNext
  <2> QED BY <1>1, <1>2, <1>3, <2>1, <2>2, HolderStep
<1>4. CASE op[t].pc \notin Critical
  <2>1. lock' = lock
    BY <1>4 DEF Cancel, CallInv, MutexInv, Exclusive
  <2>2. ~Halfway(t)
    BY <1>4 DEF Halfway, Critical
  <2>3. cut' = cut
    BY <1>2, <2>2 DEF CallInv, TypeOK
  <2>4. \A u \in Tasks : op'[u] = op[u] \/ op'[u].pc \notin Critical
    BY <1>1 DEF Rest
  <2> QED BY <1>2, <2>1, <2>3, <2>4, Quiet DEF CallInv
<1> QED BY <1>3, <1>4

LEMMA TextCrash ==
  ASSUME CallInv, Crash
  PROVE  TextInv'
<1>1. \A u \in Tasks : op'[u].pc \notin Critical
  BY IdleType DEF Crash, Critical
<1>2. /\ events' # 0 /\ UNCHANGED <<file, ledger>>
      /\ cut' = (cut \/ \E t \in Tasks : Halfway(t))
  BY EventFacts DEF Crash, CallInv
<1>3. ASSUME ~cut' PROVE Sound(file)'
  <2>1. ~cut /\ \A t \in Tasks : ~Halfway(t)
    BY <1>2, <1>3
  <2>2. Sound(file)
    <3>1. CASE lock = None
      BY <2>1, <3>1 DEF CallInv, TextInv
    <3>2. CASE lock \in Tasks
      <4>1. op[lock].pc \in Critical
        BY <3>2 DEF CallInv, MutexInv, Exclusive
      <4> QED BY <2>1, <3>2, <4>1, NotYet
    <3> QED BY <3>1, <3>2 DEF CallInv, TypeOK, Opt
  <2> QED BY <1>2, <2>2 DEF Sound
<1> QED BY <1>1, <1>2, <1>3, OutsideNext DEF TextInv

LEMMA TextStep ==
  ASSUME CallInv, WorkerInv, [Next]_vars
  PROVE  CallInv'
<1>1. TypeOK' /\ MutexInv'
  BY MutexStep DEF CallInv
<1> SUFFICES TextInv'
  BY <1>1 DEF CallInv
<1>2. CASE UNCHANGED vars
  BY <1>2, Quiet DEF vars, CallInv
<1>3. ASSUME NEW t \in Tasks, NEW k \in {"add", "remove"}, NEW s \in Services,
             Call(t, k, s)
      PROVE  TextInv'
  BY <1>3, TextCall
<1>4. ASSUME NEW t \in Tasks, Acquire(t) \/ Step(t) \/ Cancel(t)
      PROVE  TextInv'
  BY <1>4, TextAcquire, TextRead, TextWrite, TextValidate, TextRestore,
     TextReload, TextSettle, TextReturn, TextCancel DEF Step
<1>5. CASE MasterReads \/ MasterForks \/ Restart
  BY <1>5, TextHAProxy
<1>6. CASE Crash
  BY <1>6, TextCrash
<1> QED BY <1>2, <1>3, <1>4, <1>5, <1>6 DEF Next

\* Which steps end a call with an error, or with Ok.
LEMMA EndsWith ==
  ASSUME CallInv, Next, NEW t \in Tasks, NEW l \in {"ok", "err"},
         op[t].pc # l, op'[t].pc = l
  PROVE  Read(t) \/ Write(t) \/ Restore(t) \/ Reload(t) \/ Settle(t)
<1>1. ASSUME NEW u \in Tasks, Rest(u), op'[u].pc # l PROVE FALSE
  BY <1>1 DEF Rest
<1>2. ASSUME NEW u \in Tasks, NEW k \in {"add", "remove"}, NEW s \in Services,
             Call(u, k, s)
      PROVE  FALSE
  <2>1. op'[u].pc = "lock" /\ \A v \in Tasks : v # u => op'[v] = op[v]
    BY <1>2 DEF Call, CallInv, TypeOK
  <2> QED BY <2>1
<1>3. ASSUME NEW u \in Tasks, Acquire(u) \/ Validate(u) PROVE FALSE
  <2>1. Goto(u, "read") \/ Goto(u, "reload") \/ Goto(u, "restore")
    BY <1>3 DEF Acquire, Validate
  <2>2. Rest(u) /\ op'[u].pc \in {"read", "reload", "restore"}
    BY <2>1, GotoOp DEF CallInv, OpPC
  <2> QED BY <1>1, <2>2
<1>4. ASSUME NEW u \in Tasks, Return(u) \/ Cancel(u) PROVE FALSE
  <2>1. Rest(u) /\ op'[u].pc = "idle"
    BY <1>4, SetOp, IdleType DEF Return, Cancel, CallInv
  <2> QED BY <1>1, <2>1
<1>5. ASSUME MasterReads \/ MasterForks \/ Restart PROVE FALSE
  BY <1>5 DEF MasterReads, MasterForks, Restart
<1>6. ASSUME Crash PROVE FALSE
  BY <1>6, IdleType DEF Crash
<1>7. PICK u \in Tasks : Read(u) \/ Write(u) \/ Restore(u) \/ Reload(u) \/ Settle(u)
  BY <1>2, <1>3, <1>4, <1>5, <1>6 DEF Next, Step
<1>8. \E m \in OpPC : Goto(u, m)
      \/ op' = [op EXCEPT ![u].pc = "write", ![u].content = file]
  BY <1>7 DEF Read, Write, Restore, Reload, Settle, Release, OpPC
<1>9. Rest(u)
  <2>1. CASE \E m \in OpPC : Goto(u, m)
    BY <2>1, GotoOp DEF CallInv
  <2>2. CASE op' = [op EXCEPT ![u].pc = "write", ![u].content = file]
    <3>1. PICK o : o = [op[u] EXCEPT !.pc = "write", !.content = file]
      OBVIOUS
    <3>2. o \in Op
      BY <3>1, OpFacts DEF Op, OpPC, CallInv, TypeOK
    <3>3. op' = [op EXCEPT ![u] = o]
      BY <2>2, <3>1 DEF CallInv, TypeOK
    <3> QED BY <3>2, <3>3, SetOp DEF CallInv
  <2> QED BY <1>8, <2>1, <2>2
<1>10. u = t
  BY <1>9 DEF Rest
<1> QED BY <1>7, <1>10

LEMMA ErrorsStep ==
  ASSUME CallInv, Next, NEW t \in Tasks, ~At(t, "err"), op'[t].pc = "err",
         events' = 0
  PROVE  \/ op[t].svc \in Invalid
         \/ op[t].kind = "remove" /\ ~IsLast(file', op[t].svc)
<1>1. Read(t) \/ Write(t) \/ Restore(t) \/ Reload(t) \/ Settle(t)
  BY EndsWith DEF At
<1>2. ASSUME NEW e, Event(e) PROVE FALSE
  BY <1>2, EventFacts DEF CallInv
<1>3. \A l \in OpPC : Goto(t, l) => l = "err"
  BY GotoOp DEF CallInv
<1>4. ~Write(t) /\ ~Reload(t) /\ ~Settle(t)
  BY <1>2, <1>3 DEF Write, WriteFails, Reload, Settle, Release, OpPC
<1>5. CASE Read(t)
  <2>1. op[t].pc = "read" /\ op[t].pc \in Critical
    BY <1>5 DEF Read, At, Critical
  <2>2. /\ ~Settled(op[t]) /\ NoPlace(op[t])
        /\ UNCHANGED events
    <3>1. ASSUME op' = [op EXCEPT ![t].pc = "write", ![t].content = file] PROVE FALSE
      <4>1. op'[t].pc = "write"
        BY <3>1, OpFacts DEF CallInv, TypeOK, Op
      <4> QED BY <4>1
    <3> QED BY <1>2, <1>3, <1>5, <3>1 DEF Read, Release, OpPC
  <2>3. ~cut
    BY <2>2 DEF CallInv, TextInv
  <2>4. Sound(file) /\ op[t].svc \in Services /\ op[t] \in Op
    BY <2>1, <2>3, InHand DEF TextOK, At
  <2>5. PICK o : o = [op[t] EXCEPT !.content = file]
    OBVIOUS
  <2>6. o \in Op /\ o.content = file /\ o.svc = op[t].svc /\ o.kind = op[t].kind
    BY <2>4, <2>5 DEF Op, CallInv, TypeOK
  <2>7. o.kind = "add" /\ ~service_exists(o.content, o.svc) /\ InsertPos(o.content) = 0
    BY <2>2, <2>6 DEF Settled, NoPlace
  <2> QED BY <2>4, <2>6, <2>7, EditGood
<1>6. CASE Restore(t)
  <2>1. op[t].pc = "restore" /\ op[t].pc \in Critical
    BY <1>6 DEF Restore, At, Critical
  <2>2. file' = op[t].content /\ events = 0
    BY <1>2, <1>6 DEF Restore, WriteFails
  <2>3. ~cut
    BY <2>2 DEF CallInv, TextInv
  <2>4. /\ Sound(op[t].content) /\ file = Edited(op[t]) /\ ~Accepted(file)
        /\ service_exists(op[t].content, op[t].svc) <=> op[t].kind = "remove"
        /\ op[t] \in Op /\ op[t].svc \in Services
    BY <2>1, <2>2, <2>3, InHand DEF TextOK, At, Halfway
  <2> QED BY <2>2, <2>4, EditGood
<1> QED BY <1>1, <1>4, <1>5, <1>6

LEMMA TextInit ==
  ASSUME Init
  PROVE  TextInv /\ WorkerInv
<1>1. \A t \in Tasks : op[t].pc \notin Critical
  BY IdleType DEF Init, Critical
<1>2. Sound(file)
  BY BaseTextGood DEF Init, Sound
<1>3. TextInv
  BY <1>1, <1>2, Outside DEF Init, TextInv
<1>4. WorkerInv
  BY <1>1, Outside DEF Init, WorkerInv
<1> QED BY <1>3, <1>4

-----------------------------------------------------------------------------
(* The worker                                                              *)

\* A step of the call that has the lock, and steps of the others.
LEMMA HolderWorker ==
  ASSUME MutexInv, NEW t \in Tasks, op[t].pc \in Critical, Rest(t),
         ~cut' => /\ WorkerOK(t)'
                  /\ lock' = None => master' = "idle" /\ running' = file'
  PROVE  WorkerInv'
BY Others DEF WorkerInv

LEMMA QuietWorker ==
  ASSUME WorkerInv, UNCHANGED <<file, haproxy, lock, cut>>,
         \A u \in Tasks : op'[u] = op[u] \/ op'[u].pc \notin Critical
  PROVE  WorkerInv'
<1>1. ASSUME NEW u \in Tasks, WorkerOK(u) PROVE WorkerOK(u)'
  <2>1. CASE op'[u].pc \notin Critical
    BY <2>1, OutsideNext
  <2>2. CASE op'[u] = op[u]
    BY <1>1, <2>2 DEF WorkerOK, At, haproxy
  <2> QED BY <2>1, <2>2
<1> QED BY <1>1 DEF WorkerInv, haproxy

\* Before a call has written, the worker runs the text in the file.
LEMMA WorkerInHand ==
  ASSUME CallInv, WorkerInv, NEW t \in Tasks, op[t].pc \in Critical, ~cut
  PROVE  WorkerOK(t) /\ lock = t /\ lock # None
BY InHand, ConfigAssumption DEF WorkerInv

LEMMA WorkerEnters ==
  ASSUME CallInv, WorkerInv, NEW t \in Tasks, Acquire(t)
  PROVE  WorkerInv'
<1>1. /\ lock = None /\ lock' = t /\ t # None /\ UNCHANGED <<file, haproxy, cut>>
  BY ConfigAssumption DEF Acquire
<1>2. Rest(t) /\ op'[t].pc = "read"
  BY GotoOp DEF Acquire, CallInv, OpPC
<1>3. \A u \in Tasks : u # t => op'[u].pc \notin Critical
  BY <1>1, <1>2, ConfigAssumption DEF CallInv, MutexInv, Exclusive, Rest
<1>4. ~cut' => WorkerOK(t)'
  BY <1>1, <1>2 DEF WorkerInv, WorkerOK, At, haproxy
<1> QED BY <1>1, <1>3, <1>4, OutsideNext DEF WorkerInv

LEMMA WorkerRead ==
  ASSUME CallInv, WorkerInv, NEW t \in Tasks, Read(t)
  PROVE  WorkerInv'
<1>1. op[t].pc = "read" /\ op[t].pc \in Critical /\ UNCHANGED <<file, haproxy, cut>>
  BY DEF Read, At, Critical
<1>2. ~cut' => master' = "idle" /\ running' = file'
  BY <1>1, WorkerInHand DEF WorkerOK, haproxy
<1>3. ASSUME Rest(t), op'[t].pc \in {"ok", "err", "write"} PROVE WorkerInv'
  <2>1. ~cut' => WorkerOK(t)'
    BY <1>2, <1>3 DEF WorkerOK, At
  <2> QED BY <1>1, <1>2, <1>3, <2>1, HolderWorker DEF CallInv
<1>4. CASE Goto(t, "ok") \/ Goto(t, "err")
  BY <1>3, <1>4, GotoOp DEF CallInv, OpPC
<1>5. CASE op' = [op EXCEPT ![t].pc = "write", ![t].content = file]
  <2>1. PICK o : o = [op[t] EXCEPT !.pc = "write", !.content = file]
    OBVIOUS
  <2>2. o \in Op /\ o.pc = "write"
    BY <2>1, OpFacts DEF Op, OpPC, CallInv, TypeOK
  <2>3. op' = [op EXCEPT ![t] = o]
    BY <1>5, <2>1 DEF CallInv, TypeOK
  <2> QED BY <1>3, <2>2, <2>3, SetOp DEF CallInv
<1> QED BY <1>4, <1>5 DEF Read, Release

LEMMA WorkerWrite ==
  ASSUME CallInv, WorkerInv, NEW t \in Tasks, Write(t)
  PROVE  WorkerInv'
<1>1. op[t].pc = "write" /\ op[t].pc \in Critical /\ UNCHANGED haproxy
  BY DEF Write, At, Critical
<1>2. CASE Goto(t, "validate") /\ UNCHANGED <<lock, cut, events>>
  <2>1. Rest(t) /\ op'[t].pc = "validate" /\ op'[t].content = op[t].content
    BY <1>2, GotoOp DEF CallInv, OpPC
  <2>2. ASSUME ~cut' PROVE WorkerOK(t)' /\ lock' # None
    <3>1. master = "idle" /\ running = file /\ op[t].content = file /\ lock # None
      BY <1>1, <1>2, <2>2, InHand, WorkerInHand DEF WorkerOK, TextOK, At
    <3> QED BY <1>1, <1>2, <2>1, <3>1 DEF WorkerOK, At, haproxy
  <2> QED BY <1>1, <2>1, <2>2, HolderWorker DEF CallInv
<1>3. CASE WriteFails(Edited(op[t]))
  BY <1>3 DEF WriteFails, WorkerInv
<1> QED BY <1>2, <1>3 DEF Write

LEMMA WorkerValidate ==
  ASSUME CallInv, WorkerInv, NEW t \in Tasks, Validate(t)
  PROVE  WorkerInv'
<1>1. /\ op[t].pc = "validate" /\ op[t].pc \in Critical
      /\ UNCHANGED <<file, haproxy, lock, cut>>
  BY DEF Validate, At, Critical
<1>2. /\ Rest(t) /\ op'[t].pc \in {"reload", "restore"}
      /\ op'[t].content = op[t].content
  <2>1. Goto(t, "reload") \/ Goto(t, "restore")
    BY DEF Validate
  <2> QED BY <2>1, GotoOp DEF CallInv, OpPC
<1>3. ASSUME ~cut' PROVE WorkerOK(t)' /\ lock' # None
  <2>1. /\ master = "idle" /\ lock # None
        /\ running = op[t].content \/ (running = file /\ Accepted(file))
    BY <1>1, <1>3, WorkerInHand DEF WorkerOK
  <2> QED BY <1>1, <1>2, <2>1 DEF WorkerOK, At, haproxy
<1> QED BY <1>1, <1>2, <1>3, HolderWorker DEF CallInv

LEMMA WorkerRestore ==
  ASSUME CallInv, WorkerInv, NEW t \in Tasks, Restore(t)
  PROVE  WorkerInv'
<1>1. /\ op[t].pc = "restore" /\ op[t].pc \in Critical
      /\ UNCHANGED haproxy /\ Release(t, "err")
  BY DEF Restore, At, Critical
<1>2. Rest(t) /\ op'[t].pc = "err"
  BY <1>1, GotoOp DEF Release, CallInv, OpPC
<1>3. WorkerOK(t)'
  BY <1>2, OutsideNext DEF Critical
<1>4. ASSUME ~cut' PROVE master' = "idle" /\ running' = file'
  <2>1. file' = op[t].content /\ ~cut /\ running # file
    BY <1>4 DEF Restore, WriteFails
  <2>2. master = "idle" /\ running = op[t].content
    BY <1>1, <2>1, WorkerInHand DEF WorkerOK
  <2> QED BY <1>1, <2>1, <2>2 DEF haproxy
<1> QED BY <1>1, <1>2, <1>3, <1>4, HolderWorker DEF CallInv

LEMMA WorkerReload ==
  ASSUME CallInv, WorkerInv, NEW t \in Tasks, Reload(t)
  PROVE  WorkerInv'
<1>1. op[t].pc = "reload" /\ op[t].pc \in Critical
  BY DEF Reload, At, Critical
<1>2. CASE /\ master' = IF master = "idle" THEN "read" ELSE master
           /\ Goto(t, "settle") /\ UNCHANGED <<lock, cut, events>>
  <2>1. Rest(t) /\ op'[t].pc = "settle"
    BY <1>2, GotoOp DEF CallInv, OpPC
  <2>2. ASSUME ~cut' PROVE WorkerOK(t)' /\ lock' # None
    <3>1. master = "idle" /\ lock # None
      BY <1>1, <1>2, <2>2, WorkerInHand DEF WorkerOK
    <3> QED BY <1>2, <2>1, <3>1 DEF WorkerOK, At
  <2> QED BY <1>1, <2>1, <2>2, HolderWorker DEF CallInv
<1>3. CASE cut' = TRUE
  BY <1>3 DEF WorkerInv
<1> QED BY <1>2, <1>3 DEF Reload

LEMMA WorkerSettle ==
  ASSUME CallInv, WorkerInv, NEW t \in Tasks, Settle(t)
  PROVE  WorkerInv'
<1>1. /\ op[t].pc = "settle" /\ op[t].pc \in Critical /\ Release(t, "ok")
      /\ master = "idle" /\ UNCHANGED <<file, haproxy, cut>>
  BY DEF Settle, At, Critical
<1>2. Rest(t) /\ op'[t].pc = "ok"
  BY <1>1, GotoOp DEF Release, CallInv, OpPC
<1>3. WorkerOK(t)'
  BY <1>2, OutsideNext DEF Critical
<1>4. ~cut' => running = file
  BY <1>1, WorkerInHand DEF WorkerOK, At
<1> QED BY <1>1, <1>2, <1>3, <1>4, HolderWorker DEF CallInv, haproxy

LEMMA WorkerCancel ==
  ASSUME CallInv, WorkerInv, NEW t \in Tasks, Cancel(t)
  PROVE  WorkerInv'
<1>1. Rest(t) /\ op'[t] = IdleOp /\ op'[t].pc \notin Critical
  BY SetOp, IdleType DEF Cancel, CallInv, Critical
<1>2. UNCHANGED <<file, haproxy>> /\ cut' = (cut \/ Halfway(t))
  BY DEF Cancel
<1>3. CASE op[t].pc \in Critical
  <2>1. ASSUME ~cut' PROVE master' = "idle" /\ running' = file'
    <3>1. ~cut /\ ~Halfway(t)
      BY <1>2, <2>1
    <3>2. op[t].pc \in {"read", "write"}
      BY <1>3, <3>1, NotYet
    <3> QED BY <1>2, <1>3, <3>1, <3>2, WorkerInHand DEF WorkerOK, haproxy
  <2>2. WorkerOK(t)'
    BY <1>1, OutsideNext
  <2> QED BY <1>1, <1>3, <2>1, <2>2, HolderWorker DEF CallInv
<1>4. CASE op[t].pc \notin Critical
  <2>1. lock' = lock
    BY <1>4 DEF Cancel, CallInv, MutexInv, Exclusive
  <2>2. ~Halfway(t)
    BY <1>4 DEF Halfway, Critical
  <2>3. cut' = cut
    BY <1>2, <2>2 DEF CallInv, TypeOK
  <2>4. \A u \in Tasks : op'[u] = op[u] \/ op'[u].pc \notin Critical
    BY <1>1 DEF Rest
  <2> QED BY <1>2, <2>1, <2>3, <2>4, QuietWorker
<1> QED BY <1>3, <1>4

LEMMA WorkerCrash ==
  ASSUME CallInv, WorkerInv, Crash
  PROVE  WorkerInv'
<1>1. \A u \in Tasks : op'[u].pc \notin Critical
  BY IdleType DEF Crash, Critical
<1>2. UNCHANGED <<file, haproxy>> /\ cut' = (cut \/ \E t \in Tasks : Halfway(t))
  BY DEF Crash
<1>3. ASSUME ~cut' PROVE master = "idle" /\ running = file
  <2>1. ~cut /\ \A t \in Tasks : ~Halfway(t)
    BY <1>2, <1>3
  <2>2. CASE lock = None
    BY <2>1, <2>2 DEF WorkerInv
  <2>3. CASE lock \in Tasks
    <3>1. op[lock].pc \in Critical
      BY <2>3 DEF CallInv, MutexInv, Exclusive
    <3>2. op[lock].pc \in {"read", "write"}
      BY <2>1, <2>3, <3>1, NotYet
    <3> QED BY <2>1, <2>3, <3>1, <3>2, WorkerInHand DEF WorkerOK
  <2> QED BY <2>2, <2>3 DEF CallInv, TypeOK, Opt
<1> QED BY <1>1, <1>2, <1>3, OutsideNext DEF WorkerInv, haproxy

\* Outside the settling time the master has nothing to do.
LEMMA WorkerMaster ==
  ASSUME CallInv, WorkerInv, MasterReads \/ MasterForks
  PROVE  WorkerInv'
<1>1. master # "idle" /\ UNCHANGED <<file, lock, op, cut>>
  BY DEF MasterReads, MasterForks
<1>2. ASSUME ~cut
      PROVE  /\ lock \in Tasks /\ op[lock].pc = "settle" /\ Accepted(file)
             /\ master = "fork" => image = file
  <2>1. lock \in Tasks
    BY <1>1, <1>2 DEF WorkerInv, CallInv, TypeOK, Opt
  <2>2. op[lock].pc \in Critical
    BY <2>1 DEF CallInv, MutexInv, Exclusive
  <2>3. WorkerOK(lock) /\ TextOK(lock)
    BY <1>2, <2>1 DEF WorkerInv, CallInv, TextInv
  <2>4. op[lock].pc = "settle"
    BY <1>1, <2>2, <2>3 DEF WorkerOK, Critical
  <2> QED BY <1>1, <2>1, <2>3, <2>4 DEF WorkerOK, TextOK, At
<1>3. ASSUME ~cut', NEW u \in Tasks, u # lock PROVE op'[u].pc \notin Critical
  BY <1>1, <1>3 DEF CallInv, MutexInv, Exclusive
<1>4. ASSUME ~cut'
      PROVE  \/ master' = "fork" /\ image' = file'
             \/ master' = "idle" /\ running' = file'
  BY <1>1, <1>2, <1>4 DEF MasterReads, MasterForks
<1>5. ASSUME ~cut', NEW u \in Tasks, u = lock PROVE WorkerOK(u)'
  <2>1. op'[u].pc = "settle"
    BY <1>1, <1>2, <1>5
  <2> QED BY <1>4, <1>5, <2>1 DEF WorkerOK, At
<1>6. ~cut' => lock' # None
  BY <1>1, <1>2, ConfigAssumption
<1> QED BY <1>3, <1>5, <1>6, OutsideNext DEF WorkerInv

LEMMA WorkerRestart ==
  ASSUME CallInv, WorkerInv, Restart
  PROVE  WorkerInv'
<1>1. /\ UNCHANGED <<file, lock, op, cut>> /\ Accepted(file)
      /\ master' = "idle" /\ running' = file
  BY DEF Restart
<1>2. \A u \in Tasks : WorkerOK(u)'
  BY <1>1 DEF WorkerOK, At
<1> QED BY <1>1, <1>2 DEF WorkerInv

ConfigInv == CallInv /\ WorkerInv

LEMMA WorkerStep ==
  ASSUME ConfigInv, [Next]_vars
  PROVE  ConfigInv'
<1>0. CallInv /\ WorkerInv
  BY DEF ConfigInv
<1>1. CallInv'
  BY <1>0, TextStep
<1> SUFFICES WorkerInv'
  BY <1>1 DEF ConfigInv
<1>2. CASE UNCHANGED vars
  BY <1>0, <1>2, QuietWorker DEF vars, haproxy
<1>3. ASSUME NEW t \in Tasks, NEW k \in {"add", "remove"}, NEW s \in Services,
             Call(t, k, s)
      PROVE  WorkerInv'
  <2>1. \A u \in Tasks : op'[u] = op[u] \/ op'[u].pc \notin Critical
    BY <1>0, <1>3 DEF Call, CallInv, TypeOK, Critical
  <2> QED BY <1>0, <1>3, <2>1, QuietWorker DEF Call
<1>4. ASSUME NEW t \in Tasks, Return(t) PROVE WorkerInv'
  <2>1. \A u \in Tasks : op'[u] = op[u] \/ op'[u].pc \notin Critical
    BY <1>0, <1>4, IdleType DEF Return, CallInv, TypeOK, Critical
  <2> QED BY <1>0, <1>4, <2>1, QuietWorker DEF Return
<1>5. ASSUME NEW t \in Tasks, Acquire(t) \/ Step(t) \/ Cancel(t)
      PROVE  WorkerInv'
  BY <1>0, <1>4, <1>5, WorkerEnters, WorkerRead, WorkerWrite, WorkerValidate,
     WorkerRestore, WorkerReload, WorkerSettle, WorkerCancel DEF Step
<1>6. CASE MasterReads \/ MasterForks
  BY <1>0, <1>6, WorkerMaster
<1>7. CASE Restart
  BY <1>0, <1>7, WorkerRestart
<1>8. CASE Crash
  BY <1>0, <1>8, WorkerCrash
<1> QED BY <1>2, <1>3, <1>5, <1>6, <1>7, <1>8 DEF Next

LEMMA ConfigStarts ==
  ASSUME Init
  PROVE  ConfigInv
BY StartsWell, TextInit DEF ConfigInv, CallInv

\* Every edit lands: when nobody edits, the file is a text that HAProxy accepts
\* and in which every section is whole, it has the services of the calls that
\* returned Ok and no other, and the worker runs it (add_service,
\* remove_service), for any number of callers and services and any failures,
\* crashes and restarts, as long as no call ended between its write and its
\* return, and none took back a text that HAProxy had been restarted with.
THEOREM EveryEditLands == Spec => []EditsLand
<1>1. ConfigInv => EditsLand
  <2> SUFFICES ASSUME ConfigInv, lock = None, ~cut
               PROVE  /\ Accepted(file) /\ Intact(file)
                      /\ ServicesIn(file) = ledger /\ list_services(file) = ledger
                      /\ running = file
    BY DEF EditsLand
  <2>1. Sound(file) /\ running = file /\ file \in Seq(Line)
    BY DEF ConfigInv, CallInv, TextInv, WorkerInv, TypeOK
  <2>2. WellFormed(file) /\ Accepted(file) /\ ServicesIn(file) = ledger
    BY <2>1 DEF Sound
  <2> QED BY <2>1, <2>2, IntactIs
<1> QED BY <1>1, ConfigStarts, WorkerStep, PTL DEF Spec

\* An answer of Ok comes when the worker already has the change.
LEMMA AckedStep ==
  ASSUME ConfigInv, Next, NEW t \in Tasks, ~At(t, "ok"), op'[t].pc = "ok", ~cut
  PROVE  service_exists(running, op[t].svc) <=> op[t].kind = "add"
<1>0. CallInv /\ WorkerInv
  BY DEF ConfigInv
<1>1. Read(t) \/ Write(t) \/ Restore(t) \/ Reload(t) \/ Settle(t)
  BY <1>0, EndsWith DEF At
<1>2. \A l \in OpPC : Goto(t, l) => l = "ok"
  BY <1>0, GotoOp DEF CallInv
<1>3. ~Write(t) /\ ~Restore(t) /\ ~Reload(t)
  BY <1>2 DEF Write, Restore, Reload, Release, OpPC
<1>4. CASE Read(t)
  <2>1. op[t].pc = "read" /\ op[t].pc \in Critical
    BY <1>4 DEF Read, At, Critical
  <2>2. Settled(op[t])
    <3>1. ASSUME op' = [op EXCEPT ![t].pc = "write", ![t].content = file] PROVE FALSE
      <4>1. op'[t].pc = "write"
        BY <1>0, <3>1, OpFacts DEF CallInv, TypeOK, Op
      <4> QED BY <4>1
    <3> QED BY <1>2, <1>4, <3>1 DEF Read, Release, OpPC
  <2>3. running = file
    BY <1>0, <2>1, WorkerInHand DEF WorkerOK
  <2> QED BY <2>2, <2>3 DEF Settled
<1>5. CASE Settle(t)
  <2>1. op[t].pc = "settle" /\ op[t].pc \in Critical /\ master = "idle"
    BY <1>5 DEF Settle, At, Critical
  <2>2. running = file
    BY <1>0, <2>1, WorkerInHand DEF WorkerOK, At
  <2>3. /\ ServicesIn(file) = After(op[t]) /\ op[t].svc \in Services
        /\ op[t].kind \in {"add", "remove"}
    BY <1>0, <2>1, SettledText
  <2>4. service_exists(file, op[t].svc) <=> op[t].svc \in After(op[t])
    BY <2>3 DEF ServicesIn
  <2> QED BY <2>2, <2>3, <2>4 DEF After
<1> QED BY <1>1, <1>3, <1>4, <1>5

\* What config_lock is for: an answer of Ok from add_service or
\* remove_service means that the worker has the change, for any number of
\* callers, under the same condition.
THEOREM AnswersAreTrue == Spec => AckedIsRunning
<1>1. ConfigInv /\ [Next]_vars =>
        [\A t \in Tasks :
           (~At(t, "ok") /\ op'[t].pc = "ok" /\ ~cut)
             => (service_exists(running, op[t].svc) <=> op[t].kind = "add")]_vars
  BY AckedStep
<1> QED BY <1>1, ConfigStarts, WorkerStep, PTL DEF Spec, AckedIsRunning

\* add_service and remove_service err for a reason: with no failure, an error
\* comes from a service that HAProxy cannot parse or from the removal of a
\* section that is not the last, for every sequence of calls.
THEOREM OnlyExplainedErrors == Spec => ErrorsExplained
<1>1. ConfigInv /\ [Next]_vars =>
        [\A t \in Tasks :
           (~At(t, "err") /\ op'[t].pc = "err" /\ events' = 0)
             => \/ op[t].svc \in Invalid
                \/ op[t].kind = "remove" /\ ~IsLast(file', op[t].svc)]_vars
  BY ErrorsStep DEF ConfigInv
<1> QED BY <1>1, ConfigStarts, WorkerStep, PTL DEF Spec, ErrorsExplained

=============================================================================
