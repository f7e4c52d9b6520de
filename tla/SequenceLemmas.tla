--------------------------- MODULE SequenceLemmas ---------------------------
(***************************************************************************)
(* Induction, and what Filter computes.  An induction rule here is about a *)
(* set, the set of the numbers or of the sequences with some property.     *)
(***************************************************************************)
EXTENDS Filtering, WellFoundedInduction, TLAPS

-----------------------------------------------------------------------------
(* Induction.                                                              *)

\* A set of numbers has a least one.
LEMMA LeastNumber ==
  ASSUME NEW T, T \subseteq Nat, T # {}
  PROVE  \E n \in T : \A k \in T : n <= k
<1> DEFINE R == OpToRel(<, Nat)
<1>1. IsWellFoundedOn(R, Nat)
  BY NatLessThanWellFounded
<1>2. \A x, y \in Nat : y < x => <<y, x>> \in R
  BY DEF OpToRel
<1> HIDE DEF R
<1>3. PICK x \in T : \A y \in T : ~ (<<y, x>> \in R)
  BY <1>1, WFMin
<1>4. \A y \in T : ~(y < x)
  BY <1>2, <1>3
<1>5. \A y \in T : x <= y
  BY <1>4
<1>6. QED
  BY <1>5

\* The numbers up to n are in S if the first is and every one brings the next.
LEMMA Induction ==
  ASSUME NEW n \in Nat, NEW S, 0 \in S, \A i \in 0..(n-1) : i \in S => i + 1 \in S
  PROVE  \A i \in 0..n : i \in S
<1> DEFINE T == (0..n) \ S
<1>1. SUFFICES ASSUME T # {} PROVE FALSE
  OBVIOUS
<1>2. PICK m \in T : \A k \in T : m <= k
  <2>1. T \subseteq Nat
    OBVIOUS
  <2> HIDE DEF T
  <2>2. QED
    BY <1>1, <2>1, LeastNumber
<1>3. m \in 0..n /\ m \notin S /\ m # 0
  BY <1>2
<1>4. m - 1 \in 0..(n-1) /\ m - 1 \notin T
  BY <1>2, <1>3
<1>5. m - 1 \in S
  BY <1>4
<1>6. (m - 1) + 1 \in S
  BY <1>4, <1>5
<1>7. QED
  BY <1>3, <1>6

\* Every sequence is in P if the empty one is and P is closed under Append.
LEMMA SeqInduction ==
  ASSUME NEW A, NEW P, <<>> \in P,
         \A s \in Seq(A), a \in A : s \in P => Append(s, a) \in P
  PROVE  \A s \in Seq(A) : s \in P
<1> SUFFICES ASSUME NEW s \in Seq(A) PROVE s \in P
  OBVIOUS
<1> DEFINE S == {i \in 0..Len(s) : SubSeq(s, 1, i) \in P}
<1>1. 0 \in S
  <2>1. SubSeq(s, 1, 0) = <<>> /\ 0 \in 0..Len(s)
    OBVIOUS
  <2>2. SubSeq(s, 1, 0) \in P
    BY <2>1, Zenon
  <2>3. QED
    BY <2>1, <2>2, Zenon
<1>2. ASSUME NEW i \in 0..(Len(s) - 1), i \in S
      PROVE  i + 1 \in S
  <2>1. SubSeq(s, 1, i) \in Seq(A) /\ s[i+1] \in A /\ i + 1 \in 0..Len(s)
    OBVIOUS
  <2>2. SubSeq(s, 1, i + 1) = Append(SubSeq(s, 1, i), s[i+1])
    OBVIOUS
  <2>3. SubSeq(s, 1, i) \in P
    BY <1>2
  <2>4. SubSeq(s, 1, i + 1) \in P
    BY <2>1, <2>2, <2>3, Zenon
  <2>5. QED
    BY <2>1, <2>4
<1> HIDE DEF S
<1>3. Len(s) \in S
  <2>1. Len(s) \in Nat /\ Len(s) \in 0..Len(s)
    OBVIOUS
  <2>2. QED
    BY <1>1, <1>2, <2>1, Induction
<1>4. SubSeq(s, 1, Len(s)) \in P
  BY <1>3 DEF S
<1>5. SubSeq(s, 1, Len(s)) = s
  OBVIOUS
<1>6. QED
  BY <1>4, <1>5

\* f begins with first, and step makes f[i] of i and f[i-1].
Recursive(f, n, first, step) == f[0] = first /\ \A i \in 1..n : f[i] = step[<<i, f[i-1]>>]

\* What step may be, for values in B.
Steps(n, B) == [(1..n) \X B -> B]

\* There is such an f.
LEMMA Recursion ==
  ASSUME NEW n \in Nat, NEW B, NEW first \in B, NEW step \in Steps(n, B)
  PROVE  \E f \in [0..n -> B] : Recursive(f, n, first, step)
<1> USE DEF Recursive, Steps
<1> DEFINE Is(f, m) == f[0] = first /\ \A i \in 1..m : f[i] = step[<<i, f[i-1]>>]
           S == {m \in 0..n : \E f \in [0..m -> B] : Is(f, m)}
<1>1. 0 \in S
  <2> DEFINE f == [i \in 0..0 |-> first]
  <2>1. f \in [0..0 -> B] /\ f[0] = first
    OBVIOUS
  <2>2. \A i \in 1..0 : f[i] = step[<<i, f[i-1]>>]
    OBVIOUS
  <2> HIDE DEF f
  <2>3. \E g \in [0..0 -> B] : Is(g, 0)
    BY <2>1, <2>2, Zenon
  <2>4. 0 \in 0..n
    OBVIOUS
  <2>5. QED
    BY <2>3, <2>4, Zenon
<1>2. ASSUME NEW m \in 0..(n-1), m \in S
      PROVE  m + 1 \in S
  <2>1. PICK f \in [0..m -> B] : Is(f, m)
    BY <1>2
  <2> DEFINE g == [i \in 0..(m+1) |-> IF i = m + 1 THEN step[<<m + 1, f[m]>>] ELSE f[i]]
  <2> HIDE DEF S
  <2>2. m \in Nat /\ m \in 0..m /\ m + 1 \in 0..(m+1) /\ (m + 1) - 1 = m /\ m + 1 \in 1..n /\ m + 1 \in 0..n
    OBVIOUS
  <2>3. \A i \in 0..m : i \in 0..(m+1) /\ i # m + 1
    BY <2>2
  <2>4. \A i \in 0..m : g[i] = f[i]
    BY <2>3
  <2>5. step[<<m + 1, f[m]>>] \in B
    BY <2>2
  <2>6. \A i \in 0..(m+1) : i \in 0..m \/ i = m + 1
    BY <2>2
  <2>7. g \in [0..(m+1) -> B]
    BY <2>5, <2>6
  <2>8. g[m+1] = step[<<m+1, g[(m+1)-1]>>]
    BY <2>2, <2>4
  <2> HIDE DEF g
  <2>9. \A i \in 1..m : g[i] = step[<<i, g[i-1]>>]
    <3> TAKE i \in 1..m
    <3>1. i \in 0..m /\ i - 1 \in 0..m
      BY <2>2
    <3>2. QED
      BY <2>1, <2>4, <3>1
  <2>10. g[0] = first
    <3>1. 0 \in 0..m
      BY <2>2
    <3>2. QED
      BY <2>1, <2>4, <3>1
  <2>11. \A i \in 1..(m+1) : i \in 1..m \/ i = m + 1
    BY <2>2
  <2>12. \A i \in 1..(m+1) : g[i] = step[<<i, g[i-1]>>]
    BY <2>8, <2>9, <2>11, Zenon
  <2>13. Is(g, m + 1)
    BY <2>10, <2>12
  <2>14. QED
    <3> USE DEF S
    <3>1. \E h \in [0..(m+1) -> B] : Is(h, m + 1)
      BY <2>7, <2>13
    <3>2. QED
      BY <2>2, <3>1
<1> HIDE DEF S
<1>3. n \in 0..n
  OBVIOUS
<1>4. n \in S
  BY <1>1, <1>2, <1>3, Induction
<1>5. QED
  BY <1>4 DEF S

-----------------------------------------------------------------------------
(* The elements of a sequence.                                             *)

Elements(s) == {s[i] : i \in DOMAIN s}

\* Append adds one.
LEMMA AppendElements ==
  ASSUME NEW A, NEW s \in Seq(A), NEW a \in A
  PROVE  Elements(Append(s, a)) = Elements(s) \cup {a}
<1> DEFINE t == Append(s, a)
<1>1. /\ DOMAIN t = 1..(Len(s) + 1) /\ DOMAIN s = 1..Len(s) /\ Len(s) \in Nat
      /\ t[Len(s) + 1] = a /\ \A i \in 1..Len(s) : t[i] = s[i]
  OBVIOUS
<1> HIDE DEF t
<1>2. \A i \in DOMAIN t : i \in DOMAIN s \/ i = Len(s) + 1
  BY <1>1
<1>3. Len(s) + 1 \in DOMAIN t /\ \A i \in DOMAIN s : i \in DOMAIN t
  BY <1>1
<1>4. Elements(t) = Elements(s) \cup {a}
  BY <1>1, <1>2, <1>3 DEF Elements
<1>5. QED
  BY <1>4 DEF t

-----------------------------------------------------------------------------
(* Filter.                                                                 *)

\* f is the recursive function of Filter.
Filters(f, s, S) ==
  /\ f[0] = <<>>
  /\ \A i \in 1..Len(s) : f[i] = IF s[i] \in S THEN Append(f[i-1], s[i]) ELSE f[i-1]

\* Filter is the last value of such a function.
LEMMA FilterDef ==
  ASSUME NEW A, NEW s \in Seq(A), NEW S
  PROVE  \E f : Filters(f, s, S) /\ Filter(s, S) = f[Len(s)]
<1> DEFINE n == Len(s)
           step == [x \in (1..n) \X Seq(A) |-> IF s[x[1]] \in S THEN Append(x[2], s[x[1]]) ELSE x[2]]
           Is(g) == g = [i \in 0..n |-> IF i = 0 THEN <<>>
                           ELSE IF s[i] \in S THEN Append(g[i-1], s[i]) ELSE g[i-1]]
           f == CHOOSE g : Is(g)
<1>1. n \in Nat /\ <<>> \in Seq(A) /\ \A i \in 1..n : s[i] \in A
  OBVIOUS
<1>2. step \in [(1..n) \X Seq(A) -> Seq(A)]
  BY <1>1
<1>3. \A i \in 1..n, acc \in Seq(A) : step[<<i, acc>>] = IF s[i] \in S THEN Append(acc, s[i]) ELSE acc
  OBVIOUS
<1> HIDE DEF step
<1>4. PICK g \in [0..n -> Seq(A)] : g[0] = <<>> /\ \A i \in 1..n : g[i] = step[<<i, g[i-1]>>]
  <2> HIDE DEF n
  <2>1. QED
    <3> DEFINE B == Seq(A)
               first == <<>>
    <3>1. n \in Nat /\ first \in B /\ step \in Steps(n, B)
      BY <1>1, <1>2 DEF Steps
    <3> HIDE DEF B, first
    <3>2. \E g \in [0..n -> B] : Recursive(g, n, first, step)
      BY <3>1, Recursion, Zenon
    <3>3. QED
      BY <3>2 DEF B, first, Recursive
<1>5. \A i \in 1..n : g[i] = IF s[i] \in S THEN Append(g[i-1], s[i]) ELSE g[i-1]
  <2> HIDE DEF n
  <2> TAKE i \in 1..n
  <2>1. i - 1 \in 0..n /\ g[i-1] \in Seq(A)
    BY <1>1
  <2>2. QED
    BY <1>3, <1>4, <2>1
<1>6. \A i \in 0..n : i = 0 \/ i \in 1..n
  BY <1>1
<1>7. \A i \in 0..n : g[i] = IF i = 0 THEN <<>> ELSE IF s[i] \in S THEN Append(g[i-1], s[i]) ELSE g[i-1]
  BY <1>4, <1>5, <1>6
<1>8. Is(g)
  BY <1>7
<1>9. Is(f)
  BY <1>8
<1>10. Filter(s, S) = f[n]
  BY DEF Filter
<1> HIDE DEF f
<1>11. Filters(f, s, S)
  <2>1. f[0] = <<>>
    <3>1. 0 \in 0..n
      BY <1>1
    <3>2. QED
      BY <1>9, <3>1
  <2>2. ASSUME NEW i \in 1..n
        PROVE  f[i] = IF s[i] \in S THEN Append(f[i-1], s[i]) ELSE f[i-1]
    <3>1. i \in 0..n /\ i # 0
      BY <1>1
    <3>2. QED
      BY <1>9, <3>1
  <2>3. QED
    BY <2>1, <2>2 DEF Filters
<1>12. QED
  BY <1>10, <1>11

\* There is nothing to select from the empty sequence.
LEMMA FilterEmpty == ASSUME NEW S PROVE Filter(<<>>, S) = <<>>
<1>1. <<>> \in Seq({}) /\ Len(<<>>) = 0
  OBVIOUS
<1>2. PICK f : Filters(f, <<>>, S) /\ Filter(<<>>, S) = f[Len(<<>>)]
  BY <1>1, FilterDef
<1>3. QED
  BY <1>1, <1>2 DEF Filters

\* An element more is selected, or not.
LEMMA FilterAppend ==
  ASSUME NEW A, NEW s \in Seq(A), NEW x \in A, NEW S
  PROVE  Filter(Append(s, x), S) = IF x \in S THEN Append(Filter(s, S), x) ELSE Filter(s, S)
<1> DEFINE t == Append(s, x)
           n == Len(s)
<1>1. t \in Seq(A) /\ n \in Nat /\ Len(t) = n + 1 /\ t[n+1] = x /\ \A i \in 1..n : t[i] = s[i]
  OBVIOUS
<1>2. PICK f : Filters(f, s, S) /\ Filter(s, S) = f[n]
  BY FilterDef
<1>3. PICK g : Filters(g, t, S) /\ Filter(t, S) = g[n+1]
  <2> HIDE DEF t
  <2>1. QED
    BY <1>1, FilterDef
<1> DEFINE same == {i \in 0..n : f[i] = g[i]}
<1> HIDE DEF t, n
<1>4. 0 \in same
  BY <1>1, <1>2, <1>3 DEF Filters
<1>5. ASSUME NEW i \in 0..(n-1), i \in same
      PROVE  i + 1 \in same
  <2>1. i + 1 \in 1..n /\ i + 1 \in 1..(n+1) /\ (i + 1) - 1 = i /\ i + 1 \in 0..n
    BY <1>1
  <2>2. f[i] = g[i] /\ t[i+1] = s[i+1]
    BY <1>1, <1>5, <2>1
  <2>3. f[i+1] = IF s[i+1] \in S THEN Append(f[i], s[i+1]) ELSE f[i]
    BY <1>2, <2>1 DEF Filters, n
  <2>4. g[i+1] = IF t[i+1] \in S THEN Append(g[i], t[i+1]) ELSE g[i]
    BY <1>1, <1>3, <2>1 DEF Filters
  <2>5. f[i+1] = g[i+1]
    BY <2>2, <2>3, <2>4
  <2>6. QED
    BY <2>1, <2>5
<1> HIDE DEF same
<1>6. n \in same
  <2>1. n \in 0..n
    BY <1>1
  <2>2. QED
    BY <1>1, <1>4, <1>5, <2>1, Induction
<1>7. g[n+1] = IF t[n+1] \in S THEN Append(g[n], t[n+1]) ELSE g[n]
  <2>1. n + 1 \in 1..Len(t) /\ (n + 1) - 1 = n
    BY <1>1
  <2>2. QED
    BY <1>3, <2>1 DEF Filters
<1>8. f[n] = g[n]
  BY <1>6 DEF same
<1>9. QED
  BY <1>1, <1>2, <1>3, <1>7, <1>8 DEF t

\* What is selected are elements of the sequence, in S, and not more of them.
LEMMA FilterType ==
  ASSUME NEW A, NEW s \in Seq(A), NEW S
  PROVE  Filter(s, S) \in Seq(A \cap S) /\ Len(Filter(s, S)) <= Len(s)
<1> DEFINE P == {t \in Seq(A) : Filter(t, S) \in Seq(A \cap S) /\ Len(Filter(t, S)) <= Len(t)}
<1>1. <<>> \in P
  <2>1. Filter(<<>>, S) = <<>>
    BY FilterEmpty
  <2>2. <<>> \in Seq(A) /\ <<>> \in Seq(A \cap S) /\ Len(<<>>) = 0
    OBVIOUS
  <2>3. Filter(<<>>, S) \in Seq(A \cap S) /\ Len(Filter(<<>>, S)) = Len(<<>>)
    BY <2>1, <2>2, Zenon
  <2>4. QED
    BY <2>2, <2>3
<1>2. ASSUME NEW t \in Seq(A), NEW a \in A, t \in P
      PROVE  Append(t, a) \in P
  <2>1. /\ Filter(t, S) \in Seq(A \cap S) /\ Len(Filter(t, S)) <= Len(t)
    BY <1>2
  <2>2. Filter(Append(t, a), S) = IF a \in S THEN Append(Filter(t, S), a) ELSE Filter(t, S)
    BY FilterAppend
  <2>3. Append(t, a) \in Seq(A) /\ Len(Append(t, a)) = Len(t) + 1 /\ Len(t) \in Nat
    OBVIOUS
  <2>4. CASE a \in S
    <3> DEFINE r == Filter(t, S)
    <3>1. Append(r, a) \in Seq(A \cap S) /\ Len(Append(r, a)) = Len(r) + 1 /\ Len(r) \in Nat
      BY <2>1, <2>4
    <3>2. Len(Append(r, a)) <= Len(Append(t, a))
      BY <2>1, <2>3, <3>1
    <3> HIDE DEF r
    <3>3. Filter(Append(t, a), S) = Append(r, a)
      BY <2>2, <2>4 DEF r
    <3>4. QED
      BY <2>3, <3>1, <3>2, <3>3
  <2>5. CASE a \notin S
    BY <2>1, <2>2, <2>3, <2>5
  <2>6. QED
    BY <2>4, <2>5
<1> HIDE DEF P
<1>3. s \in P
  BY <1>1, <1>2, SeqInduction
<1>4. QED
  BY <1>3 DEF P

\* All of them are selected.
LEMMA FilterElements ==
  ASSUME NEW A, NEW s \in Seq(A), NEW S
  PROVE  Elements(Filter(s, S)) = Elements(s) \cap S
<1> DEFINE P == {t \in Seq(A) : Elements(Filter(t, S)) = Elements(t) \cap S}
<1>1. <<>> \in P
  <2>1. Elements(<<>>) = {} /\ <<>> \in Seq(A)
    BY DEF Elements
  <2>2. Filter(<<>>, S) = <<>>
    BY FilterEmpty
  <2>3. Elements(Filter(<<>>, S)) = Elements(<<>>) \cap S
    BY <2>1, <2>2
  <2>4. QED
    BY <2>1, <2>3
<1>2. ASSUME NEW t \in Seq(A), NEW a \in A, t \in P
      PROVE  Append(t, a) \in P
  <2>1. Filter(t, S) \in Seq(A \cap S)
    BY FilterType
  <2>2. Filter(Append(t, a), S) = IF a \in S THEN Append(Filter(t, S), a) ELSE Filter(t, S)
    BY FilterAppend
  <2>3. Elements(Filter(t, S)) = Elements(t) \cap S /\ Append(t, a) \in Seq(A)
    BY <1>2
  <2>4. Elements(Append(t, a)) = Elements(t) \cup {a}
    BY AppendElements
  <2>5. a \in S => Elements(Append(Filter(t, S), a)) = Elements(Filter(t, S)) \cup {a}
    <3> DEFINE B == A \cap S
    <3>1. a \in S => a \in B /\ Filter(t, S) \in Seq(B)
      BY <2>1
    <3> HIDE DEF B
    <3>2. QED
      BY <3>1, AppendElements
  <2>6. Elements(Filter(Append(t, a), S)) = Elements(Append(t, a)) \cap S
    BY <2>2, <2>3, <2>4, <2>5
  <2>7. QED
    BY <2>3, <2>6
<1> HIDE DEF P
<1>3. s \in P
  BY <1>1, <1>2, SeqInduction
<1>4. QED
  BY <1>3 DEF P

\* Two selections are one.
LEMMA FilterTwice ==
  ASSUME NEW A, NEW s \in Seq(A), NEW S, NEW T
  PROVE  Filter(Filter(s, S), T) = Filter(s, S \cap T)
<1> DEFINE P == {t \in Seq(A) : Filter(Filter(t, S), T) = Filter(t, S \cap T)}
<1>1. <<>> \in P
  <2>1. Filter(<<>>, S) = <<>> /\ Filter(<<>>, T) = <<>> /\ Filter(<<>>, S \cap T) = <<>>
    BY FilterEmpty
  <2>2. QED
    BY <2>1
<1>2. ASSUME NEW t \in Seq(A), NEW a \in A, t \in P
      PROVE  Append(t, a) \in P
  <2> DEFINE r == Filter(t, S)
  <2>1. r \in Seq(A \cap S)
    BY FilterType
  <2>2. Filter(Append(t, a), S) = IF a \in S THEN Append(r, a) ELSE r
    BY FilterAppend
  <2>3. Filter(Append(t, a), S \cap T) = IF a \in S \cap T THEN Append(Filter(t, S \cap T), a) ELSE Filter(t, S \cap T)
    BY FilterAppend
  <2>4. Filter(r, T) = Filter(t, S \cap T) /\ Append(t, a) \in Seq(A)
    BY <1>2
  <2>5. a \in S => Filter(Append(r, a), T) = IF a \in T THEN Append(Filter(r, T), a) ELSE Filter(r, T)
    <3> HIDE DEF r
    <3> SUFFICES ASSUME a \in S
                 PROVE  Filter(Append(r, a), T) = IF a \in T THEN Append(Filter(r, T), a) ELSE Filter(r, T)
      OBVIOUS
    <3> DEFINE B == A \cap S
    <3>1. a \in B /\ r \in Seq(B)
      BY <2>1
    <3> HIDE DEF B
    <3>2. QED
      BY <3>1, FilterAppend
  <2> HIDE DEF r
  <2>6. Filter(Filter(Append(t, a), S), T) = Filter(Append(t, a), S \cap T)
    <3>1. CASE a \in S /\ a \in T
      BY <2>2, <2>3, <2>4, <2>5, <3>1
    <3>2. CASE a \in S /\ a \notin T
      BY <2>2, <2>3, <2>4, <2>5, <3>2
    <3>3. CASE a \notin S
      BY <2>2, <2>3, <2>4, <3>3
    <3>4. QED
      BY <3>1, <3>2, <3>3
  <2>7. QED
    BY <2>4, <2>6
<1> HIDE DEF P
<1>3. s \in P
  BY <1>1, <1>2, SeqInduction
<1>4. QED
  BY <1>3 DEF P
=============================================================================
