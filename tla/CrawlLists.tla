----------------------------- MODULE CrawlLists -----------------------------
(***************************************************************************)
(* More theorems about Crawl, for any web: what the crawler's lists say    *)
(* about its pages.  Here the addresses matter.                            *)
(***************************************************************************)
EXTENDS CrawlProofs, FiniteSetTheorems, SequenceTheorems

-----------------------------------------------------------------------------
(* Addresses.                                                              *)

\* A record is an address.
LEMMA AddressFacts ==
  ASSUME NEW u
  PROVE  u \in Addresses <=>
           /\ u \in [origin: Seq(STRING), path: Seq(STRING), slash: BOOLEAN, args: SUBSET (Texts \X Texts)]
           /\ u.origin # <<>>
  BY DEF Addresses

\* Part of a path.
LEMMA SubSeqFacts ==
  ASSUME NEW A, NEW s \in Seq(A), NEW m \in Nat \ {0}, NEW n \in Int, n <= Len(s)
  PROVE  SubSeq(s, m, n) \in Seq(A)
  OBVIOUS

LEMMA AppendedFacts ==
  ASSUME NEW A, NEW s \in Seq(A), NEW x \in A
  PROVE  /\ Append(s, x) \in Seq(A) /\ Len(s) \in Nat /\ Len(Append(s, x)) = Len(s) + 1
         /\ Append(s, x)[Len(s) + 1] = x /\ \A i \in 1..Len(s) : Append(s, x)[i] = s[i]
  OBVIOUS

LEMMA FrontFacts ==
  ASSUME NEW A, NEW s \in Seq(A), s # <<>>
  PROVE  Front(s) \in Seq(A) /\ Last(s) \in A /\ s = Append(Front(s), Last(s)) /\ Len(Front(s)) = Len(s) - 1
  BY DEF Front, Last

LEMMA FixFacts ==
  ASSUME NEW u \in Addresses
  PROVE  /\ FixURL(u) \in Addresses /\ FixURL(u).args = u.args
         /\ FixUrlEnd(u) \in Addresses /\ FixUrlEnd(u).args = u.args
         /\ FixUrlEnd(u).slash = FALSE
<1>1. u.path # <<>> => Front(u.path) \in Seq(STRING)
  BY FrontFacts DEF Addresses
<1>2. FixURL(u) \in Addresses /\ FixURL(u).args = u.args
  BY <1>1 DEF FixURL, Addresses
<1>3. FixUrlEnd(u) \in Addresses /\ FixUrlEnd(u).args = u.args /\ FixUrlEnd(u).slash = FALSE
  BY <1>1 DEF FixUrlEnd, Addresses
<1>4. QED
  BY <1>2, <1>3

\* Segments of a path that need not be resolved.
Segments == STRING \ Dots

\* What the next segment makes of what the others were resolved to.
Further(path, segment) ==
  CASE segment = "."  -> path
    [] segment = ".." -> IF path = <<>> THEN <<>> ELSE Front(path)
    [] OTHER          -> Append(path, segment)

LEMMA FurtherFacts ==
  ASSUME NEW path \in Seq(Segments), NEW segment \in STRING
  PROVE  Further(path, segment) \in Seq(Segments)
<1>1. CASE segment = "."
  BY <1>1 DEF Further
<1>2. CASE segment = ".."
  <2>1. path # <<>> => Front(path) \in Seq(Segments)
    BY FrontFacts
  <2>2. Further(path, segment) = IF path = <<>> THEN <<>> ELSE Front(path)
    BY <1>2 DEF Further
  <2>3. CASE path = <<>>
    BY <2>2, <2>3
  <2>4. CASE path # <<>>
    BY <2>1, <2>2, <2>4
  <2>5. QED
    BY <2>3, <2>4
<1>3. CASE segment # "." /\ segment # ".."
  <2>1. segment \in Segments
    BY <1>3 DEF Segments, Dots
  <2>2. Further(path, segment) = Append(path, segment)
    BY <1>3 DEF Further
  <2>3. QED
    BY <2>1, <2>2, AppendedFacts
<1>4. QED
  BY <1>1, <1>2, <1>3

\* f is the recursive function of Resolved.
Resolves(f, path) == f[0] = <<>> /\ \A i \in 1..Len(path) : f[i] = Further(f[i-1], path[i])

LEMMA ResolvedDef ==
  ASSUME NEW path \in Seq(STRING)
  PROVE  \E f : Resolves(f, path) /\ Resolved(path) = f[Len(path)] /\ Resolved(path) \in Seq(Segments)
<1> DEFINE n == Len(path)
           step == [x \in (1..n) \X Seq(Segments) |-> Further(x[2], path[x[1]])]
           Is(g) == g = [i \in 0..n |->
                           IF i = 0 THEN <<>>
                           ELSE CASE path[i] = "."  -> g[i-1]
                                  [] path[i] = ".." -> IF g[i-1] = <<>> THEN <<>> ELSE Front(g[i-1])
                                  [] OTHER          -> Append(g[i-1], path[i])]
           f == CHOOSE g : Is(g)
<1>1. n \in Nat /\ <<>> \in Seq(Segments) /\ \A i \in 1..n : path[i] \in STRING
  OBVIOUS
<1>2. step \in [(1..n) \X Seq(Segments) -> Seq(Segments)]
  BY <1>1, FurtherFacts
<1>3. \A i \in 1..n, acc \in Seq(Segments) : step[<<i, acc>>] = Further(acc, path[i])
  OBVIOUS
<1> HIDE DEF step
<1>4. PICK g \in [0..n -> Seq(Segments)] : g[0] = <<>> /\ \A i \in 1..n : g[i] = step[<<i, g[i-1]>>]
  <2> HIDE DEF n
  <2> DEFINE B == Seq(Segments)
             first == <<>>
  <2>1. n \in Nat /\ first \in B /\ step \in Steps(n, B)
    BY <1>1, <1>2 DEF Steps
  <2> HIDE DEF B, first
  <2>2. \E h \in [0..n -> B] : Recursive(h, n, first, step)
    BY <2>1, Recursion, Zenon
  <2>3. QED
    BY <2>2 DEF B, first, Recursive
<1>5. \A i \in 1..n : g[i] = Further(g[i-1], path[i])
  <2> HIDE DEF n
  <2> TAKE i \in 1..n
  <2>1. i - 1 \in 0..n /\ g[i-1] \in Seq(Segments)
    BY <1>1
  <2>2. QED
    BY <1>3, <1>4, <2>1
<1>6. \A i \in 0..n : i = 0 \/ i \in 1..n
  BY <1>1
<1>7. Is(g)
  <2>1. \A i \in 0..n : g[i] = IF i = 0 THEN <<>> ELSE Further(g[i-1], path[i])
    BY <1>4, <1>5, <1>6
  <2>2. g = [i \in 0..n |-> IF i = 0 THEN <<>> ELSE Further(g[i-1], path[i])]
    BY <2>1
  <2>3. QED
    BY <2>2 DEF Further
<1>8. Is(f)
  BY <1>7
<1>9. Resolved(path) = f[n]
  BY DEF Resolved
<1>10. f = [i \in 0..n |-> IF i = 0 THEN <<>> ELSE Further(f[i-1], path[i])]
  BY <1>8 DEF Further
<1> HIDE DEF f
<1>11. Resolves(f, path)
  <2>1. 0 \in 0..n /\ \A i \in 1..n : i \in 0..n /\ i # 0
    BY <1>1
  <2>2. QED
    BY <1>10, <2>1 DEF Resolves
<1>12. f[n] \in Seq(Segments)
  <2> DEFINE S == {i \in 0..n : f[i] \in Seq(Segments)}
  <2>1. 0 \in S
    <3>1. f[0] = <<>> /\ 0 \in 0..n
      BY <1>1, <1>11 DEF Resolves
    <3>2. QED
      BY <1>1, <3>1, Zenon
  <2>2. ASSUME NEW i \in 0..(n-1), i \in S PROVE i + 1 \in S
    <3> HIDE DEF n
    <3>1. i + 1 \in 1..n /\ (i + 1) - 1 = i /\ i + 1 \in 0..n
      BY <1>1
    <3>2. f[i+1] = Further(f[i], path[i+1])
      BY <1>11, <3>1 DEF Resolves, n
    <3>3. f[i+1] \in Seq(Segments)
      BY <1>1, <2>2, <3>1, <3>2, FurtherFacts
    <3>4. QED
      BY <3>1, <3>3
  <2> HIDE DEF S, n
  <2>3. n \in S
    <3>1. n \in 0..n
      BY <1>1
    <3>2. QED
      BY <1>1, <2>1, <2>2, <3>1, Induction
  <2>4. QED
    BY <2>3 DEF S
<1>13. QED
  BY <1>9, <1>11, <1>12

LEMMA ResolvedEmpty == Resolved(<<>>) = <<>>
<1>1. <<>> \in Seq(STRING) /\ Len(<<>>) = 0
  OBVIOUS
<1>2. PICK f : Resolves(f, <<>>) /\ Resolved(<<>>) = f[Len(<<>>)]
  BY <1>1, ResolvedDef
<1>3. QED
  BY <1>1, <1>2 DEF Resolves

\* A path is resolved segment by segment.
LEMMA ResolvedAppend ==
  ASSUME NEW path \in Seq(STRING), NEW segment \in STRING
  PROVE  Resolved(Append(path, segment)) = Further(Resolved(path), segment)
<1> DEFINE t == Append(path, segment)
           n == Len(path)
<1>1. t \in Seq(STRING) /\ n \in Nat /\ Len(t) = n + 1 /\ t[n+1] = segment /\ \A i \in 1..n : t[i] = path[i]
  <2>1. \A i \in 1..n : t[i] = path[i]
    BY AppendedFacts
  <2>2. t \in Seq(STRING) /\ n \in Nat /\ Len(t) = n + 1 /\ t[n+1] = segment
    BY AppendedFacts
  <2>3. QED
    BY <2>1, <2>2
<1>2. PICK f : Resolves(f, path) /\ Resolved(path) = f[n]
  BY ResolvedDef
<1>3. PICK g : Resolves(g, t) /\ Resolved(t) = g[n+1]
  <2> HIDE DEF t
  <2>1. QED
    BY <1>1, ResolvedDef
<1> DEFINE same == {i \in 0..n : f[i] = g[i]}
<1> HIDE DEF t, n
<1>4. 0 \in same
  BY <1>1, <1>2, <1>3 DEF Resolves
<1>5. ASSUME NEW i \in 0..(n-1), i \in same
      PROVE  i + 1 \in same
  <2>1. i + 1 \in 1..n /\ i + 1 \in 1..(n+1) /\ (i + 1) - 1 = i /\ i + 1 \in 0..n
    BY <1>1
  <2>2. f[i] = g[i] /\ t[i+1] = path[i+1]
    BY <1>1, <1>5, <2>1
  <2>3. f[i+1] = Further(f[i], path[i+1])
    BY <1>2, <2>1 DEF Resolves, n
  <2>4. g[i+1] = Further(g[i], t[i+1])
    BY <1>1, <1>3, <2>1 DEF Resolves
  <2>5. QED
    BY <2>1, <2>2, <2>3, <2>4
<1> HIDE DEF same
<1>6. n \in same
  <2>1. n \in 0..n
    BY <1>1
  <2>2. QED
    BY <1>1, <1>4, <1>5, <2>1, Induction
<1>7. g[n+1] = Further(g[n], t[n+1])
  <2>1. n + 1 \in 1..Len(t) /\ (n + 1) - 1 = n
    BY <1>1
  <2>2. QED
    BY <1>3, <2>1 DEF Resolves
<1>8. f[n] = g[n]
  BY <1>6 DEF same
<1>9. QED
  BY <1>1, <1>2, <1>3, <1>7, <1>8 DEF t

\* Without dots there is nothing to resolve.
LEMMA ResolvedFacts ==
  ASSUME NEW path \in Seq(Segments)
  PROVE  Resolved(path) = path
<1> DEFINE P == {s \in Seq(Segments) : Resolved(s) = s}
<1>1. <<>> \in P
  <2>1. <<>> \in Seq(Segments)
    OBVIOUS
  <2>2. QED
    BY <2>1, ResolvedEmpty, Zenon
<1>2. ASSUME NEW s \in Seq(Segments), NEW x \in Segments, s \in P
      PROVE  Append(s, x) \in P
  <2>1. s \in Seq(STRING) /\ x \in STRING /\ x # "." /\ x # ".." /\ Append(s, x) \in Seq(Segments)
    BY DEF Segments, Dots
  <2>2. Resolved(Append(s, x)) = Further(s, x)
    BY <1>2, <2>1, ResolvedAppend
  <2>3. Further(s, x) = Append(s, x)
    BY <2>1 DEF Further
  <2>4. QED
    BY <2>1, <2>2, <2>3
<1> HIDE DEF P
<1>3. path \in P
  BY <1>1, <1>2, SeqInduction
<1>4. QED
  BY <1>3 DEF P

LEMMA SegmentFacts ==
  ASSUME NEW path \in Seq(STRING)
  PROVE  path \in Seq(Segments) <=> ToSet(path) \cap Dots = {}
<1>1. path \in Seq(Segments) => ToSet(path) \cap Dots = {}
  <2> SUFFICES ASSUME path \in Seq(Segments) PROVE ToSet(path) \cap Dots = {}
    OBVIOUS
  <2>1. \A i \in DOMAIN path : path[i] \in Segments
    OBVIOUS
  <2>2. QED
    BY <2>1 DEF ToSet, Segments
<1>2. ToSet(path) \cap Dots = {} => path \in Seq(Segments)
  <2> SUFFICES ASSUME ToSet(path) \cap Dots = {} PROVE path \in Seq(Segments)
    OBVIOUS
  <2>1. \A i \in 1..Len(path) : path[i] \in Segments
    BY DEF ToSet, Segments
  <2>2. QED
    BY <2>1
<1>3. QED
  BY <1>1, <1>2

\* The addresses of documents.
Clear == {u \in Addresses : u.path \in Seq(Segments)}

LEMMA BrowsedFacts ==
  ASSUME NEW u \in Addresses
  PROVE  Browsed(u) \in Clear /\ Browsed(u).args = u.args /\ (IsPost(Browsed(u)) <=> IsPost(u))
<1>1. u.path \in Seq(STRING) /\ u.slash \in BOOLEAN
  BY DEF Addresses
<1>2. Resolved(u.path) \in Seq(Segments)
  BY <1>1, ResolvedDef
<1>3. Resolved(u.path) \in Seq(STRING)
  BY <1>2 DEF Segments
<1> DEFINE slash == u.slash \/ (u.path # <<>> /\ Last(u.path) \in Dots)
<1>4. slash \in BOOLEAN
  BY Zenon
<1>5. Browsed(u) = [u EXCEPT !.path = Resolved(u.path), !.slash = slash]
  BY DEF Browsed
<1> HIDE DEF slash
<1>6. Browsed(u).path = Resolved(u.path) /\ Browsed(u).args = u.args /\ Browsed(u) \in Addresses
  BY <1>3, <1>4, <1>5 DEF Addresses
<1>7. QED
  BY <1>2, <1>6 DEF Clear, IsPost

\* They stay what they are.
LEMMA ClearFacts ==
  ASSUME NEW u \in Clear
  PROVE  /\ FixUrlEnd(u) \in Clear
         /\ u.slash = FALSE => FixUrlEnd(u) = u /\ Browsed(u) = u
<1>1. u \in Addresses /\ u.path \in Seq(Segments)
  BY DEF Clear
<1>2. u.path # <<>> => Last(u.path) \in Segments /\ Last(u.path) \notin Dots
  <2>1. u.path # <<>> => Last(u.path) \in Segments
    BY <1>1, FrontFacts
  <2>2. QED
    BY <2>1 DEF Segments
<1>3. FixUrlEnd(u) \in Clear
  <2>1. FixUrlEnd(u) = IF u.slash THEN [u EXCEPT !.slash = FALSE] ELSE u
    BY <1>2 DEF FixUrlEnd
  <2>2. [u EXCEPT !.slash = FALSE].path = u.path
    BY <1>1 DEF Addresses
  <2>3. FixUrlEnd(u) \in Addresses
    BY <1>1, FixFacts
  <2>4. QED
    BY <1>1, <2>1, <2>2, <2>3 DEF Clear
<1>4. ASSUME u.slash = FALSE
      PROVE  FixUrlEnd(u) = u /\ Browsed(u) = u
  <2>1. FixUrlEnd(u) = u
    BY <1>2, <1>4 DEF FixUrlEnd
  <2>2. Resolved(u.path) = u.path
    BY <1>1, ResolvedFacts
  <2>3. Browsed(u) = [u EXCEPT !.path = u.path, !.slash = FALSE]
    BY <1>2, <1>4, <2>2 DEF Browsed
  <2>4. QED
    BY <1>1, <1>4, <2>1, <2>3 DEF Addresses
<1>5. QED
  BY <1>3, <1>4

\* An injected address has the names of its own, and its Unique tells it.
LEMMA InjectFacts ==
  ASSUME NEW u \in Addresses
  PROVE  /\ InjectUrl(u) \in Addresses /\ Names(InjectUrl(u)) = Names(u)
         /\ ~IsPost(InjectUrl(u))
         /\ \A v \in Addresses : Unique(v) = Unique(u) => InjectUrl(v) = InjectUrl(u) /\ Names(v) = Names(u)
<1>1. Names(u) \subseteq Texts /\ "tag" \in Texts
  BY DEF Names, Addresses, Texts
<1> DEFINE tags == {<<n, "tag">> : n \in Names(u)}
<1>2. InjectUrl(u) \in Addresses
  <2>1. tags \in SUBSET (Texts \X Texts)
    <3>1. \A n \in Names(u) : <<n, "tag">> \in Texts \X Texts
      BY <1>1
    <3>2. QED
      BY <3>1
  <2> HIDE DEF tags
  <2>2. [u EXCEPT !.args = tags] \in Addresses
    BY <2>1 DEF Addresses
  <2>3. QED
    BY <2>2 DEF InjectUrl, tags
<1>3. InjectUrl(u).args = tags
  BY DEF InjectUrl, Addresses
<1>4. Names(InjectUrl(u)) = Names(u)
  <2>1. \A n \in Names(u) : <<n, "tag">>[1] = n
    OBVIOUS
  <2>2. {arg[1] : arg \in tags} = Names(u)
    BY <2>1
  <2>3. QED
    BY <1>3, <2>2 DEF Names
<1>5. ~IsPost(InjectUrl(u))
  BY <1>3 DEF IsPost, Marker
<1>6. ASSUME NEW v \in Addresses, Unique(v) = Unique(u)
      PROVE  InjectUrl(v) = InjectUrl(u) /\ Names(v) = Names(u)
  <2>1. v.origin = u.origin /\ v.path = u.path /\ v.slash = u.slash /\ Names(v) = Names(u)
    BY <1>6 DEF Unique
  <2>2. QED
    BY <2>1 DEF InjectUrl, Addresses
<1>7. QED
  BY <1>2, <1>4, <1>5, <1>6

\* What reBuildURL makes of a link is an address, with the link's parameters or
\* those of the crawler.
LEMMA CutFacts ==
  ASSUME NEW base \in Addresses, NEW n \in Nat, NEW u \in Addresses
  PROVE  Cut(base, n, u) \in Addresses /\ Cut(base, n, u).args = u.args
<1>1. base.origin[1] \in STRING
  BY DEF Addresses
<1>2. CASE n <= Len(base.path)
  <2>1. SubSeq(base.path, 1, Len(base.path) - n) \in Seq(STRING)
    BY <1>2 DEF Addresses
  <2>2. SubSeq(base.path, 1, Len(base.path) - n) \o u.path \in Seq(STRING)
    BY <2>1 DEF Addresses
  <2>3. Cut(base, n, u) = [u EXCEPT !.origin = base.origin,
                                    !.path = SubSeq(base.path, 1, Len(base.path) - n) \o u.path]
    BY <1>2 DEF Cut
  <2>4. QED
    BY <2>2, <2>3 DEF Addresses
<1>3. CASE ~(n <= Len(base.path)) /\ n = Len(base.path) + 1 /\ u.path # <<>>
  <2>1. Head(u.path) \in STRING /\ Tail(u.path) \in Seq(STRING)
    BY <1>3 DEF Addresses
  <2>2. <<base.origin[1], Head(u.path)>> \in Seq(STRING) /\ <<base.origin[1], Head(u.path)>> # <<>>
    BY <1>1, <2>1
  <2>3. QED
    BY <1>3, <2>1, <2>2 DEF Cut, Addresses
<1>4. CASE ~(n <= Len(base.path)) /\ ~(n = Len(base.path) + 1 /\ u.path # <<>>)
  <2>1. <<base.origin[1]>> \in Seq(STRING) /\ <<base.origin[1]>> # <<>>
    BY <1>1
  <2>2. QED
    BY <1>4, <2>1 DEF Cut, Addresses
<1>5. QED
  BY <1>2, <1>3, <1>4

\* The last position up to k with a property.
LEMMA MaxFacts ==
  ASSUME NEW k \in Int, NEW I, I \subseteq 1..k, I # {}
  PROVE  Max(I) \in I /\ \A i \in I : i <= Max(I)
<1> DEFINE T == {k - i : i \in I}
<1>1. T \subseteq Nat /\ T # {}
  <2>1. \A i \in I : i \in 1..k /\ k - i \in Nat
    OBVIOUS
  <2>2. QED
    BY <2>1
<1> HIDE DEF T
<1>2. PICK n \in T : \A t \in T : n <= t
  BY <1>1, LeastNumber
<1>3. PICK m \in I : n = k - m
  BY DEF T
<1>4. \A i \in I : n <= k - i
  BY <1>2 DEF T
<1>5. \A i \in I : m >= i
  BY <1>3, <1>4
<1>6. Max(I) \in I /\ \A i \in I : Max(I) >= i
  BY <1>5 DEF Max
<1>7. QED
  BY <1>6

LEMMA UpsFacts == ASSUME NEW h \in Links PROVE Ups(h) \in 0..3
<1> DEFINE up(n) == Len(h.url.path) >= n /\ \A i \in 1..n : h.url.path[i] = ".." /\ Followed(h, i)
           Is(n) == up(n) /\ \A m \in (n+1)..3 : ~up(m)
<1>1. Ups(h) = CHOOSE n \in 0..3 : Is(n)
  BY DEF Ups, UpsUpTo
<1>2. up(0)
  BY DEF Links, Addresses
<1> HIDE DEF up
<1>3. Is(3) \/ ~up(3)
  OBVIOUS
<1>4. Is(2) \/ up(3) \/ ~up(2)
  OBVIOUS
<1>5. Is(1) \/ up(3) \/ up(2) \/ ~up(1)
  OBVIOUS
<1>6. Is(0) \/ up(3) \/ up(2) \/ up(1)
  BY <1>2
<1>7. \E n \in 0..3 : Is(n)
  BY <1>3, <1>4, <1>5, <1>6
<1> HIDE DEF Is
<1>8. QED
  BY <1>1, <1>7

LEMMA AfterDotsFacts ==
  ASSUME NEW h \in Links
  PROVE  AfterDots(h) \in Addresses /\ AfterDots(h).args = h.url.args
<1> DEFINE p == h.url.path
           k == IF h.url.slash THEN Len(p) ELSE Len(p) - 1
           I == {i \in 1..k : p[i] \in Dots}
           m == IF I # {} THEN Max(I) ELSE 0
<1>1. h.url \in Addresses /\ p \in Seq(STRING) /\ k \in Int
  BY DEF Links, Addresses
<1>2. m \in Nat
  <2>1. I \subseteq 1..k
    OBVIOUS
  <2> HIDE DEF I, k
  <2>2. I # {} => Max(I) \in I
    BY <1>1, <2>1, MaxFacts
  <2>3. \A i \in I : i \in Nat
    BY <1>1, <2>1
  <2>4. CASE I = {}
    BY <2>4
  <2>5. CASE I # {}
    BY <2>2, <2>3, <2>5
  <2>6. QED
    BY <2>4, <2>5
<1>3. SelectLastInSubSeq(p, 1, k, LAMBDA seg : seg \in Dots) = m
  BY DEF SelectLastInSubSeq
<1>4. AfterDots(h) = [h.url EXCEPT !.path = SubSeq(p, 1 + m, Len(p))]
  BY <1>3 DEF AfterDots
<1> HIDE DEF m
<1>5. SubSeq(p, 1 + m, Len(p)) \in Seq(STRING)
  BY <1>1, <1>2
<1>6. QED
  BY <1>1, <1>4, <1>5 DEF Addresses

LEMMA ReBuildFacts ==
  ASSUME NEW doc \in Addresses, NEW self \in Addresses, NEW h \in Links
  PROVE  LET u == ReBuildURL(doc, self, h)
         IN  u \in Addresses /\ u.args \in {h.url.args, self.args}
<1> DEFINE base == [doc EXCEPT !.path = Dir(doc)]
           u == ReBuildURL(doc, self, h)
<1>1. h.url \in Addresses /\ h.kind \in {"abs", "root", "query", "rel"}
  BY DEF Links
<1>2. base \in Addresses
  <2>1. Dir(doc) \in Seq(STRING)
    BY FrontFacts DEF Dir, Addresses
  <2>2. QED
    BY <2>1 DEF Addresses
<1>3. CASE h.kind = "abs"
  BY <1>1, <1>3 DEF ReBuildURL
<1>4. CASE h.kind = "root"
  <2>1. u = [h.url EXCEPT !.origin = doc.origin]
    BY <1>4 DEF ReBuildURL
  <2> HIDE DEF u
  <2>2. QED
    BY <1>1, <2>1 DEF Addresses, u
<1>5. CASE h.kind = "query"
  <2> DEFINE v == IF self.args # {} THEN self ELSE [self EXCEPT !.args = h.url.args]
  <2>1. u = FixUrlEnd(v)
    BY <1>5 DEF ReBuildURL
  <2>2. v \in Addresses /\ v.args \in {h.url.args, self.args}
    BY <1>1 DEF Addresses
  <2> HIDE DEF u, v
  <2>3. QED
    BY <2>1, <2>2, FixFacts DEF u
<1>6. CASE h.kind = "rel"
  <2>1. \/ u = FixUrlEnd(Cut(base, Ups(h), AfterDots(h)))
        \/ u = FixUrlEnd(Cut(base, 0, h.url))
    BY <1>6 DEF ReBuildURL
  <2>2. Ups(h) \in Nat /\ AfterDots(h) \in Addresses /\ AfterDots(h).args = h.url.args
    BY UpsFacts, AfterDotsFacts
  <2> HIDE DEF u, base
  <2>3. /\ Cut(base, Ups(h), AfterDots(h)) \in Addresses
        /\ Cut(base, Ups(h), AfterDots(h)).args = h.url.args
        /\ Cut(base, 0, h.url) \in Addresses /\ Cut(base, 0, h.url).args = h.url.args
    BY <1>1, <1>2, <2>2, CutFacts
  <2>4. QED
    BY <2>1, <2>3, FixFacts DEF u
<1>7. QED
  BY <1>1, <1>3, <1>4, <1>5, <1>6

-----------------------------------------------------------------------------
(* The address of a link, for a browser.                                   *)

\* What fixURL and fixUrlEnd cut off an address matters to no browser, except for
\* a ".." at its end.
LEMMA FixResource ==
  ASSUME NEW u \in Addresses
  PROVE  /\ Resource(FixURL(u)) = Resource(u)
         /\ u.slash \/ u.path = <<>> \/ Last(u.path) # ".." => Resource(FixUrlEnd(u)) = Resource(u)
<1>1. u.path \in Seq(STRING) /\ u.slash \in BOOLEAN
  BY DEF Addresses
<1>2. ASSUME u.path # <<>>, Last(u.path) = "."
      PROVE  Resolved(Front(u.path)) = Resolved(u.path) /\ Front(u.path) \in Seq(STRING)
  <2>1. Front(u.path) \in Seq(STRING) /\ u.path = Append(Front(u.path), ".") /\ "." \in STRING
    BY <1>1, <1>2, FrontFacts
  <2>2. Resolved(Append(Front(u.path), ".")) = Further(Resolved(Front(u.path)), ".")
    BY <2>1, ResolvedAppend
  <2>3. QED
    BY <2>1, <2>2 DEF Further
<1>3. ASSUME NEW v, NEW path, v = [u EXCEPT !.slash = FALSE, !.path = path], Resolved(path) = Resolved(u.path)
      PROVE  Resource(v) = Resource(u)
  BY <1>3 DEF Resource, Addresses
<1>4. ASSUME NEW v, NEW path, v = [u EXCEPT !.path = path], Resolved(path) = Resolved(u.path)
      PROVE  Resource(v) = Resource(u)
  BY <1>4 DEF Resource, Addresses
<1>5. Resource(FixURL(u)) = Resource(u)
  <2> DEFINE path == IF u.path # <<>> /\ Last(u.path) = "." THEN Front(u.path) ELSE u.path
  <2>1. Resolved(path) = Resolved(u.path)
    BY <1>2
  <2>2. FixURL(u) = u \/ FixURL(u) = [u EXCEPT !.slash = FALSE, !.path = path]
    BY DEF FixURL, Addresses
  <2> HIDE DEF path
  <2>3. QED
    BY <1>3, <2>1, <2>2
<1>6. ASSUME u.slash \/ u.path = <<>> \/ Last(u.path) # ".."
      PROVE  Resource(FixUrlEnd(u)) = Resource(u)
  <2>1. CASE u.slash
    <3>1. FixUrlEnd(u) = [u EXCEPT !.slash = FALSE, !.path = u.path]
      BY <2>1 DEF FixUrlEnd, Addresses
    <3>2. QED
      BY <1>3, <3>1
  <2>2. CASE ~u.slash /\ u.path # <<>> /\ Last(u.path) = "."
    <3>1. FixUrlEnd(u) = [u EXCEPT !.path = Front(u.path)]
      BY <2>2 DEF FixUrlEnd, Dots
    <3>2. QED
      BY <1>2, <1>4, <2>2, <3>1
  <2>3. CASE ~u.slash /\ (u.path = <<>> \/ Last(u.path) # ".")
    <3>1. FixUrlEnd(u) = u
      BY <1>6, <2>3 DEF FixUrlEnd, Dots
    <3>2. QED
      BY <3>1
  <2>4. QED
    BY <2>1, <2>2, <2>3
<1>7. QED
  BY <1>5, <1>6

LEMMA BehindFacts ==
  ASSUME NEW A, NEW s \in Seq(A), NEW t \in Seq(A), NEW x \in A
  PROVE  s \o Append(t, x) = Append(s \o t, x) /\ s \o t \in Seq(A) /\ Append(t, x) \in Seq(A)
<1>1. s \o t \in Seq(A) /\ <<x>> \in Seq(A) /\ Append(t, x) \in Seq(A)
  OBVIOUS
<1>2. Append(t, x) = t \o <<x>> /\ Append(s \o t, x) = (s \o t) \o <<x>>
  BY <1>1, AppendIsConcat
<1>3. QED
  BY <1>1, <1>2, ConcatAssociative

LEMMA TextBehind ==
  \A t, s \in Seq(STRING), x \in STRING : s \o Append(t, x) = Append(s \o t, x)
<1>1. \A A : \A t, s \in Seq(A), x \in A : s \o Append(t, x) = Append(s \o t, x)
  BY BehindFacts
<1>2. QED
  BY <1>1, Zenon

\* Of the segments in front only counts what they are resolved to.
LEMMA ResolvedBehind ==
  ASSUME NEW a \in Seq(STRING), NEW b \in Seq(STRING), Resolved(a) = Resolved(b), NEW t \in Seq(STRING)
  PROVE  Resolved(a \o t) = Resolved(b \o t)
<1> DEFINE P == {s \in Seq(STRING) : Resolved(a \o s) = Resolved(b \o s)}
<1>1. <<>> \in P
  <2>1. a \o <<>> = a /\ b \o <<>> = b /\ <<>> \in Seq(STRING)
    OBVIOUS
  <2>2. QED
    BY <2>1
<1>2. ASSUME NEW s \in Seq(STRING), NEW x \in STRING, s \in P
      PROVE  Append(s, x) \in P
  <2>1. ASSUME NEW c \in Seq(STRING)
        PROVE  c \o Append(s, x) = Append(c \o s, x) /\ c \o s \in Seq(STRING)
    <3>1. c \o s \in Seq(STRING)
      OBVIOUS
    <3>2. c \o Append(s, x) = Append(c \o s, x)
      BY TextBehind, Zenon
    <3>3. QED
      BY <3>1, <3>2
  <2>2. Append(s, x) \in Seq(STRING)
    BY BehindFacts
  <2>3. /\ Resolved(Append(a \o s, x)) = Further(Resolved(a \o s), x)
        /\ Resolved(Append(b \o s, x)) = Further(Resolved(b \o s), x)
    BY <2>1, ResolvedAppend
  <2>4. QED
    BY <1>2, <2>1, <2>2, <2>3
<1> HIDE DEF P
<1>3. t \in P
  BY <1>1, <1>2, SeqInduction
<1>4. QED
  BY <1>3 DEF P

\* The first k segments of a link p can be resolved first.
LEMMA ResolvedFirst ==
  ASSUME NEW a \in Seq(STRING), NEW p \in Seq(STRING), NEW k \in 0..Len(p),
         NEW b \in Seq(STRING), Resolved(a \o SubSeq(p, 1, k)) = Resolved(b)
  PROVE  Resolved(a \o p) = Resolved(b \o SubSeq(p, k + 1, Len(p)))
<1> DEFINE s == SubSeq(p, 1, k)
           t == SubSeq(p, k + 1, Len(p))
<1>1. s \in Seq(STRING) /\ t \in Seq(STRING) /\ a \o s \in Seq(STRING)
  OBVIOUS
<1>2. p = s \o t
  <2>1. 1 \in 1..(Len(p) + 1) /\ k \in (1-1)..Len(p) /\ Len(p) \in k..Len(p)
    OBVIOUS
  <2>2. SubSeq(p, 1, k) \o SubSeq(p, k + 1, Len(p)) = SubSeq(p, 1, Len(p))
    BY <2>1, ConcatAdjacentSubSeq
  <2>3. SubSeq(p, 1, Len(p)) = p
    OBVIOUS
  <2>4. QED
    BY <2>2, <2>3
<1> HIDE DEF s, t
<1>3. a \o p = (a \o s) \o t
  BY <1>1, <1>2
<1>4. QED
  <2>1. Resolved(a \o s) = Resolved(b)
    BY DEF s
  <2>2. Resolved((a \o s) \o t) = Resolved(b \o t)
    BY <1>1, <2>1, ResolvedBehind
  <2>3. QED
    BY <1>3, <2>2 DEF t

\* As many ".." lead as many directories up.
LEMMA ResolvedUps ==
  ASSUME NEW dir \in Seq(Segments), NEW p \in Seq(STRING), NEW k \in 0..Len(p), k <= Len(dir),
         \A i \in 1..k : p[i] = ".."
  PROVE  Resolved(dir \o SubSeq(p, 1, k)) = SubSeq(dir, 1, Len(dir) - k)
<1> DEFINE left(i) == SubSeq(dir, 1, Len(dir) - i)
           S == {i \in 0..k : Resolved(dir \o SubSeq(p, 1, i)) = left(i)}
<1>1. dir \in Seq(STRING)
  BY DEF Segments
<1>2. 0 \in S
  <2>1. dir \o SubSeq(p, 1, 0) = dir /\ left(0) = dir /\ 0 \in 0..k
    OBVIOUS
  <2>2. Resolved(dir) = dir
    BY ResolvedFacts
  <2>3. QED
    BY <2>1, <2>2
<1>3. ASSUME NEW i \in 0..(k-1), i \in S
      PROVE  i + 1 \in S
  <2>1. /\ i \in Nat /\ i + 1 \in 1..k /\ i + 1 \in 0..k /\ i + 1 \in 1..Len(p) /\ i < Len(dir)
        /\ SubSeq(p, 1, i) \in Seq(STRING) /\ p[i+1] = ".."
    OBVIOUS
  <2>2. SubSeq(p, 1, i + 1) = Append(SubSeq(p, 1, i), p[i+1])
    BY <2>1
  <2>3. /\ dir \o SubSeq(p, 1, i + 1) = Append(dir \o SubSeq(p, 1, i), "..")
        /\ dir \o SubSeq(p, 1, i) \in Seq(STRING) /\ ".." \in STRING
    BY <1>1, <2>1, <2>2, BehindFacts
  <2>4. Resolved(dir \o SubSeq(p, 1, i + 1)) = Further(left(i), "..")
    BY <1>3, <2>3, ResolvedAppend
  <2>5. left(i) # <<>> /\ Front(left(i)) = left(i + 1)
    <3>1. Len(left(i)) = Len(dir) - i /\ left(i) \in Seq(Segments)
      BY <2>1
    <3>2. Front(left(i)) = SubSeq(left(i), 1, Len(dir) - (i + 1))
      BY <3>1 DEF Front
    <3>3. SubSeq(left(i), 1, Len(dir) - (i + 1)) = left(i + 1)
      BY <2>1, <3>1
    <3>4. left(i) # <<>>
      <4>1. Len(left(i)) > 0
        BY <2>1, <3>1
      <4> HIDE DEF left
      <4>2. QED
        BY <4>1
    <3> HIDE DEF left
    <3>5. QED
      BY <3>2, <3>3, <3>4
  <2>6. Further(left(i), "..") = left(i + 1)
    BY <2>5 DEF Further
  <2>7. QED
    BY <2>1, <2>4, <2>6
<1> HIDE DEF S
<1>4. k \in S
  <2>1. k \in Nat /\ k \in 0..k
    OBVIOUS
  <2>2. QED
    BY <1>2, <1>3, <2>1, Induction
<1>5. QED
  BY <1>4 DEF S

\* What is said of the links that are not awkward: k of their segments are ".." and
\* lead up, and none of the others is a dot behind dots.
Plainly(p, k, doc, h) ==
  /\ \A i \in 1..k : p[i] = ".."
  /\ k < Len(p) => p[k+1] # ".."
  /\ k <= 3 /\ k <= Len(Dir(doc))
  /\ \A i \in 1..Len(p) : i > 1 /\ i > k /\ p[1] \in Dots => p[i] \notin Dots
  /\ h.url.slash \/ p = <<>> \/ Last(p) \notin Dots

LEMMA EndFacts ==
  ASSUME NEW A, NEW s \in Seq(A), NEW e
  PROVE  /\ Len(s) \in Nat /\ Len(s \o <<e>>) = Len(s) + 1 /\ (s \o <<e>>)[Len(s) + 1] = e
         /\ \A i \in 1..Len(s) : (s \o <<e>>)[i] = s[i]
<1> DEFINE T == A \cup {e}
<1>1. s \in Seq(T) /\ <<e>> \in Seq(T) /\ Len(<<e>>) = 1 /\ <<e>>[1] = e /\ Len(s) \in Nat
  OBVIOUS
<1> HIDE DEF T
<1>2. /\ Len(s \o <<e>>) = Len(s) + Len(<<e>>)
      /\ \A i \in 1..(Len(s) + Len(<<e>>)) :
           (s \o <<e>>)[i] = IF i <= Len(s) THEN s[i] ELSE <<e>>[i - Len(s)]
  BY <1>1, ConcatProperties
<1>3. QED
  BY <1>1, <1>2

LEMMA AwkwardFacts ==
  ASSUME NEW doc, NEW self, NEW h \in Links, h.kind = "rel", ~Awkward(doc, self, h)
  PROVE  \E k \in 0..Len(h.url.path) : Plainly(h.url.path, k, doc, h)
<1> DEFINE p == h.url.path
           q == p \o <<"end">>
           I == {i \in 1..Len(q) : q[i] # ".."}
<1>1. p \in Seq(STRING)
  BY DEF Links, Addresses
<1>2. Len(p) \in Nat /\ Len(q) = Len(p) + 1 /\ q[Len(p) + 1] = "end" /\ \A i \in 1..Len(p) : q[i] = p[i]
  <2> HIDE DEF p
  <2>1. QED
    BY <1>1, EndFacts
<1> HIDE DEF q, p
<1>3. I \subseteq Nat /\ Len(p) + 1 \in I
  BY <1>2
<1>4. SelectInSeq(q, LAMBDA seg : seg # "..") = Min(I)
  BY <1>3 DEF SelectInSeq
<1> HIDE DEF I
<1>5. Min(I) \in I /\ \A i \in I : Min(I) <= i
  <2>1. \E n \in I : \A i \in I : n <= i
    BY <1>3, LeastNumber
  <2>2. QED
    BY <2>1 DEF Min
<1> DEFINE k == Min(I) - 1
<1>6. /\ k \in 0..Len(p)
      /\ \A i \in 1..k : p[i] = ".."
      /\ k < Len(p) => p[k+1] # ".."
  <2> DEFINE m == Min(I)
  <2>1. m \in 1..(Len(p) + 1) /\ q[m] # ".." /\ \A i \in 1..(Len(p) + 1) : i < m => q[i] = ".."
    <3>1. m \in I /\ \A i \in I : m <= i
      BY <1>5
    <3> HIDE DEF m
    <3>2. QED
      BY <1>2, <3>1 DEF I
  <2> HIDE DEF m, p
  <2>2. m - 1 \in 0..Len(p)
    BY <1>2, <2>1
  <2>3. \A i \in 1..(m-1) : p[i] = ".."
    BY <1>2, <2>1
  <2>4. m - 1 < Len(p) => p[(m-1)+1] # ".."
    BY <1>2, <2>1
  <2>5. QED
    BY <2>2, <2>3, <2>4 DEF m
<1>7. /\ ~(k > 3) /\ ~(k > Len(Dir(doc)))
      /\ ~\E i \in DOMAIN p : i > 1 /\ i > k /\ p[i] \in Dots /\ p[1] \in Dots
      /\ ~(~h.url.slash /\ p # <<>> /\ Last(p) \in Dots)
  BY <1>4 DEF Awkward, q, p
<1> HIDE DEF k
<1>8. Plainly(p, k, doc, h)
  BY <1>1, <1>6, <1>7 DEF Plainly
<1>9. QED
  BY <1>6, <1>8 DEF p

\* reBuildURL counts the segments that lead up.
LEMMA UpsCounted ==
  ASSUME NEW h \in Links, NEW k \in 0..Len(h.url.path), k <= 3,
         \A i \in 1..k : h.url.path[i] = "..",
         k < Len(h.url.path) => h.url.path[k+1] # "..",
         k > 0 => k < Len(h.url.path) \/ h.url.slash
  PROVE  Ups(h) = k
<1> DEFINE p == h.url.path
           up(n) == Len(p) >= n /\ \A i \in 1..n : p[i] = ".." /\ Followed(h, i)
           Is(n) == up(n) /\ \A m \in (n+1)..3 : ~up(m)
<1>1. Ups(h) = CHOOSE n \in 0..3 : Is(n)
  BY DEF Ups, UpsUpTo
<1>2. p \in Seq(STRING) /\ Len(p) \in Nat
  BY DEF Links, Addresses
<1>3. up(k)
  BY <1>2 DEF Followed
<1>4. \A n \in (k+1)..3 : ~up(n)
  BY <1>2
<1> HIDE DEF up
<1>5. k \in 0..3 /\ Is(k)
  BY <1>3, <1>4
<1>6. \A n \in 0..3 : Is(n) => n = k
  BY <1>3, <1>4
<1> HIDE DEF Is
<1>7. QED
  BY <1>1, <1>5, <1>6

\* ... and drops them and a leading ".".
LEMMA AfterDotsIs ==
  ASSUME NEW h \in Links, NEW k \in 1..Len(h.url.path), h.url.path[k] \in Dots,
         \A i \in 1..Len(h.url.path) : i > k => h.url.path[i] \notin Dots,
         k < Len(h.url.path) \/ h.url.slash
  PROVE  AfterDots(h) = [h.url EXCEPT !.path = SubSeq(h.url.path, k + 1, Len(h.url.path))]
<1> DEFINE p == h.url.path
           n == IF h.url.slash THEN Len(p) ELSE Len(p) - 1
           I == {i \in 1..n : p[i] \in Dots}
<1>1. p \in Seq(STRING) /\ n \in Int /\ k \in I /\ I \subseteq 1..n /\ (\A i \in I : i <= k)
  BY DEF Links, Addresses
<1>2. SelectLastInSubSeq(p, 1, n, LAMBDA seg : seg \in Dots) = Max(I)
  BY <1>1 DEF SelectLastInSubSeq
<1> HIDE DEF I, n
<1>3. Max(I) \in I /\ \A i \in I : i <= Max(I)
  BY <1>1, MaxFacts
<1>4. Max(I) = k
  <2>1. PICK m \in I : m = Max(I) /\ \A i \in I : i <= m
    BY <1>3
  <2>2. m \in Int /\ m <= k /\ k <= m
    BY <1>1, <2>1
  <2>3. QED
    BY <2>1, <2>2
<1>5. SubSeq(p, 1 + Max(I), Len(p)) = SubSeq(p, k + 1, Len(p))
  BY <1>4
<1>6. QED
  BY <1>2, <1>5 DEF AfterDots, n

LEMMA LastFacts ==
  ASSUME NEW A, NEW s \in Seq(A), NEW t \in Seq(A), t # <<>>
  PROVE  Last(s \o t) = Last(t)
  BY ConcatProperties DEF Last

\* A link below or beside the document, and up to three directories up, is
\* followed as a browser does.
LEMMA RelativeLink ==
  ASSUME NEW doc \in Clear, NEW self, NEW h \in Links, h.kind = "rel", ~Awkward(doc, self, h)
  PROVE  Resource(ReBuildURL(doc, self, h)) = Target(doc, h)
<1> DEFINE p == h.url.path
           dir == Dir(doc)
           base == [doc EXCEPT !.path = dir]
<1>1. /\ doc \in Addresses /\ h.url \in Addresses /\ p \in Seq(STRING) /\ Len(p) \in Nat
      /\ h.url.slash \in BOOLEAN
  BY DEF Clear, Links, Addresses
<1>2. /\ dir \in Seq(Segments) /\ dir \in Seq(STRING) /\ Len(dir) \in Nat
      /\ base.path = dir /\ base.origin = doc.origin
  <2>1. doc.path # <<>> => Front(doc.path) \in Seq(Segments)
    BY FrontFacts DEF Clear
  <2>2. dir \in Seq(Segments)
    BY <2>1 DEF Dir, Clear
  <2>3. QED
    BY <1>1, <2>2 DEF Segments, Addresses
<1>3. PICK k \in 0..Len(p) : Plainly(p, k, doc, h)
  BY AwkwardFacts
<1>4. k > 0 => k < Len(p) \/ h.url.slash
  BY <1>1, <1>3 DEF Plainly, Last, Dots
<1>5. Ups(h) = k
  BY <1>3, <1>4, UpsCounted DEF Plainly
<1> DEFINE at(path) == [h.url EXCEPT !.origin = doc.origin, !.path = path]
<1>6. Target(doc, h) = Resource(at(dir \o p))
  BY DEF Target
\* What is left to show of the address that is built.
<1>7. ASSUME NEW path \in Seq(STRING), Resolved(path) = Resolved(dir \o p),
             ReBuildURL(doc, self, h) = FixUrlEnd(at(path)),
             h.url.slash \/ path = <<>> \/ Last(path) # ".."
      PROVE  Resource(ReBuildURL(doc, self, h)) = Target(doc, h)
  <2>1. /\ at(path) \in Addresses /\ at(path).path = path /\ at(path).slash = h.url.slash
        /\ Resource(at(path)) = Resource(at(dir \o p))
    BY <1>1, <1>7 DEF Addresses, Resource
  <2>2. Resource(FixUrlEnd(at(path))) = Resource(at(path))
    BY <1>7, <2>1, FixResource
  <2>3. QED
    BY <1>6, <1>7, <2>1, <2>2
<1>8. ASSUME NEW n \in 0..Len(dir), NEW t \in Seq(STRING)
      PROVE  Cut(base, n, [h.url EXCEPT !.path = t]) = at(SubSeq(dir, 1, Len(dir) - n) \o t)
  <2>1. [h.url EXCEPT !.path = t].path = t /\ n <= Len(base.path)
    BY <1>1, <1>2 DEF Addresses
  <2>2. QED
    BY <1>1, <1>2, <2>1 DEF Cut, Addresses
\* What follows the dots at the beginning has none.
<1>9. ASSUME NEW n \in 1..Len(p), \A i \in 1..Len(p) : i > n => p[i] \notin Dots, p[n] \in Dots,
             NEW ups \in 0..Len(dir), Resolved(dir \o SubSeq(p, 1, n)) = SubSeq(dir, 1, Len(dir) - ups),
             ReBuildURL(doc, self, h) = FixUrlEnd(Cut(base, ups, AfterDots(h)))
      PROVE  Resource(ReBuildURL(doc, self, h)) = Target(doc, h)
  <2> DEFINE rest == SubSeq(p, n + 1, Len(p))
             left == SubSeq(dir, 1, Len(dir) - ups)
  <2>1. rest \in Seq(Segments) /\ rest \in Seq(STRING)
    <3>1. \A i \in 1..Len(p) : i > n => p[i] \in Segments
      BY <1>1, <1>9 DEF Segments
    <3>2. rest \in Seq(Segments)
      BY <1>1, <3>1
    <3>3. QED
      BY <1>1, <3>2
  <2>2. left \in Seq(Segments) /\ left \in Seq(STRING) /\ Resolved(left) = left
    <3>1. left \in Seq(Segments) /\ left \in Seq(STRING)
      BY <1>2
    <3>2. QED
      BY <3>1, ResolvedFacts
  <2>3. n < Len(p) \/ h.url.slash
    BY <1>1, <1>3, <1>9 DEF Plainly, Last
  <2>4. AfterDots(h) = [h.url EXCEPT !.path = rest]
    BY <1>9, <2>3, AfterDotsIs
  <2> HIDE DEF rest, left
  <2>5. ReBuildURL(doc, self, h) = FixUrlEnd(at(left \o rest))
    BY <1>8, <1>9, <2>1, <2>4 DEF left
  <2>6. Resolved(dir \o p) = Resolved(left \o rest)
    <3>1. Resolved(dir \o SubSeq(p, 1, n)) = Resolved(left)
      BY <1>9, <2>2 DEF left
    <3>2. n \in 0..Len(p) /\ p \in Seq(STRING) /\ dir \in Seq(STRING)
      BY <1>1, <1>2
    <3> HIDE DEF p, dir
    <3>3. Resolved(dir \o p) = Resolved(left \o SubSeq(p, n + 1, Len(p)))
      BY <2>2, <3>1, <3>2, ResolvedFirst
    <3>4. QED
      BY <3>3 DEF rest
  <2>7. left \o rest \in Seq(Segments) /\ left \o rest \in Seq(STRING)
    BY <2>1, <2>2
  <2>8. left \o rest = <<>> \/ Last(left \o rest) # ".."
    <3> DEFINE path == left \o rest
    <3>1. path # <<>> => Last(path) \in Segments
      BY <2>7, FrontFacts
    <3> HIDE DEF path
    <3>2. QED
      BY <3>1 DEF Segments, Dots, path
  <2>9. QED
    BY <1>7, <2>5, <2>6, <2>7, <2>8
<1>10. CASE p = <<>> \/ p[1] \notin Dots
  <2>1. k = 0 /\ ~(p # <<>> /\ p[1] = "." /\ Followed(h, 1))
    BY <1>1, <1>3, <1>10 DEF Plainly, Dots
  <2>2. ReBuildURL(doc, self, h) = FixUrlEnd(Cut(base, 0, h.url))
    BY <1>5, <2>1 DEF ReBuildURL
  <2>3. h.url = [h.url EXCEPT !.path = p] /\ SubSeq(dir, 1, Len(dir) - 0) = dir /\ 0 \in 0..Len(dir)
    BY <1>1, <1>2 DEF Addresses
  <2>4. Cut(base, 0, h.url) = at(dir \o p)
    <3>1. Cut(base, 0, [h.url EXCEPT !.path = p]) = at(SubSeq(dir, 1, Len(dir) - 0) \o p)
      BY <1>1, <1>8, <2>3
    <3>2. QED
      BY <2>3, <3>1, Zenon
  <2>5. dir \o p \in Seq(STRING)
    BY <1>1, <1>2
  <2>6. h.url.slash \/ dir \o p = <<>> \/ Last(dir \o p) # ".."
    <3>1. CASE p = <<>>
      <4>1. dir \o p = dir
        BY <1>2, <3>1
      <4>2. dir # <<>> => Last(dir) \in Segments
        BY <1>2, FrontFacts
      <4> HIDE DEF dir, p
      <4>3. QED
        BY <4>1, <4>2 DEF Segments, Dots
    <3>2. CASE p # <<>>
      <4>1. Last(dir \o p) = Last(p)
        BY <1>1, <1>2, <3>2, LastFacts
      <4>2. h.url.slash \/ Last(p) \notin Dots
        BY <1>3, <3>2 DEF Plainly
      <4>3. QED
        BY <4>1, <4>2 DEF Dots
    <3>3. QED
      BY <3>1, <3>2
  <2>7. QED
    BY <1>7, <2>2, <2>4, <2>5, <2>6
<1>11. CASE p # <<>> /\ p[1] = "."
  <2>1. k = 0 /\ 1 \in 1..Len(p) /\ p[1] \in Dots /\ \A i \in 1..Len(p) : i > 1 => p[i] \notin Dots
    BY <1>1, <1>3, <1>11 DEF Plainly, Dots
  <2>2. Followed(h, 1)
    BY <1>1, <1>3, <2>1 DEF Plainly, Last, Followed
  <2>3. ReBuildURL(doc, self, h) = FixUrlEnd(Cut(base, 0, AfterDots(h)))
    BY <1>5, <1>11, <2>1, <2>2 DEF ReBuildURL
  <2>4. Resolved(dir \o SubSeq(p, 1, 1)) = SubSeq(dir, 1, Len(dir) - 0) /\ 0 \in 0..Len(dir)
    <3>1. SubSeq(p, 1, 1) = Append(<<>>, p[1]) /\ p[1] \in STRING
      <4>1. SubSeq(p, 1, 0) = <<>> /\ p[1] \in STRING
        BY <1>1, <2>1
      <4>2. SubSeq(p, 1, 1) = Append(SubSeq(p, 1, 0), p[1])
        BY <1>1, <2>1
      <4> HIDE DEF p
      <4>3. QED
        BY <4>1, <4>2, Zenon
    <3>2. dir \o Append(<<>>, p[1]) = Append(dir, p[1])
      <4>1. dir \o <<>> = dir /\ <<>> \in Seq(STRING)
        BY <1>2
      <4> HIDE DEF dir, p
      <4>2. dir \o Append(<<>>, p[1]) = Append(dir \o <<>>, p[1])
        BY <1>2, <3>1, <4>1, TextBehind
      <4>3. QED
        BY <4>1, <4>2, Zenon
    <3>3. Resolved(Append(dir, p[1])) = Further(Resolved(dir), p[1])
      BY <1>2, <3>1, ResolvedAppend
    <3>4. Further(Resolved(dir), p[1]) = Resolved(dir)
      BY <1>11 DEF Further
    <3>5. Resolved(dir) = dir /\ SubSeq(dir, 1, Len(dir) - 0) = dir /\ 0 \in 0..Len(dir)
      BY <1>2, ResolvedFacts
    <3> HIDE DEF dir, p
    <3>6. QED
      BY <3>1, <3>2, <3>3, <3>4, <3>5
  <2>5. QED
    BY <1>9, <2>1, <2>3, <2>4
<1>12. CASE p # <<>> /\ p[1] = ".."
  <2>1. k \in 1..Len(p) /\ p[k] \in Dots /\ \A i \in 1..Len(p) : i > k => p[i] \notin Dots
    BY <1>1, <1>3, <1>12 DEF Plainly, Dots
  <2>2. ReBuildURL(doc, self, h) = FixUrlEnd(Cut(base, k, AfterDots(h)))
    BY <1>5, <2>1 DEF ReBuildURL
  <2>3. k \in 0..Len(dir) /\ Resolved(dir \o SubSeq(p, 1, k)) = SubSeq(dir, 1, Len(dir) - k)
    BY <1>1, <1>2, <1>3, ResolvedUps DEF Plainly
  <2>4. QED
    BY <1>9, <2>1, <2>2, <2>3
<1>13. QED
  BY <1>10, <1>11, <1>12 DEF Dots

\* The address a link is crawled by is the one a browser would follow.
LEMMA LinkResolved ==
  ASSUME NEW doc \in Clear, NEW self \in Addresses, NEW h \in Links, ~Awkward(doc, self, h)
  PROVE  Resource(FixURL(ReBuildURL(doc, self, h))) = Target(doc, h)
<1> DEFINE u == ReBuildURL(doc, self, h)
<1>1. doc \in Addresses /\ h.url \in Addresses /\ h.kind \in {"abs", "root", "query", "rel"}
  BY DEF Clear, Links
<1>2. Resource(FixURL(u)) = Resource(u)
  BY <1>1, ReBuildFacts, FixResource
<1>3. CASE h.kind = "abs"
  BY <1>2, <1>3 DEF ReBuildURL, Target
<1>4. CASE h.kind = "root"
  BY <1>2, <1>4 DEF ReBuildURL, Target
<1>5. CASE h.kind = "query"
  <2> DEFINE v == [self EXCEPT !.args = h.url.args]
  <2>1. /\ self.args = {} /\ Resource(self) = Resource([doc EXCEPT !.args = {}])
        /\ self.slash \/ self.path = <<>> \/ Last(self.path) # ".."
    BY <1>5 DEF Awkward
  <2>2. u = FixUrlEnd(v) /\ Target(doc, h) = Resource([doc EXCEPT !.args = h.url.args])
    BY <1>5, <2>1 DEF ReBuildURL, Target
  <2>3. v \in Addresses /\ v.slash = self.slash /\ v.path = self.path /\ v.origin = self.origin
        /\ v.args = h.url.args
    BY <1>1 DEF Addresses
  <2>4. doc.origin = self.origin /\ Resolved(doc.path) = Resolved(self.path)
    BY <1>1, <2>1 DEF Resource, Addresses
  <2>5. Resource([doc EXCEPT !.args = h.url.args]) = Resource(v)
    BY <1>1, <2>3, <2>4 DEF Resource, Addresses
  <2> HIDE DEF u, v
  <2>6. Resource(FixUrlEnd(v)) = Resource(v)
    BY <2>1, <2>3, FixResource
  <2>7. QED
    BY <1>2, <2>2, <2>5, <2>6 DEF u
<1>6. CASE h.kind = "rel"
  BY <1>2, <1>6, RelativeLink
<1>7. QED
  BY <1>1, <1>3, <1>4, <1>5, <1>6

-----------------------------------------------------------------------------
(* What the actions do to the pages.                                       *)

\* ps is pages with another st, doc and next of p (and perhaps a timer and moves).
Becomes(p, ps, st, doc, next) ==
  /\ p \in DOMAIN pages /\ DOMAIN ps = DOMAIN pages
  /\ \A i \in DOMAIN pages : i # p => ps[i] = pages[i]
  /\ ps[p].url = pages[p].url /\ ps[p].type = pages[p].type
  /\ ps[p].st = st /\ ps[p].doc = doc /\ ps[p].next = next

Fields == {"url", "type", "st", "doc", "next", "timer", "moves"}

LEMMA BecomesFacts ==
  ASSUME CrawlInv, NEW p \in DOMAIN pages, NEW new, NEW ps, ps = [pages EXCEPT ![p] = new],
         new.url = pages[p].url, new.type = pages[p].type
  PROVE  Becomes(p, ps, new.st, new.doc, new.next)
  BY DEF Becomes

LEMMA FieldFacts ==
  ASSUME CrawlInv, NEW p \in DOMAIN pages
  PROVE  DOMAIN pages[p] = Fields /\ IsPage(pages[p]) /\ ArePages(pages)
  BY DEF CrawlInv, Typed, ArePages, IsPage, Fields

\* A page with nothing but another st.
LEMMA SetEffect ==
  ASSUME CrawlInv, NEW p \in DOMAIN pages, NEW st
  PROVE  Becomes(p, Set(p, st), st, pages[p].doc, pages[p].next)
<1> DEFINE new == [pages[p] EXCEPT !.st = st]
<1>1. Set(p, st) = [pages EXCEPT ![p] = new]
  BY DEF Set
<1>2. new.url = pages[p].url /\ new.type = pages[p].type /\ new.st = st
      /\ new.doc = pages[p].doc /\ new.next = pages[p].next
  BY FieldFacts DEF Fields
<1> HIDE DEF new
<1>3. QED
  BY <1>1, <1>2, BecomesFacts

LEMMA FollowEffect ==
  ASSUME CrawlInv, NEW p \in DOMAIN pages, FollowNavigation(p)
  PROVE  \E ps :
           /\ Becomes(p, ps, "loading", pages[p].doc, pages[p].next) /\ ArePages(ps)
           /\ \/ pages' = ps /\ UNCHANGED lists
              \/ NewCrawler(ps, FixURL(Asked(p)), "normal")
<1> DEFINE new == [pages[p] EXCEPT !.st = "loading"]
           ps == Set(p, "loading")
<1>1. IsPage(pages[p]) /\ pages[p].type = "normal" /\ ArePages(pages)
  BY FieldFacts DEF FollowNavigation, Asking, IsPage
<1>2. IsPage(new)
  BY <1>1, StateFacts
<1>3. ps = [pages EXCEPT ![p] = new]
  BY DEF Set
<1> HIDE DEF new
<1>4. ArePages(ps)
  BY <1>1, <1>2, <1>3, ChangeFacts
<1>5. Becomes(p, ps, "loading", pages[p].doc, pages[p].next)
  BY SetEffect
<1>6. \/ pages' = ps /\ UNCHANGED lists
      \/ NewCrawler(ps, FixURL(Asked(p)), "normal")
  BY DEF FollowNavigation
<1> HIDE DEF ps
<1>7. QED
  BY <1>4, <1>5, <1>6

LEMMA RedirectEffect ==
  ASSUME CrawlInv, NEW p \in DOMAIN pages, Redirect(p)
  PROVE  /\ pages[p].next.path \in DOMAIN web.redirect
         /\ Becomes(p, pages', IF pages[p].type = "login" THEN "loading" ELSE "asking",
                    pages[p].doc, Browsed(web.redirect[pages[p].next.path]))
<1> DEFINE page == pages[p]
           st == IF page.type = "login" THEN "loading" ELSE "asking"
           next == Browsed(web.redirect[page.next.path])
           new == [[page EXCEPT !.next = next] EXCEPT !.st = st]
<1>1. pages' = [pages EXCEPT ![p] = new]
  BY DEF Redirect
<1>2. new.url = page.url /\ new.type = page.type /\ new.st = st
      /\ new.doc = page.doc /\ new.next = next
  BY FieldFacts DEF Fields
<1> HIDE DEF new
<1>3. Becomes(p, pages', new.st, new.doc, new.next)
  BY <1>1, <1>2, BecomesFacts
<1>4. pages[p].next.path \in DOMAIN web.redirect
  BY DEF Redirect, Redirects
<1>5. QED
  BY <1>2, <1>3, <1>4

LEMMA InitializedEffect ==
  ASSUME CrawlInv, NEW p \in DOMAIN pages, Initialized(p)
  PROVE  \E st \in {"ready", "closed"} : Becomes(p, pages', st, pages[p].next, pages[p].next)
<1> DEFINE page == pages[p]
           new(st) == [[page EXCEPT !.st = st] EXCEPT !.doc = page.next]
<1>1. PICK st \in {"ready", "closed"} : pages' = [pages EXCEPT ![p] = new(st)]
  BY DEF Initialized
<1>2. new(st).url = page.url /\ new(st).type = page.type /\ new(st).st = st
      /\ new(st).doc = page.next /\ new(st).next = page.next
  BY FieldFacts DEF Fields
<1> HIDE DEF new
<1>3. Becomes(p, pages', new(st).st, new(st).doc, new(st).next)
  BY <1>1, <1>2, BecomesFacts
<1>4. QED
  BY <1>2, <1>3

LEMMA LoadEffect ==
  ASSUME CrawlInv, NEW p \in DOMAIN pages, Load(p)
  PROVE  \E doc \in {pages[p].doc, NoUrl} :
           /\ Becomes(p, pages', "loaded", doc, pages[p].next)
           /\ todo' = [page |-> p, links |-> IF pages[p].type = "login" /\ LOGIN_LOAD THEN <<>> ELSE Wanted(doc)]
           /\ LOGIN_LOAD' = LoginLoaded(pages[p])
           /\ doc = pages[p].doc => pages[p].st = "ready" \/ doc = NoUrl
<1> DEFINE page == pages[p]
           new(doc) == [[page EXCEPT !.st = "loaded"] EXCEPT !.doc = doc]
<1>1. PICK doc \in {page.doc, NoUrl} :
        LoadFinished(p, doc) /\ (doc = page.doc => page.st = "ready" \/ doc = NoUrl)
  BY DEF Load
<1>2. pages' = [pages EXCEPT ![p] = new(doc)]
  BY <1>1 DEF LoadFinished
<1>3. new(doc).url = page.url /\ new(doc).type = page.type /\ new(doc).st = "loaded"
      /\ new(doc).doc = doc /\ new(doc).next = page.next
  BY FieldFacts DEF Fields
<1> HIDE DEF new
<1>4. Becomes(p, pages', "loaded", doc, page.next)
  BY <1>2, <1>3, BecomesFacts
<1>5. QED
  BY <1>1, <1>4 DEF LoadFinished

LEMMA MoveEffect ==
  ASSUME CrawlInv, NEW p \in DOMAIN pages, Move(p)
  PROVE  \E u \in MovesOf(pages[p].doc) :
           Becomes(p, pages', IF pages[p].type = "login" THEN "loading" ELSE "asking", pages[p].doc, Browsed(u))
<1> DEFINE page == pages[p]
           st == IF page.type = "login" THEN "loading" ELSE "asking"
           new(u) == [[[page EXCEPT !.next = Browsed(u)] EXCEPT !.moves = page.moves + 1] EXCEPT !.st = st]
<1>1. PICK u \in MovesOf(page.doc) : pages' = [pages EXCEPT ![p] = new(u)]
  BY DEF Move
<1>2. new(u).url = page.url /\ new(u).type = page.type /\ new(u).st = st
      /\ new(u).doc = page.doc /\ new(u).next = Browsed(u)
  BY FieldFacts DEF Fields
<1> HIDE DEF new
<1>3. Becomes(p, pages', new(u).st, new(u).doc, new(u).next)
  BY <1>1, <1>2, BecomesFacts
<1>4. QED
  BY <1>1, <1>2, <1>3

LEMMA FinishEffect ==
  ASSUME CrawlInv, FinishScan
  PROVE  /\ todo.page \in DOMAIN pages
         /\ Becomes(todo.page, pages', pages[todo.page].st, pages[todo.page].doc, pages[todo.page].next)
<1> DEFINE page == pages[todo.page]
           new == [page EXCEPT !.timer = TRUE]
<1>1. todo.page \in DOMAIN pages
  BY DEF FinishScan, CrawlInv, Typed
<1>2. pages' = pages \/ pages' = [pages EXCEPT ![todo.page] = new]
  BY DEF FinishScan
<1>3. new.url = page.url /\ new.type = page.type /\ new.st = page.st
      /\ new.doc = page.doc /\ new.next = page.next
  BY <1>1, FieldFacts DEF Fields
<1> HIDE DEF new
<1>4. CASE pages' = pages
  BY <1>1, <1>4 DEF Becomes
<1>5. CASE pages' = [pages EXCEPT ![todo.page] = new]
  BY <1>1, <1>3, <1>5, BecomesFacts
<1>6. QED
  BY <1>1, <1>2, <1>4, <1>5

\* The engine stops: the pages are closed, or stay as they are.
LEMMA StopEffect ==
  ASSUME CrawlInv, Stop
  PROVE  /\ DOMAIN pages' = DOMAIN pages
         /\ \A i \in DOMAIN pages :
              /\ pages'[i].url = pages[i].url /\ pages'[i].type = pages[i].type
              /\ pages'[i].st \in {pages[i].st, "closed"}
              /\ pages'[i].doc = pages[i].doc /\ pages'[i].next = pages[i].next
<1> DEFINE new(i) == [pages[i] EXCEPT !.st = "closed"]
<1>1. pages' = pages \/ pages' = [i \in DOMAIN pages |-> new(i)]
  BY DEF Stop
<1>2. ASSUME NEW i \in DOMAIN pages
      PROVE  new(i).url = pages[i].url /\ new(i).type = pages[i].type /\ new(i).st = "closed"
             /\ new(i).doc = pages[i].doc /\ new(i).next = pages[i].next
  BY FieldFacts DEF Fields
<1> HIDE DEF new
<1>3. QED
  BY <1>1, <1>2

\* What new Crawler(u, type) adds to ps: the crawler, and behind it the page with
\* tags in the parameters.
Opens(ps, u, type) ==
  LET n == Len(ps)
  IN  /\ ~Known(u)
      /\ n \in Nat /\ DOMAIN ps = 1..n
      /\ \A i \in DOMAIN ps : i \in DOMAIN pages' /\ pages'[i] = ps[i]
      /\ n + 1 \in DOMAIN pages'
      /\ pages'[n + 1] = Page(u, type, IF type = "login" THEN "loading" ELSE "asking")
      /\ Names(u) # {} => n + 2 \in DOMAIN pages' /\ pages'[n + 2] = Page(InjectUrl(u), "inject", "open")
      /\ \A i \in DOMAIN pages' : i \in DOMAIN ps \/ i = n + 1 \/ (i = n + 2 /\ Names(u) # {})

LEMMA OpensFacts ==
  ASSUME NEW ps, ArePages(ps), NEW u, NEW type \in {"login", "normal"}, NewCrawler(ps, u, type)
  PROVE  (Known(u) /\ pages' = ps /\ UNCHANGED lists) \/ Opens(ps, u, type)
<1> DEFINE own == Page(u, type, IF type = "login" THEN "loading" ELSE "asking")
           inject == Page(InjectUrl(u), "inject", "open")
           one == Append(ps, own)
           two == Append(one, inject)
           n == Len(ps)
<1>1. CASE Known(u)
  BY <1>1 DEF NewCrawler
<1>2. CASE ~Known(u)
  <2>1. ps \in Seq(Elements(ps)) /\ n \in Nat /\ DOMAIN ps = 1..n
    BY DEF ArePages
  <2>2. pages' = ps \o (IF Names(u) # {} THEN <<own, inject>> ELSE <<own>>)
    BY <1>2 DEF NewCrawler
  <2>3. pages' = IF Names(u) # {} THEN two ELSE one
    <3> DEFINE T == Elements(ps) \cup {own, inject}
    <3>1. ps \in Seq(T) /\ own \in T /\ inject \in T
      BY <2>1
    <3> HIDE DEF own, inject, T
    <3>2. ps \o <<own>> = one /\ ps \o <<own, inject>> = two
      BY <3>1
    <3>3. QED
      BY <2>2, <3>2
  <2>4. /\ one \in Seq(Elements(one)) /\ Len(one) = n + 1 /\ DOMAIN one = 1..(n + 1)
        /\ \A i \in DOMAIN ps : one[i] = ps[i]
        /\ one[n + 1] = own
    BY <2>1, AppendFacts
  <2>5. /\ DOMAIN two = 1..(Len(one) + 1)
        /\ \A i \in DOMAIN one : two[i] = one[i]
        /\ two[Len(one) + 1] = inject
    BY <2>4, AppendFacts
  <2> HIDE DEF own, inject, one, two, n
  <2>6. DOMAIN two = 1..(n + 2) /\ two[n + 2] = inject /\ n + 1 \in DOMAIN one /\ n + 2 \in DOMAIN two
    BY <2>1, <2>4, <2>5
  <2>7. \A i \in DOMAIN ps : i \in DOMAIN one /\ i \in DOMAIN two
    BY <2>1, <2>4, <2>6
  <2>8. /\ \A i \in DOMAIN one : i \in DOMAIN ps \/ i = n + 1
        /\ \A i \in DOMAIN two : i \in DOMAIN ps \/ i = n + 1 \/ i = n + 2
    BY <2>1, <2>4, <2>6
  <2>9. n + 1 \in DOMAIN two /\ two[n + 1] = own
    BY <2>1, <2>4, <2>5, <2>6
  <2>10. \A i \in DOMAIN ps : two[i] = ps[i]
    BY <2>4, <2>5, <2>7
  <2>11. /\ \A i \in DOMAIN ps : i \in DOMAIN pages' /\ pages'[i] = ps[i]
         /\ n + 1 \in DOMAIN pages' /\ pages'[n + 1] = own
         /\ Names(u) # {} => n + 2 \in DOMAIN pages' /\ pages'[n + 2] = inject
         /\ \A i \in DOMAIN pages' : i \in DOMAIN ps \/ i = n + 1 \/ (i = n + 2 /\ Names(u) # {})
    <3>1. CASE Names(u) = {}
      BY <2>3, <2>4, <2>6, <2>7, <2>8, <3>1
    <3>2. CASE Names(u) # {}
      BY <2>3, <2>6, <2>7, <2>8, <2>9, <2>10, <3>2
    <3>3. QED
      BY <3>1, <3>2
  <2>12. QED
    BY <1>2, <2>1, <2>11 DEF Opens, own, inject, n
<1>3. QED
  BY <1>1, <1>2

-----------------------------------------------------------------------------
(* Everything an address is expected of is one, and a page shows and asks  *)
(* for nothing with dots.                                                  *)

Located(page) == page.url \in Addresses /\ page.next \in Clear /\ page.doc \in Clear \cup {NoUrl}

Scanning == todo.links # <<>>

Addressed ==
  /\ IsWeb(web)
  /\ \A p \in DOMAIN pages : Located(pages[p])
  /\ todo.links \in Seq(Links)
  /\ Scanning => pages[todo.page].doc \in Clear

\* The crawlers are the same, whatever their pages do.
SameCrawlers(ps) ==
  /\ ArePages(ps) /\ DOMAIN ps = DOMAIN pages
  /\ \A i \in DOMAIN pages : ps[i].url = pages[i].url /\ ps[i].type = pages[i].type

\* A step leaves the crawlers and what is listed of them, lets a page go to the
\* action of a form, or makes a crawler (which is one of the login only at the
\* beginning, or for a link of the login page).
Quiet == SameCrawlers(pages') /\ requests' = requests /\ injected_list' = injected_list
         /\ tags_list \subseteq tags_list'
Posts == /\ SameCrawlers(pages') /\ tags_list' = tags_list
         /\ \E f \in Addresses : /\ requests' = requests \cup {[url |-> FixURL(f), normal |-> TRUE]}
                                 /\ injected_list' = injected_list \cup {f}
Makes == \E ps : \E u \in Addresses, type \in {"login", "normal"} :
           /\ SameCrawlers(ps) /\ NewCrawler(ps, u, type)
           /\ type = "login" => phase = "init" \/ (Scanning /\ pages[todo.page].type = "login")


\* What a document has.
LEMMA ContentFacts ==
  ASSUME IsWeb(web), NEW doc \in Addresses \cup {NoUrl}
  PROVE  /\ LinksOf(doc) \in Seq(Links) /\ ActionsOf(doc) \subseteq Addresses /\ MovesOf(doc) \subseteq Addresses
         /\ Wanted(doc) \in Seq(Links) /\ Len(Wanted(doc)) <= Len(LinksOf(doc))
         /\ Wanted(doc) # <<>> => doc \in Addresses /\ doc.path \in DOMAIN web.links
<1>1. /\ LinksOf(doc) \in Seq(Links)
      /\ LinksOf(doc) # <<>> => doc # NoUrl /\ doc.path \in DOMAIN web.links
  BY DEF LinksOf, Content, IsWeb
<1>2. \A f \in Addresses : [f EXCEPT !.args = @ \cup {Marker}] \in Addresses
  <2> TAKE f \in Addresses
  <2>1. Marker \in Texts \X Texts
    BY DEF Marker, Texts
  <2>2. f.args \cup {Marker} \in SUBSET (Texts \X Texts)
    BY <2>1 DEF Addresses
  <2>3. QED
    BY <2>2 DEF Addresses
<1>3. Content(web.forms, doc, {}) \subseteq Addresses /\ Content(web.moves, doc, {}) \subseteq Addresses
  BY DEF Content, IsWeb
<1>4. ActionsOf(doc) \subseteq Addresses
  BY <1>2, <1>3 DEF ActionsOf
<1>5. MovesOf(doc) \subseteq Addresses
  BY <1>3, <1>4 DEF MovesOf
<1> DEFINE S == {h \in ToSet(LinksOf(doc)) :
                   /\ ~Has(h.url, "logout")
                   /\ h.kind = "abs"  => IsPrefix(Site(doc.origin[1], HOSTNAME), h.url.origin)
                   /\ h.kind = "root" => IsPrefix(Site(doc.origin[1], HOSTNAME), doc.origin)}
           links == LinksOf(doc)
<1>6. Wanted(doc) = Filter(links, S)
  BY DEF Wanted
<1> HIDE DEF S, links
<1>7. Filter(links, S) \in Seq(Links \cap S) /\ Len(Filter(links, S)) <= Len(links)
  BY <1>1, FilterType DEF links
<1>8. Wanted(doc) \in Seq(Links)
  BY <1>6, <1>7
<1>9. Wanted(doc) # <<>> => links # <<>>
  BY <1>6, FilterEmpty
<1>10. QED
  BY <1>1, <1>4, <1>5, <1>6, <1>7, <1>8, <1>9 DEF links

\* A step that changes one page.
LEMMA QuietAddressed ==
  ASSUME CrawlInv, CrawlInv', Addressed, NEW p, NEW st, NEW doc \in Clear \cup {NoUrl},
         NEW next \in Clear, Becomes(p, pages', st, doc, next),
         web' = web, todo'.links \in Seq(Links),
         todo'.links # <<>> => pages'[todo'.page].doc \in Clear
  PROVE  Addressed' /\ SameCrawlers(pages')
<1>1. ASSUME NEW i \in DOMAIN pages
      PROVE  Located(pages'[i]) /\ pages'[i].url = pages[i].url /\ pages'[i].type = pages[i].type
  <2>1. CASE i = p
    BY <2>1 DEF Becomes, Located, Addressed
  <2>2. CASE i # p
    BY <2>2 DEF Becomes, Located, Addressed
  <2>3. QED
    BY <2>1, <2>2
<1>2. DOMAIN pages' = DOMAIN pages /\ ArePages(pages')
  BY DEF Becomes, CrawlInv, Typed
<1>3. Addressed'
  BY <1>1, <1>2 DEF Addressed, Located, IsWeb, Scanning
<1>4. QED
  BY <1>1, <1>2, <1>3 DEF SameCrawlers

\* Most of them change no lists and scan nothing.
LEMMA IdleAddressed ==
  ASSUME CrawlInv, CrawlInv', Addressed, NEW p, NEW st, NEW doc \in Clear \cup {NoUrl},
         NEW next \in Clear, Becomes(p, pages', st, doc, next),
         web' = web, todo' = Idle, UNCHANGED lists
  PROVE  Addressed' /\ Quiet
<1>1. todo'.links = <<>> /\ todo'.links \in Seq(Links)
  BY DEF Idle
<1>2. Addressed' /\ SameCrawlers(pages')
  BY <1>1, QuietAddressed
<1>3. QED
  BY <1>2 DEF Quiet, lists

\* A step that makes a crawler.
LEMMA MakesAddressed ==
  ASSUME Addressed, NEW ps, SameCrawlers(ps), \A i \in DOMAIN ps : Located(ps[i]),
         NEW u \in Addresses, NEW type \in {"login", "normal"}, NewCrawler(ps, u, type),
         type = "login" => phase = "init" \/ (Scanning /\ pages[todo.page].type = "login"),
         web' = web, todo'.links \in Seq(Links),
         todo'.links # <<>> => todo'.page \in DOMAIN ps /\ ps[todo'.page].doc \in Clear
  PROVE  Addressed' /\ Makes
<1>1. Makes
  BY DEF Makes
<1>2. (Known(u) /\ pages' = ps /\ UNCHANGED lists) \/ Opens(ps, u, type)
  BY OpensFacts DEF SameCrawlers
<1>3. \A i \in DOMAIN ps : i \in DOMAIN pages' /\ pages'[i] = ps[i]
  BY <1>2 DEF Opens
<1>4. \A i \in DOMAIN pages' : Located(pages'[i])
  <2>1. CASE pages' = ps
    BY <2>1
  <2>2. CASE Opens(ps, u, type)
    <3> TAKE i \in DOMAIN pages'
    <3>1. InjectUrl(u) \in Addresses
      BY InjectFacts
    <3>2. \/ i \in DOMAIN ps
          \/ pages'[i] = Page(u, type, IF type = "login" THEN "loading" ELSE "asking")
          \/ pages'[i] = Page(InjectUrl(u), "inject", "open")
      BY <2>2 DEF Opens
    <3>3. Browsed(u) \in Clear /\ Browsed(InjectUrl(u)) \in Clear
      BY <3>1, BrowsedFacts
    <3>4. QED
      BY <1>3, <3>1, <3>2, <3>3 DEF Page, Located
  <2>3. QED
    BY <1>2, <2>1, <2>2
<1>5. Addressed'
  BY <1>3, <1>4 DEF Addressed, Located, IsWeb, Scanning
<1>6. QED
  BY <1>1, <1>5


LEMMA AddressedInit == Init => Addressed
<1> SUFFICES ASSUME Init PROVE Addressed
  OBVIOUS
<1>1. IsWeb(web)
  BY CrawlAssumption DEF Init
<1>2. DOMAIN pages = {} /\ todo.links = <<>>
  BY DEF Init, Idle
<1>3. QED
  BY <1>1, <1>2 DEF Addressed, Scanning

\* A page as it is; its crawler is to be made.
LEMMA SameFacts ==
  ASSUME CrawlInv, Addressed
  PROVE  SameCrawlers(pages) /\ \A i \in DOMAIN pages : Located(pages[i])
  BY DEF CrawlInv, Typed, SameCrawlers, Addressed

\* The engine, and the end of a scan.
LEMMA AddressedEngine ==
  ASSUME CrawlInv, CrawlInv', Addressed, WebCrawlerInit \/ Start \/ Stop
  PROVE  Addressed' /\ (Quiet \/ Makes)
<1>1. web' = web /\ todo' = todo
  BY DEF WebCrawlerInit, Start, Stop
<1>2. CASE UNCHANGED <<pages, lists>>
  <2>1. Addressed'
    BY <1>1, <1>2 DEF Addressed, Located, IsWeb, Scanning
  <2>2. Quiet
    BY <1>2, SameFacts DEF Quiet, lists, SameCrawlers
  <2>3. QED
    BY <2>1, <2>2
<1>3. ASSUME NEW u \in Addresses, NEW type \in {"login", "normal"}, NewCrawler(pages, u, type),
             type = "login" => phase = "init"
      PROVE  Addressed' /\ Makes
  <2>1. todo'.links \in Seq(Links)
    BY <1>1 DEF Addressed
  <2>2. todo'.links # <<>> => todo'.page \in DOMAIN pages /\ pages[todo'.page].doc \in Clear
    BY <1>1 DEF Addressed, Scanning, CrawlInv, Typed, Idle
  <2>3. QED
    BY <1>1, <1>3, <2>1, <2>2, SameFacts, MakesAddressed
<1>4. CASE WebCrawlerInit
  <2>1. web.login # NoUrl => FixURL(web.login) \in Addresses
    BY FixFacts DEF Addressed, IsWeb
  <2>2. QED
    BY <1>2, <1>3, <1>4, <2>1 DEF WebCrawlerInit
<1>5. CASE Start
  <2>1. FixURL(web.target) \in Addresses
    BY FixFacts DEF Addressed, IsWeb
  <2>2. QED
    BY <1>3, <1>5, <2>1 DEF Start
<1>6. CASE Stop
  <2>1. /\ DOMAIN pages' = DOMAIN pages
        /\ \A i \in DOMAIN pages :
             /\ pages'[i].url = pages[i].url /\ pages'[i].type = pages[i].type
             /\ pages'[i].doc = pages[i].doc /\ pages'[i].next = pages[i].next
    BY <1>6, StopEffect
  <2>2. todo = Idle /\ UNCHANGED lists
    BY <1>6 DEF Stop
  <2>3. Addressed'
    <3>1. todo'.links = <<>> /\ todo'.links \in Seq(Links)
      BY <1>1, <2>2 DEF Idle
    <3>2. QED
      BY <1>1, <2>1, <3>1 DEF Addressed, Located, IsWeb, Scanning
  <2>4. Quiet
    BY <2>1, <2>2 DEF Quiet, lists, SameCrawlers, CrawlInv, Typed
  <2>5. QED
    BY <2>3, <2>4
<1>7. QED
  BY <1>4, <1>5, <1>6

\* A link that is followed leads to an address.
LEMMA FollowedFacts ==
  ASSUME CrawlInv, Addressed, ScanLink
  PROVE  LET page == pages[todo.page]  h == Head(todo.links)
             u == ReBuildURL(page.doc, page.url, h)
         IN  /\ todo.page \in DOMAIN pages /\ page.type \in {"login", "normal"}
             /\ page.doc \in Clear /\ page.url \in Addresses
             /\ h \in Links /\ FixURL(u) \in Addresses /\ FixURL(u).args \in {h.url.args, page.url.args}
             /\ Tail(todo.links) \in Seq(Links) /\ Len(todo.links) = Len(Tail(todo.links)) + 1
<1> DEFINE page == pages[todo.page]
           h == Head(todo.links)
           u == ReBuildURL(page.doc, page.url, h)
<1>1. todo.links # <<>> /\ todo.links \in Seq(Links)
  BY DEF ScanLink, Addressed
<1>2. todo # Idle
  BY <1>1 DEF Idle
<1>3. todo.page \in DOMAIN pages /\ page.type \in {"login", "normal"}
  BY <1>2 DEF CrawlInv, Typed, ArePages, IsPage
<1>4. page.doc \in Clear /\ page.doc \in Addresses /\ page.url \in Addresses
  BY <1>1, <1>3 DEF Addressed, Scanning, Located, Clear
<1>5. h \in Links /\ Tail(todo.links) \in Seq(Links) /\ Len(todo.links) = Len(Tail(todo.links)) + 1
  BY <1>1
<1> HIDE DEF page, h
<1>6. u \in Addresses /\ u.args \in {h.url.args, page.url.args}
  BY <1>4, <1>5, ReBuildFacts
<1> HIDE DEF u
<1>7. FixURL(u) \in Addresses /\ FixURL(u).args = u.args
  BY <1>6, FixFacts
<1>8. QED
  BY <1>3, <1>4, <1>5, <1>6, <1>7 DEF page, h, u

LEMMA AddressedScan ==
  ASSUME CrawlInv, CrawlInv', Addressed, ScanLink
  PROVE  Addressed' /\ Makes
<1> DEFINE page == pages[todo.page]
           u == FixURL(ReBuildURL(page.doc, page.url, Head(todo.links)))
<1>1. /\ NewCrawler(pages, u, page.type) /\ web' = web
      /\ todo' = [todo EXCEPT !.links = Tail(todo.links)]
  BY DEF ScanLink
<1>2. /\ todo.page \in DOMAIN pages /\ page.type \in {"login", "normal"} /\ page.doc \in Clear
      /\ u \in Addresses /\ Tail(todo.links) \in Seq(Links)
  BY FollowedFacts
<1>3. DOMAIN todo = {"page", "links"}
  BY DEF CrawlInv, Typed
<1>4. todo'.page = todo.page /\ todo'.links = Tail(todo.links)
  BY <1>1, <1>3
<1>5. Scanning
  BY DEF ScanLink, Scanning
<1> HIDE DEF u
<1>6. QED
  BY <1>1, <1>2, <1>4, <1>5, SameFacts, MakesAddressed

LEMMA AddressedFinish ==
  ASSUME CrawlInv, CrawlInv', Addressed, FinishScan
  PROVE  Addressed' /\ Quiet
<1>1. /\ todo.page \in DOMAIN pages
      /\ Becomes(todo.page, pages', pages[todo.page].st, pages[todo.page].doc, pages[todo.page].next)
  BY FinishEffect
<1>2. todo'.links = <<>> /\ todo'.links \in Seq(Links) /\ web' = web
  BY DEF FinishScan, Idle
<1>3. Located(pages[todo.page])
  BY <1>1 DEF Addressed
<1>4. Addressed' /\ SameCrawlers(pages')
  BY <1>1, <1>2, <1>3, QuietAddressed DEF Located
<1>5. requests' = requests /\ injected_list' = injected_list /\ tags_list \subseteq tags_list'
  BY DEF FinishScan
<1>6. QED
  BY <1>4, <1>5 DEF Quiet

\* The handlers of a page.
LEMMA AddressedHandler ==
  ASSUME CrawlInv, CrawlInv', Addressed, NEW p \in DOMAIN pages, Handler(p) \/ CloseTimer(p)
  PROVE  Addressed' /\ (Quiet \/ Posts \/ Makes)
<1>1. Located(pages[p]) /\ Asked(p) \in Addresses
  BY FixFacts DEF Addressed, Located, Asked, Clear
<1>2. CASE RefuseNavigation(p) \/ CloseTimer(p)
  <2>1. pages' = Set(p, "closed") /\ todo' = Idle /\ web' = web /\ UNCHANGED lists
    BY <1>2 DEF RefuseNavigation, CloseTimer, Asking
  <2>2. Becomes(p, pages', "closed", pages[p].doc, pages[p].next)
    BY <2>1, SetEffect
  <2>3. QED
    BY <1>1, <2>1, <2>2, IdleAddressed DEF Located
<1>3. CASE FollowNavigation(p)
  <2>1. todo' = Idle /\ web' = web
    BY <1>3 DEF FollowNavigation, Asking
  <2>2. PICK ps :
           /\ Becomes(p, ps, "loading", pages[p].doc, pages[p].next) /\ ArePages(ps)
           /\ \/ pages' = ps /\ UNCHANGED lists
              \/ NewCrawler(ps, FixURL(Asked(p)), "normal")
    BY <1>3, FollowEffect
  <2>3. CASE pages' = ps /\ UNCHANGED lists
    BY <1>1, <2>1, <2>2, <2>3, IdleAddressed DEF Located
  <2>4. CASE NewCrawler(ps, FixURL(Asked(p)), "normal")
    <3>1. FixURL(Asked(p)) \in Addresses
      BY <1>1, FixFacts
    <3>2. ASSUME NEW i \in DOMAIN ps
          PROVE  i \in DOMAIN pages /\ Located(ps[i]) /\ ps[i].url = pages[i].url /\ ps[i].type = pages[i].type
      <4>1. CASE i = p
        BY <2>2, <4>1 DEF Becomes, Located, Addressed
      <4>2. CASE i # p
        BY <2>2, <4>2 DEF Becomes, Located, Addressed
      <4>3. QED
        BY <4>1, <4>2
    <3>3. SameCrawlers(ps)
      BY <2>2, <3>2 DEF SameCrawlers, Becomes
    <3>4. todo'.links = <<>> /\ todo'.links \in Seq(Links)
      BY <2>1 DEF Idle
    <3>5. QED
      BY <2>1, <2>4, <3>1, <3>2, <3>3, <3>4, MakesAddressed
  <2>5. QED
    BY <2>2, <2>3, <2>4
<1>4. CASE PostForm(p)
  <2>1. /\ pages' = Set(p, "loading") /\ todo' = Idle /\ web' = web /\ tags_list' = tags_list
        /\ requests' = requests \cup {[url |-> FixURL(Asked(p)), normal |-> TRUE]}
        /\ injected_list' = injected_list \cup {Asked(p)}
    BY <1>4 DEF PostForm, Asking
  <2>2. Becomes(p, pages', "loading", pages[p].doc, pages[p].next)
    BY <2>1, SetEffect
  <2>3. todo'.links = <<>> /\ todo'.links \in Seq(Links)
    BY <2>1 DEF Idle
  <2>4. Addressed' /\ SameCrawlers(pages')
    BY <1>1, <2>1, <2>2, <2>3, QuietAddressed DEF Located
  <2>5. Posts
    BY <1>1, <2>1, <2>4 DEF Posts
  <2>6. QED
    BY <2>4, <2>5
<1>5. QED
  BY <1>2, <1>3, <1>4 DEF Handler

\* The browser.
LEMMA AddressedBrowser ==
  ASSUME CrawlInv, CrawlInv', Addressed, NEW p \in DOMAIN pages, Browser(p)
  PROVE  Addressed' /\ Quiet
<1>1. /\ pages[p].url \in Addresses /\ pages[p].next \in Clear
      /\ pages[p].doc \in Clear \cup {NoUrl} /\ pages[p].doc \in Addresses \cup {NoUrl} /\ IsWeb(web)
  BY DEF Addressed, Located, Clear
<1>2. CASE Redirect(p)
  <2>1. todo' = Idle /\ web' = web /\ UNCHANGED lists
    BY <1>2 DEF Redirect, Loading
  <2>2. PICK st : /\ pages[p].next.path \in DOMAIN web.redirect
                  /\ Becomes(p, pages', st, pages[p].doc, Browsed(web.redirect[pages[p].next.path]))
    BY <1>2, RedirectEffect
  <2>3. Browsed(web.redirect[pages[p].next.path]) \in Clear
    BY <1>1, <2>2, BrowsedFacts DEF IsWeb
  <2>4. QED
    BY <1>1, <2>1, <2>2, <2>3, IdleAddressed
<1>3. CASE Initialized(p)
  <2>1. todo' = Idle /\ web' = web /\ UNCHANGED lists
    BY <1>3 DEF Initialized, Loading
  <2>2. PICK st : Becomes(p, pages', st, pages[p].next, pages[p].next)
    BY <1>3, InitializedEffect
  <2>3. QED
    BY <1>1, <2>1, <2>2, IdleAddressed
<1>4. CASE Load(p)
  <2>1. web' = web /\ UNCHANGED lists
    BY <1>4 DEF Load
  <2>2. PICK doc \in {pages[p].doc, NoUrl} :
          /\ Becomes(p, pages', "loaded", doc, pages[p].next)
          /\ todo' = [page |-> p, links |-> IF pages[p].type = "login" /\ LOGIN_LOAD THEN <<>> ELSE Wanted(doc)]
    BY <1>4, LoadEffect
  <2>3. doc \in Clear \cup {NoUrl}
    BY <1>1
  <2>4. Wanted(doc) \in Seq(Links) /\ (Wanted(doc) # <<>> => doc \in Clear)
    BY <1>1, <2>3, ContentFacts, CrawlAssumption
  <2>5. /\ todo'.page = p /\ todo'.links \in Seq(Links)
        /\ todo'.links # <<>> => doc \in Clear
    BY <2>2, <2>4
  <2>6. pages'[p].doc = doc
    BY <2>2 DEF Becomes
  <2>7. Addressed' /\ SameCrawlers(pages')
    BY <1>1, <2>1, <2>2, <2>3, <2>5, <2>6, QuietAddressed
  <2>8. QED
    BY <2>1, <2>7 DEF Quiet, lists
<1>5. CASE Move(p)
  <2>1. todo' = Idle /\ web' = web /\ UNCHANGED lists
    BY <1>5 DEF Move
  <2>2. PICK u \in MovesOf(pages[p].doc) : \E st : Becomes(p, pages', st, pages[p].doc, Browsed(u))
    BY <1>5, MoveEffect
  <2>3. Browsed(u) \in Clear
    BY <1>1, ContentFacts, BrowsedFacts
  <2>4. QED
    BY <1>1, <2>1, <2>2, <2>3, IdleAddressed
<1>6. QED
  BY <1>2, <1>3, <1>4, <1>5 DEF Browser

\* Every step is of one of three kinds.
LEMMA Kinds ==
  CrawlInv /\ CrawlInv' /\ Addressed /\ [Next]_vars => Addressed' /\ (Quiet \/ Posts \/ Makes)
<1> SUFFICES ASSUME CrawlInv, CrawlInv', Addressed, [Next]_vars
             PROVE  Addressed' /\ (Quiet \/ Posts \/ Makes)
  OBVIOUS
<1>1. CASE WebCrawlerInit \/ Start \/ Stop \/ ScanLink \/ FinishScan
  BY <1>1, AddressedEngine, AddressedScan, AddressedFinish
<1>2. ASSUME NEW p \in DOMAIN pages, Handler(p) \/ Browser(p) \/ CloseTimer(p)
      PROVE  Addressed' /\ (Quiet \/ Posts \/ Makes)
  BY <1>2, AddressedHandler, AddressedBrowser
<1>3. CASE UNCHANGED vars
  <2>1. UNCHANGED <<web, pages, todo, requests, injected_list, tags_list>>
    BY <1>3 DEF vars, lists
  <2>2. Addressed'
    BY <2>1 DEF Addressed, Located, IsWeb, Scanning
  <2>3. Quiet
    BY <2>1, SameFacts DEF Quiet, SameCrawlers
  <2>4. QED
    BY <2>2, <2>3
<1>4. QED
  BY <1>1, <1>2, <1>3 DEF Next


\* What the crawlers open are addresses, and what is scanned is a document.
THEOREM CrawlAddressed == Spec => [](CrawlInv /\ Addressed)
<1>1. Init => CrawlInv /\ Addressed
  BY InitCorrect, AddressedInit
<1>2. CrawlInv /\ Addressed /\ [Next]_vars => CrawlInv' /\ Addressed'
  BY StepCorrect, Kinds
<1>3. QED
  BY <1>1, <1>2, PTL DEF Spec

\* Whatever page has opened it, and however that page has moved, a link is crawled
\* by the address a browser would follow, except for the links named in Awkward.
THEOREM LinksFollowed == Spec => []LinksResolved
<1>1. CrawlInv /\ Addressed => LinksResolved
  <2> SUFFICES ASSUME CrawlInv, Addressed, todo.links # <<>>
               PROVE  LET page == pages[todo.page]  h == Head(todo.links)
                      IN  ~Awkward(page.doc, page.url, h) =>
                            Resource(FixURL(ReBuildURL(page.doc, page.url, h))) = Target(page.doc, h)
    BY DEF LinksResolved
  <2>1. todo.page \in DOMAIN pages
    BY DEF CrawlInv, Typed, Idle
  <2>2. pages[todo.page].doc \in Clear /\ pages[todo.page].url \in Addresses /\ Head(todo.links) \in Links
    BY <2>1 DEF Addressed, Scanning, Located
  <2>3. QED
    BY <2>2, LinkResolved
<1>2. QED
  BY <1>1, CrawlAddressed, PTL

-----------------------------------------------------------------------------
(* No page is crawled twice.                                               *)

\* Every page the crawler has opened for an address has a request of its own.
Requested ==
  /\ \A p \in Normal : [url |-> pages[p].url, normal |-> TRUE] \in requests
  /\ \A p, q \in Normal : Unique(pages[p].url) = Unique(pages[q].url) => p = q

\* A page of a crawler that a step makes.
LEMMA MadeFacts ==
  ASSUME CrawlInv, Addressed, NEW ps, SameCrawlers(ps), NEW u \in Addresses,
         NEW type \in {"login", "normal"}, Opens(ps, u, type), NEW i \in DOMAIN pages'
  PROVE  \/ i \in DOMAIN pages /\ pages'[i].url = pages[i].url /\ pages'[i].type = pages[i].type
         \/ i = Len(ps) + 1 /\ pages'[i].url = u /\ pages'[i].type = type
         \/ i = Len(ps) + 2 /\ Names(u) # {} /\ pages'[i].url = InjectUrl(u) /\ pages'[i].type = "inject"
<1>1. CASE i \in DOMAIN ps
  BY <1>1 DEF Opens, SameCrawlers
<1>2. CASE i = Len(ps) + 1
  BY <1>2 DEF Opens, Page
<1>3. CASE i = Len(ps) + 2 /\ Names(u) # {}
  BY <1>3 DEF Opens, Page
<1>4. QED
  BY <1>1, <1>2, <1>3 DEF Opens

LEMMA RequestedStep ==
  CrawlInv /\ CrawlInv' /\ Addressed /\ Requested /\ [Next]_vars => Requested'
<1> SUFFICES ASSUME CrawlInv, CrawlInv', Addressed, Requested, [Next]_vars PROVE Requested'
  OBVIOUS
<1> DEFINE request(u) == [url |-> u, normal |-> TRUE]
<1>1. ASSUME NEW ps, SameCrawlers(ps), pages' = ps, requests \subseteq requests'
      PROVE  Requested'
  <2>1. \A p \in Normal' : p \in Normal /\ pages'[p].url = pages[p].url
    BY <1>1 DEF SameCrawlers, Normal
  <2>2. QED
    BY <1>1, <2>1 DEF Requested
<1>2. CASE Quiet \/ Posts
  BY <1>1, <1>2 DEF Quiet, Posts
<1>3. CASE Makes
  <2>1. PICK ps : \E u \in Addresses, type \in {"login", "normal"} :
                    SameCrawlers(ps) /\ NewCrawler(ps, u, type)
    BY <1>3 DEF Makes
  <2>2. PICK u \in Addresses, type \in {"login", "normal"} : SameCrawlers(ps) /\ NewCrawler(ps, u, type)
    BY <2>1
  <2>3. CASE pages' = ps /\ UNCHANGED lists
    BY <1>1, <2>2, <2>3 DEF lists
  <2>4. CASE Opens(ps, u, type)
    <3>1. ~Known(u) /\ Len(ps) + 1 \notin DOMAIN pages
      BY <2>2, <2>4 DEF Opens, SameCrawlers
    <3>2. requests \subseteq requests' /\ (type # "login" => request(u) \in requests')
      BY <2>2, <3>1 DEF NewCrawler
    <3>3. \A p \in Normal' :
            \/ p \in Normal /\ pages'[p].url = pages[p].url
            \/ p = Len(ps) + 1 /\ pages'[p].url = u /\ type = "normal"
      <4> TAKE p \in Normal'
      <4>1. p \in DOMAIN pages' /\ pages'[p].type = "normal"
        BY DEF Normal
      <4>2. QED
        BY <2>2, <2>4, <4>1, MadeFacts DEF Normal
    <3>4. \A p \in Normal : Unique(pages[p].url) # Unique(u)
      <4> TAKE p \in Normal
      <4>1. request(pages[p].url) \in requests
        BY DEF Requested
      <4>2. request(pages[p].url).normal /\ request(pages[p].url).url = pages[p].url
        OBVIOUS
      <4> HIDE DEF request
      <4>3. QED
        BY <3>1, <4>1, <4>2 DEF Known
    <3>5. \A p \in Normal' : request(pages'[p].url) \in requests'
      BY <3>2, <3>3 DEF Requested
    <3>6. \A p, q \in Normal' : Unique(pages'[p].url) = Unique(pages'[q].url) => p = q
      BY <3>3, <3>4 DEF Requested
    <3>7. QED
      BY <3>5, <3>6 DEF Requested, Unique, Names
  <2>5. QED
    BY <2>2, <2>3, <2>4, OpensFacts DEF SameCrawlers
<1>4. QED
  BY <1>2, <1>3, Kinds

\* crawlerCheck finds every page again that has been opened: whatever the values of
\* its parameters, and whether a link, a redirect, a script or the config has led
\* to it.  Two of them may only be the same to the server because of dots or of a
\* "/" in front of the parameters.
THEOREM NoneCrawledTwice == Spec => []CrawledOnce
<1>1. Init => Requested
  BY DEF Init, Requested, Normal
<1>2. Addressed /\ Requested => CrawledOnce
  <2> SUFFICES ASSUME Addressed, Requested, NEW p \in Normal, NEW q \in Normal, p # q,
                      pages[p].url.origin = pages[q].url.origin,
                      Resolved(pages[p].url.path) = Resolved(pages[q].url.path),
                      Names(pages[p].url) = Names(pages[q].url),
                      \A w \in {pages[p].url, pages[q].url} : ~w.slash /\ ToSet(w.path) \cap Dots = {}
               PROVE  FALSE
    BY DEF CrawledOnce
  <2> DEFINE u == pages[p].url
             v == pages[q].url
  <2>1. u \in Addresses /\ v \in Addresses
    BY DEF Addressed, Located, Normal
  <2>2. Resolved(u.path) = u.path /\ Resolved(v.path) = v.path
    <3>1. u.path \in Seq(Segments) /\ v.path \in Seq(Segments)
      BY <2>1, SegmentFacts DEF Addresses
    <3>2. QED
      BY <3>1, ResolvedFacts
  <2>3. u.slash = FALSE /\ v.slash = FALSE
    BY <2>1 DEF Addresses
  <2>4. Unique(u) = Unique(v)
    BY <2>2, <2>3 DEF Unique
  <2>5. QED
    BY <2>4 DEF Requested
<1>3. CrawlInv /\ Addressed /\ Requested /\ [Next]_vars => CrawlInv' /\ Addressed' /\ Requested'
  BY StepCorrect, Kinds, RequestedStep
<1>4. QED
  BY <1>1, <1>2, <1>3, InitCorrect, AddressedInit, PTL DEF Spec


-----------------------------------------------------------------------------
(* Tags in opened addresses.                                               *)

\* The tags of page q's address are known.
TagKnown(q) == [page |-> q, url |-> pages[q].url] \in tags_list

\* For what is in injected_list as uniqueUrlStr some page's tags are known.
InjectedKnown ==
  \A u \in Addresses : Unique(u) \in injected_list /\ Marker[1] \notin Names(u) =>
    \E q \in DOMAIN pages : pages[q].url = InjectUrl(u) /\ TagKnown(q)

\* uniqueUrlStr and the action of a form are never taken for each other.
LEMMA UniqueFacts == ASSUME NEW u \in Addresses, NEW f \in Addresses PROVE Unique(u) # f
<1>1. "names" \in DOMAIN Unique(u)
  BY DEF Unique
<1>2. "names" \notin DOMAIN f
  BY DEF Addresses
<1>3. QED
  BY <1>1, <1>2

LEMMA TaggedStep ==
  CrawlInv /\ CrawlInv' /\ Addressed /\ InjectedKnown /\ TagsKnown /\ [Next]_vars
    => InjectedKnown' /\ TagsKnown'
<1> SUFFICES ASSUME CrawlInv, CrawlInv', Addressed, InjectedKnown, TagsKnown, [Next]_vars
             PROVE  InjectedKnown' /\ TagsKnown'
  OBVIOUS
<1>1. DOMAIN pages = 1..Len(pages) /\ DOMAIN pages' = 1..Len(pages') /\ Len(pages) \in Nat /\ Len(pages') \in Nat
  BY DEF CrawlInv, Typed, ArePages
<1> DEFINE Kept(q) == q \in DOMAIN pages' /\ pages'[q].url = pages[q].url /\ (TagKnown(q) => TagKnown(q)')
<1>2. ASSUME NEW ps, SameCrawlers(ps), pages' = ps, tags_list \subseteq tags_list',
             \A u \in Addresses : Unique(u) \in injected_list' => Unique(u) \in injected_list
      PROVE  InjectedKnown' /\ TagsKnown'
  <2>1. \A q \in DOMAIN pages : Kept(q) /\ pages'[q].type = pages[q].type
    BY <1>2 DEF SameCrawlers, TagKnown
  <2>2. InjectedKnown'
    <3> SUFFICES ASSUME NEW u \in Addresses, Unique(u) \in injected_list', Marker[1] \notin Names(u)
                 PROVE  \E q \in DOMAIN pages' : pages'[q].url = InjectUrl(u) /\ TagKnown(q)'
      BY DEF InjectedKnown, Unique, Names, InjectUrl, Marker
    <3>1. PICK q \in DOMAIN pages : pages[q].url = InjectUrl(u) /\ TagKnown(q)
      BY <1>2 DEF InjectedKnown
    <3>2. QED
      BY <2>1, <3>1
  <2>3. TagsKnown'
    <3> SUFFICES ASSUME NEW p \in DOMAIN pages', pages'[p].type = "inject",
                        Marker[1] \notin Names(pages'[p].url)
                 PROVE  \E q \in 1..p : pages'[q].url = pages'[p].url /\ TagKnown(q)'
      BY DEF TagsKnown, TagKnown, Names, Marker
    <3>1. p \in DOMAIN pages
      BY <1>2 DEF SameCrawlers
    <3>2. PICK q \in 1..p : pages[q].url = pages[p].url /\ TagKnown(q)
      BY <2>1, <3>1 DEF TagsKnown, TagKnown
    <3>3. q \in DOMAIN pages
      BY <1>1, <3>1
    <3>4. QED
      BY <2>1, <3>1, <3>2, <3>3
  <2>4. QED
    BY <2>2, <2>3
<1>3. CASE Quiet
  BY <1>2, <1>3 DEF Quiet
<1>4. CASE Posts
  <2>1. PICK f \in Addresses : injected_list' = injected_list \cup {f}
    BY <1>4 DEF Posts
  <2>2. \A u \in Addresses : Unique(u) \in injected_list' => Unique(u) \in injected_list
    BY <2>1, UniqueFacts
  <2>3. QED
    BY <1>2, <1>4, <2>2 DEF Posts
<1>5. CASE Makes
  <2>1. PICK ps : \E u \in Addresses, type \in {"login", "normal"} :
                    SameCrawlers(ps) /\ NewCrawler(ps, u, type)
    BY <1>5 DEF Makes
  <2>2. PICK u \in Addresses, type \in {"login", "normal"} : SameCrawlers(ps) /\ NewCrawler(ps, u, type)
    BY <2>1
  <2>3. CASE pages' = ps /\ UNCHANGED lists
    BY <1>2, <2>2, <2>3 DEF lists
  <2>4. CASE Opens(ps, u, type)
    <3> DEFINE n == Len(ps) + 2
               tag == [page |-> n, url |-> InjectUrl(u)]
    <3>1. ~Known(u) /\ n \notin DOMAIN pages /\ Len(ps) + 1 < n /\ Len(ps) \in Nat /\ DOMAIN pages = 1..Len(ps)
      BY <2>2, <2>4 DEF Opens, SameCrawlers
    <3>2. /\ tags_list' = IF Names(u) # {} /\ ~Injected(u) THEN tags_list \cup {tag} ELSE tags_list
          /\ injected_list' = IF Names(u) # {} THEN injected_list \cup {Unique(u)} ELSE injected_list
      BY <2>2, <3>1 DEF NewCrawler, Page
    <3>3. \A q \in DOMAIN pages : Kept(q)
      BY <2>2, <2>4, <3>2 DEF Opens, SameCrawlers, TagKnown
    <3>4. Names(u) # {} => n \in DOMAIN pages' /\ pages'[n].url = InjectUrl(u)
      BY <2>4 DEF Opens, Page
    <3>5. ASSUME Names(u) # {}, Marker[1] \notin Names(u)
          PROVE  \E q \in DOMAIN pages' : pages'[q].url = InjectUrl(u) /\ TagKnown(q)' /\ q <= n
      <4>1. CASE Injected(u)
        <5>1. Unique(u) \in injected_list
          BY <3>5, <4>1 DEF Injected
        <5>2. PICK q \in DOMAIN pages : pages[q].url = InjectUrl(u) /\ TagKnown(q)
          BY <3>5, <5>1 DEF InjectedKnown
        <5>3. q <= n
          BY <3>1
        <5>4. QED
          BY <3>3, <5>2, <5>3
      <4>2. CASE ~Injected(u)
        <5>1. tag \in tags_list'
          BY <3>2, <3>5, <4>2
        <5>2. TagKnown(n)'
          BY <3>4, <3>5, <5>1 DEF TagKnown
        <5>3. n <= n
          BY <3>1
        <5>4. QED
          BY <3>4, <3>5, <5>2, <5>3
      <4>3. QED
        BY <4>1, <4>2
    <3>6. InjectedKnown'
      <4> SUFFICES ASSUME NEW v \in Addresses, Unique(v) \in injected_list', Marker[1] \notin Names(v)
                   PROVE  \E q \in DOMAIN pages' : pages'[q].url = InjectUrl(v) /\ TagKnown(q)'
        BY DEF InjectedKnown, Unique, Names, InjectUrl, Marker
      <4>1. CASE Unique(v) \in injected_list
        <5>1. PICK q \in DOMAIN pages : pages[q].url = InjectUrl(v) /\ TagKnown(q)
          BY <4>1 DEF InjectedKnown
        <5>2. QED
          BY <3>3, <5>1
      <4>2. CASE Unique(v) \notin injected_list
        <5>1. Unique(v) = Unique(u) /\ Names(u) # {}
          BY <3>2, <4>2
        <5>2. InjectUrl(v) = InjectUrl(u) /\ Names(v) = Names(u)
          BY <5>1, InjectFacts
        <5>3. QED
          BY <3>5, <5>1, <5>2
      <4>3. QED
        BY <4>1, <4>2
    <3>7. TagsKnown'
      <4> SUFFICES ASSUME NEW p \in DOMAIN pages', pages'[p].type = "inject",
                          Marker[1] \notin Names(pages'[p].url)
                   PROVE  \E q \in 1..p : pages'[q].url = pages'[p].url /\ TagKnown(q)'
        BY DEF TagsKnown, TagKnown, Names, Marker
      <4>1. CASE p \in DOMAIN pages /\ pages'[p].url = pages[p].url /\ pages'[p].type = pages[p].type
        <5>1. PICK q \in 1..p : pages[q].url = pages[p].url /\ TagKnown(q)
          BY <4>1 DEF TagsKnown, TagKnown
        <5>2. q \in DOMAIN pages
          BY <1>1, <4>1
        <5>3. QED
          BY <3>3, <4>1, <5>1, <5>2
      <4>2. CASE p = n /\ Names(u) # {} /\ pages'[p].url = InjectUrl(u)
        <5>1. Marker[1] \notin Names(u)
          BY <4>2, InjectFacts
        <5>2. PICK q \in DOMAIN pages' : pages'[q].url = InjectUrl(u) /\ TagKnown(q)' /\ q <= n
          BY <3>5, <4>2, <5>1
        <5>3. q \in 1..p
          BY <1>1, <3>1, <4>2, <5>2
        <5>4. QED
          BY <4>2, <5>2, <5>3
      <4>3. QED
        BY <2>2, <2>4, <4>1, <4>2, MadeFacts
    <3>8. QED
      BY <3>6, <3>7
  <2>5. QED
    BY <2>2, <2>3, <2>4, OpensFacts DEF SameCrawlers
<1>6. QED
  BY <1>3, <1>4, <1>5, Kinds

\* HttpURL lists the tags of every address that is opened with tags, unless
\* injected_list says that it has done so before; and then it has, for a page of
\* the same address with the same names.
THEOREM OpenedTagsKnown == Spec => []TagsKnown
<1>1. Init => InjectedKnown /\ TagsKnown
  BY DEF Init, InjectedKnown, TagsKnown
<1>2. CrawlInv /\ Addressed /\ InjectedKnown /\ TagsKnown /\ [Next]_vars
        => CrawlInv' /\ Addressed' /\ InjectedKnown' /\ TagsKnown'
  BY StepCorrect, Kinds, TaggedStep
<1>3. QED
  BY <1>1, <1>2, InitCorrect, AddressedInit, PTL DEF Spec


-----------------------------------------------------------------------------
(* The pages of the login.                                                 *)

Logins == {p \in DOMAIN pages : pages[p].type = "login"}

\* The links of the login page that are still to be opened.
Left == IF Scanning /\ pages[todo.page].type = "login" THEN Len(todo.links) ELSE 0

Room(n) == n <= 1 \/ \E path \in DOMAIN web.links : n <= 1 + Len(web.links[path])

LoginBound ==
  /\ phase = "init" => Logins = {} /\ ~LOGIN_LOAD /\ todo = Idle
  /\ ~LOGIN_LOAD => Cardinality(Logins) + Left <= 1
  /\ Room(Cardinality(Logins) + Left)

\* How many they are after a step.
LEMMA LoginsFacts ==
  ASSUME CrawlInv, CrawlInv', Addressed, Quiet \/ Posts \/ Makes
  PROVE  /\ Cardinality(Logins) \in Nat /\ Cardinality(Logins') \in Nat
         /\ Cardinality(Logins') <= Cardinality(Logins) + 1
         /\ \/ Cardinality(Logins') = Cardinality(Logins)
            \/ phase = "init" \/ (Scanning /\ pages[todo.page].type = "login")
<1>1. IsFiniteSet(Logins) /\ Cardinality(Logins) \in Nat
  <2>1. DOMAIN pages = 1..Len(pages) /\ Len(pages) \in Int /\ 1 \in Int
    BY DEF CrawlInv, Typed, ArePages
  <2>2. IsFiniteSet(1..Len(pages))
    BY <2>1, FS_Interval
  <2>3. Logins \in SUBSET (1..Len(pages))
    BY <2>1 DEF Logins
  <2>4. IsFiniteSet(Logins)
    BY <2>2, <2>3, FS_Subset
  <2>5. QED
    BY <2>4, FS_CardinalityType
<1>2. ASSUME NEW ps, SameCrawlers(ps), pages' = ps
      PROVE  Logins' = Logins
  BY <1>2 DEF SameCrawlers, Logins
<1>3. \/ Logins' = Logins
      \/ /\ \E n : Logins' = Logins \cup {n}
         /\ phase = "init" \/ (Scanning /\ pages[todo.page].type = "login")
  <2>1. CASE Quiet \/ Posts
    BY <1>2, <2>1 DEF Quiet, Posts
  <2>2. CASE Makes
    <3>1. PICK ps : \E u \in Addresses, type \in {"login", "normal"} :
                      /\ SameCrawlers(ps) /\ NewCrawler(ps, u, type)
                      /\ type = "login" => phase = "init" \/ (Scanning /\ pages[todo.page].type = "login")
      BY <2>2 DEF Makes
    <3>2. PICK u \in Addresses, type \in {"login", "normal"} :
            /\ SameCrawlers(ps) /\ NewCrawler(ps, u, type)
            /\ type = "login" => phase = "init" \/ (Scanning /\ pages[todo.page].type = "login")
      BY <3>1
    <3>3. CASE pages' = ps
      BY <1>2, <3>2, <3>3
    <3>4. CASE Opens(ps, u, type)
      <4> DEFINE n == Len(ps) + 1
      <4>1. /\ \A i \in DOMAIN pages : i \in DOMAIN pages' /\ pages'[i].type = pages[i].type
            /\ n \in DOMAIN pages' /\ pages'[n].type = type
        BY <3>2, <3>4 DEF Opens, SameCrawlers, Page
      <4>2. \A i \in DOMAIN pages' : i \in DOMAIN pages \/ i = n \/ pages'[i].type = "inject"
        BY <3>2, <3>4, MadeFacts
      <4> HIDE DEF n
      <4>3. Logins' = IF type = "login" THEN Logins \cup {n} ELSE Logins
        <5>1. CASE type = "login"
          BY <4>1, <4>2, <5>1 DEF Logins
        <5>2. CASE type # "login"
          BY <4>1, <4>2, <5>2 DEF Logins
        <5>3. QED
          BY <5>1, <5>2
      <4>4. QED
        BY <3>2, <4>3
    <3>5. QED
      BY <3>2, <3>3, <3>4, OpensFacts DEF SameCrawlers
  <2>3. QED
    BY <2>1, <2>2
<1>4. CASE Logins' = Logins
  BY <1>1, <1>4
<1>5. ASSUME NEW n, Logins' = Logins \cup {n}
      PROVE  Cardinality(Logins') \in Nat /\ Cardinality(Logins') <= Cardinality(Logins) + 1
  <2>1. Cardinality(Logins \cup {n}) \in {Cardinality(Logins), Cardinality(Logins) + 1}
    BY <1>1, FS_AddElement
  <2>2. QED
    BY <1>1, <1>5, <2>1
<1>6. QED
  BY <1>1, <1>3, <1>4, <1>5

LEMMA LoginStep ==
  CrawlInv /\ CrawlInv' /\ Addressed /\ LoginBound /\ [Next]_vars => LoginBound'
<1> SUFFICES ASSUME CrawlInv, CrawlInv', Addressed, LoginBound, [Next]_vars PROVE LoginBound'
  OBVIOUS
<1> DEFINE c == Cardinality(Logins)
           d == Cardinality(Logins')
<1>1. Addressed' /\ (Quiet \/ Posts \/ Makes)
  BY Kinds
<1>2. /\ c \in Nat /\ d \in Nat /\ d <= c + 1
      /\ d = c \/ phase = "init" \/ (Scanning /\ pages[todo.page].type = "login")
  BY <1>1, LoginsFacts
<1>3. Left \in Nat /\ Left' \in Nat
  BY <1>1 DEF Left, Addressed
<1>4. \A path \in DOMAIN web.links : Len(web.links[path]) \in Nat
  BY DEF Addressed, IsWeb
<1>5. web' = web
  BY DEF Next, vars, WebCrawlerInit, Start, Stop, ScanLink, FinishScan, Handler, Browser, RefuseNavigation,
         FollowNavigation, PostForm, Redirect, Initialized, Load, Move, CloseTimer
\* A step that adds no more than it takes off the links that are left.
<1>6. ASSUME d + Left' <= c + Left, LOGIN_LOAD' = LOGIN_LOAD, phase' # "init"
      PROVE  LoginBound'
  <2>1. Room(d + Left')
    <3>1. \A k \in Nat : c + Left <= k => d + Left' <= k
      BY <1>2, <1>3, <1>6
    <3>2. CASE c + Left <= 1
      BY <3>1, <3>2 DEF Room
    <3>3. CASE \E path \in DOMAIN web.links : c + Left <= 1 + Len(web.links[path])
      <4>1. PICK path \in DOMAIN web.links : c + Left <= 1 + Len(web.links[path])
        BY <3>3
      <4>2. d + Left' <= 1 + Len(web.links[path])
        BY <1>2, <1>3, <1>4, <1>6, <4>1
      <4>3. QED
        BY <4>2 DEF Room
    <3>4. QED
      BY <3>2, <3>3 DEF LoginBound, Room
  <2>2. Room(Cardinality(Logins) + Left)'
    BY <1>5, <2>1 DEF Room
  <2>3. ~LOGIN_LOAD' => d + Left' <= 1
    BY <1>2, <1>3, <1>6 DEF LoginBound
  <2>4. QED
    BY <1>6, <2>2, <2>3 DEF LoginBound
\* Nothing is scanned, and the engine has begun.
<1>7. ASSUME ~Scanning, phase # "init", phase' # "init", LOGIN_LOAD' = LOGIN_LOAD, ~Scanning'
      PROVE  LoginBound'
  <2>1. Left' = 0 /\ d = c
    BY <1>2, <1>7 DEF Left
  <2>2. d + Left' <= c + Left
    BY <1>2, <1>3, <2>1
  <2>3. QED
    BY <1>6, <1>7, <2>2
<1>8. CASE WebCrawlerInit
  <2>1. phase' # "init" /\ LOGIN_LOAD' = LOGIN_LOAD /\ todo' = todo /\ phase = "init"
    BY <1>8 DEF WebCrawlerInit
  <2>2. ~LOGIN_LOAD /\ Logins = {} /\ todo.links = <<>>
    BY <2>1 DEF LoginBound, Idle
  <2>3. c = 0 /\ Left' = 0
    BY <2>1, <2>2, FS_EmptySet DEF Left, Scanning
  <2>4. d + Left' <= 1
    BY <1>2, <2>3
  <2>5. QED
    BY <2>1, <2>4 DEF LoginBound, Room
<1>9. CASE ScanLink
  <2>1. Scanning /\ LOGIN_LOAD' = LOGIN_LOAD /\ phase' = phase /\ todo # Idle
    BY <1>9 DEF ScanLink, Scanning, Idle
  <2>2. phase # "init" /\ todo.page \in DOMAIN pages
    BY <2>1 DEF LoginBound, CrawlInv, Typed
  <2>3. todo' = [todo EXCEPT !.links = Tail(todo.links)] /\ DOMAIN todo = {"page", "links"}
    BY <1>9 DEF ScanLink, CrawlInv, Typed
  <2>4. todo'.page = todo.page /\ todo'.links = Tail(todo.links)
    BY <2>3
  <2>5. Tail(todo.links) \in Seq(Links) /\ Len(todo.links) = Len(Tail(todo.links)) + 1
    BY <1>9, FollowedFacts
  <2>6. pages'[todo.page].type = pages[todo.page].type
    <3>1. NewCrawler(pages, FixURL(ReBuildURL(pages[todo.page].doc, pages[todo.page].url, Head(todo.links))),
                     pages[todo.page].type)
      BY <1>9 DEF ScanLink
    <3>2. pages[todo.page].type \in {"login", "normal"} /\ ArePages(pages)
      BY <1>9, FollowedFacts DEF CrawlInv, Typed
    <3>3. QED
      BY <2>2, <3>1, <3>2, NewCrawlerFacts
  <2>7. CASE pages[todo.page].type = "login"
    <3>1. Left = Len(Tail(todo.links)) + 1
      BY <2>1, <2>5, <2>7 DEF Left
    <3>2. Left' <= Len(Tail(todo.links))
      <4>1. Len(Tail(todo.links)) \in Nat
        BY <2>5
      <4>2. QED
        BY <2>4, <4>1 DEF Left
    <3>3. Len(Tail(todo.links)) \in Nat
      BY <2>5
    <3>4. d + Left' <= c + Left
      BY <1>2, <1>3, <3>1, <3>2, <3>3
    <3>5. QED
      BY <1>6, <2>1, <2>2, <3>4
  <2>8. CASE pages[todo.page].type # "login"
    <3>1. Left = 0 /\ Left' = 0 /\ d = c
      BY <1>2, <2>2, <2>4, <2>6, <2>8 DEF Left
    <3>2. d + Left' <= c + Left
      BY <1>2, <3>1
    <3>3. QED
      BY <1>6, <2>1, <2>2, <3>2
  <2>9. QED
    BY <2>7, <2>8
\* The login page has been loaded, for the first time or once more.
<1>10. ASSUME NEW p \in DOMAIN pages, Load(p) PROVE LoginBound'
  <2>1. todo = Idle /\ phase' = phase /\ phase # "init"
    BY <1>10 DEF Load, Up
  <2>2. PICK doc \in {pages[p].doc, NoUrl} :
          /\ Becomes(p, pages', "loaded", doc, pages[p].next)
          /\ todo' = [page |-> p, links |-> IF pages[p].type = "login" /\ LOGIN_LOAD THEN <<>> ELSE Wanted(doc)]
          /\ LOGIN_LOAD' = LoginLoaded(pages[p])
    BY <1>10, LoadEffect
  <2>3. Left = 0 /\ d = c
    BY <1>2, <2>1 DEF Left, Scanning, Idle
  <2>4. todo'.page = p /\ pages'[p].type = pages[p].type
    BY <2>2 DEF Becomes
  <2>5. CASE pages[p].type # "login" \/ LOGIN_LOAD
    <3>1. LOGIN_LOAD' = LOGIN_LOAD
      BY <2>2, <2>5 DEF LoginLoaded, CrawlInv, Typed
    <3>2. pages[p].type = "login" => todo'.links = <<>>
      BY <2>2, <2>5
    <3>3. Left' = 0
      BY <2>4, <3>2 DEF Left, Scanning
    <3>4. d + Left' <= c + Left
      BY <1>2, <2>3, <3>3
    <3>5. QED
      BY <1>6, <2>1, <3>1, <3>4
  <2>6. CASE pages[p].type = "login" /\ ~LOGIN_LOAD
    <3>1. LOGIN_LOAD' /\ c <= 1
      <4>1. LoginLoaded(pages[p])
        BY <2>6 DEF LoginLoaded
      <4>2. LOGIN_LOAD'
        BY <2>2, <4>1, Zenon
      <4>3. c + Left <= 1
        BY <2>6 DEF LoginBound
      <4>4. QED
        BY <1>2, <2>3, <4>2, <4>3
    <3>2. todo'.links = Wanted(doc)
      BY <2>2, <2>6
    <3>3. doc \in Addresses \cup {NoUrl} /\ IsWeb(web)
      BY DEF Addressed, Located, Clear
    <3>4. /\ Wanted(doc) \in Seq(Links) /\ Len(Wanted(doc)) <= Len(LinksOf(doc)) /\ LinksOf(doc) \in Seq(Links)
          /\ Wanted(doc) # <<>> => doc \in Addresses /\ doc.path \in DOMAIN web.links
      BY <3>3, ContentFacts
    <3>5. Room(d + Left')
      <4>1. CASE Wanted(doc) = <<>>
        BY <1>2, <2>3, <3>1, <3>2, <4>1 DEF Left, Scanning, Room
      <4>2. CASE Wanted(doc) # <<>>
        <5>1. doc # NoUrl /\ doc.path \in DOMAIN web.links
          BY <3>4, <4>2, CrawlAssumption
        <5>2. LinksOf(doc) = web.links[doc.path]
          BY <5>1 DEF LinksOf, Content
        <5>3. Left' = Len(Wanted(doc))
          BY <2>4, <2>6, <3>2, <4>2 DEF Left, Scanning
        <5>4. d + Left' <= 1 + Len(web.links[doc.path])
          BY <1>2, <1>3, <1>4, <2>3, <3>1, <3>4, <5>1, <5>2, <5>3
        <5>5. QED
          BY <5>1, <5>4 DEF Room
      <4>3. QED
        BY <4>1, <4>2
    <3>6. Room(Cardinality(Logins) + Left)'
      BY <1>5, <3>5 DEF Room
    <3>7. QED
      BY <2>1, <3>1, <3>6 DEF LoginBound
  <2>7. QED
    BY <2>5, <2>6
<1>11. CASE Start \/ Stop \/ FinishScan
  <2>1. ~Scanning /\ ~Scanning' /\ LOGIN_LOAD' = LOGIN_LOAD
    BY <1>11 DEF Start, Stop, FinishScan, Scanning, Idle
  <2>2. phase # "init" /\ phase' # "init"
    BY <1>11 DEF Start, Stop, FinishScan, LoginBound
  <2>3. QED
    BY <1>7, <2>1, <2>2
<1>12. ASSUME NEW p \in DOMAIN pages,
              Handler(p) \/ Redirect(p) \/ Initialized(p) \/ Move(p) \/ CloseTimer(p)
       PROVE  LoginBound'
  <2>1. todo = Idle /\ todo' = Idle /\ LOGIN_LOAD' = LOGIN_LOAD /\ phase # "init" /\ phase' = phase
    BY <1>12 DEF Handler, RefuseNavigation, FollowNavigation, PostForm, Asking, Redirect, Initialized,
                 Loading, Move, CloseTimer, Up
  <2>2. ~Scanning /\ ~Scanning'
    BY <2>1 DEF Scanning, Idle
  <2>3. QED
    BY <1>7, <2>1, <2>2
<1>13. CASE UNCHANGED vars
  BY <1>13 DEF vars, LoginBound, Logins, Left, Scanning, Room
<1>14. QED
  BY <1>8, <1>9, <1>10, <1>11, <1>12, <1>13 DEF Next, Browser

\* onLoadFinished looks for links in the login page once: however often that page
\* is loaded again, the pages of the login are no more than its links, and itself.
THEOREM LoginSearchedOnce == Spec => []LoginScannedOnce
<1>1. Init => LoginBound
  <2> SUFFICES ASSUME Init PROVE LoginBound
    OBVIOUS
  <2>1. Logins = {} /\ todo = Idle /\ ~LOGIN_LOAD /\ Left = 0
    BY DEF Init, Logins, Left, Scanning, Idle
  <2>2. Cardinality(Logins) + Left <= 1
    BY <2>1, FS_EmptySet
  <2>3. QED
    BY <2>1, <2>2 DEF LoginBound, Room
<1>2. CrawlInv /\ Addressed /\ LoginBound => LoginScannedOnce
  <2> SUFFICES ASSUME CrawlInv, Addressed, LoginBound PROVE LoginScannedOnce
    OBVIOUS
  <2>1. Cardinality(Logins) \in Nat
    <3>1. DOMAIN pages = 1..Len(pages) /\ Len(pages) \in Int /\ 1 \in Int
      BY DEF CrawlInv, Typed, ArePages
    <3>2. IsFiniteSet(1..Len(pages))
      BY <3>1, FS_Interval
    <3>3. Logins \in SUBSET (1..Len(pages))
      BY <3>1 DEF Logins
    <3>4. QED
      BY <3>2, <3>3, FS_Subset, FS_CardinalityType
  <2>2. Left \in Nat
    BY DEF Left, Addressed
  <2>3. \A path \in DOMAIN web.links : Len(web.links[path]) \in Nat
    BY DEF Addressed, IsWeb
  <2>4. \/ Cardinality(Logins) <= 1
        \/ \E path \in DOMAIN web.links : Cardinality(Logins) <= 1 + Len(web.links[path])
    <3>1. CASE Cardinality(Logins) + Left <= 1
      BY <2>1, <2>2, <3>1
    <3>2. CASE \E path \in DOMAIN web.links : Cardinality(Logins) + Left <= 1 + Len(web.links[path])
      BY <2>1, <2>2, <2>3, <3>2
    <3>3. QED
      BY <3>1, <3>2 DEF LoginBound, Room
  <2>5. QED
    BY <2>4 DEF LoginScannedOnce, Logins
<1>3. CrawlInv /\ Addressed /\ LoginBound /\ [Next]_vars => CrawlInv' /\ Addressed' /\ LoginBound'
  BY StepCorrect, Kinds, LoginStep
<1>4. QED
  BY <1>1, <1>2, <1>3, InitCorrect, AddressedInit, PTL DEF Spec


-----------------------------------------------------------------------------
(* Tags in posted forms.                                                   *)

\* The sites for which they are all known.
Clean == web.weird = {} /\ ~UsesMarker

CleanLinks == {h \in Links : ~IsPost(h.url)}

\* The tags p has put into a form with this action are known; or they must be,
\* before onNavigationRequested lets p go there.
HasTag(tags, p, asked) == \E tag \in tags : tag.page = p /\ FixUrlEnd(Browsed(tag.url)) = FixUrlEnd(asked)
Covered(tags, posts, p, asked) == HasTag(tags, p, asked) \/ FixUrlEnd(asked) \in posts

\* The same for what page p, as it is, may ask for, and where it has been let go to.
Knows(page, p, actions, scanned, tags, posts) ==
  page.type = "normal" =>
    /\ page.st = "loaded" /\ scanned # p => \A f \in actions : Covered(tags, posts, p, Browsed(f))
    /\ page.st = "asking" /\ IsPost(page.next) => Covered(tags, posts, p, page.next)
    /\ page.st \in {"loading", "ready", "loaded"} /\ IsPost(page.next) => HasTag(tags, p, page.next)

FormsKnownTo(p) == Knows(pages[p], p, ActionsOf(pages[p].doc), todo.page, tags_list, all_form_post)

\* Forms in injected_list are in all_form_post, too; and no link leads to a form.
FormsListed ==
  /\ \A p \in DOMAIN pages : ~IsPost(pages[p].url)
  /\ todo.links \in Seq(CleanLinks)
  /\ \A f \in Addresses : f \in injected_list => f \in all_form_post
  /\ \A f \in all_form_post : f \in Clear /\ f.slash = FALSE

FormsKnown == Clean => FormsListed /\ \A p \in DOMAIN pages : FormsKnownTo(p)

LEMMA CleanFacts ==
  ASSUME Clean
  PROVE  /\ web.target # NoUrl => ~IsPost(web.target)
         /\ web.login # NoUrl => ~IsPost(web.login)
         /\ \A path \in DOMAIN web.links : \A h \in ToSet(web.links[path]) : ~IsPost(h.url)
         /\ \A path \in DOMAIN web.moves : \A u \in web.moves[path] : ~IsPost(u)
         /\ \A path \in DOMAIN web.redirect : ~IsPost(web.redirect[path])
  BY DEF Clean, UsesMarker

\* What a page of a clean site may ask for, and what links there are in it.
LEMMA CleanContent ==
  ASSUME Clean, IsWeb(web), NEW doc \in Addresses \cup {NoUrl}
  PROVE  /\ Wanted(doc) \in Seq(CleanLinks)
         /\ \A u \in MovesOf(doc) : IsPost(u) => u \in ActionsOf(doc)
<1>1. /\ LinksOf(doc) \in Seq(Links)
      /\ \A h \in ToSet(LinksOf(doc)) : ~IsPost(h.url)
  <2>1. LinksOf(doc) \in Seq(Links)
    BY ContentFacts
  <2>2. \A h \in ToSet(<<>>) : FALSE
    BY DEF ToSet
  <2>3. QED
    BY <2>1, <2>2, CleanFacts DEF LinksOf, Content
<1> DEFINE S == {h \in ToSet(LinksOf(doc)) :
                   /\ ~Has(h.url, "logout")
                   /\ h.kind = "abs"  => IsPrefix(Site(doc.origin[1], HOSTNAME), h.url.origin)
                   /\ h.kind = "root" => IsPrefix(Site(doc.origin[1], HOSTNAME), doc.origin)}
           links == LinksOf(doc)
<1>2. Wanted(doc) = Filter(links, S)
  BY DEF Wanted
<1>3. Links \cap S \subseteq CleanLinks
  BY <1>1 DEF CleanLinks
<1> HIDE DEF S, links
<1>4. Filter(links, S) \in Seq(Links \cap S)
  BY <1>1, FilterType DEF links
<1>5. Wanted(doc) \in Seq(CleanLinks)
  BY <1>2, <1>3, <1>4
<1>6. \A u \in Content(web.moves, doc, {}) : ~IsPost(u)
  BY CleanFacts DEF Content
<1>7. \A u \in MovesOf(doc) : IsPost(u) => u \in ActionsOf(doc)
  BY <1>6 DEF MovesOf
<1>8. QED
  BY <1>5, <1>7

LEMMA KnowsLater ==
  ASSUME web' = web, NEW i
  PROVE  FormsKnownTo(i)'
           <=> Knows(pages'[i], i, ActionsOf(pages'[i].doc), todo'.page, tags_list', all_form_post')
<1>1. ActionsOf(pages[i].doc)' = ActionsOf(pages'[i].doc)
  BY DEF ActionsOf, Content
<1>2. QED
  BY <1>1 DEF FormsKnownTo

\* Growing lists and steps of other pages do not change what is known.
LEMMA KnownStays ==
  ASSUME NEW i \in DOMAIN pages, FormsKnownTo(i), pages'[i] = pages[i], web' = web,
         tags_list \subseteq tags_list', all_form_post \subseteq all_form_post',
         todo.page = i => todo'.page = i
  PROVE  FormsKnownTo(i)'
<1>1. \A f : HasTag(tags_list, i, f) => HasTag(tags_list', i, f)
  BY DEF HasTag
<1>2. \A f : Covered(tags_list, all_form_post, i, f) => Covered(tags_list', all_form_post', i, f)
  BY <1>1 DEF Covered
<1>3. Knows(pages[i], i, ActionsOf(pages[i].doc), todo.page, tags_list, all_form_post)
  BY DEF FormsKnownTo
<1>4. Knows(pages[i], i, ActionsOf(pages[i].doc), todo'.page, tags_list', all_form_post')
  BY <1>1, <1>2, <1>3 DEF Knows
<1>5. QED
  BY <1>4, KnowsLater

\* What crawlers are made does not matter, as long as they are not of forms.
LEMMA PagesKnow ==
  ASSUME CrawlInv, Addressed, FormsListed, \A i \in DOMAIN pages : FormsKnownTo(i),
         web' = web, tags_list \subseteq tags_list', all_form_post \subseteq all_form_post',
         NEW ps, SameCrawlers(ps), NEW u \in Addresses, NEW type \in {"login", "normal"}, ~IsPost(u),
         pages' = ps \/ Opens(ps, u, type),
         \A i \in DOMAIN pages :
           (ps[i] = pages[i] /\ (todo.page = i => todo'.page = i)) \/ FormsKnownTo(i)'
  PROVE  \A i \in DOMAIN pages' : ~IsPost(pages'[i].url) /\ FormsKnownTo(i)'
<1>1. ASSUME NEW i \in DOMAIN pages
      PROVE  i \in DOMAIN pages' /\ pages'[i] = ps[i] /\ ~IsPost(pages'[i].url) /\ FormsKnownTo(i)'
  <2>1. i \in DOMAIN pages' /\ pages'[i] = ps[i]
    BY DEF Opens, SameCrawlers
  <2>2. ~IsPost(pages'[i].url)
    BY <2>1 DEF SameCrawlers, FormsListed
  <2>3. FormsKnownTo(i)'
    BY <2>1, KnownStays
  <2>4. QED
    BY <2>1, <2>2, <2>3
<1>2. CASE pages' = ps
  BY <1>1, <1>2 DEF SameCrawlers
<1>3. CASE Opens(ps, u, type)
  <2> TAKE i \in DOMAIN pages'
  <2>1. CASE i \in DOMAIN pages
    BY <1>1, <2>1
  <2>2. CASE i \notin DOMAIN pages
    <3>1. pages'[i] \in {Page(u, type, IF type = "login" THEN "loading" ELSE "asking"),
                         Page(InjectUrl(u), "inject", "open")}
      BY <1>3, <2>2 DEF Opens, SameCrawlers
    <3>2. ~IsPost(InjectUrl(u))
      BY InjectFacts
    <3>3. ~IsPost(Browsed(u)) /\ ~IsPost(Browsed(InjectUrl(u)))
      BY <3>2, InjectFacts, BrowsedFacts
    <3>4. /\ ~IsPost(pages'[i].url) /\ ~IsPost(pages'[i].next) /\ pages'[i].st # "loaded"
      BY <3>1, <3>2, <3>3 DEF Page
    <3>5. QED
      BY <3>4, KnowsLater DEF Knows
  <2>3. QED
    BY <2>1, <2>2
<1>4. QED
  BY <1>2, <1>3

\* A step of one page p, or of none.
LEMMA ChangeKnows ==
  ASSUME CrawlInv, Addressed, FormsListed, \A i \in DOMAIN pages : FormsKnownTo(i),
         web' = web, tags_list \subseteq tags_list', all_form_post' = all_form_post,
         injected_list' = injected_list, todo'.links \in Seq(CleanLinks),
         SameCrawlers(pages'),
         \A i \in DOMAIN pages :
           (pages'[i] = pages[i] /\ (todo.page = i => todo'.page = i)) \/ FormsKnownTo(i)'
  PROVE  FormsListed' /\ \A i \in DOMAIN pages' : FormsKnownTo(i)'
<1>1. ASSUME NEW i \in DOMAIN pages'
      PROVE  ~IsPost(pages'[i].url) /\ FormsKnownTo(i)'
  <2>1. i \in DOMAIN pages /\ pages'[i].url = pages[i].url
    BY DEF SameCrawlers
  <2>2. FormsKnownTo(i)'
    BY <2>1, KnownStays
  <2>3. QED
    BY <2>1, <2>2 DEF FormsListed
<1>2. FormsListed'
  BY <1>1 DEF FormsListed, IsPost, Marker
<1>3. QED
  BY <1>1, <1>2

LEMMA MakesKnows ==
  ASSUME CrawlInv, Addressed, FormsListed, \A i \in DOMAIN pages : FormsKnownTo(i),
         web' = web, all_form_post' = all_form_post, todo'.links \in Seq(CleanLinks),
         NEW ps, SameCrawlers(ps), NEW u \in Addresses, NEW type \in {"login", "normal"}, ~IsPost(u),
         NewCrawler(ps, u, type),
         \A i \in DOMAIN pages :
           (ps[i] = pages[i] /\ (todo.page = i => todo'.page = i))
             \/ (pages'[i] = ps[i] /\ tags_list \subseteq tags_list' => FormsKnownTo(i)')
  PROVE  FormsListed' /\ \A i \in DOMAIN pages' : FormsKnownTo(i)'
<1>1. (Known(u) /\ pages' = ps /\ UNCHANGED lists) \/ Opens(ps, u, type)
  BY OpensFacts DEF SameCrawlers
<1>2. /\ tags_list \subseteq tags_list'
      /\ \A f \in Addresses : f \in injected_list' => f \in injected_list
  <2>1. CASE UNCHANGED lists
    BY <2>1 DEF lists
  <2>2. CASE ~Known(u)
    BY <2>2, UniqueFacts DEF NewCrawler
  <2>3. QED
    BY <1>1, <2>1, <2>2 DEF Opens
<1>3. \A i \in DOMAIN pages : pages'[i] = ps[i]
  BY <1>1 DEF Opens, SameCrawlers
<1>4. \A i \in DOMAIN pages' : ~IsPost(pages'[i].url) /\ FormsKnownTo(i)'
  BY <1>1, <1>2, <1>3, PagesKnow
<1>5. FormsListed'
  BY <1>2, <1>4 DEF FormsListed, IsPost, Marker
<1>6. QED
  BY <1>4, <1>5


AllKnown == FormsListed /\ \A i \in DOMAIN pages : FormsKnownTo(i)

LEMMA IdleFacts ==
  ASSUME CrawlInv
  PROVE  todo = Idle => (\A i \in DOMAIN pages : todo.page # i) /\ todo.links = <<>>
                        /\ todo.links \in Seq(CleanLinks)
  BY DEF CrawlInv, Typed, ArePages, Idle

\* A step of page p, when nothing is scanned, or only p.
LEMMA PageKnows ==
  ASSUME CrawlInv, CrawlInv', Addressed, AllKnown, NEW p \in DOMAIN pages, todo = Idle \/ todo.page = p,
         NEW st, NEW doc, NEW next, Becomes(p, pages', st, doc, next),
         web' = web, tags_list \subseteq tags_list', all_form_post' = all_form_post,
         injected_list' = injected_list, todo'.links \in Seq(CleanLinks),
         FormsKnownTo(p)'
  PROVE  AllKnown'
<1>1. SameCrawlers(pages')
  <2>1. \A i \in DOMAIN pages : pages'[i].url = pages[i].url /\ pages'[i].type = pages[i].type
    BY DEF Becomes
  <2>2. QED
    BY <2>1 DEF Becomes, SameCrawlers, CrawlInv, Typed
<1>2. \A i \in DOMAIN pages : i # p => pages'[i] = pages[i] /\ todo.page # i
  BY IdleFacts DEF Becomes
<1>3. QED
  BY <1>1, <1>2, ChangeKnows DEF AllKnown

LEMMA KnowsEngine ==
  ASSUME Clean, CrawlInv, CrawlInv', Addressed, AllKnown, WebCrawlerInit \/ Start \/ Stop
  PROVE  AllKnown'
<1>1. web' = web /\ todo' = todo /\ all_form_post' = all_form_post /\ todo'.links \in Seq(CleanLinks)
  BY DEF WebCrawlerInit, Start, Stop, AllKnown, FormsListed
<1>2. CASE UNCHANGED <<pages, lists>>
  BY <1>1, <1>2, SameFacts, ChangeKnows DEF lists, AllKnown, SameCrawlers
<1>3. ASSUME NEW u \in Addresses, ~IsPost(u), NEW type \in {"login", "normal"},
             NewCrawler(pages, FixURL(u), type)
      PROVE  AllKnown'
  <2>1. FixURL(u) \in Addresses /\ ~IsPost(FixURL(u))
    BY <1>3, FixFacts DEF IsPost
  <2>2. QED
    BY <1>1, <1>3, <2>1, SameFacts, MakesKnows DEF AllKnown
<1>4. CASE WebCrawlerInit
  <2>1. web.login # NoUrl => web.login \in Addresses /\ ~IsPost(web.login)
    BY CleanFacts DEF Addressed, IsWeb
  <2>2. QED
    BY <1>2, <1>3, <1>4, <2>1 DEF WebCrawlerInit
<1>5. CASE Start
  <2>1. web.target \in Addresses /\ ~IsPost(web.target)
    BY CleanFacts, CrawlAssumption DEF Addressed, IsWeb
  <2>2. QED
    BY <1>3, <1>5, <2>1 DEF Start
<1>6. CASE Stop
  <2>1. /\ DOMAIN pages' = DOMAIN pages
        /\ \A i \in DOMAIN pages :
             /\ pages'[i].url = pages[i].url /\ pages'[i].type = pages[i].type
             /\ pages'[i].st \in {pages[i].st, "closed"}
             /\ pages'[i].doc = pages[i].doc /\ pages'[i].next = pages[i].next
    BY <1>6, StopEffect
  <2>2. UNCHANGED lists
    BY <1>6 DEF Stop
  <2>3. SameCrawlers(pages')
    BY <2>1 DEF SameCrawlers, CrawlInv, Typed
  <2>4. ASSUME NEW i \in DOMAIN pages
        PROVE  FormsKnownTo(i)'
    <3>1. Knows(pages[i], i, ActionsOf(pages[i].doc), todo.page, tags_list, all_form_post)
      BY DEF AllKnown, FormsKnownTo
    <3>2. Knows(pages'[i], i, ActionsOf(pages'[i].doc), todo'.page, tags_list', all_form_post')
      <4>1. CASE pages'[i].st = "closed"
        BY <4>1 DEF Knows
      <4>2. CASE pages'[i].st = pages[i].st
        BY <1>1, <2>1, <2>2, <3>1, <4>2 DEF Knows, lists
      <4>3. QED
        BY <2>1, <4>1, <4>2
    <3>3. QED
      BY <1>1, <3>2, KnowsLater
  <2>5. QED
    BY <1>1, <2>2, <2>3, <2>4, ChangeKnows DEF lists, AllKnown
<1>7. QED
  BY <1>4, <1>5, <1>6

LEMMA KnowsScan ==
  ASSUME Clean, CrawlInv, CrawlInv', Addressed, AllKnown, ScanLink
  PROVE  AllKnown'
<1> DEFINE page == pages[todo.page]
           h == Head(todo.links)
           u == FixURL(ReBuildURL(page.doc, page.url, h))
<1>1. /\ NewCrawler(pages, u, page.type) /\ web' = web /\ all_form_post' = all_form_post
      /\ todo.links # <<>> /\ todo' = [todo EXCEPT !.links = Tail(todo.links)]
  BY DEF ScanLink
<1>2. /\ todo.page \in DOMAIN pages /\ page.type \in {"login", "normal"}
      /\ u \in Addresses /\ u.args \in {h.url.args, page.url.args}
  BY FollowedFacts
<1>3. todo.links \in Seq(CleanLinks)
  BY DEF AllKnown, FormsListed
<1>4. Tail(todo.links) \in Seq(CleanLinks) /\ h \in CleanLinks
  BY <1>1, <1>3
<1>5. ~IsPost(h.url) /\ ~IsPost(page.url)
  BY <1>2, <1>4 DEF CleanLinks, AllKnown, FormsListed
<1> HIDE DEF u, h
<1>6. ~IsPost(u)
  BY <1>2, <1>5 DEF IsPost
<1>7. todo'.page = todo.page /\ todo'.links = Tail(todo.links)
  <2>1. DOMAIN todo = {"page", "links"}
    BY DEF CrawlInv, Typed
  <2>2. QED
    BY <1>1, <2>1
<1>8. QED
  BY <1>1, <1>2, <1>4, <1>6, <1>7, SameFacts, MakesKnows DEF AllKnown

\* A form that is in injected_list has been posted already.
LEMMA KnowsFinish ==
  ASSUME Clean, CrawlInv, CrawlInv', Addressed, AllKnown, FinishScan
  PROVE  AllKnown'
<1>0. PICK p \in DOMAIN pages : p = todo.page
  BY FinishEffect
<1> DEFINE page == pages[p]
<1>1. p \in DOMAIN pages /\ Becomes(p, pages', page.st, page.doc, page.next)
  BY <1>0, FinishEffect
<1>2. /\ web' = web /\ todo' = Idle /\ UNCHANGED <<injected_list, all_form_post>>
      /\ tags_list \subseteq tags_list'
      /\ page.type = "normal" =>
           tags_list' = tags_list \cup {[page |-> p, url |-> f] : f \in NewForms(page.doc)}
  <2>1. ~Weird(page.doc)
    BY DEF Clean, Weird
  <2>2. QED
    BY <1>0, <2>1 DEF FinishScan, Scanned
<1>3. todo'.links \in Seq(CleanLinks)
  BY <1>2 DEF Idle
<1>4. page.doc \in Addresses \cup {NoUrl} /\ IsWeb(web)
  BY <1>1 DEF Addressed, Located, Clear
<1>5. ASSUME page.type = "normal", NEW f \in ActionsOf(page.doc)
      PROVE  Covered(tags_list', all_form_post', p, Browsed(f))
  <2>1. f \in Addresses
    BY <1>4, ContentFacts
  <2>2. CASE f \in injected_list
    <3>1. f \in all_form_post /\ f \in Clear /\ f.slash = FALSE
      BY <2>1, <2>2 DEF AllKnown, FormsListed
    <3>2. FixUrlEnd(Browsed(f)) = f
      BY <3>1, ClearFacts
    <3>3. QED
      BY <1>2, <3>1, <3>2 DEF Covered
  <2>3. CASE f \notin injected_list
    <3>1. f \in NewForms(page.doc)
      BY <2>3 DEF NewForms
    <3>2. [page |-> p, url |-> f] \in tags_list'
      BY <1>2, <1>5, <3>1
    <3>3. QED
      BY <3>2 DEF Covered, HasTag
  <2>4. QED
    BY <2>2, <2>3
<1>6. Knows(page, p, ActionsOf(page.doc), p, tags_list, all_form_post)
  BY <1>0, <1>1 DEF AllKnown, FormsKnownTo
<1>7. Knows(pages'[p], p, ActionsOf(pages'[p].doc), todo'.page, tags_list', all_form_post')
  <2>1. /\ pages'[p].type = page.type /\ pages'[p].st = page.st
        /\ pages'[p].doc = page.doc /\ pages'[p].next = page.next
    BY <1>1 DEF Becomes
  <2>2. \A f : HasTag(tags_list, p, f) => HasTag(tags_list', p, f)
    BY <1>2 DEF HasTag
  <2>3. \A f : Covered(tags_list, all_form_post, p, f) => Covered(tags_list', all_form_post', p, f)
    BY <1>2, <2>2 DEF Covered
  <2> HIDE DEF page
  <2>4. QED
    BY <1>5, <1>6, <2>1, <2>2, <2>3 DEF Knows
<1>8. FormsKnownTo(p)'
  BY <1>2, <1>7, KnowsLater
<1>9. QED
  BY <1>0, <1>1, <1>2, <1>3, <1>8, PageKnows


\* onNavigationRequested: the action of a form has not been posted, and so the
\* page that asks has put tags of its own into it.
LEMMA KnowsHandler ==
  ASSUME Clean, CrawlInv, CrawlInv', Addressed, AllKnown, NEW p \in DOMAIN pages, Handler(p) \/ CloseTimer(p)
  PROVE  AllKnown'
<1> DEFINE page == pages[p]
<1>1. /\ Asked(p) \in Addresses /\ Asked(p) \in Clear /\ Asked(p).slash = FALSE
      /\ (IsPost(Asked(p)) <=> IsPost(page.next))
  <2>1. page.next \in Clear
    BY DEF Addressed, Located
  <2>2. Asked(p) \in Clear
    BY <2>1, ClearFacts DEF Asked
  <2>3. QED
    BY <2>1, <2>2, FixFacts DEF Asked, IsPost, Clear
<1>2. /\ todo = Idle /\ todo' = Idle /\ web' = web
      /\ todo'.links \in Seq(CleanLinks) /\ \A i \in DOMAIN pages : todo.page # i
  <2>1. todo = Idle /\ todo' = todo /\ web' = web
    BY DEF Handler, RefuseNavigation, FollowNavigation, PostForm, Asking, CloseTimer
  <2>2. QED
    BY <2>1, IdleFacts
<1>3. CASE RefuseNavigation(p) \/ CloseTimer(p)
  <2>1. pages' = Set(p, "closed") /\ UNCHANGED lists /\ all_form_post' = all_form_post
    BY <1>3 DEF RefuseNavigation, CloseTimer
  <2>2. Becomes(p, pages', "closed", page.doc, page.next)
    BY <2>1, SetEffect
  <2>3. FormsKnownTo(p)'
    BY <1>2, <2>2, KnowsLater DEF Knows, Becomes
  <2>4. QED
    BY <1>2, <2>1, <2>2, <2>3, PageKnows DEF lists
<1>4. CASE FollowNavigation(p)
  <2>1. ~IsPost(page.next) /\ all_form_post' = all_form_post
    BY <1>1, <1>4 DEF FollowNavigation
  <2>2. PICK ps :
           /\ Becomes(p, ps, "loading", page.doc, page.next) /\ ArePages(ps)
           /\ \/ pages' = ps /\ UNCHANGED lists
              \/ NewCrawler(ps, FixURL(Asked(p)), "normal")
    BY <1>4, FollowEffect
  <2>3. ASSUME pages'[p] = ps[p]
        PROVE  FormsKnownTo(p)'
    <3>1. pages'[p].st = "loading" /\ pages'[p].next = page.next
      BY <2>2, <2>3 DEF Becomes
    <3>2. QED
      BY <1>2, <2>1, <3>1, KnowsLater DEF Knows
  <2>4. CASE pages' = ps /\ UNCHANGED lists
    BY <1>2, <2>1, <2>2, <2>3, <2>4, PageKnows DEF lists
  <2>5. CASE NewCrawler(ps, FixURL(Asked(p)), "normal")
    <3>1. FixURL(Asked(p)) \in Addresses /\ ~IsPost(FixURL(Asked(p)))
      BY <1>1, <2>1, FixFacts DEF IsPost
    <3>2. SameCrawlers(ps)
      <4>1. \A i \in DOMAIN pages : ps[i].url = pages[i].url /\ ps[i].type = pages[i].type
        BY <2>2 DEF Becomes
      <4>2. QED
        BY <2>2, <4>1 DEF SameCrawlers, Becomes
    <3>3. \A i \in DOMAIN pages : i # p => ps[i] = pages[i]
      BY <2>2 DEF Becomes
    <3>4. ASSUME NEW i \in DOMAIN pages
          PROVE  \/ ps[i] = pages[i] /\ (todo.page = i => todo'.page = i)
                 \/ pages'[i] = ps[i] /\ tags_list \subseteq tags_list' => FormsKnownTo(i)'
      <4>1. CASE i = p
        BY <2>3, <4>1
      <4>2. CASE i # p
        BY <1>2, <3>3, <4>2
      <4>3. QED
        BY <4>1, <4>2
    <3>5. QED
      BY <1>2, <2>1, <2>5, <3>1, <3>2, <3>4, MakesKnows DEF AllKnown
  <2>6. QED
    BY <2>2, <2>4, <2>5
<1>5. CASE PostForm(p)
  <2>1. /\ page.st = "asking" /\ IsPost(page.next) /\ Asked(p) \notin all_form_post
        /\ pages' = Set(p, "loading") /\ tags_list' = tags_list
        /\ all_form_post' = all_form_post \cup {Asked(p)}
        /\ injected_list' = injected_list \cup {Asked(p)}
    BY <1>1, <1>5 DEF PostForm, Asking, Refused
  <2>2. Becomes(p, pages', "loading", page.doc, page.next)
    BY <2>1, SetEffect
  <2>3. page.type = "normal"
    BY <2>1, FieldFacts DEF IsPage
  <2>4. Knows(page, p, ActionsOf(page.doc), todo.page, tags_list, all_form_post)
    BY DEF AllKnown, FormsKnownTo
  <2>5. HasTag(tags_list, p, page.next)
    BY <2>1, <2>3, <2>4 DEF Knows, Covered, Asked
  <2>6. pages'[p].st = "loading" /\ pages'[p].next = page.next
    BY <2>2 DEF Becomes
  <2>7. FormsKnownTo(p)'
    <3>1. Knows(pages'[p], p, ActionsOf(pages'[p].doc), todo'.page, tags_list', all_form_post')
      BY <2>1, <2>5, <2>6 DEF Knows
    <3>2. QED
      BY <1>2, <3>1, KnowsLater
  <2>8. \A i \in DOMAIN pages : i # p => pages'[i] = pages[i]
    BY <2>2 DEF Becomes
  <2>9. ASSUME NEW i \in DOMAIN pages'
        PROVE  ~IsPost(pages'[i].url) /\ FormsKnownTo(i)'
    <3>1. i \in DOMAIN pages /\ pages'[i].url = pages[i].url
      BY <2>2 DEF Becomes
    <3>2. CASE i = p
      BY <2>7, <3>1, <3>2 DEF AllKnown, FormsListed
    <3>3. CASE i # p
      <4>1. FormsKnownTo(i)'
        BY <1>2, <2>1, <2>8, <3>1, <3>3, KnownStays DEF AllKnown
      <4>2. QED
        BY <3>1, <4>1 DEF AllKnown, FormsListed
    <3>4. QED
      BY <3>2, <3>3
  <2>10. /\ \A f \in Addresses : f \in injected_list' => f \in all_form_post'
         /\ \A f \in all_form_post' : f \in Clear /\ f.slash = FALSE
    BY <1>1, <2>1 DEF AllKnown, FormsListed
  <2>11. FormsListed'
    BY <1>2, <2>9, <2>10 DEF FormsListed, IsPost, Marker
  <2>12. QED
    BY <2>9, <2>11 DEF AllKnown
<1>6. QED
  BY <1>3, <1>4, <1>5 DEF Handler

\* The browser: a page goes to a form of its document.
LEMMA KnowsBrowser ==
  ASSUME Clean, CrawlInv, CrawlInv', Addressed, AllKnown, NEW p \in DOMAIN pages, Browser(p)
  PROVE  AllKnown'
<1> DEFINE page == pages[p]
<1>1. page.doc \in Addresses \cup {NoUrl} /\ IsWeb(web)
  BY DEF Addressed, Located, Clear
<1>2. /\ todo = Idle /\ web' = web /\ UNCHANGED lists /\ all_form_post' = all_form_post
      /\ tags_list' = tags_list /\ injected_list' = injected_list
  BY DEF Browser, Redirect, Initialized, Loading, Load, Move, lists
<1>3. todo.page # p /\ todo.links \in Seq(CleanLinks)
  BY <1>2, IdleFacts
<1>4. Knows(page, p, ActionsOf(page.doc), todo.page, tags_list, all_form_post)
  BY DEF AllKnown, FormsKnownTo
<1>5. ASSUME NEW st, NEW doc, NEW next, Becomes(p, pages', st, doc, next),
             todo'.links \in Seq(CleanLinks),
             st = "loaded" => todo'.page = p,
             page.type = "normal" /\ st = "asking" /\ IsPost(next) =>
               Covered(tags_list, all_form_post, p, next),
             page.type = "normal" /\ st \in {"loading", "ready", "loaded"} /\ IsPost(next) =>
               HasTag(tags_list, p, next)
      PROVE  AllKnown'
  <2>1. /\ pages'[p].type = page.type /\ pages'[p].st = st
        /\ pages'[p].doc = doc /\ pages'[p].next = next
    BY <1>5 DEF Becomes
  <2>2. Knows(pages'[p], p, ActionsOf(pages'[p].doc), todo'.page, tags_list', all_form_post')
    <3> HIDE DEF page
    <3>1. QED
      BY <1>2, <1>5, <2>1 DEF Knows
  <2>3. FormsKnownTo(p)'
    BY <1>2, <2>2, KnowsLater
  <2>4. QED
    BY <1>2, <1>5, <2>3, PageKnows
<1>6. CASE Redirect(p)
  <2>1. todo' = todo
    BY <1>6 DEF Redirect
  <2>2. /\ page.next.path \in DOMAIN web.redirect
        /\ Becomes(p, pages', IF page.type = "login" THEN "loading" ELSE "asking",
                   page.doc, Browsed(web.redirect[page.next.path]))
    BY <1>6, RedirectEffect
  <2>3. ~IsPost(Browsed(web.redirect[page.next.path]))
    BY <1>1, <2>2, CleanFacts, BrowsedFacts DEF IsWeb
  <2> DEFINE st == IF page.type = "login" THEN "loading" ELSE "asking"
             next == Browsed(web.redirect[page.next.path])
  <2>4. Becomes(p, pages', st, page.doc, next) /\ st # "loaded" /\ ~IsPost(next)
    BY <2>2, <2>3
  <2> HIDE DEF st, next, page
  <2>5. QED
    BY <1>3, <1>5, <2>1, <2>4
<1>7. CASE Initialized(p)
  <2>1. todo' = todo /\ page.st = "loading"
    BY <1>7 DEF Initialized, Loading
  <2>2. PICK st \in {"ready", "closed"} : Becomes(p, pages', st, page.next, page.next)
    BY <1>7, InitializedEffect
  <2>3. page.type = "normal" /\ IsPost(page.next) => HasTag(tags_list, p, page.next)
    BY <1>4, <2>1 DEF Knows
  <2> HIDE DEF page
  <2>4. QED
    BY <1>3, <1>5, <2>1, <2>2, <2>3
<1>8. CASE Load(p)
  <2>1. page.st \in {"ready", "loading"}
    BY <1>8 DEF Load
  <2>2. PICK doc \in {page.doc, NoUrl} :
          /\ Becomes(p, pages', "loaded", doc, page.next)
          /\ todo' = [page |-> p, links |-> IF page.type = "login" /\ LOGIN_LOAD THEN <<>> ELSE Wanted(doc)]
    BY <1>8, LoadEffect
  <2>3. Wanted(doc) \in Seq(CleanLinks)
    BY <1>1, CleanContent
  <2>4. todo'.page = p /\ todo'.links \in Seq(CleanLinks)
    BY <2>2, <2>3
  <2>5. page.type = "normal" /\ IsPost(page.next) => HasTag(tags_list, p, page.next)
    BY <1>4, <2>1 DEF Knows
  <2> HIDE DEF page
  <2>6. QED
    BY <1>5, <2>2, <2>4, <2>5
<1>9. CASE Move(p)
  <2>1. todo' = todo /\ page.st = "loaded"
    BY <1>9 DEF Move
  <2>2. PICK u \in MovesOf(page.doc) :
          Becomes(p, pages', IF page.type = "login" THEN "loading" ELSE "asking", page.doc, Browsed(u))
    BY <1>9, MoveEffect
  <2> DEFINE next == Browsed(u)
  <2>3. page.type = "normal" /\ IsPost(next) => Covered(tags_list, all_form_post, p, next)
    <3>1. IsPost(next) => u \in ActionsOf(page.doc)
      BY <1>1, CleanContent, ContentFacts, BrowsedFacts
    <3>2. QED
      BY <1>3, <1>4, <2>1, <3>1 DEF Knows
  <2> DEFINE st == IF page.type = "login" THEN "loading" ELSE "asking"
  <2>4. Becomes(p, pages', st, page.doc, next) /\ st # "loaded" /\ (page.type = "normal" => st = "asking")
    BY <2>2
  <2> HIDE DEF st, next, page
  <2>5. QED
    BY <1>3, <1>5, <2>1, <2>3, <2>4
<1>10. QED
  BY <1>6, <1>7, <1>8, <1>9 DEF Browser

LEMMA KnowsStep ==
  CrawlInv /\ CrawlInv' /\ Addressed /\ FormsKnown /\ [Next]_vars => FormsKnown'
<1> SUFFICES ASSUME CrawlInv, CrawlInv', Addressed, FormsKnown, [Next]_vars, Clean' PROVE AllKnown'
  BY DEF FormsKnown, AllKnown
<1>1. web' = web
  BY DEF Next, vars, WebCrawlerInit, Start, Stop, ScanLink, FinishScan, Handler, Browser, RefuseNavigation,
         FollowNavigation, PostForm, Redirect, Initialized, Load, Move, CloseTimer
<1>2. Clean /\ AllKnown
  BY <1>1 DEF Clean, UsesMarker, IsPost, Marker, FormsKnown, AllKnown
<1>3. CASE WebCrawlerInit \/ Start \/ Stop \/ ScanLink \/ FinishScan
  BY <1>2, <1>3, KnowsEngine, KnowsScan, KnowsFinish
<1>4. ASSUME NEW p \in DOMAIN pages, Handler(p) \/ Browser(p) \/ CloseTimer(p)
      PROVE  AllKnown'
  BY <1>2, <1>4, KnowsHandler, KnowsBrowser
<1>5. CASE UNCHANGED vars
  <2>1. /\ pages' = pages /\ tags_list' = tags_list /\ all_form_post' = all_form_post
        /\ injected_list' = injected_list /\ todo' = todo
    BY <1>5 DEF vars, lists
  <2>2. SameCrawlers(pages') /\ todo'.links \in Seq(CleanLinks)
    BY <1>2, <2>1, SameFacts DEF SameCrawlers, AllKnown, FormsListed
  <2>3. QED
    BY <1>1, <1>2, <2>1, <2>2, ChangeKnows DEF AllKnown
<1>6. QED
  BY <1>3, <1>4, <1>5 DEF Next

\* A page goes to the action of a form only if tags_list has the tags it has put
\* into that form: what scanForm leaves out, because injected_list has the action,
\* is in all_form_post, and refused.
THEOREM PostedFormsKnown == Spec => []PostedTagsKnown
<1>1. Init => FormsKnown
  <2> SUFFICES ASSUME Init PROVE FormsKnown
    OBVIOUS
  <2>1. DOMAIN pages = {} /\ todo.links = <<>> /\ injected_list = {} /\ all_form_post = {}
    BY DEF Init, Idle
  <2>2. todo.links \in Seq(CleanLinks)
    BY <2>1
  <2>3. QED
    BY <2>1, <2>2 DEF FormsKnown, FormsListed
<1>2. Addressed /\ FormsKnown => PostedTagsKnown
  <2> SUFFICES ASSUME Addressed, FormsKnown, NEW p \in Normal, Posted(p), Clean
               PROVE  \E tag \in tags_list :
                        tag.page = p /\ FixUrlEnd(Browsed(tag.url)) = FixUrlEnd(pages[p].next)
    BY DEF PostedTagsKnown, Clean
  <2>1. /\ p \in DOMAIN pages /\ pages[p].type = "normal"
        /\ pages[p].st \in {"loading", "ready", "loaded"} /\ IsPost(FixUrlEnd(pages[p].next))
    BY DEF Posted, Normal
  <2>2. IsPost(pages[p].next)
    BY <2>1, FixFacts DEF Addressed, Located, IsPost, Clear
  <2>3. Knows(pages[p], p, ActionsOf(pages[p].doc), todo.page, tags_list, all_form_post)
    BY <2>1 DEF FormsKnown, FormsKnownTo
  <2>4. HasTag(tags_list, p, pages[p].next)
    BY <2>1, <2>2, <2>3 DEF Knows
  <2>5. QED
    BY <2>4 DEF HasTag
<1>3. CrawlInv /\ Addressed /\ FormsKnown /\ [Next]_vars => CrawlInv' /\ Addressed' /\ FormsKnown'
  BY StepCorrect, Kinds, KnowsStep
<1>4. QED
  BY <1>1, <1>2, <1>3, InitCorrect, AddressedInit, PTL DEF Spec

=============================================================================
