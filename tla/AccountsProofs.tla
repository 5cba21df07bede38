--------------------------- MODULE AccountsProofs ---------------------------
(***************************************************************************)
(* Proofs about Accounts for every set of names and passwords, every       *)
(* length of a block and every number of inodes: what the account files    *)
(* say, and what becomes of the tree of directories and of the path of the *)
(* session, whichever operations ran, failed or were killed.               *)
(***************************************************************************)
EXTENDS Accounts, RecursionLemmas, SequenceTheorems

-----------------------------------------------------------------------------
(* Numbers and sequences *)

\* A set of naturals that is not empty has a least member.
LEMMA LeastIn ==
    ASSUME NEW P \in SUBSET Nat, P # {}
    PROVE  Least(P) \in P /\ \A q \in P : Least(P) <= q
<1> DEFINE Above == {n \in Nat : \A q \in P : n < q}
<1>1. \E p \in P : \A q \in P : p <= q
  <2> SUFFICES ASSUME \A p \in P : \E q \in P : q < p
               PROVE  FALSE
    OBVIOUS
  <2>1. 0 \in Above
    <3> SUFFICES ASSUME NEW q \in P, ~(0 < q) PROVE FALSE
      OBVIOUS
    <3>1. PICK r \in P : r < q
      OBVIOUS
    <3> QED
      BY <3>1
  <2>2. ASSUME NEW n \in Nat, n \in Above PROVE n + 1 \in Above
    <3> SUFFICES ASSUME NEW q \in P, ~(n + 1 < q) PROVE FALSE
      OBVIOUS
    <3>1. PICK r \in P : r < q
      OBVIOUS
    <3>2. n < r
      BY <2>2
    <3> QED
      BY <3>1, <3>2
  <2>3. Nat \subseteq Above
    <3> HIDE DEF Above
    <3> QED
      BY <2>1, <2>2, SetInduction
  <2>4. PICK p : p \in P
    OBVIOUS
  <2> QED
    BY <2>3, <2>4
<1> QED
  BY <1>1 DEF Least

\* Where a sequence occurs in another, token by token.
LEMMA OccursAt ==
    ASSUME NEW X, NEW f \in Seq(X), NEW x \in Seq(X), NEW p \in 1 .. Len(f)
    PROVE  Occurs(f, x, p) <=>
               /\ p + Len(x) - 1 <= Len(f)
               /\ \A k \in 1 .. Len(x) : f[p + k - 1] = x[k]
<1> DEFINE n == p + Len(x) - 1
<1>1. p \in Nat /\ p >= 1 /\ Len(x) \in Nat /\ Len(f) \in Nat /\ n \in Int /\ n - p + 1 = Len(x)
  OBVIOUS
<1> SUFFICES ASSUME n <= Len(f)
             PROVE  SubSeq(f, p, n) = x <=> \A k \in 1 .. Len(x) : f[p + k - 1] = x[k]
  BY DEF Occurs
<1>2. /\ SubSeq(f, p, n) \in Seq(X)
      /\ Len(SubSeq(f, p, n)) = IF p <= n THEN n - p + 1 ELSE 0
      /\ \A i \in 1 .. n - p + 1 : SubSeq(f, p, n)[i] = f[p + i - 1]
  <2>1. \A i \in p .. n : f[i] \in X
    BY <1>1
  <2> HIDE DEF n
  <2> QED
    BY <1>1, <2>1, SubSeqProperties
<1> DEFINE s == SubSeq(f, p, n)
<1>3. Len(s) = Len(x) /\ \A k \in 1 .. Len(x) : s[k] = f[p + k - 1]
  BY <1>1, <1>2
<1>4. s = x <=> \A k \in 1 .. Len(x) : s[k] = x[k]
  <2>1. s \in Seq(X)
    BY <1>2
  <2> HIDE DEF s
  <2> QED
    BY <1>3, <2>1, SeqEqual
<1> HIDE DEF s, n
<1> QED
  BY <1>3, <1>4 DEF s

\* The token at each place of a text put together of two.
LEMMA Joined ==
    ASSUME NEW X, NEW f \in Seq(X), NEW g \in Seq(X), NEW h, h = f \o g
    PROVE  /\ h \in Seq(X) /\ Len(h) = Len(f) + Len(g)
           /\ \A i \in 1 .. Len(f) : h[i] = f[i]
           /\ \A i \in 1 .. Len(g) : h[Len(f) + i] = g[i]
<1>1. /\ h \in Seq(X) /\ Len(h) = Len(f) + Len(g)
      /\ \A i \in 1 .. Len(f) + Len(g) : h[i] = IF i <= Len(f) THEN f[i] ELSE g[i - Len(f)]
  BY ConcatProperties
<1>2. Len(f) \in Nat /\ Len(g) \in Nat
  OBVIOUS
<1>3. \A i \in 1 .. Len(f) : h[i] = f[i]
  BY <1>1, <1>2
<1>4. ASSUME NEW i \in 1 .. Len(g) PROVE h[Len(f) + i] = g[i]
  <2>1. Len(f) + i \in 1 .. Len(f) + Len(g) /\ ~(Len(f) + i <= Len(f)) /\ (Len(f) + i) - Len(f) = i
    BY <1>2
  <2>2. h[Len(f) + i] = g[(Len(f) + i) - Len(f)]
    BY <1>1, <2>1
  <2> QED
    BY <2>1, <2>2
<1> QED
  BY <1>1, <1>3, <1>4

\* The token at each place of a part of a text.
LEMMA Part ==
    ASSUME NEW X, NEW f \in Seq(X), NEW m \in Nat, m >= 1, NEW n \in Int, n <= Len(f),
           NEW h, h = SubSeq(f, m, n)
    PROVE  /\ h \in Seq(X)
           /\ Len(h) = IF m <= n THEN n - m + 1 ELSE 0
           /\ \A i \in 1 .. n - m + 1 : h[i] = f[m + i - 1]
<1>1. \A i \in m .. n : f[i] \in X
  OBVIOUS
<1> QED
  BY <1>1, SubSeqProperties

\* strstr finds the first place where the name occurs.
LEMMA StrStrFinds ==
    ASSUME NEW X, NEW f \in Seq(X), NEW n
    PROVE  /\ StrStr(f, n) \in 0 .. Len(f)
           /\ Has(f, n) <=> StrStr(f, n) \in 1 .. Len(f)
           /\ Has(f, n) <=> \E p \in 1 .. Len(f) : Occurs(f, n, p)
           /\ Has(f, n) => /\ Occurs(f, n, StrStr(f, n))
                           /\ \A p \in 1 .. Len(f) : Occurs(f, n, p) => StrStr(f, n) <= p
<1> DEFINE P == {p \in DOMAIN f : Occurs(f, n, p)}
<1>1. DOMAIN f = 1 .. Len(f) /\ Len(f) \in Nat
  OBVIOUS
<1>2. StrStr(f, n) = IF P = {} THEN 0 ELSE Least(P)
  BY DEF StrStr
<1>3. P \subseteq 1 .. Len(f) /\ P \in SUBSET Nat
  BY <1>1
<1>4. \A p : p \in P <=> p \in 1 .. Len(f) /\ Occurs(f, n, p)
  BY <1>1
<1> HIDE DEF P
<1>5. CASE P = {}
  BY <1>1, <1>2, <1>4, <1>5 DEF Has
<1>6. CASE P # {}
  <2>1. PICK m : m = StrStr(f, n) /\ m = Least(P)
    BY <1>2, <1>6, Zenon
  <2>2. Least(P) \in P /\ \A q \in P : Least(P) <= q
    BY <1>3, <1>6, LeastIn
  <2>3. m \in P /\ \A q \in P : m <= q
    BY <2>1, <2>2
  <2>4. m \in 1 .. Len(f) /\ m # 0
    BY <2>3, <1>1, <1>3
  <2> QED
    BY <1>1, <1>4, <2>1, <2>3, <2>4 DEF Has
<1> QED
  BY <1>5, <1>6

\* The first of a token at or after a place.
LEMMA NextFinds ==
    ASSUME NEW X, NEW f \in Seq(X), NEW p \in 1 .. Len(f), NEW x
    PROVE  /\ Next1(f, p, x) \in p .. Len(f)
           /\ \A q \in p .. Len(f) : q < Next1(f, p, x) => f[q] # x
           /\ (\E q \in p .. Len(f) : f[q] = x) => f[Next1(f, p, x)] = x
           /\ (\A q \in p .. Len(f) : f[q] # x) => Next1(f, p, x) = Len(f)
<1> DEFINE P == {q \in p .. Len(f) : f[q] = x}
<1>1. p \in Nat /\ p >= 1 /\ Len(f) \in Nat /\ p <= Len(f)
  OBVIOUS
<1>2. Next1(f, p, x) = IF P = {} THEN Len(f) ELSE Least(P)
  BY DEF Next1
<1>3. P \in SUBSET Nat
  BY <1>1
<1>4. \A q : q \in P <=> q \in p .. Len(f) /\ f[q] = x
  OBVIOUS
<1> HIDE DEF P
<1>5. CASE P = {}
  BY <1>1, <1>2, <1>4, <1>5
<1>6. CASE P # {}
  <2>1. PICK m : m = Next1(f, p, x) /\ m = Least(P)
    BY <1>2, <1>6, Zenon
  <2>2. Least(P) \in P /\ \A q \in P : Least(P) <= q
    BY <1>3, <1>6, LeastIn
  <2>3. m \in P /\ m \in Nat /\ \A q \in P : m <= q
    BY <2>1, <2>2, <1>3
  <2>4. \A q \in p .. Len(f) : q < m => q \notin P
    BY <1>1, <2>3
  <2> QED
    BY <1>4, <2>1, <2>3, <2>4
<1> QED
  BY <1>5, <1>6

-----------------------------------------------------------------------------
(* Texts of lines *)

\* x stands at the beginning of a line.
AtLine(f, x, p) == Occurs(f, x, p) /\ (p = 1 \/ f[p - 1] = LINE)

\* A text that ends with a line, and one that begins one or is one.
Closed(f)    == f \in Seq(Tokens) /\ (f # <<>> => f[Len(f)] = LINE)
LineStart(x) == x \in Seq(Tokens) /\ Len(x) >= 1 /\ \A k \in 1 .. Len(x) - 1 : x[k] # LINE
WholeLine(x) == LineStart(x) /\ x[Len(x)] = LINE

\* What begins a line before the place n, where a line ends, ends there too.
LEMMA EndsBefore ==
    ASSUME NEW f \in Seq(Tokens), NEW x, LineStart(x), NEW n \in 1 .. Len(f), f[n] = LINE,
           NEW p \in 1 .. n, Occurs(f, x, p)
    PROVE  p + Len(x) - 1 <= n
<1>1. x \in Seq(Tokens) /\ Len(x) \in Nat /\ Len(x) >= 1 /\ p \in 1 .. Len(f) /\ n \in Nat /\ p \in Nat
  BY DEF LineStart
<1>2. \A k \in 1 .. Len(x) : f[p + k - 1] = x[k]
  BY <1>1, OccursAt
<1> SUFFICES ASSUME n < p + Len(x) - 1
             PROVE  FALSE
  BY <1>1
<1> DEFINE k == n - p + 1
<1>3. k \in 1 .. Len(x) - 1 /\ p + k - 1 = n /\ k \in 1 .. Len(x)
  BY <1>1
<1>4. f[p + k - 1] = x[k]
  BY <1>2, <1>3
<1>5. x[k] # LINE
  BY <1>3 DEF LineStart
<1> HIDE DEF k
<1> QED
  BY <1>3, <1>4, <1>5

\* Where two texts have the same tokens, the same occurs.
LEMMA OccursSame ==
    ASSUME NEW f \in Seq(Tokens), NEW g \in Seq(Tokens), NEW x \in Seq(Tokens),
           NEW p \in 1 .. Len(f), NEW q \in 1 .. Len(g),
           p + Len(x) - 1 <= Len(f), q + Len(x) - 1 <= Len(g),
           \A k \in 1 .. Len(x) : f[p + k - 1] = g[q + k - 1]
    PROVE  Occurs(f, x, p) <=> Occurs(g, x, q)
<1>1. Occurs(f, x, p) <=> \A k \in 1 .. Len(x) : f[p + k - 1] = x[k]
  BY OccursAt
<1>2. Occurs(g, x, q) <=> \A k \in 1 .. Len(x) : g[q + k - 1] = x[k]
  BY OccursAt
<1> QED
  BY <1>1, <1>2

\* What occurs does not go beyond the end of the text.
LEMMA OccursWithin ==
    ASSUME NEW f, NEW x, NEW p, Occurs(f, x, p)
    PROVE  p + Len(x) - 1 <= Len(f)
BY DEF Occurs

\* The lines of a text to which a line was added.
LEMMA LineAdded ==
    ASSUME NEW f, Closed(f), NEW rec, WholeLine(rec), NEW g, g = f \o rec
    PROVE  /\ Closed(g) /\ Len(g) = Len(f) + Len(rec)
           /\ \A x, p : LineStart(x) /\ p \in 1 .. Len(g) =>
                  (AtLine(g, x, p) <=> \/ p \in 1 .. Len(f) /\ AtLine(f, x, p)
                                       \/ p = Len(f) + 1 /\ Occurs(rec, x, 1))
<1>1. /\ f \in Seq(Tokens) /\ rec \in Seq(Tokens) /\ Len(f) \in Nat /\ Len(rec) \in Nat
      /\ Len(rec) >= 1 /\ rec[Len(rec)] = LINE
      /\ \A k \in 1 .. Len(rec) - 1 : rec[k] # LINE
  BY DEF Closed, WholeLine, LineStart
<1>2. /\ g \in Seq(Tokens) /\ Len(g) = Len(f) + Len(rec)
      /\ \A i \in 1 .. Len(f) : g[i] = f[i]
      /\ \A i \in 1 .. Len(rec) : g[Len(f) + i] = rec[i]
  BY <1>1, Joined
<1>3. g[Len(g)] = LINE
  BY <1>1, <1>2
<1>4. Len(f) >= 1 => f[Len(f)] = LINE /\ g[Len(f)] = LINE
  <2> SUFFICES ASSUME Len(f) >= 1 PROVE f[Len(f)] = LINE
    BY <1>1, <1>2
  <2> QED
    BY <1>1, EmptySeq DEF Closed
<1>5. ASSUME NEW x, LineStart(x), NEW p \in 1 .. Len(f)
      PROVE  AtLine(g, x, p) <=> AtLine(f, x, p)
  <2>1. x \in Seq(Tokens) /\ Len(x) \in Nat /\ p \in Nat /\ p >= 1 /\ p <= Len(f) /\ p \in 1 .. Len(g)
        /\ Len(f) \in 1 .. Len(f) /\ Len(f) \in 1 .. Len(g)
    BY <1>1, <1>2, <1>5 DEF LineStart
  <2>2. p # 1 => g[p - 1] = f[p - 1]
    BY <2>1, <1>1, <1>2
  <2>3. Occurs(g, x, p) \/ Occurs(f, x, p) => p + Len(x) - 1 <= Len(f)
    <3>1. f[Len(f)] = LINE /\ g[Len(f)] = LINE
      BY <2>1, <1>1, <1>4
    <3>2. Occurs(g, x, p) => p + Len(x) - 1 <= Len(f)
      BY <3>1, <2>1, <1>2, <1>5, EndsBefore
    <3>3. Occurs(f, x, p) => p + Len(x) - 1 <= Len(f)
      BY <3>1, <2>1, <1>1, <1>5, EndsBefore
    <3> QED
      BY <3>2, <3>3
  <2>4. p + Len(x) - 1 <= Len(f) => (Occurs(g, x, p) <=> Occurs(f, x, p))
    <3> SUFFICES ASSUME p + Len(x) - 1 <= Len(f) PROVE Occurs(g, x, p) <=> Occurs(f, x, p)
      OBVIOUS
    <3>1. \A k \in 1 .. Len(x) : g[p + k - 1] = f[p + k - 1]
      BY <2>1, <1>1, <1>2
    <3>2. p + Len(x) - 1 <= Len(g) /\ f \in Seq(Tokens) /\ g \in Seq(Tokens)
      BY <2>1, <1>1, <1>2
    <3> QED
      BY <3>1, <3>2, <2>1, OccursSame
  <2> QED
    BY <2>2, <2>3, <2>4 DEF AtLine
<1>6. ASSUME NEW x, LineStart(x), NEW p \in 1 .. Len(g), p = Len(f) + 1
      PROVE  AtLine(g, x, p) <=> Occurs(rec, x, 1)
  <2>1. x \in Seq(Tokens) /\ Len(x) \in Nat /\ 1 \in 1 .. Len(rec)
    BY <1>1, <1>6 DEF LineStart
  <2>2. p = 1 \/ g[p - 1] = LINE
    BY <1>1, <1>4, <1>6
  <2>3. Occurs(g, x, p) \/ Occurs(rec, x, 1) => Len(x) <= Len(rec)
    <3>1. Occurs(g, x, p) => p + Len(x) - 1 <= Len(g)
      BY OccursWithin
    <3>2. Occurs(rec, x, 1) => 1 + Len(x) - 1 <= Len(rec)
      BY OccursWithin
    <3> QED
      BY <3>1, <3>2, <2>1, <1>1, <1>2, <1>6
  <2>4. Len(x) <= Len(rec) => (Occurs(g, x, p) <=> Occurs(rec, x, 1))
    <3> SUFFICES ASSUME Len(x) <= Len(rec) PROVE Occurs(g, x, p) <=> Occurs(rec, x, 1)
      OBVIOUS
    <3>1. \A k \in 1 .. Len(x) : g[p + k - 1] = rec[1 + k - 1]
      <4> SUFFICES ASSUME NEW k \in 1 .. Len(x) PROVE g[p + k - 1] = rec[1 + k - 1]
        OBVIOUS
      <4>1. p + k - 1 = Len(f) + k /\ 1 + k - 1 = k /\ k \in 1 .. Len(rec)
        BY <2>1, <1>1, <1>6
      <4> QED
        BY <4>1, <1>2
    <3>2. p + Len(x) - 1 <= Len(g) /\ 1 + Len(x) - 1 <= Len(rec)
      BY <2>1, <1>1, <1>2, <1>6
    <3>3. f \in Seq(Tokens) /\ g \in Seq(Tokens) /\ rec \in Seq(Tokens)
      BY <1>1, <1>2
    <3> QED
      BY <3>1, <3>2, <3>3, <2>1, OccursSame
  <2> QED
    BY <2>2, <2>3, <2>4 DEF AtLine
<1>7. ASSUME NEW x, NEW p \in 1 .. Len(g), p > Len(f) + 1, AtLine(g, x, p)
      PROVE  FALSE
  <2> DEFINE k == p - 1 - Len(f)
  <2>1. k \in 1 .. Len(rec) - 1 /\ k \in 1 .. Len(rec) /\ p - 1 = Len(f) + k /\ p # 1
    BY <1>1, <1>2, <1>7
  <2>2. g[p - 1] = rec[k]
    BY <2>1, <1>2
  <2>3. rec[k] # LINE
    BY <2>1, <1>1
  <2> HIDE DEF k
  <2> QED
    BY <2>1, <2>2, <2>3, <1>7 DEF AtLine
<1>8. Closed(g)
  BY <1>2, <1>3 DEF Closed
<1>9. ASSUME NEW x, LineStart(x), NEW p \in 1 .. Len(g)
      PROVE  AtLine(g, x, p) <=> \/ p \in 1 .. Len(f) /\ AtLine(f, x, p)
                                 \/ p = Len(f) + 1 /\ Occurs(rec, x, 1)
  <2>1. CASE p \in 1 .. Len(f)
    BY <2>1, <1>1, <1>5, <1>9
  <2>2. CASE p = Len(f) + 1
    BY <2>2, <1>1, <1>6, <1>9
  <2>3. CASE p > Len(f) + 1
    BY <2>3, <1>1, <1>7, <1>9
  <2> QED
    BY <2>1, <2>2, <2>3, <1>1, <1>2
<1> QED
  BY <1>2, <1>8, <1>9

\* The tokens of a text from which the places a .. e were cut.
LEMMA CutTokens ==
    ASSUME NEW f \in Seq(Tokens), NEW a \in 1 .. Len(f), NEW e \in a .. Len(f)
    PROVE  \E g \in Seq(Tokens) :
               /\ g = SubSeq(f, 1, a - 1) \o SubSeq(f, e + 1, Len(f))
               /\ Len(g) = Len(f) - (e - a + 1)
               /\ \A i \in 1 .. a - 1 : g[i] = f[i]
               /\ \A i \in 1 .. Len(f) - e : g[(a - 1) + i] = f[e + i]
<1>1. Len(f) \in Nat /\ a \in Nat /\ a >= 1 /\ a <= e /\ e \in Nat /\ e <= Len(f)
  OBVIOUS
<1>2. PICK N \in Nat : N = Len(f)
  BY <1>1
<1>3. PICK g1 : g1 = SubSeq(f, 1, a - 1)
  OBVIOUS
<1>4. PICK g2 : g2 = SubSeq(f, e + 1, Len(f))
  OBVIOUS
<1>0. PICK g : g = g1 \o g2
  OBVIOUS
<1>5. g1 \in Seq(Tokens) /\ Len(g1) = a - 1 /\ \A i \in 1 .. a - 1 : g1[i] = f[i]
  <2>1. a - 1 \in Int /\ a - 1 <= Len(f) /\ 1 \in Nat /\ 1 >= 1
    BY <1>1
  <2>2. /\ g1 \in Seq(Tokens)
        /\ Len(g1) = IF 1 <= a - 1 THEN (a - 1) - 1 + 1 ELSE 0
        /\ \A i \in 1 .. (a - 1) - 1 + 1 : g1[i] = f[1 + i - 1]
    BY <2>1, <1>3, Part
  <2>3. \A i \in 1 .. a - 1 : 1 + i - 1 = i
    BY <1>1
  <2> QED
    BY <2>2, <2>3, <1>1
<1>6. g2 \in Seq(Tokens) /\ Len(g2) = N - e /\ \A i \in 1 .. N - e : g2[i] = f[e + i]
  <2>0. PICK m : m = e + 1
    OBVIOUS
  <2>1. m \in Nat /\ m >= 1 /\ N \in Int /\ N <= Len(f) /\ g2 = SubSeq(f, m, N)
    BY <2>0, <1>1, <1>2, <1>4
  <2>2. /\ g2 \in Seq(Tokens)
        /\ Len(g2) = IF m <= N THEN N - m + 1 ELSE 0
        /\ \A i \in 1 .. N - m + 1 : g2[i] = f[m + i - 1]
    BY <2>1, Part
  <2>3. /\ \A i \in 1 .. N - e : m + i - 1 = e + i
        /\ N - m + 1 = N - e /\ (m <= N \/ N - e = 0)
    BY <2>0, <1>1, <1>2
  <2>4. Len(g2) = N - e
    BY <2>2, <2>3
  <2>5. \A i \in 1 .. N - e : g2[i] = f[m + i - 1]
    BY <2>2, <2>3
  <2> QED
    BY <2>2, <2>3, <2>4, <2>5
<1>7. /\ g \in Seq(Tokens) /\ Len(g) = Len(g1) + Len(g2)
      /\ \A i \in 1 .. Len(g1) : g[i] = g1[i]
      /\ \A i \in 1 .. Len(g2) : g[Len(g1) + i] = g2[i]
  <2>2. g1 \in Seq(Tokens) /\ g2 \in Seq(Tokens)
    BY <1>5, <1>6
  <2> QED
    BY <1>0, <2>2, Joined
<1>8. Len(g) = N - (e - a + 1)
  <2>1. Len(g) = (a - 1) + (N - e)
    BY <1>5, <1>6, <1>7
  <2> QED
    BY <2>1, <1>1, <1>2
<1>9. \A i \in 1 .. N - e : g[(a - 1) + i] = g2[i]
  BY <1>5, <1>6, <1>7
<1>10. Len(g) = Len(f) - (e - a + 1) /\ \A i \in 1 .. a - 1 : g[i] = f[i]
  BY <1>2, <1>5, <1>7, <1>8
<1>11. \A i \in 1 .. Len(f) - e : g[(a - 1) + i] = f[e + i]
  BY <1>2, <1>6, <1>9
<1>12. g = SubSeq(f, 1, a - 1) \o SubSeq(f, e + 1, Len(f))
  BY <1>0, <1>3, <1>4
<1> QED
  BY <1>7, <1>10, <1>11, <1>12

\* g is f without the places a .. e, which are w, and the lines of both agree.
LinesKept(f, g, a, e, w) ==
    /\ Closed(g) /\ Len(g) = Len(f) - w
    /\ \A i \in 1 .. Len(g) : g[i] = IF i < a THEN f[i] ELSE f[i + w]
    /\ \A x, p : LineStart(x) /\ p \in 1 .. Len(g) =>
           /\ p < a => (AtLine(g, x, p) <=> AtLine(f, x, p))
           /\ p >= a => (AtLine(g, x, p) <=> AtLine(f, x, p + w))
    /\ \A x, q : q \in a .. e /\ AtLine(f, x, q) => q = a

\* The lines of a text from which the line in the places a .. e was cut.
LEMMA LineCut ==
    ASSUME NEW f, Closed(f), NEW a \in 1 .. Len(f), NEW e \in a .. Len(f),
           a = 1 \/ f[a - 1] = LINE, f[e] = LINE,
           \A q \in a .. Len(f) : q < e => f[q] # LINE,
           NEW w \in Nat, w = e - a + 1,
           NEW g \in Seq(Tokens), Len(g) = Len(f) - w,
           \A i \in 1 .. a - 1 : g[i] = f[i],
           \A i \in 1 .. Len(f) - e : g[(a - 1) + i] = f[e + i]
    PROVE  LinesKept(f, g, a, e, w)
<1>1. /\ f \in Seq(Tokens) /\ Len(f) \in Nat /\ a \in Nat /\ a >= 1 /\ a <= e /\ e \in Nat
      /\ e <= Len(f) /\ w \in Nat /\ w >= 1 /\ f[Len(f)] = LINE
  <2>1. f \in Seq(Tokens) /\ Len(f) \in Nat
    BY DEF Closed
  <2>2. f # <<>>
    BY <2>1, EmptySeq
  <2> QED
    BY <2>1, <2>2 DEF Closed
<1>4. /\ g \in Seq(Tokens) /\ Len(g) = Len(f) - w /\ Len(g) \in Nat
      /\ \A i \in 1 .. a - 1 : g[i] = f[i]
      /\ \A i \in 1 .. Len(f) - e : g[(a - 1) + i] = f[e + i]
  OBVIOUS
<1>5. \A i \in 1 .. Len(g) : g[i] = IF i < a THEN f[i] ELSE f[i + w]
  <2> SUFFICES ASSUME NEW i \in 1 .. Len(g)
               PROVE  g[i] = IF i < a THEN f[i] ELSE f[i + w]
    OBVIOUS
  <2>1. CASE i < a
    BY <2>1, <1>1, <1>4
  <2>2. CASE ~(i < a)
    <3> DEFINE k == i - (a - 1)
    <3>1. k \in 1 .. Len(f) - e /\ (a - 1) + k = i /\ e + k = i + w
      BY <2>2, <1>1, <1>4
    <3>2. g[(a - 1) + k] = f[e + k]
      BY <3>1, <1>4
    <3> HIDE DEF k
    <3> QED
      BY <2>2, <3>1, <3>2
  <2> QED
    BY <2>1, <2>2
<1>6. Closed(g)
  <2> SUFFICES ASSUME g # <<>> PROVE g[Len(g)] = LINE
    BY <1>4 DEF Closed
  <2>1. Len(g) \in 1 .. Len(g)
    BY <1>4, EmptySeq
  <2>2. CASE Len(g) < a
    <3>1. Len(g) = a - 1 /\ a # 1
      BY <2>1, <2>2, <1>1, <1>4
    <3> QED
      BY <2>1, <2>2, <3>1, <1>5
  <2>3. CASE ~(Len(g) < a)
    <3>1. Len(g) + w = Len(f)
      BY <1>1, <1>4
    <3> QED
      BY <2>1, <2>3, <3>1, <1>1, <1>5
  <2> QED
    BY <2>2, <2>3
<1>7. ASSUME NEW x, LineStart(x), NEW p \in 1 .. Len(g), p < a
      PROVE  AtLine(g, x, p) <=> AtLine(f, x, p)
  <2>1. /\ x \in Seq(Tokens) /\ Len(x) \in Nat /\ p \in Nat /\ p >= 1 /\ p \in 1 .. Len(f)
        /\ p \in 1 .. a - 1 /\ a - 1 \in 1 .. Len(f) /\ a - 1 \in 1 .. Len(g) /\ a # 1
    BY <1>1, <1>4, <1>7 DEF LineStart
  <2>2. f[a - 1] = LINE /\ g[a - 1] = LINE
    BY <2>1, <1>4
  <2>3. p # 1 => g[p - 1] = f[p - 1]
    BY <2>1, <1>4
  <2>4. Occurs(g, x, p) => p + Len(x) - 1 <= a - 1
    BY <2>1, <2>2, <1>4, <1>7, EndsBefore
  <2>5. Occurs(f, x, p) => p + Len(x) - 1 <= a - 1
    BY <2>1, <2>2, <1>1, <1>7, EndsBefore
  <2>6. p + Len(x) - 1 <= a - 1 => (Occurs(g, x, p) <=> Occurs(f, x, p))
    <3> SUFFICES ASSUME p + Len(x) - 1 <= a - 1 PROVE Occurs(g, x, p) <=> Occurs(f, x, p)
      OBVIOUS
    <3>1. \A k \in 1 .. Len(x) : g[p + k - 1] = f[p + k - 1]
      BY <2>1, <1>1, <1>4
    <3>2. p + Len(x) - 1 <= Len(g) /\ p + Len(x) - 1 <= Len(f)
      BY <2>1, <1>1
    <3>3. f \in Seq(Tokens) /\ g \in Seq(Tokens)
      BY <1>1, <1>4
    <3> QED
      BY <3>1, <3>2, <3>3, <2>1, <1>7, OccursSame
  <2> QED
    BY <2>3, <2>4, <2>5, <2>6 DEF AtLine
<1>8. ASSUME NEW x, LineStart(x), NEW p \in 1 .. Len(g), p >= a
      PROVE  AtLine(g, x, p) <=> AtLine(f, x, p + w)
  <2>1. x \in Seq(Tokens) /\ Len(x) \in Nat /\ Len(x) >= 1 /\ p \in Nat
    BY <1>8 DEF LineStart
  <2>2. PICK q : q = p + w
    OBVIOUS
  <2>3. q \in 1 .. Len(f) /\ q \in Nat /\ q # 1 /\ q - 1 = (p - 1) + w
    BY <2>1, <2>2, <1>1, <1>4, <1>8
  <2>4. p = 1 \/ g[p - 1] = LINE <=> q = 1 \/ f[q - 1] = LINE
    <3>1. CASE p = a
      <4>1. q - 1 = e
        BY <3>1, <2>2, <2>3, <1>1
      <4>2. a # 1 => g[a - 1] = LINE
        <5> SUFFICES ASSUME a # 1 PROVE g[a - 1] = LINE
          OBVIOUS
        <5>1. a - 1 \in 1 .. a - 1 /\ f[a - 1] = LINE
          BY <1>1
        <5> QED
          BY <5>1, <1>4
      <4> QED
        BY <3>1, <4>1, <4>2
    <3>2. CASE p # a
      <4>1. p - 1 \in 1 .. Len(g) /\ ~(p - 1 < a) /\ p # 1
        BY <3>2, <2>1, <1>1, <1>8
      <4>2. g[p - 1] = f[(p - 1) + w]
        BY <4>1, <1>5
      <4> QED
        BY <4>1, <4>2, <2>3
    <3> QED
      BY <3>1, <3>2
  <2>5. Occurs(g, x, p) => p + Len(x) - 1 <= Len(g)
    BY OccursWithin
  <2>6. Occurs(f, x, q) => q + Len(x) - 1 <= Len(f)
    BY OccursWithin
  <2>7. p + Len(x) - 1 <= Len(g) <=> q + Len(x) - 1 <= Len(f)
    BY <2>1, <2>2, <1>1, <1>4
  <2>8. p + Len(x) - 1 <= Len(g) => (Occurs(g, x, p) <=> Occurs(f, x, q))
    <3> SUFFICES ASSUME p + Len(x) - 1 <= Len(g) PROVE Occurs(g, x, p) <=> Occurs(f, x, q)
      OBVIOUS
    <3>1. \A k \in 1 .. Len(x) : g[p + k - 1] = f[q + k - 1]
      <4> SUFFICES ASSUME NEW k \in 1 .. Len(x) PROVE g[p + k - 1] = f[q + k - 1]
        OBVIOUS
      <4>1. p + k - 1 \in 1 .. Len(g) /\ ~(p + k - 1 < a) /\ q + k - 1 = (p + k - 1) + w
        BY <2>1, <2>2, <1>1, <1>8
      <4> QED
        BY <4>1, <1>5
    <3>2. q + Len(x) - 1 <= Len(f) /\ f \in Seq(Tokens) /\ g \in Seq(Tokens)
      BY <2>7, <1>1, <1>4
    <3> QED
      BY <3>1, <3>2, <2>1, <2>3, <1>8, OccursSame
  <2>9. AtLine(g, x, p) <=> AtLine(f, x, q)
    BY <2>4, <2>5, <2>6, <2>7, <2>8 DEF AtLine
  <2> QED
    BY <2>2, <2>9
<1>9. ASSUME NEW x, NEW q \in a .. e, AtLine(f, x, q), q # a PROVE FALSE
  <2>1. q - 1 \in a .. Len(f) /\ q - 1 < e /\ q # 1
    BY <1>1, <1>9
  <2> QED
    BY <2>1, <1>9 DEF AtLine
<1> QED
  BY <1>4, <1>5, <1>6, <1>7, <1>8, <1>9 DEF LinesKept

-----------------------------------------------------------------------------
(* Names and records *)

Who    == Users \cup {ROOT}
Key(n) == n \o <<COLON>>

\* A name and a password have a token or more, and none that separates them.
LEMMA Words ==
    ASSUME NEW n \in Who \cup Passwords
    PROVE  /\ n \in Seq(Tokens) /\ Len(n) \in Nat /\ Len(n) >= 1
           /\ \A k \in 1 .. Len(n) : n[k] \notin {COLON, COMMA, LINE, HEAD}
<1>1. n \in Seq(Letters)
  BY LettersAssumption DEF Who
<1>2. n # <<>>
  BY NoEmptyText DEF Who
<1>3. Letters \subseteq Tokens
  BY DEF Tokens
<1>4. \A k \in 1 .. Len(n) : n[k] \in Letters
  BY <1>1
<1>5. Len(n) \in Nat /\ Len(n) >= 1
  BY <1>1, <1>2, EmptySeq
<1>6. n \in Seq(Tokens)
  BY <1>1, <1>3
<1> QED
  BY <1>4, <1>5, <1>6, LettersAssumption

LEMMA Separators == {COLON, COMMA, LINE, HEAD} \subseteq Tokens
BY DEF Tokens

\* The tokens of a key.
LEMMA KeyIs ==
    ASSUME NEW n \in Who
    PROVE  /\ Key(n) \in Seq(Tokens) /\ Len(Key(n)) = Len(n) + 1 /\ LineStart(Key(n))
           /\ \A k \in 1 .. Len(n) : Key(n)[k] = n[k]
           /\ Key(n)[Len(n) + 1] = COLON
<1>1. /\ n \in Seq(Tokens) /\ Len(n) \in Nat /\ Len(n) >= 1
      /\ \A k \in 1 .. Len(n) : n[k] \notin {COLON, COMMA, LINE, HEAD}
  BY Words
<1>2. PICK c : c = <<COLON>>
  OBVIOUS
<1>3. c \in Seq(Tokens) /\ Len(c) = 1 /\ c[1] = COLON
  BY <1>2, Separators
<1>4. PICK x : x = n \o c
  OBVIOUS
<1>5. /\ x \in Seq(Tokens) /\ Len(x) = Len(n) + Len(c)
      /\ \A i \in 1 .. Len(n) : x[i] = n[i]
      /\ \A i \in 1 .. Len(c) : x[Len(n) + i] = c[i]
  <2>1. n \in Seq(Tokens) /\ c \in Seq(Tokens)
    BY <1>1, <1>3
  <2> QED
    BY <2>1, <1>4, Joined
<1>6. Len(x) = Len(n) + 1 /\ x[Len(n) + 1] = COLON
  BY <1>3, <1>5
<1>7. LineStart(x)
  BY <1>1, <1>5, <1>6 DEF LineStart
<1>8. Key(n) = x
  BY <1>2, <1>4 DEF Key
<1> QED
  BY <1>5, <1>6, <1>7, <1>8

\* At one place there is one name.
LEMMA OneName ==
    ASSUME NEW f \in Seq(Tokens), NEW p \in 1 .. Len(f), NEW m \in Who, NEW n \in Who,
           Occurs(f, Key(m), p), Occurs(f, Key(n), p)
    PROVE  m = n
<1>1. /\ m \in Seq(Tokens) /\ Len(m) \in Nat
      /\ \A k \in 1 .. Len(m) : m[k] \notin {COLON, COMMA, LINE, HEAD}
  BY Words
<1>2. /\ n \in Seq(Tokens) /\ Len(n) \in Nat
      /\ \A k \in 1 .. Len(n) : n[k] \notin {COLON, COMMA, LINE, HEAD}
  BY Words
<1>3. /\ Key(m) \in Seq(Tokens) /\ Len(Key(m)) = Len(m) + 1
      /\ \A k \in 1 .. Len(m) : Key(m)[k] = m[k]
      /\ Key(m)[Len(m) + 1] = COLON
  BY KeyIs
<1>4. /\ Key(n) \in Seq(Tokens) /\ Len(Key(n)) = Len(n) + 1
      /\ \A k \in 1 .. Len(n) : Key(n)[k] = n[k]
      /\ Key(n)[Len(n) + 1] = COLON
  BY KeyIs
<1>5. \A k \in 1 .. Len(Key(m)) : f[p + k - 1] = Key(m)[k]
  BY <1>3, OccursAt
<1>6. \A k \in 1 .. Len(Key(n)) : f[p + k - 1] = Key(n)[k]
  BY <1>4, OccursAt
<1>7. \A k \in 1 .. Len(m) + 1 : k \in 1 .. Len(n) + 1 => Key(m)[k] = Key(n)[k]
  BY <1>3, <1>4, <1>5, <1>6
<1>8. ~(Len(m) < Len(n))
  <2> SUFFICES ASSUME Len(m) < Len(n) PROVE FALSE
    OBVIOUS
  <2>1. Len(m) + 1 \in 1 .. Len(n) /\ Len(m) + 1 \in 1 .. Len(m) + 1 /\ Len(m) + 1 \in 1 .. Len(n) + 1
    BY <1>1, <1>2
  <2> QED
    BY <2>1, <1>2, <1>3, <1>4, <1>7
<1>9. ~(Len(n) < Len(m))
  <2> SUFFICES ASSUME Len(n) < Len(m) PROVE FALSE
    OBVIOUS
  <2>1. Len(n) + 1 \in 1 .. Len(m) /\ Len(n) + 1 \in 1 .. Len(m) + 1 /\ Len(n) + 1 \in 1 .. Len(n) + 1
    BY <1>1, <1>2
  <2> QED
    BY <2>1, <1>1, <1>3, <1>4, <1>7
<1>10. Len(m) = Len(n)
  BY <1>1, <1>2, <1>8, <1>9
<1>11. \A k \in 1 .. Len(m) : m[k] = n[k]
  <2> TAKE k \in 1 .. Len(m)
  <2>1. k \in 1 .. Len(m) + 1 /\ k \in 1 .. Len(n) + 1 /\ k \in 1 .. Len(n)
    BY <1>1, <1>10
  <2> QED
    BY <2>1, <1>3, <1>4, <1>7
<1> QED
  BY <1>1, <1>2, <1>10, <1>11, SeqEqual

\* A text that begins with a name and a colon has the key of the name there.
LEMMA KeyOccurs ==
    ASSUME NEW f \in Seq(Tokens), NEW p \in 1 .. Len(f), NEW n \in Who
    PROVE  Occurs(f, Key(n), p) <=>
               /\ p + Len(n) <= Len(f) /\ f[p + Len(n)] = COLON
               /\ \A k \in 1 .. Len(n) : f[p + k - 1] = n[k]
<1>1. Len(n) \in Nat /\ Len(n) >= 1
  BY Words
<1>2. /\ Key(n) \in Seq(Tokens) /\ Len(Key(n)) = Len(n) + 1
      /\ \A k \in 1 .. Len(n) : Key(n)[k] = n[k]
      /\ Key(n)[Len(n) + 1] = COLON
  BY KeyIs
<1>3. Occurs(f, Key(n), p) <=>
               /\ p + Len(Key(n)) - 1 <= Len(f)
               /\ \A k \in 1 .. Len(Key(n)) : f[p + k - 1] = Key(n)[k]
  <2>1. Key(n) \in Seq(Tokens)
    BY <1>2
  <2> QED
    BY <2>1, OccursAt
<1>4. p + Len(Key(n)) - 1 = p + Len(n) /\ p + (Len(n) + 1) - 1 = p + Len(n)
  BY <1>1, <1>2
<1>5. \A k : k \in 1 .. Len(n) + 1 <=> k \in 1 .. Len(n) \/ k = Len(n) + 1
  BY <1>1
<1>6. (\A k \in 1 .. Len(n) + 1 : f[p + k - 1] = Key(n)[k]) <=>
          /\ f[p + Len(n)] = COLON
          /\ \A k \in 1 .. Len(n) : f[p + k - 1] = n[k]
  BY <1>2, <1>4, <1>5
<1> QED
  BY <1>2, <1>3, <1>4, <1>6

\* The tokens of a user's record, which is a line and has the key of the name.
LEMMA UserRecordIs ==
    ASSUME NEW n \in Who
    PROVE  /\ WholeLine(UserRecord(n))
           /\ \A m \in Who : Occurs(UserRecord(n), Key(m), 1) <=> m = n
<1>1. /\ n \in Seq(Tokens) /\ Len(n) \in Nat /\ Len(n) >= 1
      /\ \A k \in 1 .. Len(n) : n[k] \notin {COLON, COMMA, LINE, HEAD}
  BY Words
<1>2. PICK c : c = <<COLON, LINE>>
  OBVIOUS
<1>3. c \in Seq(Tokens) /\ Len(c) = 2 /\ c[1] = COLON /\ c[2] = LINE
  BY <1>2, Separators
<1>4. PICK x : x = n \o c
  OBVIOUS
<1>5. /\ x \in Seq(Tokens) /\ Len(x) = Len(n) + Len(c)
      /\ \A i \in 1 .. Len(n) : x[i] = n[i]
      /\ \A i \in 1 .. Len(c) : x[Len(n) + i] = c[i]
  <2>1. n \in Seq(Tokens) /\ c \in Seq(Tokens)
    BY <1>1, <1>3
  <2> QED
    BY <2>1, <1>4, Joined
<1>6. Len(x) = Len(n) + 2 /\ x[Len(n) + 1] = COLON /\ x[Len(n) + 2] = LINE
  BY <1>3, <1>5
<1>7. \A k \in 1 .. Len(x) - 1 : x[k] # LINE
  <2> TAKE k \in 1 .. Len(x) - 1
  <2>1. k \in 1 .. Len(n) \/ k = Len(n) + 1
    BY <1>1, <1>6
  <2> QED
    BY <2>1, <1>1, <1>5, <1>6, LettersAssumption
<1>8. WholeLine(x)
  BY <1>1, <1>5, <1>6, <1>7 DEF WholeLine, LineStart
<1>9. Occurs(x, Key(n), 1)
  <2>1. 1 \in 1 .. Len(x) /\ x \in Seq(Tokens) /\ 1 + Len(n) <= Len(x) /\ 1 + Len(n) = Len(n) + 1
    BY <1>1, <1>5, <1>6
  <2>2. \A k \in 1 .. Len(n) : x[1 + k - 1] = n[k]
    <3> TAKE k \in 1 .. Len(n)
    <3>1. 1 + k - 1 = k
      BY <1>1
    <3> QED
      BY <3>1, <1>5
  <2> QED
    BY <2>1, <2>2, <1>6, KeyOccurs
<1>10. ASSUME NEW m \in Who, Occurs(x, Key(m), 1) PROVE m = n
  <2>1. 1 \in 1 .. Len(x) /\ x \in Seq(Tokens)
    BY <1>1, <1>5, <1>6
  <2> QED
    BY <2>1, <1>9, <1>10, OneName
<1>11. UserRecord(n) = x
  BY <1>2, <1>4 DEF UserRecord
<1> QED
  BY <1>8, <1>9, <1>10, <1>11

\* The same of a record of passwd.
LEMMA PasswdRecordIs ==
    ASSUME NEW n \in Who, NEW pw \in Passwords \cup {ROOT}
    PROVE  /\ WholeLine(PasswdRecord(n, pw))
           /\ Len(PasswdRecord(n, pw)) >= Len(n) + 1
           /\ PasswdRecord(n, pw)[Len(n) + 1] = COLON
           /\ \A k \in 1 .. Len(n) : PasswdRecord(n, pw)[k] = n[k]
           /\ \A m \in Who : Occurs(PasswdRecord(n, pw), Key(m), 1) <=> m = n
<1>1. /\ n \in Seq(Tokens) /\ Len(n) \in Nat /\ Len(n) >= 1
      /\ \A k \in 1 .. Len(n) : n[k] \notin {COLON, COMMA, LINE, HEAD}
  BY Words
<1>2. /\ pw \in Seq(Tokens) /\ Len(pw) \in Nat
      /\ \A k \in 1 .. Len(pw) : pw[k] \notin {COLON, COMMA, LINE, HEAD}
  BY Words DEF Who
<1>3. /\ Key(n) \in Seq(Tokens) /\ Len(Key(n)) = Len(n) + 1
      /\ \A k \in 1 .. Len(n) : Key(n)[k] = n[k]
      /\ Key(n)[Len(n) + 1] = COLON
  BY KeyIs
<1>4. PICK y : y = Key(n) \o pw
  OBVIOUS
<1>5. /\ y \in Seq(Tokens) /\ Len(y) = Len(Key(n)) + Len(pw)
      /\ \A i \in 1 .. Len(Key(n)) : y[i] = Key(n)[i]
      /\ \A i \in 1 .. Len(pw) : y[Len(Key(n)) + i] = pw[i]
  <2>1. Key(n) \in Seq(Tokens) /\ pw \in Seq(Tokens)
    BY <1>2, <1>3
  <2> QED
    BY <2>1, <1>4, Joined
<1>6. PICK c : c = <<LINE>>
  OBVIOUS
<1>7. c \in Seq(Tokens) /\ Len(c) = 1 /\ c[1] = LINE
  BY <1>6, Separators
<1>8. PICK x : x = y \o c
  OBVIOUS
<1>9. /\ x \in Seq(Tokens) /\ Len(x) = Len(y) + Len(c)
      /\ \A i \in 1 .. Len(y) : x[i] = y[i]
      /\ \A i \in 1 .. Len(c) : x[Len(y) + i] = c[i]
  <2>1. y \in Seq(Tokens) /\ c \in Seq(Tokens)
    BY <1>5, <1>7
  <2> QED
    BY <2>1, <1>8, Joined
<1>10. Len(y) = Len(n) + 1 + Len(pw) /\ Len(x) = Len(n) + 1 + Len(pw) + 1 /\ x[Len(x)] = LINE
  BY <1>1, <1>2, <1>3, <1>5, <1>7, <1>9
<1>11. \A i \in 1 .. Len(n) + 1 : x[i] = Key(n)[i]
  <2> TAKE i \in 1 .. Len(n) + 1
  <2>1. i \in 1 .. Len(Key(n)) /\ i \in 1 .. Len(y)
    BY <1>1, <1>2, <1>3, <1>10
  <2> QED
    BY <2>1, <1>5, <1>9
<1>12. \A i \in 1 .. Len(pw) : x[Len(n) + 1 + i] = pw[i]
  <2> TAKE i \in 1 .. Len(pw)
  <2>1. Len(n) + 1 + i \in 1 .. Len(y) /\ Len(n) + 1 + i = Len(Key(n)) + i
    BY <1>1, <1>2, <1>3, <1>10
  <2> QED
    BY <2>1, <1>5, <1>9
<1>13. x[Len(n) + 1] = COLON /\ \A k \in 1 .. Len(n) : x[k] = n[k]
  <2>1. Len(n) + 1 \in 1 .. Len(n) + 1 /\ \A k \in 1 .. Len(n) : k \in 1 .. Len(n) + 1
    BY <1>1
  <2> QED
    BY <2>1, <1>3, <1>11
<1>14. \A k \in 1 .. Len(x) - 1 : x[k] # LINE
  <2> TAKE k \in 1 .. Len(x) - 1
  <2>1. CASE k \in 1 .. Len(n)
    BY <2>1, <1>1, <1>13
  <2>2. CASE k = Len(n) + 1
    BY <2>2, <1>13, LettersAssumption
  <2>3. CASE k > Len(n) + 1
    <3> DEFINE i == k - (Len(n) + 1)
    <3>1. i \in 1 .. Len(pw) /\ Len(n) + 1 + i = k
      BY <2>3, <1>1, <1>2, <1>10
    <3> HIDE DEF i
    <3> QED
      BY <3>1, <1>2, <1>12
  <2> QED
    BY <2>1, <2>2, <2>3, <1>1, <1>10
<1>15. WholeLine(x)
  BY <1>1, <1>2, <1>9, <1>10, <1>14 DEF WholeLine, LineStart
<1>16. Occurs(x, Key(n), 1)
  <2>1. 1 \in 1 .. Len(x) /\ x \in Seq(Tokens) /\ 1 + Len(n) <= Len(x) /\ 1 + Len(n) = Len(n) + 1
    BY <1>1, <1>2, <1>9, <1>10
  <2>2. \A k \in 1 .. Len(n) : x[1 + k - 1] = n[k]
    <3> TAKE k \in 1 .. Len(n)
    <3>1. 1 + k - 1 = k
      BY <1>1
    <3> QED
      BY <3>1, <1>13
  <2> QED
    BY <2>1, <2>2, <1>13, KeyOccurs
<1>17. ASSUME NEW m \in Who, Occurs(x, Key(m), 1) PROVE m = n
  <2>1. 1 \in 1 .. Len(x) /\ x \in Seq(Tokens)
    BY <1>1, <1>2, <1>9, <1>10
  <2> QED
    BY <2>1, <1>16, <1>17, OneName
<1>18. PasswdRecord(n, pw) = x
  BY <1>4, <1>6, <1>8 DEF PasswdRecord, Key
<1>19. Len(x) >= Len(n) + 1
  BY <1>1, <1>2, <1>10
<1> QED
  BY <1>13, <1>15, <1>16, <1>17, <1>18, <1>19

\* Where a record of passwd stands, stands the key of its name.
LEMMA RecordHasKey ==
    ASSUME NEW f \in Seq(Tokens), NEW p \in 1 .. Len(f), NEW n \in Who,
           NEW pw \in Passwords \cup {ROOT}, Occurs(f, PasswdRecord(n, pw), p)
    PROVE  Occurs(f, Key(n), p)
<1>1. PICK x : x = PasswdRecord(n, pw)
  OBVIOUS
<1>2. /\ x \in Seq(Tokens) /\ Len(x) \in Nat /\ Len(x) >= Len(n) + 1 /\ x[Len(n) + 1] = COLON
      /\ \A k \in 1 .. Len(n) : x[k] = n[k]
  BY <1>1, PasswdRecordIs DEF WholeLine, LineStart
<1>3. Len(n) \in Nat
  BY Words
<1>4. p + Len(x) - 1 <= Len(f) /\ \A k \in 1 .. Len(x) : f[p + k - 1] = x[k]
  <2>1. x \in Seq(Tokens) /\ Occurs(f, x, p)
    BY <1>1, <1>2
  <2> QED
    BY <2>1, OccursAt
<1>5. p + Len(n) <= Len(f) /\ f[p + Len(n)] = COLON
  <2>1. Len(n) + 1 \in 1 .. Len(x) /\ p + (Len(n) + 1) - 1 = p + Len(n)
    BY <1>2, <1>3
  <2> QED
    BY <2>1, <1>2, <1>3, <1>4
<1>6. \A k \in 1 .. Len(n) : f[p + k - 1] = n[k]
  <2> TAKE k \in 1 .. Len(n)
  <2>1. k \in 1 .. Len(x)
    BY <1>2, <1>3
  <2> QED
    BY <2>1, <1>2, <1>4
<1> QED
  BY <1>5, <1>6, KeyOccurs

-----------------------------------------------------------------------------
(* Files with one line for each account *)

\* The file describes each account in one line, and nothing else.
Sound(f) ==
    /\ Closed(f)
    /\ \A n \in Who : \A p, q \in 1 .. Len(f) : AtLine(f, Key(n), p) /\ AtLine(f, Key(n), q) => p = q
    /\ IsFiniteSet(Listed(f)) /\ Lines(f) = Cardinality(Listed(f))

\* An account is listed where its key begins a line.
LEMMA ListedKeys ==
    ASSUME NEW f \in Seq(Tokens)
    PROVE  Listed(f) = {n \in Who : \E p \in 1 .. Len(f) : AtLine(f, Key(n), p)}
<1>1. DOMAIN f = 1 .. Len(f) /\ Len(f) \in Nat
  OBVIOUS
<1>2. ASSUME NEW n \in Who, NEW p \in 1 .. Len(f)
      PROVE  Occurs(f, n, p) /\ p + Len(n) <= Len(f) /\ f[p + Len(n)] = COLON <=> Occurs(f, Key(n), p)
  <2>1. n \in Seq(Tokens) /\ Len(n) \in Nat
    BY Words
  <2>2. Occurs(f, n, p) <=> p + Len(n) - 1 <= Len(f) /\ \A k \in 1 .. Len(n) : f[p + k - 1] = n[k]
    BY <2>1, OccursAt
  <2>3. Occurs(f, Key(n), p) <=>
               /\ p + Len(n) <= Len(f) /\ f[p + Len(n)] = COLON
               /\ \A k \in 1 .. Len(n) : f[p + k - 1] = n[k]
    BY KeyOccurs
  <2>4. p + Len(n) <= Len(f) => p + Len(n) - 1 <= Len(f)
    BY <2>1, <1>1
  <2> QED
    BY <2>2, <2>3, <2>4
<1>3. \A n \in Who : \A p \in 1 .. Len(f) :
          /\ Occurs(f, n, p) /\ (p = 1 \/ f[p - 1] = LINE)
          /\ p + Len(n) <= Len(f) /\ f[p + Len(n)] = COLON
          <=> AtLine(f, Key(n), p)
  BY <1>2 DEF AtLine
<1> QED
  BY <1>1, <1>3 DEF Listed, Who

\* The ends of lines of a text are finitely many.
LEMMA LinesFinite ==
    ASSUME NEW f \in Seq(Tokens)
    PROVE  /\ IsFiniteSet({p \in 1 .. Len(f) : f[p] = LINE})
           /\ Lines(f) = Cardinality({p \in 1 .. Len(f) : f[p] = LINE}) /\ Lines(f) \in Nat
<1>1. DOMAIN f = 1 .. Len(f) /\ Len(f) \in Nat
  OBVIOUS
<1>2. IsFiniteSet(1 .. Len(f))
  BY <1>1, FS_Interval
<1>3. IsFiniteSet({p \in 1 .. Len(f) : f[p] = LINE})
  BY <1>2, FS_Subset
<1>4. Lines(f) = Cardinality({p \in 1 .. Len(f) : f[p] = LINE})
  BY <1>1 DEF Lines
<1> QED
  BY <1>3, <1>4, FS_CardinalityType

LEMMA LinesAdded ==
    ASSUME NEW f, Closed(f), NEW rec, WholeLine(rec), NEW g, g = f \o rec
    PROVE  Lines(g) = Lines(f) + 1
<1>1. /\ f \in Seq(Tokens) /\ rec \in Seq(Tokens) /\ Len(f) \in Nat /\ Len(rec) \in Nat
      /\ Len(rec) >= 1 /\ rec[Len(rec)] = LINE
      /\ \A k \in 1 .. Len(rec) - 1 : rec[k] # LINE
  BY DEF Closed, WholeLine, LineStart
<1>2. /\ g \in Seq(Tokens) /\ Len(g) = Len(f) + Len(rec)
      /\ \A i \in 1 .. Len(f) : g[i] = f[i]
      /\ \A i \in 1 .. Len(rec) : g[Len(f) + i] = rec[i]
  BY <1>1, Joined
<1>3. PICK P : P = {p \in 1 .. Len(f) : f[p] = LINE}
  OBVIOUS
<1>4. PICK Q : Q = {p \in 1 .. Len(g) : g[p] = LINE}
  OBVIOUS
<1>5. Len(g) \notin P
  BY <1>1, <1>2, <1>3
<1>6. Q = P \cup {Len(g)}
  <2>1. ASSUME NEW p \in 1 .. Len(g), p > Len(f), p # Len(g) PROVE g[p] # LINE
    <3> DEFINE k == p - Len(f)
    <3>1. p \in Nat /\ p > Len(f) /\ p < Len(f) + Len(rec) /\ Len(f) \in Nat /\ Len(rec) \in Nat
      <4>1. Len(g) = Len(f) + Len(rec) /\ Len(g) \in Nat
        BY <1>1, <1>2
      <4>2. Len(f) \in Nat /\ Len(rec) \in Nat
        BY <1>1
      <4>3. p \in 1 .. Len(g) /\ p > Len(f) /\ p # Len(g)
        BY <2>1
      <4> QED
        BY <4>1, <4>2, <4>3
    <3>2. k \in 1 .. Len(rec) - 1 /\ k \in 1 .. Len(rec) /\ Len(f) + k = p
      BY <3>1
    <3> HIDE DEF k
    <3> QED
      BY <3>2, <1>1, <1>2
  <2>2. g[Len(g)] = LINE /\ Len(g) \in 1 .. Len(g)
    BY <1>1, <1>2
  <2>3. ASSUME NEW p \in 1 .. Len(f) PROVE p \in 1 .. Len(g) /\ g[p] = f[p]
    BY <1>1, <1>2
  <2>4. \A p \in Q : p \in P \cup {Len(g)}
    <3> TAKE p \in Q
    <3>1. p \in 1 .. Len(g) /\ g[p] = LINE
      BY <1>4
    <3>2. p > Len(f) \/ p \in 1 .. Len(f)
      BY <3>1, <1>1, <1>2
    <3> QED
      BY <3>1, <3>2, <2>1, <2>3, <1>3
  <2>5. \A p \in P \cup {Len(g)} : p \in Q
    BY <2>2, <2>3, <1>3, <1>4
  <2> QED
    BY <2>4, <2>5
<1>7. IsFiniteSet(P) /\ Lines(f) = Cardinality(P)
  BY <1>1, <1>3, LinesFinite
<1>8. Lines(g) = Cardinality(Q)
  BY <1>2, <1>4, LinesFinite
<1>9. Cardinality(P \cup {Len(g)}) = Cardinality(P) + 1
  BY <1>5, <1>7, FS_AddElement
<1> QED
  BY <1>6, <1>7, <1>8, <1>9

\* A line for a new account, put behind the others.
LEMMA SoundAdd ==
    ASSUME NEW f, Sound(f), NEW n \in Who, n \notin Listed(f), NEW rec, WholeLine(rec),
           \A m \in Who : Occurs(rec, Key(m), 1) <=> m = n,
           NEW g, g = f \o rec
    PROVE  Sound(g) /\ Listed(g) = Listed(f) \cup {n}
<1>1. Closed(f) /\ f \in Seq(Tokens) /\ Len(f) \in Nat
  BY DEF Sound, Closed
<1>2. Len(rec) \in Nat /\ Len(rec) >= 1
  BY DEF WholeLine, LineStart
<1>3. /\ Closed(g) /\ Len(g) = Len(f) + Len(rec)
      /\ \A x, p : LineStart(x) /\ p \in 1 .. Len(g) =>
                  (AtLine(g, x, p) <=> \/ p \in 1 .. Len(f) /\ AtLine(f, x, p)
                                       \/ p = Len(f) + 1 /\ Occurs(rec, x, 1))
  BY <1>1, LineAdded
<1>4. \A m \in Who : LineStart(Key(m))
  BY KeyIs
<1>5. \A m \in Who : \A p \in 1 .. Len(g) :
          AtLine(g, Key(m), p) <=> \/ p \in 1 .. Len(f) /\ AtLine(f, Key(m), p)
                                   \/ p = Len(f) + 1 /\ m = n
  BY <1>3, <1>4
<1>6. g \in Seq(Tokens)
  BY <1>3 DEF Closed
<1>7. Listed(f) = {m \in Who : \E p \in 1 .. Len(f) : AtLine(f, Key(m), p)}
  BY <1>1, ListedKeys
<1>8. Listed(g) = {m \in Who : \E p \in 1 .. Len(g) : AtLine(g, Key(m), p)}
  BY <1>6, ListedKeys
<1>9. Len(f) + 1 \in 1 .. Len(g) /\ \A p \in 1 .. Len(f) : p \in 1 .. Len(g)
  BY <1>1, <1>2, <1>3
<1>10. Listed(g) = Listed(f) \cup {n}
  BY <1>5, <1>7, <1>8, <1>9
<1>11. \A m \in Who : \A p, q \in 1 .. Len(g) : AtLine(g, Key(m), p) /\ AtLine(g, Key(m), q) => p = q
  <2> SUFFICES ASSUME NEW m \in Who, NEW p \in 1 .. Len(g), NEW q \in 1 .. Len(g),
                      AtLine(g, Key(m), p), AtLine(g, Key(m), q)
               PROVE  p = q
    OBVIOUS
  <2>1. CASE m = n
    <3>1. \A s \in 1 .. Len(f) : ~AtLine(f, Key(n), s)
      BY <1>7
    <3> QED
      BY <2>1, <3>1, <1>5
  <2>2. CASE m # n
    BY <2>2, <1>5 DEF Sound
  <2> QED
    BY <2>1, <2>2
<1>12. IsFiniteSet(Listed(f) \cup {n}) /\ Cardinality(Listed(f) \cup {n}) = Cardinality(Listed(f)) + 1
  BY FS_AddElement DEF Sound
<1>13. Lines(g) = Lines(f) + 1
  BY <1>1, LinesAdded
<1> QED
  BY <1>3, <1>10, <1>11, <1>12, <1>13 DEF Sound

\* g is f without the line a .. e, w tokens long, that n's key begins.
IsCut(f, n, g, a, e, w) ==
    /\ a \in 1 .. Len(f) /\ e \in a .. Len(f) /\ w \in Nat /\ w = e - a + 1
    /\ AtLine(f, Key(n), a) /\ f[e] = LINE /\ \A q \in a .. Len(f) : q < e => f[q] # LINE
    /\ LinesKept(f, g, a, e, w)

\* DeleteUserContent cuts the line of an account whose name it finds there.
LEMMA CutLine ==
    ASSUME NEW f, Closed(f), NEW n \in Who, Has(f, n), Own(f, n, {LINE}, {COLON}),
           NEW g, g = Cut(f, n)
    PROVE  \E a, e, w : IsCut(f, n, g, a, e, w)
<1>1. f \in Seq(Tokens) /\ Len(f) \in Nat
  BY DEF Closed
<1>2. /\ n \in Seq(Tokens) /\ Len(n) \in Nat /\ Len(n) >= 1
      /\ \A k \in 1 .. Len(n) : n[k] \notin {COLON, COMMA, LINE, HEAD}
  BY Words
<1>3. PICK a : a = StrStr(f, n)
  OBVIOUS
<1>4. a \in 1 .. Len(f) /\ Occurs(f, n, a)
  BY <1>1, <1>3, StrStrFinds
<1>5. f[Len(f)] = LINE /\ Len(f) \in 1 .. Len(f)
  <2>1. Len(f) \in 1 .. Len(f) /\ f # <<>>
    BY <1>1, <1>4, EmptySeq
  <2> QED
    BY <2>1 DEF Closed
<1>6. a + Len(n) - 1 <= Len(f) /\ \A k \in 1 .. Len(n) : f[a + k - 1] = n[k]
  BY <1>1, <1>2, <1>4, OccursAt
<1>7. a + Len(n) <= Len(f)
  <2> SUFFICES ASSUME ~(a + Len(n) <= Len(f)) PROVE FALSE
    OBVIOUS
  <2>1. a + Len(n) - 1 = Len(f) /\ Len(n) \in 1 .. Len(n)
    BY <1>1, <1>2, <1>4, <1>6
  <2>2. f[a + Len(n) - 1] = n[Len(n)]
    BY <2>1, <1>6
  <2> QED
    BY <2>1, <2>2, <1>2, <1>5
<1>8. (a = 1 \/ f[a - 1] = LINE) /\ f[a + Len(n)] = COLON
  BY <1>1, <1>2, <1>3, <1>4, <1>7 DEF Own
<1>9. AtLine(f, Key(n), a)
  <2>1. Occurs(f, Key(n), a)
    BY <1>1, <1>4, <1>6, <1>7, <1>8, KeyOccurs
  <2> QED
    BY <2>1, <1>8 DEF AtLine
<1>10. PICK e : e = Next1(f, a, LINE)
  OBVIOUS
<1>11. e \in a .. Len(f) /\ f[e] = LINE /\ \A q \in a .. Len(f) : q < e => f[q] # LINE
  <2>1. \E q \in a .. Len(f) : f[q] = LINE
    BY <1>1, <1>4, <1>5
  <2>2. /\ e \in a .. Len(f)
        /\ \A q \in a .. Len(f) : q < e => f[q] # LINE
        /\ (\E q \in a .. Len(f) : f[q] = LINE) => f[e] = LINE
    BY <1>1, <1>4, <1>10, NextFinds
  <2> QED
    BY <2>1, <2>2
<1>12. PICK w : w = e - a + 1
  OBVIOUS
<1>13. w \in Nat
  BY <1>1, <1>4, <1>11, <1>12
<1>14. g = SubSeq(f, 1, a - 1) \o SubSeq(f, e + 1, Len(f))
  BY <1>3, <1>10 DEF Cut
<1>15. /\ g \in Seq(Tokens) /\ Len(g) = Len(f) - w
       /\ \A i \in 1 .. a - 1 : g[i] = f[i]
       /\ \A i \in 1 .. Len(f) - e : g[(a - 1) + i] = f[e + i]
  <2>1. e \in a .. Len(f)
    BY <1>11
  <2>2. PICK h \in Seq(Tokens) :
               /\ h = SubSeq(f, 1, a - 1) \o SubSeq(f, e + 1, Len(f))
               /\ Len(h) = Len(f) - (e - a + 1)
               /\ \A i \in 1 .. a - 1 : h[i] = f[i]
               /\ \A i \in 1 .. Len(f) - e : h[(a - 1) + i] = f[e + i]
    BY <2>1, <1>1, <1>4, CutTokens
  <2>3. g = h
    BY <2>2, <1>14
  <2>4. Len(h) = Len(f) - w
    BY <2>2, <1>12
  <2> QED
    BY <2>2, <2>3, <2>4
<1>16. LinesKept(f, g, a, e, w)
  <2>1. a \in 1 .. Len(f) /\ e \in a .. Len(f)
    BY <1>4, <1>11
  <2>2. a = 1 \/ f[a - 1] = LINE
    BY <1>8
  <2>3. f[e] = LINE
    BY <1>11
  <2>4. \A q \in a .. Len(f) : q < e => f[q] # LINE
    BY <1>11
  <2>5. g \in Seq(Tokens) /\ Len(g) = Len(f) - w
    BY <1>15
  <2>6. \A i \in 1 .. a - 1 : g[i] = f[i]
    BY <1>15
  <2>7. \A i \in 1 .. Len(f) - e : g[(a - 1) + i] = f[e + i]
    BY <1>15
  <2> QED
    BY <2>1, <2>2, <2>3, <2>4, <2>5, <2>6, <2>7, <1>12, <1>13, LineCut
<1>17. IsCut(f, n, g, a, e, w)
  BY <1>4, <1>9, <1>11, <1>12, <1>13, <1>15, <1>16 DEF IsCut
<1> QED
  BY <1>17

\* One end of a line fewer: those behind the cut move by w.
LEMMA LinesCut ==
    ASSUME NEW f, Closed(f), NEW n \in Who, NEW g, NEW a, NEW e, NEW w, IsCut(f, n, g, a, e, w)
    PROVE  Lines(f) = Lines(g) + 1
<1>1. /\ f \in Seq(Tokens) /\ Len(f) \in Nat /\ g \in Seq(Tokens) /\ Len(g) \in Nat
      /\ a \in Nat /\ a >= 1 /\ a <= e /\ e \in Nat /\ e <= Len(f) /\ w \in Nat /\ w = e - a + 1
      /\ Len(g) = Len(f) - w /\ f[e] = LINE
  BY DEF Closed, IsCut, LinesKept
<1>2. \A i \in 1 .. Len(g) : g[i] = IF i < a THEN f[i] ELSE f[i + w]
  BY DEF IsCut, LinesKept
<1>3. \A q \in a .. Len(f) : q < e => f[q] # LINE
  BY DEF IsCut
<1>4. PICK P : P = {p \in 1 .. Len(f) : f[p] = LINE}
  OBVIOUS
<1>5. PICK Q : Q = {p \in 1 .. Len(g) : g[p] = LINE}
  OBVIOUS
<1>6. IsFiniteSet(P) /\ Lines(f) = Cardinality(P) /\ e \in P
  <2>1. e \in 1 .. Len(f)
    BY <1>1
  <2> QED
    BY <2>1, <1>1, <1>4, LinesFinite, Zenon
<1>7. IsFiniteSet(Q) /\ Lines(g) = Cardinality(Q)
  BY <1>1, <1>5, LinesFinite, Zenon
<1> DEFINE old(p) == IF p < a THEN p ELSE p + w
           move == [p \in Q |-> old(p)]
<1>8. \A p \in Q : old(p) \in P \ {e}
  <2> TAKE p \in Q
  <2>1. p \in 1 .. Len(g) /\ g[p] = LINE
    BY <1>5
  <2>2. CASE p < a
    <3>1. p \in 1 .. Len(f) /\ p # e
      <4>1. p \in 1 .. Len(g)
        BY <2>1
      <4> QED
        BY <4>1, <2>2, <1>1
    <3>2. f[p] = LINE
      <4>1. g[p] = f[p]
        BY <2>1, <2>2, <1>2, Zenon
      <4> QED
        BY <4>1, <2>1
    <3> QED
      BY <3>1, <3>2, <2>2, <1>4
  <2>3. CASE ~(p < a)
    <3>1. p + w \in 1 .. Len(f) /\ p + w # e
      <4>1. p \in 1 .. Len(g)
        BY <2>1
      <4> QED
        BY <4>1, <2>3, <1>1
    <3>2. f[p + w] = LINE
      <4>1. g[p] = f[p + w]
        BY <2>1, <2>3, <1>2, Zenon
      <4> QED
        BY <4>1, <2>1
    <3> QED
      BY <3>1, <3>2, <2>3, <1>4
  <2> QED
    BY <2>2, <2>3
<1>9. \A q \in P \ {e} : \E p \in Q : old(p) = q
  <2> TAKE q \in P \ {e}
  <2>1. q \in 1 .. Len(f) /\ f[q] = LINE /\ q # e
    BY <1>4
  <2>2. CASE q < a
    <3>1. q \in 1 .. Len(g) /\ g[q] = LINE
      <4>1. q \in 1 .. Len(g)
        <5>1. q < e /\ e <= Len(f) /\ e - a + 1 = w /\ Len(g) = Len(f) - w
          BY <2>1, <2>2, <1>1
        <5> QED
          BY <5>1, <2>1, <2>2, <1>1
      <4>2. g[q] = f[q]
        BY <4>1, <2>2, <1>2
      <4> QED
        BY <4>1, <4>2, <2>1
    <3> QED
      BY <3>1, <2>2, <1>5
  <2>3. CASE ~(q < a)
    <3>1. q > e
      BY <2>1, <2>3, <1>1, <1>3
    <3>2. q - w \in 1 .. Len(g) /\ ~(q - w < a) /\ (q - w) + w = q
      BY <3>1, <2>1, <1>1
    <3>3. q - w \in Q
      BY <3>2, <2>1, <1>2, <1>5
    <3> QED
      BY <3>2, <3>3
  <2> QED
    BY <2>2, <2>3
<1>10. \A p, r \in Q : old(p) = old(r) => p = r
  <2>1. \A p \in Q : p \in Nat
    BY <1>1, <1>5
  <2> QED
    BY <2>1, <1>1
<1>11. move \in Bijection(Q, P \ {e})
  <2> HIDE DEF old
  <2> QED
    BY <1>8, <1>9, <1>10 DEF Bijection, Injection, Surjection, IsInjective
<1>12. ExistsBijection(Q, P \ {e})
  <2> HIDE DEF move
  <2> QED
    BY <1>11 DEF ExistsBijection
<1>13. Cardinality(P \ {e}) = Cardinality(Q)
  BY <1>7, <1>12, FS_Bijection
<1>14. Cardinality(P \ {e}) = Cardinality(P) - 1 /\ Cardinality(P) \in Nat
  BY <1>6, FS_RemoveElement, FS_CardinalityType
<1> QED
  BY <1>6, <1>7, <1>13, <1>14

\* What begins a line of g begins one of f, other than the line cut.
LEMMA StartsCut ==
    ASSUME NEW f, Closed(f), NEW n \in Who, NEW g, NEW a, NEW e, NEW w, IsCut(f, n, g, a, e, w),
           NEW x, LineStart(x)
    PROVE  /\ \A p \in 1 .. Len(g) : AtLine(g, x, p) =>
                  \E q \in 1 .. Len(f) : AtLine(f, x, q) /\ q = (IF p < a THEN p ELSE p + w) /\ q # a
           /\ \A q \in 1 .. Len(f) : AtLine(f, x, q) /\ q # a =>
                  \E p \in 1 .. Len(g) : AtLine(g, x, p)
<1>1. /\ Len(f) \in Nat /\ Len(g) \in Nat
      /\ a \in Nat /\ a >= 1 /\ a <= e /\ e \in Nat /\ e <= Len(f) /\ w \in Nat /\ w = e - a + 1
      /\ Len(g) = Len(f) - w
  BY DEF Closed, IsCut, LinesKept
<1>2. \A p \in 1 .. Len(g) :
           /\ p < a => (AtLine(g, x, p) <=> AtLine(f, x, p))
           /\ p >= a => (AtLine(g, x, p) <=> AtLine(f, x, p + w))
  BY DEF IsCut, LinesKept
<1>3. \A q : q \in a .. e /\ AtLine(f, x, q) => q = a
  BY DEF IsCut, LinesKept
<1>4. ASSUME NEW p \in 1 .. Len(g), AtLine(g, x, p)
      PROVE  \E q \in 1 .. Len(f) : AtLine(f, x, q) /\ q = (IF p < a THEN p ELSE p + w) /\ q # a
  <2>1. CASE p < a
    <3>1. p \in 1 .. Len(f) /\ p # a
      BY <2>1, <1>1
    <3> QED
      BY <3>1, <2>1, <1>2, <1>4
  <2>2. CASE ~(p < a)
    <3>1. p + w \in 1 .. Len(f) /\ p + w # a /\ p >= a
      BY <2>2, <1>1
    <3> QED
      BY <3>1, <2>2, <1>2, <1>4
  <2> QED
    BY <2>1, <2>2
<1>5. ASSUME NEW q \in 1 .. Len(f), AtLine(f, x, q), q # a
      PROVE  \E p \in 1 .. Len(g) : AtLine(g, x, p)
  <2>1. ~(q \in a .. e)
    BY <1>3, <1>5
  <2>2. CASE q < a
    <3>1. q \in 1 .. Len(g)
      BY <2>2, <1>1
    <3> QED
      BY <3>1, <2>2, <1>2, <1>5
  <2>3. CASE ~(q < a)
    <3>1. q - w \in 1 .. Len(g) /\ q - w >= a /\ (q - w) + w = q
      BY <2>1, <2>3, <1>1
    <3>2. AtLine(g, x, q - w) <=> AtLine(f, x, (q - w) + w)
      BY <3>1, <1>2
    <3> QED
      BY <3>1, <3>2, <1>5
  <2> QED
    BY <2>2, <2>3
<1> QED
  BY <1>4, <1>5

\* The file without an account's line describes the other accounts.
LEMMA SoundCut ==
    ASSUME NEW f, Sound(f), NEW n \in Who, NEW g, NEW a, NEW e, NEW w, IsCut(f, n, g, a, e, w)
    PROVE  Sound(g) /\ Listed(g) = Listed(f) \ {n} /\ n \in Listed(f)
<1>1. /\ Closed(f) /\ f \in Seq(Tokens) /\ Len(f) \in Nat
      /\ Closed(g) /\ g \in Seq(Tokens) /\ Len(g) \in Nat
      /\ a \in 1 .. Len(f) /\ AtLine(f, Key(n), a)
  BY DEF Sound, Closed, IsCut, LinesKept
<1>2. Listed(f) = {m \in Who : \E p \in 1 .. Len(f) : AtLine(f, Key(m), p)}
  BY <1>1, ListedKeys
<1>3. Listed(g) = {m \in Who : \E p \in 1 .. Len(g) : AtLine(g, Key(m), p)}
  BY <1>1, ListedKeys
<1>4. ASSUME NEW m \in Who
      PROVE  /\ \A p \in 1 .. Len(g) : AtLine(g, Key(m), p) =>
                    \E q \in 1 .. Len(f) : AtLine(f, Key(m), q) /\ q = (IF p < a THEN p ELSE p + w) /\ q # a
             /\ \A q \in 1 .. Len(f) : AtLine(f, Key(m), q) /\ q # a =>
                    \E p \in 1 .. Len(g) : AtLine(g, Key(m), p)
  <2>1. LineStart(Key(m))
    BY KeyIs
  <2>2. PICK x : x = Key(m)
    OBVIOUS
  <2>3. LineStart(x)
    BY <2>1, <2>2
  <2>4. /\ \A p \in 1 .. Len(g) : AtLine(g, x, p) =>
                  \E q \in 1 .. Len(f) : AtLine(f, x, q) /\ q = (IF p < a THEN p ELSE p + w) /\ q # a
        /\ \A q \in 1 .. Len(f) : AtLine(f, x, q) /\ q # a =>
                  \E p \in 1 .. Len(g) : AtLine(g, x, p)
    BY <2>3, <1>1, StartsCut
  <2> QED
    BY <2>2, <2>4
<1>5. n \in Listed(f)
  BY <1>1, <1>2
<1>6. \A m \in Who : \A q \in 1 .. Len(f) : AtLine(f, Key(m), q) => (q = a <=> m = n)
  <2> SUFFICES ASSUME NEW m \in Who, NEW q \in 1 .. Len(f), AtLine(f, Key(m), q)
               PROVE  q = a <=> m = n
    OBVIOUS
  <2>1. ASSUME q = a PROVE m = n
    BY <2>1, <1>1, OneName DEF AtLine
  <2>2. ASSUME m = n PROVE q = a
    BY <2>2, <1>1 DEF Sound
  <2> QED
    BY <2>1, <2>2
<1>7. Listed(g) = Listed(f) \ {n}
  <2>1. ASSUME NEW m \in Listed(g) PROVE m \in Listed(f) \ {n}
    <3>1. m \in Who /\ \E q \in 1 .. Len(f) : AtLine(f, Key(m), q) /\ q # a
      BY <1>3, <1>4
    <3> QED
      BY <3>1, <1>2, <1>6
  <2>2. ASSUME NEW m \in Listed(f) \ {n} PROVE m \in Listed(g)
    <3>1. m \in Who /\ \E q \in 1 .. Len(f) : AtLine(f, Key(m), q) /\ q # a
      BY <1>2, <1>6
    <3> QED
      BY <3>1, <1>3, <1>4
  <2> QED
    BY <2>1, <2>2
<1>8. \A m \in Who : \A p, q \in 1 .. Len(g) : AtLine(g, Key(m), p) /\ AtLine(g, Key(m), q) => p = q
  <2> SUFFICES ASSUME NEW m \in Who, NEW p \in 1 .. Len(g), NEW q \in 1 .. Len(g),
                      AtLine(g, Key(m), p), AtLine(g, Key(m), q)
               PROVE  p = q
    OBVIOUS
  <2>1. PICK s \in 1 .. Len(f) : AtLine(f, Key(m), s) /\ s = (IF p < a THEN p ELSE p + w)
    BY <1>4
  <2>2. PICK t \in 1 .. Len(f) : AtLine(f, Key(m), t) /\ t = (IF q < a THEN q ELSE q + w)
    BY <1>4
  <2>3. s = t
    BY <2>1, <2>2 DEF Sound
  <2>4. w \in Nat /\ a \in Nat
    BY <1>1 DEF IsCut
  <2> QED
    BY <2>1, <2>2, <2>3, <2>4
<1>9. Lines(f) = Lines(g) + 1
  BY <1>1, LinesCut
<1>10. IsFiniteSet(Listed(f) \ {n}) /\ Cardinality(Listed(f) \ {n}) = Cardinality(Listed(f)) - 1
  BY <1>5, FS_RemoveElement DEF Sound
<1>11. Lines(g) \in Nat
  BY <1>1, LinesFinite
<1>12. Lines(g) = Cardinality(Listed(g))
  BY <1>7, <1>9, <1>10, <1>11 DEF Sound
<1> QED
  BY <1>1, <1>5, <1>7, <1>8, <1>10, <1>12 DEF Sound

\* Two files have the same passwords for all accounts but n's.
SamePasswords(n, f, g) ==
    \A m \in Who \ {n} : \A pw \in Passwords \cup {ROOT} :
        <<m, pw>> \in Accounts(f) <=> <<m, pw>> \in Accounts(g)

\* Cutting the line of one account leaves the passwords of the others.
LEMMA PasswordsCut ==
    ASSUME NEW f, Sound(f), NEW n \in Who, NEW g, NEW a, NEW e, NEW w, IsCut(f, n, g, a, e, w)
    PROVE  SamePasswords(n, f, g)
<1> SUFFICES ASSUME NEW m \in Who, m # n, NEW pw \in Passwords \cup {ROOT}
             PROVE  <<m, pw>> \in Accounts(f) <=> <<m, pw>> \in Accounts(g)
  BY DEF SamePasswords
<1>1. /\ Closed(f) /\ f \in Seq(Tokens) /\ Len(f) \in Nat
      /\ Closed(g) /\ g \in Seq(Tokens) /\ Len(g) \in Nat
      /\ a \in 1 .. Len(f) /\ AtLine(f, Key(n), a)
  BY DEF Sound, Closed, IsCut, LinesKept
<1>2. PICK x : x = PasswdRecord(m, pw)
  OBVIOUS
<1>3. LineStart(x)
  BY <1>2, PasswdRecordIs DEF WholeLine
<1>4. ASSUME NEW h \in Seq(Tokens)
      PROVE  <<m, pw>> \in Accounts(h) <=> \E p \in 1 .. Len(h) : AtLine(h, x, p)
  <2>1. DOMAIN h = 1 .. Len(h)
    OBVIOUS
  <2>2. <<m, pw>> \in (Users \cup {ROOT}) \X (Passwords \cup {ROOT}) /\ <<m, pw>>[1] = m /\ <<m, pw>>[2] = pw
    BY DEF Who
  <2> QED
    BY <2>1, <2>2, <1>2 DEF Accounts, AtLine
<1>5. /\ \A p \in 1 .. Len(g) : AtLine(g, x, p) =>
                  \E q \in 1 .. Len(f) : AtLine(f, x, q) /\ q = (IF p < a THEN p ELSE p + w) /\ q # a
      /\ \A q \in 1 .. Len(f) : AtLine(f, x, q) /\ q # a =>
                  \E p \in 1 .. Len(g) : AtLine(g, x, p)
  BY <1>1, <1>3, StartsCut
<1>6. ~AtLine(f, x, a)
  <2> SUFFICES ASSUME Occurs(f, x, a) PROVE FALSE
    BY DEF AtLine
  <2>1. Occurs(f, Key(m), a)
    BY <1>1, <1>2, RecordHasKey
  <2>2. Occurs(f, Key(n), a)
    BY <1>1 DEF AtLine
  <2> QED
    BY <2>1, <2>2, <1>1, OneName
<1> QED
  BY <1>1, <1>4, <1>5, <1>6

\* A line for one account leaves the passwords of the others.
LEMMA PasswordsAdd ==
    ASSUME NEW f, Closed(f), NEW n \in Who, NEW word \in Passwords \cup {ROOT},
           NEW rec, rec = PasswdRecord(n, word), NEW g, g = f \o rec
    PROVE  SamePasswords(n, f, g)
<1> SUFFICES ASSUME NEW m \in Who, m # n, NEW pw \in Passwords \cup {ROOT}
             PROVE  <<m, pw>> \in Accounts(f) <=> <<m, pw>> \in Accounts(g)
  BY DEF SamePasswords
<1>2. /\ WholeLine(rec) /\ rec \in Seq(Tokens) /\ Len(rec) \in Nat /\ Len(rec) >= 1
      /\ \A k \in Who : Occurs(rec, Key(k), 1) <=> k = n
  BY PasswdRecordIs DEF WholeLine, LineStart
<1>3. g = f \o rec
  OBVIOUS
<1>4. PICK x : x = PasswdRecord(m, pw)
  OBVIOUS
<1>5. LineStart(x)
  BY <1>4, PasswdRecordIs DEF WholeLine
<1>6. /\ Closed(g) /\ Len(g) = Len(f) + Len(rec)
      /\ \A p \in 1 .. Len(g) :
                  (AtLine(g, x, p) <=> \/ p \in 1 .. Len(f) /\ AtLine(f, x, p)
                                       \/ p = Len(f) + 1 /\ Occurs(rec, x, 1))
  <2>1. /\ Closed(g) /\ Len(g) = Len(f) + Len(rec)
        /\ \A y, p : LineStart(y) /\ p \in 1 .. Len(g) =>
                  (AtLine(g, y, p) <=> \/ p \in 1 .. Len(f) /\ AtLine(f, y, p)
                                       \/ p = Len(f) + 1 /\ Occurs(rec, y, 1))
    BY <1>2, <1>3, LineAdded
  <2> QED
    BY <2>1, <1>5
<1>7. f \in Seq(Tokens) /\ g \in Seq(Tokens) /\ Len(f) \in Nat
  BY <1>6 DEF Closed
<1>8. ASSUME NEW h \in Seq(Tokens)
      PROVE  <<m, pw>> \in Accounts(h) <=> \E p \in 1 .. Len(h) : AtLine(h, x, p)
  <2>1. DOMAIN h = 1 .. Len(h)
    OBVIOUS
  <2>2. <<m, pw>> \in (Users \cup {ROOT}) \X (Passwords \cup {ROOT}) /\ <<m, pw>>[1] = m /\ <<m, pw>>[2] = pw
    BY DEF Who
  <2> QED
    BY <2>1, <2>2, <1>4 DEF Accounts, AtLine
<1>9. ~Occurs(rec, x, 1)
  <2> SUFFICES ASSUME Occurs(rec, x, 1) PROVE FALSE
    OBVIOUS
  <2>1. 1 \in 1 .. Len(rec)
    BY <1>2
  <2>2. Occurs(rec, Key(m), 1)
    BY <2>1, <1>2, <1>4, RecordHasKey
  <2> QED
    BY <2>2, <1>2
<1>10. \A p \in 1 .. Len(f) : p \in 1 .. Len(g)
  BY <1>2, <1>6, <1>7
<1> QED
  BY <1>6, <1>7, <1>8, <1>9, <1>10

-----------------------------------------------------------------------------
(* The group file *)

\* The tokens before the members of the group of users: root's line and HEAD.
H == 2 * Len(ROOT) + 3

\* The file group: root's group, and a list of members that has kept or lost the
\* colon before it and the end of its line.
GroupShape(g) ==
    /\ g \in Seq(Tokens) /\ Len(g) > H
    /\ \A k \in 1 .. Len(ROOT) : g[k] = ROOT[k]
    /\ g[Len(ROOT) + 1] = HEAD /\ g[H] = HEAD
    /\ \A q \in 1 .. H : g[q] \notin {COLON, COMMA}
    /\ \A q \in H + 1 .. Len(g) : (g[q] = LINE => q = Len(g)) /\ (g[q] = COLON => q = H + 1)
    /\ g[Len(g)] \in {LINE, COLON, COMMA}

\* n is a member at p, between two separators.
MemberAt(g, n, p) ==
    /\ p \in 2 .. Len(g) /\ p + Len(n) <= Len(g)
    /\ g[p - 1] \in {COLON, COMMA} /\ g[p + Len(n)] \in {COMMA, LINE}
    /\ \A k \in 1 .. Len(n) : g[p + k - 1] = n[k]

LEMMA HeadFacts == ROOT \in Who /\ Len(ROOT) \in Nat /\ Len(ROOT) >= 1 /\ H \in Nat /\ H > Len(ROOT) + 1
<1>1. ROOT \in Who
  BY DEF Who
<1>2. Len(ROOT) \in Nat /\ Len(ROOT) >= 1
  BY <1>1, Words
<1> QED
  BY <1>1, <1>2 DEF H

LEMMA MembersAre ==
    ASSUME NEW g \in Seq(Tokens), Len(g) >= 1, g[Len(g)] \in {LINE, COLON, COMMA}
    PROVE  Members(g) = {n \in Users : \E p \in 2 .. Len(g) : MemberAt(g, n, p)}
<1>1. Len(g) \in Nat /\ DOMAIN g = 1 .. Len(g)
  OBVIOUS
<1>2. DOMAIN g \ {1} = 2 .. Len(g)
  BY <1>1
<1>3. ASSUME NEW n \in Users, NEW p \in 2 .. Len(g)
      PROVE  /\ Occurs(g, n, p) /\ g[p - 1] \in {COLON, COMMA}
             /\ (p + Len(n) <= Len(g) => g[p + Len(n)] \in {COMMA, LINE})
             <=> MemberAt(g, n, p)
  <2>1. /\ n \in Seq(Tokens) /\ Len(n) \in Nat /\ Len(n) >= 1
        /\ \A k \in 1 .. Len(n) : n[k] \notin {COLON, COMMA, LINE, HEAD}
    BY Words DEF Who
  <2>2. p \in 1 .. Len(g)
    BY <1>1
  <2>3. Occurs(g, n, p) <=> p + Len(n) - 1 <= Len(g) /\ \A k \in 1 .. Len(n) : g[p + k - 1] = n[k]
    <3>1. n \in Seq(Tokens) /\ g \in Seq(Tokens)
      BY <2>1
    <3> QED
      BY <3>1, <2>2, OccursAt
  <2>4. Occurs(g, n, p) => p + Len(n) <= Len(g)
    <3> SUFFICES ASSUME Occurs(g, n, p), ~(p + Len(n) <= Len(g)) PROVE FALSE
      OBVIOUS
    <3>1. p + Len(n) - 1 = Len(g) /\ Len(n) \in 1 .. Len(n)
      <4>1. p + Len(n) - 1 <= Len(g)
        BY <2>3
      <4>2. Len(n) \in Nat /\ Len(n) >= 1
        BY <2>1
      <4> QED
        BY <4>1, <4>2, <2>2, <1>1
    <3>2. g[Len(g)] = n[Len(n)]
      BY <3>1, <2>3
    <3> QED
      BY <3>1, <3>2, <2>1
  <2>5. p + Len(n) <= Len(g) => p + Len(n) - 1 <= Len(g)
    BY <2>1, <1>1
  <2> QED
    BY <2>3, <2>4, <2>5 DEF MemberAt
<1> QED
  BY <1>2, <1>3 DEF Members

\* A name that is not found is no member's.
LEMMA NotMember ==
    ASSUME NEW g \in Seq(Tokens), NEW n, ~Has(g, n)
    PROVE  n \notin Members(g)
<1>1. \A p \in 1 .. Len(g) : ~Occurs(g, n, p)
  BY StrStrFinds
<1>2. DOMAIN g = 1 .. Len(g)
  OBVIOUS
<1> QED
  BY <1>1, <1>2 DEF Members

\* The name of root is found in root's own line, where no member is.
LEMMA RootNoMember ==
    ASSUME NEW g, GroupShape(g)
    PROVE  Has(g, ROOT) /\ ~Own(g, ROOT, {COLON, COMMA}, {COMMA, LINE})
<1>1. ROOT \in Seq(Tokens) /\ Len(ROOT) \in Nat /\ Len(ROOT) >= 1
  BY HeadFacts, Words
<1>2. g \in Seq(Tokens) /\ Len(g) \in Nat /\ Len(g) > Len(ROOT) + 1
  BY HeadFacts DEF GroupShape
<1>3. Occurs(g, ROOT, 1)
  <2>1. 1 \in 1 .. Len(g) /\ 1 + Len(ROOT) - 1 <= Len(g)
    BY <1>1, <1>2
  <2>2. \A k \in 1 .. Len(ROOT) : g[1 + k - 1] = ROOT[k]
    <3> TAKE k \in 1 .. Len(ROOT)
    <3>1. 1 + k - 1 = k
      BY <1>1
    <3> QED
      BY <3>1 DEF GroupShape
  <2> QED
    BY <2>1, <2>2, <1>1, <1>2, OccursAt
<1>4. 1 \in 1 .. Len(g)
  BY <1>2
<1>5. Has(g, ROOT) /\ StrStr(g, ROOT) = 1
  <2>1. /\ StrStr(g, ROOT) \in 0 .. Len(g)
        /\ Has(g, ROOT) <=> StrStr(g, ROOT) \in 1 .. Len(g)
        /\ Has(g, ROOT) <=> \E p \in 1 .. Len(g) : Occurs(g, ROOT, p)
        /\ Has(g, ROOT) => /\ Occurs(g, ROOT, StrStr(g, ROOT))
                           /\ \A p \in 1 .. Len(g) : Occurs(g, ROOT, p) => StrStr(g, ROOT) <= p
    BY <1>2, StrStrFinds
  <2>2. Has(g, ROOT)
    BY <2>1, <1>3, <1>4
  <2>3. StrStr(g, ROOT) \in 1 .. Len(g) /\ StrStr(g, ROOT) <= 1
    BY <2>1, <2>2, <1>3, <1>4
  <2> QED
    BY <2>2, <2>3, <1>2
<1>6. 1 + Len(ROOT) = Len(ROOT) + 1 /\ ~(1 + Len(ROOT) > Len(g))
  BY <1>1, <1>2
<1>7. g[1 + Len(ROOT)] = HEAD
  BY <1>6 DEF GroupShape
<1> QED
  BY <1>5, <1>6, <1>7, LettersAssumption DEF Own

\* Cutting a member cuts all from there on, and leaves the members before.
LEMMA GroupCut ==
    ASSUME NEW g, GroupShape(g), NEW n \in Users, Has(g, n),
           Own(g, n, {COLON, COMMA}, {COMMA, LINE}), NEW c, c = Cut(g, n)
    PROVE  GroupShape(c) /\ Members(c) \subseteq Members(g) \ {n}
<1>1. /\ g \in Seq(Tokens) /\ Len(g) \in Nat /\ Len(g) > H /\ H \in Nat /\ H > Len(ROOT) + 1
      /\ Len(ROOT) \in Nat
  BY HeadFacts DEF GroupShape
<1>2. /\ n \in Seq(Tokens) /\ Len(n) \in Nat /\ Len(n) >= 1
      /\ \A k \in 1 .. Len(n) : n[k] \notin {COLON, COMMA, LINE, HEAD}
  BY Words DEF Who
<1>3. PICK a : a = StrStr(g, n)
  OBVIOUS
<1>4. /\ a \in 1 .. Len(g) /\ Occurs(g, n, a)
      /\ \A p \in 1 .. Len(g) : Occurs(g, n, p) => a <= p
  <2>1. /\ Has(g, n) <=> a \in 1 .. Len(g)
        /\ Has(g, n) => /\ Occurs(g, n, a)
                        /\ \A p \in 1 .. Len(g) : Occurs(g, n, p) => a <= p
    BY <1>1, <1>3, StrStrFinds
  <2> QED
    BY <2>1
<1>5. a + Len(n) - 1 <= Len(g) /\ \A k \in 1 .. Len(n) : g[a + k - 1] = n[k]
  BY <1>1, <1>2, <1>4, OccursAt
<1>6. /\ a = 1 \/ g[a - 1] \in {COLON, COMMA}
      /\ a + Len(n) > Len(g) \/ g[a + Len(n)] \in {COMMA, LINE}
  BY <1>3 DEF Own
<1>7. a # 1
  <2> SUFFICES ASSUME a = 1 PROVE FALSE
    OBVIOUS
  <2>1. ~(Len(n) > Len(ROOT))
    <3> SUFFICES ASSUME Len(n) > Len(ROOT) PROVE FALSE
      OBVIOUS
    <3>1. Len(ROOT) + 1 \in 1 .. Len(n) /\ a + (Len(ROOT) + 1) - 1 = Len(ROOT) + 1
      BY <1>1, <1>2
    <3>2. g[Len(ROOT) + 1] = n[Len(ROOT) + 1]
      BY <3>1, <1>5
    <3> QED
      BY <3>1, <3>2, <1>2 DEF GroupShape
  <2>2. ~(a + Len(n) > Len(g)) /\ a + Len(n) = Len(n) + 1
    BY <2>1, <1>1, <1>2
  <2>3. g[Len(n) + 1] \in {COMMA, LINE}
    BY <2>2, <1>6
  <2>4. CASE Len(n) = Len(ROOT)
    BY <2>3, <2>4, LettersAssumption DEF GroupShape
  <2>5. CASE Len(n) < Len(ROOT)
    <3>1. Len(n) + 1 \in 1 .. Len(ROOT)
      BY <2>5, <1>1, <1>2
    <3>2. g[Len(n) + 1] = ROOT[Len(n) + 1]
      BY <3>1 DEF GroupShape
    <3>3. \A k \in 1 .. Len(ROOT) : ROOT[k] \notin {COLON, COMMA, LINE, HEAD}
      BY HeadFacts, Words
    <3> QED
      BY <2>3, <3>1, <3>2, <3>3
  <2> QED
    BY <2>1, <2>4, <2>5, <1>1, <1>2
<1>8. PICK b : b = a - 1
  OBVIOUS
<1>9. b \in 1 .. Len(g) /\ b < Len(g) /\ b > H /\ b \in H + 1 .. Len(g) /\ g[b] \in {COLON, COMMA} /\ a = b + 1
  <2>1. b \in 1 .. Len(g) /\ b \in Nat /\ g[b] \in {COLON, COMMA} /\ a = b + 1 /\ b < Len(g)
    BY <1>1, <1>4, <1>6, <1>7, <1>8
  <2>2. ~(b \in 1 .. H)
    BY <2>1 DEF GroupShape
  <2> QED
    BY <2>1, <2>2, <1>1
<1>10. Next1(g, a, LINE) = Len(g)
  <2>1. PICK e : e = Next1(g, a, LINE)
    OBVIOUS
  <2>2. /\ e \in a .. Len(g)
        /\ (\E q \in a .. Len(g) : g[q] = LINE) => g[e] = LINE
        /\ (\A q \in a .. Len(g) : g[q] # LINE) => e = Len(g)
    BY <2>1, <1>1, <1>4, NextFinds
  <2>3. CASE g[e] = LINE
    <3>1. e \in H + 1 .. Len(g)
      BY <2>2, <1>1, <1>9
    <3> QED
      BY <3>1, <2>1, <2>3 DEF GroupShape
  <2>4. CASE g[e] # LINE
    BY <2>1, <2>2, <2>4
  <2> QED
    BY <2>3, <2>4
<1>11. c \in Seq(Tokens) /\ Len(c) = b /\ \A i \in 1 .. b : c[i] = g[i]
  <2>1. Len(g) \in a .. Len(g)
    BY <1>1, <1>4
  <2>2. PICK h \in Seq(Tokens) :
               /\ h = SubSeq(g, 1, a - 1) \o SubSeq(g, Len(g) + 1, Len(g))
               /\ Len(h) = Len(g) - (Len(g) - a + 1)
               /\ \A i \in 1 .. a - 1 : h[i] = g[i]
    BY <2>1, <1>1, <1>4, CutTokens
  <2>3. c = h
    BY <2>2, <1>3, <1>10 DEF Cut
  <2>4. Len(h) = b
    BY <2>2, <1>1, <1>9
  <2> QED
    BY <2>2, <2>3, <2>4, <1>8
<1>12. GroupShape(c)
  <2>1. \A k \in 1 .. H : c[k] = g[k]
    BY <1>1, <1>9, <1>11
  <2>2. /\ \A k \in 1 .. Len(ROOT) : c[k] = ROOT[k]
        /\ c[Len(ROOT) + 1] = HEAD /\ c[H] = HEAD
        /\ \A q \in 1 .. H : c[q] \notin {COLON, COMMA}
    <3>1. /\ \A k \in 1 .. Len(ROOT) : k \in 1 .. H
          /\ Len(ROOT) + 1 \in 1 .. H /\ H \in 1 .. H
      BY <1>1
    <3> QED
      BY <3>1, <2>1 DEF GroupShape
  <2>3. \A q \in H + 1 .. Len(c) : (c[q] = LINE => q = Len(c)) /\ (c[q] = COLON => q = H + 1)
    <3> TAKE q \in H + 1 .. Len(c)
    <3>1. q \in H + 1 .. Len(g) /\ q # Len(g) /\ c[q] = g[q]
      BY <1>1, <1>9, <1>11
    <3> QED
      BY <3>1 DEF GroupShape
  <2>4. c[Len(c)] \in {LINE, COLON, COMMA}
    <3>1. b \in 1 .. b
      BY <1>9
    <3> QED
      BY <3>1, <1>9, <1>11
  <2> QED
    BY <2>2, <2>3, <2>4, <1>9, <1>11 DEF GroupShape
<1>13. Members(c) = {m \in Users : \E p \in 2 .. Len(c) : MemberAt(c, m, p)}
  <2>1. Len(c) >= 1 /\ c[Len(c)] \in {LINE, COLON, COMMA}
    BY <1>12, <1>9, <1>11 DEF GroupShape
  <2> QED
    BY <2>1, <1>11, MembersAre
<1>14. Members(g) = {m \in Users : \E p \in 2 .. Len(g) : MemberAt(g, m, p)}
  <2>1. Len(g) >= 1 /\ g[Len(g)] \in {LINE, COLON, COMMA}
    BY <1>1 DEF GroupShape
  <2> QED
    BY <2>1, <1>1, MembersAre
<1>15. ASSUME NEW m \in Users, NEW p \in 2 .. Len(c), MemberAt(c, m, p)
       PROVE  p \in 2 .. Len(g) /\ MemberAt(g, m, p) /\ m # n
  <2>1. /\ Len(m) \in Nat /\ Len(m) >= 1 /\ m \in Seq(Tokens)
    BY Words DEF Who
  <2>2. /\ p \in 2 .. b /\ p + Len(m) <= b
        /\ c[p - 1] \in {COLON, COMMA} /\ c[p + Len(m)] \in {COMMA, LINE}
        /\ \A k \in 1 .. Len(m) : c[p + k - 1] = m[k]
    BY <1>11, <1>15 DEF MemberAt
  <2>3. p - 1 \in 1 .. b /\ p + Len(m) \in 1 .. b /\ \A k \in 1 .. Len(m) : p + k - 1 \in 1 .. b
    BY <2>1, <2>2, <1>1, <1>9
  <2>4. p \in 2 .. Len(g) /\ p + Len(m) <= Len(g)
    BY <2>1, <2>2, <1>1, <1>9
  <2>5. MemberAt(g, m, p)
    BY <2>2, <2>3, <2>4, <1>11 DEF MemberAt
  <2>6. ASSUME m = n PROVE FALSE
    <3>1. Occurs(g, m, p)
      <4>1. p \in 1 .. Len(g) /\ p + Len(m) - 1 <= Len(g) /\ \A k \in 1 .. Len(m) : g[p + k - 1] = m[k]
        BY <2>1, <2>4, <2>5, <1>1 DEF MemberAt
      <4> QED
        BY <4>1, <2>1, <1>1, OccursAt
    <3>2. p \in 1 .. Len(g)
      BY <2>4
    <3>3. a <= p
      BY <3>1, <3>2, <2>6, <1>4
    <3> QED
      BY <3>3, <2>1, <2>2, <1>9
  <2> QED
    BY <2>4, <2>5, <2>6
<1>16. Members(c) \subseteq Members(g) \ {n}
  BY <1>13, <1>14, <1>15
<1> QED
  BY <1>12, <1>16

\* What AddUser writes into the group file: its tokens but the last, a comma
\* unless a colon is there already, the name and the end of the line.
LEMMA WithMemberIs ==
    ASSUME NEW g, GroupShape(g), NEW n \in Users
    PROVE  \E c \in Seq(Tokens), b \in Nat, s \in Nat :
               /\ c = WithMember(g, n) /\ b = Len(g) - 1
               /\ s = (IF g[b] = COLON THEN b ELSE b + 1)
               /\ Len(c) = s + Len(n) + 1
               /\ \A i \in 1 .. b : c[i] = g[i]
               /\ c[s] \in {COLON, COMMA} /\ (s = b + 1 => c[s] = COMMA)
               /\ \A k \in 1 .. Len(n) : c[s + k] = n[k]
               /\ c[s + Len(n) + 1] = LINE
<1>1. g \in Seq(Tokens) /\ Len(g) \in Nat /\ Len(g) >= 2 /\ H \in Nat /\ Len(g) > H
  BY HeadFacts DEF GroupShape
<1>2. /\ n \in Seq(Tokens) /\ Len(n) \in Nat
  BY Words DEF Who
<1>3. PICK b \in Nat : b = Len(g) - 1
  BY <1>1
<1>4. PICK h : h = SubSeq(g, 1, b)
  OBVIOUS
<1>5. h \in Seq(Tokens) /\ Len(h) = b /\ \A i \in 1 .. b : h[i] = g[i]
  <2>1. 1 \in Nat /\ 1 >= 1 /\ b \in Int /\ b <= Len(g) /\ b >= 1
    BY <1>1, <1>3
  <2>2. PICK m : m = 1
    OBVIOUS
  <2>3. m \in Nat /\ m >= 1 /\ h = SubSeq(g, m, b)
    BY <2>2, <1>4
  <2>4. /\ h \in Seq(Tokens)
        /\ Len(h) = IF m <= b THEN b - m + 1 ELSE 0
        /\ \A i \in 1 .. b - m + 1 : h[i] = g[m + i - 1]
    <3>1. b \in Int /\ b <= Len(g) /\ g \in Seq(Tokens)
      BY <2>1, <1>1
    <3> QED
      BY <3>1, <2>3, Part
  <2>5. b - m + 1 = b /\ \A i \in 1 .. b : m + i - 1 = i
    BY <2>1, <2>2
  <2> QED
    BY <2>1, <2>2, <2>4, <2>5
<1>6. PICK t : t = IF g[b] = COLON THEN <<>> ELSE <<COMMA>>
  OBVIOUS
<1>7. t \in Seq(Tokens) /\ Len(t) = (IF g[b] = COLON THEN 0 ELSE 1) /\ (g[b] # COLON => t[1] = COMMA)
  BY <1>6, Separators
<1>8. PICK x : x = h \o t
  OBVIOUS
<1>9. /\ x \in Seq(Tokens) /\ Len(x) = Len(h) + Len(t)
      /\ \A i \in 1 .. Len(h) : x[i] = h[i]
      /\ \A i \in 1 .. Len(t) : x[Len(h) + i] = t[i]
  <2>1. h \in Seq(Tokens) /\ t \in Seq(Tokens)
    BY <1>5, <1>7
  <2> QED
    BY <2>1, <1>8, Joined
<1>10. PICK y : y = x \o n
  OBVIOUS
<1>11. /\ y \in Seq(Tokens) /\ Len(y) = Len(x) + Len(n)
       /\ \A i \in 1 .. Len(x) : y[i] = x[i]
       /\ \A i \in 1 .. Len(n) : y[Len(x) + i] = n[i]
  <2>1. x \in Seq(Tokens) /\ n \in Seq(Tokens)
    BY <1>2, <1>9
  <2> QED
    BY <2>1, <1>10, Joined
<1>12. PICK l : l = <<LINE>>
  OBVIOUS
<1>13. l \in Seq(Tokens) /\ Len(l) = 1 /\ l[1] = LINE
  BY <1>12, Separators
<1>14. PICK c : c = y \o l
  OBVIOUS
<1>15. /\ c \in Seq(Tokens) /\ Len(c) = Len(y) + Len(l)
       /\ \A i \in 1 .. Len(y) : c[i] = y[i]
       /\ \A i \in 1 .. Len(l) : c[Len(y) + i] = l[i]
  <2>1. y \in Seq(Tokens) /\ l \in Seq(Tokens)
    BY <1>11, <1>13
  <2> QED
    BY <2>1, <1>14, Joined
<1>16. c = WithMember(g, n)
  BY <1>3, <1>4, <1>6, <1>8, <1>10, <1>12, <1>14 DEF WithMember
<1>17. PICK s \in Nat : s = (IF g[b] = COLON THEN b ELSE b + 1)
  BY <1>3
<1>18. Len(x) = s /\ Len(y) = s + Len(n) /\ Len(c) = s + Len(n) + 1 /\ b <= s /\ b >= 1
  BY <1>1, <1>2, <1>3, <1>5, <1>7, <1>9, <1>11, <1>13, <1>15, <1>17
<1>19. \A i \in 1 .. s : c[i] = x[i]
  <2> TAKE i \in 1 .. s
  <2>1. i \in 1 .. Len(x) /\ i \in 1 .. Len(y)
    BY <1>2, <1>18
  <2> QED
    BY <2>1, <1>11, <1>15
<1>20. \A i \in 1 .. b : c[i] = g[i]
  <2> TAKE i \in 1 .. b
  <2>1. i \in 1 .. s /\ i \in 1 .. Len(h)
    BY <1>5, <1>18
  <2> QED
    BY <2>1, <1>5, <1>9, <1>19
<1>21. c[s] \in {COLON, COMMA} /\ (s = b + 1 => c[s] = COMMA)
  <2>1. CASE g[b] = COLON
    <3>1. s = b /\ b \in 1 .. b /\ s # b + 1
      BY <2>1, <1>17, <1>18
    <3> QED
      BY <2>1, <3>1, <1>20
  <2>2. CASE g[b] # COLON
    <3>1. s = b + 1 /\ s \in 1 .. s /\ s = Len(h) + 1 /\ 1 \in 1 .. Len(t)
      BY <2>2, <1>5, <1>7, <1>17, <1>18
    <3>2. c[s] = t[1]
      BY <3>1, <1>9, <1>19
    <3> QED
      BY <2>2, <3>2, <1>7
  <2> QED
    BY <2>1, <2>2
<1>22. \A k \in 1 .. Len(n) : c[s + k] = n[k]
  <2> TAKE k \in 1 .. Len(n)
  <2>1. s + k \in 1 .. Len(y)
    BY <1>2, <1>18
  <2> QED
    BY <2>1, <1>11, <1>15, <1>18
<1>23. c[s + Len(n) + 1] = LINE
  BY <1>13, <1>15, <1>18
<1> QED
  BY <1>3, <1>15, <1>16, <1>17, <1>18, <1>20, <1>21, <1>22, <1>23

\* Writing a member adds it, and no other.
LEMMA GroupAdd ==
    ASSUME NEW g, GroupShape(g), NEW n \in Users
    PROVE  GroupShape(WithMember(g, n)) /\ Members(WithMember(g, n)) \subseteq Members(g) \cup {n}
<1>1. /\ g \in Seq(Tokens) /\ Len(g) \in Nat /\ Len(g) > H /\ H \in Nat /\ H > Len(ROOT) + 1
      /\ Len(ROOT) \in Nat
  BY HeadFacts DEF GroupShape
<1>2. /\ n \in Seq(Tokens) /\ Len(n) \in Nat /\ Len(n) >= 1
      /\ \A k \in 1 .. Len(n) : n[k] \notin {COLON, COMMA, LINE, HEAD}
  BY Words DEF Who
<1>3. PICK c \in Seq(Tokens), b \in Nat, s \in Nat :
               /\ c = WithMember(g, n) /\ b = Len(g) - 1
               /\ s = (IF g[b] = COLON THEN b ELSE b + 1)
               /\ Len(c) = s + Len(n) + 1
               /\ \A i \in 1 .. b : c[i] = g[i]
               /\ c[s] \in {COLON, COMMA} /\ (s = b + 1 => c[s] = COMMA)
               /\ \A k \in 1 .. Len(n) : c[s + k] = n[k]
               /\ c[s + Len(n) + 1] = LINE
  BY WithMemberIs
<1>4. b >= H /\ b = Len(g) - 1 /\ (s = b \/ s = b + 1) /\ Len(c) = s + Len(n) + 1 /\ Len(c) > H /\ b <= s
  <2>1. b = Len(g) - 1 /\ (s = b \/ s = b + 1) /\ Len(c) = s + Len(n) + 1
    BY <1>3
  <2>2. Len(g) \in Nat /\ Len(g) > H /\ H \in Nat /\ Len(n) \in Nat
    BY <1>1, <1>2
  <2> QED
    BY <2>1, <2>2
<1>5. \A i \in 1 .. b : c[i] = g[i]
  BY <1>3
<1>6. ASSUME s = b PROVE b = H + 1
  <2>1. g[b] = COLON
    BY <1>3, <1>6
  <2>2. ~(b \in 1 .. H)
    BY <2>1 DEF GroupShape
  <2>3. b \in H + 1 .. Len(g)
    BY <2>2, <1>1, <1>4
  <2> QED
    BY <2>1, <2>3 DEF GroupShape
<1>7. GroupShape(c)
  <2>1. \A k \in 1 .. H : c[k] = g[k]
    BY <1>1, <1>4, <1>5
  <2>2. /\ \A k \in 1 .. Len(ROOT) : c[k] = ROOT[k]
        /\ c[Len(ROOT) + 1] = HEAD /\ c[H] = HEAD
        /\ \A q \in 1 .. H : c[q] \notin {COLON, COMMA}
    <3>1. /\ \A k \in 1 .. Len(ROOT) : k \in 1 .. H
          /\ Len(ROOT) + 1 \in 1 .. H /\ H \in 1 .. H
      BY <1>1
    <3> QED
      BY <3>1, <2>1 DEF GroupShape
  <2>3. \A q \in H + 1 .. Len(c) : (c[q] = LINE => q = Len(c)) /\ (c[q] = COLON => q = H + 1)
    <3> TAKE q \in H + 1 .. Len(c)
    <3>1. CASE q <= b
      <4>1. q \in H + 1 .. Len(g) /\ q # Len(g) /\ c[q] = g[q]
        BY <3>1, <1>1, <1>4, <1>5
      <4> QED
        BY <4>1 DEF GroupShape
    <3>2. CASE q = s /\ q > b
      BY <3>2, <1>3, <1>4, LettersAssumption
    <3>3. CASE q > s /\ q <= s + Len(n)
      <4> DEFINE k == q - s
      <4>1. k \in 1 .. Len(n) /\ s + k = q
        BY <3>3, <1>2, <1>4
      <4>2. c[s + k] = n[k]
        BY <4>1, <1>3
      <4> HIDE DEF k
      <4> QED
        BY <4>1, <4>2, <1>2
    <3>4. CASE q = s + Len(n) + 1
      BY <3>4, <1>3, <1>4, LettersAssumption
    <3>5. q <= b \/ (q = s /\ q > b) \/ (q > s /\ q <= s + Len(n)) \/ q = s + Len(n) + 1
      <4>1. PICK l \in Nat : l = Len(n)
        BY <1>2
      <4>2. q \in Nat /\ q <= s + l + 1 /\ (s = b \/ s = b + 1)
        BY <4>1, <1>1, <1>4
      <4>3. q <= b \/ (q = s /\ q > b) \/ (q > s /\ q <= s + l) \/ q = s + l + 1
        BY <4>1, <4>2
      <4> QED
        BY <4>1, <4>3
    <3> QED
      BY <3>1, <3>2, <3>3, <3>4, <3>5
  <2>4. c[Len(c)] \in {LINE, COLON, COMMA}
    BY <1>3, <1>4
  <2> QED
    BY <2>2, <2>3, <2>4, <1>4 DEF GroupShape
<1>8. Members(c) = {m \in Users : \E p \in 2 .. Len(c) : MemberAt(c, m, p)}
  <2>1. Len(c) >= 1 /\ c[Len(c)] \in {LINE, COLON, COMMA}
    BY <1>1, <1>4, <1>7 DEF GroupShape
  <2> QED
    BY <2>1, MembersAre
<1>9. Members(g) = {m \in Users : \E p \in 2 .. Len(g) : MemberAt(g, m, p)}
  <2>1. Len(g) >= 1 /\ g[Len(g)] \in {LINE, COLON, COMMA}
    BY <1>1 DEF GroupShape
  <2> QED
    BY <2>1, <1>1, MembersAre
<1>10. ASSUME NEW m \in Users, NEW p \in 2 .. Len(c), MemberAt(c, m, p)
       PROVE  m = n \/ (p \in 2 .. Len(g) /\ MemberAt(g, m, p))
  <2>1. /\ Len(m) \in Nat /\ Len(m) >= 1 /\ m \in Seq(Tokens)
        /\ \A k \in 1 .. Len(m) : m[k] \notin {COLON, COMMA, LINE, HEAD}
    BY Words DEF Who
  <2>2. /\ p \in Nat /\ p >= 2 /\ p + Len(m) <= Len(c)
        /\ c[p - 1] \in {COLON, COMMA} /\ c[p + Len(m)] \in {COMMA, LINE}
        /\ \A k \in 1 .. Len(m) : c[p + k - 1] = m[k]
    BY <1>10 DEF MemberAt
  <2>3. ~(p - 1 > s)
    <3> SUFFICES ASSUME p - 1 > s PROVE FALSE
      OBVIOUS
    <3> DEFINE k == p - 1 - s
    <3>1. k \in 1 .. Len(n) /\ s + k = p - 1
      BY <2>1, <2>2, <1>2, <1>4
    <3>2. c[s + k] = n[k]
      BY <3>1, <1>3
    <3> HIDE DEF k
    <3> QED
      BY <3>1, <3>2, <2>2, <1>2
  <2>4. CASE p - 1 = s
    <3>1. \A k \in 1 .. Len(m) : c[s + k] = m[k]
      <4> TAKE k \in 1 .. Len(m)
      <4>1. p + k - 1 = s + k
        BY <2>4, <2>1, <2>2
      <4> QED
        BY <4>1, <2>2
    <3>2. p + Len(m) = s + (Len(m) + 1)
      BY <2>4, <2>1, <2>2
    <3>3. ~(Len(m) < Len(n))
      <4> SUFFICES ASSUME Len(m) < Len(n) PROVE FALSE
        OBVIOUS
      <4>1. Len(m) + 1 \in 1 .. Len(n)
        BY <2>1, <1>2
      <4>2. c[s + (Len(m) + 1)] = n[Len(m) + 1]
        BY <4>1, <1>3
      <4> QED
        BY <4>1, <4>2, <3>2, <2>2, <1>2
    <3>4. ~(Len(n) < Len(m))
      <4> SUFFICES ASSUME Len(n) < Len(m) PROVE FALSE
        OBVIOUS
      <4>1. Len(n) + 1 \in 1 .. Len(m) /\ s + (Len(n) + 1) = s + Len(n) + 1
        BY <2>1, <1>2
      <4>2. c[s + (Len(n) + 1)] = m[Len(n) + 1]
        BY <4>1, <3>1
      <4> QED
        BY <4>1, <4>2, <2>1, <1>3
    <3>5. Len(m) = Len(n)
      BY <3>3, <3>4, <2>1, <1>2
    <3>6. \A k \in 1 .. Len(m) : m[k] = n[k]
      BY <3>1, <3>5, <1>3
    <3> QED
      BY <3>5, <3>6, <2>1, <1>2, SeqEqual
  <2>5. CASE p - 1 < s
    <3>1. p + Len(m) <= s
      <4> SUFFICES ASSUME ~(p + Len(m) <= s) PROVE FALSE
        OBVIOUS
      <4> DEFINE k == s - p + 1
      <4>1. k \in 1 .. Len(m) /\ p + k - 1 = s
        BY <2>1, <2>2, <2>5, <1>4
      <4>2. c[p + k - 1] = m[k]
        BY <4>1, <2>2
      <4> HIDE DEF k
      <4> QED
        BY <4>1, <4>2, <2>1, <1>3
    <3>2. p - 1 \in 1 .. b /\ p \in 2 .. Len(g) /\ \A k \in 1 .. Len(m) : p + k - 1 \in 1 .. b
      <4>1. s <= b + 1 /\ b = Len(g) - 1 /\ b \in Nat /\ Len(m) \in Nat /\ Len(m) >= 1
        BY <2>1, <1>1, <1>4
      <4>2. p \in Nat /\ p >= 2
        BY <2>2
      <4> QED
        BY <4>1, <4>2, <3>1
    <3>3. g[p - 1] \in {COLON, COMMA} /\ \A k \in 1 .. Len(m) : g[p + k - 1] = m[k]
      BY <3>2, <2>2, <1>5
    <3>4. p + Len(m) <= Len(g) /\ g[p + Len(m)] \in {COMMA, LINE}
      <4>1. CASE p + Len(m) <= b
        <5>1. p + Len(m) \in 1 .. b /\ p + Len(m) <= Len(g)
          BY <4>1, <2>1, <2>2, <1>1, <1>4
        <5> QED
          BY <5>1, <2>2, <1>5
      <4>2. CASE p + Len(m) = b + 1
        <5>1. p + Len(m) = Len(g) /\ p + Len(m) <= Len(g)
          BY <4>2, <1>1, <1>4
        <5>2. g[Len(g)] # COLON
          <6> SUFFICES ASSUME g[Len(g)] = COLON PROVE FALSE
            OBVIOUS
          <6>1. Len(g) \in H + 1 .. Len(g)
            BY <1>1
          <6>2. Len(g) = H + 1
            BY <6>1 DEF GroupShape
          <6>3. Len(m) \in 1 .. Len(m) /\ p + Len(m) - 1 = H
            BY <6>2, <5>1, <2>1, <2>2, <1>1
          <6>4. g[H] = m[Len(m)]
            BY <6>3, <3>3
          <6> QED
            BY <6>3, <6>4, <2>1 DEF GroupShape
        <5> QED
          BY <5>1, <5>2 DEF GroupShape
      <4>3. p + Len(m) <= b \/ p + Len(m) = b + 1
        <5>1. PICK l \in Nat : l = Len(m)
          BY <2>1
        <5>2. p \in Nat /\ p + l <= s /\ (s = b \/ s = b + 1)
          BY <5>1, <3>1, <2>2, <1>4
        <5>3. p + l <= b \/ p + l = b + 1
          BY <5>1, <5>2
        <5> QED
          BY <5>1, <5>3
      <4> QED
        BY <4>1, <4>2, <4>3
    <3> QED
      BY <3>2, <3>3, <3>4 DEF MemberAt
  <2> QED
    BY <2>2, <2>3, <2>4, <2>5
<1>11. Members(c) \subseteq Members(g) \cup {n}
  BY <1>8, <1>9, <1>10
<1> QED
  BY <1>3, <1>7, <1>11

-----------------------------------------------------------------------------
(* The three files together *)

Etc(u, p, g, s) == [user |-> u, passwd |-> p, group |-> g, shared |-> s]

\* The files describe the same accounts.
InStep(u, p, g) ==
    /\ Sound(u) /\ Sound(p) /\ Listed(u) = Listed(p)
    /\ GroupShape(g) /\ Members(g) \subseteq Listed(u)

\* The accounts of two states of the files agree but for n's.
AgreeBut(n, u, p, v, q) ==
    SamePasswords(n, p, q) /\ \A m \in Who \ {n} : m \in Listed(u) <=> m \in Listed(v)

\* What is listed is found.
LEMMA ListedFound ==
    ASSUME NEW f \in Seq(Tokens), NEW n \in Listed(f)
    PROVE  Has(f, n)
<1>1. \E p \in 1 .. Len(f) : Occurs(f, n, p)
  BY DEF Listed
<1> QED
  BY <1>1, StrStrFinds

\* After a format there is root.
LEMMA FormatInStep ==
    \E g : FormattedEtc = Etc(UserRecord(ROOT), PasswdRecord(ROOT, ROOT), g, FALSE)
           /\ InStep(UserRecord(ROOT), PasswdRecord(ROOT, ROOT), g)
<1>1. PICK e : e = <<>>
  OBVIOUS
<1>2. e \in Seq(Tokens) /\ Len(e) = 0
  BY <1>1
<1>3. Listed(e) = {} /\ Lines(e) = 0 /\ Sound(e)
  <2>1. Listed(e) = {}
    <3>1. Listed(e) = {n \in Who : \E p \in 1 .. Len(e) : AtLine(e, Key(n), p)}
      BY <1>2, ListedKeys
    <3>2. 1 .. Len(e) = {}
      BY <1>2
    <3> QED
      BY <3>1, <3>2
  <2>2. Lines(e) = Cardinality({p \in 1 .. Len(e) : e[p] = LINE})
    BY <1>2, LinesFinite
  <2>3. {p \in 1 .. Len(e) : e[p] = LINE} = {}
    BY <1>2
  <2>4. Cardinality({}) = 0 /\ IsFiniteSet({})
    BY FS_EmptySet
  <2>5. Closed(e)
    BY <1>1, <1>2 DEF Closed
  <2> QED
    BY <2>1, <2>2, <2>3, <2>4, <2>5, <1>2 DEF Sound
<1>4. ROOT \in Who /\ ROOT \in Passwords \cup {ROOT}
  BY HeadFacts
<1>5. Sound(UserRecord(ROOT)) /\ Listed(UserRecord(ROOT)) = {ROOT}
  <2>1. PICK r : r = UserRecord(ROOT)
    OBVIOUS
  <2>2. WholeLine(r) /\ \A m \in Who : Occurs(r, Key(m), 1) <=> m = ROOT
    BY <2>1, <1>4, UserRecordIs
  <2>3. r = e \o r
    <3>1. r \in Seq(Tokens)
      BY <2>2 DEF WholeLine, LineStart
    <3> QED
      BY <3>1, <1>1
  <2>4. Sound(r) /\ Listed(r) = Listed(e) \cup {ROOT}
    BY <2>2, <2>3, <1>3, <1>4, SoundAdd
  <2> QED
    BY <2>1, <2>4, <1>3
<1>6. Sound(PasswdRecord(ROOT, ROOT)) /\ Listed(PasswdRecord(ROOT, ROOT)) = {ROOT}
  <2>1. PICK r : r = PasswdRecord(ROOT, ROOT)
    OBVIOUS
  <2>2. WholeLine(r) /\ \A m \in Who : Occurs(r, Key(m), 1) <=> m = ROOT
    BY <2>1, <1>4, PasswdRecordIs
  <2>3. r = e \o r
    <3>1. r \in Seq(Tokens)
      BY <2>2 DEF WholeLine, LineStart
    <3> QED
      BY <3>1, <1>1
  <2>4. Sound(r) /\ Listed(r) = Listed(e) \cup {ROOT}
    BY <2>2, <2>3, <1>3, <1>4, SoundAdd
  <2> QED
    BY <2>1, <2>4, <1>3
<1>7. PICK g : g = ROOT \o <<HEAD>> \o ROOT \o <<LINE, HEAD, COLON, LINE>>
  OBVIOUS
<1>8. GroupShape(g) /\ Members(g) = {}
  <2>1. PICK L \in Nat : L = Len(ROOT)
    BY HeadFacts
  <2>2. /\ ROOT \in Seq(Tokens) /\ Len(ROOT) = L /\ L >= 1
        /\ \A k \in 1 .. L : ROOT[k] \notin {COLON, COMMA, LINE, HEAD}
    BY <2>1, HeadFacts, Words
  <2>3. PICK c : c = <<HEAD>>
    OBVIOUS
  <2>4. c \in Seq(Tokens) /\ Len(c) = 1 /\ c[1] = HEAD
    BY <2>3, Separators
  <2>5. PICK x : x = ROOT \o c
    OBVIOUS
  <2>6. /\ x \in Seq(Tokens) /\ Len(x) = Len(ROOT) + Len(c)
        /\ \A i \in 1 .. Len(ROOT) : x[i] = ROOT[i]
        /\ \A i \in 1 .. Len(c) : x[Len(ROOT) + i] = c[i]
    <3>1. ROOT \in Seq(Tokens) /\ c \in Seq(Tokens)
      BY <2>2, <2>4
    <3> QED
      BY <3>1, <2>5, Joined
  <2>7. PICK y : y = x \o ROOT
    OBVIOUS
  <2>8. /\ y \in Seq(Tokens) /\ Len(y) = Len(x) + Len(ROOT)
        /\ \A i \in 1 .. Len(x) : y[i] = x[i]
        /\ \A i \in 1 .. Len(ROOT) : y[Len(x) + i] = ROOT[i]
    <3>1. x \in Seq(Tokens) /\ ROOT \in Seq(Tokens)
      BY <2>2, <2>6
    <3> QED
      BY <3>1, <2>7, Joined
  <2>9. PICK d : d = <<LINE, HEAD, COLON, LINE>>
    OBVIOUS
  <2>10. d \in Seq(Tokens) /\ Len(d) = 4 /\ d[1] = LINE /\ d[2] = HEAD /\ d[3] = COLON /\ d[4] = LINE
    BY <2>9, Separators
  <2>11. g = y \o d
    BY <1>7, <2>3, <2>5, <2>7, <2>9
  <2>12. /\ g \in Seq(Tokens) /\ Len(g) = Len(y) + Len(d)
         /\ \A i \in 1 .. Len(y) : g[i] = y[i]
         /\ \A i \in 1 .. Len(d) : g[Len(y) + i] = d[i]
    <3>1. y \in Seq(Tokens) /\ d \in Seq(Tokens)
      BY <2>8, <2>10
    <3> QED
      BY <3>1, <2>11, Joined
  <2>13. Len(x) = L + 1 /\ Len(y) = L + 1 + L /\ Len(g) = L + 1 + L + 4 /\ H = L + 1 + L + 2
    BY <2>2, <2>4, <2>6, <2>8, <2>10, <2>12 DEF H
  <2>14. \A k \in 1 .. L : g[k] = ROOT[k]
    <3> TAKE k \in 1 .. L
    <3>1. k \in 1 .. Len(x) /\ k \in 1 .. Len(y) /\ k \in 1 .. Len(ROOT)
      BY <2>2, <2>13
    <3> QED
      BY <3>1, <2>6, <2>8, <2>12
  <2>15. g[L + 1] = HEAD
    <3>1. L + 1 \in 1 .. Len(x) /\ L + 1 \in 1 .. Len(y) /\ 1 \in 1 .. Len(c)
      BY <2>2, <2>4, <2>13
    <3>2. x[L + 1] = c[1]
      BY <3>1, <2>2, <2>6
    <3> QED
      BY <3>1, <3>2, <2>4, <2>8, <2>12
  <2>16. \A k \in 1 .. L : g[L + 1 + k] = ROOT[k]
    <3> TAKE k \in 1 .. L
    <3>1. L + 1 + k \in 1 .. Len(y) /\ k \in 1 .. Len(ROOT)
      BY <2>2, <2>13
    <3> QED
      BY <3>1, <2>8, <2>12, <2>13
  <2>17. /\ g[L + 1 + L + 1] = LINE /\ g[H] = HEAD /\ g[H + 1] = COLON /\ g[H + 2] = LINE
         /\ Len(g) = H + 2
    <3>1. \A i \in 1 .. 4 : g[L + 1 + L + i] = d[i]
      BY <2>10, <2>12, <2>13
    <3>2. /\ g[L + 1 + L + 1] = d[1] /\ g[L + 1 + L + 2] = d[2]
          /\ g[L + 1 + L + 3] = d[3] /\ g[L + 1 + L + 4] = d[4]
      BY <3>1
    <3> QED
      BY <3>2, <2>10, <2>13
  <2>18. \A q \in 1 .. H : g[q] \notin {COLON, COMMA}
    <3> TAKE q \in 1 .. H
    <3>1. CASE q \in 1 .. L
      BY <3>1, <2>2, <2>14
    <3>2. CASE q = L + 1
      BY <3>2, <2>15, LettersAssumption
    <3>3. CASE q > L + 1 /\ q <= L + 1 + L
      <4> DEFINE k == q - (L + 1)
      <4>1. k \in 1 .. L /\ L + 1 + k = q
        BY <3>3, <2>2
      <4> HIDE DEF k
      <4> QED
        BY <4>1, <2>2, <2>16
    <3>4. CASE q = L + 1 + L + 1 \/ q = H
      BY <3>4, <2>17, LettersAssumption
    <3> QED
      BY <3>1, <3>2, <3>3, <3>4, <2>2, <2>13
  <2>19. GroupShape(g)
    <3>1. \A q \in H + 1 .. Len(g) : q = H + 1 \/ q = Len(g)
      BY <2>13, <2>17
    <3>2. \A q \in H + 1 .. Len(g) : (g[q] = LINE => q = Len(g)) /\ (g[q] = COLON => q = H + 1)
      BY <3>1, <2>17, LettersAssumption
    <3>3. Len(g) > H
      BY <2>13
    <3> QED
      BY <3>2, <3>3, <2>1, <2>12, <2>14, <2>15, <2>17, <2>18 DEF GroupShape
  <2>20. Members(g) = {m \in Users : \E p \in 2 .. Len(g) : MemberAt(g, m, p)}
    <3>1. Len(g) >= 1 /\ g[Len(g)] \in {LINE, COLON, COMMA}
      BY <2>13, <2>17
    <3> QED
      BY <3>1, <2>12, MembersAre
  <2>21. ASSUME NEW m \in Users, NEW p \in 2 .. Len(g), MemberAt(g, m, p) PROVE FALSE
    <3>1. Len(m) \in Nat /\ Len(m) >= 1
      BY Words DEF Who
    <3>2. p \in 2 .. H + 2 /\ p + Len(m) <= H + 2 /\ g[p - 1] \in {COLON, COMMA}
      BY <2>17, <2>21 DEF MemberAt
    <3>3. ~(p - 1 \in 1 .. H)
      BY <3>2, <2>18
    <3> QED
      BY <3>1, <3>2, <3>3, <2>13
  <2> QED
    BY <2>19, <2>20, <2>21
<1>9. FormattedEtc = Etc(UserRecord(ROOT), PasswdRecord(ROOT, ROOT), g, FALSE)
  BY <1>7 DEF FormattedEtc, Etc
<1>10. InStep(UserRecord(ROOT), PasswdRecord(ROOT, ROOT), g)
  BY <1>5, <1>6, <1>8 DEF InStep
<1> QED
  BY <1>9, <1>10

\* An account that is added is added to each file.
LEMMA AddInStep ==
    ASSUME NEW u, NEW p, NEW g, InStep(u, p, g), NEW n \in Users, NEW pw \in Passwords, ~Has(u, n)
    PROVE  /\ InStep(u \o UserRecord(n), p \o PasswdRecord(n, pw), WithMember(g, n))
           /\ AgreeBut(n, u, p, u \o UserRecord(n), p \o PasswdRecord(n, pw))
<1>1. n \in Who /\ pw \in Passwords \cup {ROOT}
  BY DEF Who
<1>2. Sound(u) /\ Sound(p) /\ Closed(u) /\ Closed(p) /\ u \in Seq(Tokens) /\ Listed(u) = Listed(p)
  BY DEF InStep, Sound, Closed
<1>3. n \notin Listed(u) /\ n \notin Listed(p)
  BY <1>2, ListedFound
<1>4. PICK v : v = u \o UserRecord(n)
  OBVIOUS
<1>5. PICK q : q = p \o PasswdRecord(n, pw)
  OBVIOUS
<1>6. Sound(v) /\ Listed(v) = Listed(u) \cup {n}
  <2>1. PICK r : r = UserRecord(n)
    OBVIOUS
  <2>2. WholeLine(r) /\ \A m \in Who : Occurs(r, Key(m), 1) <=> m = n
    BY <2>1, <1>1, UserRecordIs
  <2> QED
    BY <2>1, <2>2, <1>1, <1>2, <1>3, <1>4, SoundAdd
<1>7. Sound(q) /\ Listed(q) = Listed(p) \cup {n}
  <2>1. PICK r : r = PasswdRecord(n, pw)
    OBVIOUS
  <2>2. WholeLine(r) /\ \A m \in Who : Occurs(r, Key(m), 1) <=> m = n
    BY <2>1, <1>1, PasswdRecordIs
  <2> QED
    BY <2>1, <2>2, <1>1, <1>2, <1>3, <1>5, SoundAdd
<1>8. GroupShape(WithMember(g, n)) /\ Members(WithMember(g, n)) \subseteq Members(g) \cup {n}
  BY GroupAdd DEF InStep
<1>9. SamePasswords(n, p, q)
  <2>1. PICK r : r = PasswdRecord(n, pw)
    OBVIOUS
  <2>2. q = p \o r
    BY <2>1, <1>5
  <2> QED
    BY <2>1, <2>2, <1>1, <1>2, PasswordsAdd
<1>10. InStep(v, q, WithMember(g, n))
  BY <1>2, <1>6, <1>7, <1>8 DEF InStep
<1>11. AgreeBut(n, u, p, v, q)
  BY <1>6, <1>9 DEF AgreeBut
<1> QED
  BY <1>4, <1>5, <1>10, <1>11


\* An account found in user is found in passwd, and one that is deleted is
\* deleted from both.
LEMMA DeleteInStep ==
    ASSUME NEW u, NEW p, NEW g, InStep(u, p, g), NEW n \in Who, Has(u, n),
           Own(u, n, {LINE}, {COLON}), Has(p, n) => Own(p, n, {LINE}, {COLON})
    PROVE  /\ Has(p, n)
           /\ Sound(Cut(u, n)) /\ Sound(Cut(p, n))
           /\ Listed(Cut(u, n)) = Listed(u) \ {n} /\ Listed(Cut(p, n)) = Listed(p) \ {n}
           /\ AgreeBut(n, u, p, Cut(u, n), Cut(p, n))
<1>1. Sound(u) /\ Sound(p) /\ Closed(u) /\ Closed(p) /\ p \in Seq(Tokens) /\ Listed(u) = Listed(p)
  BY DEF InStep, Sound, Closed
<1>2. PICK v : v = Cut(u, n)
  OBVIOUS
<1>3. PICK a, e, w : IsCut(u, n, v, a, e, w)
  BY <1>1, <1>2, CutLine
<1>4. Sound(v) /\ Listed(v) = Listed(u) \ {n} /\ n \in Listed(u)
  BY <1>1, <1>3, SoundCut
<1>5. Has(p, n)
  BY <1>1, <1>4, ListedFound
<1>6. PICK q : q = Cut(p, n)
  OBVIOUS
<1>7. PICK b, d, l : IsCut(p, n, q, b, d, l)
  BY <1>1, <1>5, <1>6, CutLine
<1>8. Sound(q) /\ Listed(q) = Listed(p) \ {n}
  BY <1>1, <1>7, SoundCut
<1>9. SamePasswords(n, p, q)
  BY <1>1, <1>7, PasswordsCut
<1>10. AgreeBut(n, u, p, v, q)
  BY <1>4, <1>9 DEF AgreeBut
<1> QED
  BY <1>2, <1>4, <1>5, <1>6, <1>8, <1>10

-----------------------------------------------------------------------------
(* The invariant *)

Shaped == etc = Etc(etc.user, etc.passwd, etc.group, etc.shared)

\* The files agree as long as nothing else than a crash has happened; passwd is
\* a copy of user only after an operation that ended half-way.
IInv ==
    /\ Shaped /\ etc.shared \in BOOLEAN /\ faults \subseteq Faults
    /\ etc.shared => faults \cap {"killedInDelete", "crashed"} # {}
    /\ faults \subseteq {"crashed"} =>
           ~etc.shared /\ InStep(etc.user, etc.passwd, etc.group)

\* The fields of the three files and of one that is changed.
LEMMA Fields ==
    ASSUME NEW u, NEW p, NEW g, NEW s, NEW x
    PROVE  /\ Etc(u, p, g, s).user = u /\ Etc(u, p, g, s).passwd = p
           /\ Etc(u, p, g, s).group = g /\ Etc(u, p, g, s).shared = s
           /\ [Etc(u, p, g, s) EXCEPT !.user = x] = Etc(x, p, g, s)
           /\ [Etc(u, p, g, s) EXCEPT !.passwd = x] = Etc(u, x, g, s)
           /\ [Etc(u, p, g, s) EXCEPT !.group = x] = Etc(u, p, x, s)
           /\ [Etc(u, p, g, s) EXCEPT !.shared = x] = Etc(u, p, g, x)
BY DEF Etc

\* The tree with the home directory of n, and without it.
Added(n) ==
    LET d == HomeDir(tree, NOBODY)
    IN  Linking(tree, d, n, [Dir(At(n, "user"), d) EXCEPT !.mode = "private"])
Removed(n) ==
    LET d == HomeDir(tree, ROOT)
    IN  IF n \in DOMAIN tree[d].kids /\ tree[tree[d].kids[n]].kind = "dir"
        THEN Unlinked(tree, d, n) ELSE tree

\* What AddUser leaves on the disk, each write after the other.
LEMMA AddUserWritesAre ==
    ASSUME Shaped, NEW n, NEW pw
    PROVE  \E t : t = Added(n) /\ AddUserWrites(n, pw) =
              IF Has(Read(etc.user), n) THEN <<Disk(t, etc)>>
              ELSE LET u == Read(etc.user) \o UserRecord(n)
                       p == Read(etc.passwd) \o PasswdRecord(n, pw)
                       g == WithMember(Read(etc.group), n)
                   IN  <<Disk(t, etc), Disk(t, Etc(u, etc.passwd, etc.group, etc.shared)),
                         Disk(t, Etc(u, p, etc.group, etc.shared)), Disk(t, Etc(u, p, g, etc.shared))>>
<1>1. PICK eu, ep, eg, es : etc = Etc(eu, ep, eg, es)
  BY DEF Shaped
<1>2. etc.user = eu /\ etc.passwd = ep /\ etc.group = eg /\ etc.shared = es
  BY <1>1, Fields
<1>3. PICK u : u = Read(eu) \o UserRecord(n)
  OBVIOUS
<1>4. PICK p : p = Read(ep) \o PasswdRecord(n, pw)
  OBVIOUS
<1>5. PICK g : g = WithMember(Read(eg), n)
  OBVIOUS
<1> DEFINE U == [etc EXCEPT !.user = Read(@) \o UserRecord(n)]
           P == [U EXCEPT !.passwd = Read(@) \o PasswdRecord(n, pw)]
           G == [P EXCEPT !.group = WithMember(Read(@), n)]
           d == HomeDir(tree, NOBODY)
           t == Linking(tree, d, n, [Dir(At(n, "user"), d) EXCEPT !.mode = "private"])
<1>6. AddUserWrites(n, pw) = IF Has(Read(etc.user), n) THEN <<Disk(t, etc)>>
                             ELSE <<Disk(t, etc), Disk(t, U), Disk(t, P), Disk(t, G)>>
  BY DEF AddUserWrites
<1>7. U = Etc(u, ep, eg, es)
  <2>1. U = [etc EXCEPT !.user = Read(etc.user) \o UserRecord(n)]
    OBVIOUS
  <2>2. [etc EXCEPT !.user = u] = Etc(u, ep, eg, es)
    BY <1>1, Fields
  <2> QED
    BY <2>1, <2>2, <1>2, <1>3
<1>8. P = Etc(u, p, eg, es)
  <2>1. P = [U EXCEPT !.passwd = Read(U.passwd) \o PasswdRecord(n, pw)]
    OBVIOUS
  <2> HIDE DEF U, P
  <2>2. [U EXCEPT !.passwd = p] = Etc(u, p, eg, es) /\ U.passwd = ep
    BY <1>7, Fields
  <2> QED
    BY <2>1, <2>2, <1>4
<1>9. G = Etc(u, p, g, es)
  <2>1. G = [P EXCEPT !.group = WithMember(Read(P.group), n)]
    OBVIOUS
  <2> HIDE DEF P, G
  <2>2. [P EXCEPT !.group = g] = Etc(u, p, g, es) /\ P.group = eg
    BY <1>8, Fields
  <2> QED
    BY <2>1, <2>2, <1>5
<1>11. t = Added(n)
  BY DEF Added
<1> HIDE DEF U, P, G, t
<1>10. AddUserWrites(n, pw) =
           IF Has(Read(eu), n) THEN <<Disk(t, etc)>>
           ELSE <<Disk(t, etc), Disk(t, Etc(u, ep, eg, es)), Disk(t, Etc(u, p, eg, es)),
                  Disk(t, Etc(u, p, g, es))>>
  BY <1>2, <1>6, <1>7, <1>8, <1>9
<1> QED
  BY <1>2, <1>3, <1>4, <1>5, <1>10, <1>11

\* A list of two continued.
LEMMA Tuples ==
    ASSUME NEW a, NEW b, NEW c, NEW d, NEW e
    PROVE  Append(<<a, b>>, c) = <<a, b, c>> /\ <<a, b>> \o <<c, d, e>> = <<a, b, c, d, e>>
<1>1. PICK S : S = {a, b, c, d, e}
  OBVIOUS
<1>2. PICK v, w : v = <<a, b>> /\ w = <<c, d, e>>
  OBVIOUS
<1>3. /\ v \in Seq(S) /\ Len(v) = 2 /\ v[1] = a /\ v[2] = b
      /\ w \in Seq(S) /\ Len(w) = 3 /\ w[1] = c /\ w[2] = d /\ w[3] = e
  BY <1>1, <1>2
<1>4. Append(v, c) = <<a, b, c>>
  <2>1. PICK x : x = Append(v, c)
    OBVIOUS
  <2>2. c \in S
    BY <1>1
  <2>3. /\ x \in Seq(S) /\ Len(x) = Len(v) + 1 /\ \A i \in 1 .. Len(v) : x[i] = v[i]
        /\ x[Len(v) + 1] = c
    <3>1. v \in Seq(S) /\ c \in S
      BY <1>3, <2>2
    <3> QED
      BY <3>1, <2>1, AppendProperties, ZenonT(40)
  <2>4. Len(x) = 3 /\ x[1] = a /\ x[2] = b /\ x[3] = c
    BY <1>3, <2>3
  <2>5. PICK y : y = <<a, b, c>>
    OBVIOUS
  <2>6. y \in Seq(S) /\ Len(y) = 3 /\ y[1] = a /\ y[2] = b /\ y[3] = c
    BY <1>1, <2>5
  <2>7. \A i \in 1 .. 3 : i = 1 \/ i = 2 \/ i = 3
    OBVIOUS
  <2>8. Len(x) = Len(y) /\ \A i \in 1 .. Len(x) : x[i] = y[i]
    BY <2>4, <2>6, <2>7
  <2>9. x = y
    BY <2>3, <2>6, <2>8, SeqEqual
  <2> QED
    BY <2>1, <2>5, <2>9
<1>5. v \o w = <<a, b, c, d, e>>
  <2>1. PICK x : x = v \o w
    OBVIOUS
  <2>2. /\ x \in Seq(S) /\ Len(x) = Len(v) + Len(w)
        /\ \A i \in 1 .. Len(v) + Len(w) : x[i] = IF i <= Len(v) THEN v[i] ELSE w[i - Len(v)]
    BY <1>3, <2>1, ConcatProperties
  <2>3. Len(x) = 5 /\ x[1] = a /\ x[2] = b /\ x[3] = c /\ x[4] = d /\ x[5] = e
    BY <1>3, <2>2
  <2>4. PICK y : y = <<a, b, c, d, e>>
    OBVIOUS
  <2>5. y \in Seq(S) /\ Len(y) = 5 /\ y[1] = a /\ y[2] = b /\ y[3] = c /\ y[4] = d /\ y[5] = e
    BY <1>1, <2>4
  <2>6. \A i \in 1 .. 5 : i = 1 \/ i = 2 \/ i = 3 \/ i = 4 \/ i = 5
    OBVIOUS
  <2>7. Len(x) = Len(y) /\ \A i \in 1 .. Len(x) : x[i] = y[i]
    BY <2>3, <2>5, <2>6
  <2>8. x = y
    BY <2>2, <2>5, <2>7, SeqEqual
  <2> QED
    BY <2>1, <2>4, <2>8
<1> QED
  BY <1>2, <1>4, <1>5

\* What DeleteUser leaves on the disk, each write after the other.
LEMMA DeleteUserWritesAre ==
    ASSUME Shaped, NEW n
    PROVE  \E t :
              LET u  == Cut(Read(etc.user), n)
                  p  == Cut(Read(etc.passwd), n)
                  g  == Cut(Read(etc.group), n)
                  d1 == Disk(tree, Etc(u, etc.passwd, etc.group, etc.shared))
                  d2 == Disk(tree, Etc(u, etc.passwd, etc.group, TRUE))
                  d3 == Disk(tree, Etc(u, p, etc.group, FALSE))
              IN  t = Removed(n) /\ DeleteUserWrites(n) =
                     IF ~Has(Read(etc.passwd), n) THEN <<d1, d2>>
                     ELSE IF ~Has(Read(etc.group), n) THEN <<d1, d2, d3>>
                     ELSE <<d1, d2, d3, Disk(tree, Etc(u, p, g, FALSE)), Disk(t, Etc(u, p, g, FALSE))>>
<1>1. PICK eu, ep, eg, es : etc = Etc(eu, ep, eg, es)
  BY DEF Shaped
<1>2. etc.user = eu /\ etc.passwd = ep /\ etc.group = eg /\ etc.shared = es
  BY <1>1, Fields
<1>3. PICK u : u = Cut(Read(eu), n)
  OBVIOUS
<1>4. PICK p : p = Cut(Read(ep), n)
  OBVIOUS
<1>5. PICK g : g = Cut(Read(eg), n)
  OBVIOUS
<1> DEFINE U == [etc EXCEPT !.user = Cut(Read(@), n)]
           X == [U EXCEPT !.shared = TRUE]
           P == [X EXCEPT !.passwd = Cut(Read(@), n), !.shared = FALSE]
           G == [P EXCEPT !.group = Cut(Read(@), n)]
           d == HomeDir(tree, ROOT)
           t == IF n \in DOMAIN tree[d].kids /\ tree[tree[d].kids[n]].kind = "dir"
                THEN Unlinked(tree, d, n) ELSE tree
           early == <<Disk(tree, U), Disk(tree, X)>>
<1>6. DeleteUserWrites(n) =
          IF ~Has(Read(etc.passwd), n) THEN early
          ELSE IF ~Has(Read(etc.group), n) THEN Append(early, Disk(tree, P))
          ELSE early \o <<Disk(tree, P), Disk(tree, G), Disk(t, G)>>
  BY DEF DeleteUserWrites
<1>7. /\ U = [etc EXCEPT !.user = Cut(Read(etc.user), n)]
      /\ X = [U EXCEPT !.shared = TRUE]
      /\ P = [[X EXCEPT !.passwd = Cut(Read(X.passwd), n)] EXCEPT !.shared = FALSE]
      /\ G = [P EXCEPT !.group = Cut(Read(P.group), n)]
      /\ early = <<Disk(tree, U), Disk(tree, X)>>
  OBVIOUS
<1>16. t = Removed(n)
  BY DEF Removed
<1> HIDE DEF U, X, P, G, d, t, early
<1>8. U = Etc(u, ep, eg, es)
  <2>1. [etc EXCEPT !.user = u] = Etc(u, ep, eg, es)
    BY <1>1, Fields
  <2> QED
    BY <2>1, <1>2, <1>3, <1>7
<1>9. PICK yes, no : yes = TRUE /\ no = FALSE
  OBVIOUS
<1>10. X = Etc(u, ep, eg, yes)
  <2>1. X = [U EXCEPT !.shared = yes]
    BY <1>7, <1>9, Zenon
  <2>2. [Etc(u, ep, eg, es) EXCEPT !.shared = yes] = Etc(u, ep, eg, yes)
    BY Fields
  <2> QED
    BY <2>1, <2>2, <1>8
<1>11. P = Etc(u, p, eg, no)
  <2>1. P = [[X EXCEPT !.passwd = Cut(Read(X.passwd), n)] EXCEPT !.shared = no]
    BY <1>7, <1>9, Zenon
  <2>2. X.passwd = ep
    BY <1>10, Fields
  <2>3. [X EXCEPT !.passwd = p] = Etc(u, p, eg, yes)
    BY <1>10, Fields
  <2>4. [Etc(u, p, eg, yes) EXCEPT !.shared = no] = Etc(u, p, eg, no)
    BY Fields
  <2> QED
    BY <2>1, <2>2, <2>3, <2>4, <1>4
<1>12. G = Etc(u, p, g, no)
  <2>1. [P EXCEPT !.group = g] = Etc(u, p, g, no) /\ P.group = eg
    BY <1>11, Fields
  <2> QED
    BY <2>1, <1>5, <1>7
<1>13. PICK d1, d2, d3, d4, d5 :
           /\ d1 = Disk(tree, U) /\ d2 = Disk(tree, X) /\ d3 = Disk(tree, P)
           /\ d4 = Disk(tree, G) /\ d5 = Disk(t, G)
  OBVIOUS
<1>14. DeleteUserWrites(n) =
          IF ~Has(Read(ep), n) THEN <<d1, d2>>
          ELSE IF ~Has(Read(eg), n) THEN <<d1, d2, d3>>
          ELSE <<d1, d2, d3, d4, d5>>
  <2>1. Append(<<d1, d2>>, d3) = <<d1, d2, d3>> /\ <<d1, d2>> \o <<d3, d4, d5>> = <<d1, d2, d3, d4, d5>>
    BY Tuples
  <2>2. DeleteUserWrites(n) =
            IF ~Has(Read(ep), n) THEN <<d1, d2>>
            ELSE IF ~Has(Read(eg), n) THEN Append(<<d1, d2>>, d3)
            ELSE <<d1, d2>> \o <<d3, d4, d5>>
    BY <1>2, <1>6, <1>7, <1>13, Zenon
  <2> QED
    BY <2>1, <2>2, Zenon
<1>15. /\ d1 = Disk(tree, Etc(u, ep, eg, es)) /\ d2 = Disk(tree, Etc(u, ep, eg, TRUE))
       /\ d3 = Disk(tree, Etc(u, p, eg, FALSE)) /\ d4 = Disk(tree, Etc(u, p, g, FALSE))
       /\ d5 = Disk(t, Etc(u, p, g, FALSE))
  BY <1>8, <1>9, <1>10, <1>11, <1>12, <1>13, Zenon
<1> QED
  BY <1>2, <1>3, <1>4, <1>5, <1>14, <1>15, <1>16, Zenon

LEMMA DiskIs ==
    ASSUME NEW t, NEW e
    PROVE  Disk(t, e).tree = t /\ Disk(t, e).etc = e
BY DEF Disk

\* What AddUser changes: nothing, or each of the files.
LEMMA AddUserLeaves ==
    ASSUME Shaped, NEW n, NEW pw, AddUser(n, pw)
    PROVE  /\ ~etc.shared
           /\ \/ etc' = etc /\ faults' = faults
              \/ /\ ~Has(Read(etc.user), n)
                 /\ etc' = Etc(Read(etc.user) \o UserRecord(n), Read(etc.passwd) \o PasswdRecord(n, pw),
                               WithMember(Read(etc.group), n), etc.shared)
                 /\ faults' = faults \cup (IF TooLong THEN {"long"} ELSE {})
<1>1. PICK w : w = AddUserWrites(n, pw)
  OBVIOUS
<1>2. etc' = Last(w).etc /\ faults' = faults \cup (IF TooLong /\ Len(w) > 1 THEN {"long"} ELSE {})
  BY <1>1 DEF AddUser
<1>3. ~etc.shared
  BY DEF AddUser, AddUserAllowed, Writing
<1>4. PICK u : u = Read(etc.user) \o UserRecord(n)
  OBVIOUS
<1>5. PICK p : p = Read(etc.passwd) \o PasswdRecord(n, pw)
  OBVIOUS
<1>6. PICK g : g = WithMember(Read(etc.group), n)
  OBVIOUS
<1>7. PICK t : w = IF Has(Read(etc.user), n) THEN <<Disk(t, etc)>>
              ELSE <<Disk(t, etc), Disk(t, Etc(u, etc.passwd, etc.group, etc.shared)),
                     Disk(t, Etc(u, p, etc.group, etc.shared)), Disk(t, Etc(u, p, g, etc.shared))>>
  BY <1>1, <1>4, <1>5, <1>6, AddUserWritesAre
<1>8. CASE Has(Read(etc.user), n)
  <2>1. w = <<Disk(t, etc)>>
    BY <1>7, <1>8
  <2>2. Len(w) = 1 /\ Last(w) = Disk(t, etc)
    BY <2>1 DEF Last
  <2> QED
    BY <2>2, <1>2, <1>3, DiskIs
<1>9. CASE ~Has(Read(etc.user), n)
  <2>1. w = <<Disk(t, etc), Disk(t, Etc(u, etc.passwd, etc.group, etc.shared)),
              Disk(t, Etc(u, p, etc.group, etc.shared)), Disk(t, Etc(u, p, g, etc.shared))>>
    BY <1>7, <1>9
  <2>2. Len(w) = 4 /\ Last(w) = Disk(t, Etc(u, p, g, etc.shared))
    BY <2>1 DEF Last
  <2>3. etc' = Etc(u, p, g, etc.shared)
    BY <2>2, <1>2, DiskIs
  <2>4. faults' = faults \cup (IF TooLong THEN {"long"} ELSE {})
    BY <2>2, <1>2
  <2> QED
    BY <2>3, <2>4, <1>3, <1>4, <1>5, <1>6, <1>9
<1> QED
  BY <1>8, <1>9

\* A kill in AddUser is recorded, and leaves the inodes of the files.
LEMMA KilledInAddUserLeaves ==
    ASSUME Shaped, NEW n, NEW pw, KilledInAddUser(n, pw)
    PROVE  /\ \E u, p, g : etc' = Etc(u, p, g, etc.shared)
           /\ ~etc.shared
           /\ faults \cup {"killedInAdd"} \subseteq faults'
           /\ faults' \subseteq faults \cup {"killedInAdd", "long"}
<1>1. PICK w : w = AddUserWrites(n, pw)
  OBVIOUS
<1>2. PICK k \in 1 .. Len(w) - 1 :
          /\ etc' = w[k].etc
          /\ faults' = faults \cup {"killedInAdd"} \cup (IF TooLong THEN {"long"} ELSE {})
  BY <1>1 DEF KilledInAddUser
<1>3. ~etc.shared
  BY DEF KilledInAddUser, AddUserAllowed, Writing
<1>4. PICK u : u = Read(etc.user) \o UserRecord(n)
  OBVIOUS
<1>5. PICK p : p = Read(etc.passwd) \o PasswdRecord(n, pw)
  OBVIOUS
<1>6. PICK g : g = WithMember(Read(etc.group), n)
  OBVIOUS
<1>7. PICK t : w = IF Has(Read(etc.user), n) THEN <<Disk(t, etc)>>
              ELSE <<Disk(t, etc), Disk(t, Etc(u, etc.passwd, etc.group, etc.shared)),
                     Disk(t, Etc(u, p, etc.group, etc.shared)), Disk(t, Etc(u, p, g, etc.shared))>>
  BY <1>1, <1>4, <1>5, <1>6, AddUserWritesAre
<1>8. \E v, q, h : etc' = Etc(v, q, h, etc.shared)
  <2>1. CASE Has(Read(etc.user), n)
    <3>1. w = <<Disk(t, etc)>>
      BY <1>7, <2>1
    <3>2. Len(w) = 1
      BY <3>1
    <3> QED
      BY <3>2, <1>2
  <2>2. CASE ~Has(Read(etc.user), n)
    <3>1. w = <<Disk(t, etc), Disk(t, Etc(u, etc.passwd, etc.group, etc.shared)),
                Disk(t, Etc(u, p, etc.group, etc.shared)), Disk(t, Etc(u, p, g, etc.shared))>>
      BY <1>7, <2>2
    <3>2. Len(w) = 4 /\ w[1] = Disk(t, etc) /\ w[2] = Disk(t, Etc(u, etc.passwd, etc.group, etc.shared))
          /\ w[3] = Disk(t, Etc(u, p, etc.group, etc.shared))
      BY <3>1
    <3>3. k = 1 \/ k = 2 \/ k = 3
      BY <3>2, <1>2
    <3>4. CASE k = 1
      <4>1. etc' = etc
        BY <3>2, <3>4, <1>2, DiskIs
      <4> QED
        BY <4>1 DEF Shaped
    <3>5. CASE k = 2
      BY <3>2, <3>5, <1>2, DiskIs
    <3>6. CASE k = 3
      BY <3>2, <3>6, <1>2, DiskIs
    <3> QED
      BY <3>3, <3>4, <3>5, <3>6
  <2> QED
    BY <2>1, <2>2
<1>9. /\ faults \cup {"killedInAdd"} \subseteq faults'
      /\ faults' \subseteq faults \cup {"killedInAdd", "long"}
  BY <1>2
<1> QED
  BY <1>3, <1>8, <1>9

\* A name is cut from each file by a DeleteUser that comes to its end.
LEMMA DeleteUserLeaves ==
    ASSUME Shaped, NEW n, DeleteUser(n)
    PROVE  /\ ~etc.shared /\ Has(Read(etc.user), n)
           /\ etc' = Etc(Cut(Read(etc.user), n), Cut(Read(etc.passwd), n), Cut(Read(etc.group), n), FALSE)
           /\ Has(Read(etc.passwd), n) /\ Has(Read(etc.group), n)
           /\ faults' = faults \cup DeleteFaults(n)
<1>1. PICK w : w = DeleteUserWrites(n)
  OBVIOUS
<1>2. Len(w) = 5 /\ etc' = w[5].etc /\ faults' = faults \cup DeleteFaults(n)
  BY <1>1 DEF DeleteUser
<1>3. ~etc.shared /\ Has(Read(etc.user), n)
  BY DEF DeleteUser, DeleteUserAllowed, Writing
<1>4. PICK u, p, g : u = Cut(Read(etc.user), n) /\ p = Cut(Read(etc.passwd), n) /\ g = Cut(Read(etc.group), n)
  OBVIOUS
<1>5. PICK t : w = IF ~Has(Read(etc.passwd), n)
                   THEN <<Disk(tree, Etc(u, etc.passwd, etc.group, etc.shared)),
                          Disk(tree, Etc(u, etc.passwd, etc.group, TRUE))>>
                   ELSE IF ~Has(Read(etc.group), n)
                   THEN <<Disk(tree, Etc(u, etc.passwd, etc.group, etc.shared)),
                          Disk(tree, Etc(u, etc.passwd, etc.group, TRUE)),
                          Disk(tree, Etc(u, p, etc.group, FALSE))>>
                   ELSE <<Disk(tree, Etc(u, etc.passwd, etc.group, etc.shared)),
                          Disk(tree, Etc(u, etc.passwd, etc.group, TRUE)),
                          Disk(tree, Etc(u, p, etc.group, FALSE)),
                          Disk(tree, Etc(u, p, g, FALSE)), Disk(t, Etc(u, p, g, FALSE))>>
  BY <1>1, <1>4, DeleteUserWritesAre, Zenon
<1>6. PICK d1, d2, d3, d4, d5 :
          /\ d1 = Disk(tree, Etc(u, etc.passwd, etc.group, etc.shared))
          /\ d2 = Disk(tree, Etc(u, etc.passwd, etc.group, TRUE))
          /\ d3 = Disk(tree, Etc(u, p, etc.group, FALSE))
          /\ d4 = Disk(tree, Etc(u, p, g, FALSE)) /\ d5 = Disk(t, Etc(u, p, g, FALSE))
  OBVIOUS
<1>7. w = IF ~Has(Read(etc.passwd), n) THEN <<d1, d2>>
          ELSE IF ~Has(Read(etc.group), n) THEN <<d1, d2, d3>> ELSE <<d1, d2, d3, d4, d5>>
  BY <1>5, <1>6, Zenon
<1>8. Has(Read(etc.passwd), n) /\ Has(Read(etc.group), n)
  <2>1. Len(<<d1, d2>>) = 2 /\ Len(<<d1, d2, d3>>) = 3
    OBVIOUS
  <2> QED
    BY <2>1, <1>2, <1>7
<1>9. w = <<d1, d2, d3, d4, d5>>
  BY <1>7, <1>8
<1>10. w[5] = d5
  BY <1>9
<1>11. etc' = Etc(u, p, g, FALSE)
  <2>1. PICK e : e = Etc(u, p, g, FALSE)
    OBVIOUS
  <2>2. d5 = Disk(t, e)
    BY <2>1, <1>6, Zenon
  <2>3. d5.etc = e
    BY <2>2, DiskIs
  <2> QED
    BY <2>1, <2>3, <1>2, <1>10
<1> QED
  BY <1>2, <1>3, <1>4, <1>8, <1>11, Zenon

\* DeleteUser crashes where passwd or group does not have the name.
LEMMA CrashLeaves ==
    ASSUME Shaped, NEW n, CrashInDeleteUser(n)
    PROVE  /\ ~etc.shared /\ Has(Read(etc.user), n)
           /\ \/ /\ ~Has(Read(etc.passwd), n)
                 /\ etc' = Etc(Cut(Read(etc.user), n), etc.passwd, etc.group, TRUE)
              \/ /\ ~Has(Read(etc.group), n)
                 /\ etc' = Etc(Cut(Read(etc.user), n), Cut(Read(etc.passwd), n), etc.group, FALSE)
           /\ faults' = faults \cup DeleteFaults(n) \cup {"crashed"}
<1>1. PICK w : w = DeleteUserWrites(n)
  OBVIOUS
<1>2. Len(w) < 5 /\ etc' = Last(w).etc /\ faults' = faults \cup DeleteFaults(n) \cup {"crashed"}
  BY <1>1 DEF CrashInDeleteUser
<1>3. ~etc.shared /\ Has(Read(etc.user), n)
  BY DEF CrashInDeleteUser, DeleteUserAllowed, Writing
<1>4. PICK u, p, g : u = Cut(Read(etc.user), n) /\ p = Cut(Read(etc.passwd), n) /\ g = Cut(Read(etc.group), n)
  OBVIOUS
<1>5. PICK t : w = IF ~Has(Read(etc.passwd), n)
                   THEN <<Disk(tree, Etc(u, etc.passwd, etc.group, etc.shared)),
                          Disk(tree, Etc(u, etc.passwd, etc.group, TRUE))>>
                   ELSE IF ~Has(Read(etc.group), n)
                   THEN <<Disk(tree, Etc(u, etc.passwd, etc.group, etc.shared)),
                          Disk(tree, Etc(u, etc.passwd, etc.group, TRUE)),
                          Disk(tree, Etc(u, p, etc.group, FALSE))>>
                   ELSE <<Disk(tree, Etc(u, etc.passwd, etc.group, etc.shared)),
                          Disk(tree, Etc(u, etc.passwd, etc.group, TRUE)),
                          Disk(tree, Etc(u, p, etc.group, FALSE)),
                          Disk(tree, Etc(u, p, g, FALSE)), Disk(t, Etc(u, p, g, FALSE))>>
  BY <1>1, <1>4, DeleteUserWritesAre, Zenon
<1>6. PICK d1, d2, d3, d4, d5 :
          /\ d1 = Disk(tree, Etc(u, etc.passwd, etc.group, etc.shared))
          /\ d2 = Disk(tree, Etc(u, etc.passwd, etc.group, TRUE))
          /\ d3 = Disk(tree, Etc(u, p, etc.group, FALSE))
          /\ d4 = Disk(tree, Etc(u, p, g, FALSE)) /\ d5 = Disk(t, Etc(u, p, g, FALSE))
  OBVIOUS
<1>7. w = IF ~Has(Read(etc.passwd), n) THEN <<d1, d2>>
          ELSE IF ~Has(Read(etc.group), n) THEN <<d1, d2, d3>> ELSE <<d1, d2, d3, d4, d5>>
  BY <1>5, <1>6, Zenon
<1>8. CASE ~Has(Read(etc.passwd), n)
  <2>1. w = <<d1, d2>>
    BY <1>7, <1>8
  <2>2. Last(w) = d2
    BY <2>1 DEF Last
  <2>3. etc' = Etc(u, etc.passwd, etc.group, TRUE)
    <3>1. PICK e : e = Etc(u, etc.passwd, etc.group, TRUE)
      OBVIOUS
    <3>2. Last(w) = Disk(tree, e)
      BY <3>1, <2>2, <1>6, Zenon
    <3>3. Last(w).etc = e
      BY <3>2, DiskIs
    <3> QED
      BY <3>1, <3>3, <1>2
  <2> QED
    BY <2>3, <1>2, <1>3, <1>4, <1>8, Zenon
<1>9. CASE Has(Read(etc.passwd), n) /\ ~Has(Read(etc.group), n)
  <2>1. w = <<d1, d2, d3>>
    BY <1>7, <1>9
  <2>2. Last(w) = d3
    BY <2>1 DEF Last
  <2>3. etc' = Etc(u, p, etc.group, FALSE)
    <3>1. PICK e : e = Etc(u, p, etc.group, FALSE)
      OBVIOUS
    <3>2. Last(w) = Disk(tree, e)
      BY <3>1, <2>2, <1>6, Zenon
    <3>3. Last(w).etc = e
      BY <3>2, DiskIs
    <3> QED
      BY <3>1, <3>3, <1>2
  <2> QED
    BY <2>3, <1>2, <1>3, <1>4, <1>9, Zenon
<1>10. CASE Has(Read(etc.passwd), n) /\ Has(Read(etc.group), n)
  <2>1. w = <<d1, d2, d3, d4, d5>>
    BY <1>7, <1>10
  <2>2. Len(w) = 5
    BY <2>1
  <2> QED
    BY <2>2, <1>2
<1> QED
  BY <1>8, <1>9, <1>10

\* A kill in DeleteUser is recorded, and leaves any of its writes.
LEMMA KilledInDeleteLeaves ==
    ASSUME Shaped, etc.shared \in BOOLEAN, NEW n, KilledInDeleteUser(n)
    PROVE  /\ \E u, p, g : \E s \in BOOLEAN : etc' = Etc(u, p, g, s)
           /\ faults' = faults \cup DeleteFaults(n) \cup {"killedInDelete"}
<1>1. PICK w : w = DeleteUserWrites(n)
  OBVIOUS
<1>2. PICK k \in 1 .. Len(w) - 1 : etc' = w[k].etc
  BY <1>1 DEF KilledInDeleteUser
<1>3. faults' = faults \cup DeleteFaults(n) \cup {"killedInDelete"}
  BY DEF KilledInDeleteUser
<1>4. PICK u, p, g : u = Cut(Read(etc.user), n) /\ p = Cut(Read(etc.passwd), n) /\ g = Cut(Read(etc.group), n)
  OBVIOUS
<1>5. PICK t : w = IF ~Has(Read(etc.passwd), n)
                   THEN <<Disk(tree, Etc(u, etc.passwd, etc.group, etc.shared)),
                          Disk(tree, Etc(u, etc.passwd, etc.group, TRUE))>>
                   ELSE IF ~Has(Read(etc.group), n)
                   THEN <<Disk(tree, Etc(u, etc.passwd, etc.group, etc.shared)),
                          Disk(tree, Etc(u, etc.passwd, etc.group, TRUE)),
                          Disk(tree, Etc(u, p, etc.group, FALSE))>>
                   ELSE <<Disk(tree, Etc(u, etc.passwd, etc.group, etc.shared)),
                          Disk(tree, Etc(u, etc.passwd, etc.group, TRUE)),
                          Disk(tree, Etc(u, p, etc.group, FALSE)),
                          Disk(tree, Etc(u, p, g, FALSE)), Disk(t, Etc(u, p, g, FALSE))>>
  BY <1>1, <1>4, DeleteUserWritesAre, Zenon
<1>6. PICK d1, d2, d3, d4, d5 :
          /\ d1 = Disk(tree, Etc(u, etc.passwd, etc.group, etc.shared))
          /\ d2 = Disk(tree, Etc(u, etc.passwd, etc.group, TRUE))
          /\ d3 = Disk(tree, Etc(u, p, etc.group, FALSE))
          /\ d4 = Disk(tree, Etc(u, p, g, FALSE)) /\ d5 = Disk(t, Etc(u, p, g, FALSE))
  OBVIOUS
<1>7. w = <<d1, d2>> \/ w = <<d1, d2, d3>> \/ w = <<d1, d2, d3, d4, d5>>
  BY <1>5, <1>6, Zenon
<1>8. w[k] = d1 \/ w[k] = d2 \/ w[k] = d3 \/ w[k] = d4
  <2>1. CASE w = <<d1, d2>>
    <3>1. Len(w) = 2 /\ w[1] = d1
      BY <2>1
    <3> QED
      BY <3>1, <1>2
  <2>2. CASE w = <<d1, d2, d3>>
    <3>1. Len(w) = 3 /\ w[1] = d1 /\ w[2] = d2
      BY <2>2
    <3>2. k = 1 \/ k = 2
      BY <3>1, <1>2
    <3> QED
      BY <3>1, <3>2
  <2>3. CASE w = <<d1, d2, d3, d4, d5>>
    <3>1. Len(w) = 5 /\ w[1] = d1 /\ w[2] = d2 /\ w[3] = d3 /\ w[4] = d4
      BY <2>3
    <3>2. k = 1 \/ k = 2 \/ k = 3 \/ k = 4
      BY <3>1, <1>2
    <3> QED
      BY <3>1, <3>2
  <2> QED
    BY <2>1, <2>2, <2>3, <1>7
<1>9. \/ etc' = Etc(u, etc.passwd, etc.group, etc.shared) \/ etc' = Etc(u, etc.passwd, etc.group, TRUE)
      \/ etc' = Etc(u, p, etc.group, FALSE) \/ etc' = Etc(u, p, g, FALSE)
  <2>1. PICK e1, e2, e3, e4 :
            /\ e1 = Etc(u, etc.passwd, etc.group, etc.shared) /\ e2 = Etc(u, etc.passwd, etc.group, TRUE)
            /\ e3 = Etc(u, p, etc.group, FALSE) /\ e4 = Etc(u, p, g, FALSE)
    OBVIOUS
  <2>2. d1 = Disk(tree, e1) /\ d2 = Disk(tree, e2) /\ d3 = Disk(tree, e3) /\ d4 = Disk(tree, e4)
    BY <2>1, <1>6, Zenon
  <2>3. d1.etc = e1 /\ d2.etc = e2 /\ d3.etc = e3 /\ d4.etc = e4
    BY <2>2, DiskIs
  <2>4. etc' = e1 \/ etc' = e2 \/ etc' = e3 \/ etc' = e4
    BY <2>3, <1>2, <1>8
  <2> QED
    BY <2>1, <2>4, Zenon
<1>10. TRUE \in BOOLEAN /\ FALSE \in BOOLEAN
  OBVIOUS
<1> QED
  BY <1>3, <1>9, <1>10, Zenon

-----------------------------------------------------------------------------
(* The steps *)

\* The invariant of a state given by its parts.
LEMMA Reached ==
    ASSUME NEW u, NEW p, NEW g, NEW s \in BOOLEAN, etc' = Etc(u, p, g, s), faults' \subseteq Faults,
           s => faults' \cap {"killedInDelete", "crashed"} # {},
           faults' \subseteq {"crashed"} => ~s /\ InStep(u, p, g)
    PROVE  IInv' /\ etc'.user = u /\ etc'.passwd = p
<1>1. etc'.user = u /\ etc'.passwd = p /\ etc'.group = g /\ etc'.shared = s
  <2>1. PICK e : e = Etc(u, p, g, s)
    OBVIOUS
  <2>2. e.user = u /\ e.passwd = p /\ e.group = g /\ e.shared = s
    BY <2>1 DEF Etc
  <2> QED
    BY <2>1, <2>2
<1> QED
  BY <1>1, Zenon DEF IInv, Shaped

\* What is read is the whole of the file, unless a file is too long.
LEMMA ReadWhole ==
    ASSUME ~TooLong
    PROVE  Read(etc.user) = etc.user /\ Read(etc.passwd) = etc.passwd /\ Read(etc.group) = etc.group
BY DEF TooLong

\* A DeleteUser without a fault finds its own record in each file.
LEMMA NoFault ==
    ASSUME NEW n, DeleteFaults(n) \subseteq {"crashed"}
    PROVE  /\ ~TooLong
           /\ Own(etc.user, n, {LINE}, {COLON})
           /\ Has(etc.passwd, n) => Own(etc.passwd, n, {LINE}, {COLON})
           /\ Has(etc.group, n) => Own(etc.group, n, {COLON, COMMA}, {COMMA, LINE})
<1>1. ~TooLong /\ ~Clash(n)
  BY DEF DeleteFaults
<1>2. Read(etc.user) = etc.user /\ Read(etc.passwd) = etc.passwd /\ Read(etc.group) = etc.group
  BY <1>1, ReadWhole
<1> QED
  BY <1>1, <1>2 DEF Clash

LEMMA AddUserKeeps ==
    ASSUME IInv, NEW n \in Users, NEW pw \in Passwords, AddUser(n, pw)
    PROVE  /\ IInv'
           /\ faults' = {} => etc' = etc \/ AgreeBut(n, etc.user, etc.passwd, etc'.user, etc'.passwd)
<1>1. /\ Shaped /\ etc.shared \in BOOLEAN /\ faults \subseteq Faults
      /\ faults \subseteq {"crashed"} => InStep(etc.user, etc.passwd, etc.group)
  BY DEF IInv
<1>2. ~etc.shared
  BY <1>1, AddUserLeaves
<1>3. CASE etc' = etc /\ faults' = faults
  BY <1>3 DEF IInv, Shaped
<1>4. CASE /\ ~Has(Read(etc.user), n)
           /\ etc' = Etc(Read(etc.user) \o UserRecord(n), Read(etc.passwd) \o PasswdRecord(n, pw),
                         WithMember(Read(etc.group), n), etc.shared)
           /\ faults' = faults \cup (IF TooLong THEN {"long"} ELSE {})
  <2>1. PICK u, p, g, s : /\ u = Read(etc.user) \o UserRecord(n) /\ p = Read(etc.passwd) \o PasswdRecord(n, pw)
                          /\ g = WithMember(Read(etc.group), n) /\ s = etc.shared
    OBVIOUS
  <2>2. etc' = Etc(u, p, g, s) /\ s \in BOOLEAN /\ ~s
    BY <2>1, <1>1, <1>2, <1>4, Zenon
  <2>3. faults' \subseteq Faults
    BY <1>1, <1>4 DEF Faults
  <2>4. faults' \subseteq {"crashed"} =>
            /\ InStep(u, p, g) /\ AgreeBut(n, etc.user, etc.passwd, u, p)
    <3> SUFFICES ASSUME faults' \subseteq {"crashed"}
                 PROVE  InStep(u, p, g) /\ AgreeBut(n, etc.user, etc.passwd, u, p)
      OBVIOUS
    <3>1. ~TooLong /\ faults \subseteq {"crashed"}
      BY <1>4
    <3>2. Read(etc.user) = etc.user /\ Read(etc.passwd) = etc.passwd /\ Read(etc.group) = etc.group
      BY <3>1, ReadWhole
    <3>3. PICK a, b, c : a = etc.user /\ b = etc.passwd /\ c = etc.group
      OBVIOUS
    <3>4. InStep(a, b, c) /\ ~Has(a, n)
      BY <3>1, <3>2, <3>3, <1>1, <1>4
    <3>5. /\ InStep(a \o UserRecord(n), b \o PasswdRecord(n, pw), WithMember(c, n))
          /\ AgreeBut(n, a, b, a \o UserRecord(n), b \o PasswdRecord(n, pw))
      BY <3>4, AddInStep
    <3> QED
      BY <3>2, <3>3, <3>5, <2>1, Zenon
  <2>5. IInv' /\ etc'.user = u /\ etc'.passwd = p
    BY <2>2, <2>3, <2>4, Reached, Zenon
  <2>6. {} \subseteq {"crashed"}
    OBVIOUS
  <2> QED
    BY <2>4, <2>5, <2>6, Zenon
<1> QED
  BY <1>1, <1>3, <1>4, AddUserLeaves, Zenon

LEMMA KilledInAddUserKeeps ==
    ASSUME IInv, NEW n \in Users, NEW pw \in Passwords, KilledInAddUser(n, pw)
    PROVE  IInv' /\ faults' # {}
<1>1. Shaped /\ etc.shared \in BOOLEAN /\ faults \subseteq Faults
  BY DEF IInv
<1>2. PICK u, p, g : etc' = Etc(u, p, g, etc.shared)
  BY <1>1, KilledInAddUserLeaves
<1>3. /\ ~etc.shared /\ faults \cup {"killedInAdd"} \subseteq faults'
      /\ faults' \subseteq faults \cup {"killedInAdd", "long"}
  BY <1>1, KilledInAddUserLeaves
<1>4. PICK s : s = etc.shared
  OBVIOUS
<1>5. etc' = Etc(u, p, g, s) /\ s \in BOOLEAN /\ ~s
  BY <1>1, <1>2, <1>3, <1>4, Zenon
<1>6. faults' \subseteq Faults /\ ~(faults' \subseteq {"crashed"}) /\ faults' # {}
  BY <1>1, <1>3 DEF Faults
<1> QED
  BY <1>5, <1>6, Reached, Zenon

LEMMA DeleteUserKeeps ==
    ASSUME IInv, NEW n \in Users \cup {ROOT}, DeleteUser(n)
    PROVE  /\ IInv'
           /\ faults' = {} => AgreeBut(n, etc.user, etc.passwd, etc'.user, etc'.passwd)
<1>1. /\ Shaped /\ faults \subseteq Faults
      /\ faults \subseteq {"crashed"} => InStep(etc.user, etc.passwd, etc.group)
  BY DEF IInv
<1>2. /\ Has(Read(etc.user), n)
      /\ etc' = Etc(Cut(Read(etc.user), n), Cut(Read(etc.passwd), n), Cut(Read(etc.group), n), FALSE)
      /\ Has(Read(etc.passwd), n) /\ Has(Read(etc.group), n)
      /\ faults' = faults \cup DeleteFaults(n)
  BY <1>1, DeleteUserLeaves
<1>3. PICK u, p, g, s : /\ u = Cut(Read(etc.user), n) /\ p = Cut(Read(etc.passwd), n)
                        /\ g = Cut(Read(etc.group), n) /\ s = FALSE
  OBVIOUS
<1>4. etc' = Etc(u, p, g, s) /\ s \in BOOLEAN /\ ~s
  BY <1>2, <1>3, Zenon
<1>5. faults' \subseteq Faults
  BY <1>1, <1>2 DEF Faults, DeleteFaults
<1>6. faults' \subseteq {"crashed"} => InStep(u, p, g) /\ AgreeBut(n, etc.user, etc.passwd, u, p)
  <2> SUFFICES ASSUME faults' \subseteq {"crashed"}
               PROVE  InStep(u, p, g) /\ AgreeBut(n, etc.user, etc.passwd, u, p)
    OBVIOUS
  <2>1. DeleteFaults(n) \subseteq {"crashed"} /\ faults \subseteq {"crashed"}
    BY <1>2
  <2>2. PICK a, b, c : a = etc.user /\ b = etc.passwd /\ c = etc.group
    OBVIOUS
  <2>3. /\ ~TooLong
        /\ Own(a, n, {LINE}, {COLON}) /\ (Has(b, n) => Own(b, n, {LINE}, {COLON}))
        /\ Has(c, n) => Own(c, n, {COLON, COMMA}, {COMMA, LINE})
    BY <2>1, <2>2, NoFault
  <2>4. Read(etc.user) = a /\ Read(etc.passwd) = b /\ Read(etc.group) = c
    BY <2>2, <2>3, ReadWhole
  <2>5. InStep(a, b, c) /\ Has(a, n) /\ Has(c, n)
    BY <2>1, <2>2, <2>4, <1>1, <1>2
  <2>6. u = Cut(a, n) /\ p = Cut(b, n) /\ g = Cut(c, n)
    BY <2>4, <1>3
  <2>7. n \in Who
    BY DEF Who
  <2>8. /\ Sound(u) /\ Sound(p) /\ Listed(u) = Listed(a) \ {n} /\ Listed(p) = Listed(b) \ {n}
        /\ AgreeBut(n, a, b, u, p)
    BY <2>3, <2>5, <2>6, <2>7, DeleteInStep
  <2>9. GroupShape(c) /\ Members(c) \subseteq Listed(a) /\ Listed(a) = Listed(b)
    BY <2>5 DEF InStep
  <2>10. n # ROOT
    BY <2>3, <2>5, <2>9, RootNoMember
  <2>11. GroupShape(g) /\ Members(g) \subseteq Members(c) \ {n}
    <3>1. n \in Users
      BY <2>10
    <3>2. Own(c, n, {COLON, COMMA}, {COMMA, LINE})
      BY <2>3, <2>5
    <3> QED
      BY <3>1, <3>2, <2>5, <2>6, <2>9, GroupCut
  <2>12. Listed(u) = Listed(p) /\ Members(g) \subseteq Listed(u)
    BY <2>8, <2>9, <2>11
  <2>13. InStep(u, p, g)
    BY <2>8, <2>11, <2>12 DEF InStep
  <2> QED
    BY <2>2, <2>8, <2>13
<1>7. IInv' /\ etc'.user = u /\ etc'.passwd = p
  BY <1>4, <1>5, <1>6, Reached, Zenon
<1>8. {} \subseteq {"crashed"}
  OBVIOUS
<1> QED
  BY <1>6, <1>7, <1>8, Zenon

LEMMA CrashKeeps ==
    ASSUME IInv, NEW n \in Users \cup {ROOT}, CrashInDeleteUser(n)
    PROVE  IInv' /\ faults' # {}
<1>1. /\ Shaped /\ faults \subseteq Faults
      /\ faults \subseteq {"crashed"} => InStep(etc.user, etc.passwd, etc.group)
  BY DEF IInv
<1>2. /\ Has(Read(etc.user), n)
      /\ \/ /\ ~Has(Read(etc.passwd), n)
            /\ etc' = Etc(Cut(Read(etc.user), n), etc.passwd, etc.group, TRUE)
         \/ /\ ~Has(Read(etc.group), n)
            /\ etc' = Etc(Cut(Read(etc.user), n), Cut(Read(etc.passwd), n), etc.group, FALSE)
      /\ faults' = faults \cup DeleteFaults(n) \cup {"crashed"}
  BY <1>1, CrashLeaves
<1>3. faults' \subseteq Faults /\ "crashed" \in faults'
  BY <1>1, <1>2 DEF Faults, DeleteFaults
<1>4. PICK a, b, c : a = etc.user /\ b = etc.passwd /\ c = etc.group
  OBVIOUS
<1>5. PICK u, p : u = Cut(a, n) /\ p = Cut(b, n)
  OBVIOUS
<1>6. faults' \subseteq {"crashed"} =>
          /\ Read(etc.user) = a /\ Read(etc.passwd) = b /\ Read(etc.group) = c
          /\ Has(b, n)
          /\ ~Has(c, n) => InStep(u, p, c)
  <2> SUFFICES ASSUME faults' \subseteq {"crashed"}
               PROVE  /\ Read(etc.user) = a /\ Read(etc.passwd) = b /\ Read(etc.group) = c
                      /\ Has(b, n)
                      /\ ~Has(c, n) => InStep(u, p, c)
    OBVIOUS
  <2>1. DeleteFaults(n) \subseteq {"crashed"} /\ faults \subseteq {"crashed"}
    BY <1>2
  <2>2. /\ ~TooLong
        /\ Own(a, n, {LINE}, {COLON}) /\ (Has(b, n) => Own(b, n, {LINE}, {COLON}))
    BY <2>1, <1>4, NoFault
  <2>3. Read(etc.user) = a /\ Read(etc.passwd) = b /\ Read(etc.group) = c
    BY <2>2, <1>4, ReadWhole
  <2>4. InStep(a, b, c) /\ Has(a, n)
    BY <2>1, <2>3, <1>1, <1>2, <1>4
  <2>5. n \in Who
    BY DEF Who
  <2>6. /\ Sound(u) /\ Sound(p) /\ Listed(u) = Listed(a) \ {n} /\ Listed(p) = Listed(b) \ {n}
        /\ Has(b, n)
    BY <2>2, <2>4, <2>5, <1>5, DeleteInStep
  <2>7. GroupShape(c) /\ Members(c) \subseteq Listed(a) /\ Listed(a) = Listed(b)
    BY <2>4 DEF InStep
  <2>8. c \in Seq(Tokens)
    BY <2>7 DEF GroupShape
  <2>9. ~Has(c, n) => n \notin Members(c)
    BY <2>8, NotMember
  <2>10. ~Has(c, n) => InStep(u, p, c)
    BY <2>6, <2>7, <2>9 DEF InStep
  <2> QED
    BY <2>3, <2>6, <2>10
<1>7. CASE ~Has(Read(etc.passwd), n)
           /\ etc' = Etc(Cut(Read(etc.user), n), etc.passwd, etc.group, TRUE)
  <2>1. PICK v, s : v = Cut(Read(etc.user), n) /\ s = TRUE
    OBVIOUS
  <2>2. etc' = Etc(v, b, c, s) /\ s \in BOOLEAN
    BY <2>1, <1>4, <1>7, Zenon
  <2>3. ~(faults' \subseteq {"crashed"})
    BY <1>6, <1>7
  <2>4. faults' \cap {"killedInDelete", "crashed"} # {} /\ faults' # {}
    BY <1>3
  <2> QED
    BY <2>2, <2>3, <2>4, <1>3, Reached, Zenon
<1>8. CASE ~Has(Read(etc.group), n)
           /\ etc' = Etc(Cut(Read(etc.user), n), Cut(Read(etc.passwd), n), etc.group, FALSE)
  <2>1. PICK v, q, s : v = Cut(Read(etc.user), n) /\ q = Cut(Read(etc.passwd), n) /\ s = FALSE
    OBVIOUS
  <2>2. etc' = Etc(v, q, c, s) /\ s \in BOOLEAN /\ ~s
    BY <2>1, <1>4, <1>8, Zenon
  <2>3. faults' \subseteq {"crashed"} => InStep(v, q, c)
    BY <2>1, <1>5, <1>6, <1>8
  <2>4. faults' # {}
    BY <1>3
  <2> QED
    BY <2>2, <2>3, <2>4, <1>3, Reached, Zenon
<1> QED
  BY <1>2, <1>7, <1>8

LEMMA KilledInDeleteUserKeeps ==
    ASSUME IInv, NEW n \in Users \cup {ROOT}, KilledInDeleteUser(n)
    PROVE  IInv' /\ faults' # {}
<1>1. Shaped /\ etc.shared \in BOOLEAN /\ faults \subseteq Faults
  BY DEF IInv
<1>2. PICK u, p, g, s : s \in BOOLEAN /\ etc' = Etc(u, p, g, s)
  BY <1>1, KilledInDeleteLeaves, Zenon
<1>3. faults' = faults \cup DeleteFaults(n) \cup {"killedInDelete"}
  BY <1>1, KilledInDeleteLeaves
<1>4. /\ faults' \subseteq Faults /\ ~(faults' \subseteq {"crashed"}) /\ faults' # {}
      /\ faults' \cap {"killedInDelete", "crashed"} # {}
  BY <1>1, <1>3 DEF Faults, DeleteFaults
<1> QED
  BY <1>2, <1>4, Reached, Zenon

LEMMA FormatKeeps == Format => IInv'
<1> SUFFICES ASSUME Format PROVE IInv'
  OBVIOUS
<1>1. PICK u, p, g : FormattedEtc = Etc(u, p, g, FALSE) /\ InStep(u, p, g)
  BY FormatInStep, Zenon
<1>2. etc' = FormattedEtc /\ faults' = {}
  BY DEF Format
<1>3. PICK s : s = FALSE
  OBVIOUS
<1>4. etc' = Etc(u, p, g, s) /\ s \in BOOLEAN /\ ~s
  BY <1>1, <1>2, <1>3, Zenon
<1>5. faults' \subseteq Faults
  BY <1>2
<1> QED
  BY <1>1, <1>4, <1>5, Reached, Zenon

LEMMA InitHolds == Init => IInv
<1> SUFFICES ASSUME Init PROVE IInv
  OBVIOUS
<1>1. PICK u, p, g : FormattedEtc = Etc(u, p, g, FALSE) /\ InStep(u, p, g)
  BY FormatInStep, Zenon
<1>2. etc = FormattedEtc /\ faults = {}
  BY DEF Init
<1>3. PICK s : s = FALSE
  OBVIOUS
<1>4. etc = Etc(u, p, g, s) /\ s \in BOOLEAN /\ ~s
  BY <1>1, <1>2, <1>3, Zenon
<1>5. etc.user = u /\ etc.passwd = p /\ etc.group = g /\ etc.shared = s
  BY <1>4 DEF Etc
<1>6. faults \subseteq Faults
  BY <1>2
<1> QED
  BY <1>1, <1>4, <1>5, <1>6, Zenon DEF IInv, Shaped

\* A command that leaves the files alone.
LEMMA OthersKeep ==
    ASSUME IInv, etc' = etc, faults' = faults
    PROVE  IInv' /\ OneAccountChanged
BY DEF IInv, Shaped, OneAccountChanged

\* What is said of two states of the files holds of a step between them.
LEMMA OneChanged ==
    ASSUME NEW n \in Users \cup {ROOT}, AgreeBut(n, etc.user, etc.passwd, etc'.user, etc'.passwd)
    PROVE  OneAccountChanged
BY DEF AgreeBut, SamePasswords, OneAccountChanged, Who

\* A command of root's on the accounts.
LEMMA AccountStepKeeps ==
    ASSUME IInv,
           \/ \E n \in Users, pw \in Passwords : AddUser(n, pw) \/ KilledInAddUser(n, pw)
           \/ \E n \in Users \cup {ROOT} :
                 DeleteUser(n) \/ CrashInDeleteUser(n) \/ KilledInDeleteUser(n)
    PROVE  IInv' /\ OneAccountChanged
<1>1. ASSUME faults' # {} PROVE OneAccountChanged
  BY <1>1 DEF OneAccountChanged
<1>2. ASSUME NEW n \in Users, NEW pw \in Passwords, AddUser(n, pw) PROVE IInv' /\ OneAccountChanged
  <2>1. /\ IInv'
        /\ faults' = {} => etc' = etc \/ AgreeBut(n, etc.user, etc.passwd, etc'.user, etc'.passwd)
    BY <1>2, AddUserKeeps
  <2>2. etc' = etc => OneAccountChanged
    BY DEF OneAccountChanged
  <2>3. AgreeBut(n, etc.user, etc.passwd, etc'.user, etc'.passwd) => OneAccountChanged
    BY OneChanged
  <2> QED
    BY <2>1, <2>2, <2>3, <1>1
<1>3. ASSUME NEW n \in Users, NEW pw \in Passwords, KilledInAddUser(n, pw)
      PROVE  IInv' /\ OneAccountChanged
  BY <1>1, <1>3, KilledInAddUserKeeps
<1>4. ASSUME NEW n \in Users \cup {ROOT}, DeleteUser(n) PROVE IInv' /\ OneAccountChanged
  <2>1. /\ IInv'
        /\ faults' = {} => AgreeBut(n, etc.user, etc.passwd, etc'.user, etc'.passwd)
    BY <1>4, DeleteUserKeeps
  <2>2. AgreeBut(n, etc.user, etc.passwd, etc'.user, etc'.passwd) => OneAccountChanged
    BY OneChanged
  <2> QED
    BY <2>1, <2>2, <1>1
<1>5. ASSUME NEW n \in Users \cup {ROOT}, CrashInDeleteUser(n) PROVE IInv' /\ OneAccountChanged
  BY <1>1, <1>5, CrashKeeps
<1>6. ASSUME NEW n \in Users \cup {ROOT}, KilledInDeleteUser(n) PROVE IInv' /\ OneAccountChanged
  BY <1>1, <1>6, KilledInDeleteUserKeeps
<1> QED
  BY <1>2, <1>3, <1>4, <1>5, <1>6

LEMMA StepKeeps == IInv /\ [Next]_vars => IInv' /\ OneAccountChanged
<1> SUFFICES ASSUME IInv, [Next]_vars PROVE IInv' /\ OneAccountChanged
  OBVIOUS
<1>1. CASE UNCHANGED vars
  BY <1>1, OthersKeep DEF vars
<1>2. CASE SessionCommand /\ UNCHANGED <<etc, faults, changes>>
  BY <1>2, OthersKeep
<1>3. ASSUME NEW n \in Users \cup {ROOT}, NEW pw \in Passwords \cup {ROOT}, Login(n, pw)
      PROVE  IInv' /\ OneAccountChanged
  BY <1>3, OthersKeep DEF Login
<1>4. CASE DiskCommand
  <2>1. CASE TreeCommand /\ UNCHANGED <<etc, faults>>
    BY <2>1, OthersKeep
  <2>2. CASE \/ \E n \in Users, pw \in Passwords : AddUser(n, pw) \/ KilledInAddUser(n, pw)
             \/ \E n \in Users \cup {ROOT} :
                   DeleteUser(n) \/ CrashInDeleteUser(n) \/ KilledInDeleteUser(n)
    BY <2>2, AccountStepKeeps
  <2> QED
    BY <2>1, <2>2, <1>4 DEF DiskCommand
<1>5. CASE Format /\ changes' = 0
  <2>1. OneAccountChanged
    BY <1>5 DEF OneAccountChanged
  <2> QED
    BY <2>1, <1>5, FormatKeeps
<1> QED
  BY <1>1, <1>2, <1>3, <1>4, <1>5 DEF Next

LEMMA Invariance == Spec => []IInv
<1>1. Init => IInv
  BY InitHolds
<1>2. IInv /\ [Next]_vars => IInv'
  BY StepKeeps
<1> QED
  BY <1>1, <1>2, PTL DEF Spec

LEMMA IInvSays == IInv => PasswdFileKept /\ FilesInStep
<1> SUFFICES ASSUME IInv PROVE PasswdFileKept /\ FilesInStep
  OBVIOUS
<1>1. PasswdFileKept
  BY DEF IInv, PasswdFileKept, Faults
<1>2. FilesInStep
  BY DEF IInv, FilesInStep, InStep, Sound
<1> QED
  BY <1>1, <1>2

-----------------------------------------------------------------------------
(* Ways through a tree *)

Tree == [Inodes -> Node]
KidSets == UNION {[N -> Inodes] : N \in SUBSET Names}

\* f follows the names of p from i, inode by inode.
Way(t, i, p, f) ==
    /\ p \in Seq(Names) /\ f \in [0 .. Len(p) -> Inodes] /\ f[0] = i
    /\ \A k \in 1 .. Len(p) : p[k] \in DOMAIN t[f[k - 1]].kids /\ t[f[k - 1]].kids[p[k]] = f[k]

Onto(f, k, x)  == [m \in 0 .. k |-> IF m = k THEN x ELSE f[m]]
Slice(f, a, b) == [k \in 0 .. b - a |-> f[a + k]]

\* The parts of a node have their types.
LEMMA NodeParts ==
    ASSUME NEW t \in Tree, NEW d \in Inodes
    PROVE  /\ t[d] \in Node /\ t[d].kids \in KidSets
           /\ t[d].kind \in {"free", "dir", "file"} /\ t[d].up \in Inodes
<1>1. t[d] \in Node
  BY DEF Tree
<1> QED
  BY <1>1 DEF Node, KidSets

\* What the entries of a directory are.
LEMMA KidsParts ==
    ASSUME NEW k \in KidSets
    PROVE  /\ DOMAIN k \subseteq Names /\ k = [n \in DOMAIN k |-> k[n]]
           /\ \A n \in DOMAIN k : k[n] \in Inodes
  BY DEF KidSets

\* Any table of entries with names is one of KidSets.
LEMMA KidsAre ==
    ASSUME NEW D \in SUBSET Names, NEW k \in [D -> Inodes]
    PROVE  k \in KidSets
  BY DEF KidSets

\* An entry's name is a name, its inode an inode.
LEMMA KidType ==
    ASSUME NEW t \in Tree, NEW d \in Inodes, NEW n \in DOMAIN t[d].kids
    PROVE  n \in Names /\ t[d].kids[n] \in Inodes
<1>1. t[d].kids \in KidSets
  BY NodeParts
<1> QED
  BY <1>1, KidsParts

\* What a way's names and inodes are.
LEMMA WayType ==
    ASSUME NEW t, NEW i, NEW p, NEW f, Way(t, i, p, f)
    PROVE  /\ p \in Seq(Names) /\ Len(p) \in Nat /\ f \in [0 .. Len(p) -> Inodes] /\ f[0] = i
           /\ i \in Inodes /\ f[Len(p)] \in Inodes
<1>1. p \in Seq(Names) /\ f \in [0 .. Len(p) -> Inodes] /\ f[0] = i
  BY DEF Way
<1>2. Len(p) \in Nat
  BY <1>1
<1>3. 0 \in 0 .. Len(p) /\ Len(p) \in 0 .. Len(p)
  BY <1>2
<1> QED
  BY <1>1, <1>2, <1>3

\* The empty way stays where it is.
LEMMA WayEmpty ==
    ASSUME NEW t \in Tree, NEW i \in Inodes
    PROVE  Way(t, i, <<>>, Onto(<<>>, 0, i)) /\ Onto(<<>>, 0, i)[Len(<<>>)] = i
  BY DEF Way, Onto

\* A way goes on to an entry of the directory that it leads to.
LEMMA WayStep ==
    ASSUME NEW t \in Tree, NEW i, NEW p, NEW f, Way(t, i, p, f),
           NEW n \in DOMAIN t[f[Len(p)]].kids
    PROVE  LET g == Onto(f, Len(p) + 1, t[f[Len(p)]].kids[n])
           IN  /\ Way(t, i, Append(p, n), g) /\ Len(Append(p, n)) = Len(p) + 1
               /\ g[Len(p) + 1] = t[f[Len(p)]].kids[n]
<1>1. /\ p \in Seq(Names) /\ Len(p) \in Nat /\ f \in [0 .. Len(p) -> Inodes] /\ f[0] = i
      /\ f[Len(p)] \in Inodes
  BY WayType
<1>2. n \in Names /\ t[f[Len(p)]].kids[n] \in Inodes
  BY <1>1, KidType
<1>3. \A k \in 1 .. Len(p) : p[k] \in DOMAIN t[f[k - 1]].kids /\ t[f[k - 1]].kids[p[k]] = f[k]
  BY DEF Way
<1>4. PICK x : x = t[f[Len(p)]].kids[n]
  OBVIOUS
<1>5. PICK g : g = Onto(f, Len(p) + 1, x)
  OBVIOUS
<1>6. PICK L \in Nat : L = Len(p)
  BY <1>1
<1>7. /\ g \in [0 .. L + 1 -> Inodes] /\ g[L + 1] = x
      /\ \A k \in 0 .. L : g[k] = f[k]
  BY <1>1, <1>2, <1>4, <1>5, <1>6 DEF Onto
<1>8. PICK q : q = Append(p, n)
  OBVIOUS
<1>9. q \in Seq(Names) /\ Len(q) = L + 1 /\ q[L + 1] = n /\ \A k \in 1 .. L : q[k] = p[k]
  BY <1>1, <1>2, <1>6, <1>8, AppendProperties
<1>10. ASSUME NEW k \in 1 .. L + 1
       PROVE  q[k] \in DOMAIN t[g[k - 1]].kids /\ t[g[k - 1]].kids[q[k]] = g[k]
  <2>1. CASE k = L + 1
    <3>1. k - 1 = L /\ L \in 0 .. L
      BY <2>1
    <3>2. g[k - 1] = f[L] /\ q[k] = n /\ g[k] = x
      BY <3>1, <2>1, <1>7, <1>9
    <3> QED
      BY <3>2, <1>4, <1>6
  <2>2. CASE k # L + 1
    <3>1. k \in 1 .. L /\ k \in 0 .. L /\ k - 1 \in 0 .. L
      BY <2>2
    <3>2. g[k - 1] = f[k - 1] /\ q[k] = p[k] /\ g[k] = f[k]
      BY <3>1, <1>7, <1>9
    <3>3. p[k] \in DOMAIN t[f[k - 1]].kids /\ t[f[k - 1]].kids[p[k]] = f[k]
      BY <3>1, <1>6, <1>3
    <3> QED
      BY <3>2, <3>3
  <2> QED
    BY <2>1, <2>2
<1>11. g[0] = i
  BY <1>1, <1>7
<1>12. Way(t, i, q, g)
  BY <1>7, <1>9, <1>10, <1>11 DEF Way
<1> QED
  BY <1>4, <1>5, <1>6, <1>7, <1>8, <1>9, <1>12

\* A part of a way is a way.
LEMMA WayPart ==
    ASSUME NEW t, NEW i, NEW p, NEW f, Way(t, i, p, f),
           NEW a \in 0 .. Len(p), NEW b \in a .. Len(p)
    PROVE  /\ Way(t, f[a], SubSeq(p, a + 1, b), Slice(f, a, b))
           /\ Len(SubSeq(p, a + 1, b)) = b - a /\ Slice(f, a, b)[b - a] = f[b]
           /\ \A k \in 1 .. b - a : SubSeq(p, a + 1, b)[k] = p[a + k]
           /\ \A k \in 0 .. b - a : Slice(f, a, b)[k] = f[a + k]
<1>1. /\ p \in Seq(Names) /\ Len(p) \in Nat /\ f \in [0 .. Len(p) -> Inodes]
  BY WayType
<1>2. \A k \in 1 .. Len(p) : p[k] \in DOMAIN t[f[k - 1]].kids /\ t[f[k - 1]].kids[p[k]] = f[k]
  BY DEF Way
<1>3. PICK L \in Nat : L = Len(p)
  BY <1>1
<1>4. a \in Nat /\ b \in Nat /\ a <= b /\ b <= L
  BY <1>3
<1>5. PICK c \in Nat : c = b - a
  BY <1>4
<1>6. PICK q : q = SubSeq(p, a + 1, b)
  OBVIOUS
<1>7. q \in Seq(Names) /\ Len(q) = c /\ \A k \in 1 .. c : q[k] = p[a + k]
  <2>1. \A k \in a + 1 .. b : p[k] \in Names
    BY <1>1, <1>3, <1>4
  <2>2. /\ q \in Seq(Names) /\ Len(q) = IF a + 1 <= b THEN b - (a + 1) + 1 ELSE 0
        /\ \A k \in 1 .. b - (a + 1) + 1 : q[k] = p[(a + 1) + k - 1]
    BY <2>1, <1>4, <1>6, SubSeqProperties
  <2>3. b - (a + 1) + 1 = c /\ \A k \in 1 .. c : (a + 1) + k - 1 = a + k
    BY <1>4, <1>5
  <2>4. Len(q) = c
    BY <2>2, <2>3, <1>4, <1>5
  <2> QED
    BY <2>2, <2>3, <2>4
<1>8. PICK g : g = Slice(f, a, b)
  OBVIOUS
<1>9. \A k \in 0 .. c : a + k \in 0 .. L
  BY <1>4, <1>5
<1>10. g \in [0 .. c -> Inodes] /\ \A k \in 0 .. c : g[k] = f[a + k]
  BY <1>1, <1>3, <1>5, <1>8, <1>9 DEF Slice
<1>11. ASSUME NEW k \in 1 .. c
       PROVE  q[k] \in DOMAIN t[g[k - 1]].kids /\ t[g[k - 1]].kids[q[k]] = g[k]
  <2>1. /\ a + k \in 1 .. L /\ k \in 0 .. c /\ k - 1 \in 0 .. c
        /\ a + (k - 1) = (a + k) - 1
    BY <1>4, <1>5
  <2>2. g[k - 1] = f[(a + k) - 1] /\ q[k] = p[a + k] /\ g[k] = f[a + k]
    BY <2>1, <1>7, <1>10
  <2> QED
    BY <2>1, <2>2, <1>2, <1>3
<1>12. g[0] = f[a] /\ g[c] = f[b]
  BY <1>4, <1>5, <1>10
<1>13. Way(t, f[a], q, g)
  BY <1>7, <1>10, <1>11, <1>12 DEF Way
<1> QED
  BY <1>5, <1>6, <1>7, <1>8, <1>10, <1>12, <1>13

\* The head of a way is a way.
LEMMA WayHead ==
    ASSUME NEW t, NEW i, NEW p, NEW f, Way(t, i, p, f), NEW b \in 0 .. Len(p)
    PROVE  /\ Way(t, i, SubSeq(p, 1, b), Slice(f, 0, b))
           /\ Len(SubSeq(p, 1, b)) = b /\ Slice(f, 0, b)[b] = f[b]
           /\ \A k \in 1 .. b : SubSeq(p, 1, b)[k] = p[k]
           /\ \A k \in 0 .. b : Slice(f, 0, b)[k] = f[k]
<1>1. Len(p) \in Nat /\ f[0] = i
  BY WayType
<1>2. PICK z \in 0 .. Len(p) : z = 0
  BY <1>1
<1>3. b \in z .. Len(p)
  BY <1>2
<1>4. /\ Way(t, f[z], SubSeq(p, z + 1, b), Slice(f, z, b))
      /\ Len(SubSeq(p, z + 1, b)) = b - z /\ Slice(f, z, b)[b - z] = f[b]
      /\ \A k \in 1 .. b - z : SubSeq(p, z + 1, b)[k] = p[z + k]
      /\ \A k \in 0 .. b - z : Slice(f, z, b)[k] = f[z + k]
  <2>1. Way(t, i, p, f) /\ z \in 0 .. Len(p) /\ b \in z .. Len(p)
    BY <1>3
  <2>2. Way(t, f[z], SubSeq(p, z + 1, b), Slice(f, z, b))
    BY <2>1, WayPart
  <2>3. Len(SubSeq(p, z + 1, b)) = b - z /\ Slice(f, z, b)[b - z] = f[b]
    BY <2>1, WayPart
  <2>4. \A k \in 1 .. b - z : SubSeq(p, z + 1, b)[k] = p[z + k]
    BY <2>1, WayPart
  <2>5. \A k \in 0 .. b - z : Slice(f, z, b)[k] = f[z + k]
    BY <2>1, WayPart
  <2> QED
    BY <2>2, <2>3, <2>4, <2>5
<1>5. z + 1 = 1 /\ b - z = b /\ \A k \in 0 .. b : z + k = k
  BY <1>1, <1>2
<1> QED
  BY <1>1, <1>2, <1>4, <1>5

\* The paths of S, each with one name more.
Longer(t, S) == UNION {{<<Append(x[1], n), t[x[2]].kids[n]>> : n \in DOMAIN t[x[2]].kids} : x \in S}

Trips == SUBSET (Seq(Names) \X Inodes)

WaysUpto(t, i, k) == {x \in Seq(Names) \X Inodes :
                         Len(x[1]) <= k /\ \E f : Way(t, i, x[1], f) /\ f[Len(x[1])] = x[2]}

\* The ways of at most k names, with the inodes that they lead to.
LEMMA WaysUptoIs ==
    ASSUME NEW t, NEW i, NEW k, NEW x
    PROVE  x \in WaysUpto(t, i, k) <=>
              \E p, f : Way(t, i, p, f) /\ Len(p) <= k /\ x = <<p, f[Len(p)]>>
<1>1. ASSUME NEW p, NEW f, Way(t, i, p, f), Len(p) <= k PROVE <<p, f[Len(p)]>> \in WaysUpto(t, i, k)
  <2>1. p \in Seq(Names) /\ f[Len(p)] \in Inodes
    BY <1>1, WayType
  <2> QED
    BY <2>1, <1>1 DEF WaysUpto
<1>2. ASSUME x \in WaysUpto(t, i, k)
      PROVE  \E p, f : Way(t, i, p, f) /\ Len(p) <= k /\ x = <<p, f[Len(p)]>>
  BY <1>2 DEF WaysUpto
<1> QED
  BY <1>1, <1>2

\* With one step more: the empty path, and those that are one name longer.
LEMMA OneMore ==
    ASSUME NEW t \in Tree, NEW i \in Inodes, NEW k \in Nat
    PROVE  WaysUpto(t, i, k + 1) = {<< <<>>, i>>} \cup Longer(t, WaysUpto(t, i, k))
<1>1. ASSUME NEW x \in WaysUpto(t, i, k + 1), x # << <<>>, i>>
      PROVE  x \in Longer(t, WaysUpto(t, i, k))
  <2>1. PICK p, f : Way(t, i, p, f) /\ Len(p) <= k + 1 /\ x = <<p, f[Len(p)]>>
    BY WaysUptoIs
  <2>2. p \in Seq(Names) /\ Len(p) \in Nat /\ f[0] = i
    BY <2>1, WayType
  <2>3. PICK L \in Nat : L = Len(p)
    BY <2>2
  <2>4. L # 0
    <3>1. L = 0 => p = <<>>
      BY <2>2, <2>3, EmptySeq
    <3> QED
      BY <3>1, <1>1, <2>1, <2>2, <2>3
  <2>5. PICK m \in Nat : L = m + 1
    <3>1. L - 1 \in Nat /\ L = (L - 1) + 1
      BY <2>4
    <3> QED
      BY <3>1
  <2>6. m \in 0 .. Len(p) /\ m <= k /\ L \in 1 .. Len(p) /\ L - 1 = m
    BY <2>1, <2>3, <2>5
  <2>7. PICK q, g : q = SubSeq(p, 1, m) /\ g = Slice(f, 0, m)
    OBVIOUS
  <2>8. /\ Way(t, i, q, g) /\ Len(q) = m /\ g[m] = f[m]
        /\ \A j \in 1 .. m : q[j] = p[j]
    BY <2>1, <2>6, <2>7, WayHead
  <2>9. p[L] \in DOMAIN t[f[m]].kids /\ t[f[m]].kids[p[L]] = f[L]
    BY <2>1, <2>6 DEF Way
  <2>10. <<q, f[m]>> \in WaysUpto(t, i, k)
    BY <2>6, <2>8, WaysUptoIs
  <2>11. p = Append(q, p[L])
    <3>1. q \in Seq(Names) /\ p[L] \in Names
      BY <2>2, <2>6, <2>8, WayType
    <3>2. PICK r : r = Append(q, p[L])
      OBVIOUS
    <3>3. /\ r \in Seq(Names) /\ Len(r) = m + 1 /\ r[m + 1] = p[L]
          /\ \A j \in 1 .. m : r[j] = q[j]
      BY <3>1, <3>2, <2>8, AppendProperties
    <3>4. \A j \in 1 .. Len(p) : p[j] = r[j]
      BY <3>3, <2>3, <2>5, <2>8
    <3>5. Len(p) = Len(r)
      BY <3>3, <2>3, <2>5
    <3> QED
      BY <3>2, <3>3, <3>4, <3>5, <2>2, SeqEqual
  <2>12. x = <<Append(q, p[L]), t[f[m]].kids[p[L]]>>
    BY <2>1, <2>3, <2>9, <2>11
  <2>13. PICK y, n : y = <<q, f[m]>> /\ n = p[L]
    OBVIOUS
  <2>14. y[1] = q /\ y[2] = f[m]
    BY <2>13
  <2>15. y \in WaysUpto(t, i, k) /\ n \in DOMAIN t[y[2]].kids /\ x = <<Append(y[1], n), t[y[2]].kids[n]>>
    BY <2>9, <2>10, <2>12, <2>13, <2>14
  <2> QED
    BY <2>15 DEF Longer
<1>2. ASSUME NEW x \in Longer(t, WaysUpto(t, i, k)) PROVE x \in WaysUpto(t, i, k + 1)
  <2>1. PICK y \in WaysUpto(t, i, k) :
           \E n \in DOMAIN t[y[2]].kids : x = <<Append(y[1], n), t[y[2]].kids[n]>>
    BY DEF Longer
  <2>2. PICK p, f : Way(t, i, p, f) /\ Len(p) <= k /\ y = <<p, f[Len(p)]>>
    BY WaysUptoIs
  <2>3. PICK n \in DOMAIN t[f[Len(p)]].kids : x = <<Append(p, n), t[f[Len(p)]].kids[n]>>
    BY <2>1, <2>2
  <2>4. PICK q, g : q = Append(p, n) /\ g = Onto(f, Len(p) + 1, t[f[Len(p)]].kids[n])
    OBVIOUS
  <2>5. Way(t, i, q, g) /\ Len(q) = Len(p) + 1 /\ g[Len(p) + 1] = t[f[Len(p)]].kids[n]
    BY <2>2, <2>4, WayStep
  <2>6. Len(p) \in Nat
    BY <2>2, WayType
  <2>7. Len(q) <= k + 1
    BY <2>2, <2>5, <2>6
  <2>8. x = <<q, g[Len(q)]>>
    BY <2>3, <2>4, <2>5
  <2> QED
    BY <2>5, <2>7, <2>8, WaysUptoIs
<1>3. << <<>>, i>> \in WaysUpto(t, i, k + 1)
  <2>1. PICK f : f = Onto(<<>>, 0, i)
    OBVIOUS
  <2>2. Way(t, i, <<>>, f) /\ f[Len(<<>>)] = i /\ Len(<<>>) <= k + 1
    BY <2>1, WayEmpty
  <2> QED
    BY <2>2, WaysUptoIs
<1> QED
  BY <1>1, <1>2, <1>3

\* Reach is by what ways: those of less than NI names.
LEMMA ReachIs ==
    ASSUME NEW t \in Tree, NEW i \in Inodes
    PROVE  Reach(t, i) = WaysUpto(t, i, NI - 1)
<1> DEFINE Step(u, k) == {<< <<>>, i>>} \cup
                         (IF k = 0 THEN {}
                          ELSE UNION {{<<Append(x[1], n), t[x[2]].kids[n]>> : n \in DOMAIN t[x[2]].kids}
                                         : x \in u[k - 1]})
           a == {<< <<>>, i>>}
           G == [q \in Nat \X Trips |-> a \cup Longer(t, q[2])]
           U == CHOOSE u : u = [k \in Nat |-> Step(u, k)]
<1>1. a \in Trips
  <2>1. PICK e : e = <<>>
    OBVIOUS
  <2>3. e \in Seq(Names)
    BY <2>1
  <2>2. {<<e, i>>} \in Trips
    BY <2>3 DEF Trips
  <2> QED
    BY <2>1, <2>2
<1>2. G \in [Nat \X Trips -> Trips]
  <2> SUFFICES ASSUME NEW q \in Nat \X Trips PROVE a \cup Longer(t, q[2]) \in Trips
    OBVIOUS
  <2>1. q[2] \in Trips
    OBVIOUS
  <2>2. ASSUME NEW x \in q[2], NEW n \in DOMAIN t[x[2]].kids
        PROVE  <<Append(x[1], n), t[x[2]].kids[n]>> \in Seq(Names) \X Inodes
    <3>1. x[1] \in Seq(Names) /\ x[2] \in Inodes
      BY <2>1 DEF Trips
    <3>2. n \in Names /\ t[x[2]].kids[n] \in Inodes
      BY <3>1, KidType
    <3> QED
      BY <3>1, <3>2, AppendProperties
  <2> QED
    BY <1>1, <2>2 DEF Longer, Trips
<1>3. PICK f : Recursive(f, Trips, a, G)
  <2> HIDE DEF G, a
  <2> QED
    BY <1>1, <1>2, FunctionByRecursion, Zenon
<1>4. f = [k \in Nat |-> Step(f, k)]
  <2> SUFFICES ASSUME NEW k \in Nat
               PROVE  (IF k = 0 THEN a ELSE G[<<k - 1, f[k - 1]>>]) = Step(f, k)
    <3> HIDE DEF Step, G, a
    <3> QED
      BY <1>3 DEF Recursive
  <2>1. CASE k = 0
    BY <2>1
  <2>2. CASE k # 0
    <3>1. k - 1 \in Nat
      BY <2>2
    <3>4. f[k - 1] \in Trips
      BY <3>1, <1>3 DEF Recursive
    <3>2. G[<<k - 1, f[k - 1]>>] = a \cup Longer(t, f[k - 1])
      <4> HIDE DEF a
      <4> QED
        BY <3>1, <3>4
    <3>3. Step(f, k) = a \cup Longer(t, f[k - 1])
      BY <2>2 DEF Longer
    <3> HIDE DEF Step, G, a
    <3> QED
      BY <3>2, <3>3, <2>2
  <2> QED
    BY <2>1, <2>2
<1>5. U = [k \in Nat |-> Step(U, k)]
  <2>1. \E u : u = [k \in Nat |-> Step(u, k)]
    BY <1>4, Zenon
  <2> HIDE DEF Step
  <2> QED
    BY <2>1, Zenon
<1>6. Reach(t, i) = U[NI - 1]
  BY DEF Reach
<1> HIDE DEF U
<1>7. U[0] = a /\ \A k \in Nat : U[k + 1] = a \cup Longer(t, U[k])
  <2>1. U[0] = Step(U, 0) /\ \A k \in Nat : U[k + 1] = Step(U, k + 1)
    <3> HIDE DEF Step
    <3> QED
      BY <1>5
  <2>2. Step(U, 0) = a
    OBVIOUS
  <2>3. ASSUME NEW k \in Nat PROVE Step(U, k + 1) = a \cup Longer(t, U[k])
    <3>1. k + 1 # 0 /\ (k + 1) - 1 = k
      OBVIOUS
    <3> QED
      BY <3>1 DEF Longer
  <2> HIDE DEF Step, a
  <2> QED
    BY <2>1, <2>2, <2>3
<1> DEFINE Done == {k \in Nat : U[k] = WaysUpto(t, i, k)}
<1>8. 0 \in Done
  <2>1. ASSUME NEW x PROVE x \in WaysUpto(t, i, 0) <=> x = << <<>>, i>>
    <3>1. ASSUME x \in WaysUpto(t, i, 0) PROVE x = << <<>>, i>>
      <4>1. PICK p, g : Way(t, i, p, g) /\ Len(p) <= 0 /\ x = <<p, g[Len(p)]>>
        BY <3>1, WaysUptoIs
      <4>2. p \in Seq(Names) /\ Len(p) \in Nat /\ g[0] = i
        BY <4>1, WayType
      <4>3. Len(p) = 0
        BY <4>1, <4>2
      <4> QED
        BY <4>1, <4>2, <4>3, EmptySeq
    <3>2. << <<>>, i>> \in WaysUpto(t, i, 0)
      <4>1. PICK g : g = Onto(<<>>, 0, i)
        OBVIOUS
      <4>2. Way(t, i, <<>>, g) /\ g[Len(<<>>)] = i /\ Len(<<>>) <= 0
        BY <4>1, WayEmpty
      <4> QED
        BY <4>2, WaysUptoIs
    <3> QED
      BY <3>1, <3>2
  <2> QED
    BY <2>1, <1>7
<1>9. ASSUME NEW k \in Nat, k \in Done PROVE k + 1 \in Done
  <2>1. U[k + 1] = a \cup Longer(t, WaysUpto(t, i, k))
    BY <1>7, <1>9
  <2>2. WaysUpto(t, i, k + 1) = a \cup Longer(t, WaysUpto(t, i, k))
    BY OneMore
  <2> HIDE DEF a
  <2> QED
    BY <2>1, <2>2
<1>10. Nat \subseteq Done
  <2> HIDE DEF Done
  <2> QED
    BY <1>8, <1>9, SetInduction
<1>11. NI - 1 \in Nat
  BY InodeAssumption
<1> QED
  BY <1>6, <1>10, <1>11

\* What lies below an inode is what its ways lead to.
LEMMA BelowIs ==
    ASSUME NEW t \in Tree, NEW i \in Inodes, NEW j
    PROVE  j \in Below(t, i) <=> \E p, f : Way(t, i, p, f) /\ Len(p) <= NI - 1 /\ f[Len(p)] = j
<1>1. ASSUME NEW p, NEW f, Way(t, i, p, f), Len(p) <= NI - 1 PROVE f[Len(p)] \in Below(t, i)
  <2>1. <<p, f[Len(p)]>> \in Reach(t, i)
    BY <1>1, ReachIs, WaysUptoIs
  <2> QED
    BY <2>1 DEF Below
<1>2. ASSUME j \in Below(t, i)
      PROVE  \E p, f : Way(t, i, p, f) /\ Len(p) <= NI - 1 /\ f[Len(p)] = j
  <2>1. PICK x \in Reach(t, i) : j = x[2]
    BY <1>2 DEF Below
  <2>2. PICK p, f : Way(t, i, p, f) /\ Len(p) <= NI - 1 /\ x = <<p, f[Len(p)]>>
    BY <2>1, ReachIs, WaysUptoIs
  <2> QED
    BY <2>1, <2>2
<1> QED
  BY <1>1, <1>2

-----------------------------------------------------------------------------
(* Trees *)

\* The entries of a tree: each is an inode's only one, and is in a directory,
\* which the inode, if it is a directory, knows as its parent.
EntryOK(t, d, n) ==
    LET i == t[d].kids[n]
    IN  /\ i # Root /\ t[d].kind = "dir" /\ t[i].kind # "free"
        /\ t[i].kind = "dir" => t[i].up = d
        /\ \A e \in Inodes : \A m \in DOMAIN t[e].kids : t[e].kids[m] = i => e = d /\ m = n

\* The invariant of the tree: its root is a directory, and each entry is sound.
TreeOK(t) ==
    /\ t \in Tree /\ t[Root].kind = "dir"
    /\ \A d \in Inodes : \A n \in DOMAIN t[d].kids : EntryOK(t, d, n)

\* What is known of an entry of such a tree.
LEMMA KidOK ==
    ASSUME NEW t, TreeOK(t), NEW d \in Inodes, NEW n \in DOMAIN t[d].kids
    PROVE  /\ n \in Names /\ t[d].kids[n] \in Inodes /\ t[d].kids[n] # Root
           /\ t[d].kind = "dir" /\ t[t[d].kids[n]].kind # "free"
           /\ t[t[d].kids[n]].kind = "dir" => t[t[d].kids[n]].up = d
<1>1. t \in Tree /\ EntryOK(t, d, n)
  BY DEF TreeOK
<1> QED
  BY <1>1, KidType DEF EntryOK

\* No inode has two entries.
LEMMA OneEntry ==
    ASSUME NEW t, TreeOK(t), NEW d \in Inodes, NEW n \in DOMAIN t[d].kids,
           NEW e \in Inodes, NEW m \in DOMAIN t[e].kids, t[e].kids[m] = t[d].kids[n]
    PROVE  e = d /\ m = n
<1>1. EntryOK(t, d, n)
  BY DEF TreeOK
<1> QED
  BY <1>1 DEF EntryOK

LEMMA RootInode == Root \in Inodes /\ Root = 0 /\ Home \in Inodes /\ RootHome \in Inodes
                   /\ Inodes = 0 .. NI - 1 /\ NI - 1 \in Nat
  BY InodeAssumption DEF Root, Home, RootHome, Inodes

\* Each inode of a way but the first is an entry of the one before.
LEMMA WayEntry ==
    ASSUME NEW t, TreeOK(t), NEW i, NEW p, NEW f, Way(t, i, p, f), NEW k \in 1 .. Len(p)
    PROVE  /\ f[k - 1] \in Inodes /\ p[k] \in DOMAIN t[f[k - 1]].kids /\ t[f[k - 1]].kids[p[k]] = f[k]
           /\ f[k] \in Inodes /\ f[k] # Root /\ t[f[k - 1]].kind = "dir"
           /\ p[k] \in Names
<1>1. Len(p) \in Nat /\ f \in [0 .. Len(p) -> Inodes]
  BY WayType
<1>2. k - 1 \in 0 .. Len(p) /\ k \in 0 .. Len(p)
  BY <1>1
<1>3. /\ f[k - 1] \in Inodes /\ f[k] \in Inodes
      /\ p[k] \in DOMAIN t[f[k - 1]].kids /\ t[f[k - 1]].kids[p[k]] = f[k]
  BY <1>1, <1>2 DEF Way
<1>4. PICK d \in Inodes : d = f[k - 1]
  BY <1>3
<1>5. PICK n \in DOMAIN t[d].kids : n = p[k]
  BY <1>3, <1>4
<1>6. /\ n \in Names /\ t[d].kids[n] # Root /\ t[d].kind = "dir"
  BY KidOK
<1> QED
  BY <1>3, <1>4, <1>5, <1>6

\* Two ways to the same inode are, going back, the same way.
SameBack(p, f, q, g) ==
    /\ \A m \in 0 .. Len(p) : f[Len(p) - m] = g[Len(q) - m]
    /\ \A m \in 0 .. Len(p) - 1 : p[Len(p) - m] = q[Len(q) - m]

\* Two ways that end alike pass the same inodes, as far back as the shorter goes.
LEMMA Backwards ==
    ASSUME NEW t, TreeOK(t), NEW i, NEW p, NEW f, Way(t, i, p, f),
           NEW j, NEW q, NEW g, Way(t, j, q, g), f[Len(p)] = g[Len(q)], Len(p) <= Len(q)
    PROVE  SameBack(p, f, q, g)
<1>1. Len(p) \in Nat /\ Len(q) \in Nat
  BY WayType
<1>2. PICK L \in Nat, M \in Nat : L = Len(p) /\ M = Len(q) /\ L <= M
  BY <1>1
<1> DEFINE Same == {m \in Nat : m <= L => f[L - m] = g[M - m]}
<1>3. 0 \in Same
  <2>1. L - 0 = L /\ M - 0 = M
    BY <1>2
  <2>2. f[L - 0] = g[M - 0]
    BY <2>1, <1>2
  <2> QED
    BY <2>2
<1>4. ASSUME NEW m \in Nat, m + 1 <= L, f[L - m] = g[M - m]
      PROVE  f[L - (m + 1)] = g[M - (m + 1)] /\ p[L - m] = q[M - m]
  <2>1. L - m \in 1 .. Len(p) /\ M - m \in 1 .. Len(q)
    BY <1>2, <1>4
  <2>2. PICK a \in 1 .. Len(p), b \in 1 .. Len(q) : a = L - m /\ b = M - m
    BY <2>1
  <2>3. L - (m + 1) = a - 1 /\ M - (m + 1) = b - 1
    BY <2>2, <1>2
  <2>4. /\ f[a - 1] \in Inodes /\ p[a] \in DOMAIN t[f[a - 1]].kids /\ t[f[a - 1]].kids[p[a]] = f[a]
    BY WayEntry
  <2>5. /\ g[b - 1] \in Inodes /\ q[b] \in DOMAIN t[g[b - 1]].kids /\ t[g[b - 1]].kids[q[b]] = g[b]
    BY WayEntry
  <2>6. f[a] = g[b]
    BY <1>4, <2>2
  <2>7. f[a - 1] = g[b - 1] /\ p[a] = q[b]
    BY <2>4, <2>5, <2>6, OneEntry
  <2> QED
    BY <2>2, <2>3, <2>7
<1>5. ASSUME NEW m \in Nat, m \in Same PROVE m + 1 \in Same
  <2> SUFFICES ASSUME m + 1 <= L PROVE f[L - (m + 1)] = g[M - (m + 1)]
    OBVIOUS
  <2>1. f[L - m] = g[M - m]
    BY <1>2, <1>5
  <2> QED
    BY <2>1, <1>4
<1>6. Nat \subseteq Same
  <2> HIDE DEF Same
  <2> QED
    BY <1>3, <1>5, SetInduction
<1>7. \A m \in 0 .. L : f[L - m] = g[M - m]
  BY <1>6
<1>8. ASSUME NEW m \in 0 .. L - 1 PROVE p[L - m] = q[M - m]
  <2>1. m \in Nat /\ m + 1 <= L /\ m \in 0 .. L
    BY <1>2
  <2> QED
    BY <2>1, <1>7, <1>4
<1> QED
  BY <1>2, <1>7, <1>8 DEF SameBack

\* There is one way from the root to an inode.
LEMMA RootLonger ==
    ASSUME NEW t, TreeOK(t), NEW p, NEW f, Way(t, Root, p, f),
           NEW q, NEW g, Way(t, Root, q, g), f[Len(p)] = g[Len(q)], Len(p) <= Len(q)
    PROVE  p = q /\ f = g
<1>1. /\ p \in Seq(Names) /\ q \in Seq(Names) /\ Len(p) \in Nat /\ Len(q) \in Nat
      /\ f \in [0 .. Len(p) -> Inodes] /\ g \in [0 .. Len(q) -> Inodes] /\ f[0] = Root
  BY WayType
<1>2. /\ \A m \in 0 .. Len(p) : f[Len(p) - m] = g[Len(q) - m]
      /\ \A m \in 0 .. Len(p) - 1 : p[Len(p) - m] = q[Len(q) - m]
  BY Backwards DEF SameBack
<1>3. Len(p) = Len(q)
  <2> SUFFICES ASSUME Len(p) # Len(q) PROVE FALSE
    OBVIOUS
  <2>5. Len(q) - Len(p) \in 1 .. Len(q)
    BY <1>1
  <2>1. PICK c \in 1 .. Len(q) : c = Len(q) - Len(p)
    BY <2>5
  <2>2. Len(p) \in 0 .. Len(p) /\ Len(p) - Len(p) = 0
    BY <1>1
  <2>3. f[0] = g[c]
    BY <1>2, <2>1, <2>2
  <2>4. g[c] # Root
    BY WayEntry
  <2> QED
    BY <1>1, <2>3, <2>4
<1>4. PICK L \in Nat : L = Len(p) /\ L = Len(q)
  BY <1>1, <1>3
<1>5. ASSUME NEW k \in 0 .. L PROVE f[k] = g[k]
  <2>1. L - k \in 0 .. L /\ L - (L - k) = k
    BY <1>4
  <2> QED
    BY <2>1, <1>2, <1>4
<1>6. ASSUME NEW k \in 1 .. L PROVE p[k] = q[k]
  <2>1. L - k \in 0 .. L - 1 /\ L - (L - k) = k
    BY <1>4
  <2> QED
    BY <2>1, <1>2, <1>4
<1>7. p = q
  BY <1>1, <1>4, <1>6, SeqEqual
<1>8. f = g
  BY <1>1, <1>4, <1>5
<1> QED
  BY <1>7, <1>8

\* One way leads from the root to an inode.
LEMMA RootWays ==
    ASSUME NEW t, TreeOK(t), NEW p, NEW f, Way(t, Root, p, f),
           NEW q, NEW g, Way(t, Root, q, g), f[Len(p)] = g[Len(q)]
    PROVE  p = q /\ f = g
<1>1. Len(p) \in Nat /\ Len(q) \in Nat
  BY WayType
<1>2. CASE Len(p) <= Len(q)
  BY <1>2, RootLonger
<1>3. CASE Len(q) <= Len(p)
  BY <1>3, RootLonger
<1> QED
  BY <1>1, <1>2, <1>3

\* It meets no inode twice, and so has less than NI names.
LEMMA RootOnce ==
    ASSUME NEW t, TreeOK(t), NEW p, NEW f, Way(t, Root, p, f),
           NEW a \in 0 .. Len(p), NEW b \in 0 .. Len(p), f[a] = f[b]
    PROVE  a = b
<1>1. PICK q, g : q = SubSeq(p, 1, a) /\ g = Slice(f, 0, a)
  OBVIOUS
<1>2. PICK r, h : r = SubSeq(p, 1, b) /\ h = Slice(f, 0, b)
  OBVIOUS
<1>3. Way(t, Root, q, g) /\ Len(q) = a /\ g[a] = f[a]
  BY <1>1, WayHead
<1>4. Way(t, Root, r, h) /\ Len(r) = b /\ h[b] = f[b]
  BY <1>2, WayHead
<1>5. g[Len(q)] = h[Len(r)]
  BY <1>3, <1>4
<1>6. q = r
  BY <1>3, <1>4, <1>5, RootWays
<1> QED
  BY <1>3, <1>4, <1>6

\* A way from the root passes no inode twice: it is no longer than there are inodes.
LEMMA RootShort ==
    ASSUME NEW t, TreeOK(t), NEW p, NEW f, Way(t, Root, p, f)
    PROVE  Len(p) <= NI - 1
<1>1. Len(p) \in Nat /\ f \in [0 .. Len(p) -> Inodes]
  BY WayType
<1>2. IsFiniteSet(Inodes) /\ Cardinality(Inodes) = NI
  BY FS_Interval, InodeAssumption DEF Inodes
<1>3. IsFiniteSet(0 .. Len(p)) /\ Cardinality(0 .. Len(p)) = Len(p) + 1
  BY <1>1, FS_Interval
<1>4. ~(Cardinality(Inodes) < Cardinality(0 .. Len(p)))
  <2> SUFFICES ASSUME Cardinality(Inodes) < Cardinality(0 .. Len(p)) PROVE FALSE
    OBVIOUS
  <2>1. \E a, b \in 0 .. Len(p) : a # b /\ f[a] = f[b]
    BY <1>1, <1>2, <1>3, FS_PigeonHole
  <2> QED
    BY <2>1, RootOnce
<1> QED
  BY <1>1, <1>2, <1>3, <1>4, InodeAssumption

\* What is linked, and what lies below an inode, by ways of any length.
LEMMA LinkedIs ==
    ASSUME NEW t, TreeOK(t), NEW j
    PROVE  j \in Linked(t) <=> \E p, f : Way(t, Root, p, f) /\ f[Len(p)] = j
<1>1. t \in Tree /\ Root \in Inodes
  BY RootInode DEF TreeOK
<1>2. j \in Below(t, Root) <=> \E p, f : Way(t, Root, p, f) /\ Len(p) <= NI - 1 /\ f[Len(p)] = j
  BY <1>1, BelowIs
<1>3. \A p, f : Way(t, Root, p, f) => Len(p) <= NI - 1
  BY RootShort
<1> QED
  BY <1>2, <1>3 DEF Linked

\* An inode lies below itself, and what lies below it are inodes.
LEMMA BelowType ==
    ASSUME NEW t \in Tree, NEW i \in Inodes
    PROVE  i \in Below(t, i) /\ Below(t, i) \subseteq Inodes
<1>1. PICK f : f = Onto(<<>>, 0, i)
  OBVIOUS
<1>2. Way(t, i, <<>>, f) /\ f[Len(<<>>)] = i
  BY <1>1, WayEmpty
<1>3. Len(<<>>) <= NI - 1
  BY RootInode
<1>4. i \in Below(t, i)
  BY <1>2, <1>3, BelowIs
<1>5. \A j \in Below(t, i) : j \in Inodes
  BY BelowIs, WayType
<1> QED
  BY <1>4, <1>5

\* What a way from the root passes later lies below what it passed before.
LEMMA PassedBelow ==
    ASSUME NEW t, TreeOK(t), NEW p, NEW f, Way(t, Root, p, f),
           NEW a \in 0 .. Len(p), NEW b \in a .. Len(p)
    PROVE  f[b] \in Below(t, f[a])
<1>1. Len(p) \in Nat /\ f \in [0 .. Len(p) -> Inodes] /\ t \in Tree
  BY WayType DEF TreeOK
<1>2. f[a] \in Inodes
  BY <1>1
<1>3. PICK q, g : q = SubSeq(p, a + 1, b) /\ g = Slice(f, a, b)
  OBVIOUS
<1>4. Way(t, f[a], q, g) /\ Len(q) = b - a /\ g[b - a] = f[b]
  BY <1>3, WayPart
<1>5. Len(p) <= NI - 1
  BY RootShort
<1>6. Len(q) <= NI - 1
  BY <1>1, <1>4, <1>5, RootInode
<1>7. g[Len(q)] = f[b]
  BY <1>4
<1> QED
  BY <1>1, <1>2, <1>4, <1>6, <1>7, BelowIs

\* What the root leads to below s, it leads to by s.
LEMMA GonePassed ==
    ASSUME NEW t, TreeOK(t), NEW p, NEW f, Way(t, Root, p, f), NEW k \in 0 .. Len(p),
           NEW s \in Inodes, f[k] \in Below(t, s)
    PROVE  \E j \in 0 .. k : f[j] = s
<1>1. t \in Tree /\ Len(p) \in Nat
  BY WayType DEF TreeOK
<1>2. PICK q, g : Way(t, s, q, g) /\ g[Len(q)] = f[k]
  BY <1>1, BelowIs
<1>3. PICK r, h : r = SubSeq(p, 1, k) /\ h = Slice(f, 0, k)
  OBVIOUS
<1>4. /\ Way(t, Root, r, h) /\ Len(r) = k /\ h[k] = f[k]
      /\ \A j \in 0 .. k : h[j] = f[j]
  BY <1>3, WayHead
<1>5. Len(q) \in Nat /\ g[0] = s /\ h[0] = Root /\ k \in Nat
  BY <1>1, <1>2, <1>4, WayType
<1>6. g[Len(q)] = h[Len(r)]
  BY <1>2, <1>4
<1>7. CASE Len(q) <= k
  <2>1. Len(q) <= Len(r)
    BY <1>4, <1>7
  <2>2. \A m \in 0 .. Len(q) : g[Len(q) - m] = h[Len(r) - m]
    BY <1>2, <1>4, <1>6, <2>1, Backwards DEF SameBack
  <2>3. Len(q) \in 0 .. Len(q) /\ Len(q) - Len(q) = 0 /\ k - Len(q) \in 0 .. k
    BY <1>5, <1>7
  <2>4. g[0] = h[k - Len(q)]
    BY <2>2, <2>3, <1>4
  <2> QED
    BY <2>3, <2>4, <1>4, <1>5
<1>8. CASE k < Len(q)
  <2>1. Len(r) <= Len(q)
    BY <1>4, <1>5, <1>8
  <2>6. Way(t, Root, r, h) /\ Way(t, s, q, g) /\ h[Len(r)] = g[Len(q)]
    BY <1>2, <1>4, <1>6
  <2>2. \A m \in 0 .. Len(r) : h[Len(r) - m] = g[Len(q) - m]
    BY <2>1, <2>6, Backwards DEF SameBack
  <2>3. k \in 0 .. k /\ k - k = 0 /\ Len(q) - k \in 1 .. Len(q)
    BY <1>5, <1>8
  <2>4. h[0] = g[Len(q) - k]
    BY <2>2, <2>3, <1>4
  <2>5. g[Len(q) - k] # Root
    BY <1>2, <2>3, WayEntry
  <2> QED
    BY <2>4, <2>5, <1>5
<1> QED
  BY <1>5, <1>7, <1>8

\* What lies below s and is not s has its entry below s.
LEMMA GoneUp ==
    ASSUME NEW t, TreeOK(t), NEW s \in Inodes, NEW d \in Inodes, NEW n \in DOMAIN t[d].kids,
           t[d].kids[n] \in Below(t, s), t[d].kids[n] # s
    PROVE  d \in Below(t, s)
<1>1. t \in Tree
  BY DEF TreeOK
<1>2. PICK q, g : Way(t, s, q, g) /\ Len(q) <= NI - 1 /\ g[Len(q)] = t[d].kids[n]
  BY <1>1, BelowIs
<1>3. Len(q) \in Nat /\ g[0] = s
  BY <1>2, WayType
<1>4. Len(q) # 0
  BY <1>2, <1>3
<1>5. Len(q) \in 1 .. Len(q) /\ Len(q) - 1 \in 0 .. Len(q) /\ Len(q) - 1 <= NI - 1
  BY <1>2, <1>3, <1>4, RootInode
<1>6. /\ g[Len(q) - 1] \in Inodes /\ q[Len(q)] \in DOMAIN t[g[Len(q) - 1]].kids
      /\ t[g[Len(q) - 1]].kids[q[Len(q)]] = g[Len(q)]
  BY <1>2, <1>5, WayEntry
<1>7. d = g[Len(q) - 1]
  BY <1>2, <1>6, OneEntry
<1>8. PICK b \in 0 .. Len(q) : b = Len(q) - 1
  BY <1>5
<1>9. PICK r, h : r = SubSeq(q, 1, b) /\ h = Slice(g, 0, b)
  OBVIOUS
<1>10. Way(t, s, r, h) /\ Len(r) = b /\ h[b] = g[b]
  BY <1>2, <1>9, WayHead
<1>11. Len(r) <= NI - 1 /\ h[Len(r)] = d
  BY <1>5, <1>7, <1>8, <1>10
<1> QED
  BY <1>1, <1>10, <1>11, BelowIs

\* The root lies below no other inode.
LEMMA RootStays ==
    ASSUME NEW t, TreeOK(t), NEW s \in Inodes, s # Root
    PROVE  Root \notin Below(t, s)
<1> SUFFICES ASSUME Root \in Below(t, s) PROVE FALSE
  OBVIOUS
<1>1. t \in Tree
  BY DEF TreeOK
<1>2. PICK q, g : Way(t, s, q, g) /\ g[Len(q)] = Root
  BY <1>1, BelowIs
<1>3. Len(q) \in Nat /\ g[0] = s
  BY <1>2, WayType
<1>4. Len(q) \in 1 .. Len(q)
  BY <1>2, <1>3
<1>5. g[Len(q)] # Root
  BY <1>2, <1>4, WayEntry
<1> QED
  BY <1>2, <1>5

-----------------------------------------------------------------------------
(* Nodes *)

\* What a session is.
Session == [user : Users \cup {ROOT, NOBODY}, group : Groups, dir : Inodes, name : Seq(Names)]

\* x and y differ in their entries at most.
Kept(x, y) ==
    y.kind = x.kind /\ y.owner = x.owner /\ y.group = x.group /\ y.mode = x.mode /\ y.up = x.up

\* The nodes that the code writes: a freed one, a file, a directory, one with other
\* entries or with another mode.
LEMMA NoKidsIs == NoKids \in KidSets /\ DOMAIN NoKids = {}
<1>1. NoKids \in [{} -> Inodes] /\ DOMAIN NoKids = {}
  BY DEF NoKids
<1>2. PICK D \in SUBSET Names : D = {}
  OBVIOUS
<1>3. NoKids \in KidSets
  BY <1>1, <1>2, KidsAre
<1> QED
  BY <1>1, <1>3

\* A record with the parts of a node is one.
LEMMA NodeIs ==
    ASSUME NEW x, x \in [kind  : {"free", "dir", "file"}, owner : Users \cup {ROOT, NOBODY},
                         group : Groups, mode : Modes, up : Inodes, kids : KidSets]
    PROVE  x \in Node
  BY DEF Node, KidSets

LEMMA ZeroedNode ==
    Zeroed \in Node /\ Zeroed.kind = "free" /\ Zeroed.kids = NoKids /\ Zeroed.up = Root
<1>1. Zeroed.kind = "free" /\ Zeroed.kids = NoKids /\ Zeroed.up = Root
  BY DEF Zeroed
<1>2. Zeroed \in [kind  : {"free", "dir", "file"}, owner : Users \cup {ROOT, NOBODY},
                  group : Groups, mode : Modes, up : Inodes, kids : KidSets]
  BY NoKidsIs, RootInode DEF Zeroed, Groups, Modes
<1> QED
  BY <1>1, <1>2, NodeIs

LEMMA FileNode ==
    File \in Node /\ File.kind = "file" /\ File.kids = NoKids
<1>1. File.kind = "file" /\ File.kids = NoKids
  BY DEF File, Zeroed
<1>2. File \in [kind  : {"free", "dir", "file"}, owner : Users \cup {ROOT, NOBODY},
                group : Groups, mode : Modes, up : Inodes, kids : KidSets]
  BY NoKidsIs, RootInode DEF File, Zeroed, Groups, Modes
<1> QED
  BY <1>1, <1>2, NodeIs

LEMMA DirNode ==
    ASSUME NEW s \in Session, NEW d \in Inodes
    PROVE  Dir(s, d) \in Node /\ Dir(s, d).kind = "dir" /\ Dir(s, d).kids = NoKids /\ Dir(s, d).up = d
<1>1. Dir(s, d).kind = "dir" /\ Dir(s, d).kids = NoKids /\ Dir(s, d).up = d
  BY DEF Dir
<1>2. Dir(s, d) \in [kind  : {"free", "dir", "file"}, owner : Users \cup {ROOT, NOBODY},
                     group : Groups, mode : Modes, up : Inodes, kids : KidSets]
  BY NoKidsIs DEF Dir, Session, Groups, Modes
<1> QED
  BY <1>1, <1>2, NodeIs

LEMMA WithKids ==
    ASSUME NEW x \in Node, NEW k \in KidSets
    PROVE  /\ [x EXCEPT !.kids = k] \in Node /\ Kept(x, [x EXCEPT !.kids = k])
           /\ [x EXCEPT !.kids = k].kids = k
<1>1. x \in [kind  : {"free", "dir", "file"}, owner : Users \cup {ROOT, NOBODY},
             group : Groups, mode : Modes, up : Inodes, kids : KidSets]
  BY DEF Node, KidSets
<1>2. [x EXCEPT !.kids = k] \in
            [kind  : {"free", "dir", "file"}, owner : Users \cup {ROOT, NOBODY},
             group : Groups, mode : Modes, up : Inodes, kids : KidSets]
  BY <1>1
<1>3. Kept(x, [x EXCEPT !.kids = k]) /\ [x EXCEPT !.kids = k].kids = k
  BY <1>1 DEF Kept
<1> QED
  BY <1>2, <1>3, NodeIs

LEMMA WithMode ==
    ASSUME NEW x \in Node, NEW m \in Modes
    PROVE  /\ [x EXCEPT !.mode = m] \in Node /\ [x EXCEPT !.mode = m].kind = x.kind
           /\ [x EXCEPT !.mode = m].kids = x.kids /\ [x EXCEPT !.mode = m].up = x.up
<1>1. x \in [kind  : {"free", "dir", "file"}, owner : Users \cup {ROOT, NOBODY},
             group : Groups, mode : Modes, up : Inodes, kids : KidSets]
  BY DEF Node, KidSets
<1>2. [x EXCEPT !.mode = m] \in
            [kind  : {"free", "dir", "file"}, owner : Users \cup {ROOT, NOBODY},
             group : Groups, mode : Modes, up : Inodes, kids : KidSets]
  BY <1>1
<1>3. /\ [x EXCEPT !.mode = m].kind = x.kind
      /\ [x EXCEPT !.mode = m].kids = x.kids /\ [x EXCEPT !.mode = m].up = x.up
  BY <1>1
<1> QED
  BY <1>2, <1>3, NodeIs

\* A directory with one entry more, or with one of its entries changed.
LEMMA WithNameIs ==
    ASSUME NEW k \in KidSets, NEW n \in Names, NEW i \in Inodes
    PROVE  /\ WithName(k, n, i) \in KidSets /\ DOMAIN WithName(k, n, i) = DOMAIN k \cup {n}
           /\ WithName(k, n, i)[n] = i
           /\ \A m \in DOMAIN k : m # n => WithName(k, n, i)[m] = k[m]
<1>1. DOMAIN k \subseteq Names /\ \A m \in DOMAIN k : k[m] \in Inodes
  BY KidsParts
<1>2. PICK D \in SUBSET Names : D = DOMAIN k \cup {n}
  BY <1>1
<1>3. PICK w : w = WithName(k, n, i)
  OBVIOUS
<1>4. w = [m \in D |-> IF m = n THEN i ELSE k[m]]
  BY <1>2, <1>3 DEF WithName
<1>5. w \in [D -> Inodes]
  BY <1>1, <1>2, <1>4
<1>6. w \in KidSets
  BY <1>5, KidsAre
<1>7. DOMAIN w = D /\ w[n] = i /\ \A m \in DOMAIN k : m # n => w[m] = k[m]
  BY <1>2, <1>4
<1> QED
  BY <1>2, <1>3, <1>6, <1>7

-----------------------------------------------------------------------------
(* Linking and unlinking *)

\* u has all that t has.
Grows(t, u) ==
    \A d \in Inodes : t[d].kind # "free" =>
        /\ Kept(t[d], u[d]) /\ DOMAIN t[d].kids \subseteq DOMAIN u[d].kids
        /\ \A n \in DOMAIN t[d].kids : u[d].kids[n] = t[d].kids[n]

\* The first free inode is free.
LEMMA FirstFreeIs ==
    ASSUME NEW t \in Tree, Free(t) # {}
    PROVE  FirstFree(t) \in Inodes /\ t[FirstFree(t)].kind = "free"
<1>1. Free(t) \subseteq Inodes /\ Inodes \subseteq Nat
  BY RootInode DEF Free
<1>2. PICK F \in SUBSET Nat : F = Free(t)
  BY <1>1
<1>3. Least(F) \in F
  BY <1>2, LeastIn
<1>4. FirstFree(t) = Least(F)
  BY <1>2 DEF FirstFree, Least
<1> QED
  BY <1>1, <1>2, <1>3, <1>4 DEF Free

\* What a linking writes: the new inode, its entry, and nothing else.
LEMMA LinkingIs ==
    ASSUME NEW t, TreeOK(t), NEW d \in Inodes, t[d].kind = "dir", Free(t) # {},
           NEW n \in Names, NEW node \in Node,
           NEW i, i = FirstFree(t), NEW u, u = Linking(t, d, n, node)
    PROVE  /\ i \in Inodes /\ t[i].kind = "free" /\ i # d /\ u \in Tree /\ u[i] = node
           /\ Kept(t[d], u[d]) /\ DOMAIN u[d].kids = DOMAIN t[d].kids \cup {n}
           /\ u[d].kids[n] = i /\ \A m \in DOMAIN t[d].kids : m # n => u[d].kids[m] = t[d].kids[m]
           /\ \A e \in Inodes : e # i /\ e # d => u[e] = t[e]
<1>1. t \in Tree /\ t[d] \in Node /\ t[d].kids \in KidSets
  BY NodeParts DEF TreeOK
<1>2. i \in Inodes /\ t[i].kind = "free" /\ i # d
  BY <1>1, FirstFreeIs
<1>9. PICK old \in KidSets : old = t[d].kids
  BY <1>1
<1>3. PICK k : k = WithName(old, n, i)
  OBVIOUS
<1>4. /\ k \in KidSets /\ DOMAIN k = DOMAIN t[d].kids \cup {n} /\ k[n] = i
      /\ \A m \in DOMAIN t[d].kids : m # n => k[m] = t[d].kids[m]
  <2>1. i \in Inodes
    BY <1>2
  <2>2. /\ WithName(old, n, i) \in KidSets /\ DOMAIN WithName(old, n, i) = DOMAIN old \cup {n}
        /\ WithName(old, n, i)[n] = i
        /\ \A m \in DOMAIN old : m # n => WithName(old, n, i)[m] = old[m]
    BY <2>1, WithNameIs, Zenon
  <2> QED
    BY <2>2, <1>3, <1>9
<1>5. PICK x : x = [t[d] EXCEPT !.kids = k]
  OBVIOUS
<1>6. x \in Node /\ Kept(t[d], x) /\ x.kids = k
  BY <1>1, <1>4, <1>5, WithKids
<1>7. u = [t EXCEPT ![i] = node, ![d] = x]
  <2>1. u = [t EXCEPT ![i] = node, ![d].kids = WithName(@, n, i)]
    BY DEF Linking
  <2> QED
    BY <2>1, <1>1, <1>2, <1>3, <1>5, <1>9 DEF Tree
<1>8. /\ u \in Tree /\ u[i] = node /\ u[d] = x
      /\ \A e \in Inodes : e # i /\ e # d => u[e] = t[e]
  BY <1>1, <1>2, <1>6, <1>7 DEF Tree
<1> QED
  BY <1>2, <1>4, <1>6, <1>8

\* An entry's inode is not free.
LEMMA KidNotFree ==
    ASSUME NEW t, TreeOK(t), NEW i, t[i].kind = "free", NEW d \in Inodes, NEW n \in DOMAIN t[d].kids
    PROVE  t[d].kids[n] # i
  BY KidOK

\* A free inode has no entries.
LEMMA FreeEmpty ==
    ASSUME NEW t, TreeOK(t), NEW i \in Inodes, t[i].kind # "dir"
    PROVE  DOMAIN t[i].kids = {}
  BY KidOK

\* A linking keeps the tree, and what was there.
LEMMA LinkingKeeps ==
    ASSUME NEW t, TreeOK(t), NEW d \in Inodes, t[d].kind = "dir", Free(t) # {},
           NEW n \in Names, n \notin DOMAIN t[d].kids,
           NEW node \in Node, node.kids = NoKids, node.kind # "free", node.kind = "dir" => node.up = d
    PROVE  TreeOK(Linking(t, d, n, node)) /\ Grows(t, Linking(t, d, n, node))
<1>1. PICK i, u : i = FirstFree(t) /\ u = Linking(t, d, n, node)
  OBVIOUS
<1>2. /\ i \in Inodes /\ t[i].kind = "free" /\ i # d /\ u \in Tree /\ u[i] = node
      /\ Kept(t[d], u[d]) /\ DOMAIN u[d].kids = DOMAIN t[d].kids \cup {n}
      /\ u[d].kids[n] = i /\ \A m \in DOMAIN t[d].kids : m # n => u[d].kids[m] = t[d].kids[m]
      /\ \A e \in Inodes : e # i /\ e # d => u[e] = t[e]
  BY <1>1, LinkingIs
<1>3. ASSUME NEW e \in Inodes, NEW m \in DOMAIN u[e].kids, ~(e = d /\ m = n)
      PROVE  m \in DOMAIN t[e].kids /\ u[e].kids[m] = t[e].kids[m] /\ e # i
  <2>1. e # i
    BY <1>2, NoKidsIs
  <2>2. CASE e = d
    BY <2>1, <2>2, <1>2, <1>3
  <2>3. CASE e # d
    BY <2>1, <2>3, <1>2
  <2> QED
    BY <2>1, <2>2, <2>3
<1>4. ASSUME NEW e \in Inodes, e # i PROVE Kept(t[e], u[e])
  <2>1. CASE e = d
    BY <2>1, <1>2
  <2>2. CASE e # d
    BY <2>2, <1>2, <1>4 DEF Kept
  <2> QED
    BY <2>1, <2>2
<1>5. ASSUME NEW e \in Inodes, NEW m \in DOMAIN u[e].kids PROVE EntryOK(u, e, m)
  <2>1. CASE e = d /\ m = n
    <3>1. i # Root /\ u[d].kind = "dir" /\ u[i].kind # "free" /\ (u[i].kind = "dir" => u[i].up = d)
      BY <1>2 DEF Kept, TreeOK
    <3>2. ASSUME NEW f \in Inodes, NEW k \in DOMAIN u[f].kids, u[f].kids[k] = i
          PROVE  f = d /\ k = n
      <4> SUFFICES ASSUME ~(f = d /\ k = n) PROVE FALSE
        OBVIOUS
      <4>1. k \in DOMAIN t[f].kids /\ u[f].kids[k] = t[f].kids[k]
        BY <1>3
      <4>2. t[f].kids[k] # i
        BY <4>1, <1>2, KidNotFree
      <4> QED
        BY <4>1, <4>2, <3>2
    <3> QED
      BY <3>1, <3>2, <2>1, <1>2 DEF EntryOK
  <2>2. CASE ~(e = d /\ m = n)
    <3>1. m \in DOMAIN t[e].kids /\ u[e].kids[m] = t[e].kids[m] /\ e # i
      BY <2>2, <1>3
    <3>2. PICK c \in Inodes : c = t[e].kids[m]
      BY <3>1, KidOK
    <3>3. /\ c # Root /\ t[e].kind = "dir" /\ t[c].kind # "free"
          /\ t[c].kind = "dir" => t[c].up = e
      BY <3>1, <3>2, KidOK
    <3>4. c # i
      BY <3>3, <1>2
    <3>5. /\ c # Root /\ u[e].kind = "dir" /\ u[c].kind # "free"
          /\ u[c].kind = "dir" => u[c].up = e
      <4>1. Kept(t[e], u[e]) /\ Kept(t[c], u[c])
        BY <3>1, <3>4, <1>4
      <4> QED
        BY <4>1, <3>3 DEF Kept
    <3>6. ASSUME NEW f \in Inodes, NEW k \in DOMAIN u[f].kids, u[f].kids[k] = c
          PROVE  f = e /\ k = m
      <4>1. ~(f = d /\ k = n)
        BY <3>4, <3>6, <1>2
      <4>2. k \in DOMAIN t[f].kids /\ u[f].kids[k] = t[f].kids[k]
        BY <4>1, <1>3
      <4>3. t[f].kids[k] = t[e].kids[m]
        BY <4>2, <3>2, <3>6
      <4> QED
        BY <4>2, <4>3, <3>1, OneEntry
    <3> QED
      BY <3>1, <3>2, <3>5, <3>6 DEF EntryOK
  <2> QED
    BY <2>1, <2>2
<1>6. u[Root].kind = "dir"
  <2>1. Root \in Inodes /\ t[Root].kind = "dir" /\ Root # i
    BY <1>2, RootInode DEF TreeOK
  <2>2. Kept(t[Root], u[Root])
    BY <2>1, <1>4
  <2> QED
    BY <2>1, <2>2 DEF Kept
<1>7. TreeOK(u)
  BY <1>2, <1>5, <1>6 DEF TreeOK
<1>8. Grows(t, u)
  <2> SUFFICES ASSUME NEW e \in Inodes, t[e].kind # "free"
               PROVE  /\ Kept(t[e], u[e]) /\ DOMAIN t[e].kids \subseteq DOMAIN u[e].kids
                      /\ \A m \in DOMAIN t[e].kids : u[e].kids[m] = t[e].kids[m]
    BY DEF Grows
  <2>1. e # i
    BY <1>2
  <2>2. Kept(t[e], u[e])
    BY <2>1, <1>4
  <2>3. /\ DOMAIN t[e].kids \subseteq DOMAIN u[e].kids
        /\ \A m \in DOMAIN t[e].kids : u[e].kids[m] = t[e].kids[m]
    BY <2>1, <1>2
  <2> QED
    BY <2>2, <2>3
<1> QED
  BY <1>1, <1>7, <1>8

\* What Unlinked leaves: what is not gone, but for the one entry.
LEMMA UnlinkedIs ==
    ASSUME NEW t, TreeOK(t), NEW d \in Inodes, NEW n \in DOMAIN t[d].kids,
           NEW gone, gone = Below(t, t[d].kids[n]), NEW u, u = Unlinked(t, d, n)
    PROVE  /\ u \in Tree /\ t[d].kids[n] \in gone /\ Root \notin gone
           /\ \A e \in Inodes : e \in gone => u[e] = Zeroed
           /\ \A e \in Inodes : e \notin gone /\ e # d => u[e] = t[e]
           /\ d \notin gone => /\ Kept(t[d], u[d]) /\ DOMAIN u[d].kids = DOMAIN t[d].kids \ {n}
                               /\ \A m \in DOMAIN u[d].kids : u[d].kids[m] = t[d].kids[m]
<1>1. t \in Tree /\ t[d] \in Node /\ t[d].kids \in KidSets
  BY NodeParts DEF TreeOK
<1>2. t[d].kids[n] \in Inodes /\ t[d].kids[n] # Root
  BY KidOK
<1>3. PICK c \in Inodes : c = t[d].kids[n] /\ c # Root
  BY <1>2
<1>4. t[d].kids[n] \in gone /\ gone \subseteq Inodes /\ Root \notin gone
  BY <1>1, <1>3, BelowType, RootStays
<1>5. PICK k : k = [m \in DOMAIN t[d].kids \ {n} |-> t[d].kids[m]]
  OBVIOUS
<1>6. k \in KidSets /\ DOMAIN k = DOMAIN t[d].kids \ {n} /\ \A m \in DOMAIN k : k[m] = t[d].kids[m]
  <2>1. DOMAIN t[d].kids \subseteq Names /\ \A m \in DOMAIN t[d].kids : t[d].kids[m] \in Inodes
    BY <1>1, KidsParts
  <2>2. PICK D \in SUBSET Names : D = DOMAIN t[d].kids \ {n}
    BY <2>1
  <2>3. k \in [D -> Inodes]
    BY <2>1, <2>2, <1>5
  <2>4. k \in KidSets
    BY <2>3, KidsAre
  <2> QED
    BY <2>4, <1>5
<1>7. PICK x : x = [t[d] EXCEPT !.kids = k]
  OBVIOUS
<1>8. x \in Node /\ Kept(t[d], x) /\ x.kids = k
  BY <1>1, <1>6, <1>7, WithKids
<1>9. u = [i \in Inodes |-> IF i \in gone THEN Zeroed ELSE IF i = d THEN x ELSE t[i]]
  <2>1. x = [t[d] EXCEPT !.kids = [m \in DOMAIN @ \ {n} |-> @[m]]]
    BY <1>5, <1>7
  <2> QED
    BY <2>1 DEF Unlinked
<1>10. u \in Tree
  <2>1. Zeroed \in Node
    BY ZeroedNode
  <2>2. \A i \in Inodes : t[i] \in Node
    BY <1>1, NodeParts
  <2> QED
    BY <2>1, <2>2, <1>8, <1>9 DEF Tree
<1>11. /\ \A e \in Inodes : e \in gone => u[e] = Zeroed
       /\ \A e \in Inodes : e \notin gone /\ e # d => u[e] = t[e]
       /\ d \notin gone => u[d] = x
  BY <1>9
<1> QED
  BY <1>4, <1>6, <1>8, <1>10, <1>11

\* The entries that are left are old ones, and their inodes are not gone.
LEMMA UnlinkedEntry ==
    ASSUME NEW t, TreeOK(t), NEW d \in Inodes, NEW n \in DOMAIN t[d].kids,
           NEW gone, gone = Below(t, t[d].kids[n]), NEW u, u = Unlinked(t, d, n),
           NEW e \in Inodes, NEW m \in DOMAIN u[e].kids
    PROVE  /\ e \notin gone /\ m \in DOMAIN t[e].kids /\ u[e].kids[m] = t[e].kids[m]
           /\ ~(e = d /\ m = n) /\ t[e].kids[m] \notin gone
<1>1. /\ t[d].kids[n] \in gone
      /\ \A i \in Inodes : i \in gone => u[i] = Zeroed
      /\ \A i \in Inodes : i \notin gone /\ i # d => u[i] = t[i]
      /\ d \notin gone => /\ DOMAIN u[d].kids = DOMAIN t[d].kids \ {n}
                          /\ \A i \in DOMAIN u[d].kids : u[d].kids[i] = t[d].kids[i]
  BY UnlinkedIs
<1>2. e \notin gone
  BY <1>1, ZeroedNode, NoKidsIs
<1>3. m \in DOMAIN t[e].kids /\ u[e].kids[m] = t[e].kids[m] /\ ~(e = d /\ m = n)
  <2>1. CASE e = d
    BY <2>1, <1>1, <1>2
  <2>2. CASE e # d
    BY <2>2, <1>1, <1>2
  <2> QED
    BY <2>1, <2>2
<1>4. ASSUME t[e].kids[m] \in gone PROVE FALSE
  <2>1. PICK s \in Inodes : s = t[d].kids[n]
    BY KidOK
  <2>2. t[e].kids[m] # s
    BY <1>3, <2>1, OneEntry
  <2>3. t[e].kids[m] \in Below(t, s)
    BY <1>4, <2>1
  <2>4. e \in Below(t, s)
    BY <2>2, <2>3, <1>3, GoneUp
  <2> QED
    BY <2>1, <2>4, <1>2
<1> QED
  BY <1>2, <1>3, <1>4

\* What is not gone keeps all but its entries.
LEMMA UnlinkedKept ==
    ASSUME NEW t, TreeOK(t), NEW d \in Inodes, NEW n \in DOMAIN t[d].kids,
           NEW e \in Inodes, e \notin Below(t, t[d].kids[n])
    PROVE  Kept(t[e], Unlinked(t, d, n)[e])
<1>1. PICK gone, u : gone = Below(t, t[d].kids[n]) /\ u = Unlinked(t, d, n)
  OBVIOUS
<1>2. /\ \A i \in Inodes : i \notin gone /\ i # d => u[i] = t[i]
      /\ d \notin gone => Kept(t[d], u[d])
  BY <1>1, UnlinkedIs
<1>3. CASE e = d
  BY <1>1, <1>2, <1>3
<1>4. CASE e # d
  <2>1. u[e] = t[e]
    BY <1>1, <1>2, <1>4
  <2> QED
    BY <2>1, <1>1 DEF Kept
<1> QED
  BY <1>3, <1>4

\* An unlinking keeps the tree.
LEMMA UnlinkedKeeps ==
    ASSUME NEW t, TreeOK(t), NEW d \in Inodes, NEW n \in DOMAIN t[d].kids
    PROVE  TreeOK(Unlinked(t, d, n))
<1>1. PICK gone, u : gone = Below(t, t[d].kids[n]) /\ u = Unlinked(t, d, n)
  OBVIOUS
<1>2. u \in Tree /\ Root \notin gone
  BY <1>1, UnlinkedIs
<1>3. \A e \in Inodes : e \notin gone => Kept(t[e], u[e])
  BY <1>1, UnlinkedKept
<1>4. ASSUME NEW e \in Inodes, NEW m \in DOMAIN u[e].kids
      PROVE  /\ e \notin gone /\ m \in DOMAIN t[e].kids /\ u[e].kids[m] = t[e].kids[m]
             /\ t[e].kids[m] \notin gone
  BY <1>1, UnlinkedEntry
<1>5. ASSUME NEW e \in Inodes, NEW m \in DOMAIN u[e].kids PROVE EntryOK(u, e, m)
  <2>1. /\ e \notin gone /\ m \in DOMAIN t[e].kids /\ u[e].kids[m] = t[e].kids[m]
        /\ t[e].kids[m] \notin gone
    BY <1>4
  <2>2. PICK c \in Inodes : c = t[e].kids[m]
    BY <2>1, KidOK
  <2>3. /\ c # Root /\ t[e].kind = "dir" /\ t[c].kind # "free"
        /\ t[c].kind = "dir" => t[c].up = e
    BY <2>1, <2>2, KidOK
  <2>4. Kept(t[e], u[e]) /\ Kept(t[c], u[c])
    BY <2>1, <2>2, <1>3
  <2>5. ASSUME NEW f \in Inodes, NEW k \in DOMAIN u[f].kids, u[f].kids[k] = c
        PROVE  f = e /\ k = m
    <3>1. k \in DOMAIN t[f].kids /\ u[f].kids[k] = t[f].kids[k]
      BY <1>4
    <3>2. t[f].kids[k] = t[e].kids[m]
      BY <3>1, <2>2, <2>5
    <3> QED
      BY <3>1, <3>2, <2>1, OneEntry
  <2>6. c # Root /\ u[e].kind = "dir" /\ u[c].kind # "free" /\ (u[c].kind = "dir" => u[c].up = e)
    BY <2>3, <2>4 DEF Kept
  <2> QED
    BY <2>1, <2>2, <2>5, <2>6 DEF EntryOK
<1>6. u[Root].kind = "dir"
  <2>1. Root \in Inodes /\ t[Root].kind = "dir"
    BY RootInode DEF TreeOK
  <2>2. Kept(t[Root], u[Root])
    BY <2>1, <1>2, <1>3
  <2> QED
    BY <2>1, <2>2 DEF Kept
<1>7. TreeOK(u)
  BY <1>2, <1>5, <1>6 DEF TreeOK
<1> QED
  BY <1>1, <1>7

\* A change of mode keeps the tree, and its entries.
LEMMA ModeKeeps ==
    ASSUME NEW t, TreeOK(t), NEW i \in Inodes, NEW m \in Modes
    PROVE  /\ TreeOK([t EXCEPT ![i].mode = m])
           /\ \A e \in Inodes : /\ [t EXCEPT ![i].mode = m][e].kids = t[e].kids
                                /\ [t EXCEPT ![i].mode = m][e].kind = t[e].kind
                                /\ e # i => [t EXCEPT ![i].mode = m][e] = t[e]
<1>1. t \in Tree /\ t[i] \in Node
  BY NodeParts DEF TreeOK
<1>2. PICK u, x : u = [t EXCEPT ![i].mode = m] /\ x = [t[i] EXCEPT !.mode = m]
  OBVIOUS
<1>3. x \in Node /\ x.kind = t[i].kind /\ x.kids = t[i].kids /\ x.up = t[i].up
  BY <1>1, <1>2, WithMode
<1>4. u = [t EXCEPT ![i] = x]
  BY <1>1, <1>2 DEF Tree
<1>5. u \in Tree /\ u[i] = x /\ \A e \in Inodes : e # i => u[e] = t[e]
  BY <1>1, <1>3, <1>4 DEF Tree
<1>6. \A e \in Inodes : u[e].kids = t[e].kids /\ u[e].kind = t[e].kind /\ u[e].up = t[e].up
  BY <1>3, <1>5
<1>7. ASSUME NEW e \in Inodes, NEW n \in DOMAIN u[e].kids PROVE EntryOK(u, e, n)
  <2>1. n \in DOMAIN t[e].kids /\ t[e].kids[n] \in Inodes
    BY <1>6, KidOK
  <2>2. EntryOK(t, e, n)
    BY <2>1 DEF TreeOK
  <2> QED
    BY <2>1, <2>2, <1>6 DEF EntryOK
<1>8. u[Root].kind = "dir"
  BY <1>6, RootInode DEF TreeOK
<1>9. TreeOK(u)
  BY <1>5, <1>7, <1>8 DEF TreeOK
<1> QED
  BY <1>2, <1>5, <1>6, <1>9

\* A directory with one entry.
LEMMA OnlyName ==
    ASSUME NEW n \in Names, NEW i \in Inodes
    PROVE  /\ WithName(NoKids, n, i) \in KidSets /\ DOMAIN WithName(NoKids, n, i) = {n}
           /\ WithName(NoKids, n, i)[n] = i
<1>1. PICK k \in KidSets : k = NoKids /\ DOMAIN k = {}
  BY NoKidsIs
<1>2. /\ WithName(k, n, i) \in KidSets /\ DOMAIN WithName(k, n, i) = DOMAIN k \cup {n}
      /\ WithName(k, n, i)[n] = i
  BY WithNameIs, Zenon
<1> QED
  BY <1>1, <1>2

\* The tree that Format writes is one.
LEMMA FormattedOK == TreeOK(FormattedTree)
<1>1. PICK t : t = FormattedTree
  OBVIOUS
<1>2. AtStart \in Session /\ {Root, Home, RootHome} \subseteq Inodes
      /\ Root # Home /\ Root # RootHome /\ Home # RootHome
  BY RootInode DEF AtStart, At, Session, Groups, Root, Home, RootHome
<1>3. PICK s \in Session : s = AtStart
  BY <1>2
<1>4. HOME \in Names /\ ROOT \in Names
  BY DEF Names
<1>5. PICK k, l : k = WithName(NoKids, HOME, Home) /\ l = WithName(NoKids, ROOT, RootHome)
  OBVIOUS
<1>6. k \in KidSets /\ DOMAIN k = {HOME} /\ k[HOME] = Home
  BY <1>2, <1>4, <1>5, OnlyName
<1>7. l \in KidSets /\ DOMAIN l = {ROOT} /\ l[ROOT] = RootHome
  BY <1>2, <1>4, <1>5, OnlyName
<1>8. PICK a, b : a = Dir(s, Root) /\ b = Dir(s, Home)
  OBVIOUS
<1>9. /\ a \in Node /\ a.kind = "dir" /\ a.kids = NoKids /\ a.up = Root
      /\ b \in Node /\ b.kind = "dir" /\ b.kids = NoKids /\ b.up = Home
  BY <1>2, <1>8, DirNode
<1>10. PICK x, y, z : x = [a EXCEPT !.kids = k] /\ y = [a EXCEPT !.kids = l] /\ z = [b EXCEPT !.mode = "group"]
  OBVIOUS
<1>11. x \in Node /\ x.kind = "dir" /\ x.kids = k /\ x.up = Root
  BY <1>6, <1>9, <1>10, WithKids DEF Kept
<1>12. y \in Node /\ y.kind = "dir" /\ y.kids = l /\ y.up = Root
  BY <1>7, <1>9, <1>10, WithKids DEF Kept
<1>13. z \in Node /\ z.kind = "dir" /\ z.kids = NoKids /\ z.up = Home
  <2>1. "group" \in Modes
    BY DEF Modes
  <2> QED
    BY <2>1, <1>9, <1>10, WithMode
<1>14. t = [i \in Inodes |-> CASE i = Root -> x [] i = Home -> y [] i = RootHome -> z [] OTHER -> Zeroed]
  <2>1. /\ x = [Dir(AtStart, Root) EXCEPT !.kids = WithName(@, HOME, Home)]
        /\ y = [Dir(AtStart, Root) EXCEPT !.kids = WithName(@, ROOT, RootHome)]
        /\ z = [Dir(AtStart, Home) EXCEPT !.mode = "group"]
    BY <1>3, <1>5, <1>8, <1>9, <1>10
  <2> QED
    BY <2>1, <1>1 DEF FormattedTree
<1>15. /\ t[Root] = x /\ t[Home] = y /\ t[RootHome] = z
       /\ \A i \in Inodes : i \notin {Root, Home, RootHome} => t[i] = Zeroed
  BY <1>2, <1>14
<1>16. t \in Tree
  BY <1>11, <1>12, <1>13, <1>14, <1>2, ZeroedNode DEF Tree
<1>17. ASSUME NEW e \in Inodes, NEW m \in DOMAIN t[e].kids
       PROVE  \/ e = Root /\ m = HOME /\ t[e].kids[m] = Home
              \/ e = Home /\ m = ROOT /\ t[e].kids[m] = RootHome
  BY <1>6, <1>7, <1>11, <1>12, <1>13, <1>15, ZeroedNode, NoKidsIs
<1>18. ASSUME NEW e \in Inodes, NEW m \in DOMAIN t[e].kids PROVE EntryOK(t, e, m)
  <2>1. CASE e = Root /\ m = HOME /\ t[e].kids[m] = Home
    <3>1. ASSUME NEW f \in Inodes, NEW j \in DOMAIN t[f].kids, t[f].kids[j] = Home
          PROVE  f = Root /\ j = HOME
      BY <3>1, <1>17, <1>2
    <3> QED
      BY <2>1, <3>1, <1>2, <1>11, <1>12, <1>15 DEF EntryOK
  <2>2. CASE e = Home /\ m = ROOT /\ t[e].kids[m] = RootHome
    <3>1. ASSUME NEW f \in Inodes, NEW j \in DOMAIN t[f].kids, t[f].kids[j] = RootHome
          PROVE  f = Home /\ j = ROOT
      BY <3>1, <1>17, <1>2
    <3> QED
      BY <2>2, <3>1, <1>2, <1>12, <1>13, <1>15 DEF EntryOK
  <2> QED
    BY <2>1, <2>2, <1>17
<1> QED
  BY <1>1, <1>11, <1>15, <1>16, <1>18 DEF TreeOK

-----------------------------------------------------------------------------
(* Copying *)

\* Of the free inodes the first k are k.
LEMMA FirstFreesCount ==
    ASSUME NEW t, NEW k \in Nat, k <= Cardinality(Free(t))
    PROVE  /\ FirstFrees(t, k) \subseteq Free(t) /\ IsFiniteSet(FirstFrees(t, k))
           /\ Cardinality(FirstFrees(t, k)) = k
<1>1. PICK F : F = Free(t)
  OBVIOUS
<1>2. F \subseteq Nat /\ IsFiniteSet(F)
  <2>1. Inodes \subseteq Nat /\ IsFiniteSet(Inodes)
    BY RootInode, FS_Interval
  <2>2. F \subseteq Inodes
    BY <1>1 DEF Free
  <2> QED
    BY <2>1, <2>2, FS_Subset
<1> DEFINE Rank(i) == Cardinality({j \in F : j < i})
           First(m) == {i \in F : Rank(i) < m}
           Good == {m \in Nat : m <= Cardinality(F) => Cardinality(First(m)) = m}
<1>3. ASSUME NEW i PROVE IsFiniteSet({j \in F : j < i}) /\ Rank(i) \in Nat
  BY <1>2, FS_Subset, FS_CardinalityType
<1>4. \A m \in Nat : First(m) \subseteq F /\ IsFiniteSet(First(m))
  <2>1. \A m \in Nat : First(m) \subseteq F
    OBVIOUS
  <2> HIDE DEF First
  <2> QED
    BY <2>1, <1>2, FS_Subset
<1>5. 0 \in Good
  <2>1. First(0) = {}
    <3>1. \A i \in F : ~(Rank(i) < 0)
      BY <1>3
    <3> HIDE DEF Rank
    <3> QED
      BY <3>1
  <2> HIDE DEF First
  <2> QED
    BY <2>1, FS_EmptySet
<1>6. ASSUME NEW m \in Nat, m \in Good PROVE m + 1 \in Good
  <2> SUFFICES ASSUME m + 1 <= Cardinality(F) PROVE Cardinality(First(m + 1)) = m + 1
    OBVIOUS
  <2>1. Cardinality(F) \in Nat
    BY <1>2, FS_CardinalityType
  <2>2. Cardinality(First(m)) = m
    BY <2>1, <1>6
  <2>3. PICK R \in SUBSET Nat : R = F \ First(m)
    BY <1>2
  <2>4. R # {}
    <3> SUFFICES ASSUME R = {} PROVE FALSE
      OBVIOUS
    <3>1. First(m) = F
      <4>1. First(m) \subseteq F
        BY <1>4
      <4> HIDE DEF First
      <4> QED
        BY <4>1, <2>3
    <3>2. Cardinality(F) = m
      BY <3>1, <2>2
    <3> QED
      BY <3>2, <2>1
  <2>5. PICK x \in R : \A q \in R : x <= q
    <3>1. Least(R) \in R /\ \A q \in R : Least(R) <= q
      BY <2>4, LeastIn
    <3> QED
      BY <3>1
  <2>6. x \in F /\ x \notin First(m) /\ x \in Nat
    BY <2>3, <1>2
  <2>7. ~(Rank(x) < m)
    BY <2>6
  <2>8. \A j \in F : j < x => j \in First(m)
    <3> SUFFICES ASSUME NEW j \in F, j < x, j \notin First(m) PROVE FALSE
      OBVIOUS
    <3>1. j \in R /\ j \in Nat
      BY <2>3, <1>2
    <3> QED
      BY <3>1, <2>5, <2>6
  <2>9. \A j \in First(m) : j < x
    <3> SUFFICES ASSUME NEW j \in First(m), ~(j < x) PROVE FALSE
      OBVIOUS
    <3>1. j \in F /\ j \in Nat /\ Rank(j) < m
      BY <1>2
    <3>2. x < j
      <4>1. x # j
        BY <2>6
      <4> QED
        BY <4>1, <3>1, <2>6
    <3>3. {i \in F : i < x} \subseteq {i \in F : i < j}
      <4>1. j \in Nat /\ x \in Nat
        BY <3>1, <2>6
      <4>2. \A i \in F : i < x => i < j
        BY <4>1, <3>2, <1>2
      <4> QED
        BY <4>2
    <3>4. Rank(x) <= Rank(j)
      BY <3>3, <1>3, FS_Subset
    <3>5. Rank(x) \in Nat /\ Rank(j) \in Nat
      BY <1>3
    <3> HIDE DEF Rank
    <3> QED
      BY <3>1, <3>4, <3>5, <2>7
  <2>10. {j \in F : j < x} = First(m)
    <3>1. First(m) \subseteq F
      BY <1>4
    <3> HIDE DEF First
    <3> QED
      BY <3>1, <2>8, <2>9
  <2>11. Rank(x) = m
    BY <2>2, <2>10
  <2>12. First(m + 1) = First(m) \cup {x}
    <3>1. x \in First(m + 1)
      BY <2>6, <2>11
    <3>2. First(m) \subseteq First(m + 1)
      <4>1. \A i \in F : Rank(i) < m => Rank(i) < m + 1
        BY <1>3
      <4> HIDE DEF Rank
      <4> QED
        BY <4>1
    <3>3. ASSUME NEW y \in First(m + 1), y # x, y \notin First(m) PROVE FALSE
      <4>1. y \in F /\ y \in Nat /\ Rank(y) < m + 1
        BY <3>3, <1>2
      <4>2. x < y
        BY <3>3, <4>1, <2>6, <2>8
      <4>3. {j \in F : j < x} \cup {x} \subseteq {j \in F : j < y}
        <5>1. y \in Nat /\ x \in Nat /\ x \in F
          BY <4>1, <2>6
        <5>2. \A j \in F : j < x => j < y
          BY <5>1, <4>2, <1>2
        <5> QED
          BY <5>1, <5>2, <4>2
      <4>4. Cardinality({j \in F : j < x} \cup {x}) = m + 1 /\ IsFiniteSet({j \in F : j < x} \cup {x})
        <5>1. x \notin {j \in F : j < x}
          BY <2>6
        <5>2. IsFiniteSet({j \in F : j < x})
          BY <1>3
        <5>3. PICK S : S = {j \in F : j < x}
          OBVIOUS
        <5>4. Cardinality(S) = m /\ x \notin S /\ IsFiniteSet(S)
          BY <5>1, <5>2, <5>3, <2>11
        <5>5. Cardinality(S \cup {x}) = m + 1 /\ IsFiniteSet(S \cup {x})
          BY <5>4, FS_AddElement
        <5> QED
          BY <5>3, <5>5
      <4>5. m + 1 <= Rank(y)
        <5>1. IsFiniteSet({j \in F : j < y})
          BY <1>3
        <5>2. Cardinality({j \in F : j < x} \cup {x}) <= Cardinality({j \in F : j < y})
          BY <5>1, <4>3, FS_Subset
        <5> QED
          BY <5>2, <4>4
      <4>6. Rank(y) \in Nat
        BY <1>3
      <4> HIDE DEF Rank
      <4> QED
        BY <4>1, <4>5, <4>6
    <3> HIDE DEF First
    <3> QED
      BY <3>1, <3>2, <3>3
  <2>13. Cardinality(First(m) \cup {x}) = m + 1
    <3>1. IsFiniteSet(First(m))
      BY <1>4
    <3> HIDE DEF First
    <3> QED
      BY <3>1, <2>2, <2>6, FS_AddElement
  <2> HIDE DEF First
  <2> QED
    BY <2>12, <2>13
<1>7. Nat \subseteq Good
  <2> HIDE DEF Good
  <2> QED
    BY <1>5, <1>6, SetInduction
<1>8. Cardinality(First(k)) = k
  BY <1>1, <1>7
<1>9. FirstFrees(t, k) = First(k)
  BY <1>1 DEF FirstFrees
<1> HIDE DEF First
<1> QED
  BY <1>1, <1>4, <1>8, <1>9

\* What copying s into d may take: a part P of what lies below s, to the free inodes f.
CopyOf(t, who, s, d, n, P, f) ==
    /\ who \in Session /\ d \in Inodes /\ t[d].kind = "dir" /\ n \in Names /\ n \notin DOMAIN t[d].kids
    /\ s \in Linked(t) /\ P \subseteq Below(t, s) /\ \A i \in P : i = s \/ Parent(t, i) \in P
    /\ f \in [P -> Free(t)] /\ \A i, j \in P : f[i] = f[j] => i = j

\* An entry's directory is found by its inode alone, and so is its name.
LEMMA ParentIs ==
    ASSUME NEW t, TreeOK(t), NEW d \in Inodes, NEW n \in DOMAIN t[d].kids
    PROVE  Parent(t, t[d].kids[n]) = d /\ NameOf(t, t[d].kids[n]) = n
<1>1. PICK i : i = t[d].kids[n]
  OBVIOUS
<1>2. \A e \in Inodes : (\E m \in DOMAIN t[e].kids : t[e].kids[m] = i) <=> e = d
  BY <1>1, OneEntry
<1>3. Parent(t, i) = d
  BY <1>2 DEF Parent
<1>4. \A m \in DOMAIN t[d].kids : t[d].kids[m] = i <=> m = n
  BY <1>1, OneEntry
<1>5. NameOf(t, i) = n
  BY <1>3, <1>4 DEF NameOf
<1> QED
  BY <1>1, <1>3, <1>5

\* Where s comes from does not lie below s.
LEMMA NotItsOwn ==
    ASSUME NEW t, TreeOK(t), NEW s \in Linked(t), NEW i \in Below(t, s), NEW m \in DOMAIN t[i].kids
    PROVE  i \in Inodes /\ s \in Inodes /\ t[i].kids[m] # s
<1>1. t \in Tree
  BY DEF TreeOK
<1>2. PICK p, f : Way(t, Root, p, f) /\ f[Len(p)] = s
  BY LinkedIs
<1>3. Len(p) \in Nat /\ s \in Inodes /\ f[0] = Root
  BY <1>2, WayType
<1>4. i \in Inodes
  BY <1>1, <1>3, BelowType
<1>5. ASSUME t[i].kids[m] = s PROVE FALSE
  <2>1. s # Root
    BY <1>4, <1>5, KidOK
  <2>2. Len(p) \in 1 .. Len(p) /\ Len(p) - 1 \in 0 .. Len(p) /\ Len(p) \in 0 .. Len(p)
    BY <2>1, <1>2, <1>3
  <2>3. /\ f[Len(p) - 1] \in Inodes /\ p[Len(p)] \in DOMAIN t[f[Len(p) - 1]].kids
        /\ t[f[Len(p) - 1]].kids[p[Len(p)]] = s
    BY <1>2, <2>2, WayEntry
  <2>4. f[Len(p) - 1] = i
    BY <2>3, <1>4, <1>5, OneEntry
  <2>5. PICK k \in 0 .. Len(p) : k = Len(p) - 1
    BY <2>2
  <2>6. f[k] \in Below(t, s)
    BY <2>4, <2>5
  <2>7. PICK j \in 0 .. k : f[j] = s
    BY <1>2, <1>3, <2>6, GonePassed
  <2>8. j \in 0 .. Len(p) /\ j # Len(p)
    BY <1>3, <2>5
  <2>9. j = Len(p)
    BY <1>2, <2>2, <2>7, <2>8, RootOnce
  <2> QED
    BY <2>8, <2>9
<1> QED
  BY <1>3, <1>4, <1>5

\* Nothing free lies below an inode that is taken, or is linked.
LEMMA BelowNotFree ==
    ASSUME NEW t, TreeOK(t), NEW s \in Inodes, t[s].kind # "free", NEW i \in Below(t, s)
    PROVE  i \in Inodes /\ t[i].kind # "free"
<1>1. t \in Tree
  BY DEF TreeOK
<1>2. PICK q, g : Way(t, s, q, g) /\ g[Len(q)] = i
  BY <1>1, BelowIs
<1>3. Len(q) \in Nat /\ g[0] = s
  BY <1>2, WayType
<1>4. CASE Len(q) = 0
  BY <1>2, <1>3, <1>4
<1>5. CASE Len(q) # 0
  <2>1. Len(q) \in 1 .. Len(q)
    BY <1>3, <1>5
  <2>2. PICK d, n : d = g[Len(q) - 1] /\ n = q[Len(q)]
    OBVIOUS
  <2>3. d \in Inodes /\ n \in DOMAIN t[d].kids /\ t[d].kids[n] = i
    BY <1>2, <2>1, <2>2, WayEntry
  <2> QED
    BY <2>3, KidOK
<1> QED
  BY <1>3, <1>4, <1>5

LEMMA LinkedNotFree ==
    ASSUME NEW t, TreeOK(t), NEW i \in Linked(t)
    PROVE  i \in Inodes /\ t[i].kind # "free"
<1>1. Root \in Inodes /\ t[Root].kind # "free"
  BY RootInode DEF TreeOK
<1> QED
  BY <1>1, BelowNotFree DEF Linked

\* The node that i is copied to, and what the whole copy u is.
CopyNode(t, who, s, d, P, f, i) ==
    IF t[i].kind = "file" THEN File
    ELSE [Dir(who, IF i = s THEN d ELSE f[Parent(t, i)]) EXCEPT !.kids =
             [m \in {m \in DOMAIN t[i].kids : t[i].kids[m] \in P} |-> f[t[i].kids[m]]]]

CopiedNode(t, s, d, P, f, i, x) ==
    /\ x \in Node /\ x.kind = t[i].kind
    /\ x.kind = "dir" => x.up = (IF i = s THEN d ELSE f[Parent(t, i)])
    /\ DOMAIN x.kids = {m \in DOMAIN t[i].kids : t[i].kids[m] \in P}
    /\ \A m \in DOMAIN x.kids : x.kids[m] = f[t[i].kids[m]]

CopyFacts(t, s, d, n, P, f, u) ==
    /\ u \in Tree /\ \A i \in P : CopiedNode(t, s, d, P, f, i, u[f[i]])
    /\ \A e \in Inodes : e # d /\ (\A i \in P : e # f[i]) => u[e] = t[e]
    /\ Kept(t[d], u[d]) /\ DOMAIN t[d].kids \subseteq DOMAIN u[d].kids
    /\ \A m \in DOMAIN t[d].kids : u[d].kids[m] = t[d].kids[m]
    /\ DOMAIN u[d].kids = (IF s \in P THEN DOMAIN t[d].kids \cup {n} ELSE DOMAIN t[d].kids)
    /\ s \in P => u[d].kids[n] = f[s]

\* A copied node is the original with its entries renumbered.
LEMMA CopyNodeIs ==
    ASSUME NEW t, TreeOK(t), NEW who, NEW s, NEW d, NEW n, NEW P, NEW f, CopyOf(t, who, s, d, n, P, f),
           NEW i \in P
    PROVE  /\ i \in Inodes /\ f[i] \in Inodes /\ t[f[i]].kind = "free"
           /\ CopiedNode(t, s, d, P, f, i, CopyNode(t, who, s, d, P, f, i))
<1>1. t \in Tree /\ s \in Inodes /\ t[s].kind # "free"
  BY LinkedNotFree DEF TreeOK, CopyOf
<1>2. /\ \A j \in P : j \in Inodes /\ t[j].kind # "free"
      /\ \A j \in P : f[j] \in Inodes /\ t[f[j]].kind = "free"
  <2>1. \A j \in P : j \in Below(t, s) /\ f[j] \in Free(t)
    BY DEF CopyOf
  <2> QED
    BY <2>1, <1>1, BelowNotFree DEF Free
<1>3. t[i] \in Node /\ t[i].kids \in KidSets /\ t[i].kind \in {"free", "dir", "file"}
  BY <1>1, <1>2, NodeParts
<1>4. CASE t[i].kind = "file"
  <2>1. CopyNode(t, who, s, d, P, f, i) = File
    BY <1>4 DEF CopyNode
  <2>2. File \in Node /\ File.kind = "file" /\ File.kids = NoKids
    BY FileNode
  <2>3. DOMAIN t[i].kids = {}
    BY <1>2, <1>4, FreeEmpty
  <2>4. CopiedNode(t, s, d, P, f, i, File)
    BY <2>2, <2>3, <1>4, NoKidsIs DEF CopiedNode
  <2> QED
    BY <2>1, <2>4, <1>2
<1>5. CASE t[i].kind # "file"
  <2>1. t[i].kind = "dir"
    BY <1>2, <1>3, <1>5
  <2>2. PICK up : up = IF i = s THEN d ELSE f[Parent(t, i)]
    OBVIOUS
  <2>3. up \in Inodes
    <3>1. d \in Inodes /\ (i = s \/ Parent(t, i) \in P)
      BY DEF CopyOf
    <3> QED
      BY <3>1, <2>2, <1>2
  <2>4. PICK k : k = [m \in {m \in DOMAIN t[i].kids : t[i].kids[m] \in P} |-> f[t[i].kids[m]]]
    OBVIOUS
  <2>5. /\ k \in KidSets /\ DOMAIN k = {m \in DOMAIN t[i].kids : t[i].kids[m] \in P}
        /\ \A m \in DOMAIN k : k[m] = f[t[i].kids[m]]
    <3>1. DOMAIN t[i].kids \subseteq Names
      BY <1>3, KidsParts
    <3>2. PICK D \in SUBSET Names : D = {m \in DOMAIN t[i].kids : t[i].kids[m] \in P}
      BY <3>1
    <3>3. k \in [D -> Inodes]
      BY <3>2, <2>4, <1>2
    <3>4. k \in KidSets
      BY <3>3, KidsAre
    <3> QED
      BY <3>4, <2>4
  <2>6. who \in Session
    BY DEF CopyOf
  <2>7. PICK a : a = Dir(who, up)
    OBVIOUS
  <2>8. a \in Node /\ a.kind = "dir" /\ a.up = up
    BY <2>3, <2>6, <2>7, DirNode
  <2>9. PICK x : x = [a EXCEPT !.kids = k]
    OBVIOUS
  <2>10. x \in Node /\ x.kind = "dir" /\ x.up = up /\ x.kids = k
    BY <2>5, <2>8, <2>9, WithKids DEF Kept
  <2>11. CopyNode(t, who, s, d, P, f, i) = x
    BY <1>5, <2>2, <2>4, <2>7, <2>9 DEF CopyNode
  <2>12. CopiedNode(t, s, d, P, f, i, x)
    BY <2>1, <2>2, <2>5, <2>10 DEF CopiedNode
  <2> QED
    BY <2>11, <2>12, <1>2
<1> QED
  BY <1>4, <1>5

\* A copy writes the copied nodes and one entry, and nothing else.
LEMMA CopyIs ==
    ASSUME NEW t, TreeOK(t), NEW who, NEW s, NEW d, NEW n, NEW P, NEW f, CopyOf(t, who, s, d, n, P, f),
           NEW u, u = WithCopy(t, who, s, d, n, P, f)
    PROVE  CopyFacts(t, s, d, n, P, f, u)
<1> DEFINE new == {f[i] : i \in P}
           of(j) == CHOOSE i \in P : f[i] = j
           old == IF s \in P THEN [t EXCEPT ![d].kids = WithName(@, n, f[s])] ELSE t
<1>1. t \in Tree /\ d \in Inodes /\ t[d].kind = "dir" /\ n \in Names /\ n \notin DOMAIN t[d].kids
  BY DEF TreeOK, CopyOf
<1>2. \A i \in P : /\ i \in Inodes /\ f[i] \in Inodes /\ t[f[i]].kind = "free"
                   /\ CopiedNode(t, s, d, P, f, i, CopyNode(t, who, s, d, P, f, i))
  BY CopyNodeIs
<1>3. u = [j \in Inodes |-> IF j \in new THEN CopyNode(t, who, s, d, P, f, of(j)) ELSE old[j]]
  BY DEF WithCopy, CopyNode
<1>4. ASSUME NEW i \in P PROVE of(f[i]) = i
  BY DEF CopyOf
<1>5. ASSUME NEW i \in P PROVE u[f[i]] = CopyNode(t, who, s, d, P, f, i)
  <2>1. f[i] \in new /\ f[i] \in Inodes
    BY <1>2
  <2> HIDE DEF new, of, old
  <2> QED
    BY <2>1, <1>3, <1>4
<1>6. /\ old \in Tree /\ \A e \in Inodes : e # d => old[e] = t[e]
      /\ Kept(t[d], old[d]) /\ DOMAIN t[d].kids \subseteq DOMAIN old[d].kids
      /\ \A m \in DOMAIN t[d].kids : old[d].kids[m] = t[d].kids[m]
      /\ DOMAIN old[d].kids = (IF s \in P THEN DOMAIN t[d].kids \cup {n} ELSE DOMAIN t[d].kids)
      /\ s \in P => old[d].kids[n] = f[s]
  <2>1. CASE s \notin P
    BY <2>1, <1>1 DEF Kept
  <2>2. CASE s \in P
    <3>1. PICK k \in KidSets : k = t[d].kids
      BY <1>1, NodeParts
    <3>2. PICK c \in Inodes : c = f[s]
      BY <2>2, <1>2
    <3>3. PICK w : w = WithName(k, n, c)
      OBVIOUS
    <3>4. /\ w \in KidSets /\ DOMAIN w = DOMAIN k \cup {n} /\ w[n] = c
          /\ \A m \in DOMAIN k : m # n => w[m] = k[m]
      <4>1. /\ WithName(k, n, c) \in KidSets /\ DOMAIN WithName(k, n, c) = DOMAIN k \cup {n}
            /\ WithName(k, n, c)[n] = c
            /\ \A m \in DOMAIN k : m # n => WithName(k, n, c)[m] = k[m]
        BY <1>1, WithNameIs, Zenon
      <4> QED
        BY <4>1, <3>3
    <3>5. t[d] \in Node
      BY <1>1, NodeParts
    <3>6. PICK x : x = [t[d] EXCEPT !.kids = w]
      OBVIOUS
    <3>7. x \in Node /\ Kept(t[d], x) /\ x.kids = w
      BY <3>4, <3>5, <3>6, WithKids
    <3>8. old = [t EXCEPT ![d] = x]
      <4>1. old = [t EXCEPT ![d].kids = WithName(@, n, f[s])]
        BY <2>2
      <4> HIDE DEF old
      <4> QED
        BY <4>1, <1>1, <3>1, <3>2, <3>3, <3>6 DEF Tree
    <3> HIDE DEF old
    <3>9. old \in Tree /\ old[d] = x /\ \A e \in Inodes : e # d => old[e] = t[e]
      BY <3>7, <3>8, <1>1 DEF Tree
    <3> QED
      BY <3>9, <3>7, <3>4, <3>1, <3>2, <1>1, <2>2
  <2> QED
    BY <2>1, <2>2
<1>7. d \notin new
  BY <1>1, <1>2
<1>8. \A e \in Inodes : e \notin new => u[e] = old[e]
  <2> HIDE DEF new, of, old
  <2> QED
    BY <1>3
<1>9. \A e \in Inodes : (\A i \in P : e # f[i]) <=> e \notin new
  OBVIOUS
<1>10. \A i \in P : CopiedNode(t, s, d, P, f, i, u[f[i]])
  BY <1>2, <1>5
<1>11. u \in Tree
  <2>1. ASSUME NEW e \in Inodes PROVE u[e] \in Node
    <3>1. CASE e \in new
      <4>1. PICK i \in P : e = f[i]
        BY <3>1
      <4> QED
        BY <4>1, <1>10 DEF CopiedNode
    <3>2. CASE e \notin new
      <4>1. u[e] = old[e] /\ old[e] \in Node
        <5> HIDE DEF old, new
        <5> QED
          BY <3>2, <1>6, <1>8, NodeParts
      <4> QED
        BY <4>1
    <3> QED
      BY <3>1, <3>2
  <2>2. u = [j \in Inodes |-> u[j]]
    <3> HIDE DEF new, of, old
    <3> QED
      BY <1>3
  <2> QED
    BY <2>1, <2>2 DEF Tree
<1> HIDE DEF new, of, old
<1> QED
  BY <1>1, <1>6, <1>7, <1>8, <1>9, <1>10, <1>11 DEF CopyFacts

\* The entries of the copy: the old ones, that of the copied s in d, and those between copies.
LEMMA CopyEntries ==
    ASSUME NEW t, TreeOK(t), NEW who, NEW s, NEW d, NEW n, NEW P, NEW f, CopyOf(t, who, s, d, n, P, f),
           NEW u, CopyFacts(t, s, d, n, P, f, u), NEW e \in Inodes, NEW m \in DOMAIN u[e].kids
    PROVE  \/ m \in DOMAIN t[e].kids /\ u[e].kids[m] = t[e].kids[m] /\ t[u[e].kids[m]].kind # "free"
           \/ e = d /\ m = n /\ s \in P /\ u[e].kids[m] = f[s]
           \/ \E i \in P : /\ e = f[i] /\ m \in DOMAIN t[i].kids /\ t[i].kids[m] \in P
                           /\ u[e].kids[m] = f[t[i].kids[m]]
<1>1. CASE \E i \in P : e = f[i]
  <2>1. PICK i \in P : e = f[i]
    BY <1>1
  <2>2. CopiedNode(t, s, d, P, f, i, u[e])
    BY <2>1 DEF CopyFacts
  <2> QED
    BY <2>1, <2>2 DEF CopiedNode
<1>2. CASE e # d /\ \A i \in P : e # f[i]
  <2>1. u[e] = t[e]
    BY <1>2 DEF CopyFacts
  <2> QED
    BY <2>1, KidOK
<1>3. CASE e = d /\ m \in DOMAIN t[d].kids
  <2>1. u[d].kids[m] = t[d].kids[m]
    BY <1>3 DEF CopyFacts
  <2> QED
    BY <2>1, <1>3, KidOK
<1>4. CASE e = d /\ m \notin DOMAIN t[d].kids
  BY <1>4 DEF CopyFacts
<1> QED
  BY <1>1, <1>2, <1>3, <1>4

\* Old inodes keep all but their entries.
LEMMA CopyKept ==
    ASSUME NEW t, TreeOK(t), NEW who, NEW s, NEW d, NEW n, NEW P, NEW f, CopyOf(t, who, s, d, n, P, f),
           NEW u, CopyFacts(t, s, d, n, P, f, u), NEW e \in Inodes, t[e].kind # "free"
    PROVE  /\ Kept(t[e], u[e]) /\ DOMAIN t[e].kids \subseteq DOMAIN u[e].kids
           /\ \A m \in DOMAIN t[e].kids : u[e].kids[m] = t[e].kids[m]
           /\ e # d => u[e] = t[e]
<1>1. CASE e = d
  BY <1>1 DEF CopyFacts
<1>2. CASE e # d
  <2>1. \A i \in P : e # f[i]
    BY CopyNodeIs
  <2>2. u[e] = t[e]
    BY <1>2, <2>1 DEF CopyFacts
  <2> QED
    BY <2>2 DEF Kept
<1> QED
  BY <1>1, <1>2

\* A copy, whole or cut short, keeps the tree, and what was there.
LEMMA CopyKeeps ==
    ASSUME NEW t, TreeOK(t), NEW who, NEW s, NEW d, NEW n, NEW P, NEW f, CopyOf(t, who, s, d, n, P, f),
           NEW u, CopyFacts(t, s, d, n, P, f, u)
    PROVE  TreeOK(u) /\ Grows(t, u)
<1>1. /\ t \in Tree /\ d \in Inodes /\ t[d].kind = "dir" /\ n \in Names /\ n \notin DOMAIN t[d].kids
      /\ s \in Linked(t) /\ \A i \in P : i \in Below(t, s)
      /\ \A i \in P : i = s \/ Parent(t, i) \in P
      /\ \A i, j \in P : f[i] = f[j] => i = j
  BY DEF TreeOK, CopyOf
<1>2. \A i \in P : i \in Inodes /\ f[i] \in Inodes /\ t[f[i]].kind = "free" /\ t[i].kind # "free"
  <2>1. s \in Inodes /\ t[s].kind # "free"
    BY <1>1, LinkedNotFree
  <2> QED
    BY <1>1, <2>1, CopyNodeIs, BelowNotFree
<1>3. \A i \in P : CopiedNode(t, s, d, P, f, i, u[f[i]])
  BY DEF CopyFacts
<1>4. Grows(t, u)
  BY CopyKept DEF Grows
<1> DEFINE Old(e, m) == m \in DOMAIN t[e].kids /\ u[e].kids[m] = t[e].kids[m] /\ t[u[e].kids[m]].kind # "free"
           Top(e, m) == e = d /\ m = n /\ s \in P /\ u[e].kids[m] = f[s]
           Inner(e, m, i) == /\ e = f[i] /\ m \in DOMAIN t[i].kids /\ t[i].kids[m] \in P
                             /\ u[e].kids[m] = f[t[i].kids[m]]
<1>5. ASSUME NEW e \in Inodes, NEW m \in DOMAIN u[e].kids
      PROVE  Old(e, m) \/ Top(e, m) \/ \E i \in P : Inner(e, m, i)
  BY CopyEntries
<1>6. ASSUME NEW e \in Inodes, NEW m \in DOMAIN u[e].kids PROVE EntryOK(u, e, m)
  <2>1. CASE Old(e, m)
    <3>1. PICK c \in Inodes : c = t[e].kids[m]
      BY <2>1, KidOK
    <3>2. /\ c # Root /\ t[e].kind = "dir" /\ t[c].kind # "free"
          /\ t[c].kind = "dir" => t[c].up = e
      BY <2>1, <3>1, KidOK
    <3>3. Kept(t[e], u[e]) /\ Kept(t[c], u[c])
      BY <3>2, CopyKept
    <3>4. c # Root /\ u[e].kind = "dir" /\ u[c].kind # "free" /\ (u[c].kind = "dir" => u[c].up = e)
      BY <3>2, <3>3 DEF Kept
    <3>5. ASSUME NEW g \in Inodes, NEW k \in DOMAIN u[g].kids, u[g].kids[k] = c
          PROVE  g = e /\ k = m
      <4>1. Old(g, k)
        BY <3>2, <3>5, <1>2, <1>5
      <4>2. t[g].kids[k] = t[e].kids[m]
        BY <4>1, <3>1, <3>5
      <4> QED
        BY <4>1, <4>2, <2>1, OneEntry
    <3> QED
      BY <2>1, <3>1, <3>4, <3>5 DEF EntryOK
  <2>2. CASE Top(e, m)
    <3>1. PICK c \in Inodes : c = f[s]
      BY <2>2, <1>2
    <3>2. c # Root /\ u[d].kind = "dir" /\ u[c].kind # "free" /\ (u[c].kind = "dir" => u[c].up = d)
      <4>1. c # Root
        BY <2>2, <3>1, <1>2 DEF TreeOK
      <4>2. u[d].kind = "dir"
        BY <1>1 DEF CopyFacts, Kept
      <4>3. CopiedNode(t, s, d, P, f, s, u[c])
        BY <2>2, <3>1, <1>3
      <4>4. u[c].kind # "free" /\ (u[c].kind = "dir" => u[c].up = d)
        BY <4>3, <2>2, <1>2 DEF CopiedNode
      <4> QED
        BY <4>1, <4>2, <4>4
    <3>3. ASSUME NEW g \in Inodes, NEW k \in DOMAIN u[g].kids, u[g].kids[k] = c
          PROVE  g = d /\ k = n
      <4>1. CASE Old(g, k)
        BY <4>1, <2>2, <3>1, <3>3, <1>2
      <4>2. CASE Top(g, k)
        BY <4>2
      <4>3. CASE \E i \in P : Inner(g, k, i)
        <5>1. PICK i \in P : Inner(g, k, i)
          BY <4>3
        <5>2. t[i].kids[k] = s
          BY <5>1, <2>2, <3>1, <3>3, <1>1
        <5>3. i \in Below(t, s) /\ k \in DOMAIN t[i].kids
          BY <5>1, <1>1
        <5> QED
          BY <5>2, <5>3, <1>1, NotItsOwn
      <4> QED
        BY <4>1, <4>2, <4>3, <1>5
    <3> QED
      BY <2>2, <3>1, <3>2, <3>3 DEF EntryOK
  <2>3. ASSUME NEW i \in P, Inner(e, m, i) PROVE EntryOK(u, e, m)
    <3>1. PICK j \in P : j = t[i].kids[m]
      BY <2>3
    <3>2. PICK c \in Inodes : c = f[j]
      BY <1>2
    <3>3. j # s
      <4>1. i \in Below(t, s) /\ m \in DOMAIN t[i].kids
        BY <2>3, <1>1
      <4> QED
        BY <3>1, <4>1, <1>1, NotItsOwn
    <3>4. i \in Inodes /\ m \in DOMAIN t[i].kids
      BY <2>3, <1>2
    <3>5. Parent(t, j) = i /\ t[i].kind = "dir"
      BY <3>1, <3>4, ParentIs, KidOK
    <3>6. CopiedNode(t, s, d, P, f, i, u[e]) /\ CopiedNode(t, s, d, P, f, j, u[c])
      BY <2>3, <3>2, <1>3
    <3>7. c # Root /\ u[e].kind = "dir" /\ u[c].kind # "free" /\ (u[c].kind = "dir" => u[c].up = e)
      <4>1. c # Root
        BY <3>2, <1>2 DEF TreeOK
      <4>2. u[c].kind = t[j].kind /\ (u[c].kind = "dir" => u[c].up = f[i]) /\ u[e].kind = t[i].kind
        BY <3>3, <3>5, <3>6 DEF CopiedNode
      <4> QED
        BY <4>1, <4>2, <3>5, <2>3, <1>2
    <3>8. ASSUME NEW g \in Inodes, NEW k \in DOMAIN u[g].kids, u[g].kids[k] = c
          PROVE  g = e /\ k = m
      <4>1. CASE Old(g, k)
        BY <4>1, <3>2, <3>8, <1>2
      <4>2. CASE Top(g, k)
        BY <4>2, <3>2, <3>3, <3>8, <1>1
      <4>3. CASE \E h \in P : Inner(g, k, h)
        <5>1. PICK h \in P : Inner(g, k, h)
          BY <4>3
        <5>2. t[h].kids[k] = t[i].kids[m]
          BY <5>1, <3>1, <3>2, <3>8, <1>1
        <5>3. h \in Inodes /\ k \in DOMAIN t[h].kids
          BY <5>1, <1>2
        <5>4. h = i /\ k = m
          BY <5>2, <5>3, <3>4, OneEntry
        <5> QED
          BY <5>1, <5>4, <2>3
      <4> QED
        BY <4>1, <4>2, <4>3, <1>5
    <3>9. u[e].kids[m] = c
      BY <2>3, <3>1, <3>2
    <3> QED
      BY <3>7, <3>8, <3>9 DEF EntryOK
  <2> QED
    BY <2>1, <2>2, <2>3, <1>5
<1>7. u[Root].kind = "dir"
  <2>1. Root \in Inodes /\ t[Root].kind = "dir"
    BY RootInode DEF TreeOK
  <2>2. Kept(t[Root], u[Root])
    BY <2>1, CopyKept
  <2> QED
    BY <2>1, <2>2 DEF Kept
<1>8. u \in Tree
  BY DEF CopyFacts
<1>9. TreeOK(u)
  <2> HIDE DEF Old, Top, Inner
  <2> QED
    BY <1>6, <1>7, <1>8 DEF TreeOK
<1> QED
  BY <1>4, <1>9

\* An inode that is linked and not the root is an entry of a directory that is linked.
LEMMA SourceIs ==
    ASSUME NEW t, TreeOK(t), NEW s \in Linked(t), s # Root
    PROVE  /\ s \in Inodes /\ Parent(t, s) \in Inodes /\ Parent(t, s) \in Linked(t)
           /\ t[Parent(t, s)].kind = "dir" /\ NameOf(t, s) \in Names
           /\ NameOf(t, s) \in DOMAIN t[Parent(t, s)].kids /\ t[Parent(t, s)].kids[NameOf(t, s)] = s
<1>1. PICK p, f : Way(t, Root, p, f) /\ f[Len(p)] = s
  BY LinkedIs
<1>2. Len(p) \in Nat /\ f[0] = Root /\ s \in Inodes
  BY <1>1, WayType
<1>3. Len(p) \in 1 .. Len(p) /\ Len(p) - 1 \in 0 .. Len(p)
  BY <1>1, <1>2
<1>4. PICK k, e, m : k \in 0 .. Len(p) /\ k = Len(p) - 1 /\ e = f[k] /\ m = p[Len(p)]
  BY <1>3
<1>5. e \in Inodes /\ m \in DOMAIN t[e].kids /\ t[e].kids[m] = s
  BY <1>1, <1>3, <1>4, WayEntry
<1>6. Parent(t, s) = e /\ NameOf(t, s) = m
  BY <1>5, ParentIs
<1>7. PICK q, g : q = SubSeq(p, 1, k) /\ g = Slice(f, 0, k)
  OBVIOUS
<1>8. Way(t, Root, q, g) /\ Len(q) = k /\ g[k] = e
  BY <1>1, <1>4, <1>7, WayHead
<1>9. e \in Linked(t)
  BY <1>8, LinkedIs
<1> QED
  BY <1>2, <1>5, <1>6, <1>9, KidOK

\* As many inodes as are copied, so many free ones are taken.
Taken(t, P) == CHOOSE f \in Bijection(P, FirstFrees(t, Cardinality(P))) : TRUE

\* What is taken for a copy is free, and each inode taken once.
LEMMA CopyTo ==
    ASSUME NEW t, TreeOK(t), NEW s \in Inodes, NEW P \in Copied(t, s),
           NEW f, f = Taken(t, P)
    PROVE  f \in [P -> Free(t)] /\ \A i, j \in P : f[i] = f[j] => i = j
<1>1. PICK T : T = FirstFrees(t, Cardinality(P))
  OBVIOUS
<1>2. P \subseteq Inodes /\ Cardinality(P) <= Cardinality(Free(t))
  BY BelowType DEF Copied, TreeOK
<1>3. IsFiniteSet(P) /\ Cardinality(P) \in Nat
  <2>1. IsFiniteSet(Inodes)
    BY RootInode, FS_Interval
  <2> QED
    BY <2>1, <1>2, FS_Subset, FS_CardinalityType
<1>4. T \subseteq Free(t) /\ IsFiniteSet(T) /\ Cardinality(T) = Cardinality(P)
  BY <1>1, <1>2, <1>3, FirstFreesCount
<1>5. ExistsBijection(P, T)
  BY <1>3, <1>4, FS_SameCardinalityBij
<1>6. Bijection(P, T) # {}
  BY <1>5 DEF ExistsBijection
<1>8. f \in Bijection(P, T)
  BY <1>1, <1>6 DEF Taken
<1>9. f \in [P -> T] /\ \A i, j \in P : f[i] = f[j] => i = j
  BY <1>8 DEF Bijection, Injection, IsInjective
<1>10. f \in [P -> Free(t)]
  BY <1>4, <1>9
<1> QED
  BY <1>9, <1>10

\* The outcomes of the copying: nothing, or the copy of a part of the source.
LEMMA CopiesAre ==
    ASSUME NEW t, TreeOK(t), NEW who \in Session, NEW s \in Linked(t), s # Root,
           NEW d \in Inodes, t[d].kind = "dir", NEW c \in Copies(t, who, s, d)
    PROVE  \/ c.tree = t /\ c.whole = FALSE
           \/ \E P, f : /\ CopyOf(t, who, s, d, NameOf(t, s), P, f)
                        /\ CopyFacts(t, s, d, NameOf(t, s), P, f, c.tree)
                        /\ c.whole <=> P = Below(t, s)
<1>1. PICK n : n = NameOf(t, s)
  OBVIOUS
<1>2. n \in Names /\ s \in Inodes
  BY <1>1, SourceIs
<1>3. CASE n \in DOMAIN t[d].kids \/ (t[s].kind = "dir" /\ ~CanEnter(t, who, d))
  BY <1>1, <1>3 DEF Copies
<1>4. CASE ~(n \in DOMAIN t[d].kids \/ (t[s].kind = "dir" /\ ~CanEnter(t, who, d)))
  <2>1. PICK P \in Copied(t, s) :
           c = [tree  |-> WithCopy(t, who, s, d, n, P,
                            CHOOSE f \in Bijection(P, FirstFrees(t, Cardinality(P))) : TRUE),
                whole |-> P = Below(t, s)]
    BY <1>1, <1>4 DEF Copies
  <2>2. PICK f : f = Taken(t, P)
    OBVIOUS
  <2>3. f \in [P -> Free(t)] /\ \A i, j \in P : f[i] = f[j] => i = j
    BY <1>2, <2>2, CopyTo
  <2>4. P \subseteq Below(t, s) /\ \A i \in P : i = s \/ Parent(t, i) \in P
    BY DEF Copied
  <2>5. CopyOf(t, who, s, d, n, P, f)
    BY <1>2, <1>4, <2>3, <2>4 DEF CopyOf
  <2>6. PICK u : u = WithCopy(t, who, s, d, n, P, f)
    OBVIOUS
  <2>7. CopyFacts(t, s, d, n, P, f, u)
    BY <2>5, <2>6, CopyIs
  <2>8. c.tree = u /\ (c.whole <=> P = Below(t, s))
    BY <2>1, <2>2, <2>6 DEF Taken
  <2> QED
    BY <1>1, <2>5, <2>7, <2>8
<1> QED
  BY <1>3, <1>4

\* Each of them keeps the tree, and what was there.
LEMMA CopiesKeep ==
    ASSUME NEW t, TreeOK(t), NEW who \in Session, NEW s \in Linked(t), s # Root,
           NEW d \in Inodes, t[d].kind = "dir", NEW c \in Copies(t, who, s, d)
    PROVE  TreeOK(c.tree) /\ Grows(t, c.tree)
<1>1. CASE c.tree = t
  BY <1>1 DEF Grows, Kept
<1>2. CASE \E P, f : /\ CopyOf(t, who, s, d, NameOf(t, s), P, f)
                     /\ CopyFacts(t, s, d, NameOf(t, s), P, f, c.tree)
  BY <1>2, CopyKeeps
<1> QED
  BY <1>1, <1>2, CopiesAre

\* The operands of a copy or a move.
LEMMA OperandsAre ==
    ASSUME TreeOK(tree), NEW x \in Operands
    PROVE  /\ x[1] \in Linked(tree) /\ x[1] # Root /\ x[1] \in Inodes
           /\ x[2] \in Inodes /\ tree[x[2]].kind = "dir" /\ x[2] \in Linked(tree)
           /\ x[2] \notin Below(tree, x[1])
<1>1. /\ x[1] \in Linked(tree) /\ x[1] # Root
      /\ tree[x[2]].kind = "dir" /\ x[2] \in Linked(tree) /\ x[2] \notin Below(tree, x[1])
  BY DEF Operands
<1> QED
  BY <1>1, LinkedNotFree

-----------------------------------------------------------------------------
(* The path of a session *)

\* The names that the session keeps lead by f to its directory, and it may enter
\* whatever lies on the way.
OnPath(t, s, f) ==
    /\ Way(t, Root, s.name, f) /\ f[Len(s.name)] = s.dir /\ t[s.dir].kind = "dir"
    /\ \A k \in 0 .. Len(s.name) : CanEnter(t, s, f[k])

\* The session is where its path leads.
PathOK(t, s) == \E f : OnPath(t, s, f)

\* Who may enter depends on owner, group and mode, and on the user and the groups.
LEMMA EnterKept ==
    ASSUME NEW t, NEW u, NEW s, NEW d, Kept(t[d], u[d])
    PROVE  CanEnter(t, s, d) <=> CanEnter(u, s, d)
  BY DEF Kept, CanEnter

LEMMA EnterSame ==
    ASSUME NEW t, NEW s, NEW r, NEW d, s.user = r.user, s.group = r.group
    PROVE  CanEnter(t, s, d) <=> CanEnter(t, r, d)
  BY DEF CanEnter

\* All that lies on the path is a directory.
LEMMA OnPathDirs ==
    ASSUME NEW t, TreeOK(t), NEW s \in Session, NEW f, OnPath(t, s, f), NEW k \in 0 .. Len(s.name)
    PROVE  f[k] \in Inodes /\ t[f[k]].kind = "dir"
<1>1. Way(t, Root, s.name, f) /\ f[Len(s.name)] = s.dir /\ t[s.dir].kind = "dir"
  BY DEF OnPath
<1>2. PICK p : p = s.name
  OBVIOUS
<1>3. Len(p) \in Nat /\ f \in [0 .. Len(p) -> Inodes]
  BY <1>1, <1>2, WayType
<1>4. CASE k = Len(p)
  BY <1>1, <1>2, <1>3, <1>4
<1>5. CASE k # Len(p)
  <2>1. k + 1 \in 1 .. Len(p) /\ (k + 1) - 1 = k
    BY <1>2, <1>3, <1>5
  <2>2. PICK j \in 1 .. Len(p) : j = k + 1 /\ j - 1 = k
    BY <2>1
  <2>3. f[j - 1] \in Inodes /\ t[f[j - 1]].kind = "dir"
    BY <1>1, <1>2, WayEntry
  <2> QED
    BY <2>2, <2>3
<1> QED
  BY <1>4, <1>5

\* A way stays where it is while the tree grows.
LEMMA GrowsWay ==
    ASSUME NEW t, TreeOK(t), NEW u, Grows(t, u), NEW i, NEW p, NEW f, Way(t, i, p, f)
    PROVE  Way(u, i, p, f)
<1>1. p \in Seq(Names) /\ Len(p) \in Nat /\ f \in [0 .. Len(p) -> Inodes] /\ f[0] = i
  BY WayType
<1>2. ASSUME NEW k \in 1 .. Len(p)
      PROVE  p[k] \in DOMAIN u[f[k - 1]].kids /\ u[f[k - 1]].kids[p[k]] = f[k]
  <2>1. /\ f[k - 1] \in Inodes /\ p[k] \in DOMAIN t[f[k - 1]].kids /\ t[f[k - 1]].kids[p[k]] = f[k]
        /\ t[f[k - 1]].kind = "dir"
    BY WayEntry
  <2>2. PICK e \in Inodes : e = f[k - 1]
    BY <2>1
  <2>3. /\ DOMAIN t[e].kids \subseteq DOMAIN u[e].kids
        /\ \A n \in DOMAIN t[e].kids : u[e].kids[n] = t[e].kids[n]
    BY <2>1, <2>2 DEF Grows
  <2> QED
    BY <2>1, <2>2, <2>3
<1> QED
  BY <1>1, <1>2 DEF Way

\* A path stays one in a tree that grows.
LEMMA GrowsPath ==
    ASSUME NEW t, TreeOK(t), NEW u, Grows(t, u), NEW s \in Session, PathOK(t, s)
    PROVE  PathOK(u, s)
<1>1. PICK f : OnPath(t, s, f)
  BY DEF PathOK
<1>2. PICK p : p = s.name
  OBVIOUS
<1>3. Way(t, Root, p, f) /\ f[Len(p)] = s.dir /\ t[s.dir].kind = "dir"
      /\ \A k \in 0 .. Len(p) : CanEnter(t, s, f[k])
  BY <1>1, <1>2 DEF OnPath
<1>4. \A k \in 0 .. Len(p) : f[k] \in Inodes /\ t[f[k]].kind = "dir"
  BY <1>1, <1>2, OnPathDirs
<1>5. Len(p) \in Nat
  BY <1>3, WayType
<1>6. \A k \in 0 .. Len(p) : Kept(t[f[k]], u[f[k]])
  BY <1>4 DEF Grows
<1>7. Way(u, Root, p, f)
  BY <1>3, GrowsWay
<1>8. \A k \in 0 .. Len(p) : CanEnter(u, s, f[k])
  BY <1>3, <1>6, EnterKept
<1>9. u[s.dir].kind = "dir"
  <2>1. Len(p) \in 0 .. Len(p)
    BY <1>5
  <2> QED
    BY <2>1, <1>3, <1>6 DEF Kept
<1>10. OnPath(u, s, f)
  BY <1>2, <1>3, <1>7, <1>8, <1>9 DEF OnPath
<1> QED
  BY <1>10 DEF PathOK

\* A removal leaves a way that does not pass what is removed.
LEMMA UnlinkedWay ==
    ASSUME NEW t, TreeOK(t), NEW d \in Inodes, NEW n \in DOMAIN t[d].kids,
           NEW p, NEW f, Way(t, Root, p, f), \A k \in 0 .. Len(p) : f[k] # t[d].kids[n]
    PROVE  /\ Way(Unlinked(t, d, n), Root, p, f)
           /\ \A k \in 0 .. Len(p) : Kept(t[f[k]], Unlinked(t, d, n)[f[k]])
<1>1. PICK c \in Inodes : c = t[d].kids[n]
  BY KidOK
<1>2. PICK gone, u : gone = Below(t, t[d].kids[n]) /\ u = Unlinked(t, d, n)
  OBVIOUS
<1>3. p \in Seq(Names) /\ Len(p) \in Nat /\ f \in [0 .. Len(p) -> Inodes] /\ f[0] = Root
  BY WayType
<1>4. \A k \in 0 .. Len(p) : f[k] # c
  BY <1>1
<1>5. \A k \in 0 .. Len(p) : f[k] \in Inodes /\ f[k] \notin gone
  <2> SUFFICES ASSUME NEW k \in 0 .. Len(p), f[k] \in Below(t, c) PROVE FALSE
    BY <1>1, <1>2, <1>3
  <2>1. PICK j \in 0 .. k : f[j] = c
    BY GonePassed
  <2>2. j \in 0 .. Len(p)
    BY <1>3
  <2> QED
    BY <2>1, <2>2, <1>4
<1>6. \A k \in 0 .. Len(p) : Kept(t[f[k]], u[f[k]])
  BY <1>2, <1>5, UnlinkedKept
<1>7. /\ \A e \in Inodes : e \notin gone /\ e # d => u[e] = t[e]
      /\ d \notin gone => /\ DOMAIN u[d].kids = DOMAIN t[d].kids \ {n}
                          /\ \A m \in DOMAIN u[d].kids : u[d].kids[m] = t[d].kids[m]
  BY <1>2, UnlinkedIs
<1>8. ASSUME NEW k \in 1 .. Len(p)
      PROVE  p[k] \in DOMAIN u[f[k - 1]].kids /\ u[f[k - 1]].kids[p[k]] = f[k]
  <2>1. p[k] \in DOMAIN t[f[k - 1]].kids /\ t[f[k - 1]].kids[p[k]] = f[k]
    BY DEF Way
  <2>2. k - 1 \in 0 .. Len(p) /\ k \in 0 .. Len(p)
    BY <1>3
  <2>3. f[k - 1] \in Inodes /\ f[k - 1] \notin gone /\ f[k] # c
    BY <2>2, <1>4, <1>5
  <2>4. PICK e, m, x : e = f[k - 1] /\ m = p[k] /\ x = f[k]
    OBVIOUS
  <2>5. /\ m \in DOMAIN t[e].kids /\ t[e].kids[m] = x /\ e \in Inodes /\ e \notin gone
        /\ x # t[d].kids[n]
    BY <2>1, <2>3, <2>4, <1>1
  <2>6. m \in DOMAIN u[e].kids /\ u[e].kids[m] = x
    <3>1. CASE e = d
      <4>1. m # n
        BY <2>5, <3>1
      <4> QED
        BY <4>1, <2>5, <3>1, <1>7
    <3>2. CASE e # d
      BY <2>5, <3>2, <1>7
    <3> QED
      BY <3>1, <3>2
  <2> QED
    BY <2>4, <2>6
<1>9. Way(u, Root, p, f)
  BY <1>3, <1>8 DEF Way
<1> QED
  BY <1>2, <1>6, <1>9

\* A removal leaves the path of a session that is not below what is removed.
LEMMA UnlinkedPath ==
    ASSUME NEW t, TreeOK(t), NEW d \in Inodes, NEW n \in DOMAIN t[d].kids, NEW s \in Session, PathOK(t, s),
           s.dir \notin Below(t, t[d].kids[n])
    PROVE  PathOK(Unlinked(t, d, n), s)
<1>1. PICK c \in Inodes : c = t[d].kids[n]
  BY KidOK
<1>2. PICK gone, u : gone = Below(t, t[d].kids[n]) /\ u = Unlinked(t, d, n)
  OBVIOUS
<1>3. PICK f : OnPath(t, s, f)
  BY DEF PathOK
<1>4. PICK p : p = s.name
  OBVIOUS
<1>5. Way(t, Root, p, f) /\ f[Len(p)] = s.dir /\ t[s.dir].kind = "dir"
      /\ \A k \in 0 .. Len(p) : CanEnter(t, s, f[k])
  BY <1>3, <1>4 DEF OnPath
<1>6. Len(p) \in Nat
  BY <1>5, WayType
<1>7. \A k \in 0 .. Len(p) : f[k] # c
  <2> SUFFICES ASSUME NEW k \in 0 .. Len(p), f[k] = c PROVE FALSE
    OBVIOUS
  <2>1. Len(p) \in k .. Len(p)
    BY <1>6
  <2>2. f[Len(p)] \in Below(t, f[k])
    BY <1>5, <2>1, PassedBelow
  <2> QED
    BY <2>2, <1>1, <1>5
<1>8. Way(u, Root, p, f) /\ \A k \in 0 .. Len(p) : Kept(t[f[k]], u[f[k]])
  BY <1>1, <1>2, <1>5, <1>7, UnlinkedWay
<1>9. \A k \in 0 .. Len(p) : CanEnter(u, s, f[k])
  BY <1>5, <1>8, EnterKept
<1>10. u[s.dir].kind = "dir"
  <2>1. Len(p) \in 0 .. Len(p)
    BY <1>6
  <2> QED
    BY <2>1, <1>5, <1>8 DEF Kept
<1>11. OnPath(u, s, f)
  BY <1>4, <1>5, <1>8, <1>9, <1>10 DEF OnPath
<1> QED
  BY <1>2, <1>11 DEF PathOK

\* The removed directory is the current one: nothing below its entries is on the path.
LEMMA NotBelowOwn ==
    ASSUME NEW t, TreeOK(t), NEW s \in Session, PathOK(t, s), NEW n \in DOMAIN t[s.dir].kids
    PROVE  s.dir \notin Below(t, t[s.dir].kids[n])
<1> SUFFICES ASSUME s.dir \in Below(t, t[s.dir].kids[n]) PROVE FALSE
  OBVIOUS
<1>1. PICK d \in Inodes : d = s.dir
  BY DEF Session
<1>2. PICK p, f : Way(t, Root, p, f) /\ f[Len(p)] = d
  BY <1>1 DEF PathOK, OnPath
<1>3. PICK c \in Inodes : c = t[d].kids[n]
  BY <1>1, KidOK
<1>4. PICK g, q : g = Onto(f, Len(p) + 1, t[f[Len(p)]].kids[n]) /\ q = Append(p, n)
  OBVIOUS
<1>5. Way(t, Root, q, g) /\ Len(q) = Len(p) + 1 /\ g[Len(q)] = c
  <2>1. n \in DOMAIN t[f[Len(p)]].kids /\ t \in Tree
    BY <1>1, <1>2 DEF TreeOK
  <2>2. Way(t, Root, q, g) /\ Len(q) = Len(p) + 1 /\ g[Len(p) + 1] = t[f[Len(p)]].kids[n]
    BY <2>1, <1>2, <1>4, WayStep
  <2> QED
    BY <2>2, <1>2, <1>3
<1>6. c \in Linked(t)
  BY <1>5, LinkedIs
<1>7. d \in Below(t, c) /\ n \in DOMAIN t[d].kids
  BY <1>1, <1>3
<1>8. t[d].kids[n] # c
  BY <1>6, <1>7, NotItsOwn
<1> QED
  BY <1>3, <1>8

\* A change of the mode of an entry of the current directory leaves the path.
LEMMA ModePath ==
    ASSUME NEW t, TreeOK(t), NEW s \in Session, PathOK(t, s), NEW n \in DOMAIN t[s.dir].kids,
           NEW m \in Modes
    PROVE  PathOK([t EXCEPT ![t[s.dir].kids[n]].mode = m], s)
<1>1. PICK d \in Inodes : d = s.dir
  BY DEF Session
<1>2. PICK c \in Inodes : c = t[d].kids[n]
  BY <1>1, KidOK
<1>3. PICK u : u = [t EXCEPT ![c].mode = m]
  OBVIOUS
<1>4. \A e \in Inodes : u[e].kids = t[e].kids /\ u[e].kind = t[e].kind /\ (e # c => u[e] = t[e])
  BY <1>3, ModeKeeps
<1>5. PICK f : OnPath(t, s, f)
  BY DEF PathOK
<1>6. PICK p : p = s.name
  OBVIOUS
<1>7. Way(t, Root, p, f) /\ f[Len(p)] = d /\ t[d].kind = "dir"
      /\ \A k \in 0 .. Len(p) : CanEnter(t, s, f[k])
  BY <1>1, <1>5, <1>6 DEF OnPath
<1>8. p \in Seq(Names) /\ Len(p) \in Nat /\ f \in [0 .. Len(p) -> Inodes] /\ f[0] = Root
  BY <1>7, WayType
<1>9. \A k \in 0 .. Len(p) : f[k] # c
  <2> SUFFICES ASSUME NEW k \in 0 .. Len(p), f[k] = c PROVE FALSE
    OBVIOUS
  <2>1. Len(p) \in k .. Len(p)
    BY <1>8
  <2>2. f[Len(p)] \in Below(t, f[k])
    BY <1>7, <2>1, PassedBelow
  <2>3. d \notin Below(t, c)
    BY <1>1, <1>2, NotBelowOwn
  <2> QED
    BY <2>2, <2>3, <1>7
<1>10. \A k \in 0 .. Len(p) : f[k] \in Inodes /\ u[f[k]] = t[f[k]]
  BY <1>4, <1>8, <1>9
<1>11. ASSUME NEW k \in 1 .. Len(p)
       PROVE  p[k] \in DOMAIN u[f[k - 1]].kids /\ u[f[k - 1]].kids[p[k]] = f[k]
  <2>1. p[k] \in DOMAIN t[f[k - 1]].kids /\ t[f[k - 1]].kids[p[k]] = f[k]
    BY <1>7 DEF Way
  <2>2. k - 1 \in 0 .. Len(p)
    BY <1>8
  <2> QED
    BY <2>1, <2>2, <1>10
<1>12. Way(u, Root, p, f)
  BY <1>8, <1>11 DEF Way
<1>13. \A k \in 0 .. Len(p) : CanEnter(u, s, f[k])
  BY <1>7, <1>10 DEF CanEnter
<1>14. OnPath(u, s, f)
  BY <1>1, <1>4, <1>6, <1>7, <1>12, <1>13 DEF OnPath
<1> QED
  BY <1>1, <1>2, <1>3, <1>14 DEF PathOK

-----------------------------------------------------------------------------
(* Navigation *)

\* The parts of a session, and of one that has moved or has just begun.
LEMMA SessionParts ==
    ASSUME NEW s \in Session
    PROVE  /\ s.user \in Users \cup {ROOT, NOBODY} /\ s.group \in Groups /\ s.dir \in Inodes
           /\ s.name \in Seq(Names) /\ Len(s.name) \in Nat
  BY DEF Session

Moved(s, d, p) == [s EXCEPT !.dir = d, !.name = p]

LEMMA MovedSession ==
    ASSUME NEW s \in Session, NEW d \in Inodes, NEW p \in Seq(Names), NEW r, r = Moved(s, d, p)
    PROVE  r \in Session /\ r.user = s.user /\ r.group = s.group /\ r.dir = d /\ r.name = p
  BY DEF Session, Moved

LEMMA AtIs ==
    ASSUME NEW u \in Users \cup {ROOT, NOBODY}, NEW g \in Groups
    PROVE  /\ At(u, g) \in Session /\ At(u, g).user = u /\ At(u, g).group = g
           /\ At(u, g).dir = Root /\ At(u, g).name = <<>>
  BY RootInode DEF At, Session

\* A session in the root directory is on its path as long as the root is open.
LEMMA AtPath ==
    ASSUME NEW t, TreeOK(t), t[Root].mode = "open", NEW s \in Session, s.dir = Root, s.name = <<>>
    PROVE  PathOK(t, s)
<1>1. t \in Tree /\ Root \in Inodes /\ t[Root].kind = "dir"
  BY RootInode DEF TreeOK
<1>2. PICK f : f = Onto(<<>>, 0, Root)
  OBVIOUS
<1>3. Way(t, Root, <<>>, f) /\ f[Len(<<>>)] = Root /\ Len(<<>>) = 0
  BY <1>1, <1>2, WayEmpty
<1>4. CanEnter(t, s, Root)
  BY DEF CanEnter
<1>5. \A k \in 0 .. Len(s.name) : k = 0
  BY <1>3
<1>6. OnPath(t, s, f)
  BY <1>1, <1>3, <1>4, <1>5 DEF OnPath
<1> QED
  BY <1>6 DEF PathOK

FrontIs(p, q) == q \in Seq(Names) /\ Len(q) = Len(p) - 1 /\ q = SubSeq(p, 1, Len(p) - 1)

\* A path that is not empty has a front.
LEMMA FrontOf ==
    ASSUME NEW p \in Seq(Names), p # <<>>
    PROVE  FrontIs(p, Front(p)) /\ Len(p) \in Nat /\ Len(p) # 0
<1>1. Len(p) \in Nat /\ Len(p) # 0
  BY EmptySeq
<1>2. PICK m \in Nat : m = Len(p) - 1
  BY <1>1
<1>3. \A i \in 1 .. m : p[i] \in Names
  BY <1>1, <1>2
<1>4. PICK q : q = SubSeq(p, 1, m)
  OBVIOUS
<1>5. q \in Seq(Names) /\ Len(q) = IF 1 <= m THEN m - 1 + 1 ELSE 0
  BY <1>3, <1>4, SubSeqProperties
<1>6. Len(q) = m
  BY <1>5, <1>2
<1> QED
  BY <1>1, <1>2, <1>4, <1>5, <1>6 DEF FrontIs, Front

\* Entering a directory leaves the user who he is.
LEMMA EnteredType ==
    ASSUME NEW t \in Tree, NEW s \in Session, NEW n
    PROVE  Entered(t, s, n) \in Session /\ Entered(t, s, n).user = s.user
           /\ Entered(t, s, n).group = s.group
<1>1. s.dir \in Inodes /\ s.name \in Seq(Names)
  BY SessionParts
<1>2. CASE n = UP
  <2>1. PICK d \in Inodes : d = t[s.dir].up
    BY <1>1, NodeParts
  <2>2. PICK q \in Seq(Names) : q = IF s.name = <<>> THEN <<>> ELSE Front(s.name)
    <3>1. s.name # <<>> => Front(s.name) \in Seq(Names)
      BY <1>1, FrontOf DEF FrontIs
    <3>2. <<>> \in Seq(Names)
      OBVIOUS
    <3> QED
      BY <3>1, <3>2
  <2>3. PICK r : r = Moved(s, d, q)
    OBVIOUS
  <2>4. r \in Session /\ r.user = s.user /\ r.group = s.group
    BY <2>3, MovedSession
  <2>5. Entered(t, s, n) = r \/ Entered(t, s, n) = s
    BY <1>2, <2>1, <2>2, <2>3 DEF Entered, Moved
  <2> QED
    BY <2>4, <2>5
<1>3. CASE n # UP /\ n \in DOMAIN t[s.dir].kids
  <2>1. PICK d \in Inodes : d = t[s.dir].kids[n]
    BY <1>1, <1>3, KidType
  <2>2. n \in Names
    BY <1>1, <1>3, KidType
  <2>3. PICK q \in Seq(Names) : q = Append(s.name, n)
    BY <1>1, <2>2, AppendProperties
  <2>4. PICK r : r = Moved(s, d, q)
    OBVIOUS
  <2>5. r \in Session /\ r.user = s.user /\ r.group = s.group
    BY <2>4, MovedSession
  <2>6. Entered(t, s, n) = r \/ Entered(t, s, n) = s
    BY <1>3, <2>1, <2>3, <2>4 DEF Entered, Moved
  <2> QED
    BY <2>5, <2>6
<1>4. CASE n # UP /\ n \notin DOMAIN t[s.dir].kids
  BY <1>4 DEF Entered
<1> QED
  BY <1>2, <1>3, <1>4

\* ".." is not refused on a path, and takes one name off it.
LEMMA UpKeeps ==
    ASSUME NEW t, TreeOK(t), NEW s \in Session, PathOK(t, s), s.name # <<>>
    PROVE  PathOK(t, Entered(t, s, UP)) /\ Len(Entered(t, s, UP).name) = Len(s.name) - 1
<1>1. PICK f : OnPath(t, s, f)
  BY DEF PathOK
<1>2. PICK p : p = s.name
  OBVIOUS
<1>3. Way(t, Root, p, f) /\ f[Len(p)] = s.dir /\ t[s.dir].kind = "dir"
      /\ \A k \in 0 .. Len(p) : CanEnter(t, s, f[k])
  BY <1>1, <1>2 DEF OnPath
<1>4. p \in Seq(Names) /\ Len(p) \in Nat /\ Len(p) # 0 /\ FrontIs(p, Front(p))
  BY <1>2, SessionParts, FrontOf
<1>5. Len(p) \in 1 .. Len(p) /\ Len(p) - 1 \in 0 .. Len(p)
  BY <1>4
<1>6. PICK k \in 0 .. Len(p) : k = Len(p) - 1
  BY <1>5
<1>7. /\ f[k] \in Inodes /\ p[Len(p)] \in DOMAIN t[f[k]].kids /\ t[f[k]].kids[p[Len(p)]] = s.dir
      /\ s.dir # Root /\ t[f[k]].kind = "dir"
  BY <1>3, <1>5, <1>6, WayEntry
<1>8. t[s.dir].up = f[k]
  BY <1>3, <1>7, KidOK
<1>9. PICK q : q = Front(p)
  OBVIOUS
<1>10. PICK r : r = Moved(s, f[k], q)
  OBVIOUS
<1>11. q \in Seq(Names) /\ Len(q) = k /\ q = SubSeq(p, 1, k)
  BY <1>4, <1>6, <1>9 DEF FrontIs
<1>12. r \in Session /\ r.user = s.user /\ r.group = s.group /\ r.dir = f[k] /\ r.name = q
  <2>1. f[k] \in Inodes /\ q \in Seq(Names)
    BY <1>7, <1>11
  <2> QED
    BY <2>1, <1>10, MovedSession
<1>13. Entered(t, s, UP) = r
  BY <1>2, <1>3, <1>7, <1>8, <1>9, <1>10 DEF Entered, Moved
<1>14. PICK g : g = Slice(f, 0, k)
  OBVIOUS
<1>15. Way(t, Root, q, g) /\ g[k] = f[k] /\ \A j \in 0 .. k : g[j] = f[j]
  BY <1>3, <1>11, <1>14, WayHead
<1>16. \A j \in 0 .. k : CanEnter(t, r, g[j])
  <2>1. \A j \in 0 .. k : j \in 0 .. Len(p)
    BY <1>4
  <2> QED
    BY <2>1, <1>3, <1>12, <1>15, EnterSame
<1>17. OnPath(t, r, g)
  BY <1>7, <1>11, <1>12, <1>15, <1>16 DEF OnPath
<1> QED
  BY <1>2, <1>6, <1>11, <1>12, <1>13, <1>17 DEF PathOK

\* Entering a directory, or leaving one, keeps the session on its path.
LEMMA EnteredKeeps ==
    ASSUME NEW t, TreeOK(t), NEW s \in Session, PathOK(t, s), NEW n
    PROVE  PathOK(t, Entered(t, s, n))
<1>1. s.dir \in Inodes /\ s.name \in Seq(Names) /\ t \in Tree
  BY SessionParts DEF TreeOK
<1>2. CASE n = UP /\ s.name # <<>>
  BY <1>2, UpKeeps
<1>3. CASE n = UP /\ s.name = <<>>
  <2>1. s.dir = Root
    <3>1. PICK f : Way(t, Root, <<>>, f) /\ f[Len(<<>>)] = s.dir
      BY <1>3 DEF PathOK, OnPath
    <3>2. f[0] = Root /\ Len(<<>>) = 0
      BY <3>1, WayType
    <3> QED
      BY <3>1, <3>2
  <2>2. Entered(t, s, n) = s
    BY <1>3, <2>1 DEF Entered
  <2> QED
    BY <2>2
<1>4. CASE n # UP /\ n \in DOMAIN t[s.dir].kids
  <2>1. PICK c \in Inodes : c = t[s.dir].kids[n]
    BY <1>1, <1>4, KidType
  <2>2. CASE ~(t[c].kind = "dir" /\ CanEnter(t, s, c))
    <3>1. Entered(t, s, n) = s
      BY <1>4, <2>1, <2>2 DEF Entered
    <3> QED
      BY <3>1
  <2>3. CASE t[c].kind = "dir" /\ CanEnter(t, s, c)
    <3>1. PICK f, p : OnPath(t, s, f) /\ p = s.name
      BY DEF PathOK
    <3>2. Way(t, Root, p, f) /\ f[Len(p)] = s.dir /\ \A k \in 0 .. Len(p) : CanEnter(t, s, f[k])
      BY <3>1 DEF OnPath
    <3>3. PICK q, g : q = Append(p, n) /\ g = Onto(f, Len(p) + 1, t[f[Len(p)]].kids[n])
      OBVIOUS
    <3>4. n \in DOMAIN t[f[Len(p)]].kids /\ t[f[Len(p)]].kids[n] = c
      BY <1>4, <2>1, <3>2
    <3>5. Way(t, Root, q, g) /\ Len(q) = Len(p) + 1 /\ g[Len(p) + 1] = c
      BY <1>1, <3>2, <3>3, <3>4, WayStep
    <3>6. Len(p) \in Nat /\ q \in Seq(Names)
      BY <3>2, <3>5, WayType
    <3>7. PICK r : r = Moved(s, c, q)
      OBVIOUS
    <3>8. r \in Session /\ r.user = s.user /\ r.group = s.group /\ r.dir = c /\ r.name = q
      BY <3>6, <3>7, MovedSession
    <3>9. Entered(t, s, n) = r
      BY <1>4, <2>1, <2>3, <3>1, <3>3, <3>7 DEF Entered, Moved
    <3>10. ASSUME NEW k \in 0 .. Len(q) PROVE CanEnter(t, r, g[k])
      <4>1. CASE k = Len(p) + 1
        BY <4>1, <2>3, <3>5, <3>8, EnterSame
      <4>2. CASE k # Len(p) + 1
        <5>1. k \in 0 .. Len(p) /\ k \in 0 .. Len(p) + 1
          BY <4>2, <3>5, <3>6
        <5>2. g[k] = f[k]
          BY <5>1, <4>2, <3>3 DEF Onto
        <5> QED
          BY <5>1, <5>2, <3>2, <3>8, EnterSame
      <4> QED
        BY <4>1, <4>2
    <3>11. OnPath(t, r, g)
      BY <2>3, <3>5, <3>8, <3>10 DEF OnPath
    <3> QED
      BY <3>9, <3>11 DEF PathOK
  <2> QED
    BY <2>2, <2>3
<1>5. CASE n # UP /\ n \notin DOMAIN t[s.dir].kids
  <2>1. Entered(t, s, n) = s
    BY <1>5 DEF Entered
  <2> QED
    BY <2>1
<1> QED
  BY <1>2, <1>3, <1>4, <1>5

\* The steps of Climbed and of Walked.
Climbs(g, s) ==
    /\ g[0] = s
    /\ \A k \in Nat : g[k + 1] = IF g[k].name = <<>> THEN g[k] ELSE Entered(tree, g[k], UP)

\* Climbed is the last of the steps to the root.
LEMMA ClimbedIs ==
    ASSUME tree \in Tree, NEW s \in Session
    PROVE  \E g : Climbs(g, s) /\ Climbed(s) = g[Len(s.name)]
<1> DEFINE Step(u, k) == IF k = 0 THEN s
                         ELSE IF u[k - 1].name = <<>> THEN u[k - 1]
                         ELSE Entered(tree, u[k - 1], UP)
           G == [q \in Nat \X Session |-> IF q[2].name = <<>> THEN q[2] ELSE Entered(tree, q[2], UP)]
           U == CHOOSE u : u = [k \in Nat |-> Step(u, k)]
<1>1. G \in [Nat \X Session -> Session]
  <2>1. \A q \in Nat \X Session : q[2] \in Session /\ Entered(tree, q[2], UP) \in Session
    BY EnteredType
  <2> QED
    BY <2>1
<1>2. PICK f : Recursive(f, Session, s, G)
  <2> HIDE DEF G
  <2> QED
    BY <1>1, FunctionByRecursion, Zenon
<1>3. f = [k \in Nat |-> Step(f, k)]
  <2> SUFFICES ASSUME NEW k \in Nat PROVE (IF k = 0 THEN s ELSE G[<<k - 1, f[k - 1]>>]) = Step(f, k)
    <3> HIDE DEF Step, G
    <3> QED
      BY <1>2 DEF Recursive
  <2>1. CASE k = 0
    BY <2>1
  <2>2. CASE k # 0
    <3>1. k - 1 \in Nat
      BY <2>2
    <3>2. f[k - 1] \in Session
      BY <3>1, <1>2 DEF Recursive
    <3>3. G[<<k - 1, f[k - 1]>>] =
             IF f[k - 1].name = <<>> THEN f[k - 1] ELSE Entered(tree, f[k - 1], UP)
      BY <3>1, <3>2
    <3>4. Step(f, k) = IF f[k - 1].name = <<>> THEN f[k - 1] ELSE Entered(tree, f[k - 1], UP)
      BY <2>2
    <3> HIDE DEF Step, G
    <3> QED
      BY <3>3, <3>4, <2>2
  <2> QED
    BY <2>1, <2>2
<1>4. U = [k \in Nat |-> Step(U, k)]
  <2>1. \E u : u = [k \in Nat |-> Step(u, k)]
    BY <1>3, Zenon
  <2> HIDE DEF Step
  <2> QED
    BY <2>1, Zenon
<1>5. Climbed(s) = U[Len(s.name)]
  BY DEF Climbed
<1> HIDE DEF U
<1>6. Climbs(U, s)
  <2>1. U[0] = Step(U, 0) /\ \A k \in Nat : U[k + 1] = Step(U, k + 1)
    <3> HIDE DEF Step
    <3> QED
      BY <1>4
  <2>2. ASSUME NEW k \in Nat
        PROVE  Step(U, k + 1) = IF U[k].name = <<>> THEN U[k] ELSE Entered(tree, U[k], UP)
    <3>1. k + 1 # 0 /\ (k + 1) - 1 = k
      OBVIOUS
    <3> QED
      BY <3>1
  <2>3. Step(U, 0) = s
    OBVIOUS
  <2> HIDE DEF Step
  <2> QED
    BY <2>1, <2>2, <2>3 DEF Climbs
<1> QED
  BY <1>5, <1>6

\* Climbing ends in the root directory, and nothing refuses it.
LEMMA ClimbedKeeps ==
    ASSUME TreeOK(tree), NEW s \in Session
    PROVE  /\ Climbed(s) \in Session
           /\ PathOK(tree, s) => PathOK(tree, Climbed(s)) /\ Climbed(s).name = <<>>
<1>1. tree \in Tree /\ s.name \in Seq(Names) /\ Len(s.name) \in Nat
  BY SessionParts DEF TreeOK
<1>2. PICK g : Climbs(g, s) /\ Climbed(s) = g[Len(s.name)]
  BY <1>1, ClimbedIs
<1>3. PICK L \in Nat : L = Len(s.name)
  BY <1>1
<1> DEFINE Typed == {k \in Nat : g[k] \in Session}
           Kept1 == {k \in Nat : PathOK(tree, g[k]) /\ (k <= L => Len(g[k].name) = L - k)}
<1>4. 0 \in Typed /\ \A k \in Nat : k \in Typed => k + 1 \in Typed
  <2>1. 0 \in Typed
    BY <1>2 DEF Climbs
  <2>2. ASSUME NEW k \in Nat, k \in Typed PROVE k + 1 \in Typed
    <3>1. g[k + 1] = g[k] \/ g[k + 1] = Entered(tree, g[k], UP)
      BY <1>2 DEF Climbs
    <3>2. Entered(tree, g[k], UP) \in Session
      BY <2>2, <1>1, EnteredType
    <3> QED
      BY <3>1, <3>2, <2>2
  <2> QED
    BY <2>1, <2>2
<1>5. \A k \in Nat : g[k] \in Session
  <2>1. Nat \subseteq Typed
    <3> HIDE DEF Typed
    <3> QED
      BY <1>4, SetInduction
  <2> QED
    BY <2>1
<1>6. ASSUME PathOK(tree, s) PROVE PathOK(tree, Climbed(s)) /\ Climbed(s).name = <<>>
  <2>1. 0 \in Kept1
    <3>1. g[0] = s
      BY <1>2 DEF Climbs
    <3>2. PathOK(tree, g[0]) /\ Len(g[0].name) = L
      BY <3>1, <1>3, <1>6
    <3>3. L - 0 = L
      OBVIOUS
    <3> QED
      BY <3>2, <3>3
  <2>2. ASSUME NEW k \in Nat, k \in Kept1 PROVE k + 1 \in Kept1
    <3>1. PICK r \in Session : r = g[k]
      BY <1>5
    <3>2. PathOK(tree, r) /\ (k <= L => Len(r.name) = L - k)
      BY <3>1, <2>2
    <3>3. r.name \in Seq(Names)
      BY SessionParts
    <3>4. CASE r.name = <<>>
      <4>1. g[k + 1] = r
        BY <3>1, <3>4, <1>2 DEF Climbs
      <4>2. Len(r.name) = 0
        BY <3>4
      <4>3. ~(k + 1 <= L)
        BY <4>2, <3>2, <1>3
      <4> QED
        BY <4>1, <4>3, <3>2
    <3>5. CASE r.name # <<>>
      <4>1. g[k + 1] = Entered(tree, r, UP)
        BY <3>1, <3>5, <1>2 DEF Climbs
      <4>2. PathOK(tree, g[k + 1]) /\ Len(g[k + 1].name) = Len(r.name) - 1
        BY <4>1, <3>2, <3>5, UpKeeps
      <4>3. k + 1 <= L => Len(g[k + 1].name) = L - (k + 1)
        BY <4>2, <3>2, <1>3
      <4> QED
        BY <4>2, <4>3
    <3> QED
      BY <3>4, <3>5
  <2>3. Nat \subseteq Kept1
    <3> HIDE DEF Kept1
    <3> QED
      BY <2>1, <2>2, SetInduction
  <2>4. PathOK(tree, g[L]) /\ Len(g[L].name) = L - L
    <3>1. L \in Kept1
      BY <2>3
    <3> QED
      BY <3>1
  <2>5. PICK r \in Session : r = g[L]
    BY <1>5
  <2>6. r.name \in Seq(Names) /\ Len(r.name) = 0
    BY <2>4, <2>5, SessionParts
  <2>7. r.name = <<>>
    BY <2>6, EmptySeq
  <2> QED
    BY <2>4, <2>5, <2>7, <1>2, <1>3
<1> QED
  BY <1>2, <1>3, <1>5, <1>6

\* Each step of a walk enters a directory, or stays.
Walks(g, s, path) ==
    /\ g[0] = [s |-> s, ok |-> TRUE]
    /\ \A k \in Nat : \/ g[k + 1] = g[k]
                      \/ g[k + 1].s = Entered(tree, g[k].s, path[k + 1])

Walkers == [s : Session, ok : BOOLEAN]

\* Walked is the last of the steps along a path.
LEMMA WalkedIs ==
    ASSUME tree \in Tree, NEW s \in Session, NEW path, Len(path) \in Nat
    PROVE  \E g : Walks(g, s, path) /\ Walked(s, path) = g[Len(path)].s
<1> DEFINE Next2(last, n) == LET e == Entered(tree, last.s, n)
                             IN  IF last.ok THEN [s |-> e, ok |-> e # last.s] ELSE last
           Step(u, k) == IF k = 0 THEN [s |-> s, ok |-> TRUE]
                         ELSE LET last == u[k - 1]
                                  e    == Entered(tree, last.s, path[k])
                              IN  IF last.ok THEN [s |-> e, ok |-> e # last.s] ELSE last
           G == [q \in Nat \X Walkers |-> Next2(q[2], path[q[1] + 1])]
           a == [s |-> s, ok |-> TRUE]
           U == CHOOSE u : u = [k \in Nat |-> Step(u, k)]
<1>1. G \in [Nat \X Walkers -> Walkers]
  <2> SUFFICES ASSUME NEW q \in Nat \X Walkers PROVE Next2(q[2], path[q[1] + 1]) \in Walkers
    <3> HIDE DEF Next2
    <3> QED
      OBVIOUS
  <2>1. PICK w \in Walkers : w = q[2]
    OBVIOUS
  <2>2. PICK n : n = path[q[1] + 1]
    OBVIOUS
  <2>3. w.s \in Session
    BY DEF Walkers
  <2>4. PICK e \in Session : e = Entered(tree, w.s, n)
    BY <2>3, EnteredType
  <2>5. Next2(w, n) \in Walkers
    BY <2>4 DEF Walkers
  <2> HIDE DEF Next2
  <2> QED
    BY <2>1, <2>2, <2>5
<1>2. a \in Walkers
  BY DEF Walkers
<1>3. PICK f : Recursive(f, Walkers, a, G)
  <2> HIDE DEF G, a
  <2> QED
    BY <1>1, <1>2, FunctionByRecursion, Zenon
<1>4. f = [k \in Nat |-> Step(f, k)]
  <2> SUFFICES ASSUME NEW k \in Nat PROVE (IF k = 0 THEN a ELSE G[<<k - 1, f[k - 1]>>]) = Step(f, k)
    <3> HIDE DEF Step, G, a
    <3> QED
      BY <1>3 DEF Recursive
  <2>1. CASE k = 0
    BY <2>1
  <2>2. CASE k # 0
    <3>1. k - 1 \in Nat /\ (k - 1) + 1 = k
      BY <2>2
    <3>2. f[k - 1] \in Walkers
      <4> HIDE DEF G, a
      <4> QED
        BY <3>1, <1>3 DEF Recursive
    <3>3. G[<<k - 1, f[k - 1]>>] = Next2(f[k - 1], path[k])
      <4> HIDE DEF Next2
      <4> QED
        BY <3>1, <3>2
    <3>4. Step(f, k) = Next2(f[k - 1], path[k])
      BY <2>2
    <3> HIDE DEF Step, G, a, Next2
    <3> QED
      BY <3>3, <3>4, <2>2
  <2> QED
    BY <2>1, <2>2
<1>5. U = [k \in Nat |-> Step(U, k)]
  <2>1. \E u : u = [k \in Nat |-> Step(u, k)]
    BY <1>4, Zenon
  <2> HIDE DEF Step
  <2> QED
    BY <2>1, Zenon
<1>6. Walked(s, path) = U[Len(path)].s
  BY DEF Walked
<1> HIDE DEF U
<1>7. Walks(U, s, path)
  <2>1. U[0] = Step(U, 0) /\ \A k \in Nat : U[k + 1] = Step(U, k + 1)
    <3> HIDE DEF Step
    <3> QED
      BY <1>5
  <2>2. ASSUME NEW k \in Nat
        PROVE  Step(U, k + 1) = U[k] \/ Step(U, k + 1).s = Entered(tree, U[k].s, path[k + 1])
    <3>1. k + 1 # 0 /\ (k + 1) - 1 = k
      OBVIOUS
    <3> QED
      BY <3>1
  <2>3. Step(U, 0) = [s |-> s, ok |-> TRUE]
    OBVIOUS
  <2> HIDE DEF Step
  <2> QED
    BY <2>1, <2>2, <2>3 DEF Walks
<1> QED
  BY <1>6, <1>7

\* A walk, as far as it gets, keeps the session on its path.
LEMMA WalkedKeeps ==
    ASSUME TreeOK(tree), NEW s \in Session, NEW path, Len(path) \in Nat
    PROVE  /\ Walked(s, path) \in Session
           /\ PathOK(tree, s) => PathOK(tree, Walked(s, path))
<1>1. tree \in Tree
  BY DEF TreeOK
<1>2. PICK g : Walks(g, s, path) /\ Walked(s, path) = g[Len(path)].s
  BY <1>1, WalkedIs
<1> DEFINE Good == {k \in Nat : g[k].s \in Session /\ (PathOK(tree, s) => PathOK(tree, g[k].s))}
<1>3. 0 \in Good
  BY <1>2 DEF Walks
<1>4. ASSUME NEW k \in Nat, k \in Good PROVE k + 1 \in Good
  <2>1. CASE g[k + 1] = g[k]
    BY <2>1, <1>4
  <2>2. CASE g[k + 1].s = Entered(tree, g[k].s, path[k + 1])
    <3>1. PICK r \in Session : r = g[k].s
      BY <1>4
    <3>2. PICK n : n = path[k + 1]
      OBVIOUS
    <3>3. Entered(tree, r, n) \in Session
      BY <1>1, EnteredType
    <3>4. PathOK(tree, r) => PathOK(tree, Entered(tree, r, n))
      BY EnteredKeeps
    <3> QED
      BY <2>2, <3>1, <3>2, <3>3, <3>4, <1>4
  <2> QED
    BY <2>1, <2>2, <1>2 DEF Walks
<1>5. Nat \subseteq Good
  <2> HIDE DEF Good
  <2> QED
    BY <1>3, <1>4, SetInduction
<1>6. Len(path) \in Good
  BY <1>5
<1> QED
  BY <1>2, <1>6

-----------------------------------------------------------------------------
(* The invariant of the tree and the session *)

\* A tree in which everybody may enter the root directory.
GoodTree(t) == TreeOK(t) /\ t[Root].mode = "open"

\* The session s in t: where it was not stranded, its path leads to its directory.
Placed(t, s, lost) == s \in Session /\ lost \in BOOLEAN /\ (~lost => PathOK(t, s))

\* The invariant of the tree and the session.
TreeInv ==
    GoodTree(tree) /\ Placed(tree, state, stranded) /\ hung \in BOOLEAN /\ (hung => stranded)

\* The two ways in which the commands change a tree, and the session with it.
LEMMA GrowsGood ==
    ASSUME NEW t, GoodTree(t), NEW u, TreeOK(u), Grows(t, u)
    PROVE  GoodTree(u)
<1>1. Root \in Inodes /\ t[Root].kind = "dir" /\ t[Root].mode = "open"
  BY RootInode DEF GoodTree, TreeOK
<1>2. Kept(t[Root], u[Root])
  BY <1>1 DEF Grows
<1> QED
  BY <1>1, <1>2 DEF Kept, GoodTree

LEMMA GrowsPlaced ==
    ASSUME NEW t, GoodTree(t), NEW u, Grows(t, u), NEW s, NEW lost, Placed(t, s, lost)
    PROVE  Placed(u, s, lost)
<1>1. TreeOK(t) /\ s \in Session
  BY DEF GoodTree, Placed
<1>2. PathOK(t, s) => PathOK(u, s)
  BY <1>1, GrowsPath
<1> QED
  BY <1>2 DEF Placed

\* An unlinking leaves the root and its mode.
LEMMA UnlinkedGood ==
    ASSUME NEW t, GoodTree(t), NEW d \in Inodes, NEW n \in DOMAIN t[d].kids
    PROVE  GoodTree(Unlinked(t, d, n))
<1>1. TreeOK(t) /\ t[Root].mode = "open"
  BY DEF GoodTree
<1>2. t[d].kids[n] \in Inodes /\ t[d].kids[n] # Root
  BY <1>1, KidOK
<1>3. Root \notin Below(t, t[d].kids[n]) /\ Root \in Inodes
  BY <1>1, <1>2, RootStays, RootInode
<1>4. Kept(t[Root], Unlinked(t, d, n)[Root])
  BY <1>1, <1>3, UnlinkedKept
<1>5. TreeOK(Unlinked(t, d, n))
  BY <1>1, UnlinkedKeeps
<1> QED
  BY <1>1, <1>4, <1>5 DEF Kept, GoodTree

\* A removal in the session's own directory.
LEMMA UnlinkedPlaced ==
    ASSUME NEW t, GoodTree(t), NEW s, NEW lost, Placed(t, s, lost), NEW n \in DOMAIN t[s.dir].kids
    PROVE  GoodTree(Unlinked(t, s.dir, n)) /\ Placed(Unlinked(t, s.dir, n), s, lost)
<1>1. TreeOK(t) /\ s \in Session
  BY DEF GoodTree, Placed
<1>2. PICK d \in Inodes : d = s.dir
  BY <1>1, SessionParts
<1>3. GoodTree(Unlinked(t, d, n))
  BY <1>2, UnlinkedGood
<1>4. PathOK(t, s) => PathOK(Unlinked(t, d, n), s)
  <2> SUFFICES ASSUME PathOK(t, s) PROVE PathOK(Unlinked(t, d, n), s)
    OBVIOUS
  <2>1. s.dir \notin Below(t, t[s.dir].kids[n])
    BY <1>1, NotBelowOwn
  <2>2. n \in DOMAIN t[d].kids /\ s.dir \notin Below(t, t[d].kids[n])
    BY <2>1, <1>2
  <2> QED
    BY <1>1, <2>2, UnlinkedPath
<1> QED
  BY <1>2, <1>3, <1>4 DEF Placed

\* A session at the root.
LEMMA AtPlaced ==
    ASSUME NEW t, GoodTree(t), NEW u \in Users \cup {ROOT, NOBODY}, NEW g \in Groups
    PROVE  At(u, g) \in Session /\ PathOK(t, At(u, g)) /\ Placed(t, At(u, g), FALSE)
<1>1. PICK s : s = At(u, g)
  OBVIOUS
<1>2. s \in Session /\ s.dir = Root /\ s.name = <<>>
  BY <1>1, AtIs
<1>3. PathOK(t, s)
  BY <1>2, AtPath DEF GoodTree
<1> QED
  BY <1>1, <1>2, <1>3 DEF Placed

\* The session in which the program starts is where its path leads.
LEMMA AtStartIs == AtStart \in Session /\ AtStart = At(ROOT, "root") /\ "root" \in Groups
                   /\ "user" \in Groups /\ "" \in Groups
BY AtIs DEF AtStart, Groups

LEMMA StartPlaced ==
    ASSUME NEW t, GoodTree(t)
    PROVE  Placed(t, AtStart, FALSE)
BY AtStartIs, AtPlaced

\* The tree that Format writes has an open root.
LEMMA FormattedGood == GoodTree(FormattedTree)
<1>1. FormattedTree[Root] = [Dir(AtStart, Root) EXCEPT !.kids = WithName(@, HOME, Home)]
  <2>1. PICK x : x = [Dir(AtStart, Root) EXCEPT !.kids = WithName(@, HOME, Home)]
    OBVIOUS
  <2>2. PICK y, z : /\ y = [Dir(AtStart, Root) EXCEPT !.kids = WithName(@, ROOT, RootHome)]
                    /\ z = [Dir(AtStart, Home) EXCEPT !.mode = "group"]
    OBVIOUS
  <2>3. FormattedTree = [i \in Inodes |-> CASE i = Root -> x [] i = Home -> y [] i = RootHome -> z
                                           [] OTHER -> Zeroed]
    BY <2>1, <2>2 DEF FormattedTree
  <2>4. FormattedTree[Root] = x
    BY <2>3, RootInode DEF Root, Home, RootHome
  <2> QED
    BY <2>1, <2>4
<1>2. FormattedTree[Root].mode = "open"
  BY <1>1 DEF Dir
<1> QED
  BY <1>2, FormattedOK DEF GoodTree

\* The parts of the invariant that the lemmas below work with.
LEMMA TreeInvParts ==
    ASSUME TreeInv
    PROVE  /\ GoodTree(tree) /\ TreeOK(tree) /\ tree \in Tree /\ Placed(tree, state, stranded)
           /\ state \in Session /\ state.dir \in Inodes /\ stranded \in BOOLEAN /\ hung \in BOOLEAN
           /\ (hung => stranded)
BY SessionParts DEF TreeInv, GoodTree, TreeOK, Placed

-----------------------------------------------------------------------------
(* The commands on names of the current directory *)

\* A linking in the current directory keeps the invariant's two parts.
LEMMA LinkingGood ==
    ASSUME TreeInv, NEW d \in Inodes, tree[d].kind = "dir", Free(tree) # {},
           NEW n \in Names, n \notin DOMAIN tree[d].kids,
           NEW node \in Node, node.kids = NoKids, node.kind # "free", node.kind = "dir" => node.up = d,
           NEW u, u = Linking(tree, d, n, node)
    PROVE  GoodTree(u) /\ Placed(u, state, stranded)
<1>1. GoodTree(tree) /\ TreeOK(tree) /\ Placed(tree, state, stranded)
  BY TreeInvParts
<1>2. TreeOK(u) /\ Grows(tree, u)
  BY <1>1, LinkingKeeps
<1> QED
  BY <1>1, <1>2, GrowsGood, GrowsPlaced

\* The names that are created are names.
LEMMA CreatedNames == Created \subseteq Names
BY DEF Names

\* The commands that make a directory or a file, remove one or change its mode
\* keep the invariant, one lemma for each.
LEMMA MakeDirectoryKeeps ==
    ASSUME TreeInv, NEW n \in Created, MakeDirectory(n)
    PROVE  TreeInv'
<1>1. PICK d \in Inodes : d = state.dir
  BY TreeInvParts
<1>2. PICK node : node = Dir(state, d)
  OBVIOUS
<1>3. node \in Node /\ node.kind = "dir" /\ node.kids = NoKids /\ node.up = d
  BY <1>2, TreeInvParts, DirNode
<1>4. n \in Names
  BY CreatedNames
<1>5. /\ tree[d].kind = "dir" /\ n \notin DOMAIN tree[d].kids /\ Free(tree) # {}
      /\ tree' = Linking(tree, d, n, node) /\ UNCHANGED <<state, hung, stranded>>
  BY <1>1, <1>2 DEF MakeDirectory, CanMakeDir
<1>6. GoodTree(tree') /\ Placed(tree', state, stranded)
  BY <1>3, <1>4, <1>5, LinkingGood
<1> QED
  BY <1>5, <1>6 DEF TreeInv

LEMMA NewFileKeeps ==
    ASSUME TreeInv, NEW d \in Inodes, NEW n \in Created, CanCreate(tree, d, n),
           tree' = Linking(tree, d, n, File), UNCHANGED <<state, hung, stranded>>
    PROVE  TreeInv'
<1>1. PICK node : node = File
  OBVIOUS
<1>2. node \in Node /\ node.kind # "free" /\ node.kind # "dir" /\ node.kids = NoKids
  BY <1>1, FileNode
<1>3. n \in Names
  BY CreatedNames
<1>4. /\ tree[d].kind = "dir" /\ n \notin DOMAIN tree[d].kids /\ Free(tree) # {}
      /\ tree' = Linking(tree, d, n, node)
  BY <1>1 DEF CanCreate
<1>5. GoodTree(tree') /\ Placed(tree', state, stranded)
  BY <1>2, <1>3, <1>4, LinkingGood
<1> QED
  BY <1>5 DEF TreeInv

LEMMA CreateFileKeeps ==
    ASSUME TreeInv, NEW n \in Created, CreateFile(n)
    PROVE  TreeInv'
<1>1. state.dir \in Inodes
  BY TreeInvParts
<1>2. /\ CanCreate(tree, state.dir, n) /\ tree' = Linking(tree, state.dir, n, File)
      /\ UNCHANGED <<state, hung, stranded>>
  BY DEF CreateFile
<1> QED
  BY <1>1, <1>2, NewFileKeeps

LEMMA UploadFileKeeps ==
    ASSUME TreeInv, NEW n \in Created, UploadFile(n)
    PROVE  TreeInv'
<1>1. PICK d \in Linked(tree) : CanCreate(tree, d, n) /\ tree' = Linking(tree, d, n, File)
  BY DEF UploadFile
<1>2. d \in Inodes
  BY TreeInvParts, LinkedNotFree
<1>3. UNCHANGED <<state, hung, stranded>>
  BY DEF UploadFile
<1> QED
  BY <1>1, <1>2, <1>3, NewFileKeeps

LEMMA RemovalKeeps ==
    ASSUME TreeInv, NEW n, n \in DOMAIN tree[state.dir].kids,
           tree' = Unlinked(tree, state.dir, n), UNCHANGED <<state, hung, stranded>>
    PROVE  TreeInv'
<1>1. GoodTree(tree') /\ Placed(tree', state, stranded)
  BY TreeInvParts, UnlinkedPlaced
<1> QED
  BY <1>1 DEF TreeInv

LEMMA ChangeModeKeeps ==
    ASSUME TreeInv, NEW n \in Names, NEW m \in Chmods, ChangeMode(n, m)
    PROVE  TreeInv'
<1>1. m \in Modes
  BY NameAssumption DEF Modes
<1>2. n \in DOMAIN tree[state.dir].kids /\ UNCHANGED <<state, hung, stranded>>
  BY DEF ChangeMode
<1>3. PICK i : i = tree[state.dir].kids[n]
  OBVIOUS
<1>4. tree' = [tree EXCEPT ![i].mode = m]
  BY <1>3 DEF ChangeMode
<1>5. TreeOK(tree) /\ state.dir \in Inodes /\ state \in Session /\ Root \in Inodes
  BY TreeInvParts, RootInode
<1>6. i \in Inodes /\ i # Root
  BY <1>2, <1>3, <1>5, KidOK
<1>7. TreeOK(tree') /\ tree'[Root] = tree[Root]
  <2>1. PICK u : u = [tree EXCEPT ![i].mode = m]
    OBVIOUS
  <2>2. TreeOK(u) /\ u[Root] = tree[Root]
    <3>1. TreeOK(u)
      BY <1>1, <1>5, <1>6, <2>1, ModeKeeps
    <3>2. u[Root] = tree[Root]
      <4>1. DOMAIN tree = Inodes
        BY <1>5 DEF TreeOK, Tree
      <4> QED
        BY <4>1, <1>5, <1>6, <2>1
    <3> QED
      BY <3>1, <3>2
  <2> QED
    BY <2>1, <2>2, <1>4
<1>8. PathOK(tree, state) => PathOK(tree', state)
  <2> SUFFICES ASSUME PathOK(tree, state) PROVE PathOK(tree', state)
    OBVIOUS
  <2>1. PICK u : u = [tree EXCEPT ![tree[state.dir].kids[n]].mode = m]
    OBVIOUS
  <2>2. PathOK(u, state)
    BY <2>1, <1>1, <1>2, <1>5, ModePath
  <2>3. u = tree'
    BY <2>1, <1>3, <1>4
  <2> QED
    BY <2>2, <2>3
<1>9. GoodTree(tree') /\ Placed(tree', state, stranded)
  BY <1>7, <1>8 DEF GoodTree, Placed, TreeInv
<1> QED
  BY <1>2, <1>9 DEF TreeInv

-----------------------------------------------------------------------------
(* Copy and move *)

\* A copy keeps the invariant.
LEMMA CopyEntryKeeps ==
    ASSUME TreeInv, CopyEntry
    PROVE  TreeInv'
<1>1. PICK x \in Operands : \E c \in Copies(tree, state, x[1], x[2]) : tree' = c.tree
  BY DEF CopyEntry
<1>2. PICK s, d : s = x[1] /\ d = x[2]
  OBVIOUS
<1>3. PICK c \in Copies(tree, state, s, d) : tree' = c.tree
  BY <1>1, <1>2
<1>4. TreeOK(tree) /\ state \in Session /\ GoodTree(tree) /\ Placed(tree, state, stranded)
  BY TreeInvParts
<1>5. s \in Linked(tree) /\ s # Root /\ d \in Inodes /\ tree[d].kind = "dir"
  BY <1>2, <1>4, OperandsAre
<1>6. TreeOK(c.tree) /\ Grows(tree, c.tree)
  BY <1>4, <1>5, CopiesKeep
<1>7. GoodTree(tree') /\ Placed(tree', state, stranded)
  BY <1>3, <1>4, <1>6, GrowsGood, GrowsPlaced
<1>8. UNCHANGED <<state, hung, stranded>>
  BY DEF CopyEntry
<1> QED
  BY <1>7, <1>8 DEF TreeInv

\* In a grown tree the path of a session passes no other directories.
LEMMA PathPasses ==
    ASSUME NEW t, TreeOK(t), NEW u, TreeOK(u), Grows(t, u), NEW r \in Session, PathOK(t, r),
           NEW s \in Inodes, r.dir \in Below(u, s)
    PROVE  r.dir \in Below(t, s)
<1>1. PICK f : OnPath(t, r, f)
  BY DEF PathOK
<1>2. PICK p : p = r.name
  OBVIOUS
<1>3. Way(t, Root, p, f) /\ f[Len(p)] = r.dir
  BY <1>1, <1>2 DEF OnPath
<1>4. Way(u, Root, p, f)
  BY <1>3, GrowsWay
<1>5. PICK L \in Nat : L = Len(p)
  BY <1>3, WayType
<1>6. L \in 0 .. Len(p) /\ f[L] \in Below(u, s)
  BY <1>3, <1>5
<1>7. PICK j \in 0 .. L : f[j] = s
  BY <1>4, <1>6, GonePassed
<1>8. j \in 0 .. Len(p) /\ L \in j .. Len(p)
  BY <1>5, <1>7
<1>9. f[L] \in Below(t, f[j])
  BY <1>3, <1>8, PassedBelow
<1> QED
  BY <1>3, <1>5, <1>7, <1>9

\* A move does: where it takes the current directory from under the session, that
\* is stranded.
LEMMA MoveKeeps ==
    ASSUME TreeInv, NEW x \in Operands, Move(x[1], x[2]), UNCHANGED <<state, hung>>
    PROVE  TreeInv'
<1>1. PICK s, d, p : s = x[1] /\ d = x[2] /\ p = Parent(tree, s)
  OBVIOUS
<1>2. PICK c \in Copies(tree, state, s, d) :
          \/ /\ tree' = Unlinked(c.tree, p, NameOf(tree, s))
             /\ stranded' = (stranded \/ state.dir \in Below(tree, s))
          \/ tree' = c.tree /\ stranded' = stranded
  BY <1>1 DEF Move
<1>3. TreeOK(tree) /\ state \in Session /\ GoodTree(tree) /\ Placed(tree, state, stranded)
      /\ hung \in BOOLEAN /\ stranded \in BOOLEAN /\ (hung => stranded)
  BY TreeInvParts
<1>4. s \in Linked(tree) /\ s # Root /\ d \in Inodes /\ tree[d].kind = "dir" /\ s \in Inodes
  BY <1>1, <1>3, OperandsAre
<1>5. PICK u : u = c.tree
  OBVIOUS
<1>6. TreeOK(u) /\ Grows(tree, u)
  BY <1>3, <1>4, <1>5, CopiesKeep
<1>7. GoodTree(u) /\ Placed(u, state, stranded)
  BY <1>3, <1>6, GrowsGood, GrowsPlaced
<1>8. CASE tree' = u /\ stranded' = stranded
  BY <1>3, <1>7, <1>8 DEF TreeInv
<1>9. CASE /\ tree' = Unlinked(u, p, NameOf(tree, s))
           /\ stranded' = (stranded \/ state.dir \in Below(tree, s))
  <2>1. PICK n : n = NameOf(tree, s)
    OBVIOUS
  <2>2. p \in Inodes /\ tree[p].kind = "dir" /\ n \in DOMAIN tree[p].kids /\ tree[p].kids[n] = s
    BY <1>1, <1>3, <1>4, <2>1, SourceIs
  <2>3. n \in DOMAIN u[p].kids /\ u[p].kids[n] = s
    BY <1>6, <2>2 DEF Grows
  <2>4. GoodTree(Unlinked(u, p, n))
    BY <1>7, <2>2, <2>3, UnlinkedGood
  <2>5. ~stranded' => PathOK(Unlinked(u, p, n), state)
    <3> SUFFICES ASSUME ~stranded' PROVE PathOK(Unlinked(u, p, n), state)
      OBVIOUS
    <3>1. PathOK(tree, state) /\ state.dir \notin Below(tree, s)
      BY <1>3, <1>9 DEF Placed
    <3>2. state.dir \notin Below(u, s)
      BY <3>1, <1>3, <1>4, <1>6, PathPasses
    <3>3. PathOK(u, state)
      BY <3>1, <1>3, <1>6, GrowsPath
    <3> QED
      BY <3>2, <3>3, <2>2, <2>3, <1>3, <1>6, UnlinkedPath
  <2>6. stranded' \in BOOLEAN /\ (hung => stranded')
    BY <1>3, <1>9
  <2> QED
    BY <2>1, <2>4, <2>5, <2>6, <1>3, <1>9 DEF TreeInv, Placed
<1> QED
  BY <1>2, <1>5, <1>8, <1>9

\* Every command on the tree keeps the invariant.
LEMMA TreeCommandKeeps ==
    ASSUME TreeInv, TreeCommand
    PROVE  TreeInv'
<1>1. CASE \E n \in Names : RemoveDirectory(n)
  BY <1>1, RemovalKeeps DEF RemoveDirectory
<1>2. CASE \E n \in Names : DeleteFile(n)
  BY <1>2, RemovalKeeps DEF DeleteFile
<1>3. CASE \E n \in Created : MakeDirectory(n)
  BY <1>3, MakeDirectoryKeeps
<1>4. CASE \E n \in Created : CreateFile(n)
  BY <1>4, CreateFileKeeps
<1>5. CASE \E n \in Names, m \in Chmods : ChangeMode(n, m)
  BY <1>5, ChangeModeKeeps
<1>6. CASE \E n \in Created : UploadFile(n)
  BY <1>6, UploadFileKeeps
<1>7. CASE CopyEntry
  BY <1>7, CopyEntryKeeps
<1>8. CASE MoveEntry
  BY <1>8, MoveKeeps DEF MoveEntry
<1> QED
  BY <1>1, <1>2, <1>3, <1>4, <1>5, <1>6, <1>7, <1>8 DEF TreeCommand

-----------------------------------------------------------------------------
(* The session *)

\* The paths that cd gets have a length.
LEMMA PathTypes ==
    ASSUME NEW path \in {<<>>} \cup {<<n>> : n \in Names \cup {UP}}
    PROVE  Len(path) \in Nat
OBVIOUS

\* A walk leaves the session placed.
LEMMA WalkedPlaced ==
    ASSUME GoodTree(tree), NEW s, NEW lost, Placed(tree, s, lost), NEW path, Len(path) \in Nat
    PROVE  Placed(tree, Walked(s, path), lost)
<1>1. TreeOK(tree) /\ s \in Session
  BY DEF GoodTree, Placed
<1>2. /\ Walked(s, path) \in Session
      /\ PathOK(tree, s) => PathOK(tree, Walked(s, path))
  BY <1>1, WalkedKeeps
<1> QED
  BY <1>2 DEF Placed

\* Cd keeps the invariant: its climb to the root ends unless it is stranded.
LEMMA ChangeDirectoryKeeps ==
    ASSUME TreeInv, NEW absolute \in BOOLEAN,
           NEW path \in {<<>>} \cup {<<n>> : n \in Names \cup {UP}}, ChangeDirectory(absolute, path)
    PROVE  TreeInv'
<1>1. PICK s : s = IF absolute THEN Climbed(state) ELSE state
  OBVIOUS
<1>2. PICK loops : loops = (absolute /\ s.name # <<>>)
  OBVIOUS
<1>3. /\ hung' = loops /\ state' = (IF loops THEN s ELSE Walked(s, path))
      /\ tree' = tree /\ stranded' = stranded
  BY <1>1, <1>2 DEF ChangeDirectory
<1>4. GoodTree(tree) /\ TreeOK(tree) /\ state \in Session /\ Placed(tree, state, stranded)
  BY TreeInvParts
<1>5. /\ Climbed(state) \in Session
      /\ PathOK(tree, state) => PathOK(tree, Climbed(state)) /\ Climbed(state).name = <<>>
  BY <1>4, ClimbedKeeps
<1>6. Placed(tree, s, stranded) /\ (~stranded => ~loops)
  BY <1>1, <1>2, <1>4, <1>5 DEF Placed
<1>7. Placed(tree, Walked(s, path), stranded)
  BY <1>4, <1>6, PathTypes, WalkedPlaced
<1>8. loops \in BOOLEAN
  BY <1>2
<1> QED
  BY <1>3, <1>4, <1>6, <1>7, <1>8 DEF TreeInv

\* A session that begins in a good tree is placed.
LEMMA ResetKeeps ==
    ASSUME TreeInv, NEW t, GoodTree(t), NEW u \in Users \cup {ROOT, NOBODY}, NEW g \in Groups,
           tree' = t, state' = At(u, g), stranded' = FALSE, hung' = FALSE
    PROVE  TreeInv'
<1>1. Placed(t, At(u, g), FALSE)
  BY AtPlaced
<1> QED
  BY <1>1 DEF TreeInv

\* The commands that begin, move or end a session keep the invariant.
LEMMA SessionCommandKeeps ==
    ASSUME TreeInv, SessionCommand
    PROVE  TreeInv'
<1>1. CASE ~hung /\ \E absolute \in BOOLEAN, path \in {<<>>} \cup {<<n>> : n \in Names \cup {UP}} :
               ChangeDirectory(absolute, path)
  BY <1>1, ChangeDirectoryKeeps
<1>2. CASE ~hung /\ Logout
  <2>1. /\ state' = At(NOBODY, state.group) /\ stranded' = FALSE /\ tree' = tree /\ hung' = FALSE
        /\ GoodTree(tree) /\ state.group \in Groups
    BY <1>2, TreeInvParts, SessionParts DEF Logout
  <2> QED
    BY <2>1, ResetKeeps
<1>3. CASE Restart
  <2>1. /\ state' = At(ROOT, "root") /\ stranded' = FALSE /\ tree' = tree /\ hung' = FALSE
        /\ GoodTree(tree) /\ "root" \in Groups
    BY <1>3, TreeInvParts, AtStartIs DEF Restart
  <2> QED
    BY <2>1, ResetKeeps
<1> QED
  BY <1>1, <1>2, <1>3 DEF SessionCommand

LEMMA LoginKeeps ==
    ASSUME TreeInv, NEW n \in Who, NEW pw, Login(n, pw)
    PROVE  TreeInv'
<1>1. hung' = FALSE /\ tree' = tree /\ stranded' = FALSE /\ GoodTree(tree)
  BY TreeInvParts DEF Login
<1>2. PICK g : g = IF n = ROOT THEN "root" ELSE "user"
  OBVIOUS
<1>3. g \in Groups /\ "" \in Groups /\ n \in Users \cup {ROOT, NOBODY}
  BY <1>2, AtStartIs DEF Who
<1>4. PICK path : path = <<HOME, n>>
  OBVIOUS
<1>5. Len(path) \in Nat
  BY <1>4
<1>6. CASE state' = Walked(At(n, g), path)
  <2>1. Placed(tree, At(n, g), FALSE)
    BY <1>1, <1>3, AtPlaced
  <2>2. Placed(tree, Walked(At(n, g), path), FALSE)
    BY <2>1, <1>1, <1>5, WalkedPlaced
  <2> QED
    BY <2>2, <1>1, <1>6 DEF TreeInv
<1>7. CASE state' = At(NOBODY, "")
  BY <1>1, <1>3, <1>7, ResetKeeps
<1> QED
  BY <1>2, <1>4, <1>6, <1>7 DEF Login

-----------------------------------------------------------------------------
(* Accounts *)

\* Format begins anew, and so does the program.
LEMMA FormatTree ==
    ASSUME TreeInv, Format
    PROVE  TreeInv'
<1>1. /\ tree' = FormattedTree /\ state' = At(NOBODY, state.group) /\ stranded' = FALSE
      /\ hung' = FALSE /\ state.group \in Groups
  BY TreeInvParts, SessionParts DEF Format
<1> QED
  BY <1>1, FormattedGood, ResetKeeps

LEMMA InitTree ==
    ASSUME Init
    PROVE  TreeInv
<1>1. tree = FormattedTree /\ state = AtStart /\ hung = FALSE /\ stranded = FALSE
  BY DEF Init, AdapterInit
<1> QED
  BY <1>1, FormattedGood, StartPlaced DEF TreeInv

\* AddUser grows the tree by an empty directory.
LEMMA AddedGood ==
    ASSUME TreeInv, NEW n \in Users, AddUserAllowed(n)
    PROVE  GoodTree(Added(n)) /\ Placed(Added(n), state, stranded)
<1>1. GoodTree(tree) /\ tree \in Tree
  BY TreeInvParts
<1>2. At(NOBODY, "root") \in Session /\ At(n, "user") \in Session
  BY AtStartIs, AtIs
<1>3. PICK d \in Inodes : d = HomeDir(tree, NOBODY)
  <2>1. Entered(tree, At(NOBODY, "root"), HOME) \in Session
    BY <1>1, <1>2, EnteredType
  <2> QED
    BY <2>1, SessionParts DEF HomeDir
<1>4. PICK x : x = Dir(At(n, "user"), d)
  OBVIOUS
<1>5. x \in Node /\ x.kind = "dir" /\ x.kids = NoKids /\ x.up = d
  BY <1>2, <1>3, <1>4, DirNode
<1>6. PICK node : node = [x EXCEPT !.mode = "private"]
  OBVIOUS
<1>7. node \in Node /\ node.kind = "dir" /\ node.kids = NoKids /\ node.up = d
  <2>1. "private" \in Modes
    BY DEF Modes
  <2> QED
    BY <2>1, <1>5, <1>6, WithMode
<1>8. PICK u : u = Linking(tree, d, n, node)
  OBVIOUS
<1>9. Added(n) = u
  BY <1>3, <1>4, <1>6, <1>8 DEF Added
<1>10. tree[d].kind = "dir" /\ n \notin DOMAIN tree[d].kids /\ Free(tree) # {} /\ n \in Names
  BY <1>3 DEF AddUserAllowed, CanMakeDir, Names
<1> QED
  BY <1>7, <1>8, <1>9, <1>10, LinkingGood

\* The tree that a DeleteUser leaves is good.
LEMMA RemovedGood ==
    ASSUME TreeInv, NEW n
    PROVE  GoodTree(Removed(n))
<1>1. GoodTree(tree) /\ tree \in Tree
  BY TreeInvParts
<1>2. PICK d \in Inodes : d = HomeDir(tree, ROOT)
  <2>1. At(ROOT, "root") \in Session
    BY AtStartIs
  <2>2. Entered(tree, At(ROOT, "root"), HOME) \in Session
    BY <1>1, <2>1, EnteredType
  <2> QED
    BY <2>2, SessionParts DEF HomeDir
<1>3. Removed(n) = IF n \in DOMAIN tree[d].kids /\ tree[tree[d].kids[n]].kind = "dir"
                   THEN Unlinked(tree, d, n) ELSE tree
  BY <1>2 DEF Removed
<1> QED
  BY <1>1, <1>2, <1>3, UnlinkedGood

\* Where the home directories are.
LEMMA HomeDirIs ==
    ASSUME TreeOK(tree)
    PROVE  \/ HomeDir(tree, ROOT) = Root
           \/ HOME \in DOMAIN tree[Root].kids /\ HomeDir(tree, ROOT) = tree[Root].kids[HOME]
<1>1. PICK s : s = At(ROOT, "root")
  OBVIOUS
<1>2. s.dir = Root /\ HOME # UP /\ s = [user |-> s.user, group |-> s.group, dir |-> s.dir, name |-> s.name]
  BY <1>1, NameAssumption DEF At
<1>3. PICK e : e = Entered(tree, s, HOME)
  OBVIOUS
<1>4. e = IF HOME \in DOMAIN tree[Root].kids
          THEN IF /\ tree[tree[Root].kids[HOME]].kind = "dir"
                  /\ CanEnter(tree, s, tree[Root].kids[HOME])
               THEN [s EXCEPT !.dir = tree[Root].kids[HOME], !.name = Append(s.name, HOME)] ELSE s
          ELSE s
  BY <1>2, <1>3 DEF Entered
<1>5. e.dir = Root \/ (HOME \in DOMAIN tree[Root].kids /\ e.dir = tree[Root].kids[HOME])
  <2>1. PICK j, p : j = tree[Root].kids[HOME] /\ p = Append(s.name, HOME)
    OBVIOUS
  <2>2. PICK r : r = [s EXCEPT !.dir = j, !.name = p]
    OBVIOUS
  <2>3. r.dir = j
    BY <2>2, <1>2
  <2>4. e = s \/ (HOME \in DOMAIN tree[Root].kids /\ e = r)
    BY <2>1, <2>2, <1>4, Zenon
  <2> QED
    BY <2>1, <2>3, <2>4, <1>2
<1> QED
  BY <1>1, <1>3, <1>5 DEF HomeDir

\* The way through two entries.
LEMMA WayTwo ==
    ASSUME NEW t \in Tree, NEW i \in Inodes, NEW a \in DOMAIN t[i].kids, NEW b \in DOMAIN t[t[i].kids[a]].kids
    PROVE  \E f : Way(t, i, <<a, b>>, f) /\ f[2] = t[t[i].kids[a]].kids[b]
<1>1. PICK j, k : j = t[i].kids[a] /\ k = t[j].kids[b]
  OBVIOUS
<1>2. j \in Inodes /\ a \in Names
  BY <1>1, KidType
<1>3. k \in Inodes /\ b \in Names
  BY <1>1, <1>2, KidType
<1>4. PICK p, f : p = <<a, b>> /\ f = [m \in 0 .. 2 |-> IF m = 0 THEN i ELSE IF m = 1 THEN j ELSE k]
  OBVIOUS
<1>5. p \in Seq(Names) /\ Len(p) = 2 /\ p[1] = a /\ p[2] = b
  BY <1>2, <1>3, <1>4
<1>6. f \in [0 .. 2 -> Inodes] /\ f[0] = i /\ f[1] = j /\ f[2] = k
  BY <1>1, <1>2, <1>3, <1>4
<1>7. ASSUME NEW m \in 1 .. 2 PROVE p[m] \in DOMAIN t[f[m - 1]].kids /\ t[f[m - 1]].kids[p[m]] = f[m]
  <2>1. CASE m = 1
    BY <2>1, <1>1, <1>5, <1>6
  <2>2. CASE m = 2
    BY <2>2, <1>1, <1>5, <1>6
  <2> QED
    BY <2>1, <2>2
<1>8. Way(t, i, p, f)
  BY <1>5, <1>6, <1>7 DEF Way
<1> QED
  BY <1>1, <1>4, <1>6, <1>8

\* A session below the home directory of n has a path that begins with it.
LEMMA InsideHome ==
    ASSUME NEW t, TreeOK(t), NEW s \in Session, PathOK(t, s), NEW n,
           HOME \in DOMAIN t[Root].kids, n \in DOMAIN t[t[Root].kids[HOME]].kids,
           s.dir \in Below(t, t[t[Root].kids[HOME]].kids[n])
    PROVE  IsPrefix(<<HOME, n>>, s.name)
<1>1. PICK f : OnPath(t, s, f)
  BY DEF PathOK
<1>2. PICK p : p = s.name
  OBVIOUS
<1>3. Way(t, Root, p, f) /\ f[Len(p)] = s.dir
  BY <1>1, <1>2 DEF OnPath
<1>4. PICK q : q = <<HOME, n>>
  OBVIOUS
<1>5. Root \in Inodes /\ t \in Tree
  BY RootInode DEF TreeOK
<1>6. PICK k : k = t[t[Root].kids[HOME]].kids[n]
  OBVIOUS
<1>7. PICK g : Way(t, Root, q, g) /\ g[2] = k
  BY <1>4, <1>5, <1>6, WayTwo
<1>8. Len(q) = 2 /\ k \in Inodes
  <2>1. t[Root].kids[HOME] \in Inodes
    BY <1>5, KidType
  <2> QED
    BY <2>1, <1>4, <1>5, <1>6, KidType
<1>9. PICK L \in Nat : L = Len(p)
  BY <1>3, WayType
<1>10. L \in 0 .. Len(p) /\ f[L] \in Below(t, k)
  BY <1>3, <1>6, <1>9
<1>11. PICK j \in 0 .. L : f[j] = k
  BY <1>3, <1>8, <1>10, GonePassed
<1>12. PICK r, h : r = SubSeq(p, 1, j) /\ h = Slice(f, 0, j)
  OBVIOUS
<1>13. Way(t, Root, r, h) /\ Len(r) = j /\ h[j] = f[j]
  <2>1. j \in 0 .. Len(p)
    BY <1>9, <1>11
  <2> QED
    BY <2>1, <1>3, <1>12, WayHead
<1>14. r = q
  <2>1. h[Len(r)] = g[Len(q)]
    BY <1>7, <1>8, <1>11, <1>13
  <2> QED
    BY <2>1, <1>7, <1>13, RootWays
<1>15. j = 2
  BY <1>8, <1>13, <1>14
<1>16. SubSeq(q, 1, 2) = q
  <2>1. q \in Seq(Names)
    BY <1>7, WayType
  <2> QED
    BY <2>1, <1>8, SubSeqFull
<1> QED
  BY <1>2, <1>4, <1>8, <1>9, <1>11, <1>12, <1>14, <1>15, <1>16 DEF IsPrefix

\* The removal of a home directory leaves the path of a session that is not in it.
LEMMA RemovedPath ==
    ASSUME TreeInv, NEW n, ~stranded, ~IsPrefix(<<HOME, n>>, state.name),
           HomeDir(tree, ROOT) = Root => state.dir \notin HomeOf(n)
    PROVE  PathOK(Removed(n), state)
<1>1. TreeOK(tree) /\ tree \in Tree /\ state \in Session /\ PathOK(tree, state) /\ Root \in Inodes
  BY TreeInvParts, RootInode DEF Placed
<1>2. PICK d : d = HomeDir(tree, ROOT)
  OBVIOUS
<1>3. Removed(n) = IF n \in DOMAIN tree[d].kids /\ tree[tree[d].kids[n]].kind = "dir"
                   THEN Unlinked(tree, d, n) ELSE tree
  BY <1>2 DEF Removed
<1>4. CASE ~(n \in DOMAIN tree[d].kids /\ tree[tree[d].kids[n]].kind = "dir")
  BY <1>1, <1>3, <1>4
<1>5. CASE n \in DOMAIN tree[d].kids /\ tree[tree[d].kids[n]].kind = "dir"
  <2>1. d \in Inodes
    <3>1. d = Root \/ (HOME \in DOMAIN tree[Root].kids /\ d = tree[Root].kids[HOME])
      BY <1>1, <1>2, HomeDirIs
    <3> QED
      BY <3>1, <1>1, KidType
  <2>2. state.dir \notin Below(tree, tree[d].kids[n])
    <3>1. CASE d = Root
      <4>1. HomeOf(n) = Below(tree, tree[d].kids[n])
        BY <1>2, <1>5 DEF HomeOf
      <4> QED
        BY <4>1, <3>1, <1>2
    <3>2. CASE HOME \in DOMAIN tree[Root].kids /\ d = tree[Root].kids[HOME]
      BY <3>2, <1>1, <1>5, InsideHome
    <3> QED
      BY <3>1, <3>2, <1>1, <1>2, HomeDirIs
  <2>3. PathOK(Unlinked(tree, d, n), state)
    BY <2>1, <2>2, <1>1, <1>5, UnlinkedPath
  <2> QED
    BY <2>3, <1>3, <1>5
<1> QED
  BY <1>4, <1>5

-----------------------------------------------------------------------------
(* The texts, whatever happened to them *)

\* The files are texts of tokens.
TextsOK(e) == \E u, p, g \in Seq(Tokens) : \E s \in BOOLEAN : e = Etc(u, p, g, s)

\* So is each of them alone, what is read of it, and what the operations put together.
LEMMA TextsParts ==
    ASSUME NEW e, TextsOK(e)
    PROVE  /\ e.user \in Seq(Tokens) /\ e.passwd \in Seq(Tokens) /\ e.group \in Seq(Tokens)
           /\ e.shared \in BOOLEAN /\ e = Etc(e.user, e.passwd, e.group, e.shared)
<1>1. PICK u, p, g \in Seq(Tokens) : \E s \in BOOLEAN : e = Etc(u, p, g, s)
  BY DEF TextsOK
<1>2. PICK s \in BOOLEAN : e = Etc(u, p, g, s)
  BY <1>1
<1>3. e.user = u /\ e.passwd = p /\ e.group = g /\ e.shared = s
  BY <1>2, Fields
<1> QED
  BY <1>1, <1>2, <1>3

LEMMA ReadText ==
    ASSUME NEW f \in Seq(Tokens)
    PROVE  Read(f) \in Seq(Tokens)
<1>1. CASE f = <<>>
  BY <1>1 DEF Read
<1>2. CASE f # <<>>
  <2>1. Len(f) \in Nat /\ Len(f) >= 1
    BY <1>2, EmptySeq
  <2>2. PICK m : m = ((Len(f) - 1) \div BlockLen) * BlockLen + 1
    OBVIOUS
  <2>3. m \in Nat /\ m >= 1
    <3>1. PICK k : k = (Len(f) - 1) \div BlockLen
      OBVIOUS
    <3>2. PICK b \in Nat : b = BlockLen /\ b > 0
      BY BlockLenAssumption
    <3>3. k \in Nat
      BY <2>1, <3>1, <3>2
    <3>4. k * b \in Nat
      BY <3>2, <3>3
    <3> QED
      BY <3>1, <3>2, <3>4, <2>2
  <2>4. PICK h : h = SubSeq(f, m, Len(f))
    OBVIOUS
  <2>5. h \in Seq(Tokens)
    <3>1. PICK L : L = Len(f)
      OBVIOUS
    <3>2. L \in Int /\ L <= Len(f) /\ h = SubSeq(f, m, L)
      BY <2>1, <2>4, <3>1
    <3> QED
      BY <2>3, <3>2, Part
  <2>6. Read(f) = h
    BY <1>2, <2>2, <2>4 DEF Read
  <2> QED
    BY <2>5, <2>6
<1> QED
  BY <1>1, <1>2

LEMMA CutText ==
    ASSUME NEW f \in Seq(Tokens), NEW n, Has(f, n)
    PROVE  Cut(f, n) \in Seq(Tokens)
<1>1. PICK a : a = StrStr(f, n)
  OBVIOUS
<1>2. a \in 1 .. Len(f)
  BY <1>1, StrStrFinds
<1>3. PICK e : e = Next1(f, a, LINE)
  OBVIOUS
<1>4. e \in a .. Len(f)
  BY <1>2, <1>3, NextFinds
<1>5. SubSeq(f, 1, a - 1) \o SubSeq(f, e + 1, Len(f)) \in Seq(Tokens)
  BY <1>2, <1>4, CutTokens
<1>6. Cut(f, n) = SubSeq(f, 1, a - 1) \o SubSeq(f, e + 1, Len(f))
  BY <1>1, <1>3 DEF Cut
<1> QED
  BY <1>5, <1>6

LEMMA JoinedText ==
    ASSUME NEW f \in Seq(Tokens), NEW g \in Seq(Tokens)
    PROVE  f \o g \in Seq(Tokens)
OBVIOUS

LEMMA RecordTexts ==
    ASSUME NEW n \in Who, NEW pw \in Passwords \cup {ROOT}
    PROVE  UserRecord(n) \in Seq(Tokens) /\ PasswdRecord(n, pw) \in Seq(Tokens)
<1>1. WholeLine(UserRecord(n))
  BY UserRecordIs
<1>2. WholeLine(PasswdRecord(n, pw))
  BY PasswdRecordIs
<1> QED
  BY <1>1, <1>2 DEF WholeLine, LineStart

LEMMA WithMemberText ==
    ASSUME NEW g \in Seq(Tokens), NEW n \in Who
    PROVE  WithMember(g, n) \in Seq(Tokens)
<1>1. n \in Seq(Tokens)
  BY Words
<1>2. PICK b : b = Len(g) - 1
  OBVIOUS
<1>3. PICK h : h = SubSeq(g, 1, b)
  OBVIOUS
<1>4. h \in Seq(Tokens)
  <2>1. 1 \in Nat /\ 1 >= 1 /\ b \in Int /\ b <= Len(g)
    BY <1>2
  <2> QED
    BY <2>1, <1>3, Part
<1>5. PICK c : c = IF g[b] = COLON THEN <<>> ELSE <<COMMA>>
  OBVIOUS
<1>6. c \in Seq(Tokens)
  <2>1. PICK e, m : e = <<>> /\ m = <<COMMA>>
    OBVIOUS
  <2>2. e \in Seq(Tokens) /\ m \in Seq(Tokens)
    BY <2>1, Separators
  <2> QED
    BY <2>1, <2>2, <1>5
<1>7. PICK l : l = <<LINE>>
  OBVIOUS
<1>8. l \in Seq(Tokens)
  BY <1>7, Separators
<1>9. WithMember(g, n) = h \o c \o n \o l
  BY <1>2, <1>3, <1>5, <1>7 DEF WithMember
<1>10. h \o c \in Seq(Tokens)
  BY <1>4, <1>6, JoinedText
<1>11. h \o c \o n \in Seq(Tokens)
  BY <1>1, <1>10, JoinedText
<1>12. h \o c \o n \o l \in Seq(Tokens)
  BY <1>8, <1>11, JoinedText
<1> QED
  BY <1>9, <1>12

\* So are the files that Format writes.
LEMMA FormattedTexts == TextsOK(FormattedEtc)
<1>1. PICK u, p, g : FormattedEtc = Etc(u, p, g, FALSE) /\ InStep(u, p, g)
  BY FormatInStep, Zenon
<1>2. u \in Seq(Tokens) /\ p \in Seq(Tokens) /\ g \in Seq(Tokens)
  BY <1>1 DEF InStep, Sound, Closed, GroupShape
<1> QED
  BY <1>1, <1>2 DEF TextsOK

-----------------------------------------------------------------------------
(* What the operations on accounts have written, one after the other *)

\* Every write of an AddUser leaves texts, and the tree with the new home.
LEMMA AddWrites ==
    ASSUME TextsOK(etc), NEW n \in Users, NEW pw \in Passwords, NEW w, w = AddUserWrites(n, pw)
    PROVE  /\ Len(w) \in {1, 4} /\ Last(w) = w[Len(w)]
           /\ \A k \in 1 .. Len(w) : w[k].tree = Added(n) /\ TextsOK(w[k].etc)
<1>1. /\ etc.user \in Seq(Tokens) /\ etc.passwd \in Seq(Tokens) /\ etc.group \in Seq(Tokens)
      /\ etc.shared \in BOOLEAN /\ Shaped
  BY TextsParts DEF Shaped
<1>2. PICK u, p, g : /\ u = Read(etc.user) \o UserRecord(n)
                     /\ p = Read(etc.passwd) \o PasswdRecord(n, pw)
                     /\ g = WithMember(Read(etc.group), n)
  OBVIOUS
<1>3. u \in Seq(Tokens) /\ p \in Seq(Tokens) /\ g \in Seq(Tokens)
  <2>1. n \in Who /\ pw \in Passwords \cup {ROOT}
    BY DEF Who
  <2>2. Read(etc.user) \in Seq(Tokens) /\ Read(etc.passwd) \in Seq(Tokens) /\ Read(etc.group) \in Seq(Tokens)
    BY <1>1, ReadText
  <2>3. UserRecord(n) \in Seq(Tokens) /\ PasswdRecord(n, pw) \in Seq(Tokens)
    BY <2>1, RecordTexts
  <2>4. u \in Seq(Tokens)
    BY <1>2, <2>2, <2>3, JoinedText
  <2>5. p \in Seq(Tokens)
    BY <1>2, <2>2, <2>3, JoinedText
  <2>6. g \in Seq(Tokens)
    BY <1>2, <2>1, <2>2, WithMemberText
  <2> QED
    BY <2>4, <2>5, <2>6
<1>4. PICK e2, e3, e4 : /\ e2 = Etc(u, etc.passwd, etc.group, etc.shared)
                        /\ e3 = Etc(u, p, etc.group, etc.shared) /\ e4 = Etc(u, p, g, etc.shared)
  OBVIOUS
<1>5. TextsOK(etc) /\ TextsOK(e2) /\ TextsOK(e3) /\ TextsOK(e4)
  BY <1>1, <1>3, <1>4 DEF TextsOK
<1>6. PICK t : t = Added(n) /\ AddUserWrites(n, pw) =
              IF Has(Read(etc.user), n) THEN <<Disk(t, etc)>>
              ELSE <<Disk(t, etc), Disk(t, e2), Disk(t, e3), Disk(t, e4)>>
  BY <1>1, <1>2, <1>4, AddUserWritesAre
<1>7. PICK d1, d2, d3, d4 : d1 = Disk(t, etc) /\ d2 = Disk(t, e2) /\ d3 = Disk(t, e3) /\ d4 = Disk(t, e4)
  OBVIOUS
<1>8. \A d \in {d1, d2, d3, d4} : d.tree = Added(n) /\ TextsOK(d.etc)
  BY <1>5, <1>6, <1>7, DiskIs
<1>9. w = <<d1>> \/ w = <<d1, d2, d3, d4>>
  BY <1>6, <1>7
<1>10. Len(w) \in {1, 4} /\ \A k \in 1 .. Len(w) : w[k] \in {d1, d2, d3, d4}
  BY <1>9
<1>11. Last(w) = w[Len(w)]
  BY DEF Last
<1> QED
  BY <1>8, <1>10, <1>11

\* Every write of a DeleteUser leaves texts; the last one removes the home.
LEMMA DeleteWrites ==
    ASSUME TextsOK(etc), NEW n, Has(Read(etc.user), n), NEW w, w = DeleteUserWrites(n)
    PROVE  /\ Len(w) \in {2, 3, 5} /\ Last(w) = w[Len(w)]
           /\ \A k \in 1 .. Len(w) : TextsOK(w[k].etc)
           /\ \A k \in 1 .. Len(w) : w[k].tree = IF k = 5 THEN Removed(n) ELSE tree
<1>1. /\ etc.user \in Seq(Tokens) /\ etc.passwd \in Seq(Tokens) /\ etc.group \in Seq(Tokens)
      /\ etc.shared \in BOOLEAN /\ Shaped
  BY TextsParts DEF Shaped
<1>2. PICK a, b, c : a = Read(etc.user) /\ b = Read(etc.passwd) /\ c = Read(etc.group)
  OBVIOUS
<1>3. a \in Seq(Tokens) /\ b \in Seq(Tokens) /\ c \in Seq(Tokens)
  BY <1>1, <1>2, ReadText
<1>4. PICK u, p, g : u = Cut(a, n) /\ p = Cut(b, n) /\ g = Cut(c, n)
  OBVIOUS
<1>5. u \in Seq(Tokens) /\ (Has(b, n) => p \in Seq(Tokens)) /\ (Has(c, n) => g \in Seq(Tokens))
  BY <1>2, <1>3, <1>4, CutText
<1>6. PICK e1, e2, e3, e4 : /\ e1 = Etc(u, etc.passwd, etc.group, etc.shared)
                            /\ e2 = Etc(u, etc.passwd, etc.group, TRUE)
                            /\ e3 = Etc(u, p, etc.group, FALSE) /\ e4 = Etc(u, p, g, FALSE)
  OBVIOUS
<1>7. /\ TextsOK(e1) /\ TextsOK(e2) /\ (Has(b, n) => TextsOK(e3))
      /\ (Has(b, n) /\ Has(c, n) => TextsOK(e4))
  <2>1. PICK yes, no : yes = TRUE /\ no = FALSE
    OBVIOUS
  <2>2. /\ e1 = Etc(u, etc.passwd, etc.group, etc.shared) /\ e2 = Etc(u, etc.passwd, etc.group, yes)
        /\ e3 = Etc(u, p, etc.group, no) /\ e4 = Etc(u, p, g, no) /\ yes \in BOOLEAN /\ no \in BOOLEAN
    BY <1>6, <2>1, Zenon
  <2>3. \A x, y, z \in Seq(Tokens) : \A s \in BOOLEAN : TextsOK(Etc(x, y, z, s))
    BY DEF TextsOK
  <2> QED
    BY <2>2, <2>3, <1>1, <1>5, Zenon
<1>8. PICK t : t = Removed(n) /\ DeleteUserWrites(n) =
                   IF ~Has(b, n) THEN <<Disk(tree, e1), Disk(tree, e2)>>
                   ELSE IF ~Has(c, n) THEN <<Disk(tree, e1), Disk(tree, e2), Disk(tree, e3)>>
                   ELSE <<Disk(tree, e1), Disk(tree, e2), Disk(tree, e3), Disk(tree, e4), Disk(t, e4)>>
  BY <1>1, <1>2, <1>4, <1>6, DeleteUserWritesAre, Zenon
<1>9. PICK d1, d2, d3, d4, d5 :
          /\ d1 = Disk(tree, e1) /\ d2 = Disk(tree, e2) /\ d3 = Disk(tree, e3)
          /\ d4 = Disk(tree, e4) /\ d5 = Disk(t, e4)
  OBVIOUS
<1>10. /\ d1.tree = tree /\ d2.tree = tree /\ d3.tree = tree /\ d4.tree = tree /\ d5.tree = Removed(n)
       /\ d1.etc = e1 /\ d2.etc = e2 /\ d3.etc = e3 /\ d4.etc = e4 /\ d5.etc = e4
  BY <1>8, <1>9, DiskIs
<1>11. w = IF ~Has(b, n) THEN <<d1, d2>> ELSE IF ~Has(c, n) THEN <<d1, d2, d3>> ELSE <<d1, d2, d3, d4, d5>>
  BY <1>8, <1>9, Zenon
<1>12. Last(w) = w[Len(w)]
  BY DEF Last
<1>13. CASE ~Has(b, n)
  <2>1. w = <<d1, d2>>
    BY <1>11, <1>13
  <2>2. Len(w) = 2 /\ w[1] = d1 /\ w[2] = d2 /\ \A k \in 1 .. 2 : k = 1 \/ k = 2
    BY <2>1
  <2> QED
    BY <2>2, <1>7, <1>10, <1>12
<1>14. CASE Has(b, n) /\ ~Has(c, n)
  <2>1. w = <<d1, d2, d3>>
    BY <1>11, <1>14
  <2>2. /\ Len(w) = 3 /\ w[1] = d1 /\ w[2] = d2 /\ w[3] = d3
        /\ \A k \in 1 .. 3 : k = 1 \/ k = 2 \/ k = 3
    BY <2>1
  <2> QED
    BY <2>2, <1>7, <1>10, <1>12, <1>14
<1>15. CASE Has(b, n) /\ Has(c, n)
  <2>1. w = <<d1, d2, d3, d4, d5>>
    BY <1>11, <1>15
  <2>2. /\ Len(w) = 5 /\ w[1] = d1 /\ w[2] = d2 /\ w[3] = d3 /\ w[4] = d4 /\ w[5] = d5
        /\ \A k \in 1 .. 5 : k = 1 \/ k = 2 \/ k = 3 \/ k = 4 \/ k = 5
    BY <2>1
  <2> QED
    BY <2>2, <1>7, <1>10, <1>12, <1>15
<1> QED
  BY <1>13, <1>14, <1>15

\* The tree, the session and the texts together.
DiskInv == TreeInv /\ TextsOK(etc)

\* A restart keeps the invariant, and so do the operations on accounts, whether
\* they succeed, crash or are killed.
LEMMA ResetDisk ==
    ASSUME TreeInv, NEW t, GoodTree(t), tree' = t, TextsOK(etc'), state' = AtStart, stranded' = FALSE,
           hung' = FALSE
    PROVE  DiskInv'
<1>1. AtStart = At(ROOT, "root") /\ "root" \in Groups
  BY AtStartIs
<1>2. TreeInv'
  BY <1>1, ResetKeeps
<1> QED
  BY <1>2 DEF DiskInv

LEMMA AddUserDisk ==
    ASSUME DiskInv, NEW n \in Users, NEW pw \in Passwords, AddUser(n, pw) \/ KilledInAddUser(n, pw)
    PROVE  DiskInv'
<1>1. TreeInv /\ TextsOK(etc) /\ hung = FALSE /\ AddUserAllowed(n)
  BY TreeInvParts DEF DiskInv, AddUser, KilledInAddUser, AddUserAllowed, Writing
<1>2. PICK w : w = AddUserWrites(n, pw)
  OBVIOUS
<1>3. /\ Len(w) \in {1, 4} /\ Last(w) = w[Len(w)]
      /\ \A k \in 1 .. Len(w) : w[k].tree = Added(n) /\ TextsOK(w[k].etc)
  BY <1>1, <1>2, AddWrites
<1>4. GoodTree(Added(n)) /\ Placed(Added(n), state, stranded)
  BY <1>1, AddedGood
<1>5. CASE AddUser(n, pw)
  <2>1. tree' = Last(w).tree /\ etc' = Last(w).etc /\ UNCHANGED <<state, hung, stranded>>
    BY <1>2, <1>5 DEF AddUser
  <2>2. Len(w) \in 1 .. Len(w)
    BY <1>3
  <2>3. tree' = Added(n) /\ TextsOK(etc')
    BY <2>1, <2>2, <1>3
  <2> QED
    BY <2>1, <2>3, <1>1, <1>4 DEF DiskInv, TreeInv
<1>6. CASE KilledInAddUser(n, pw)
  <2>1. PICK k \in 1 .. Len(w) - 1 : tree' = w[k].tree /\ etc' = w[k].etc
    BY <1>2, <1>6 DEF KilledInAddUser
  <2>2. k \in 1 .. Len(w)
    BY <1>3, <2>1
  <2>3. tree' = Added(n) /\ TextsOK(etc')
    BY <2>1, <2>2, <1>3
  <2>4. state' = AtStart /\ stranded' = FALSE /\ hung' = FALSE
    BY <1>1, <1>6 DEF KilledInAddUser
  <2> QED
    BY <2>3, <2>4, <1>1, <1>4, ResetDisk
<1> QED
  BY <1>5, <1>6

LEMMA DeleteUserDisk ==
    ASSUME DiskInv, NEW n, DeleteUser(n)
    PROVE  DiskInv'
<1>1. /\ TreeInv /\ TextsOK(etc) /\ hung = FALSE /\ Has(Read(etc.user), n)
      /\ stranded \in BOOLEAN /\ state \in Session
  BY TreeInvParts DEF DiskInv, DeleteUser, DeleteUserAllowed, Writing
<1>2. PICK w : w = DeleteUserWrites(n)
  OBVIOUS
<1>3. /\ \A k \in 1 .. Len(w) : TextsOK(w[k].etc)
      /\ \A k \in 1 .. Len(w) : w[k].tree = IF k = 5 THEN Removed(n) ELSE tree
  BY <1>1, <1>2, DeleteWrites
<1>4. /\ Len(w) = 5 /\ tree' = w[5].tree /\ etc' = w[5].etc
      /\ state' = (IF IsPrefix(<<HOME, n>>, state.name) THEN AtStart ELSE state)
      /\ stranded' = (~IsPrefix(<<HOME, n>>, state.name) /\
             (stranded \/ (HomeDir(tree, ROOT) = Root /\ state.dir \in HomeOf(n))))
      /\ hung' = hung
  BY <1>2 DEF DeleteUser
<1>5. tree' = Removed(n) /\ TextsOK(etc')
  <2>1. 5 \in 1 .. Len(w)
    BY <1>4
  <2> QED
    BY <2>1, <1>3, <1>4
<1>6. GoodTree(tree')
  BY <1>1, <1>5, RemovedGood
<1>7. Placed(tree', state', stranded')
  <2>1. CASE IsPrefix(<<HOME, n>>, state.name)
    <3>1. Placed(tree', AtStart, FALSE)
      BY <1>6, StartPlaced
    <3> QED
      BY <3>1, <2>1, <1>1, <1>4 DEF Placed
  <2>2. CASE ~IsPrefix(<<HOME, n>>, state.name)
    <3>1. ~stranded' => PathOK(tree', state)
      <4> SUFFICES ASSUME ~stranded' PROVE PathOK(tree', state)
        OBVIOUS
      <4>1. ~stranded /\ (HomeDir(tree, ROOT) = Root => state.dir \notin HomeOf(n))
        BY <2>2, <1>4
      <4>2. PathOK(Removed(n), state)
        BY <4>1, <2>2, <1>1, RemovedPath
      <4> QED
        BY <4>2, <1>5
    <3> QED
      BY <3>1, <2>2, <1>1, <1>4 DEF Placed
  <2> QED
    BY <2>1, <2>2
<1> QED
  BY <1>1, <1>4, <1>5, <1>6, <1>7 DEF DiskInv, TreeInv

LEMMA CutShortDisk ==
    ASSUME DiskInv, NEW n, CrashInDeleteUser(n) \/ KilledInDeleteUser(n)
    PROVE  DiskInv'
<1>1. /\ TreeInv /\ TextsOK(etc) /\ hung = FALSE /\ Has(Read(etc.user), n) /\ GoodTree(tree)
  BY TreeInvParts DEF DiskInv, CrashInDeleteUser, KilledInDeleteUser, DeleteUserAllowed, Writing
<1>2. PICK w : w = DeleteUserWrites(n)
  OBVIOUS
<1>3. /\ Len(w) \in {2, 3, 5} /\ Last(w) = w[Len(w)]
      /\ \A k \in 1 .. Len(w) : TextsOK(w[k].etc)
      /\ \A k \in 1 .. Len(w) : w[k].tree = IF k = 5 THEN Removed(n) ELSE tree
  BY <1>1, <1>2, DeleteWrites
<1>4. PICK k \in 1 .. Len(w) : k # 5 /\ tree' = w[k].tree /\ etc' = w[k].etc
  <2>1. CASE CrashInDeleteUser(n)
    <3>1. Len(w) < 5 /\ tree' = Last(w).tree /\ etc' = Last(w).etc
      BY <1>2, <2>1 DEF CrashInDeleteUser
    <3>2. PICK k : k = Len(w)
      OBVIOUS
    <3>3. k \in 1 .. Len(w) /\ k # 5 /\ Last(w) = w[k]
      BY <3>1, <3>2, <1>3
    <3> QED
      BY <3>1, <3>3
  <2>2. CASE KilledInDeleteUser(n)
    <3>1. PICK k \in 1 .. Len(w) - 1 : tree' = w[k].tree /\ etc' = w[k].etc
      BY <1>2, <2>2 DEF KilledInDeleteUser
    <3>2. k \in 1 .. Len(w) /\ k # 5
      BY <3>1, <1>3
    <3> QED
      BY <3>1, <3>2
  <2> QED
    BY <2>1, <2>2
<1>5. tree' = tree /\ TextsOK(etc')
  BY <1>3, <1>4
<1>6. state' = AtStart /\ stranded' = FALSE /\ hung' = FALSE
  BY <1>1 DEF CrashInDeleteUser, KilledInDeleteUser
<1> QED
  BY <1>1, <1>5, <1>6, ResetDisk

\* Every step keeps the invariant.
LEMMA DiskStepKeeps ==
    ASSUME DiskInv, [Next]_vars
    PROVE  DiskInv'
<1>0. TreeInv /\ TextsOK(etc)
  BY DEF DiskInv
<1>1. CASE UNCHANGED vars
  BY <1>0, <1>1 DEF vars, DiskInv, TreeInv
<1>2. CASE SessionCommand /\ UNCHANGED <<etc, faults, changes>>
  BY <1>0, <1>2, SessionCommandKeeps DEF DiskInv
<1>3. ASSUME NEW n \in Users \cup {ROOT}, NEW pw \in Passwords \cup {ROOT}, Login(n, pw)
      PROVE  DiskInv'
  <2>1. TreeInv' /\ etc' = etc
    BY <1>0, <1>3, LoginKeeps DEF Login, Who
  <2> QED
    BY <2>1, <1>0 DEF DiskInv
<1>4. CASE DiskCommand
  <2>1. CASE TreeCommand /\ UNCHANGED <<etc, faults>>
    BY <1>0, <2>1, TreeCommandKeeps DEF DiskInv
  <2>2. CASE \E n \in Users, pw \in Passwords : AddUser(n, pw) \/ KilledInAddUser(n, pw)
    BY <2>2, AddUserDisk
  <2>3. CASE \E n \in Users \cup {ROOT} :
                DeleteUser(n) \/ CrashInDeleteUser(n) \/ KilledInDeleteUser(n)
    BY <2>3, DeleteUserDisk, CutShortDisk
  <2> QED
    BY <2>1, <2>2, <2>3, <1>4 DEF DiskCommand
<1>5. CASE Format /\ changes' = 0
  <2>1. TreeInv'
    BY <1>0, <1>5, FormatTree
  <2>2. etc' = FormattedEtc
    BY <1>5 DEF Format
  <2> QED
    BY <2>1, <2>2, FormattedTexts DEF DiskInv
<1> QED
  BY <1>1, <1>2, <1>3, <1>4, <1>5 DEF Next

\* It holds at the start, and so always.
LEMMA DiskInitHolds == Init => DiskInv
BY InitTree, FormattedTexts DEF Init, DiskInv

LEMMA DiskInvariance == Spec => []DiskInv
<1>1. Init => DiskInv
  BY DiskInitHolds
<1>2. DiskInv /\ [Next]_vars => DiskInv'
  BY DiskStepKeeps
<1> QED
  BY <1>1, <1>2, PTL DEF Spec

\* The bound on the changes.
Counted == changes \in 0 .. MaxChanges

LEMMA CountedInvariance == Spec => []Counted
<1>1. Init => Counted
  BY BlockLenAssumption DEF Init, Counted
<1>2. Counted /\ [Next]_vars => Counted'
  <2> SUFFICES ASSUME Counted, [Next]_vars PROVE Counted'
    OBVIOUS
  <2>1. changes' \in {changes, 0} \/ (changes < MaxChanges /\ changes' = changes + 1)
    BY DEF Next, vars
  <2> QED
    BY <2>1, BlockLenAssumption DEF Counted
<1> QED
  BY <1>1, <1>2, PTL DEF Spec

-----------------------------------------------------------------------------

\* Together the invariants give each variable its type.
LEMMA TypeOf == DiskInv /\ IInv /\ Counted => TypeOK
<1> SUFFICES ASSUME DiskInv, IInv, Counted PROVE TypeOK
  OBVIOUS
<1>1. tree \in [Inodes -> Node] /\ state \in Session /\ hung \in BOOLEAN /\ stranded \in BOOLEAN
  BY TreeInvParts DEF DiskInv, Tree
<1>2. /\ state.user \in Users \cup {ROOT, NOBODY} /\ state.group \in Groups /\ state.dir \in Inodes
      /\ state.name \in Seq(Names)
  BY <1>1, SessionParts
<1>3. /\ etc.user \in Seq(Tokens) /\ etc.passwd \in Seq(Tokens) /\ etc.group \in Seq(Tokens)
      /\ etc.shared \in BOOLEAN
  BY TextsParts DEF DiskInv
<1>4. faults \subseteq Faults
  BY DEF IInv
<1> QED
  BY <1>1, <1>2, <1>3, <1>4 DEF TypeOK, Counted

\* Whatever ran, failed or was killed, the tree is a table of inodes, the
\* session's directory one of them, and the account files are texts.
THEOREM TypeCorrect == Spec => []TypeOK
<1> QED
  BY Invariance, DiskInvariance, CountedInvariance, TypeOf, PTL

-----------------------------------------------------------------------------
(* The path of a session *)

\* The names say which inodes a way passes.
LEMMA WaySame ==
    ASSUME NEW t, NEW i, NEW p, NEW f, Way(t, i, p, f), NEW g, Way(t, i, p, g)
    PROVE  f = g
<1>1. /\ Len(p) \in Nat /\ f \in [0 .. Len(p) -> Inodes] /\ f[0] = i
      /\ g \in [0 .. Len(p) -> Inodes] /\ g[0] = i
  BY WayType
<1>2. PICK L \in Nat : L = Len(p)
  BY <1>1
<1>3. \A k \in 1 .. L : f[k] = t[f[k - 1]].kids[p[k]] /\ g[k] = t[g[k - 1]].kids[p[k]]
  BY <1>2 DEF Way
<1> DEFINE Same == {k \in Nat : k <= L => f[k] = g[k]}
<1>4. 0 \in Same
  BY <1>1
<1>5. ASSUME NEW k \in Nat, k \in Same PROVE k + 1 \in Same
  <2> SUFFICES ASSUME k + 1 <= L PROVE f[k + 1] = g[k + 1]
    OBVIOUS
  <2>1. f[k] = g[k]
    BY <1>5, <1>2
  <2>2. PICK m : m = k + 1
    OBVIOUS
  <2>3. m \in 1 .. L /\ m - 1 = k
    BY <2>2, <1>2
  <2>4. f[m] = g[m]
    BY <2>1, <2>3, <1>3
  <2> QED
    BY <2>2, <2>4
<1>6. Nat \subseteq Same
  <2> HIDE DEF Same
  <2> QED
    BY <1>4, <1>5, SetInduction
<1>7. \A k \in 0 .. L : f[k] = g[k]
  <2> TAKE k \in 0 .. L
  <2>1. k \in Same /\ k <= L
    BY <1>2, <1>6
  <2> QED
    BY <2>1
<1> QED
  BY <1>1, <1>2, <1>7

\* What is reached from the root is where a way leads.
LEMMA RootReach ==
    ASSUME NEW t, TreeOK(t), NEW x
    PROVE  x \in Reach(t, Root) <=> \E p, f : Way(t, Root, p, f) /\ x = <<p, f[Len(p)]>>
<1>1. t \in Tree /\ Root \in Inodes
  BY RootInode DEF TreeOK
<1>2. PICK b : b = NI - 1
  OBVIOUS
<1>3. Reach(t, Root) = WaysUpto(t, Root, b)
  BY <1>1, <1>2, ReachIs
<1>4. x \in WaysUpto(t, Root, b) <=>
          \E p, f : Way(t, Root, p, f) /\ Len(p) <= b /\ x = <<p, f[Len(p)]>>
  BY WaysUptoIs
<1>5. \A p, f : Way(t, Root, p, f) => Len(p) <= b
  BY <1>2, RootShort
<1> QED
  BY <1>3, <1>4, <1>5

\* A prefix of the names of a way leads to an inode that the way passes.
LEMMA PrefixPassed ==
    ASSUME NEW t, NEW i, NEW p, NEW f, Way(t, i, p, f), NEW q, NEW g, Way(t, i, q, g), IsPrefix(q, p)
    PROVE  Len(q) \in 0 .. Len(p) /\ f[Len(q)] = g[Len(q)]
<1>1. q \in Seq(Names) /\ Len(q) \in Nat /\ Len(p) \in Nat
  BY WayType
<1>2. PICK b \in Nat : b = Len(q)
  BY <1>1
<1>3. b <= Len(p) /\ SubSeq(q, 1, b) = SubSeq(p, 1, b)
  BY <1>2 DEF IsPrefix
<1>4. SubSeq(q, 1, b) = q
  BY <1>1, <1>2, SubSeqFull
<1>5. b \in 0 .. Len(p)
  BY <1>1, <1>3
<1>6. PICK h : h = Slice(f, 0, b)
  OBVIOUS
<1>7. Way(t, i, q, h) /\ h[b] = f[b]
  <2>1. PICK r : r = SubSeq(p, 1, b)
    OBVIOUS
  <2>2. Way(t, i, r, h) /\ h[b] = f[b]
    BY <2>1, <1>5, <1>6, WayHead
  <2> QED
    BY <2>1, <2>2, <1>3, <1>4
<1>8. h = g
  BY <1>7, WaySame
<1> QED
  BY <1>2, <1>5, <1>7, <1>8

\* The invariant says what PathAgrees does.
LEMMA PathSays == TreeInv => PathAgrees
<1> SUFFICES ASSUME TreeInv PROVE PathAgrees
  OBVIOUS
<1>1. hung => stranded
  BY TreeInvParts
<1>2. ASSUME ~stranded
      PROVE  /\ <<state.name, state.dir>> \in Reach(tree, Root) /\ tree[state.dir].kind = "dir"
             /\ \A x \in Reach(tree, Root) :
                   IsStrictPrefix(x[1], state.name) => CanEnter(tree, state, x[2])
  <2>1. TreeOK(tree) /\ PathOK(tree, state)
    BY <1>2, TreeInvParts DEF Placed
  <2>2. PICK f : OnPath(tree, state, f)
    BY <2>1 DEF PathOK
  <2>3. PICK p : p = state.name
    OBVIOUS
  <2>4. /\ Way(tree, Root, p, f) /\ f[Len(p)] = state.dir /\ tree[state.dir].kind = "dir"
        /\ \A k \in 0 .. Len(p) : CanEnter(tree, state, f[k])
    BY <2>2, <2>3 DEF OnPath
  <2>5. <<p, f[Len(p)]>> \in Reach(tree, Root)
    BY <2>1, <2>4, RootReach
  <2>6. ASSUME NEW x \in Reach(tree, Root), IsStrictPrefix(x[1], p) PROVE CanEnter(tree, state, x[2])
    <3>1. PICK q, g : Way(tree, Root, q, g) /\ x = <<q, g[Len(q)]>>
      BY <2>1, RootReach
    <3>2. x[1] = q /\ x[2] = g[Len(q)]
      BY <3>1
    <3>3. IsPrefix(q, p)
      BY <2>6, <3>2 DEF IsStrictPrefix
    <3>4. Len(q) \in 0 .. Len(p) /\ f[Len(q)] = g[Len(q)]
      BY <2>4, <3>1, <3>3, PrefixPassed
    <3> QED
      BY <3>2, <3>4, <2>4
  <2> QED
    BY <2>3, <2>4, <2>5, <2>6
<1> QED
  BY <1>1, <1>2 DEF PathAgrees

\* The text of the path leads to the current directory, through directories
\* that the user may enter, whichever commands ran; only a move of the directory
\* under the session can end that, or a DeleteUser where /home is missing, so that
\* no cd is caught in its loop before.
THEOREM PathsAgree == Spec => []PathAgrees
<1>1. DiskInv => PathAgrees
  BY PathSays DEF DiskInv
<1> QED
  BY <1>1, DiskInvariance, PTL

-----------------------------------------------------------------------------
(* What a copy or a move leaves where it was *)

\* The shape of what lies below an inode, way by way.
LEMMA ShapeIs ==
    ASSUME NEW t \in Tree, NEW i \in Inodes, NEW y
    PROVE  y \in Shape(t, i) <=>
              \E p, f : Way(t, i, p, f) /\ Len(p) <= NI - 1 /\ y = <<p, t[f[Len(p)]].kind>>
<1>1. PICK b : b = NI - 1
  OBVIOUS
<1>2. Reach(t, i) = WaysUpto(t, i, b)
  BY <1>1, ReachIs
<1>3. ASSUME y \in Shape(t, i)
      PROVE  \E p, f : Way(t, i, p, f) /\ Len(p) <= b /\ y = <<p, t[f[Len(p)]].kind>>
  <2>1. PICK x \in Reach(t, i) : y = <<x[1], t[x[2]].kind>>
    BY <1>3 DEF Shape
  <2>2. PICK p, f : Way(t, i, p, f) /\ Len(p) <= b /\ x = <<p, f[Len(p)]>>
    BY <2>1, <1>2, WaysUptoIs
  <2> QED
    BY <2>1, <2>2
<1>4. ASSUME NEW p, NEW f, Way(t, i, p, f), Len(p) <= b, y = <<p, t[f[Len(p)]].kind>>
      PROVE  y \in Shape(t, i)
  <2>1. PICK x : x = <<p, f[Len(p)]>>
    OBVIOUS
  <2>2. x \in Reach(t, i)
    BY <2>1, <1>2, <1>4, WaysUptoIs
  <2>3. y = <<x[1], t[x[2]].kind>>
    BY <2>1, <1>4
  <2> QED
    BY <2>2, <2>3 DEF Shape
<1> QED
  BY <1>1, <1>3, <1>4

\* From the root no way is too long to count.
LEMMA RootShape ==
    ASSUME NEW t, TreeOK(t), NEW y
    PROVE  y \in Shape(t, Root) <=> \E p, f : Way(t, Root, p, f) /\ y = <<p, t[f[Len(p)]].kind>>
<1>1. t \in Tree /\ Root \in Inodes
  BY RootInode DEF TreeOK
<1>2. PICK b : b = NI - 1
  OBVIOUS
<1>3. y \in Shape(t, Root) <=>
          \E p, f : Way(t, Root, p, f) /\ Len(p) <= b /\ y = <<p, t[f[Len(p)]].kind>>
  BY <1>1, <1>2, ShapeIs
<1>4. \A p, f : Way(t, Root, p, f) => Len(p) <= b
  BY <1>2, RootShort
<1> QED
  BY <1>3, <1>4

\* A tree that grows loses nothing.
LEMMA GrowsShape ==
    ASSUME NEW t, TreeOK(t), NEW u, TreeOK(u), Grows(t, u)
    PROVE  Shape(t, Root) \subseteq Shape(u, Root)
<1> SUFFICES ASSUME NEW y \in Shape(t, Root) PROVE y \in Shape(u, Root)
  OBVIOUS
<1>1. PICK p, f : Way(t, Root, p, f) /\ y = <<p, t[f[Len(p)]].kind>>
  BY RootShape
<1>2. Way(u, Root, p, f)
  BY <1>1, GrowsWay
<1>3. PICK e : e = f[Len(p)]
  OBVIOUS
<1>4. e \in Linked(t)
  BY <1>1, <1>3, LinkedIs
<1>5. e \in Inodes /\ t[e].kind # "free"
  BY <1>4, LinkedNotFree
<1>6. u[e].kind = t[e].kind
  BY <1>5 DEF Grows, Kept
<1> QED
  BY <1>1, <1>2, <1>3, <1>6, RootShape

\* An inode of the tree that lies below s after the tree grew lay there before.
LEMMA LinkedPasses ==
    ASSUME NEW t, TreeOK(t), NEW u, TreeOK(u), Grows(t, u), NEW e \in Linked(t),
           NEW s \in Inodes, e \in Below(u, s)
    PROVE  e \in Below(t, s)
<1>1. PICK p, f : Way(t, Root, p, f) /\ f[Len(p)] = e
  BY LinkedIs
<1>2. Way(u, Root, p, f)
  BY <1>1, GrowsWay
<1>3. PICK L \in Nat : L = Len(p)
  BY <1>1, WayType
<1>4. L \in 0 .. Len(p) /\ f[L] \in Below(u, s)
  BY <1>1, <1>3
<1>5. PICK j \in 0 .. L : f[j] = s
  BY <1>2, <1>4, GonePassed
<1>6. j \in 0 .. Len(p) /\ L \in j .. Len(p)
  BY <1>3, <1>5
<1>7. f[L] \in Below(t, f[j])
  BY <1>1, <1>6, PassedBelow
<1> QED
  BY <1>1, <1>3, <1>5, <1>7

\* A way of at most NI - 1 names stays below its first inode.
LEMMA WayBelow ==
    ASSUME NEW t \in Tree, NEW s \in Inodes, NEW p, NEW f, Way(t, s, p, f), Len(p) <= NI - 1,
           NEW k \in 0 .. Len(p)
    PROVE  f[k] \in Below(t, s)
<1>1. Len(p) \in Nat /\ NI - 1 \in Nat
  BY WayType, RootInode
<1>2. PICK q, g : q = SubSeq(p, 1, k) /\ g = Slice(f, 0, k)
  OBVIOUS
<1>3. Way(t, s, q, g) /\ Len(q) = k /\ g[k] = f[k]
  BY <1>2, WayHead
<1>4. Len(q) <= NI - 1
  BY <1>1, <1>3
<1> QED
  BY <1>3, <1>4, BelowIs

\* What a removal leaves is what no way through the removed entry leads to.
LEMMA UnlinkedShape ==
    ASSUME NEW t, TreeOK(t), NEW u, TreeOK(u), Grows(t, u), NEW d \in Inodes, NEW n \in DOMAIN u[d].kids,
           NEW s, s = u[d].kids[n], NEW q, NEW g, Way(t, Root, q, g), g[Len(q)] = s,
           NEW y \in Shape(t, Root), y \notin Shape(Unlinked(u, d, n), Root)
    PROVE  IsPrefix(q, y[1])
<1>1. PICK p, f : Way(t, Root, p, f) /\ y = <<p, t[f[Len(p)]].kind>>
  BY RootShape
<1>2. PICK L \in Nat : L = Len(p)
  BY <1>1, WayType
<1>3. PICK v : v = Unlinked(u, d, n)
  OBVIOUS
<1>4. CASE \E k \in 0 .. L : f[k] = s
  <2>1. PICK k \in 0 .. L : f[k] = s
    BY <1>4
  <2>2. PICK r, h : r = SubSeq(p, 1, k) /\ h = Slice(f, 0, k)
    OBVIOUS
  <2>3. k \in 0 .. Len(p)
    BY <1>2
  <2>4. Way(t, Root, r, h) /\ Len(r) = k /\ h[k] = s
    BY <2>1, <2>2, <2>3, <1>1, WayHead
  <2>5. r = q
    BY <2>4, RootWays
  <2>6. q \in Seq(Names) /\ Len(q) = k
    BY <2>4, <2>5, WayType
  <2>7. SubSeq(q, 1, k) = q
    BY <2>6, SubSeqFull
  <2>8. Len(q) <= Len(p) /\ SubSeq(q, 1, Len(q)) = SubSeq(p, 1, Len(q))
    BY <2>1, <2>2, <2>5, <2>6, <2>7, <1>2
  <2> QED
    BY <2>8, <1>1 DEF IsPrefix
<1>5. CASE ~\E k \in 0 .. L : f[k] = s
  <2>1. \A k \in 0 .. Len(p) : f[k] # u[d].kids[n]
    BY <1>2, <1>5
  <2>2. Way(u, Root, p, f)
    BY <1>1, GrowsWay
  <2>3. Way(v, Root, p, f) /\ \A k \in 0 .. Len(p) : Kept(u[f[k]], v[f[k]])
    BY <2>1, <2>2, <1>3, UnlinkedWay
  <2>4. PICK e : e = f[Len(p)]
    OBVIOUS
  <2>5. v[e].kind = u[e].kind
    <3>1. Len(p) \in 0 .. Len(p)
      BY <1>2
    <3> QED
      BY <3>1, <2>3, <2>4 DEF Kept
  <2>6. e \in Linked(t)
    BY <2>4, <1>1, LinkedIs
  <2>7. e \in Inodes /\ t[e].kind # "free"
    BY <2>6, LinkedNotFree
  <2>8. u[e].kind = t[e].kind
    BY <2>7 DEF Grows, Kept
  <2>9. TreeOK(v)
    BY <1>3, UnlinkedKeeps
  <2>10. y \in Shape(v, Root)
    BY <2>3, <2>4, <2>5, <2>8, <2>9, <1>1, RootShape
  <2> QED
    BY <2>10, <1>3
<1> QED
  BY <1>4, <1>5

\* Below f[s] v is like t below s, f[i] standing for i.
Alike(t, s, P, f, v) ==
    /\ t \in Tree /\ v \in Tree /\ s \in Inodes /\ P = Below(t, s)
    /\ f \in [P -> Inodes] /\ \A i, j \in P : f[i] = f[j] => i = j
    /\ \A i \in P : /\ v[f[i]].kind = t[i].kind
                    /\ DOMAIN v[f[i]].kids = {m \in DOMAIN t[i].kids : t[i].kids[m] \in P}
                    /\ \A m \in DOMAIN v[f[i]].kids : v[f[i]].kids[m] = f[t[i].kids[m]]

\* A way below s, and its copy.
LEMMA CopyOfWay ==
    ASSUME NEW t, NEW s, NEW P, NEW f, NEW v, Alike(t, s, P, f, v),
           NEW p, NEW g, Way(t, s, p, g), Len(p) <= NI - 1
    PROVE  \E h : Way(v, f[s], p, h) /\ v[h[Len(p)]].kind = t[g[Len(p)]].kind
<1>1. p \in Seq(Names) /\ Len(p) \in Nat /\ g[0] = s
  BY WayType
<1>2. t \in Tree /\ s \in Inodes /\ P = Below(t, s) /\ f \in [P -> Inodes]
  BY DEF Alike
<1>3. \A k \in 0 .. Len(p) : g[k] \in P
  BY <1>2, WayBelow
<1>4. PICK h : h = [k \in 0 .. Len(p) |-> f[g[k]]]
  OBVIOUS
<1>5. h \in [0 .. Len(p) -> Inodes] /\ \A k \in 0 .. Len(p) : h[k] = f[g[k]]
  BY <1>2, <1>3, <1>4
<1>6. h[0] = f[s]
  BY <1>1, <1>5
<1>7. ASSUME NEW k \in 1 .. Len(p)
      PROVE  p[k] \in DOMAIN v[h[k - 1]].kids /\ v[h[k - 1]].kids[p[k]] = h[k]
  <2>1. p[k] \in DOMAIN t[g[k - 1]].kids /\ t[g[k - 1]].kids[p[k]] = g[k]
    BY DEF Way
  <2>2. k - 1 \in 0 .. Len(p) /\ k \in 0 .. Len(p)
    BY <1>1
  <2>3. PICK i, m, j : i = g[k - 1] /\ m = p[k] /\ j = g[k]
    OBVIOUS
  <2>4. i \in P /\ j \in P /\ m \in DOMAIN t[i].kids /\ t[i].kids[m] = j
    BY <2>1, <2>2, <2>3, <1>3
  <2>5. m \in DOMAIN v[f[i]].kids /\ v[f[i]].kids[m] = f[j]
    BY <2>4 DEF Alike
  <2>6. h[k - 1] = f[i] /\ h[k] = f[j]
    BY <2>2, <2>3, <1>5
  <2> QED
    BY <2>3, <2>5, <2>6
<1>8. Way(v, f[s], p, h)
  BY <1>1, <1>5, <1>6, <1>7 DEF Way
<1>9. v[h[Len(p)]].kind = t[g[Len(p)]].kind
  <2>1. Len(p) \in 0 .. Len(p)
    BY <1>1
  <2>2. h[Len(p)] = f[g[Len(p)]] /\ g[Len(p)] \in P
    BY <2>1, <1>3, <1>5
  <2> QED
    BY <2>2 DEF Alike
<1> QED
  BY <1>8, <1>9

\* A way below the copy, and what it was copied from.
LEMMA WayOfCopy ==
    ASSUME NEW t, NEW s, NEW P, NEW f, NEW v, Alike(t, s, P, f, v),
           NEW p, NEW h, Way(v, f[s], p, h)
    PROVE  \E g : Way(t, s, p, g) /\ v[h[Len(p)]].kind = t[g[Len(p)]].kind
<1>1. p \in Seq(Names) /\ Len(p) \in Nat /\ h[0] = f[s]
  BY WayType
<1>2. /\ t \in Tree /\ s \in Inodes /\ P = Below(t, s) /\ f \in [P -> Inodes]
      /\ \A i, j \in P : f[i] = f[j] => i = j
  BY DEF Alike
<1>3. s \in P /\ P \subseteq Inodes
  BY <1>2, BelowType
<1>4. PICK L \in Nat : L = Len(p)
  BY <1>1
<1>5. ASSUME NEW i \in P, NEW k \in 1 .. L, h[k - 1] = f[i]
      PROVE  /\ p[k] \in DOMAIN t[i].kids /\ t[i].kids[p[k]] \in P
             /\ h[k] = f[t[i].kids[p[k]]]
  <2>1. p[k] \in DOMAIN v[h[k - 1]].kids /\ v[h[k - 1]].kids[p[k]] = h[k]
    BY <1>4 DEF Way
  <2>2. PICK m, x : m = p[k] /\ x = h[k]
    OBVIOUS
  <2>3. m \in DOMAIN v[f[i]].kids /\ v[f[i]].kids[m] = x
    BY <2>1, <2>2, <1>5
  <2>4. m \in DOMAIN t[i].kids /\ t[i].kids[m] \in P /\ x = f[t[i].kids[m]]
    BY <2>3 DEF Alike
  <2> QED
    BY <2>2, <2>4
<1> DEFINE Good == {k \in Nat : k <= L => \E i \in P : h[k] = f[i]}
<1>6. 0 \in Good
  BY <1>1, <1>3
<1>7. ASSUME NEW k \in Nat, k \in Good PROVE k + 1 \in Good
  <2> SUFFICES ASSUME k + 1 <= L PROVE \E i \in P : h[k + 1] = f[i]
    OBVIOUS
  <2>1. PICK i \in P : h[k] = f[i]
    BY <1>4, <1>7
  <2>2. PICK m : m = k + 1
    OBVIOUS
  <2>3. m \in 1 .. L /\ m - 1 = k
    BY <2>2, <1>4
  <2>4. t[i].kids[p[m]] \in P /\ h[m] = f[t[i].kids[p[m]]]
    BY <2>1, <2>3, <1>5
  <2> QED
    BY <2>2, <2>4
<1>8. \A k \in 0 .. L : \E i \in P : h[k] = f[i]
  <2>1. Nat \subseteq Good
    <3> HIDE DEF Good
    <3> QED
      BY <1>6, <1>7, SetInduction
  <2> TAKE k \in 0 .. L
  <2>2. k \in Good /\ k <= L
    BY <2>1, <1>4
  <2> QED
    BY <2>2
<1>9. PICK g : g = [k \in 0 .. L |-> CHOOSE i \in P : h[k] = f[i]]
  OBVIOUS
<1>10. \A k \in 0 .. L : g[k] \in P /\ h[k] = f[g[k]]
  BY <1>8, <1>9
<1>11. g \in [0 .. L -> Inodes]
  BY <1>3, <1>9, <1>10
<1>12. g[0] = s
  <2>1. 0 \in 0 .. L
    BY <1>4
  <2>2. g[0] \in P /\ f[g[0]] = f[s]
    BY <2>1, <1>1, <1>10
  <2> QED
    BY <2>2, <1>2, <1>3
<1>13. ASSUME NEW k \in 1 .. L
       PROVE  p[k] \in DOMAIN t[g[k - 1]].kids /\ t[g[k - 1]].kids[p[k]] = g[k]
  <2>1. k - 1 \in 0 .. L /\ k \in 0 .. L
    BY <1>4
  <2>2. g[k - 1] \in P /\ h[k - 1] = f[g[k - 1]] /\ g[k] \in P /\ h[k] = f[g[k]]
    BY <2>1, <1>10
  <2>3. PICK i \in P : i = g[k - 1]
    BY <2>2
  <2>4. p[k] \in DOMAIN t[i].kids /\ t[i].kids[p[k]] \in P /\ h[k] = f[t[i].kids[p[k]]]
    BY <2>2, <2>3, <1>5
  <2>5. t[i].kids[p[k]] = g[k]
    BY <2>2, <2>4, <1>2
  <2> QED
    BY <2>3, <2>4, <2>5
<1>14. Way(t, s, p, g)
  BY <1>1, <1>4, <1>11, <1>12, <1>13 DEF Way
<1>15. v[h[Len(p)]].kind = t[g[Len(p)]].kind
  <2>1. L \in 0 .. L
    BY <1>4
  <2>2. h[L] = f[g[L]] /\ g[L] \in P
    BY <2>1, <1>10
  <2>3. v[f[g[L]]].kind = t[g[L]].kind
    BY <2>2 DEF Alike
  <2> QED
    BY <2>2, <2>3, <1>4
<1> QED
  BY <1>14, <1>15

\* What is alike has the same shape.
LEMMA AlikeShape ==
    ASSUME NEW t, NEW s, NEW P, NEW f, NEW v, Alike(t, s, P, f, v)
    PROVE  Shape(v, f[s]) = Shape(t, s)
<1>1. t \in Tree /\ s \in Inodes /\ v \in Tree /\ P = Below(t, s) /\ f \in [P -> Inodes]
  BY DEF Alike
<1>2. f[s] \in Inodes
  BY <1>1, BelowType
<1>3. ASSUME NEW y \in Shape(t, s) PROVE y \in Shape(v, f[s])
  <2>1. PICK p, g : Way(t, s, p, g) /\ Len(p) <= NI - 1 /\ y = <<p, t[g[Len(p)]].kind>>
    BY <1>1, ShapeIs
  <2>2. PICK h : Way(v, f[s], p, h) /\ v[h[Len(p)]].kind = t[g[Len(p)]].kind
    BY <2>1, CopyOfWay
  <2>3. y = <<p, v[h[Len(p)]].kind>>
    BY <2>1, <2>2
  <2> QED
    BY <2>1, <2>2, <2>3, <1>1, <1>2, ShapeIs
<1>4. ASSUME NEW y \in Shape(v, f[s]) PROVE y \in Shape(t, s)
  <2>1. PICK p, h : Way(v, f[s], p, h) /\ Len(p) <= NI - 1 /\ y = <<p, v[h[Len(p)]].kind>>
    BY <1>1, <1>2, ShapeIs
  <2>2. PICK g : Way(t, s, p, g) /\ v[h[Len(p)]].kind = t[g[Len(p)]].kind
    BY <2>1, WayOfCopy
  <2>3. y = <<p, t[g[Len(p)]].kind>>
    BY <2>1, <2>2
  <2> QED
    BY <2>1, <2>2, <2>3, <1>1, ShapeIs
<1> QED
  BY <1>3, <1>4

\* A whole copy of s to an inode d of the tree that does not lie below s.
WholeCopy(t, who, s, d, n, P, f, u) ==
    /\ TreeOK(t) /\ TreeOK(u) /\ Grows(t, u)
    /\ CopyOf(t, who, s, d, n, P, f) /\ CopyFacts(t, s, d, n, P, f, u)
    /\ P = Below(t, s) /\ s # Root /\ d \in Linked(t) /\ d \notin Below(t, s)

\* What is known of a whole copy.
LEMMA WholeParts ==
    ASSUME NEW t, NEW who, NEW s, NEW d, NEW n, NEW P, NEW f, NEW u, WholeCopy(t, who, s, d, n, P, f, u)
    PROVE  /\ TreeOK(t) /\ TreeOK(u) /\ t \in Tree /\ s \in Inodes /\ s # Root /\ d \in Inodes /\ s \in P
           /\ P = Below(t, s) /\ d \notin Below(u, s) /\ n \notin DOMAIN t[d].kids
           /\ n \in DOMAIN u[d].kids /\ u[d].kids[n] = f[s]
           /\ \A i \in P : i \in Inodes /\ f[i] \in Inodes /\ t[f[i]].kind = "free" /\ f[i] # s
           /\ \A i \in P : CopiedNode(t, s, d, P, f, i, u[f[i]])
<1>1. /\ TreeOK(t) /\ TreeOK(u) /\ Grows(t, u) /\ CopyOf(t, who, s, d, n, P, f)
      /\ CopyFacts(t, s, d, n, P, f, u) /\ P = Below(t, s) /\ s # Root /\ d \in Linked(t)
      /\ d \notin Below(t, s)
  BY DEF WholeCopy
<1>2. t \in Tree /\ s \in Linked(t) /\ d \in Inodes /\ n \notin DOMAIN t[d].kids
  BY <1>1 DEF TreeOK, CopyOf
<1>3. s \in Inodes /\ t[s].kind # "free"
  BY <1>1, <1>2, LinkedNotFree
<1>4. s \in P
  BY <1>1, <1>2, <1>3, BelowType
<1>5. d \notin Below(u, s)
  BY <1>1, <1>3, LinkedPasses
<1>6. n \in DOMAIN u[d].kids /\ u[d].kids[n] = f[s]
  BY <1>1, <1>4 DEF CopyFacts
<1>7. \A i \in P : i \in Inodes /\ f[i] \in Inodes /\ t[f[i]].kind = "free"
  BY <1>1, CopyNodeIs
<1>8. \A i \in P : f[i] # s
  BY <1>3, <1>7
<1>9. \A i \in P : CopiedNode(t, s, d, P, f, i, u[f[i]])
  BY <1>1 DEF CopyFacts
<1> QED
  BY <1>1, <1>2, <1>3, <1>4, <1>5, <1>6, <1>7, <1>8, <1>9

\* What was copied does not go with the source.
LEMMA CopyNotGone ==
    ASSUME NEW t, NEW who, NEW s, NEW d, NEW n, NEW P, NEW f, NEW u, WholeCopy(t, who, s, d, n, P, f, u),
           NEW i \in P
    PROVE  f[i] \notin Below(u, s)
<1>1. /\ TreeOK(u) /\ t \in Tree /\ s \in Inodes /\ d \in Inodes /\ s \in P
      /\ P = Below(t, s) /\ d \notin Below(u, s) /\ n \in DOMAIN u[d].kids /\ u[d].kids[n] = f[s]
      /\ \A j \in P : f[j] \in Inodes /\ f[j] # s
      /\ \A j \in P : CopiedNode(t, s, d, P, f, j, u[f[j]])
  BY WholeParts
<1>2. PICK p, h : Way(t, s, p, h) /\ Len(p) <= NI - 1 /\ h[Len(p)] = i
  BY <1>1, BelowIs
<1>3. PICK L \in Nat : L = Len(p)
  BY <1>2, WayType
<1>4. \A k \in 0 .. L : h[k] \in P
  BY <1>1, <1>2, <1>3, WayBelow
<1> DEFINE Stays == {k \in Nat : k <= L => f[h[k]] \notin Below(u, s)}
<1>5. 0 \in Stays
  <2>1. f[s] \notin Below(u, s)
    BY <1>1, GoneUp
  <2>2. h[0] = s
    BY <1>2, WayType
  <2> QED
    BY <2>1, <2>2
<1>6. ASSUME NEW k \in Nat, k \in Stays PROVE k + 1 \in Stays
  <2> SUFFICES ASSUME k + 1 <= L PROVE f[h[k + 1]] \notin Below(u, s)
    OBVIOUS
  <2>1. PICK m : m = k + 1
    OBVIOUS
  <2>2. m \in 1 .. L /\ m - 1 = k /\ m \in 0 .. L /\ k \in 0 .. L
    BY <2>1, <1>3
  <2>3. PICK e, x, j : e = h[k] /\ x = p[m] /\ j = h[m]
    OBVIOUS
  <2>4. e \in P /\ j \in P /\ f[e] \notin Below(u, s)
    BY <2>2, <2>3, <1>3, <1>4, <1>6
  <2>5. x \in DOMAIN t[e].kids /\ t[e].kids[x] = j
    BY <2>2, <2>3, <1>2, <1>3 DEF Way
  <2>6. x \in DOMAIN u[f[e]].kids /\ u[f[e]].kids[x] = f[j]
    BY <2>4, <2>5, <1>1 DEF CopiedNode
  <2>7. f[e] \in Inodes /\ f[j] # s
    BY <2>4, <1>1
  <2>8. f[j] \notin Below(u, s)
    BY <2>4, <2>6, <2>7, <1>1, GoneUp
  <2> QED
    BY <2>1, <2>3, <2>8
<1>7. L \in Stays
  <2>1. Nat \subseteq Stays
    <3> HIDE DEF Stays
    <3> QED
      BY <1>5, <1>6, SetInduction
  <2> QED
    BY <2>1, <1>3
<1> QED
  BY <1>2, <1>3, <1>7

\* A whole copy stands as the source did when that has been removed.
LEMMA CopyStands ==
    ASSUME NEW t, NEW who, NEW s, NEW d, NEW n, NEW P, NEW f, NEW u, WholeCopy(t, who, s, d, n, P, f, u),
           NEW p \in Inodes, t[p].kind = "dir", n \in DOMAIN t[p].kids, t[p].kids[n] = s,
           NEW v, v = Unlinked(u, p, n)
    PROVE  n \in DOMAIN v[d].kids /\ Shape(v, v[d].kids[n]) = Shape(t, s)
<1>1. /\ TreeOK(u) /\ t \in Tree /\ s \in Inodes /\ d \in Inodes /\ s \in P
      /\ P = Below(t, s) /\ d \notin Below(u, s) /\ n \notin DOMAIN t[d].kids
      /\ n \in DOMAIN u[d].kids /\ u[d].kids[n] = f[s]
      /\ \A i \in P : i \in Inodes /\ f[i] \in Inodes /\ t[f[i]].kind = "free"
      /\ \A i \in P : CopiedNode(t, s, d, P, f, i, u[f[i]])
  BY WholeParts
<1>2. n \in DOMAIN u[p].kids /\ u[p].kids[n] = s
  BY DEF WholeCopy, Grows
<1>3. PICK gone : gone = Below(u, u[p].kids[n])
  OBVIOUS
<1>4. v \in Tree /\ \A e \in Inodes : e \notin gone /\ e # p => v[e] = u[e]
  BY <1>1, <1>2, <1>3, UnlinkedIs
<1>5. v[d] = u[d]
  BY <1>1, <1>2, <1>3, <1>4
<1>6. \A i \in P : v[f[i]] = u[f[i]]
  <2> TAKE i \in P
  <2>1. f[i] \notin gone
    BY <1>2, <1>3, CopyNotGone
  <2>2. f[i] \in Inodes /\ f[i] # p
    BY <1>1
  <2> QED
    BY <2>1, <2>2, <1>4
<1>7. Alike(t, s, P, f, v)
  <2>1. f \in [P -> Inodes] /\ \A i, j \in P : f[i] = f[j] => i = j
    <3>1. f \in [P -> Free(t)] /\ \A i, j \in P : f[i] = f[j] => i = j
      BY DEF WholeCopy, CopyOf
    <3>2. Free(t) \subseteq Inodes
      BY DEF Free
    <3> QED
      BY <3>1, <3>2
  <2>2. \A i \in P : /\ v[f[i]].kind = t[i].kind
                     /\ DOMAIN v[f[i]].kids = {m \in DOMAIN t[i].kids : t[i].kids[m] \in P}
                     /\ \A m \in DOMAIN v[f[i]].kids : v[f[i]].kids[m] = f[t[i].kids[m]]
    <3> TAKE i \in P
    <3>1. CopiedNode(t, s, d, P, f, i, u[f[i]]) /\ v[f[i]] = u[f[i]]
      BY <1>1, <1>6
    <3> QED
      BY <3>1 DEF CopiedNode
  <2> QED
    BY <2>1, <2>2, <1>1, <1>4 DEF Alike
<1>8. Shape(v, f[s]) = Shape(t, s)
  BY <1>7, AlikeShape
<1> QED
  BY <1>1, <1>5, <1>8

-----------------------------------------------------------------------------
(* Nothing is lost by a copy or a move *)

\* What NothingLost says of the operands s and d.
LostOnly(s, d) ==
    LET from == CHOOSE x \in Reach(tree, Root) : x[2] = s
    IN  /\ \A x \in Lost : IsPrefix(from[1], x[1])
        /\ NameOf(tree, s) \in DOMAIN tree'[d].kids
        /\ Shape(tree', tree'[d].kids[NameOf(tree, s)]) = Shape(tree, s)

\* A tree that grew has lost nothing.
LEMMA GrownLostNothing ==
    ASSUME TreeOK(tree), NEW u, TreeOK(u), Grows(tree, u), tree' = u
    PROVE  Lost = {}
BY GrowsShape DEF Lost

\* The two parts of a pair.
LEMMA PairParts == ASSUME NEW a, NEW b, NEW x, x = <<a, b>> PROVE x[1] = a /\ x[2] = b
OBVIOUS

\* A linked inode is among what the root reaches, and what is found there is a
\* way from the root.
LEMMA ReachHas ==
    ASSUME NEW t, TreeOK(t), NEW s \in Linked(t)
    PROVE  \E x \in Reach(t, Root) : x[2] = s
<1>1. PICK p, f : Way(t, Root, p, f) /\ f[Len(p)] = s
  BY LinkedIs
<1>2. PICK x : x = <<p, f[Len(p)]>>
  OBVIOUS
<1> QED
  BY <1>1, <1>2, RootReach, PairParts

\* What the root reaches lies at the end of a way.
LEMMA WhereFrom ==
    ASSUME NEW t, TreeOK(t), NEW x \in Reach(t, Root)
    PROVE  \E g : Way(t, Root, x[1], g) /\ g[Len(x[1])] = x[2]
<1>1. PICK q, g : Way(t, Root, q, g) /\ x = <<q, g[Len(q)]>>
  BY RootReach
<1>2. x[1] = q /\ x[2] = g[Len(q)]
  BY <1>1, PairParts
<1> QED
  BY <1>1, <1>2

\* A copy loses nothing.
LEMMA CopyLosesNothing ==
    ASSUME TreeInv, CopyEntry
    PROVE  Lost = {}
<1>1. PICK x \in Operands : \E c \in Copies(tree, state, x[1], x[2]) : tree' = c.tree
  BY DEF CopyEntry
<1>2. PICK s, d : s = x[1] /\ d = x[2]
  OBVIOUS
<1>3. PICK c \in Copies(tree, state, s, d) : tree' = c.tree
  BY <1>1, <1>2
<1>4. TreeOK(tree) /\ state \in Session
  BY TreeInvParts
<1>5. s \in Linked(tree) /\ s # Root /\ d \in Inodes /\ tree[d].kind = "dir"
  BY <1>2, <1>4, OperandsAre
<1>6. TreeOK(c.tree) /\ Grows(tree, c.tree)
  BY <1>4, <1>5, CopiesKeep
<1> QED
  BY <1>3, <1>4, <1>6, GrownLostNothing

\* A move loses nothing, or only the source, which then stands under the target.
LEMMA MoveLosesNothing ==
    ASSUME TreeInv, NEW x \in Operands, Move(x[1], x[2])
    PROVE  Lost = {} \/ LostOnly(x[1], x[2])
<1>1. PICK s, d, p : s = x[1] /\ d = x[2] /\ p = Parent(tree, s)
  OBVIOUS
<1>2. PICK c \in Copies(tree, state, s, d) :
          \/ c.whole /\ tree' = Unlinked(c.tree, p, NameOf(tree, s))
          \/ tree' = c.tree
  BY <1>1 DEF Move
<1>3. TreeOK(tree) /\ state \in Session
  BY TreeInvParts
<1>4. /\ s \in Linked(tree) /\ s # Root /\ d \in Inodes /\ tree[d].kind = "dir" /\ s \in Inodes
      /\ d \in Linked(tree) /\ d \notin Below(tree, s)
  BY <1>1, <1>3, OperandsAre
<1>5. PICK u, n : u = c.tree /\ n = NameOf(tree, s)
  OBVIOUS
<1>6. TreeOK(u) /\ Grows(tree, u)
  BY <1>3, <1>4, <1>5, CopiesKeep
<1>7. CASE tree' = u
  BY <1>3, <1>6, <1>7, GrownLostNothing
<1>8. CASE c.whole /\ tree' = Unlinked(u, p, n)
  <2>1. PICK P, f : WholeCopy(tree, state, s, d, n, P, f, u)
    <3>1. PICK P, f : /\ CopyOf(tree, state, s, d, n, P, f) /\ CopyFacts(tree, s, d, n, P, f, u)
                      /\ P = Below(tree, s)
      <4>1. \/ c.tree = tree /\ c.whole = FALSE
            \/ \E P, f : /\ CopyOf(tree, state, s, d, NameOf(tree, s), P, f)
                         /\ CopyFacts(tree, s, d, NameOf(tree, s), P, f, c.tree)
                         /\ c.whole <=> P = Below(tree, s)
        BY <1>3, <1>4, CopiesAre
      <4>2. c.whole # FALSE /\ c.whole
        BY <1>8
      <4> QED
        BY <4>1, <4>2, <1>5
    <3> QED
      BY <3>1, <1>3, <1>4, <1>6 DEF WholeCopy
  <2>2. p \in Inodes /\ tree[p].kind = "dir" /\ n \in DOMAIN tree[p].kids /\ tree[p].kids[n] = s
    BY <1>1, <1>3, <1>4, <1>5, SourceIs
  <2>3. n \in DOMAIN tree'[d].kids /\ Shape(tree', tree'[d].kids[n]) = Shape(tree, s)
    <3>1. PICK v : v = Unlinked(u, p, n)
      OBVIOUS
    <3>2. n \in DOMAIN v[d].kids /\ Shape(v, v[d].kids[n]) = Shape(tree, s)
      BY <2>1, <2>2, <3>1, CopyStands
    <3> QED
      BY <3>1, <3>2, <1>8
  <2>4. n \in DOMAIN u[p].kids /\ s = u[p].kids[n]
    BY <2>2, <1>6 DEF Grows
  <2>5. PICK from : from = CHOOSE y \in Reach(tree, Root) : y[2] = s
    OBVIOUS
  <2>6. PICK q, g : q = from[1] /\ Way(tree, Root, q, g) /\ g[Len(q)] = s
    <3>1. \E y \in Reach(tree, Root) : y[2] = s
      BY <1>3, <1>4, ReachHas
    <3>2. from \in Reach(tree, Root) /\ from[2] = s
      BY <2>5, <3>1
    <3>3. PICK g : Way(tree, Root, from[1], g) /\ g[Len(from[1])] = from[2]
      BY <3>2, <1>3, WhereFrom
    <3> QED
      BY <3>2, <3>3
  <2>7. \A y \in Lost : IsPrefix(from[1], y[1])
    <3> TAKE y \in Lost
    <3>1. y \in Shape(tree, Root) /\ y \notin Shape(Unlinked(u, p, n), Root)
      BY <1>8 DEF Lost
    <3>2. IsPrefix(q, y[1])
      BY <3>1, <2>2, <2>4, <2>6, <1>3, <1>6, UnlinkedShape
    <3> QED
      BY <3>2, <2>6
  <2>8. LostOnly(s, d)
    BY <2>3, <2>5, <2>7, <1>5 DEF LostOnly
  <2> QED
    BY <2>8, <1>1
<1> QED
  BY <1>2, <1>5, <1>7, <1>8

\* Whatever a copy or a move did not leave where it was is the whole of one
\* source, which stands under the target as it was.
THEOREM MovesLoseNothing == Spec => NothingLost
<1>1. TreeInv /\ [Next]_vars =>
          [tree' # tree /\ Lost # {} /\ (CopyEntry \/ MoveEntry) =>
               \E operands \in Operands : LostOnly(operands[1], operands[2])]_vars
  <2> SUFFICES ASSUME TreeInv, Lost # {}, CopyEntry \/ MoveEntry
               PROVE  \E operands \in Operands : LostOnly(operands[1], operands[2])
    OBVIOUS
  <2>1. PICK x \in Operands : Move(x[1], x[2])
    BY CopyLosesNothing DEF MoveEntry
  <2>2. LostOnly(x[1], x[2])
    BY <2>1, MoveLosesNothing
  <2> QED
    BY <2>2
<1>2. DiskInv => TreeInv
  BY DEF DiskInv
<1> QED
  BY <1>1, <1>2, DiskInvariance, PTL DEF Spec, NothingLost, LostOnly

-----------------------------------------------------------------------------
(* The theorems *)

\* Passwd stays a copy of user only where a DeleteUser was killed, or crashed
\* after some other fault.
THEOREM PasswdKept == Spec => []PasswdFileKept
<1> QED
  BY Invariance, IInvSays, PTL

\* As long as no operation was cut short and no name was found inside another,
\* user and passwd have one line for each account, the same accounts, and the
\* members of the group are among them.
THEOREM FilesAgree == Spec => []FilesInStep
<1> QED
  BY Invariance, IInvSays, PTL

\* An operation that succeeds on one account leaves the entries of the others.
THEOREM OthersUntouched == Spec => OthersKept
<1> QED
  BY Invariance, StepKeeps, PTL DEF Spec, OthersKept
=============================================================================
