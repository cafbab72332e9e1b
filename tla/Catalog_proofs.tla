----------------------------- MODULE Catalog_proofs -----------------------------
(***************************************************************************)
(* Theorems about Catalog, for any channels, sites, answers and prices,    *)
(* any number of batches and loads and any order of their steps.  In a     *)
(* section of their own the theorems about TaskStream, the streams that    *)
(* show how far a task is, the probe of Catalog among them.                *)
(***************************************************************************)
EXTENDS Catalog, TaskStream, FiniteSetTheorems, SequenceTheorems, WellFoundedInduction, TLAPS

-------------------------------------------------------------------------------
(* Sequences and functions *)

\* A claim about all numbers is proved from the least one that it would fail for.
LEMMA LeastNumber ==
  ASSUME NEW S, S \subseteq Nat, S # {}
  PROVE  \E x \in S : \A y \in S : x <= y
<1>. DEFINE R == OpToRel(<, Nat)
<1>1. IsWellFoundedOn(R, Nat) BY NatLessThanWellFounded
<1>2. \A x, y \in Nat : <<x, y>> \in R <=> x < y BY DEF OpToRel
<1>. HIDE DEF R
<1>3. PICK x \in S : \A y \in S : <<y, x>> \notin R BY <1>1, WFMin
<1>4. \A y \in S : x \in Nat /\ y \in Nat /\ ~(y < x) BY <1>2, <1>3
<1>5. \A y \in S : x <= y BY <1>4
<1>. QED BY <1>5

LEMMA WithFacts ==
  ASSUME NEW f, NEW x, NEW v
  PROVE  /\ DOMAIN With(f, x, v) = DOMAIN f \cup {x}
         /\ With(f, x, v)[x] = v
         /\ \A y \in DOMAIN f : y # x => With(f, x, v)[y] = f[y]
BY DEF With

LEMMA LessFacts ==
  ASSUME NEW f, NEW xs
  PROVE  /\ DOMAIN Less(f, xs) = DOMAIN f \ xs
         /\ \A y \in DOMAIN f \ xs : Less(f, xs)[y] = f[y]
BY DEF Less

\* x stands before y in s.
Before(s, x, y) == \E i, j \in DOMAIN s : i < j /\ s[i] = x /\ s[j] = y

\* The first n elements of seq that are in set, in their order.
KeptTo(seq, set, n, g) ==
  /\ g \in Seq({seq[i] : i \in 1..n} \cap set)
  /\ \A i \in 1..n : seq[i] \in set => \E p \in DOMAIN g : g[p] = seq[i]
  /\ \A p, q \in DOMAIN g : p < q =>
       \E i, j \in 1..n : i < j /\ seq[i] = g[p] /\ seq[j] = g[q]

Keeps(seq, set, k, g) ==
  g = [n \in 0..k |-> IF n = 0 THEN <<>>
                      ELSE IF seq[n] \in set THEN Append(g[n - 1], seq[n]) ELSE g[n - 1]]

LEMMA KeepsGoOn ==
  ASSUME NEW seq, NEW set, NEW k \in Nat
  PROVE  \E g : Keeps(seq, set, k, g)
<1>. DEFINE Open == {i \in Nat : ~ \E g : Keeps(seq, set, i, g)}
<1>1. SUFFICES ASSUME Open # {} PROVE FALSE OBVIOUS
<1>2. PICK i \in Open : \A y \in Open : i <= y
  <2>1. Open \subseteq Nat OBVIOUS
  <2>. HIDE DEF Open
  <2>. QED BY <1>1, <2>1, LeastNumber
<1>3. i \in Nat /\ ~ \E g : Keeps(seq, set, i, g) BY <1>2
<1>4. CASE i = 0
  <2>1. Keeps(seq, set, 0, [n \in 0..0 |-> <<>>]) BY DEF Keeps
  <2>. QED BY <1>3, <1>4, <2>1
<1>5. CASE i # 0
  <2>1. i - 1 \in Nat /\ ~(i <= i - 1) BY <1>3, <1>5
  <2>2. i - 1 \notin Open BY <1>2, <2>1
  <2>3. PICK g : Keeps(seq, set, i - 1, g) BY <2>1, <2>2
  <2>. DEFINE last1 == IF seq[i] \in set THEN Append(g[i - 1], seq[i]) ELSE g[i - 1]
              h == [n \in 0..i |-> IF n = i THEN last1 ELSE g[n]]
  <2>4. \A n \in 0..(i - 1) : g[n] = IF n = 0 THEN <<>>
          ELSE IF seq[n] \in set THEN Append(g[n - 1], seq[n]) ELSE g[n - 1]
    BY <2>3 DEF Keeps
  <2>5. \A n \in 0..i : h[n] = IF n = 0 THEN <<>>
          ELSE IF seq[n] \in set THEN Append(h[n - 1], seq[n]) ELSE h[n - 1]
    <3>1. ASSUME NEW n \in 0..i, n # i PROVE h[n] = g[n] /\ n \in 0..(i - 1) BY <1>3, <3>1
    <3>2. ASSUME NEW n \in 0..i, n # 0 PROVE n - 1 \in 0..i /\ n - 1 # i BY <1>3, <3>2
    <3>3. h[i] = last1 BY <1>3
    <3>. HIDE DEF h
    <3>4. ASSUME NEW n \in 0..i, n # 0 PROVE h[n - 1] = g[n - 1] BY <3>1, <3>2, <3>4
    <3>5. \A n \in 0..i : n # i =>
            h[n] = IF n = 0 THEN <<>>
                   ELSE IF seq[n] \in set THEN Append(h[n - 1], seq[n]) ELSE h[n - 1]
      BY <2>4, <3>1, <3>4
    <3>6. h[i] = IF seq[i] \in set THEN Append(h[i - 1], seq[i]) ELSE h[i - 1]
      BY <1>3, <1>5, <3>3, <3>4
    <3>. QED BY <1>5, <3>5, <3>6
  <2>6. h = [n \in 0..i |-> h[n]] OBVIOUS
  <2>. HIDE DEF h
  <2>7. Keeps(seq, set, i, h) BY <2>5, <2>6 DEF Keeps
  <2>. QED BY <1>3, <2>7
<1>. QED BY <1>4, <1>5

LEMMA KeptStarts == ASSUME NEW seq, NEW set PROVE KeptTo(seq, set, 0, <<>>)
BY DEF KeptTo

LEMMA KeptTakes ==
  ASSUME NEW seq, NEW set, NEW n \in Nat \ {0}, NEW g, KeptTo(seq, set, n - 1, g), seq[n] \in set
  PROVE  KeptTo(seq, set, n, Append(g, seq[n]))
<1>. DEFINE S == {seq[i] : i \in 1..n} \cap set
            h == Append(g, seq[n])
<1>1. \A i \in 1..n : i = n \/ i \in 1..(n - 1) OBVIOUS
<1>2. \A i \in 1..(n - 1) : i \in 1..n /\ i < n OBVIOUS
<1>3. g \in Seq({seq[i] : i \in 1..(n - 1)} \cap set) BY DEF KeptTo
<1>4. {seq[i] : i \in 1..(n - 1)} \cap set \subseteq S /\ seq[n] \in S BY <1>2
<1>5. g \in Seq(S) BY <1>3, <1>4
<1>. HIDE DEF S
<1>6. /\ h \in Seq(S) /\ Len(g) \in Nat /\ DOMAIN g = 1..Len(g) /\ DOMAIN h = 1..(Len(g) + 1)
      /\ h[Len(g) + 1] = seq[n] /\ \A p \in DOMAIN g : h[p] = g[p] BY <1>4, <1>5
<1>. HIDE DEF h
<1>7. \A p \in DOMAIN h : p \in DOMAIN g \/ p = Len(g) + 1 BY <1>6
<1>8. ASSUME NEW i \in 1..n, seq[i] \in set PROVE \E p \in DOMAIN h : h[p] = seq[i]
  <2>1. CASE i = n
    <3>1. Len(g) + 1 \in DOMAIN h BY <1>6
    <3>. QED BY <1>6, <2>1, <3>1
  <2>2. CASE i \in 1..(n - 1)
    <3>1. PICK p \in DOMAIN g : g[p] = seq[i] BY <1>8, <2>2 DEF KeptTo
    <3>. QED BY <1>6, <3>1
  <2>. QED BY <1>1, <2>1, <2>2
<1>9. ASSUME NEW p \in DOMAIN h, NEW q \in DOMAIN h, p < q
      PROVE  \E i, j \in 1..n : i < j /\ seq[i] = h[p] /\ seq[j] = h[q]
  <2>1. p \in DOMAIN g BY <1>6, <1>9
  <2>2. CASE q \in DOMAIN g
    <3>1. PICK i \in 1..(n - 1), j \in 1..(n - 1) : i < j /\ seq[i] = g[p] /\ seq[j] = g[q]
      BY <1>9, <2>1, <2>2 DEF KeptTo
    <3>. QED BY <1>2, <1>6, <2>1, <2>2, <3>1
  <2>3. CASE q = Len(g) + 1
    <3>1. g[p] \in {seq[i] : i \in 1..(n - 1)} BY <1>3, <2>1
    <3>2. PICK i \in 1..(n - 1) : seq[i] = g[p] BY <3>1
    <3>3. i \in 1..n /\ i < n /\ n \in 1..n BY <3>2
    <3>. QED BY <1>6, <2>1, <2>3, <3>2, <3>3
  <2>. QED BY <1>7, <2>2, <2>3
<1>. QED BY <1>6, <1>8, <1>9 DEF KeptTo, h, S

LEMMA KeptSkips ==
  ASSUME NEW seq, NEW set, NEW n \in Nat \ {0}, NEW g, KeptTo(seq, set, n - 1, g), seq[n] \notin set
  PROVE  KeptTo(seq, set, n, g)
<1>1. \A i \in 1..n : seq[i] \in set => i \in 1..(n - 1)
  <2>1. \A i \in 1..n : i = n \/ i \in 1..(n - 1) OBVIOUS
  <2>. QED BY <2>1
<1>2. \A i \in 1..(n - 1) : i \in 1..n OBVIOUS
<1>3. {seq[i] : i \in 1..(n - 1)} \cap set \subseteq {seq[i] : i \in 1..n} \cap set BY <1>2
<1>4. g \in Seq({seq[i] : i \in 1..n} \cap set) BY <1>3 DEF KeptTo
<1>. QED BY <1>1, <1>2, <1>4 DEF KeptTo

LEMMA KeptIsKept ==
  ASSUME NEW seq, Len(seq) \in Nat, NEW set
  PROVE  KeptTo(seq, set, Len(seq), Kept(seq, set))
<1>. DEFINE N == Len(seq)
            kept[n \in 0..N] ==
              IF n = 0 THEN <<>>
              ELSE IF seq[n] \in set THEN Append(kept[n - 1], seq[n]) ELSE kept[n - 1]
            Next1(f) == [n \in 0..N |-> IF n = 0 THEN <<>>
                          ELSE IF seq[n] \in set THEN Append(f[n - 1], seq[n]) ELSE f[n - 1]]
            Odd == {n \in 0..N : ~KeptTo(seq, set, n, kept[n])}
<1>1. Kept(seq, set) = kept[N] BY DEF Kept
<1>2. kept = CHOOSE f : f = Next1(f) OBVIOUS
<1>3. PICK g : Keeps(seq, set, N, g) BY KeepsGoOn
<1>4. g = Next1(g) BY <1>3 DEF Keeps
<1>. HIDE DEF kept
<1>5. kept = Next1(kept) BY <1>2, <1>4
<1>6. \A n \in 0..N : kept[n] = IF n = 0 THEN <<>>
        ELSE IF seq[n] \in set THEN Append(kept[n - 1], seq[n]) ELSE kept[n - 1]
  BY <1>5
<1>7. Odd = {}
  <2>1. SUFFICES ASSUME Odd # {} PROVE FALSE OBVIOUS
  <2>2. PICK n \in Odd : \A i \in Odd : n <= i
    <3>1. Odd \subseteq Nat OBVIOUS
    <3>. HIDE DEF Odd
    <3>. QED BY <2>1, <3>1, LeastNumber
  <2>3. n \in 0..N /\ ~KeptTo(seq, set, n, kept[n]) BY <2>2
  <2>4. n # 0 BY <1>6, <2>3, KeptStarts
  <2>5. n \in Nat \ {0} /\ n - 1 \in 0..N /\ ~(n <= n - 1) BY <2>3, <2>4
  <2>6. KeptTo(seq, set, n - 1, kept[n - 1]) BY <2>2, <2>5
  <2>7. kept[n] = IF seq[n] \in set THEN Append(kept[n - 1], seq[n]) ELSE kept[n - 1]
    BY <1>6, <2>3, <2>4
  <2>8. CASE seq[n] \in set BY <2>3, <2>5, <2>6, <2>7, <2>8, KeptTakes
  <2>9. CASE seq[n] \notin set BY <2>3, <2>5, <2>6, <2>7, <2>9, KeptSkips
  <2>. QED BY <2>8, <2>9
<1>8. N \in 0..N OBVIOUS
<1>. QED BY <1>1, <1>7, <1>8

LEMMA KeptFacts ==
  ASSUME NEW S, NEW seq \in Seq(S), NEW set
  PROVE  /\ Kept(seq, set) \in Seq(S \cap set)
         /\ Range(Kept(seq, set)) = Range(seq) \cap set
         /\ \A x, y : Before(Kept(seq, set), x, y) => Before(seq, x, y)
<1>. DEFINE k == Kept(seq, set)
<1>1. Len(seq) \in Nat /\ DOMAIN seq = 1..Len(seq) OBVIOUS
<1>2. KeptTo(seq, set, Len(seq), k) BY <1>1, KeptIsKept
<1>. HIDE DEF k
<1>3. {seq[i] : i \in 1..Len(seq)} = Range(seq) /\ Range(seq) \subseteq S BY <1>1 DEF Range
<1>4. k \in Seq(Range(seq) \cap set) BY <1>2, <1>3 DEF KeptTo
<1>5. Range(seq) \cap set \subseteq S \cap set BY <1>3
<1>6. k \in Seq(S \cap set) BY <1>4, <1>5
<1>7. Range(k) \subseteq Range(seq) \cap set BY <1>4 DEF Range
<1>8. Range(seq) \cap set \subseteq Range(k) BY <1>1, <1>2 DEF KeptTo, Range
<1>9. ASSUME NEW x, NEW y, Before(k, x, y) PROVE Before(seq, x, y)
  <2>1. PICK p \in DOMAIN k, q \in DOMAIN k : p < q /\ k[p] = x /\ k[q] = y BY <1>9 DEF Before
  <2>2. PICK i \in 1..Len(seq), j \in 1..Len(seq) : i < j /\ seq[i] = k[p] /\ seq[j] = k[q]
    BY <1>2, <2>1 DEF KeptTo
  <2>. QED BY <1>1, <2>1, <2>2 DEF Before
<1>. QED BY <1>6, <1>7, <1>8, <1>9 DEF k

Distinct(s) == \A x : ~Before(s, x, x)

LEMMA AppendBefore ==
  ASSUME NEW S, NEW s \in Seq(S), NEW x \in S, NEW y, NEW z
  PROVE  Before(Append(s, x), y, z) <=> Before(s, y, z) \/ (y \in Range(s) /\ z = x)
<1>. DEFINE h == Append(s, x)
            n == Len(s) + 1
<1>1. Len(s) \in Nat /\ DOMAIN s = 1..Len(s) /\ DOMAIN h = 1..n /\ h[n] = x /\ n \in DOMAIN h
  OBVIOUS
<1>2. \A i \in DOMAIN s : i \in DOMAIN h /\ h[i] = s[i] /\ i < n OBVIOUS
<1>3. \A i \in DOMAIN h : i \in DOMAIN s \/ i = n OBVIOUS
<1>4. \A i \in DOMAIN h : ~(n < i) OBVIOUS
<1>. HIDE DEF h, n
<1>5. ASSUME Before(h, y, z) PROVE Before(s, y, z) \/ (y \in Range(s) /\ z = x)
  <2>1. PICK i \in DOMAIN h, j \in DOMAIN h : i < j /\ h[i] = y /\ h[j] = z BY <1>5 DEF Before
  <2>2. i \in DOMAIN s BY <1>3, <1>4, <2>1
  <2>3. CASE j \in DOMAIN s BY <1>2, <2>1, <2>2, <2>3 DEF Before
  <2>4. CASE j = n BY <1>1, <1>2, <2>1, <2>2, <2>4 DEF Range
  <2>. QED BY <1>3, <2>3, <2>4
<1>6. ASSUME Before(s, y, z) PROVE Before(h, y, z)
  <2>1. PICK i \in DOMAIN s, j \in DOMAIN s : i < j /\ s[i] = y /\ s[j] = z BY <1>6 DEF Before
  <2>. QED BY <1>2, <2>1 DEF Before
<1>7. ASSUME y \in Range(s), z = x PROVE Before(h, y, z)
  <2>1. PICK i \in DOMAIN s : s[i] = y BY <1>7 DEF Range
  <2>. QED BY <1>1, <1>2, <1>7, <2>1 DEF Before
<1>. QED BY <1>5, <1>6, <1>7 DEF h

LEMMA WithoutFacts ==
  ASSUME NEW S, NEW s \in Seq(S), NEW x, Distinct(s)
  PROVE  /\ Without(s, x) \in Seq(S) /\ Distinct(Without(s, x))
         /\ Range(Without(s, x)) = Range(s) \ {x}
         /\ \A y, z : y # x /\ z # x /\ Before(s, y, z) => Before(Without(s, x), y, z)
<1>. DEFINE k == Kept(s, Range(s) \ {x})
<1>1. Without(s, x) = k BY DEF Without
<1>2. /\ k \in Seq(S \cap (Range(s) \ {x})) /\ Range(k) = Range(s) \cap (Range(s) \ {x})
      /\ \A y, z : Before(k, y, z) => Before(s, y, z)
  BY KeptFacts
<1>. HIDE DEF k
<1>3. k \in Seq(S) /\ Range(k) = Range(s) \ {x} BY <1>2
<1>4. Distinct(k) BY <1>2 DEF Distinct
<1>5. ASSUME NEW y, NEW z, y # x, z # x, Before(s, y, z) PROVE Before(k, y, z)
  <2>1. PICK i \in DOMAIN s, j \in DOMAIN s : i < j /\ s[i] = y /\ s[j] = z BY <1>5 DEF Before
  <2>2. y \in Range(k) /\ z \in Range(k) BY <1>3, <1>5, <2>1 DEF Range
  <2>3. DOMAIN k = 1..Len(k) /\ Len(k) \in Nat BY <1>3
  <2>4. PICK p \in DOMAIN k, q \in DOMAIN k : k[p] = y /\ k[q] = z BY <2>2 DEF Range
  <2>5. CASE p < q BY <2>4, <2>5 DEF Before
  <2>6. CASE q < p
    <3>1. Before(s, z, y) BY <1>2, <2>4, <2>6 DEF Before
    <3>2. PICK f \in DOMAIN s, g \in DOMAIN s : f < g /\ s[f] = z /\ s[g] = y BY <3>1 DEF Before
    <3>3. DOMAIN s = 1..Len(s) /\ Len(s) \in Nat OBVIOUS
    <3>4. i = g /\ j = f
      <4>1. ASSUME NEW a \in DOMAIN s, NEW b \in DOMAIN s, s[a] = s[b] PROVE a = b
        <5>1. ~(a < b) /\ ~(b < a) BY <4>1 DEF Distinct, Before
        <5>. QED BY <3>3, <5>1
      <4>. QED BY <2>1, <3>2, <4>1
    <3>. QED BY <2>1, <3>2, <3>3, <3>4
  <2>7. CASE p = q BY <2>1, <2>4, <2>7 DEF Distinct, Before
  <2>. QED BY <2>3, <2>5, <2>6, <2>7
<1>. QED BY <1>1, <1>3, <1>4, <1>5

LEMMA ReplacedFacts ==
  ASSUME NEW S, NEW s \in Seq(S), Distinct(s), NEW w \in Range(s), NEW c \in S, c \notin Range(s)
  PROVE  /\ Replaced(s, w, c) \in Seq(S) /\ Distinct(Replaced(s, w, c))
         /\ Range(Replaced(s, w, c)) = (Range(s) \ {w}) \cup {c}
         /\ \A y, z : y # w /\ z # w /\ Before(s, y, z) => Before(Replaced(s, w, c), y, z)
         /\ \A y : y # w /\ Before(s, y, w) => Before(Replaced(s, w, c), y, c)
<1>. DEFINE r == Replaced(s, w, c)
<1>1. /\ DOMAIN r = DOMAIN s /\ DOMAIN s = 1..Len(s) /\ Len(s) \in Nat
      /\ \A n \in DOMAIN s : s[n] \in S /\ r[n] = IF s[n] = w THEN c ELSE s[n]
  BY DEF Replaced
<1>2. r \in Seq(S)
  <2>1. r = [n \in 1..Len(s) |-> r[n]] BY <1>1 DEF Replaced
  <2>. HIDE DEF r
  <2>2. \A n \in 1..Len(s) : r[n] \in S BY <1>1
  <2>. QED BY <1>1, <2>1, <2>2
<1>. HIDE DEF r
<1>3. \A n \in DOMAIN s : s[n] # c BY DEF Range
<1>4. ASSUME NEW x PROVE ~Before(r, x, x)
  <2>1. SUFFICES ASSUME NEW i \in DOMAIN s, NEW j \in DOMAIN s, i < j, r[i] = x, r[j] = x
                 PROVE  FALSE
    BY <1>1 DEF Before
  <2>2. s[i] = s[j] BY <1>1, <1>3, <2>1
  <2>. QED BY <2>1, <2>2 DEF Distinct, Before
<1>5. Range(r) = (Range(s) \ {w}) \cup {c}
  <2>1. PICK n \in DOMAIN s : s[n] = w BY DEF Range
  <2>. QED BY <1>1, <1>3, <2>1 DEF Range
<1>6. ASSUME NEW y, NEW z, y # w, z # w, Before(s, y, z) PROVE Before(r, y, z)
  <2>1. PICK i \in DOMAIN s, j \in DOMAIN s : i < j /\ s[i] = y /\ s[j] = z BY <1>6 DEF Before
  <2>. QED BY <1>1, <1>6, <2>1 DEF Before
<1>7. ASSUME NEW y, y # w, Before(s, y, w) PROVE Before(r, y, c)
  <2>1. PICK i \in DOMAIN s, j \in DOMAIN s : i < j /\ s[i] = y /\ s[j] = w BY <1>7 DEF Before
  <2>. QED BY <1>1, <1>7, <2>1 DEF Before
<1>. QED BY <1>2, <1>4, <1>5, <1>6, <1>7 DEF Distinct, r

LEMMA ConcatBefore ==
  ASSUME NEW S, NEW s \in Seq(S), NEW t \in Seq(S), NEW x, NEW y, Before(s \o t, x, y),
         x \notin Range(s)
  PROVE  Before(t, x, y)
<1>. DEFINE h == s \o t
            n == Len(s)
<1>1. /\ n \in Nat /\ DOMAIN s = 1..n /\ Len(t) \in Nat /\ DOMAIN t = 1..Len(t)
      /\ DOMAIN h = 1..(n + Len(t)) OBVIOUS
<1>2. \A i \in DOMAIN h : h[i] = IF i <= n THEN s[i] ELSE t[i - n] OBVIOUS
<1>. HIDE DEF h, n
<1>3. PICK i \in DOMAIN h, j \in DOMAIN h : i < j /\ h[i] = x /\ h[j] = y BY DEF Before, h
<1>4. ~(i <= n)
  <2>1. SUFFICES ASSUME i <= n PROVE FALSE OBVIOUS
  <2>2. i \in DOMAIN s /\ s[i] = x BY <1>1, <1>2, <1>3, <2>1
  <2>. QED BY <2>2 DEF Range
<1>5. i - n \in DOMAIN t /\ j - n \in DOMAIN t /\ i - n < j - n BY <1>1, <1>3, <1>4
<1>6. t[i - n] = x /\ t[j - n] = y BY <1>1, <1>2, <1>3, <1>4
<1>. QED BY <1>5, <1>6 DEF Before

LEMMA ConcatRange ==
  ASSUME NEW S, NEW s \in Seq(S), NEW t \in Seq(S)
  PROVE  s \o t \in Seq(S) /\ Range(s \o t) = Range(s) \cup Range(t)
<1>. DEFINE h == s \o t
            n == Len(s)
<1>1. /\ n \in Nat /\ DOMAIN s = 1..n /\ Len(t) \in Nat /\ DOMAIN t = 1..Len(t)
      /\ DOMAIN h = 1..(n + Len(t)) /\ h \in Seq(S) OBVIOUS
<1>2. \A i \in DOMAIN h : h[i] = IF i <= n THEN s[i] ELSE t[i - n] OBVIOUS
<1>. HIDE DEF h, n
<1>3. \A i \in DOMAIN h : IF i <= n THEN i \in DOMAIN s ELSE i - n \in DOMAIN t BY <1>1
<1>4. \A i \in DOMAIN s : i \in DOMAIN h /\ h[i] = s[i] BY <1>1, <1>2
<1>5. ASSUME NEW i \in DOMAIN t PROVE i + n \in DOMAIN h /\ h[i + n] = t[i]
  <2>1. i + n \in DOMAIN h /\ ~(i + n <= n) /\ (i + n) - n = i BY <1>1
  <2>. QED BY <1>2, <2>1
<1>6. Range(h) \subseteq Range(s) \cup Range(t) BY <1>2, <1>3 DEF Range
<1>7. Range(s) \cup Range(t) \subseteq Range(h) BY <1>4, <1>5 DEF Range
<1>. QED BY <1>1, <1>6, <1>7 DEF h

LEMMA FirstFacts ==
  ASSUME NEW S, NEW s \in Seq(S), NEW n \in Nat
  PROVE  /\ First(s, n) \in Seq(S)
         /\ \A x \in Range(First(s, n)), y \in Range(s) \ Range(First(s, n)) : Before(s, x, y)
<1>. DEFINE m == IF Len(s) < n THEN Len(s) ELSE n
            h == First(s, n)
<1>1. Len(s) \in Nat /\ DOMAIN s = 1..Len(s) /\ m \in 0..Len(s) OBVIOUS
<1>2. h = SubSeq(s, 1, m) BY DEF First
<1>. HIDE DEF m, h
<1>3. h \in Seq(S) /\ DOMAIN h = 1..m /\ \A i \in 1..m : h[i] = s[i] BY <1>1, <1>2
<1>4. ASSUME NEW x \in Range(h), NEW y \in Range(s) \ Range(h) PROVE Before(s, x, y)
  <2>1. PICK i \in 1..m : h[i] = x BY <1>3 DEF Range
  <2>2. PICK j \in DOMAIN s : s[j] = y BY DEF Range
  <2>3. j \notin 1..m BY <1>3, <2>2 DEF Range
  <2>4. i \in DOMAIN s /\ i < j BY <1>1, <2>1, <2>2, <2>3
  <2>. QED BY <1>3, <2>1, <2>2, <2>4 DEF Before
<1>. QED BY <1>3, <1>4 DEF h

LEMMA OrderFacts ==
  ASSUME NEW T, IsFiniteSet(T), NEW o \in SetToSeqs(T)
  PROVE  o \in Seq(T) /\ Range(o) = T
<1>. DEFINE D == 1..Cardinality(T)
<1>1. Cardinality(T) \in Nat BY FS_CardinalityType
<1>2. o \in [D -> T] /\ \A i, j \in D : i # j => o[i] # o[j] BY DEF SetToSeqs
<1>3. o \in Injection(D, T) BY <1>2 DEF Injection, IsInjective
<1>4. IsFiniteSet(D) /\ Cardinality(D) = Cardinality(T) BY <1>1, FS_Interval
<1>5. o \in Surjection(D, T) BY <1>3, <1>4, FS_Injection
<1>6. Range(o) = T BY <1>5 DEF Surjection, Range
<1>. QED BY <1>1, <1>2, <1>6

-------------------------------------------------------------------------------
(* Turns *)

Ticketed == Channels \cup Workers

\* Between the steps: a sync in progress comes after all that was saved before it began,
\* and who passed a waiting channel was synced, and after it.
Turns ==
  /\ synced \in Seq(Ticketed) /\ Distinct(synced)
  /\ batches \in [Batches -> Seq(Channels)]
  /\ DOMAIN probe = {"on", "sites", "channels"} /\ probe.channels \in Seq(Channels)
  /\ saved \in [Workers -> SUBSET Channels] /\ passed \in [Channels -> SUBSET Channels]
  /\ \A w \in Workers, d \in Channels :
       w \in Range(synced) /\ d \in Range(synced) /\ d \notin saved[w] => Before(synced, d, w)
  /\ \A d \in Channels : \A c \in passed[d] :
       c \in Range(synced) /\ (d \in Range(synced) => Before(synced, d, c))

LEMMA TwoKinds == Channels \cap Workers = {}
BY CatalogAssumption DEF Workers

LEMMA TurnsInit == ASSUME CatalogInit PROVE Turns
<1>1. /\ synced = <<>> /\ batches = [b \in Batches |-> <<>>] /\ probe = NoProbe
      /\ saved = [w \in Workers |-> {}] /\ passed = [c \in Channels |-> {}] BY DEF CatalogInit
<1>2. Distinct(synced) /\ Range(synced) = {} BY <1>1 DEF Distinct, Before, Range
<1>. QED BY <1>1, <1>2 DEF Turns, NoProbe

LEMMA InRange ==
  ASSUME Turns, NEW x PROVE Contains(synced, x) <=> x \in Range(synced)
BY DEF Turns, Contains, Range

LEMMA BeginSyncTurns ==
  ASSUME Turns, NEW w \in Workers, BeginSync(w) PROVE Turns'
<1>1. /\ synced' = Append(synced, w) /\ w \notin Range(synced)
      /\ UNCHANGED <<batches, probe, saved, passed>>
  BY InRange DEF BeginSync, tasks, history
<1>2. synced \in Seq(Ticketed) /\ Distinct(synced) /\ w \in Ticketed BY DEF Turns, Ticketed
<1>3. \A y, z : Before(synced', y, z) <=> Before(synced, y, z) \/ (y \in Range(synced) /\ z = w)
  BY <1>1, <1>2, AppendBefore
<1>4. synced' \in Seq(Ticketed) BY <1>1, <1>2
<1>5. Distinct(synced') BY <1>1, <1>2, <1>3 DEF Distinct
<1>6. Range(synced') = Range(synced) \cup {w}
  <2>1. /\ Len(synced) \in Nat /\ DOMAIN synced = 1..Len(synced)
        /\ DOMAIN synced' = 1..(Len(synced) + 1) /\ synced'[Len(synced) + 1] = w
        /\ \A i \in DOMAIN synced : synced'[i] = synced[i] BY <1>1, <1>2
  <2>2. \A i \in DOMAIN synced' : i \in DOMAIN synced \/ i = Len(synced) + 1 BY <2>1
  <2>3. (\A i \in DOMAIN synced : i \in DOMAIN synced') /\ Len(synced) + 1 \in DOMAIN synced'
    BY <2>1
  <2>. QED BY <2>1, <2>2, <2>3 DEF Range
<1>7. ASSUME NEW v \in Workers, NEW d \in Channels, v \in Range(synced'), d \in Range(synced'),
             d \notin saved'[v]
      PROVE  Before(synced', d, v)
  <2>1. d \in Range(synced) BY <1>6, <1>7, TwoKinds
  <2>2. CASE v = w BY <1>3, <2>1, <2>2
  <2>3. CASE v # w
    <3>1. Before(synced, d, v) BY <1>1, <1>6, <1>7, <2>1, <2>3 DEF Turns
    <3>. QED BY <1>3, <3>1
  <2>. QED BY <2>2, <2>3
<1>8. ASSUME NEW d \in Channels, NEW c \in passed'[d]
      PROVE  c \in Range(synced') /\ (d \in Range(synced') => Before(synced', d, c))
  <2>1. c \in Range(synced) /\ (d \in Range(synced) => Before(synced, d, c))
    BY <1>1, <1>8 DEF Turns
  <2>. QED BY <1>3, <1>6, <2>1, TwoKinds
<1>. QED BY <1>1, <1>4, <1>5, <1>7, <1>8 DEF Turns

LEMMA SaveModelsTurns ==
  ASSUME Turns, NEW w \in Workers, NEW c \in Channels, SaveModels(w, c),
         batches' \in [Batches -> Seq(Channels)],
         DOMAIN probe' = {"on", "sites", "channels"}, probe'.channels \in Seq(Channels)
  PROVE  Turns'
<1>1. synced \in Seq(Ticketed) /\ Distinct(synced) /\ w \in Range(synced) /\ c \in Ticketed
  BY InRange DEF Turns, SaveModels, Ticketed
<1>2. w # c /\ \A d \in Channels : d # w BY TwoKinds
<1>3. CASE synced' = Without(synced, w) /\ saved' = [saved EXCEPT ![w] = {}] /\ passed' = passed
  <2>1. /\ synced' \in Seq(Ticketed) /\ Distinct(synced') /\ Range(synced') = Range(synced) \ {w}
        /\ \A y, z : y # w /\ z # w /\ Before(synced, y, z) => Before(synced', y, z)
    BY <1>1, <1>3, WithoutFacts
  <2>2. saved' \in [Workers -> SUBSET Channels] /\ \A v \in Workers : v # w => saved'[v] = saved[v]
    BY <1>3 DEF Turns
  <2>3. ASSUME NEW v \in Workers, NEW d \in Channels, v \in Range(synced'), d \in Range(synced'),
               d \notin saved'[v]
        PROVE  Before(synced', d, v)
    <3>1. v # w /\ v \in Range(synced) /\ d \in Range(synced) BY <2>1, <2>3
    <3>2. Before(synced, d, v) BY <2>2, <2>3, <3>1 DEF Turns
    <3>. QED BY <1>2, <2>1, <3>1, <3>2
  <2>4. ASSUME NEW d \in Channels, NEW e \in passed'[d]
        PROVE  e \in Range(synced') /\ (d \in Range(synced') => Before(synced', d, e))
    <3>1. e \in Channels /\ e \in Range(synced) /\ (d \in Range(synced) => Before(synced, d, e))
      BY <1>3, <2>4 DEF Turns
    <3>. QED BY <1>2, <2>1, <3>1
  <2>. QED BY <1>3, <2>1, <2>2, <2>3, <2>4 DEF Turns
<1>4. CASE /\ synced' = Replaced(Without(synced, c), w, c)
           /\ saved' = [v \in Workers |-> IF v # w /\ Contains(synced, v) THEN saved[v] \cup {c} ELSE {}]
           /\ passed' = [d \in Channels |-> IF d = c THEN {}
                                            ELSE IF d \in saved[w] THEN passed[d] \ {c}
                                            ELSE passed[d] \cup {c}]
  <2>. DEFINE k == Without(synced, c)
  <2>1. /\ k \in Seq(Ticketed) /\ Distinct(k) /\ Range(k) = Range(synced) \ {c}
        /\ \A y, z : y # c /\ z # c /\ Before(synced, y, z) => Before(k, y, z)
    BY <1>1, WithoutFacts
  <2>2. synced' = Replaced(k, w, c) BY <1>4
  <2>. HIDE DEF k
  <2>3. w \in Range(k) /\ c \notin Range(k) BY <1>1, <1>2, <2>1
  <2>4. /\ synced' \in Seq(Ticketed) /\ Distinct(synced')
        /\ Range(synced') = (Range(k) \ {w}) \cup {c}
        /\ \A y, z : y # w /\ z # w /\ Before(k, y, z) => Before(synced', y, z)
        /\ \A y : y # w /\ Before(k, y, w) => Before(synced', y, c)
    BY <1>1, <2>1, <2>2, <2>3, ReplacedFacts
  <2>5. saved' \in [Workers -> SUBSET Channels] /\ passed' \in [Channels -> SUBSET Channels]
    BY <1>4 DEF Turns
  <2>6. ASSUME NEW v \in Workers, NEW d \in Channels, v \in Range(synced'), d \in Range(synced'),
               d \notin saved'[v]
        PROVE  Before(synced', d, v)
    <3>1. v # w /\ v # c /\ v \in Range(synced) BY <2>1, <2>4, <2>6, TwoKinds
    <3>2. d # c /\ d \notin saved[v] BY <1>4, <2>6, <3>1, InRange
    <3>3. d \in Range(synced) BY <2>1, <2>4, <2>6, <3>2
    <3>4. Before(synced, d, v) BY <3>1, <3>2, <3>3 DEF Turns
    <3>. QED BY <1>2, <2>1, <2>4, <3>1, <3>2, <3>4
  <2>7. ASSUME NEW d \in Channels, NEW e \in passed'[d]
        PROVE  e \in Range(synced') /\ (d \in Range(synced') => Before(synced', d, e))
    <3>1. d # c BY <1>4, <2>7
    <3>2. CASE e = c
      <4>1. d \notin saved[w] BY <1>4, <2>7, <3>1, <3>2
      <4>2. ASSUME d \in Range(synced') PROVE Before(synced', d, c)
        <5>1. d \in Range(synced) BY <2>1, <2>4, <3>1, <4>2
        <5>2. Before(synced, d, w) BY <1>1, <4>1, <5>1 DEF Turns
        <5>. QED BY <1>2, <2>1, <2>4, <3>1, <5>2
      <4>. QED BY <2>4, <3>2, <4>2
    <3>3. CASE e # c
      <4>1. e \in passed[d] BY <1>4, <2>7, <3>1, <3>3
      <4>2. e \in Channels /\ e \in Range(synced) /\ (d \in Range(synced) => Before(synced, d, e))
        BY <4>1 DEF Turns
      <4>3. e \in Range(synced') BY <1>2, <2>1, <2>4, <3>3, <4>2
      <4>4. ASSUME d \in Range(synced') PROVE Before(synced', d, e)
        <5>1. d \in Range(synced) BY <2>1, <2>4, <3>1, <4>4
        <5>. QED BY <1>2, <2>1, <2>4, <3>1, <3>3, <4>2, <5>1
      <4>. QED BY <4>3, <4>4
    <3>. QED BY <3>2, <3>3
  <2>. QED BY <2>4, <2>5, <2>6, <2>7 DEF Turns
<1>. QED BY <1>3, <1>4 DEF SaveModels

LEMMA SyncOrdersFacts ==
  ASSUME Turns, NEW o \in SyncOrders
  PROVE  /\ o \in Seq(Channels)
         /\ \A c \in Channels : Syncable(c) => c \in Range(o)
         /\ \A c, d : c \in Range(synced) /\ Before(o, c, d) => Before(synced, c, d)
<1>. DEFINE all == {c \in Channels : Syncable(c)}
            fresh == {c \in Channels : Syncable(c) /\ ~Contains(synced, c)}
            k == Kept(synced, all)
<1>1. PICK p \in SetToSeqs(fresh) : o = p \o k BY DEF SyncOrders
<1>2. IsFiniteSet(fresh)
  <2>1. fresh \subseteq Channels OBVIOUS
  <2>. QED BY <2>1, CatalogAssumption, FS_Subset
<1>3. synced \in Seq(Ticketed) BY DEF Turns
<1>4. p \in Seq(fresh) /\ Range(p) = fresh BY <1>2, OrderFacts
<1>5. /\ k \in Seq(Ticketed \cap all) /\ Range(k) = Range(synced) \cap all
      /\ \A x, y : Before(k, x, y) => Before(synced, x, y) BY <1>3, KeptFacts
<1>6. \A c \in Channels : Contains(synced, c) <=> c \in Range(synced) BY InRange
<1>7. \A c \in fresh : c \notin Range(synced) BY <1>6
<1>8. \A c \in Channels : Syncable(c) => c \in fresh \/ (c \in all /\ c \in Range(synced))
  BY <1>6
<1>9. fresh \subseteq Channels /\ Ticketed \cap all \subseteq Channels OBVIOUS
<1>. HIDE DEF all, fresh, k
<1>10. p \in Seq(Channels) /\ k \in Seq(Channels) BY <1>4, <1>5, <1>9
<1>11. o \in Seq(Channels) /\ Range(o) = Range(p) \cup Range(k) BY <1>1, <1>10, ConcatRange
<1>12. \A c \in Channels : Syncable(c) => c \in Range(o) BY <1>4, <1>5, <1>8, <1>11
<1>13. ASSUME NEW c, NEW d, c \in Range(synced), Before(o, c, d) PROVE Before(synced, c, d)
  <2>1. c \notin Range(p) BY <1>4, <1>7, <1>13
  <2>2. Before(k, c, d) BY <1>1, <1>10, <1>13, <2>1, ConcatBefore
  <2>. QED BY <1>5, <2>2
<1>. QED BY <1>11, <1>12, <1>13

LEMMA BothBefore ==
  ASSUME NEW S, NEW s \in Seq(S), Distinct(s), NEW x, NEW y, Before(s, x, y), Before(s, y, x)
  PROVE  FALSE
<1>1. PICK i \in DOMAIN s, j \in DOMAIN s : i < j /\ s[i] = x /\ s[j] = y BY DEF Before
<1>2. PICK p \in DOMAIN s, q \in DOMAIN s : p < q /\ s[p] = y /\ s[q] = x BY DEF Before
<1>3. ASSUME NEW a \in DOMAIN s, NEW b \in DOMAIN s, s[a] = s[b] PROVE ~(a < b)
  <2>1. ~Before(s, s[a], s[a]) BY DEF Distinct
  <2>. QED BY <1>3, <2>1 DEF Before
<1>4. ~(i < q) /\ ~(q < i) /\ ~(p < j) BY <1>1, <1>2, <1>3
<1>5. DOMAIN s = 1..Len(s) OBVIOUS
<1>. QED BY <1>1, <1>2, <1>4, <1>5

\* What StartModelSync takes.
LEMMA BatchTurns ==
  ASSUME Turns, NEW o \in SyncOrders, NEW c \in Range(First(o, Limit)), NEW d \in Channels,
         Syncable(d), d \notin Range(First(o, Limit))
  PROVE  c \notin passed[d]
<1>1. SUFFICES ASSUME c \in passed[d] PROVE FALSE OBVIOUS
<1>2. o \in Seq(Channels) /\ d \in Range(o) BY SyncOrdersFacts
<1>3. Before(o, c, d) BY <1>2, CatalogAssumption, FirstFacts
<1>4. c \in Range(synced) /\ (d \in Range(synced) => Before(synced, d, c)) BY <1>1 DEF Turns
<1>5. Before(synced, c, d) BY <1>3, <1>4, SyncOrdersFacts
<1>6. d \in Range(synced) BY <1>5 DEF Before, Range
<1>. QED BY <1>4, <1>5, <1>6, BothBefore DEF Turns

\* The steps that leave the turns alone.
LEMMA OtherTurns ==
  ASSUME [CatalogNext]_catalog
  PROVE  \/ UNCHANGED <<synced, saved, passed, batches, probe>>
         \/ \E b \in Batches : StartModelSync(b) \/ SyncChannel(b)
         \/ \E w \in Workers : BeginSync(w)
         \/ \E risky \in BOOLEAN : StartProbe(risky)
         \/ ProbeSite \/ ProbeChannel \/ EndProbe
<1>. DEFINE Same == UNCHANGED <<synced, saved, passed, batches, probe>>
<1>1. CASE UNCHANGED catalog BY <1>1 DEF catalog, tables, reading, tasks, history
<1>2. ASSUME StartPricingSync PROVE Same BY <1>2 DEF StartPricingSync, tables, history
<1>3. ASSUME SyncSitePricing PROVE Same BY <1>3 DEF SyncSitePricing, history
<1>4. ASSUME NEW c \in Channels, NEW state \in {"active", "archived"}, SetStatus(c, state) PROVE Same
  BY <1>4 DEF SetStatus, tasks, history
<1>5. ASSUME NEW t \in SafeTransitions, BulkSetStatus(t[1], t[2]) PROVE Same
  BY <1>5 DEF BulkSetStatus, tasks, history
<1>6. ASSUME NEW seen \in SUBSET Channels, Reconcile(seen) PROVE Same
  BY <1>6 DEF Reconcile, tasks, history
<1>7. ASSUME NEW c \in Channels, DetectChannel(c) PROVE Same BY <1>7 DEF DetectChannel, history
<1>8. ASSUME NEW c \in Channels, NEW kind, EnsureSite(c, kind) PROVE Same
  BY <1>8 DEF EnsureSite, history
<1>9. ASSUME NEW i \in DOMAIN sites, DeleteSite(i) PROVE Same BY <1>9 DEF DeleteSite, tasks
<1>10. ASSUME NEW x, ClearCache(x) PROVE Same BY <1>10 DEF ClearCache, tables, tasks, history
<1>11. ASSUME NEW l, RunQuery(l) PROVE Same BY <1>11 DEF RunQuery, tables, tasks, history
<1>12. ASSUME NEW l, Store(l) PROVE Same BY <1>12 DEF Store, tables, tasks, history
<1>13. ASSUME NEW l, NEW k, Ask(l, k) PROVE Same BY <1>13 DEF Ask, tables, tasks, history
<1>14. ASSUME NEW k, Expire(k) PROVE Same BY <1>14 DEF Expire, tables, tasks, history
<1>15. ASSUME NEW c, ImportChannel(c) PROVE Same BY <1>15 DEF ImportChannel, tasks, history
<1>16. ASSUME NEW c, CreateUpstreamSite(c) PROVE Same
  BY <1>16 DEF CreateUpstreamSite, tasks, history
<1>17. ASSUME NEW c, EnsureManualSite(c) PROVE Same BY <1>17 DEF EnsureManualSite, tasks, history
<1>18. ASSUME NEW c, UpsertLegacySite(c) PROVE Same BY <1>18 DEF UpsertLegacySite, tasks, history
<1>19. ASSUME NEW b, UpdateManualSite(b) PROVE Same BY <1>19 DEF UpdateManualSite, tasks, history
<1>. HIDE DEF Same
<1>20. ASSUME CatalogNext
       PROVE  \/ Same
              \/ \E b \in Batches : StartModelSync(b) \/ SyncChannel(b)
              \/ \E w \in Workers : BeginSync(w)
              \/ \E risky \in BOOLEAN : StartProbe(risky)
              \/ ProbeSite \/ ProbeChannel \/ EndProbe
  BY <1>2, <1>3, <1>4, <1>5, <1>6, <1>7, <1>8, <1>9, <1>10, <1>11, <1>12, <1>13, <1>14, <1>15,
     <1>16, <1>17, <1>18, <1>19, <1>20 DEF CatalogNext
<1>. QED BY <1>1, <1>20 DEF Same

LEMMA TurnsStep == ASSUME Turns, [CatalogNext]_catalog PROVE Turns'
<1>1. CASE UNCHANGED <<synced, saved, passed, batches, probe>> BY <1>1 DEF Turns, Distinct
<1>2. ASSUME NEW b \in Batches, StartModelSync(b) PROVE Turns'
  <2>1. PICK o \in SyncOrders : batches' = [batches EXCEPT ![b] = First(o, Limit)]
    BY <1>2 DEF StartModelSync
  <2>2. First(o, Limit) \in Seq(Channels) BY SyncOrdersFacts, FirstFacts, CatalogAssumption
  <2>3. batches' \in [Batches -> Seq(Channels)] BY <2>1, <2>2 DEF Turns
  <2>4. UNCHANGED <<synced, probe, saved, passed>> BY <1>2 DEF StartModelSync, tables, history
  <2>. QED BY <2>3, <2>4 DEF Turns, Distinct
<1>3. ASSUME NEW b \in Batches, SyncChannel(b) PROVE Turns'
  <2>1. batches[b] # <<>> /\ batches[b] \in Seq(Channels) BY <1>3 DEF SyncChannel, Turns
  <2>2. Head(batches[b]) \in Channels /\ Tail(batches[b]) \in Seq(Channels) BY <2>1
  <2>3. SaveModels(b, Head(batches[b])) /\ b \in Workers BY <1>3 DEF SyncChannel, Workers
  <2>4. batches' = [batches EXCEPT ![b] = Tail(batches[b])] /\ probe' = probe
    BY <1>3 DEF SyncChannel
  <2>5. batches' \in [Batches -> Seq(Channels)] BY <2>2, <2>4 DEF Turns
  <2>6. DOMAIN probe' = {"on", "sites", "channels"} /\ probe'.channels \in Seq(Channels)
    BY <2>4 DEF Turns
  <2>. QED BY <2>2, <2>3, <2>5, <2>6, SaveModelsTurns
<1>4. ASSUME NEW risky \in BOOLEAN, StartProbe(risky) PROVE Turns'
  <2>1. UNCHANGED <<synced, saved, passed, batches>> BY <1>4 DEF StartProbe, tables, history
  <2>2. DOMAIN probe' = {"on", "sites", "channels"} /\ probe'.channels = <<>>
    BY <1>4 DEF StartProbe, NoProbe
  <2>3. probe'.channels \in Seq(Channels) BY <2>2
  <2>. QED BY <2>1, <2>2, <2>3 DEF Turns, Distinct
<1>5. CASE ProbeSite
  <2>1. UNCHANGED <<synced, saved, passed, batches>> BY <1>5 DEF ProbeSite, history
  <2>. DEFINE i == Head(probe.sites)
              rest == [probe EXCEPT !.sites = Tail(@)]
              at == {c \in Channels : Syncable(c) /\ BaseOf[c] = i[1]}
  <2>2. probe' = rest \/ \E o \in SetToSeqs(at) : probe' = [rest EXCEPT !.channels = o]
    BY <1>5 DEF ProbeSite
  <2>3. DOMAIN rest = {"on", "sites", "channels"} /\ rest.channels = probe.channels BY DEF Turns
  <2>4. \A o \in SetToSeqs(at) : o \in Seq(Channels)
    <3>1. at \subseteq Channels OBVIOUS
    <3>2. IsFiniteSet(at) BY <3>1, CatalogAssumption, FS_Subset
    <3>. HIDE DEF at
    <3>. QED BY <3>1, <3>2, OrderFacts
  <2>5. DOMAIN probe' = {"on", "sites", "channels"} /\ probe'.channels \in Seq(Channels)
    <3>. HIDE DEF rest, at
    <3>1. CASE probe' = rest BY <2>3, <3>1 DEF Turns
    <3>2. ASSUME NEW o \in SetToSeqs(at), probe' = [rest EXCEPT !.channels = o]
          PROVE  DOMAIN probe' = {"on", "sites", "channels"} /\ probe'.channels = o
      BY <2>3, <3>2
    <3>. QED BY <2>2, <2>4, <3>1, <3>2
  <2>. QED BY <2>1, <2>5 DEF Turns, Distinct
<1>6. CASE ProbeChannel
  <2>1. probe.channels # <<>> /\ probe.channels \in Seq(Channels) BY <1>6 DEF ProbeChannel, Turns
  <2>2. Head(probe.channels) \in Channels /\ Tail(probe.channels) \in Seq(Channels) BY <2>1
  <2>3. SaveModels("probe", Head(probe.channels)) /\ "probe" \in Workers
    BY <1>6 DEF ProbeChannel, Workers
  <2>4. probe' = [probe EXCEPT !.channels = Tail(probe.channels)] /\ batches' = batches
    BY <1>6 DEF ProbeChannel
  <2>5. DOMAIN probe' = {"on", "sites", "channels"} /\ probe'.channels = Tail(probe.channels)
    BY <2>4 DEF Turns
  <2>6. batches' \in [Batches -> Seq(Channels)] BY <2>4 DEF Turns
  <2>. QED BY <2>2, <2>3, <2>5, <2>6, SaveModelsTurns
<1>7. CASE EndProbe
  <2>1. UNCHANGED <<synced, saved, passed, batches>> BY <1>7 DEF EndProbe, tables, history
  <2>2. DOMAIN probe' = {"on", "sites", "channels"} /\ probe'.channels \in Seq(Channels)
    BY <1>7 DEF EndProbe, NoProbe
  <2>. QED BY <2>1, <2>2 DEF Turns, Distinct
<1>. QED BY <1>1, <1>2, <1>3, <1>4, <1>5, <1>6, <1>7, BeginSyncTurns, OtherTurns

LEMMA RoundRobinStep ==
  ASSUME Turns, [CatalogNext]_catalog, NEW b \in Batches, batches[b] = <<>>,
         NEW c \in Range(batches'[b]), NEW d \in Channels, Syncable(d), d \notin Range(batches'[b])
  PROVE  c \notin passed[d]
<1>. DEFINE Goal == c \notin passed[d]
<1>1. batches \in [Batches -> Seq(Channels)] BY DEF Turns
<1>2. batches'[b] # <<>> BY DEF Range
<1>3. CASE batches' = batches BY <1>2, <1>3
<1>4. ASSUME NEW a \in Batches, StartModelSync(a) PROVE Goal
  <2>1. PICK o \in SyncOrders : batches' = [batches EXCEPT ![a] = First(o, Limit)]
    BY <1>4 DEF StartModelSync
  <2>2. a = b BY <1>1, <1>2, <2>1
  <2>3. batches'[b] = First(o, Limit) BY <1>1, <2>1, <2>2
  <2>. QED BY <2>3, BatchTurns
<1>5. ASSUME NEW a \in Batches, SyncChannel(a) PROVE FALSE
  <2>1. batches[a] # <<>> /\ batches' = [batches EXCEPT ![a] = Tail(batches[a])]
    BY <1>5 DEF SyncChannel
  <2>. QED BY <1>1, <1>2, <2>1
<1>6. ASSUME NEW risky \in BOOLEAN, StartProbe(risky) PROVE batches' = batches
  BY <1>6 DEF StartProbe
<1>7. CASE ProbeSite \/ ProbeChannel \/ EndProbe
  BY <1>3, <1>7 DEF ProbeSite, ProbeChannel, EndProbe
<1>8. ASSUME NEW w \in Workers, BeginSync(w) PROVE batches' = batches
  BY <1>8 DEF BeginSync, tasks
<1>. QED BY <1>3, <1>4, <1>5, <1>6, <1>7, <1>8, OtherTurns

\* A batch never takes a channel whose last sync began after that of another, which it
\* leaves out, had been saved: models_last_synced_at is the time a sync began, and
\* syncAllChannelModels and the probe may run at once and fail.
THEOREM TurnsAreFair == CatalogSpec => RoundRobin
<1>. DEFINE Fair == \A b \in Batches : batches[b] = <<>> =>
                      \A c \in Range(batches'[b]), d \in Channels :
                        Syncable(d) /\ d \notin Range(batches'[b]) => c \notin passed[d]
<1>1. CatalogInit => Turns BY TurnsInit
<1>2. Turns /\ [CatalogNext]_catalog => Turns' BY TurnsStep
<1>3. Turns /\ [CatalogNext]_catalog => [Fair]_catalog BY RoundRobinStep
<1>. QED BY <1>1, <1>2, <1>3, PTL DEF CatalogSpec, RoundRobin

-------------------------------------------------------------------------------
(* Prices *)

LEMMA SettledOf ==
  ASSUME NEW s, NEW p, NEW q, NEW r
  PROVE  "of" \in DOMAIN s => Settled(s, p, q, r).of = s.of
<1>. DEFINE y == [s EXCEPT !.price = p]
            z == [y EXCEPT !.prompt = q]
            x == [z EXCEPT !.completion = r]
<1>1. Settled(s, p, q, r) = x BY DEF Settled
<1>2. DOMAIN y = DOMAIN s /\ ("of" \in DOMAIN s => y.of = s.of) OBVIOUS
<1>. HIDE DEF y
<1>3. DOMAIN z = DOMAIN y /\ ("of" \in DOMAIN y => z.of = y.of) OBVIOUS
<1>. HIDE DEF z
<1>4. DOMAIN x = DOMAIN z /\ ("of" \in DOMAIN z => x.of = z.of) OBVIOUS
<1>. HIDE DEF x
<1>. QED BY <1>1, <1>2, <1>3, <1>4

\* What is settled comes of the sources, and of nothing only when there is none.
LEMMA SettlementFacts ==
  ASSUME NEW S, NEW c \in Settlements(S)
  PROVE  /\ c = {} <=> S = {}
         /\ \A x \in c : \E s \in S : "of" \in DOMAIN s => x.of = s.of
<1>1. c \subseteq UNION {Ways(s) : s \in S} /\ \A s \in S : Cardinality(c \cap Ways(s)) = 1
  BY DEF Settlements
<1>2. ASSUME NEW s, NEW x \in Ways(s) PROVE \E p, q, r : x = Settled(s, p, q, r) BY DEF Ways
<1>3. ASSUME c = {} PROVE S = {}
  <2>1. SUFFICES ASSUME NEW s \in S PROVE FALSE OBVIOUS
  <2>2. c \cap Ways(s) = {} BY <1>3
  <2>3. Cardinality({}) = 0 BY FS_EmptySet
  <2>. QED BY <1>1, <2>2, <2>3
<1>4. S = {} => c = {} BY <1>1
<1>5. ASSUME NEW x \in c PROVE \E s \in S : "of" \in DOMAIN s => x.of = s.of
  <2>1. PICK s \in S : x \in Ways(s) BY <1>1
  <2>2. PICK p, q, r : x = Settled(s, p, q, r) BY <1>2, <2>1
  <2>. QED BY <2>2, SettledOf
<1>. QED BY <1>3, <1>4, <1>5

LEMMA SyncPricingFacts ==
  ASSUME NEW answer
  PROVE  LET row == SyncPricing(answer)
         IN DOMAIN row = {"status", "sources"} /\ (row.status = "success" <=> row.sources # {})
<1>. DEFINE sources == IF Ok(answer.http) THEN LiveSources(answer.body) ELSE {}
            status == IF ~Ok(answer.http) THEN "failed" ELSE IF sources = {} THEN "empty" ELSE "success"
<1>1. SyncPricing(answer) = [status |-> status, sources |-> sources] BY DEF SyncPricing
<1>2. status = "success" <=> sources # {} OBVIOUS
<1>. HIDE DEF status, sources
<1>. QED BY <1>1, <1>2

Priced(i) == (prices[i].status = "success") = (prices[i].sources # {})

\* The steps that neither unmake a site nor make a row of prices.
LEMMA SamePrices ==
  ASSUME PricesHaveSites, UNCHANGED prices, DOMAIN sites \subseteq DOMAIN sites'
  PROVE  PricesHaveSites'
BY DEF PricesHaveSites

LEMMA SyncSitePricingPrices == ASSUME PricesHaveSites, SyncSitePricing PROVE PricesHaveSites'
<1>. DEFINE i == Head(pricing)
<1>1. PICK answer \in Pricings : \E settled \in Settlements(SyncPricing(answer).sources) :
        SavePrices(i, [SyncPricing(answer) EXCEPT !.sources = settled])
  BY DEF SyncSitePricing
<1>. DEFINE row == SyncPricing(answer)
<1>2. PICK settled \in Settlements(row.sources) : SavePrices(i, [row EXCEPT !.sources = settled])
  BY <1>1
<1>3. DOMAIN row = {"status", "sources"} /\ (row.status = "success" <=> row.sources # {})
  BY SyncPricingFacts
<1>. HIDE DEF row, i
<1>4. settled = {} <=> row.sources = {} BY <1>2, SettlementFacts
<1>5. sites' = sites BY DEF SyncSitePricing
<1>6. CASE prices' = prices BY <1>5, <1>6, SamePrices
<1>7. CASE i \in DOMAIN sites /\ prices' = With(prices, i, [row EXCEPT !.sources = settled])
  <2>. DEFINE new == [row EXCEPT !.sources = settled]
  <2>1. new.status = row.status /\ new.sources = settled BY <1>3
  <2>. HIDE DEF new
  <2>2. prices' = With(prices, i, new) BY <1>7 DEF new
  <2>3. /\ DOMAIN prices' = DOMAIN prices \cup {i} /\ prices'[i] = new
        /\ \A j \in DOMAIN prices : j # i => prices'[j] = prices[j] BY <2>2 DEF With
  <2>4. (new.status = "success") = (new.sources # {}) BY <1>3, <1>4, <2>1
  <2>. QED BY <1>5, <1>7, <2>3, <2>4 DEF PricesHaveSites
<1>. QED BY <1>2, <1>6, <1>7 DEF SavePrices

LEMMA DeleteSitePrices ==
  ASSUME PricesHaveSites, NEW i, DeleteSite(i) PROVE PricesHaveSites'
<1>1. sites' = Less(sites, {i}) /\ prices' = Less(prices, {i}) BY DEF DeleteSite
<1>2. /\ DOMAIN sites' = DOMAIN sites \ {i} /\ DOMAIN prices' = DOMAIN prices \ {i}
      /\ \A j \in DOMAIN prices \ {i} : prices'[j] = prices[j] BY <1>1, LessFacts
<1>. QED BY <1>2 DEF PricesHaveSites

LEMMA ProbeSiteSites == ASSUME ProbeSite PROVE DOMAIN sites' = DOMAIN sites
<1>. DEFINE i == Head(probe.sites)
<1>1. sites' = sites \/ \E h \in Healths : sites' = [sites EXCEPT ![i].health = h] BY DEF ProbeSite
<1>. QED BY <1>1

\* What makes or finds a site adds no other.
Adds(i) == DOMAIN sites' = DOMAIN sites \cup {i}

LEMMA SiteOfAdds == ASSUME NEW c, NEW i, NEW h, SiteOf(c, i, h) PROVE Adds(i)
BY WithFacts DEF SiteOf, Adds

LEMMA InsertAdds ==
  ASSUME NEW c, NEW i, NEW kind, NEW h, Insert(c, i, kind, h) PROVE Adds(i) \/ sites' = sites
BY WithFacts DEF Insert, Adds

LEMMA EnsureSiteSites ==
  ASSUME NEW c, NEW kind, EnsureSite(c, kind)
  PROVE  \/ sites' = sites /\ Changes({Chan(c)})
         \/ \E i : Adds(i) /\ Changes({i, Chan(c)})
<1>1. CASE kind \notin Managed BY <1>1 DEF EnsureSite
<1>2. CASE kind \in Managed
  <2>1. \E i, h : SiteOf(c, i, h) /\ Changes({i, Chan(c)}) BY <1>2 DEF EnsureSite
  <2>. QED BY <2>1, SiteOfAdds
<1>. QED BY <1>1, <1>2

\* The requests that make a site and its channel by hand.
LEMMA ManualSites ==
  ASSUME NEW c, CreateUpstreamSite(c) \/ EnsureManualSite(c) \/ UpsertLegacySite(c)
  PROVE  /\ prices' = prices
         /\ \E i, kind, h :
              Insert(c, i, kind, h) /\ (Changes({i, Chan(c)}) \/ Unclear({i, Chan(c)}))
BY DEF CreateUpstreamSite, EnsureManualSite, UpsertLegacySite

LEMMA ImportChannelSites ==
  ASSUME NEW c, ImportChannel(c)
  PROVE  \E i : Adds(i) /\ (Changes({i, Chan(c)}) \/ Unclear({i, Chan(c)}))
BY SiteOfAdds DEF ImportChannel

\* The steps that leave the sites alone and the prices too, and those that do not.
LEMMA OtherPrices ==
  ASSUME [CatalogNext]_catalog
  PROVE  \/ UNCHANGED prices /\ DOMAIN sites \subseteq DOMAIN sites'
         \/ SyncSitePricing \/ \E i \in DOMAIN sites : DeleteSite(i)
<1>. DEFINE Same == UNCHANGED prices /\ DOMAIN sites \subseteq DOMAIN sites'
<1>1. ASSUME UNCHANGED catalog PROVE Same BY <1>1 DEF catalog, tables
<1>2. ASSUME NEW b, StartModelSync(b) PROVE Same BY <1>2 DEF StartModelSync, tables
<1>3. ASSUME NEW b, SyncChannel(b) PROVE Same BY <1>3 DEF SyncChannel
<1>4. ASSUME StartPricingSync PROVE Same BY <1>4 DEF StartPricingSync, tables
<1>5. ASSUME NEW risky, StartProbe(risky) PROVE Same BY <1>5 DEF StartProbe, tables
<1>6. ASSUME ProbeSite PROVE Same BY <1>6, ProbeSiteSites DEF ProbeSite
<1>7. ASSUME ProbeChannel PROVE Same BY <1>7 DEF ProbeChannel
<1>8. ASSUME EndProbe PROVE Same BY <1>8 DEF EndProbe, tables
<1>9. ASSUME NEW c, NEW state, SetStatus(c, state) PROVE Same BY <1>9 DEF SetStatus
<1>10. ASSUME NEW from, NEW to, BulkSetStatus(from, to) PROVE Same BY <1>10 DEF BulkSetStatus
<1>11. ASSUME NEW seen, Reconcile(seen) PROVE Same BY <1>11 DEF Reconcile
<1>12. ASSUME NEW c, DetectChannel(c) PROVE Same BY <1>12 DEF DetectChannel
<1>13. ASSUME NEW c, NEW kind, EnsureSite(c, kind) PROVE Same
  BY <1>13, EnsureSiteSites DEF EnsureSite, Adds
<1>14. ASSUME NEW x, ClearCache(x) PROVE Same BY <1>14 DEF ClearCache, tables
<1>15. ASSUME NEW l, RunQuery(l) PROVE Same BY <1>15 DEF RunQuery, tables
<1>16. ASSUME NEW l, Store(l) PROVE Same BY <1>16 DEF Store, tables
<1>17. ASSUME NEW l, NEW k, Ask(l, k) PROVE Same BY <1>17 DEF Ask, tables
<1>18. ASSUME NEW k, Expire(k) PROVE Same BY <1>18 DEF Expire, tables
<1>19. ASSUME NEW w, BeginSync(w) PROVE Same BY <1>19 DEF BeginSync
<1>20. ASSUME NEW c, ImportChannel(c) PROVE Same
  BY <1>20, ImportChannelSites DEF ImportChannel, Adds
<1>21. ASSUME NEW c, CreateUpstreamSite(c) \/ EnsureManualSite(c) \/ UpsertLegacySite(c)
       PROVE  Same
  BY <1>21, ManualSites, InsertAdds DEF Adds
<1>22. ASSUME NEW b, UpdateManualSite(b) PROVE Same BY <1>22 DEF UpdateManualSite
<1>. HIDE DEF Same
<1>23. ASSUME CatalogNext PROVE Same \/ SyncSitePricing \/ \E i \in DOMAIN sites : DeleteSite(i)
  BY <1>2, <1>3, <1>4, <1>5, <1>6, <1>7, <1>8, <1>9, <1>10, <1>11, <1>12, <1>13, <1>14, <1>15,
     <1>16, <1>17, <1>18, <1>19, <1>20, <1>21, <1>22, <1>23 DEF CatalogNext
<1>. QED BY <1>1, <1>23 DEF Same

LEMMA PricesStep == ASSUME PricesHaveSites, [CatalogNext]_catalog PROVE PricesHaveSites'
BY OtherPrices, SamePrices, SyncSitePricingPrices, DeleteSitePrices

LEMMA PricesInit == ASSUME CatalogInit PROVE PricesHaveSites
BY DEF CatalogInit, PricesHaveSites

\* Every row of site_pricing_cache is of a site that exists and a success exactly when
\* it has sources: whenever SyncSitePricing ends that began before DeleteUpstreamSite.
THEOREM PricesOfSites == CatalogSpec => []PricesHaveSites
<1>1. CatalogInit => PricesHaveSites BY PricesInit
<1>2. PricesHaveSites /\ [CatalogNext]_catalog => PricesHaveSites' BY PricesStep
<1>. QED BY <1>1, <1>2, PTL DEF CatalogSpec

-------------------------------------------------------------------------------
(* Reads *)

\* Below, chs stands for what channels is and there for the sites that exist.

Fields == {"state", "since", "kind", "models"}
Rows == DOMAIN channels = Channels /\ \A c \in Channels : DOMAIN channels[c] = Fields

\* A row of channels is of a channel, a source of a raw configuration of no site.
Fine(query, rows) ==
  /\ query = "channels" => \A r \in rows : r.channel \in Channels
  /\ query = "raw" => \A r \in rows : r.of[2] = 0

\* Of what rows, read by a query, say, the sites and channels that are no more so.
Stale(query, rows, chs, there) ==
  CASE query = "sites" -> ({r.site : r \in rows} \ there) \cup (there \ {r.site : r \in rows})
    [] query = "channels" -> {Chan(r.channel) : r \in {q \in rows : chs[q.channel].state # q.state}}
    [] query \in {"prices", "accounts"} -> {r.site : r \in rows} \ there
    [] OTHER -> {}

\* The same of a value that the key k may have, as WrongRows has it of the one cached.
Shown(k, v) ==
  CASE k = "upstream-sites-list" -> {r.site : r \in v}
    [] k \in {"channel-health-overview", "models-overview"} -> DOMAIN v.sites
    [] k = "models-pricing" ->
         {i \in v.caches \cup UNION {v.models[m].sites : m \in DOMAIN v.models} : i[2] # 0}
    [] OTHER -> {}

Wrong(k, v, chs, there) ==
  IF k = "channels-list" THEN Stale("channels", v, chs, there)
  ELSE (Shown(k, v) \ there) \cup IF k = "upstream-sites-list" THEN there \ Shown(k, v) ELSE {}

\* A load knows what changed since the queries it ran.
Loading(load, chs, there) ==
  /\ DOMAIN load = DOMAIN Idle /\ load.key \in DOMAIN Queries /\ load.at \in 0..Len(Queries[load.key])
  /\ load.got = [n \in 1..load.at |-> load.got[n]]
  /\ \A n \in 1..load.at :
       /\ Fine(Queries[load.key][n], load.got[n])
       /\ Stale(Queries[load.key][n], load.got[n], chs, there) \subseteq load.late

Loads ==
  DOMAIN loads = Loaders /\ \A l \in Loaders : loads[l] = Idle \/ Loading(loads[l], channels, DOMAIN sites)

\* What is cached may be of none but a key of Queries.
Cached ==
  /\ DOMAIN late = DOMAIN cache /\ DOMAIN cache \subseteq DOMAIN Queries
  /\ \A k \in DOMAIN cache :
       /\ k = "channels-list" => Fine("channels", cache[k])
       /\ Wrong(k, cache[k], channels, DOMAIN sites) \subseteq late[k] \cup clearing

Reads == PricesHaveSites /\ Rows /\ Loads /\ Cached

LEMMA QueriesFacts ==
  /\ DOMAIN Queries = {"upstream-sites-list", "channels-list", "channel-health-overview",
                       "models-pricing", "models-overview"}
  /\ Queries["upstream-sites-list"] = <<"sites">> /\ Queries["channels-list"] = <<"channels">>
  /\ Queries["channel-health-overview"] = <<"sites", "models">>
  /\ Queries["models-pricing"] = <<"raw", "prices", "accounts">>
  /\ Queries["models-overview"] = <<"accounts">>
BY DEF Queries

LEMMA ReadsSettled == ASSUME Reads PROVE SettledWritesAreSeen
<1>1. SUFFICES ASSUME NEW k \in DOMAIN cache PROVE WrongRows(k) \subseteq late[k] \cup clearing
  BY DEF SettledWritesAreSeen
<1>2. Wrong(k, cache[k], channels, DOMAIN sites) \subseteq late[k] \cup clearing BY DEF Reads, Cached
<1>3. ShownSites(k) = Shown(k, cache[k]) BY DEF ShownSites, Shown
<1>4. WrongRows(k) = Wrong(k, cache[k], channels, DOMAIN sites)
  <2>1. CASE k = "channels-list" BY <2>1 DEF WrongRows, Wrong, Stale
  <2>2. CASE k # "channels-list" BY <1>3, <2>2 DEF WrongRows, Wrong
  <2>. QED BY <2>1, <2>2
<1>. QED BY <1>2, <1>4

\* Between two moments no more changed than things.
Shifted(chs, there, chs2, there2, things) ==
  /\ (there \ there2) \cup (there2 \ there) \subseteq things
  /\ \A c \in Channels : chs2[c].state # chs[c].state => Chan(c) \in things

Shifts(things) == Shifted(channels, DOMAIN sites, channels', DOMAIN sites', things)

LEMMA StaleGrows ==
  ASSUME NEW chs, NEW there, NEW chs2, NEW there2, NEW things,
         Shifted(chs, there, chs2, there2, things), NEW query, NEW rows, Fine(query, rows)
  PROVE  Stale(query, rows, chs2, there2) \subseteq Stale(query, rows, chs, there) \cup things
<1>1. CASE query = "channels" BY <1>1 DEF Stale, Shifted, Fine
<1>2. CASE query = "sites" BY <1>2 DEF Stale, Shifted
<1>3. CASE query \in {"prices", "accounts"} BY <1>3 DEF Stale, Shifted
<1>4. CASE query \notin {"channels", "sites", "prices", "accounts"} BY <1>4 DEF Stale
<1>. QED BY <1>1, <1>2, <1>3, <1>4

LEMMA WrongGrows ==
  ASSUME NEW chs, NEW there, NEW chs2, NEW there2, NEW things,
         Shifted(chs, there, chs2, there2, things), NEW k, NEW v,
         k = "channels-list" => Fine("channels", v)
  PROVE  Wrong(k, v, chs2, there2) \subseteq Wrong(k, v, chs, there) \cup things
<1>1. CASE k = "channels-list" BY <1>1, StaleGrows DEF Wrong
<1>2. CASE k # "channels-list" BY <1>2 DEF Wrong, Shifted
<1>. QED BY <1>1, <1>2

LEMMA LoadingGrows ==
  ASSUME NEW chs, NEW there, NEW chs2, NEW there2, NEW things,
         Shifted(chs, there, chs2, there2, things), NEW load, Loading(load, chs, there), NEW x,
         DOMAIN x = DOMAIN load, x.key = load.key, x.at = load.at, x.got = load.got,
         load.late \cup things \subseteq x.late
  PROVE  Loading(x, chs2, there2)
<1>1. ASSUME NEW n \in 1..x.at
      PROVE  /\ Fine(Queries[x.key][n], x.got[n])
             /\ Stale(Queries[x.key][n], x.got[n], chs2, there2) \subseteq x.late
  <2>1. /\ Fine(Queries[load.key][n], load.got[n])
        /\ Stale(Queries[load.key][n], load.got[n], chs, there) \subseteq load.late
    BY DEF Loading
  <2>2. Stale(Queries[load.key][n], load.got[n], chs2, there2)
          \subseteq Stale(Queries[load.key][n], load.got[n], chs, there) \cup things
    BY <2>1, StaleGrows
  <2>. QED BY <2>1, <2>2
<1>2. /\ DOMAIN load = DOMAIN Idle /\ load.key \in DOMAIN Queries
      /\ load.at \in 0..Len(Queries[load.key]) /\ load.got = [n \in 1..load.at |-> load.got[n]]
  BY DEF Loading
<1>. QED BY <1>1, <1>2 DEF Loading

\* A step that changes things and leaves the cache, late or clearing knowing of it.
Tells(things) ==
  /\ (things = {} /\ loads' = loads) \/ Missed(things)
  /\ cache' = cache /\ DOMAIN late' = DOMAIN late
  /\ \A k \in DOMAIN cache : late[k] \cup clearing \cup things \subseteq late'[k] \cup clearing'

\* A step that drops keys of the cache.
Drops(keys) ==
  /\ loads' = loads /\ cache' = Less(cache, keys) /\ late' = Less(late, keys)
  /\ clearing' = clearing \/ keys = DOMAIN cache

LEMMA LoadsGrow == ASSUME Loads, NEW things, Shifts(things), Tells(things) PROVE Loads'
<1>1. CASE things = {} /\ loads' = loads
  <2>1. ASSUME NEW l \in Loaders, loads[l] # Idle PROVE Loading(loads[l], channels', DOMAIN sites')
    <3>1. Loading(loads[l], channels, DOMAIN sites) BY <2>1 DEF Loads
    <3>. QED BY <1>1, <3>1, LoadingGrows DEF Shifts
  <2>. QED BY <1>1, <2>1 DEF Loads
<1>2. CASE Missed(things)
  <2>1. DOMAIN loads' = Loaders BY <1>2 DEF Missed
  <2>2. ASSUME NEW l \in Loaders, loads[l] # Idle, loads[l].at # 0
        PROVE  Loading(loads'[l], channels', DOMAIN sites')
    <3>1. Loading(loads[l], channels, DOMAIN sites) BY <2>2 DEF Loads
    <3>. DEFINE x == [loads[l] EXCEPT !.late = @ \cup things]
    <3>2. loads'[l] = x BY <1>2, <2>2 DEF Missed
    <3>3. DOMAIN loads[l] = {"key", "at", "got", "late"} BY <3>1 DEF Loading, Idle
    <3>4. /\ DOMAIN x = DOMAIN loads[l] /\ x.key = loads[l].key /\ x.at = loads[l].at
          /\ x.got = loads[l].got /\ x.late = loads[l].late \cup things BY <3>3
    <3>. HIDE DEF x
    <3>5. Loading(x, channels', DOMAIN sites') BY <3>1, <3>4, LoadingGrows DEF Shifts
    <3>. QED BY <3>2, <3>5
  <2>3. ASSUME NEW l \in Loaders, loads[l] # Idle, loads[l].at = 0
        PROVE  Loading(loads'[l], channels', DOMAIN sites')
    <3>1. Loading(loads[l], channels, DOMAIN sites) /\ loads'[l] = loads[l]
      BY <1>2, <2>3 DEF Loads, Missed
    <3>2. \A n \in 1..0 : FALSE OBVIOUS
    <3>. QED BY <2>3, <3>1, <3>2 DEF Loading
  <2>4. ASSUME NEW l \in Loaders, loads[l] = Idle PROVE loads'[l] = Idle
    BY <1>2, <2>4 DEF Missed, Idle
  <2>. QED BY <2>1, <2>2, <2>3, <2>4 DEF Loads
<1>. QED BY <1>1, <1>2 DEF Tells

LEMMA CachedGrows == ASSUME Cached, NEW things, Shifts(things), Tells(things) PROVE Cached'
<1>1. ASSUME NEW k \in DOMAIN cache
      PROVE  Wrong(k, cache[k], channels', DOMAIN sites') \subseteq late'[k] \cup clearing'
  <2>1. /\ k = "channels-list" => Fine("channels", cache[k])
        /\ Wrong(k, cache[k], channels, DOMAIN sites) \subseteq late[k] \cup clearing BY DEF Cached
  <2>2. Wrong(k, cache[k], channels', DOMAIN sites')
          \subseteq Wrong(k, cache[k], channels, DOMAIN sites) \cup things
    BY <2>1, WrongGrows DEF Shifts
  <2>3. late[k] \cup clearing \cup things \subseteq late'[k] \cup clearing' BY DEF Tells
  <2>. QED BY <2>1, <2>2, <2>3
<1>2. cache' = cache /\ DOMAIN late' = DOMAIN late BY DEF Tells
<1>. QED BY <1>1, <1>2 DEF Cached

LEMMA DropsKeep == ASSUME Loads, Cached, UNCHANGED <<channels, sites>>, NEW keys, Drops(keys)
                   PROVE  Loads' /\ Cached'
<1>1. Loads' BY DEF Loads, Drops
<1>2. /\ DOMAIN cache' = DOMAIN cache \ keys /\ DOMAIN late' = DOMAIN late \ keys
      /\ \A k \in DOMAIN cache \ keys : cache'[k] = cache[k]
      /\ \A k \in DOMAIN late \ keys : late'[k] = late[k]
  BY LessFacts DEF Drops
<1>3. ASSUME NEW k \in DOMAIN cache'
      PROVE  /\ k = "channels-list" => Fine("channels", cache'[k])
             /\ Wrong(k, cache'[k], channels', DOMAIN sites') \subseteq late'[k] \cup clearing'
  <2>1. k \in DOMAIN cache \ keys /\ k \in DOMAIN late \ keys BY <1>2, <1>3 DEF Cached
  <2>2. cache'[k] = cache[k] /\ late'[k] = late[k] BY <1>2, <2>1
  <2>3. clearing' = clearing BY <2>1 DEF Drops
  <2>. QED BY <2>1, <2>2, <2>3 DEF Cached
<1>. QED BY <1>1, <1>2, <1>3 DEF Cached

LEMMA QuietTells == ASSUME UNCHANGED <<cache, loads, late, clearing>> PROVE Tells({})
BY DEF Tells

LEMMA ChangesTells == ASSUME NEW things, Changes(things) PROVE Tells(things)
BY DEF Changes, Tells

LEMMA UnclearTells == ASSUME Cached, NEW things, Unclear(things) PROVE Tells(things)
<1>1. /\ DOMAIN late' = DOMAIN late /\ \A k \in DOMAIN late : late'[k] = late[k] \cup things
      /\ Missed(things) /\ cache' = cache /\ clearing' = clearing
  BY DEF Unclear
<1>. QED BY <1>1 DEF Tells, Cached

LEMMA SameRows == ASSUME Rows, UNCHANGED channels, NEW things,
                         (DOMAIN sites \ DOMAIN sites') \cup (DOMAIN sites' \ DOMAIN sites) \subseteq things
                  PROVE  Rows' /\ Shifts(things)
BY DEF Rows, Shifts, Shifted

LEMMA SetRow ==
  ASSUME Rows, NEW c, NEW row, c \in Channels => DOMAIN row = Fields,
         channels' = [channels EXCEPT ![c] = row], UNCHANGED sites
  PROVE  /\ Rows' /\ Shifts({Chan(c)})
         /\ (c \in Channels => row.state = channels[c].state) => Shifts({})
BY DEF Rows, Shifts, Shifted

LEMMA SaveModelsRows ==
  ASSUME Rows, NEW w, NEW c, SaveModels(w, c), UNCHANGED sites PROVE Rows' /\ Shifts({})
<1>1. CASE UNCHANGED channels BY <1>1, SameRows
<1>2. ASSUME NEW v, channels' = [channels EXCEPT ![c].models = v] PROVE Rows' /\ Shifts({})
  <2>. DEFINE row == [channels[c] EXCEPT !.models = v]
  <2>1. c \in Channels => DOMAIN row = Fields /\ row.state = channels[c].state BY DEF Rows, Fields
  <2>2. channels' = [channels EXCEPT ![c] = row] BY <1>2
  <2>. HIDE DEF row
  <2>. QED BY <2>1, <2>2, SetRow
<1>. QED BY <1>1, <1>2 DEF SaveModels

LEMMA DetectChannelRows ==
  ASSUME Rows, NEW c, DetectChannel(c) PROVE Rows' /\ Shifts({})
<1>1. PICK v : channels' = [channels EXCEPT ![c].kind = v] BY DEF DetectChannel
<1>. DEFINE row == [channels[c] EXCEPT !.kind = v]
<1>2. c \in Channels => DOMAIN row = Fields /\ row.state = channels[c].state BY DEF Rows, Fields
<1>3. channels' = [channels EXCEPT ![c] = row] /\ sites' = sites BY <1>1 DEF DetectChannel
<1>. HIDE DEF row
<1>. QED BY <1>2, <1>3, SetRow

LEMMA WithStateFacts ==
  ASSUME NEW row, DOMAIN row = Fields, NEW state
  PROVE  DOMAIN WithState(row, state) = Fields /\ WithState(row, state).state = state
<1>. DEFINE half == [row EXCEPT !.state = state]
            since == IF state = "active" THEN NotMissing
                     ELSE IF half.since = NotMissing THEN requests + 1 ELSE half.since
            full == [half EXCEPT !.since = since]
<1>1. WithState(row, state) = full BY DEF WithState
<1>2. DOMAIN half = Fields /\ half.state = state BY DEF Fields
<1>. HIDE DEF half
<1>3. DOMAIN full = Fields /\ full.state = half.state BY <1>2 DEF Fields
<1>. HIDE DEF full
<1>. QED BY <1>1, <1>2, <1>3

LEMMA SetStatusRows ==
  ASSUME Rows, NEW c, NEW state, SetStatus(c, state) PROVE Rows' /\ Shifts({Chan(c)})
<1>. DEFINE row == WithState(channels[c], state)
<1>1. channels' = [channels EXCEPT ![c] = row] /\ sites' = sites BY DEF SetStatus
<1>2. c \in Channels => DOMAIN row = Fields BY WithStateFacts DEF Rows
<1>. HIDE DEF row
<1>. QED BY <1>1, <1>2, SetRow

LEMMA SomeRows ==
  ASSUME Rows, NEW S, UNCHANGED sites, DOMAIN channels' = Channels,
         \A c \in Channels : DOMAIN channels'[c] = Fields /\ (c \notin S => channels'[c] = channels[c])
  PROVE  Rows' /\ Shifts({Chan(c) : c \in S})
BY DEF Rows, Shifts, Shifted

LEMMA BulkSetStatusRows ==
  ASSUME Rows, NEW from, NEW to, BulkSetStatus(from, to)
  PROVE  Rows' /\ \E things : Shifts(things) /\ Tells(things)
<1>. DEFINE S == {d \in Channels : channels[d].state = from}
<1>1. /\ sites' = sites /\ Changes({Chan(c) : c \in S})
      /\ channels' = [c \in Channels |->
           IF channels[c].state = from THEN WithState(channels[c], to) ELSE channels[c]]
  BY DEF BulkSetStatus
<1>2. \A c \in Channels : DOMAIN WithState(channels[c], to) = Fields BY WithStateFacts DEF Rows
<1>3. DOMAIN channels' = Channels BY <1>1
<1>4. \A c \in Channels : DOMAIN channels'[c] = Fields /\ (c \notin S => channels'[c] = channels[c])
  BY <1>1, <1>2 DEF Rows
<1>. HIDE DEF S
<1>5. Rows' /\ Shifts({Chan(c) : c \in S}) BY <1>1, <1>3, <1>4, SomeRows
<1>. QED BY <1>1, <1>5, ChangesTells

LEMMA ReconcileRows ==
  ASSUME Rows, Cached, NEW seen, Reconcile(seen)
  PROVE  Rows' /\ \E things : Shifts(things) /\ Tells(things)
<1>. DEFINE things == {Chan(c) : c \in Channels}
<1>1. /\ sites' = sites /\ Unclear(things)
      /\ channels' = [c \in Channels |->
           IF c \in Manual \/ ~Exists(c) THEN channels[c]
           ELSE WithState(channels[c], IF c \in seen THEN "active" ELSE "missing")]
  BY DEF Reconcile
<1>2. \A c \in Channels : \A state : DOMAIN WithState(channels[c], state) = Fields
  BY WithStateFacts DEF Rows
<1>3. DOMAIN channels' = Channels /\ \A c \in Channels : DOMAIN channels'[c] = Fields
  BY <1>1, <1>2 DEF Rows
<1>4. Rows' /\ Shifts(things) BY <1>1, <1>3, SomeRows
<1>. QED BY <1>1, <1>4, UnclearTells

\* A row of a channel written with the site made for it.
LEMMA RowAndSite ==
  ASSUME Rows, Cached, NEW c, NEW row, c \in Channels => DOMAIN row = Fields,
         channels' = [channels EXCEPT ![c] = row], NEW i, Adds(i) \/ sites' = sites,
         Changes({i, Chan(c)}) \/ Unclear({i, Chan(c)})
  PROVE  Rows' /\ \E things : Shifts(things) /\ Tells(things)
<1>1. Rows' BY DEF Rows
<1>2. Shifts({i, Chan(c)})
  <2>1. (DOMAIN sites \ DOMAIN sites') \cup (DOMAIN sites' \ DOMAIN sites) \subseteq {i}
    BY DEF Adds
  <2>2. \A d \in Channels : d # c => channels'[d] = channels[d] BY DEF Rows
  <2>. QED BY <2>1, <2>2 DEF Shifts, Shifted
<1>. QED BY <1>1, <1>2, ChangesTells, UnclearTells

LEMMA ImportChannelRows ==
  ASSUME Rows, Cached, NEW c, ImportChannel(c)
  PROVE  Rows' /\ \E things : Shifts(things) /\ Tells(things)
<1>. DEFINE half == WithState(channels[c], "active")
            row == [half EXCEPT !.kind = "newapi"]
<1>1. channels' = [channels EXCEPT ![c] = row] BY DEF ImportChannel
<1>2. c \in Channels => DOMAIN half = Fields BY WithStateFacts DEF Rows
<1>. HIDE DEF half
<1>3. c \in Channels => DOMAIN row = Fields BY <1>2
<1>. HIDE DEF row
<1>4. PICK i : Adds(i) /\ (Changes({i, Chan(c)}) \/ Unclear({i, Chan(c)})) BY ImportChannelSites
<1>. QED BY <1>1, <1>3, <1>4, RowAndSite

LEMMA ManualRows ==
  ASSUME Rows, Cached, NEW c,
         CreateUpstreamSite(c) \/ EnsureManualSite(c) \/ UpsertLegacySite(c)
  PROVE  Rows' /\ \E things : Shifts(things) /\ Tells(things)
<1>1. PICK i, kind, h :
        Insert(c, i, kind, h) /\ (Changes({i, Chan(c)}) \/ Unclear({i, Chan(c)}))
  BY ManualSites
<1>. DEFINE row == [Row("active", NotMissing) EXCEPT !.kind = kind]
<1>2. channels' = [channels EXCEPT ![c] = row] BY <1>1 DEF Insert
<1>3. DOMAIN row = Fields BY DEF Row, Fields
<1>. HIDE DEF row
<1>4. Adds(i) \/ sites' = sites BY <1>1, InsertAdds
<1>. QED BY <1>1, <1>2, <1>3, <1>4, RowAndSite

LEMMA EnsureSiteRows ==
  ASSUME Rows, NEW c, NEW kind, EnsureSite(c, kind)
  PROVE  Rows' /\ \E things : Shifts(things) /\ Tells(things)
<1>1. channels' = channels BY DEF EnsureSite
<1>2. CASE sites' = sites /\ Changes({Chan(c)}) BY <1>1, <1>2, SameRows, ChangesTells
<1>3. ASSUME NEW i, Adds(i), Changes({i, Chan(c)})
      PROVE  Rows' /\ \E things : Shifts(things) /\ Tells(things)
  <2>1. Rows' /\ Shifts({i, Chan(c)}) BY <1>1, <1>3, SameRows DEF Adds
  <2>. QED BY <1>3, <2>1, ChangesTells
<1>. QED BY <1>2, <1>3, EnsureSiteSites

LEMMA DeleteSiteRows ==
  ASSUME Rows, NEW i, DeleteSite(i)
  PROVE  Rows' /\ \E things : Shifts(things) /\ Tells(things)
<1>1. channels' = channels /\ sites' = Less(sites, {i}) /\ Changes({i}) BY DEF DeleteSite
<1>2. DOMAIN sites' = DOMAIN sites \ {i} BY <1>1, LessFacts
<1>3. Rows' /\ Shifts({i}) BY <1>1, <1>2, SameRows
<1>. QED BY <1>1, <1>3, ChangesTells

\* Every step but one of a load changes what the reads are told of, or drops keys.
LEMMA TableSteps ==
  ASSUME Rows, Cached, [CatalogNext]_catalog
  PROVE  \/ Rows' /\ \E things : Shifts(things) /\ Tells(things)
         \/ UNCHANGED <<channels, sites>> /\ \E keys : Drops(keys)
         \/ \E l \in Loaders : RunQuery(l) \/ Store(l) \/ \E k \in DOMAIN Queries : Ask(l, k)
<1>. DEFINE Told == Rows' /\ \E things : Shifts(things) /\ Tells(things)
            Dropped == UNCHANGED <<channels, sites>> /\ \E keys : Drops(keys)
            Quiet == UNCHANGED <<cache, loads, late, clearing>>
<1>1. ASSUME Quiet, Rows', Shifts({}) PROVE Told BY <1>1, QuietTells
<1>2. ASSUME Quiet, UNCHANGED <<channels, sites>> PROVE Told BY <1>1, <1>2, SameRows
<1>3. ASSUME UNCHANGED catalog PROVE Told
  <2>1. Quiet /\ UNCHANGED <<channels, sites>> BY <1>3 DEF catalog, tables, reading
  <2>. QED BY <1>2, <2>1
<1>4. ASSUME NEW b, StartModelSync(b) PROVE Told
  <2>1. Quiet /\ UNCHANGED <<channels, sites>> BY <1>4 DEF StartModelSync, tables, reading
  <2>. QED BY <1>2, <2>1
<1>5. ASSUME NEW b, SyncChannel(b) PROVE Told
  <2>1. Quiet /\ UNCHANGED sites /\ SaveModels(b, Head(batches[b])) BY <1>5 DEF SyncChannel, reading
  <2>. QED BY <1>1, <2>1, SaveModelsRows
<1>6. ASSUME StartPricingSync PROVE Told
  <2>1. Quiet /\ UNCHANGED <<channels, sites>> BY <1>6 DEF StartPricingSync, tables, reading
  <2>. QED BY <1>2, <2>1
<1>7. ASSUME SyncSitePricing PROVE Told
  <2>1. Quiet /\ UNCHANGED <<channels, sites>> BY <1>7 DEF SyncSitePricing, reading
  <2>. QED BY <1>2, <2>1
<1>8. ASSUME NEW risky, StartProbe(risky) PROVE Told
  <2>1. Quiet /\ UNCHANGED <<channels, sites>> BY <1>8 DEF StartProbe, tables, reading
  <2>. QED BY <1>2, <2>1
<1>9. ASSUME ProbeSite PROVE Told
  <2>1. Quiet /\ UNCHANGED channels BY <1>9 DEF ProbeSite, reading
  <2>2. Rows' /\ Shifts({}) BY <1>9, <2>1, ProbeSiteSites, SameRows
  <2>. QED BY <1>1, <2>1, <2>2
<1>10. ASSUME ProbeChannel PROVE Told
  <2>1. Quiet /\ UNCHANGED sites /\ SaveModels("probe", Head(probe.channels))
    BY <1>10 DEF ProbeChannel, reading
  <2>. QED BY <1>1, <2>1, SaveModelsRows
<1>11. ASSUME EndProbe PROVE Dropped
  <2>1. Drops({"channel-health-overview", "channels-list"}) BY <1>11 DEF EndProbe, Drops
  <2>2. UNCHANGED <<channels, sites>> BY <1>11 DEF EndProbe, tables
  <2>. QED BY <2>1, <2>2
<1>12. ASSUME NEW c, NEW state, SetStatus(c, state) PROVE Told
  <2>1. Changes({Chan(c)}) BY <1>12 DEF SetStatus
  <2>. QED BY <1>12, <2>1, SetStatusRows, ChangesTells
<1>13. ASSUME NEW from, NEW to, BulkSetStatus(from, to) PROVE Told BY <1>13, BulkSetStatusRows
<1>14. ASSUME NEW seen, Reconcile(seen) PROVE Told BY <1>14, ReconcileRows
<1>15. ASSUME NEW c, DetectChannel(c) PROVE Told
  <2>1. Quiet BY <1>15 DEF DetectChannel, reading
  <2>. QED BY <1>1, <1>15, <2>1, DetectChannelRows
<1>16. ASSUME NEW c, NEW kind, EnsureSite(c, kind) PROVE Told BY <1>16, EnsureSiteRows
<1>17. ASSUME NEW i, DeleteSite(i) PROVE Told BY <1>17, DeleteSiteRows
<1>18. ASSUME NEW x, ClearCache(x) PROVE Dropped
  <2>1. Drops(DOMAIN cache) BY <1>18 DEF ClearCache, Drops, Cleared, tables
  <2>2. UNCHANGED <<channels, sites>> BY <1>18 DEF ClearCache, tables
  <2>. QED BY <2>1, <2>2
<1>19. ASSUME NEW k, Expire(k) PROVE Dropped
  <2>1. Drops({k}) BY <1>19 DEF Expire, Drops
  <2>2. UNCHANGED <<channels, sites>> BY <1>19 DEF Expire, tables
  <2>. QED BY <2>1, <2>2
<1>20. ASSUME NEW w, BeginSync(w) PROVE Told
  <2>1. Quiet /\ UNCHANGED <<channels, sites>> BY <1>20 DEF BeginSync, reading
  <2>. QED BY <1>2, <2>1
<1>21. ASSUME NEW c, ImportChannel(c) PROVE Told BY <1>21, ImportChannelRows
<1>22. ASSUME NEW c, CreateUpstreamSite(c) \/ EnsureManualSite(c) \/ UpsertLegacySite(c)
       PROVE  Told
  BY <1>22, ManualRows
<1>23. ASSUME NEW b, UpdateManualSite(b) PROVE Told
  <2>1. Quiet /\ UNCHANGED <<channels, sites>> BY <1>23 DEF UpdateManualSite, reading
  <2>. QED BY <1>2, <2>1
<1>. DEFINE Loader == \E l \in Loaders : RunQuery(l) \/ Store(l) \/ \E k \in DOMAIN Queries : Ask(l, k)
<1>. HIDE DEF Told, Dropped, Quiet
<1>24. ASSUME CatalogNext PROVE Told \/ Dropped \/ Loader
  BY <1>4, <1>5, <1>6, <1>7, <1>8, <1>9, <1>10, <1>11, <1>12, <1>13, <1>14, <1>15, <1>16, <1>17,
     <1>18, <1>19, <1>20, <1>21, <1>22, <1>23, <1>24 DEF CatalogNext
<1>. QED BY <1>3, <1>24 DEF Told, Dropped

\* A query reads what there is.
LEMMA AnsweredFacts ==
  ASSUME PricesHaveSites, NEW query \in {"sites", "channels", "models", "raw", "prices", "accounts"},
         NEW rows \in Answered(query)
  PROVE  Fine(query, rows) /\ Stale(query, rows, channels, DOMAIN sites) = {}
<1>1. CASE query = "sites"
  <2>1. rows = SiteRows BY <1>1 DEF Answered
  <2>. DEFINE row(i) ==
         [site |-> i, base |-> i[1], health |-> sites[i].health,
          valid |-> Count(Records, LAMBDA r : r.site = i /\ r.status = "valid"),
          invalid |-> Count(Records, LAMBDA r : r.site = i /\ r.status \notin {"valid", "unchecked"}),
          keys |-> Count(Records, LAMBDA r : r.site = i /\ r.status = "unchecked")]
  <2>2. {r.site : r \in SiteRows} = DOMAIN sites
    <3>1. SiteRows = {row(i) : i \in DOMAIN sites} BY DEF SiteRows
    <3>2. ASSUME NEW i PROVE row(i).site = i BY DEF Count
    <3>. HIDE DEF row
    <3>. QED BY <3>1, <3>2
  <2>. QED BY <1>1, <2>1, <2>2 DEF Fine, Stale
<1>2. CASE query = "channels"
  <2>1. rows = ChannelRows BY <1>2 DEF Answered
  <2>2. \A r \in ChannelRows : r.channel \in Channels /\ r.state = channels[r.channel].state
    BY DEF ChannelRows
  <2>. QED BY <1>2, <2>1, <2>2 DEF Fine, Stale
<1>3. CASE query = "models" BY <1>3 DEF Fine, Stale
<1>4. CASE query = "raw"
  <2>1. rows \in Settlements(RawRows) BY <1>4 DEF Answered
  <2>2. ASSUME NEW s \in RawRows PROVE "of" \in DOMAIN s /\ s.of[2] = 0
    <3>1. PICK c, t : s = With(t, "of", Chan(c)) BY <2>2 DEF RawRows
    <3>2. "of" \in DOMAIN s /\ s.of = Chan(c) BY <3>1 DEF With
    <3>. QED BY <3>2 DEF Chan, Id
  <2>3. ASSUME NEW x \in rows PROVE x.of[2] = 0
    <3>1. PICK s \in RawRows : "of" \in DOMAIN s => x.of = s.of BY <2>1, SettlementFacts
    <3>. QED BY <2>2, <3>1
  <2>. QED BY <1>4, <2>3 DEF Fine, Stale
<1>5. CASE query = "prices"
  <2>1. rows = PriceRows BY <1>5 DEF Answered
  <2>2. ASSUME NEW r \in PriceRows PROVE r.site \in DOMAIN sites
    <3>1. PICK i \in DOMAIN prices : r = With(prices[i], "site", i) BY DEF PriceRows
    <3>2. r.site = i BY <3>1 DEF With
    <3>. QED BY <3>1, <3>2 DEF PricesHaveSites
  <2>. QED BY <1>5, <2>1, <2>2 DEF Fine, Stale
<1>6. CASE query = "accounts"
  <2>1. rows = AccountRows BY <1>6 DEF Answered
  <2>. QED BY <1>6, <2>1 DEF Fine, Stale, AccountRows
<1>. QED BY <1>1, <1>2, <1>3, <1>4, <1>5, <1>6

\* The sites that the overviews speak of are those of the rows they are built of.
LEMMA HealthOverviewSites ==
  ASSUME NEW seen, NEW rows PROVE DOMAIN HealthOverview(seen, rows).sites = {s.site : s \in seen}
BY DEF HealthOverview, Count

LEMMA ModelOverviewSites ==
  ASSUME NEW records PROVE DOMAIN ModelOverview(records).sites = {r.site : r \in records}
BY DEF ModelOverview, Count

LEMMA PricingOverviewSites ==
  ASSUME NEW sources, NEW items, NEW records
  PROVE  LET v == PricingOverview(sources, items, records)
         IN /\ v.caches = {i.site : i \in items}
            /\ \A m \in DOMAIN v.models :
                 v.models[m].sites \subseteq {s.of : s \in sources} \cup {r.site : r \in records}
BY DEF PricingOverview, Count

\* What is built of rows contradicts no more than the rows do.
LEMMA BuiltFacts ==
  ASSUME NEW chs, NEW there, NEW missed, NEW k \in DOMAIN Queries, NEW got,
         \A n \in 1..Len(Queries[k]) :
           Fine(Queries[k][n], got[n]) /\ Stale(Queries[k][n], got[n], chs, there) \subseteq missed
  PROVE  /\ k = "channels-list" => Fine("channels", Built(k, got))
         /\ Wrong(k, Built(k, got), chs, there) \subseteq missed
<1>1. CASE k = "upstream-sites-list"
  <2>1. Stale("sites", got[1], chs, there) \subseteq missed BY <1>1, QueriesFacts
  <2>2. Built(k, got) = got[1] BY <1>1 DEF Built
  <2>. QED BY <1>1, <2>1, <2>2 DEF Wrong, Shown, Stale
<1>2. CASE k = "channels-list"
  <2>1. Fine("channels", got[1]) /\ Stale("channels", got[1], chs, there) \subseteq missed
    BY <1>2, QueriesFacts
  <2>2. Built(k, got) = got[1] BY <1>2 DEF Built
  <2>. QED BY <1>2, <2>1, <2>2 DEF Wrong
<1>3. CASE k = "channel-health-overview"
  <2>1. Stale("sites", got[1], chs, there) \subseteq missed
    <3>1. 1 \in 1..Len(Queries[k]) /\ Queries[k][1] = "sites" BY <1>3, QueriesFacts
    <3>. QED BY <3>1
  <2>2. Built(k, got) = HealthOverview(got[1], got[2]) BY <1>3 DEF Built
  <2>3. Shown(k, Built(k, got)) = {s.site : s \in got[1]}
    BY <1>3, <2>2, HealthOverviewSites DEF Shown
  <2>. QED BY <1>3, <2>1, <2>3 DEF Wrong, Stale
<1>4. CASE k = "models-overview"
  <2>1. Stale("accounts", got[1], chs, there) \subseteq missed BY <1>4, QueriesFacts
  <2>2. Built(k, got) = ModelOverview(got[1]) BY <1>4 DEF Built
  <2>3. Shown(k, Built(k, got)) = {s.site : s \in got[1]}
    BY <1>4, <2>2, ModelOverviewSites DEF Shown
  <2>. QED BY <1>4, <2>1, <2>3 DEF Wrong, Stale
<1>5. CASE k = "models-pricing"
  <2>. DEFINE extra == UNION {{With(s, "of", i.site) : s \in i.sources} : i \in got[2]}
              sources == got[1] \cup extra
              v == PricingOverview(sources, got[2], got[3])
  <2>1. /\ Fine("raw", got[1]) /\ Stale("prices", got[2], chs, there) \subseteq missed
        /\ Stale("accounts", got[3], chs, there) \subseteq missed
    <3>1. \A n \in 1..3 : n \in 1..Len(Queries[k]) BY <1>5, QueriesFacts
    <3>2. Queries[k][1] = "raw" /\ Queries[k][2] = "prices" /\ Queries[k][3] = "accounts"
      BY <1>5, QueriesFacts
    <3>. QED BY <3>1, <3>2
  <2>2. ASSUME NEW s \in extra PROVE s.of \in {i.site : i \in got[2]}
    <3>1. PICK i \in got[2] : \E t : s = With(t, "of", i.site) BY <2>2
    <3>2. s.of = i.site BY <3>1 DEF With
    <3>. QED BY <3>2
  <2>3. Built(k, got) = v BY <1>5 DEF Built
  <2>4. /\ v.caches = {i.site : i \in got[2]}
        /\ \A m \in DOMAIN v.models :
             v.models[m].sites \subseteq {s.of : s \in sources} \cup {r.site : r \in got[3]}
    BY PricingOverviewSites
  <2>5. \A s \in sources : s \in got[1] \/ s \in extra OBVIOUS
  <2>. HIDE DEF v, sources, extra
  <2>6. ASSUME NEW i \in Shown(k, v) PROVE i \in there \cup missed
    <3>1. i[2] # 0 /\ i \in v.caches \cup UNION {v.models[m].sites : m \in DOMAIN v.models}
      BY <1>5, <2>6 DEF Shown
    <3>2. i \in {s.of : s \in sources} \cup {r.site : r \in got[2]} \cup {r.site : r \in got[3]}
      BY <2>4, <3>1
    <3>3. i \in {r.site : r \in got[2]} \cup {r.site : r \in got[3]}
      BY <2>1, <2>2, <2>5, <3>1, <3>2 DEF Fine
    <3>. QED BY <2>1, <3>3 DEF Stale
  <2>. QED BY <1>5, <2>3, <2>6 DEF Wrong
<1>. QED BY <1>1, <1>2, <1>3, <1>4, <1>5, QueriesFacts

LEMMA OneLoad ==
  ASSUME Loads, UNCHANGED <<channels, sites>>, NEW l \in Loaders, NEW x,
         loads' = [loads EXCEPT ![l] = x], x = Idle \/ Loading(x, channels, DOMAIN sites)
  PROVE  Loads'
BY DEF Loads

LEMMA SameCached ==
  ASSUME Cached, UNCHANGED <<channels, sites, cache, late, clearing>> PROVE Cached'
BY DEF Cached

LEMMA AskReads ==
  ASSUME Loads, Cached, NEW l \in Loaders, NEW k \in DOMAIN Queries, Ask(l, k)
  PROVE  Loads' /\ Cached'
<1>. DEFINE x == [Idle EXCEPT !.key = k]
<1>1. UNCHANGED <<channels, sites, cache, late, clearing>> /\ loads' = [loads EXCEPT ![l] = x]
  BY DEF Ask, tables
<1>2. DOMAIN Idle = {"key", "at", "got", "late"} /\ Idle.at = 0 /\ Idle.got = <<>> BY DEF Idle
<1>3. DOMAIN x = DOMAIN Idle /\ x.key = k /\ x.at = 0 /\ x.got = <<>> BY <1>2
<1>. HIDE DEF x
<1>4. Len(Queries[k]) \in Nat BY QueriesFacts
<1>5. <<>> = [n \in 1..0 |-> x.got[n]] OBVIOUS
<1>6. Loading(x, channels, DOMAIN sites) BY <1>3, <1>4, <1>5 DEF Loading
<1>. QED BY <1>1, <1>6, OneLoad, SameCached

LEMMA AppendGot ==
  ASSUME NEW n \in Nat, NEW g, g = [i \in 1..n |-> g[i]], NEW e
  PROVE  /\ Append(g, e) = [i \in 1..(n + 1) |-> Append(g, e)[i]]
         /\ Append(g, e)[n + 1] = e /\ \A i \in 1..n : Append(g, e)[i] = g[i]
<1>1. g \in Seq({g[i] : i \in 1..n} \cup {e}) /\ Len(g) = n OBVIOUS
<1>2. Append(g, e) = [i \in 1..(n + 1) |-> IF i = n + 1 THEN e ELSE g[i]] BY <1>1
<1>. QED BY <1>2

LEMMA RunQueryReads ==
  ASSUME PricesHaveSites, Loads, Cached, NEW l \in Loaders, RunQuery(l)
  PROVE  Loads' /\ Cached'
<1>. DEFINE load == loads[l]
            n == load.at + 1
<1>1. load # Idle /\ load.at < Len(Queries[load.key]) BY DEF RunQuery
<1>2. PICK rows \in Answered(Queries[load.key][n]) :
        loads' = [loads EXCEPT ![l].at = @ + 1, ![l].got = Append(@, rows)]
  BY DEF RunQuery
<1>3. UNCHANGED <<channels, sites, cache, late, clearing>> BY DEF RunQuery, tables
<1>4. Loading(load, channels, DOMAIN sites) BY <1>1 DEF Loads
<1>. DEFINE half == [load EXCEPT !.at = n]
            x == [half EXCEPT !.got = Append(half.got, rows)]
<1>5. DOMAIN load = {"key", "at", "got", "late"} BY <1>4 DEF Loading, Idle
<1>6. loads' = [loads EXCEPT ![l] = x]
  <2>. DEFINE f == [loads EXCEPT ![l].at = @ + 1]
  <2>1. loads' = [f EXCEPT ![l].got = Append(@, rows)] BY <1>2
  <2>2. DOMAIN loads = Loaders BY DEF Loads
  <2>3. DOMAIN f = Loaders /\ f[l] = half /\ \A m \in Loaders : m # l => f[m] = loads[m] BY <2>2
  <2>. HIDE DEF f, half
  <2>4. loads' = [f EXCEPT ![l] = x] BY <2>1, <2>3
  <2>. HIDE DEF x
  <2>. QED BY <2>2, <2>3, <2>4
<1>7. /\ DOMAIN half = DOMAIN load /\ half.key = load.key /\ half.at = n /\ half.got = load.got
      /\ half.late = load.late BY <1>5
<1>. HIDE DEF half
<1>8. /\ DOMAIN x = DOMAIN load /\ x.key = load.key /\ x.at = n /\ x.got = Append(load.got, rows)
      /\ x.late = load.late BY <1>5, <1>7
<1>. HIDE DEF x
<1>9. load.key \in DOMAIN Queries /\ load.at \in Nat /\ Len(Queries[load.key]) \in Nat
  BY <1>4, QueriesFacts DEF Loading
<1>10. n \in 0..Len(Queries[load.key]) /\ \A i \in 1..n : i = n \/ i \in 1..load.at BY <1>1, <1>9
<1>11. /\ x.got = [i \in 1..n |-> x.got[i]] /\ x.got[n] = rows
       /\ \A i \in 1..load.at : x.got[i] = load.got[i]
  BY <1>4, <1>8, <1>9, AppendGot DEF Loading
<1>12. Queries[load.key][n] \in {"sites", "channels", "models", "raw", "prices", "accounts"}
  <2>1. n \in 1..Len(Queries[load.key]) BY <1>9, <1>10
  <2>2. load.key \in {"upstream-sites-list", "channels-list", "channel-health-overview",
                      "models-pricing", "models-overview"} BY <1>9, QueriesFacts
  <2>. HIDE DEF n, load
  <2>3. \A i \in 1..1 : i = 1 OBVIOUS
  <2>4. \A i \in 1..2 : i \in {1, 2} OBVIOUS
  <2>5. \A i \in 1..3 : i \in {1, 2, 3} OBVIOUS
  <2>6. \A a : Len(<<a>>) = 1 /\ <<a>>[1] = a OBVIOUS
  <2>. QED BY <2>1, <2>2, <2>3, <2>4, <2>5, QueriesFacts
<1>13. /\ Fine(Queries[load.key][n], rows)
       /\ Stale(Queries[load.key][n], rows, channels, DOMAIN sites) = {} BY <1>12, AnsweredFacts
<1>14. ASSUME NEW i \in 1..n
       PROVE  /\ Fine(Queries[x.key][i], x.got[i])
              /\ Stale(Queries[x.key][i], x.got[i], channels, DOMAIN sites) \subseteq x.late
  <2>1. CASE i = n BY <1>8, <1>11, <1>13, <2>1
  <2>2. CASE i \in 1..load.at BY <1>4, <1>8, <1>11, <2>2 DEF Loading
  <2>. QED BY <1>10, <2>1, <2>2
<1>15. DOMAIN x = DOMAIN Idle BY <1>4, <1>8 DEF Loading
<1>. HIDE DEF n
<1>16. Loading(x, channels, DOMAIN sites) BY <1>8, <1>9, <1>10, <1>11, <1>14, <1>15 DEF Loading
<1>. QED BY <1>3, <1>6, <1>16, OneLoad, SameCached

LEMMA StoreReads ==
  ASSUME Loads, Cached, NEW l \in Loaders, Store(l)
  PROVE  Loads' /\ Cached'
<1>. DEFINE load == loads[l]
            v == Built(load.key, load.got)
<1>1. load # Idle /\ load.at = Len(Queries[load.key]) BY DEF Store
<1>2. Loading(load, channels, DOMAIN sites) BY <1>1 DEF Loads
<1>3. /\ cache' = With(cache, load.key, v) /\ late' = With(late, load.key, load.late)
      /\ loads' = [loads EXCEPT ![l] = Idle] /\ UNCHANGED <<channels, sites, clearing>>
  BY DEF Store, tables
<1>4. load.key \in DOMAIN Queries BY <1>2 DEF Loading
<1>5. \A n \in 1..Len(Queries[load.key]) :
        /\ Fine(Queries[load.key][n], load.got[n])
        /\ Stale(Queries[load.key][n], load.got[n], channels, DOMAIN sites) \subseteq load.late
  BY <1>1, <1>2 DEF Loading
<1>6. /\ load.key = "channels-list" => Fine("channels", v)
      /\ Wrong(load.key, v, channels, DOMAIN sites) \subseteq load.late
  BY <1>4, <1>5, BuiltFacts
<1>7. Loads' BY <1>3, OneLoad
<1>. HIDE DEF load, v
<1>8. /\ DOMAIN cache' = DOMAIN cache \cup {load.key} /\ cache'[load.key] = v
      /\ \A k \in DOMAIN cache : k # load.key => cache'[k] = cache[k]
  BY <1>3 DEF With
<1>9. /\ DOMAIN late' = DOMAIN late \cup {load.key} /\ late'[load.key] = load.late
      /\ \A k \in DOMAIN late : k # load.key => late'[k] = late[k]
  BY <1>3 DEF With
<1>10. ASSUME NEW k \in DOMAIN cache'
       PROVE  /\ k = "channels-list" => Fine("channels", cache'[k])
              /\ Wrong(k, cache'[k], channels', DOMAIN sites') \subseteq late'[k] \cup clearing'
  <2>1. CASE k = load.key BY <1>3, <1>6, <1>8, <1>9, <2>1
  <2>2. CASE k # load.key
    <3>1. k \in DOMAIN cache /\ k \in DOMAIN late BY <1>8, <1>10, <2>2 DEF Cached
    <3>2. cache'[k] = cache[k] /\ late'[k] = late[k] BY <1>8, <1>9, <2>2, <3>1
    <3>. QED BY <1>3, <3>1, <3>2 DEF Cached
  <2>. QED BY <2>1, <2>2
<1>11. DOMAIN late' = DOMAIN cache' /\ DOMAIN cache' \subseteq DOMAIN Queries
  BY <1>4, <1>8, <1>9 DEF Cached
<1>. QED BY <1>7, <1>10, <1>11 DEF Cached

LEMMA ReadsInit == ASSUME CatalogInit PROVE Reads
<1>1. channels \in Starts /\ cache = <<>> /\ late = <<>> /\ loads = [l \in Loaders |-> Idle]
  BY DEF CatalogInit
<1>2. DOMAIN Row(NoText, NotMissing) = Fields BY DEF Row, Fields
<1>3. Rows BY <1>1, <1>2, StartsAssumption DEF Rows
<1>4. Loads BY <1>1 DEF Loads
<1>5. DOMAIN cache = {} /\ DOMAIN late = {} BY <1>1
<1>6. Cached BY <1>5 DEF Cached
<1>. QED BY <1>3, <1>4, <1>6, PricesInit DEF Reads

LEMMA ReadsStep == ASSUME Reads, [CatalogNext]_catalog PROVE Reads'
<1>1. PricesHaveSites /\ Rows /\ Loads /\ Cached BY DEF Reads
<1>2. PricesHaveSites' BY <1>1, PricesStep
<1>3. ASSUME Rows', NEW things, Shifts(things), Tells(things) PROVE Loads' /\ Cached'
  BY <1>1, <1>3, LoadsGrow, CachedGrows
<1>4. ASSUME UNCHANGED <<channels, sites>>, NEW keys, Drops(keys) PROVE Rows' /\ Loads' /\ Cached'
  <2>1. Rows' BY <1>1, <1>4 DEF Rows
  <2>. QED BY <1>1, <1>4, <2>1, DropsKeep
<1>5. ASSUME NEW l \in Loaders, RunQuery(l) PROVE Rows' /\ Loads' /\ Cached'
  <2>1. Rows' BY <1>1, <1>5 DEF Rows, RunQuery, tables
  <2>. QED BY <1>1, <1>5, <2>1, RunQueryReads
<1>6. ASSUME NEW l \in Loaders, Store(l) PROVE Rows' /\ Loads' /\ Cached'
  <2>1. Rows' BY <1>1, <1>6 DEF Rows, Store, tables
  <2>. QED BY <1>1, <1>6, <2>1, StoreReads
<1>7. ASSUME NEW l \in Loaders, NEW k \in DOMAIN Queries, Ask(l, k) PROVE Rows' /\ Loads' /\ Cached'
  <2>1. Rows' BY <1>1, <1>7 DEF Rows, Ask, tables
  <2>. QED BY <1>1, <1>7, <2>1, AskReads
<1>8. Rows' /\ Loads' /\ Cached' BY <1>1, <1>3, <1>4, <1>5, <1>6, <1>7, TableSteps
<1>. QED BY <1>2, <1>8 DEF Reads

\* After a deleted or detected site, an added account, an import or a new state of a channel
\* has been answered, no value that readThroughCache keeps contradicts it, but one whose
\* load had begun to query before; what clears nothing is excepted: sites made in the form
\* or moved to, old configurations, syncs of a source and previews.
THEOREM ReadsAreSettled == CatalogSpec => []SettledWritesAreSeen
<1>1. CatalogInit => Reads BY ReadsInit
<1>2. Reads /\ [CatalogNext]_catalog => Reads' BY ReadsStep
<1>3. Reads => SettledWritesAreSeen BY ReadsSettled
<1>. QED BY <1>1, <1>2, <1>3, PTL DEF CatalogSpec

-------------------------------------------------------------------------------
(***************************************************************************)
(* TaskStream: its Spec, for every number of streams and items, every      *)
(* capacity of a channel and every cap, and about any of the streams.      *)
(***************************************************************************)

-------------------------------------------------------------------------------
(* The invariant of the streams *)

\* Where the worker is says what it has done to the progress and its copy.
WorkerInv ==
  /\ worker \in {"load", "loop", "item", "broadcast"} <=> progress.status = "running"
  /\ worker \in {"broadcast", "last broadcast"} => copy = progress
  /\ worker = "item" => progress.current < Total
  /\ done => worker = "over"

\* An event: a state the task has been in, the final one only if it is in it.
Past(p) == p.current <= progress.current /\ (Final(p) => p = progress)

\* q was sent after p, and after the final state nothing else.
NotBefore(p, q) == p.current <= q.current /\ (Final(p) => q = progress)

Early == {"idle", "refuse", "lookup"}
Late == {"unsubscribe", "leave", "over"}

\* A channel holds past states in their order, none older than what its
\* handler has sent.
ChannelInv(s) ==
  /\ Len(chan[s]) <= Buffer
  /\ \A i \in 1..Len(chan[s]) :
       /\ Past(chan[s][i])
       /\ \A j \in i..Len(chan[s]) : NotBefore(chan[s][i], chan[s][j])
       /\ pc[s] = "select" => NotBefore(last[s], chan[s][i])
  /\ pc[s] \in Early \cup {"snapshot", "subscribe"} => chan[s] = <<>>

\* What a client has seen, and where its handler may be.
ClientInv(s) ==
  /\ last[s] # Nothing => Past(last[s])
  /\ pc[s] \in Early \cup {"snapshot"} => last[s] = Nothing
  /\ pc[s] \in {"subscribe", "select"} => last[s] # Nothing
  /\ pc[s] = "unsubscribe" => last[s] # Nothing
  /\ pc[s] \in Late /\ s \notin left /\ last[s] # Nothing => Final(last[s])
  /\ s \in left => pc[s] \in Late
  /\ s \in subs => pc[s] \in {"select", "unsubscribe"}
  /\ s \in closed => pc[s] \in {"leave", "over"}

StreamInv(s) == ChannelInv(s) /\ ClientInv(s)

Inv == TypeOK /\ WorkerInv /\ CapHolds /\ \A s \in Streams : StreamInv(s)

LEMMA OrderSteps ==
  Order[1] = "snapshot" /\ After("snapshot") = "subscribe" /\ After("subscribe") = "select"
<1>1. Order[1] = "snapshot" /\ Order[2] = "subscribe" /\ Order[3] = "select" BY DEF Order
<1>2. (CHOOSE k \in 1..2 : Order[k] = "snapshot") = 1 BY <1>1
<1>3. (CHOOSE k \in 1..2 : Order[k] = "subscribe") = 2 BY <1>1
<1> QED BY <1>1, <1>2, <1>3 DEF After

LEMMA InvInit == Init => Inv
<1> SUFFICES ASSUME Init PROVE Inv OBVIOUS
<1>1. TypeOK
  <2>1. progress \in Progress /\ copy \in Progress BY StreamAssumption DEF Init, Progress
  <2>2. chan \in [Streams -> Seq(Progress)] BY EmptySeq DEF Init
  <2>3. /\ last \in [Streams -> Progress \cup {Nothing}] /\ count \in Nat
        /\ pc = [s \in Streams |-> "idle"]
    BY DEF Init
  <2> QED BY <2>1, <2>2, <2>3 DEF Init, TypeOK
<1>2. WorkerInv BY DEF Init, WorkerInv
<1>3. CapHolds
  <2>1. Admitted = {} /\ {s \in Streams : pc[s] = "refuse"} = {} BY DEF Init, Admitted
  <2>2. Cardinality({}) = 0 BY FS_EmptySet
  <2>3. count = 0 /\ MaxSubs \in Nat BY StreamAssumption DEF Init
  <2> QED BY <2>1, <2>2, <2>3 DEF CapHolds
<1>4. ASSUME NEW s \in Streams PROVE StreamInv(s)
  <2>1. /\ chan[s] = <<>> /\ Len(chan[s]) = 0 /\ last[s] = Nothing /\ pc[s] = "idle"
        /\ left = {} /\ subs = {} /\ closed = {}
    BY <1>4 DEF Init
  <2>2. ChannelInv(s) BY <2>1, StreamAssumption DEF ChannelInv
  <2> QED BY <2>1, <2>2 DEF StreamInv, ClientInv, Early, Late
<1> QED BY <1>1, <1>2, <1>3, <1>4 DEF Inv

-------------------------------------------------------------------------------
(* The worker's steps *)

\* No stream is touched, and the task's progress stays.
LEMMA StreamsStay ==
  ASSUME Inv, UNCHANGED <<progress, streamVars>>, TypeOK', WorkerInv'
  PROVE  Inv'
<1>1. CapHolds' BY DEF Inv, CapHolds, Admitted, streamVars
<1>2. \A s \in Streams : StreamInv(s)'
  BY DEF Inv, StreamInv, ChannelInv, ClientInv, Past, NotBefore, streamVars
<1> QED BY <1>1, <1>2 DEF Inv

\* The progress moves on from a state that is not final, and no stream is touched.
LEMMA ProgressMoves ==
  ASSUME Inv, UNCHANGED streamVars, TypeOK', WorkerInv',
         ~Final(progress), progress'.current >= progress.current
  PROVE  Inv'
<1>1. CapHolds' BY DEF Inv, CapHolds, Admitted, streamVars
<1>2. ASSUME NEW s \in Streams PROVE StreamInv(s)'
  <2>1. /\ chan[s] \in Seq(Progress) /\ last[s] \in Progress \cup {Nothing}
        /\ progress \in Progress /\ progress' \in Progress
    BY <1>2 DEF Inv, TypeOK
  <2>2. \A p \in Progress : Past(p) => Past(p)' /\ ~Final(p)
    BY <2>1, StreamAssumption DEF Past, Progress, Final
  <2>3. \A i \in 1..Len(chan[s]) : chan[s][i] \in Progress BY <2>1
  <2>4. \A p, q \in Progress : NotBefore(p, q) /\ ~Final(p) => NotBefore(p, q)'
    BY DEF NotBefore
  <2>5. /\ \A i \in 1..Len(chan[s]) : Past(chan[s][i])' /\ ~Final(chan[s][i])
        /\ last[s] # Nothing => Past(last[s])' /\ ~Final(last[s])
        /\ pc[s] = "select" => last[s] # Nothing
    <3>1. StreamInv(s) /\ UNCHANGED <<chan, last>> BY <1>2 DEF Inv, streamVars
    <3>2. /\ \A i \in 1..Len(chan[s]) : Past(chan[s][i])
          /\ last[s] # Nothing => Past(last[s]) /\ last[s] \in Progress
          /\ pc[s] = "select" => last[s] # Nothing
      BY <2>1, <3>1 DEF StreamInv, ChannelInv, ClientInv
    <3> QED BY <2>2, <2>3, <3>1, <3>2
  <2>6. ChannelInv(s)'
    BY <1>2, <2>1, <2>3, <2>4, <2>5 DEF Inv, StreamInv, ChannelInv, NotBefore, streamVars
  <2>7. ClientInv(s)' BY <1>2, <2>5 DEF Inv, StreamInv, ClientInv, streamVars
  <2> QED BY <2>6, <2>7 DEF StreamInv
<1> QED BY <1>1, <1>2 DEF Inv

\* Every channel with room gets the progress.
LEMMA BroadcastStep ==
  ASSUME Inv, Broadcast
  PROVE  Inv'
<1>0. /\ copy = progress /\ progress \in Progress /\ copy' = copy /\ progress' = progress
      /\ UNCHANGED <<entry, done, ctxDone, subs, closed, count, pc, last, left>>
      /\ chan' = [s \in Streams |-> IF s \in subs THEN Delivered(chan[s]) ELSE chan[s]]
      /\ Buffer \in Nat
  BY StreamAssumption DEF Inv, WorkerInv, Broadcast, TypeOK
<1>1. ASSUME NEW s \in Streams
      PROVE  /\ chan[s] \in Seq(Progress) /\ chan'[s] \in Seq(Progress)
             /\ \/ chan'[s] = chan[s]
                \/ /\ chan'[s] = Append(chan[s], progress)
                   /\ s \in subs /\ Len(chan[s]) < Buffer
  <2>1. chan[s] \in Seq(Progress) BY DEF Inv, TypeOK
  <2> QED BY <1>0, <2>1, AppendProperties DEF Delivered
<1>2. TypeOK' BY <1>0, <1>1 DEF Inv, TypeOK, Broadcast
<1>3. WorkerInv'
  <2>1. WorkerInv /\ UNCHANGED <<progress, done>> BY <1>0 DEF Inv
  <2>2. CASE worker = "broadcast"
    <3>1. worker' = "loop" BY <2>2 DEF Broadcast
    <3> QED BY <2>1, <2>2, <3>1 DEF WorkerInv
  <2>3. CASE worker = "last broadcast"
    <3>1. worker' = "close" BY <2>3 DEF Broadcast
    <3> QED BY <2>1, <2>3, <3>1 DEF WorkerInv
  <2> QED BY <2>2, <2>3 DEF Broadcast
<1>4. CapHolds' BY <1>0 DEF Inv, CapHolds, Admitted
<1>5. ASSUME NEW s \in Streams PROVE StreamInv(s)'
  <2>0. StreamInv(s) /\ last[s] \in Progress \cup {Nothing} BY DEF Inv, TypeOK
  <2>1. ClientInv(s)' BY <1>0, <2>0 DEF StreamInv, ClientInv, Past
  <2>2. CASE chan'[s] = chan[s]
    BY <1>0, <2>0, <2>1, <2>2 DEF StreamInv, ChannelInv, Past, NotBefore
  <2>3. CASE chan'[s] = Append(chan[s], progress) /\ s \in subs /\ Len(chan[s]) < Buffer
    <3> DEFINE n == Len(chan[s])
    <3>1. /\ n \in Nat /\ Len(chan'[s]) = n + 1 /\ chan'[s][n + 1] = progress
          /\ \A i \in 1..n : chan'[s][i] = chan[s][i] /\ chan[s][i] \in Progress
      BY <1>0, <1>1, <2>3, AppendProperties, LenProperties
    <3>2. /\ \A p \in Progress : Past(p) => NotBefore(p, progress)
          /\ Past(progress) /\ NotBefore(progress, progress)
      BY <1>0 DEF Past, NotBefore, Progress
    <3>3. /\ \A i \in 1..n : Past(chan[s][i])
          /\ \A i \in 1..n : \A j \in i..n : NotBefore(chan[s][i], chan[s][j])
          /\ \A i \in 1..n : pc[s] = "select" => NotBefore(last[s], chan[s][i])
          /\ pc[s] = "select" => last[s] # Nothing
          /\ last[s] # Nothing => Past(last[s])
      BY <2>0 DEF StreamInv, ChannelInv, ClientInv
    <3> HIDE DEF n
    <3>4. \A i \in 1..(n + 1) : i \in 1..n \/ i = n + 1 BY <3>1
    <3>5. \A i \in 1..(n + 1) : Past(chan'[s][i]) BY <3>1, <3>2, <3>3, <3>4
    <3>6. ASSUME NEW i \in 1..(n + 1), NEW j \in i..(n + 1)
          PROVE  NotBefore(chan'[s][i], chan'[s][j])
      <4>1. CASE j = n + 1 BY <1>0, <3>1, <3>2, <3>3, <3>4, <4>1
      <4>2. CASE j # n + 1
        <5>1. i \in 1..n /\ j \in i..n /\ j \in 1..n BY <3>1, <4>2
        <5> QED BY <3>1, <3>3, <5>1
      <4> QED BY <4>1, <4>2
    <3>7. \A i \in 1..(n + 1) : pc[s] = "select" => NotBefore(last[s], chan'[s][i])
      BY <2>0, <3>1, <3>2, <3>3, <3>4
    <3>8. pc[s] \notin Early \cup {"snapshot", "subscribe"}
      BY <2>0, <2>3 DEF StreamInv, ClientInv, Early
    <3>9. Len(chan'[s]) <= Buffer BY <1>0, <2>3, <3>1 DEF n
    <3>10. ChannelInv(s)'
      <4>1. \A i \in 1..Len(chan'[s]) : Past(chan[s][i])' BY <1>0, <3>1, <3>5 DEF Past
      <4>2. \A i \in 1..Len(chan'[s]) : \A j \in i..Len(chan'[s]) :
              NotBefore(chan[s][i], chan[s][j])'
        BY <1>0, <3>1, <3>6 DEF NotBefore
      <4>3. \A i \in 1..Len(chan'[s]) : pc'[s] = "select" => NotBefore(last[s], chan[s][i])'
        BY <1>0, <3>1, <3>7 DEF NotBefore
      <4> QED BY <1>0, <3>8, <3>9, <4>1, <4>2, <4>3 DEF ChannelInv
    <3> QED BY <2>1, <3>10 DEF StreamInv
  <2> QED BY <1>1, <2>2, <2>3
<1> QED BY <1>2, <1>3, <1>4, <1>5 DEF Inv

LEMMA WorkerStep ==
  ASSUME Inv, Worker \/ Cancel \/ Cleanup
  PROVE  Inv'
<1>0. TypeOK /\ WorkerInv BY DEF Inv
<1>1. CASE Start
  <2>1. TypeOK' /\ WorkerInv' BY <1>0, <1>1 DEF Start, TypeOK, WorkerInv, streamVars
  <2> QED BY <1>1, <2>1, StreamsStay DEF Start
<1>2. CASE StartItem
  <2>1. TypeOK' /\ WorkerInv'
    BY <1>0, <1>2 DEF StartItem, ItemsLeft, TypeOK, WorkerInv, streamVars
  <2> QED BY <1>2, <2>1, StreamsStay DEF StartItem
<1>3. CASE Update
  <2>1. /\ progress \in Progress /\ progress.current < Total /\ progress.status = "running"
    BY <1>0, <1>3 DEF Update, TypeOK, WorkerInv
  <2>2. /\ progress' = [progress EXCEPT !.current = progress.current + 1]
        /\ copy' = progress' /\ worker' = "broadcast"
    BY <1>3 DEF Update
  <2>3. /\ progress' \in Progress /\ progress'.status = "running"
        /\ progress'.current >= progress.current
    BY <2>1, <2>2, StreamAssumption DEF Progress
  <2>4. TypeOK' /\ WorkerInv'
    BY <1>0, <1>3, <2>2, <2>3 DEF Update, TypeOK, WorkerInv, streamVars
  <2> QED BY <1>3, <2>1, <2>3, <2>4, ProgressMoves DEF Update, Final
<1>4. CASE Finish
  <2>1. progress \in Progress /\ progress.status = "running"
    BY <1>0, <1>4 DEF Finish, TypeOK, WorkerInv
  <2>2. PICK final \in {"done", "cancelled"} : progress' = [progress EXCEPT !.status = final]
    BY <1>4 DEF Finish
  <2>3. /\ progress' \in Progress /\ progress'.status # "running"
        /\ progress'.current >= progress.current
    BY <2>1, <2>2, StreamAssumption DEF Progress
  <2>4. TypeOK' /\ WorkerInv'
    BY <1>0, <1>4, <2>3 DEF Finish, TypeOK, WorkerInv, streamVars
  <2> QED BY <1>4, <2>1, <2>3, <2>4, ProgressMoves DEF Finish, Final
<1>5. CASE Broadcast BY <1>5, BroadcastStep
<1>6. CASE CloseDone
  <2>1. TypeOK' /\ WorkerInv'
    BY <1>0, <1>6 DEF CloseDone, DoneAfterFinish, TypeOK, WorkerInv, streamVars
  <2> QED BY <1>6, <2>1, StreamsStay DEF CloseDone
<1>7. CASE Cancel
  <2>1. TypeOK' /\ WorkerInv' BY <1>0, <1>7 DEF Cancel, TypeOK, WorkerInv, streamVars
  <2> QED BY <1>7, <2>1, StreamsStay DEF Cancel
<1>8. CASE Cleanup
  <2>1. TypeOK' /\ WorkerInv' BY <1>0, <1>8 DEF Cleanup, TypeOK, WorkerInv, streamVars
  <2> QED BY <1>8, <2>1, StreamsStay DEF Cleanup
<1> QED BY <1>1, <1>2, <1>3, <1>4, <1>5, <1>6, <1>7, <1>8 DEF Worker

-------------------------------------------------------------------------------
(* The streams' steps *)

Inside == {"lookup", "snapshot", "subscribe", "select", "unsubscribe", "leave"}
Refused == {s \in Streams : pc[s] = "refuse"}

LEMMA CountsAreFinite ==
  /\ IsFiniteSet(Admitted) /\ Cardinality(Admitted) \in Nat
  /\ IsFiniteSet(Refused) /\ Cardinality(Refused) \in Nat
<1>1. Admitted \in SUBSET Streams /\ Refused \in SUBSET Streams BY DEF Admitted, Refused
<1> QED BY <1>1, StreamAssumption, FS_Subset, FS_CardinalityType

\* A step inside the handler, between the admission and the deferred decrement.
LEMMA CapInside ==
  ASSUME Inv, NEW s \in Streams, NEW step \in Inside, pc[s] \in Inside,
         pc' = [pc EXCEPT ![s] = step], count' = count
  PROVE  CapHolds'
<1>1. pc \in [Streams -> {"idle", "over", "refuse"} \cup Inside] BY DEF Inv, TypeOK, Inside
<1>2. Admitted' = Admitted /\ {t \in Streams : pc'[t] = "refuse"} = {t \in Streams : pc[t] = "refuse"}
  BY <1>1 DEF Admitted, Inside
<1> QED BY <1>2 DEF Inv, CapHolds

\* A stream that comes is counted, one that leaves is counted no more.
LEMMA CapAtTheDoor ==
  ASSUME Inv, NEW s \in Streams, Admit(s) \/ Refuse(s) \/ Leave(s)
  PROVE  CapHolds' /\ count' \in Nat
<1>0. /\ pc \in [Streams -> {"idle", "over", "refuse"} \cup Inside]
      /\ count = Cardinality(Admitted) + Cardinality(Refused)
      /\ Cardinality(Admitted) <= MaxSubs /\ MaxSubs \in Nat
  BY StreamAssumption DEF Inv, TypeOK, Inside, CapHolds, Refused
<1> USE CountsAreFinite
<1>1. CASE Admit(s) /\ count + 1 > MaxSubs
  <2>1. /\ Admitted' = Admitted /\ Refused' = Refused \cup {s} /\ s \notin Refused
        /\ count' = count + 1
    BY <1>0, <1>1 DEF Admit, Goto, Admitted, Refused
  <2>2. Cardinality(Refused') = Cardinality(Refused) + 1 BY <2>1, FS_AddElement
  <2> QED BY <1>0, <2>1, <2>2 DEF CapHolds, Refused
<1>2. CASE Admit(s) /\ ~(count + 1 > MaxSubs)
  <2>1. /\ Refused' = Refused /\ Admitted' = Admitted \cup {s} /\ s \notin Admitted
        /\ count' = count + 1
    BY <1>0, <1>2 DEF Admit, Goto, Admitted, Refused
  <2>2. Cardinality(Admitted') = Cardinality(Admitted) + 1 BY <2>1, FS_AddElement
  <2> QED BY <1>0, <1>2, <2>1, <2>2 DEF CapHolds, Refused
<1>3. CASE Refuse(s)
  <2>1. /\ Admitted' = Admitted /\ Refused' = Refused \ {s} /\ s \in Refused
        /\ count' = count - 1
    BY <1>0, <1>3 DEF Refuse, Goto, Admitted, Refused
  <2>2. Cardinality(Refused') = Cardinality(Refused) - 1 BY <2>1, FS_RemoveElement
  <2>3. Cardinality(Refused') \in Nat BY <2>1, FS_RemoveElement, FS_CardinalityType
  <2>4. /\ count' = Cardinality(Admitted') + Cardinality(Refused') /\ count' \in Nat
        /\ Cardinality(Admitted') <= MaxSubs
    BY <1>0, <2>1, <2>2, <2>3
  <2> QED BY <2>4 DEF CapHolds, Refused
<1>4. CASE Leave(s)
  <2>1. /\ Refused' = Refused /\ Admitted' = Admitted \ {s} /\ s \in Admitted
        /\ count' = count - 1
    BY <1>0, <1>4 DEF Leave, Goto, Admitted, Refused
  <2>2. Cardinality(Admitted') = Cardinality(Admitted) - 1 BY <2>1, FS_RemoveElement
  <2>3. Cardinality(Admitted') \in Nat BY <2>1, FS_RemoveElement, FS_CardinalityType
  <2>4. /\ count' = Cardinality(Admitted') + Cardinality(Refused') /\ count' \in Nat
        /\ Cardinality(Admitted') <= MaxSubs
    BY <1>0, <2>1, <2>2, <2>3
  <2> QED BY <2>4 DEF CapHolds, Refused
<1> QED BY <1>1, <1>2, <1>3, <1>4

\* The other streams do not notice a step of s.
LEMMA OneStreamMoves ==
  ASSUME Inv, NEW s \in Streams, UNCHANGED taskVars, NEW step,
         pc' = [pc EXCEPT ![s] = step],
         \A t \in Streams \ {s} :
           /\ chan'[t] = chan[t] /\ last'[t] = last[t]
           /\ t \in subs' <=> t \in subs
           /\ t \in closed' <=> t \in closed
           /\ t \in left' <=> t \in left,
         TypeOK', CapHolds', StreamInv(s)'
  PROVE  Inv'
<1>1. WorkerInv' BY DEF Inv, WorkerInv, taskVars
<1>2. ASSUME NEW t \in Streams, t # s PROVE StreamInv(t)'
  <2>1. /\ pc'[t] = pc[t] /\ chan'[t] = chan[t] /\ last'[t] = last[t]
        /\ t \in subs' <=> t \in subs
        /\ t \in closed' <=> t \in closed
        /\ t \in left' <=> t \in left
        /\ progress' = progress
    BY <1>2 DEF Inv, TypeOK, taskVars
  <2>2. StreamInv(t) BY DEF Inv
  <2> QED BY <2>1, <2>2 DEF StreamInv, ChannelInv, ClientInv, Past, NotBefore
<1> QED BY <1>1, <1>2 DEF Inv

LEMMA StreamStep ==
  ASSUME Inv, NEW s \in Streams, Admit(s) \/ Serve(s) \/ ClientLeaves(s)
  PROVE  Inv'
<1>0. /\ TypeOK /\ StreamInv(s) /\ chan[s] \in Seq(Progress) /\ progress \in Progress
      /\ last[s] \in Progress \cup {Nothing} /\ Nothing \notin Progress
      /\ pc[s] \in {"idle", "over", "refuse"} \cup Inside
      /\ done => Final(progress)
  BY StreamAssumption DEF Inv, TypeOK, WorkerInv, Final, Inside
<1>1. CASE Admit(s)
  <2>1. /\ pc[s] = "idle" /\ UNCHANGED <<taskVars, subs, chan, closed, last, left>>
        /\ \E step \in {"refuse", "lookup"} : pc' = [pc EXCEPT ![s] = step]
    BY <1>1 DEF Admit, Goto
  <2>2. CapHolds' /\ count' \in Nat BY <1>1, CapAtTheDoor
  <2>3. TypeOK' BY <1>0, <2>1, <2>2 DEF TypeOK, taskVars
  <2>4. /\ UNCHANGED <<chan[s], last[s], progress, subs, closed, left>>
        /\ pc'[s] \in {"refuse", "lookup"}
    BY <1>0, <2>1 DEF TypeOK, taskVars
  <2>5. StreamInv(s)'
    BY <1>0, <2>1, <2>4 DEF StreamInv, ChannelInv, ClientInv, Early, Late, Past, NotBefore
  <2> QED BY <2>1, <2>2, <2>3, <2>5, OneStreamMoves
<1>2. CASE Refuse(s) \/ Leave(s)
  <2>1. /\ pc[s] \in {"refuse", "leave"} /\ UNCHANGED <<taskVars, subs, chan, closed, last, left>>
        /\ pc' = [pc EXCEPT ![s] = "over"]
    BY <1>2 DEF Refuse, Leave, Goto
  <2>2. CapHolds' /\ count' \in Nat BY <1>2, CapAtTheDoor
  <2>3. TypeOK' BY <1>0, <2>1, <2>2 DEF TypeOK, taskVars
  <2>4. /\ UNCHANGED <<chan[s], last[s], progress, subs, closed, left>>
        /\ pc'[s] \in {"over"}
    BY <1>0, <2>1 DEF TypeOK, taskVars
  <2>5. StreamInv(s)'
    BY <1>0, <2>1, <2>4 DEF StreamInv, ChannelInv, ClientInv, Early, Late, Past, NotBefore
  <2> QED BY <2>1, <2>2, <2>3, <2>5, OneStreamMoves
<1>3. CASE Lookup(s)
  <2>1. /\ pc[s] = "lookup" /\ UNCHANGED <<taskVars, subs, chan, closed, count, last, left>>
        /\ \E step \in {"snapshot", "leave"} : pc' = [pc EXCEPT ![s] = step]
    BY <1>3, OrderSteps DEF Lookup, Goto
  <2>2. CapHolds' BY <2>1, CapInside DEF Inside
  <2>3. TypeOK' BY <1>0, <2>1 DEF TypeOK, taskVars
  <2>4. /\ UNCHANGED <<chan[s], last[s], progress, subs, closed, left>>
        /\ pc'[s] \in {"snapshot", "leave"}
    BY <1>0, <2>1 DEF TypeOK, taskVars
  <2>5. StreamInv(s)'
    BY <1>0, <2>1, <2>4 DEF StreamInv, ChannelInv, ClientInv, Early, Late, Past, NotBefore
  <2> QED BY <2>1, <2>2, <2>3, <2>5, OneStreamMoves
<1>4. CASE Snapshot(s)
  <2>1. /\ pc[s] = "snapshot" /\ UNCHANGED <<taskVars, subs, chan, closed, count, left>>
        /\ pc' = [pc EXCEPT ![s] = "subscribe"] /\ last' = [last EXCEPT ![s] = progress]
    BY <1>4, OrderSteps DEF Snapshot, Goto
  <2>2. CapHolds' BY <2>1, CapInside DEF Inside
  <2>3. TypeOK' BY <1>0, <2>1 DEF TypeOK, taskVars
  <2>4. last'[s] = progress /\ pc'[s] = "subscribe" /\ progress' = progress
    BY <1>0, <2>1 DEF TypeOK, taskVars
  <2>5. chan'[s] = <<>> /\ Len(<<>>) = 0 /\ Past(progress)
    BY <1>0, <2>1, EmptySeq, StreamAssumption DEF StreamInv, ChannelInv, Past, Progress
  <2>6. StreamInv(s)'
    BY <1>0, <2>1, <2>4, <2>5, StreamAssumption
    DEF StreamInv, ChannelInv, ClientInv, Early, Late, Past, NotBefore
  <2>7. \A t \in Streams \ {s} : last'[t] = last[t] BY <1>0, <2>1 DEF TypeOK
  <2> QED BY <2>1, <2>2, <2>3, <2>6, <2>7, OneStreamMoves
<1>5. CASE Subscribe(s)
  <2>1. /\ pc[s] = "subscribe" /\ UNCHANGED <<taskVars, chan, closed, count, last, left>>
        /\ pc' = [pc EXCEPT ![s] = "select"] /\ subs' = subs \cup {s}
    BY <1>5, OrderSteps DEF Subscribe, Goto
  <2>2. CapHolds' BY <2>1, CapInside DEF Inside
  <2>3. TypeOK' BY <1>0, <2>1 DEF TypeOK, taskVars
  <2>4. /\ UNCHANGED <<chan[s], last[s], progress, closed, left>>
        /\ pc'[s] = "select" /\ chan[s] = <<>> /\ Len(<<>>) = 0
    BY <1>0, <2>1, EmptySeq DEF TypeOK, taskVars, StreamInv, ChannelInv
  <2>5. StreamInv(s)'
    BY <1>0, <2>1, <2>4, StreamAssumption
    DEF StreamInv, ChannelInv, ClientInv, Early, Late, Past, NotBefore
  <2> QED BY <2>1, <2>2, <2>3, <2>5, OneStreamMoves
<1>6. CASE Receive(s)
  <2> DEFINE e == Head(chan[s])
             n == Len(chan[s])
  <2>1. /\ pc[s] = "select" /\ chan[s] # <<>> /\ UNCHANGED <<taskVars, subs, closed, count, left>>
        /\ pc' = [pc EXCEPT ![s] = AfterEvent(e)] /\ last' = [last EXCEPT ![s] = e]
        /\ chan' = [chan EXCEPT ![s] = Tail(chan[s])]
    BY <1>6 DEF Receive, Goto
  <2>2. /\ e \in Progress /\ e = chan[s][1] /\ n \in Nat /\ n > 0
        /\ Tail(chan[s]) \in Seq(Progress) /\ Len(Tail(chan[s])) = n - 1
        /\ \A i \in 1..(n - 1) : Tail(chan[s])[i] = chan[s][i + 1]
    BY <1>0, <2>1, HeadTailProperties, LenProperties, EmptySeq
  <2> HIDE DEF e, n
  <2>3. AfterEvent(e) = IF Final(e) THEN "unsubscribe" ELSE "select" BY DEF AfterEvent
  <2>4. CapHolds' BY <2>1, <2>3, CapInside DEF Inside
  <2>5. TypeOK' BY <1>0, <2>1, <2>2, <2>3 DEF TypeOK, taskVars
  <2>6. /\ last'[s] = e /\ chan'[s] = Tail(chan[s]) /\ progress' = progress
        /\ pc'[s] = IF Final(e) THEN "unsubscribe" ELSE "select"
    BY <1>0, <2>1, <2>3 DEF TypeOK, taskVars
  <2>7. /\ Past(e) /\ \A i \in 1..n : Past(chan[s][i])
        /\ \A i \in 1..n : \A j \in i..n : NotBefore(chan[s][i], chan[s][j])
        /\ n <= Buffer
    BY <1>0, <2>2 DEF StreamInv, ChannelInv, n
  <2>8. /\ \A i \in 1..(n - 1) : Past(chan'[s][i]) /\ NotBefore(e, chan'[s][i])
        /\ \A i \in 1..(n - 1) : \A j \in i..(n - 1) : NotBefore(chan'[s][i], chan'[s][j])
    <3>1. \A i \in 1..(n - 1) : chan'[s][i] = chan[s][i + 1] /\ i + 1 \in 1..n BY <2>2, <2>6
    <3>2. \A i \in 1..(n - 1) : Past(chan'[s][i]) BY <2>7, <3>1
    <3>3. \A i \in 1..(n - 1) : NotBefore(e, chan'[s][i])
      <4>1. 1 \in 1..n /\ \A j \in 1..n : NotBefore(chan[s][1], chan[s][j]) BY <2>2, <2>7
      <4> QED BY <2>2, <3>1, <4>1
    <3>4. ASSUME NEW i \in 1..(n - 1), NEW j \in i..(n - 1)
          PROVE  NotBefore(chan'[s][i], chan'[s][j])
      <4>1. j \in 1..(n - 1) /\ i + 1 \in 1..n /\ j + 1 \in (i + 1)..n BY <2>2
      <4>2. NotBefore(chan[s][i + 1], chan[s][j + 1]) BY <2>7, <4>1
      <4> QED BY <3>1, <4>1, <4>2
    <3> QED BY <3>2, <3>3, <3>4
  <2>9. Len(chan'[s]) = n - 1 /\ n - 1 <= Buffer
    BY <2>2, <2>6, <2>7, StreamAssumption
  <2>10. ChannelInv(s)'
    <3>1. \A i \in 1..Len(chan'[s]) : Past(chan[s][i])' BY <2>6, <2>8, <2>9 DEF Past
    <3>2. \A i \in 1..Len(chan'[s]) : \A j \in i..Len(chan'[s]) :
            NotBefore(chan[s][i], chan[s][j])'
      BY <2>6, <2>8, <2>9 DEF NotBefore
    <3>3. \A i \in 1..Len(chan'[s]) : NotBefore(last[s], chan[s][i])'
      BY <2>6, <2>8, <2>9 DEF NotBefore
    <3>4. pc'[s] \notin Early \cup {"snapshot", "subscribe"} BY <2>6 DEF Early
    <3> QED BY <2>9, <3>1, <3>2, <3>3, <3>4 DEF ChannelInv
  <2>11. ClientInv(s)'
    BY <1>0, <2>1, <2>2, <2>6, <2>7 DEF StreamInv, ClientInv, Early, Late, Past
  <2>12. StreamInv(s)' BY <2>10, <2>11 DEF StreamInv
  <2> QED BY <1>0, <2>1, <2>4, <2>5, <2>12, OneStreamMoves DEF TypeOK
<1>7. CASE SeeDone(s)
  <2>1. /\ pc[s] = "select" /\ done /\ UNCHANGED <<taskVars, subs, chan, closed, count, left>>
        /\ pc' = [pc EXCEPT ![s] = "unsubscribe"] /\ last' = [last EXCEPT ![s] = progress]
    BY <1>7 DEF SeeDone, EventAtDone, Goto
  <2>2. CapHolds' BY <2>1, CapInside DEF Inside
  <2>3. TypeOK' BY <1>0, <2>1 DEF TypeOK, taskVars
  <2>4. /\ last'[s] = progress /\ chan'[s] = chan[s] /\ pc'[s] = "unsubscribe"
        /\ progress' = progress
    BY <1>0, <2>1 DEF TypeOK, taskVars
  <2>5. Past(progress) /\ Final(progress)
    BY <1>0, <2>1, StreamAssumption DEF Past, Progress
  <2>6. StreamInv(s)'
    BY <1>0, <2>1, <2>4, <2>5 DEF StreamInv, ChannelInv, ClientInv, Early, Late, Past, NotBefore
  <2>7. \A t \in Streams \ {s} : last'[t] = last[t] BY <1>0, <2>1 DEF TypeOK
  <2> QED BY <2>1, <2>2, <2>3, <2>6, <2>7, OneStreamMoves
<1>8. CASE ClientLeaves(s)
  <2>1. /\ pc[s] = "select" /\ UNCHANGED <<taskVars, subs, chan, closed, count, last>>
        /\ pc' = [pc EXCEPT ![s] = "unsubscribe"] /\ left' = left \cup {s}
    BY <1>8 DEF ClientLeaves, Goto
  <2>2. CapHolds' BY <2>1, CapInside DEF Inside
  <2>3. TypeOK' BY <1>0, <2>1 DEF TypeOK, taskVars
  <2>4. UNCHANGED <<chan[s], last[s], progress>> /\ pc'[s] = "unsubscribe"
    BY <1>0, <2>1 DEF TypeOK, taskVars
  <2>5. StreamInv(s)'
    BY <1>0, <2>1, <2>4 DEF StreamInv, ChannelInv, ClientInv, Early, Late, Past, NotBefore
  <2> QED BY <2>1, <2>2, <2>3, <2>5, OneStreamMoves
<1>9. CASE Unsubscribe(s)
  <2>1. /\ pc[s] = "unsubscribe" /\ UNCHANGED <<taskVars, chan, count, last, left>>
        /\ pc' = [pc EXCEPT ![s] = "leave"] /\ subs' = subs \ {s} /\ closed' = closed \cup {s}
    BY <1>9 DEF Unsubscribe, SubsWithout, Goto
  <2>2. CapHolds' BY <2>1, CapInside DEF Inside
  <2>3. TypeOK' BY <1>0, <2>1 DEF TypeOK, taskVars
  <2>4. UNCHANGED <<chan[s], last[s], progress>> /\ pc'[s] = "leave"
    BY <1>0, <2>1 DEF TypeOK, taskVars
  <2>5. StreamInv(s)'
    BY <1>0, <2>1, <2>4 DEF StreamInv, ChannelInv, ClientInv, Early, Late, Past, NotBefore
  <2> QED BY <2>1, <2>2, <2>3, <2>5, OneStreamMoves
<1> QED
  BY <1>1, <1>2, <1>3, <1>4, <1>5, <1>6, <1>7, <1>8, <1>9 DEF Serve

-------------------------------------------------------------------------------
(* The theorems *)

LEMMA InvStep == Inv /\ [Next]_vars => Inv'
<1> SUFFICES ASSUME Inv, [Next]_vars PROVE Inv' OBVIOUS
<1>1. CASE Worker \/ Cancel \/ Cleanup BY <1>1, WorkerStep
<1>2. ASSUME NEW s \in Streams, Admit(s) \/ Serve(s) \/ ClientLeaves(s) PROVE Inv'
  BY <1>2, StreamStep
<1>3. CASE UNCHANGED vars
  <2>1. TypeOK' BY <1>3 DEF Inv, TypeOK, vars, taskVars, streamVars
  <2>2. WorkerInv' BY <1>3 DEF Inv, WorkerInv, vars, taskVars
  <2> QED BY <1>3, <2>1, <2>2, StreamsStay DEF vars, taskVars
<1> QED BY <1>1, <1>2, <1>3 DEF Next

LEMMA Invariant == Spec => []Inv
<1> QED BY InvInit, InvStep, PTL DEF Spec

\* Every stream stays at a known step of its handler, with its channel and the counter of
\* streams in their ranges, whatever the number of streams and the buffer.
THEOREM TypeCorrect == Spec => []TypeOK
<1>1. Inv => TypeOK BY DEF Inv
<1> QED BY <1>1, Invariant, PTL

\* broadcast never sends on a channel that unsubscribe has closed, and no channel is
\* fed past its capacity, however streams come and go under a running task.
THEOREM SendsAreSafe == Spec => []NoSendOnClosed
<1>1. Inv => NoSendOnClosed
  <2> SUFFICES ASSUME Inv PROVE NoSendOnClosed OBVIOUS
  <2>1. \A s \in Streams : ClientInv(s) /\ Len(chan[s]) <= Buffer
    BY DEF Inv, StreamInv, ChannelInv
  <2>2. subs \subseteq Streams BY DEF Inv, TypeOK
  <2> QED BY <2>1, <2>2 DEF NoSendOnClosed, ClientInv
<1> QED BY <1>1, Invariant, PTL

\* The counter of streams is exact, so that no request is refused for one that has ended.
THEOREM CapIsExact == Spec => []CapHolds
<1>1. Inv => CapHolds BY DEF Inv
<1> QED BY <1>1, Invariant, PTL

\* A client that stays is shown the final state, though its channel may be full and the
\* task may end between any two steps of its handler.
THEOREM FinalStateIsShown == Spec => []FinalStateShown
<1>1. Inv => FinalStateShown
  <2> SUFFICES ASSUME Inv, NEW s \in Streams, s \notin left, last[s] # Nothing,
                      pc[s] \in {"unsubscribe", "leave", "over"}
               PROVE  last[s] = progress /\ Final(progress)
    BY DEF FinalStateShown
  <2>1. Final(last[s]) /\ Past(last[s]) BY DEF Inv, StreamInv, ClientInv, Late
  <2> QED BY <2>1 DEF Past
<1> QED BY <1>1, Invariant, PTL

\* What a client may be shown at any time.
LEMMA PastIsShown ==
  ASSUME NEW p \in Progress, Past(p), Inv,
         last[Watched] # Nothing => p.current >= last[Watched].current
  PROVE  p \in Feed!Shown
<1>1. progress \in Progress BY DEF Inv, TypeOK
<1>2. CASE Final(p) BY <1>1, <1>2 DEF Past, Feed!Shown, Feed!Final, Final
<1>3. CASE ~Final(p)
  <2>1. p \in [status : {"running"}, current : 0..progress.current]
    BY <1>1, <1>3, StreamAssumption DEF Progress, Past, Final
  <2> QED BY <2>1 DEF Feed!Shown
<1> QED BY <1>2, <1>3

LEMMA FeedStep ==
  ASSUME Inv, [Next]_vars
  PROVE  [Feed!Next]_(Feed!feed)
<1> DEFINE w == Watched
           open(q) == q \notin {"leave", "over"}
<1> USE DEF Feed!feed
<1>0. /\ w \in Streams /\ StreamInv(w) /\ progress \in Progress
      /\ last[w] \in Progress \cup {Nothing} /\ Nothing \notin Progress
      /\ pc \in [Streams -> {"idle", "over", "refuse"} \cup Inside]
      /\ chan[w] \in Seq(Progress) /\ DOMAIN last = Streams /\ WorkerInv
  BY StreamAssumption DEF Inv, TypeOK, Inside
<1>1. ASSUME UNCHANGED <<progress, last[w], left>>, open(pc'[w]) = open(pc[w])
      PROVE  [Feed!Next]_(Feed!feed)
  BY <1>1
<1>2. CASE Update
  <2>1. /\ progress' = [progress EXCEPT !.current = progress.current + 1]
        /\ UNCHANGED <<last, left, pc>> /\ progress.status = "running"
        /\ progress.current < Total
    BY <1>0, <1>2 DEF Update, streamVars, WorkerInv
  <2>2. Feed!Item BY <2>1 DEF Feed!Item, Feed!Final
  <2> QED BY <2>2 DEF Feed!Next
<1>3. CASE Finish
  <2>1. /\ \E f \in {"done", "cancelled"} : progress' = [progress EXCEPT !.status = f]
        /\ UNCHANGED <<last, left, pc>> /\ progress.status = "running"
    BY <1>0, <1>3 DEF Finish, streamVars, WorkerInv
  <2>2. Feed!End BY <2>1 DEF Feed!End, Feed!Final
  <2> QED BY <2>2 DEF Feed!Next
<1>4. CASE Start \/ StartItem \/ Broadcast \/ CloseDone \/ Cancel \/ Cleanup
  <2>1. UNCHANGED <<progress, last, left, pc>>
    BY <1>4 DEF Start, StartItem, Broadcast, CloseDone, Cancel, Cleanup, streamVars
  <2> QED BY <1>1, <2>1
<1>5. ASSUME NEW s \in Streams, s # w, Admit(s) \/ Serve(s) \/ ClientLeaves(s)
      PROVE  [Feed!Next]_(Feed!feed)
  <2>1. /\ UNCHANGED progress /\ \E step : pc' = [pc EXCEPT ![s] = step]
        /\ UNCHANGED last \/ \E e : last' = [last EXCEPT ![s] = e]
        /\ left' = left \/ left' = left \cup {s}
    BY <1>5 DEF Admit, Serve, ClientLeaves, Refuse, Lookup, Snapshot, Subscribe, Receive, SeeDone,
                Unsubscribe, Leave, Goto, taskVars
  <2>2. last'[w] = last[w] /\ pc'[w] = pc[w] /\ (w \in left') = (w \in left)
    BY <1>0, <1>5, <2>1
  <2> QED BY <2>1, <2>2
<1>6. CASE Admit(w) \/ Refuse(w) \/ Lookup(w) \/ Unsubscribe(w) \/ Leave(w) \/ Subscribe(w)
  <2>1. UNCHANGED <<progress, last, left>>
    BY <1>6 DEF Admit, Refuse, Lookup, Unsubscribe, Leave, Subscribe, taskVars
  <2>2. CASE open(pc'[w]) = open(pc[w]) BY <1>1, <2>1, <2>2
  <2>3. CASE open(pc'[w]) # open(pc[w])
    <3>1. open(pc[w]) /\ ~open(pc'[w])
      BY <1>0, <1>6, <2>3, OrderSteps
      DEF Admit, Refuse, Lookup, Unsubscribe, Leave, Subscribe, Goto, Inside
    <3>2. ~Subscribe(w) /\ ~Admit(w)
      BY <1>0, <3>1, OrderSteps DEF Subscribe, Admit, Goto
    <3>3. last[w] = Nothing \/ Final(last[w]) \/ w \in left
      <4>1. CASE Refuse(w) \/ Lookup(w)
        BY <1>0, <4>1 DEF Refuse, Lookup, StreamInv, ClientInv, Early
      <4>2. CASE Unsubscribe(w) BY <1>0, <4>2 DEF Unsubscribe, StreamInv, ClientInv, Late
      <4>3. CASE Leave(w) BY <3>1, <4>3 DEF Leave
      <4> QED BY <1>6, <3>2, <4>1, <4>2, <4>3
    <3>4. Feed!Close BY <2>1, <3>1, <3>3 DEF Feed!Close, Feed!Complete, Feed!Final, Final
    <3> QED BY <3>4 DEF Feed!Next
  <2> QED BY <2>2, <2>3
<1>7. CASE ClientLeaves(w)
  <2>1. /\ pc[w] = "select" /\ pc' = [pc EXCEPT ![w] = "unsubscribe"] /\ left' = left \cup {w}
        /\ UNCHANGED <<progress, last>>
    BY <1>7 DEF ClientLeaves, Goto, taskVars
  <2>2. w \notin left BY <1>0, <2>1 DEF StreamInv, ClientInv, Late
  <2>3. Feed!Go BY <1>0, <2>1, <2>2 DEF Feed!Go
  <2> QED BY <2>3 DEF Feed!Next
<1>8. ASSUME NEW e \in Progress, Past(e), last' = [last EXCEPT ![w] = e], open(pc[w]), open(pc'[w]),
             UNCHANGED <<progress, left>>,
             last[w] # Nothing => NotBefore(last[w], e)
      PROVE  [Feed!Next]_(Feed!feed)
  <2>1. last'[w] = e BY <1>0, <1>8
  <2>2. CASE e = last[w] BY <1>8, <2>1, <2>2
  <2>3. CASE e # last[w]
    <3>1. last[w] # Nothing => ~Final(last[w])
      BY <1>0, <1>8, <2>3 DEF StreamInv, ClientInv, Past, NotBefore
    <3>2. e \in Feed!Shown
      BY <1>0, <1>8, PastIsShown, StreamAssumption DEF NotBefore, Progress
    <3>3. Feed!See BY <1>8, <2>1, <3>1, <3>2 DEF Feed!See, Feed!Final, Final
    <3> QED BY <3>3 DEF Feed!Next
  <2> QED BY <2>2, <2>3
<1>9. CASE Snapshot(w)
  <2>1. /\ last' = [last EXCEPT ![w] = progress] /\ pc[w] = "snapshot"
        /\ pc' = [pc EXCEPT ![w] = "subscribe"] /\ UNCHANGED <<progress, left>>
    BY <1>9, OrderSteps DEF Snapshot, Goto, taskVars
  <2>2. Past(progress) /\ last[w] = Nothing
    BY <1>0, <2>1, StreamAssumption DEF Past, Progress, StreamInv, ClientInv, Early
  <2> QED BY <1>0, <1>8, <2>1, <2>2
<1>10. CASE SeeDone(w)
  <2>1. /\ last' = [last EXCEPT ![w] = progress] /\ pc[w] = "select"
        /\ pc' = [pc EXCEPT ![w] = "unsubscribe"] /\ UNCHANGED <<progress, left>>
    BY <1>10 DEF SeeDone, EventAtDone, Goto, taskVars
  <2>2. Past(progress) /\ (last[w] # Nothing => NotBefore(last[w], progress))
    BY <1>0, <2>1, StreamAssumption DEF Past, Progress, NotBefore, StreamInv, ClientInv
  <2> QED BY <1>0, <1>8, <2>1, <2>2
<1>11. CASE Receive(w)
  <2>1. /\ last' = [last EXCEPT ![w] = Head(chan[w])] /\ pc[w] = "select" /\ chan[w] # <<>>
        /\ pc' = [pc EXCEPT ![w] = AfterEvent(Head(chan[w]))] /\ UNCHANGED <<progress, left>>
    BY <1>11 DEF Receive, Goto, taskVars
  <2>2. Head(chan[w]) \in Progress /\ Head(chan[w]) = chan[w][1] /\ 1 \in 1..Len(chan[w])
    BY <1>0, <2>1, HeadTailProperties, LenProperties, EmptySeq
  <2>3. Past(Head(chan[w])) /\ NotBefore(last[w], Head(chan[w]))
    BY <1>0, <2>1, <2>2 DEF StreamInv, ChannelInv
  <2>4. open(pc'[w]) BY <1>0, <2>1 DEF AfterEvent
  <2> QED BY <1>8, <2>1, <2>2, <2>3, <2>4
<1>12. CASE UNCHANGED vars BY <1>1, <1>12 DEF vars, taskVars, streamVars
<1> QED
  BY <1>2, <1>3, <1>4, <1>5, <1>6, <1>7, <1>9, <1>10, <1>11, <1>12 DEF Next, Worker, Serve

\* Any stream is, for its client, the feed of TaskFeed: states of the task in their order,
\* none older than the one before, and nothing after the final one.
THEOREM FeedSafety == Spec => Feed!Safety
<1>1. Init => Feed!Init
  <2> SUFFICES ASSUME Init PROVE Feed!Init OBVIOUS
  <2>1. last[Watched] = Nothing /\ pc[Watched] = "idle" /\ left = {}
        /\ progress = [status |-> "running", current |-> 0]
    BY StreamAssumption DEF Init
  <2> QED BY <2>1 DEF Feed!Init
<1>2. Inv /\ [Next]_vars => [Feed!Next]_(Feed!feed) BY FeedStep
<1> QED BY <1>1, <1>2, Invariant, PTL DEF Spec, Feed!Safety

===============================================================================
