----------------------------- MODULE IdentityProofs -----------------------------
(***************************************************************************)
(* Proofs about identity metadata: what canonical lists keep, that every   *)
(* context the middleware writes is read back unchanged, and from that the *)
(* safety of the identity path and of the configuration, for every answer  *)
(* of a broker, document of an ingress, deployment and environment.        *)
(***************************************************************************)
EXTENDS IdentityPath, Configuration, FiniteSetTheorems, TLAPS

(* Canonical lists *)

\* What a canonical list depends on: the set of texts and their ranks.
RankIn(texts, text) == Cardinality({t \in texts : t.id <= text.id})

\* The texts of a list are a finite set, no larger than the list, empty only if
\* the list is.
LEMMA TextsFinite ==
    ASSUME NEW S, NEW list \in Seq(S)
    PROVE  /\ IsFiniteSet(ToSet(list))
           /\ Cardinality(ToSet(list)) \in Nat
           /\ Cardinality(ToSet(list)) <= Len(list)
           /\ Len(list) # 0 => Cardinality(ToSet(list)) # 0
<1>0. Len(list) \in Nat /\ DOMAIN list = 1..Len(list)
  OBVIOUS
<1>1. IsFiniteSet(1..Len(list)) /\ Cardinality(1..Len(list)) = Len(list)
  BY <1>0, FS_Interval
<1>2. list \in Surjection(1..Len(list), ToSet(list))
  BY DEF ToSet, Surjection
<1>3. /\ IsFiniteSet(ToSet(list))
      /\ Cardinality(ToSet(list)) <= Len(list)
  BY <1>1, <1>2, FS_Surjection
<1>4. Cardinality(ToSet(list)) \in Nat
  BY <1>3, FS_CardinalityType
<1>5. Len(list) # 0 => list[1] \in ToSet(list)
  BY <1>0 DEF ToSet
<1> QED
  BY <1>3, <1>4, <1>5, FS_EmptySet

\* Ranks count from one and follow the numbers of the texts.
LEMMA RankOrders ==
    ASSUME NEW texts, IsFiniteSet(texts), \A t \in texts : t.id \in Nat
    PROVE  /\ \A t \in texts : RankIn(texts, t) \in 1..Cardinality(texts)
           /\ \A t, u \in texts : t.id < u.id => RankIn(texts, t) < RankIn(texts, u)
<1> DEFINE Upto(u) == {t \in texts : t.id <= u.id}
<1>1. ASSUME NEW u \in texts
      PROVE  /\ IsFiniteSet(Upto(u)) /\ Cardinality(Upto(u)) \in Nat
             /\ Cardinality(Upto(u)) \in 1..Cardinality(texts)
  <2>1. Upto(u) \in SUBSET texts /\ u \in Upto(u)
    OBVIOUS
  <2>2. IsFiniteSet(Upto(u)) /\ Cardinality(Upto(u)) <= Cardinality(texts)
    BY <2>1, FS_Subset
  <2>3. Cardinality(Upto(u)) \in Nat /\ Cardinality(texts) \in Nat /\ Cardinality(Upto(u)) # 0
    BY <2>1, <2>2, FS_CardinalityType, FS_EmptySet
  <2> QED
    BY <2>2, <2>3
<1>2. ASSUME NEW t \in texts, NEW u \in texts, t.id < u.id
      PROVE  Cardinality(Upto(t)) < Cardinality(Upto(u))
  <2>1. Upto(t) \in SUBSET Upto(u) /\ u \in Upto(u) /\ u \notin Upto(t)
    BY <1>2
  <2>2. /\ Cardinality(Upto(t)) <= Cardinality(Upto(u))
        /\ Cardinality(Upto(t)) # Cardinality(Upto(u))
    BY <1>1, <2>1, FS_Subset
  <2>3. Cardinality(Upto(t)) \in Nat /\ Cardinality(Upto(u)) \in Nat
    BY <1>1
  <2> HIDE DEF Upto
  <2> QED
    BY <2>2, <2>3
<1> QED
  BY <1>1, <1>2 DEF RankIn

\* Every place of a canonical list holds the text whose rank it is, and every
\* text has its place: it is the list of the same texts, sorted, without repetition.
LEMMA CanonicalPlaces ==
    ASSUME NEW list, IsTextList(list)
    PROVE  LET texts == ToSet(list)
               n == Cardinality(texts)
           IN  /\ Canonical(list) \in [1..n -> texts]
               /\ \A i \in 1..n : RankIn(texts, Canonical(list)[i]) = i
               /\ \A t \in texts : RankIn(texts, t) \in 1..n
                                   /\ Canonical(list)[RankIn(texts, t)] = t
<1> DEFINE texts == ToSet(list)
           n == Cardinality(texts)
           rank == [t \in texts |-> RankIn(texts, t)]
           ranked == {<<RankIn(texts, t), t>> : t \in texts}
<1>1. IsFiniteSet(texts) /\ n \in Nat
  BY TextsFinite DEF IsTextList
<1>2. \A t \in texts : t.id \in Nat
  <2>1. \A i \in DOMAIN list : list[i] \in Text
    BY DEF IsTextList
  <2> QED
    BY <2>1 DEF ToSet, Text
<1>3. /\ \A t \in texts : RankIn(texts, t) \in 1..n
      /\ \A t, u \in texts : t.id < u.id => RankIn(texts, t) < RankIn(texts, u)
  BY <1>1, <1>2, RankOrders
<1>4. \A t, u \in texts : RankIn(texts, t) = RankIn(texts, u) => t = u
  <2> SUFFICES ASSUME NEW t \in texts, NEW u \in texts, RankIn(texts, t) = RankIn(texts, u)
               PROVE  t = u
    OBVIOUS
  <2>1. ~(t.id < u.id) /\ ~(u.id < t.id)
    BY <1>3
  <2>2. t.id = u.id
    BY <1>2, <2>1
  <2> QED
    BY <2>2 DEF IsTextList
<1>5. rank \in Injection(texts, 1..n)
  BY <1>3, <1>4 DEF Injection, IsInjective
<1>6. IsFiniteSet(1..n) /\ Cardinality(1..n) = n
  BY <1>1, FS_Interval
<1>7. rank \in Surjection(texts, 1..n)
  BY <1>5, <1>6, FS_Injection
<1>8. \A i \in 1..n : \E t \in texts : RankIn(texts, t) = i
  BY <1>7 DEF Surjection
<1>9. Canonical(list) = [i \in 1..n |-> (CHOOSE place \in ranked : place[1] = i)[2]]
  BY DEF Canonical, RankIn
<1>10. ASSUME NEW t \in texts, NEW i \in 1..n, RankIn(texts, t) = i
       PROVE  (CHOOSE place \in ranked : place[1] = i)[2] = t
  <2>1. <<i, t>> \in ranked /\ <<i, t>>[1] = i
    BY <1>10
  <2>2. \A place \in ranked : place[1] = i => place[2] = t
    BY <1>4, <1>10
  <2> HIDE DEF ranked
  <2> QED
    BY <2>1, <2>2
<1>11. \A i \in 1..n : Canonical(list)[i] \in texts /\ RankIn(texts, Canonical(list)[i]) = i
  BY <1>8, <1>9, <1>10
<1>12. \A t \in texts : Canonical(list)[RankIn(texts, t)] = t
  BY <1>3, <1>9, <1>10
<1> QED
  BY <1>3, <1>9, <1>11, <1>12

\* What its users need of a canonical list: the same texts, no more items, none
\* only of an empty list, ascending numbers, and that it is canonical itself.
LEMMA CanonicalKeeps ==
    ASSUME NEW list, IsTextList(list)
    PROVE  /\ Canonical(list) \in Seq(Text)
           /\ ToSet(Canonical(list)) = ToSet(list)
           /\ Len(Canonical(list)) \in Nat
           /\ Len(Canonical(list)) <= Len(list)
           /\ Len(list) # 0 => Len(Canonical(list)) # 0
           /\ \A i, j \in 1..Len(Canonical(list)) :
                i < j => Canonical(list)[i].id < Canonical(list)[j].id
           /\ Canonical(Canonical(list)) = Canonical(list)
<1> DEFINE texts == ToSet(list)
           n == Cardinality(texts)
           c == Canonical(list)
<1>1. /\ IsFiniteSet(texts) /\ n \in Nat /\ n <= Len(list)
      /\ Len(list) # 0 => n # 0
  BY TextsFinite DEF IsTextList
<1>2. texts \subseteq Text
  <2>1. \A i \in DOMAIN list : list[i] \in Text
    BY DEF IsTextList
  <2> QED
    BY <2>1 DEF ToSet
<1>3. \A t \in texts : t.id \in Nat
  BY <1>2 DEF Text
<1>4. /\ c \in [1..n -> texts]
      /\ \A i \in 1..n : RankIn(texts, c[i]) = i
      /\ \A t \in texts : RankIn(texts, t) \in 1..n /\ c[RankIn(texts, t)] = t
  BY CanonicalPlaces
<1> HIDE DEF c
<1>5. c \in Seq(Text) /\ Len(c) = n /\ DOMAIN c = 1..n
  BY <1>1, <1>2, <1>4
<1>6. ToSet(c) = texts
  BY <1>4, <1>5 DEF ToSet
<1>7. Canonical(c) = c
  <2> DEFINE Ranked(S) == {<<Cardinality({t \in S : t.id <= u.id}), u>> : u \in S}
             Listed(S) == [i \in 1..Cardinality(S) |-> (CHOOSE place \in Ranked(S) : place[1] = i)[2]]
  <2>1. Canonical(c) = Listed(ToSet(c))
    BY DEF Canonical
  <2>2. Canonical(list) = Listed(ToSet(list))
    BY DEF Canonical
  <2> HIDE DEF Listed
  <2> QED
    BY <1>6, <2>1, <2>2 DEF c
<1>8. \A t, u \in texts : t.id < u.id => RankIn(texts, t) < RankIn(texts, u)
  BY <1>1, <1>3, RankOrders
<1>9. ASSUME NEW i \in 1..n, NEW j \in 1..n, i < j
      PROVE  c[i].id < c[j].id
  <2>1. c[i] \in texts /\ c[j] \in texts /\ RankIn(texts, c[i]) = i /\ RankIn(texts, c[j]) = j
    BY <1>4
  <2>2. c[i].id \in Nat /\ c[j].id \in Nat
    BY <1>3, <2>1
  <2>3. ~(c[j].id < c[i].id)
    BY <1>1, <1>8, <1>9, <2>1
  <2>4. c[i].id # c[j].id
    BY <1>9, <2>1 DEF IsTextList
  <2> QED
    BY <2>2, <2>3, <2>4
<1> QED
  BY <1>1, <1>5, <1>6, <1>7, <1>9 DEF c

\* Validated lists stay valid when they are made canonical.
LEMMA CanonicalValid ==
    ASSUME NEW list, IsTextList(list)
    PROVE  /\ validated_tokens(list) => validated_tokens(Canonical(list))
           /\ \A service_id : validated_deployment(service_id, list) =>
                             validated_deployment(service_id, Canonical(list))
<1> DEFINE given == Len(list)
           kept == Len(Canonical(list))
<1>1. /\ given \in Nat /\ kept \in Nat /\ kept <= given
      /\ given # 0 => kept # 0
  BY CanonicalKeeps DEF IsTextList
<1>2. ToSet(Canonical(list)) = ToSet(list)
  BY CanonicalKeeps
<1> HIDE DEF given, kept
<1>3. /\ given <= MAX_COLLECTION_ITEMS => kept <= MAX_COLLECTION_ITEMS
      /\ given \in 1..MAX_AUDIENCES => kept \in 1..MAX_AUDIENCES
  BY <1>1 DEF MAX_COLLECTION_ITEMS, MAX_AUDIENCES
<1>4. validated_tokens(list) => validated_tokens(Canonical(list))
  BY <1>2, <1>3 DEF validated_tokens, given, kept
<1>5. ASSUME NEW service_id, validated_deployment(service_id, list)
      PROVE  validated_deployment(service_id, Canonical(list))
  BY <1>2, <1>3, <1>5 DEF validated_deployment, given, kept
<1> QED
  BY <1>4, <1>5
--------------------------------------------------------------------------------
(* Sums of lengths *)

\* A non-empty set of naturals has a smallest element.
LEMMA Smallest ==
    ASSUME NEW T \in SUBSET Nat, T # {}
    PROVE  \E m \in T : \A n \in T : m <= n
<1> DEFINE R == {ss \in Nat \X Nat : ss[1] < ss[2]}
<1>1. IsWellFoundedOn(R, Nat)
  BY NatLessThanWellFounded DEF OpToRel
<1> HIDE DEF R
<1>2. PICK m \in T : \A n \in T : ~(<<n, m>> \in R)
  BY <1>1, WFMin
<1>3. \A n \in T : ~(n < m)
  BY <1>2 DEF R
<1> QED
  BY <1>3

\* Induction on the naturals, for a property given as the set it holds of.
LEMMA Induction ==
    ASSUME NEW T \in SUBSET Nat, 0 \in T, \A n \in T : n + 1 \in T
    PROVE  T = Nat
<1> SUFFICES ASSUME Nat \ T # {} PROVE FALSE
  OBVIOUS
<1>1. PICK m \in Nat \ T : \A n \in Nat \ T : m <= n
  BY Smallest
<1>2. m - 1 \in Nat /\ m - 1 \notin Nat \ T /\ (m - 1) + 1 = m
  BY <1>1
<1> QED
  BY <1>1, <1>2

\* What the recursion in Total defines.
IsSum(sum, lens) ==
    sum = [i \in 0..Len(lens) |-> IF i = 0 THEN 0 ELSE sum[i - 1] + lens[i]]

\* The recursion defines a function, whose values are naturals.
LEMMA SumExists ==
    ASSUME NEW lens \in Seq(Nat)
    PROVE  \E sum \in [0..Len(lens) -> Nat] : IsSum(sum, lens)
<1> DEFINE UpTo(f, n) == /\ f \in [0..n -> Nat]
                         /\ \A i \in 0..n : f[i] = IF i = 0 THEN 0 ELSE f[i - 1] + lens[i]
           T == {n \in Nat : n <= Len(lens) => \E f : UpTo(f, n)}
<1>0. Len(lens) \in Nat /\ \A i \in 1..Len(lens) : lens[i] \in Nat
  OBVIOUS
<1>1. 0 \in T
  <2>1. UpTo([i \in 0..0 |-> 0], 0)
    OBVIOUS
  <2> QED
    BY <2>1
<1> HIDE DEF UpTo
<1>2. ASSUME NEW n \in T PROVE n + 1 \in T
  <2> SUFFICES ASSUME n + 1 <= Len(lens) PROVE \E f : UpTo(f, n + 1)
    OBVIOUS
  <2>1. PICK f : UpTo(f, n)
    BY <1>0
  <2> DEFINE g == [i \in 0..(n + 1) |-> IF i <= n THEN f[i] ELSE f[n] + lens[n + 1]]
  <2>2. n \in Nat /\ lens[n + 1] \in Nat /\ f[n] \in Nat
    BY <1>0, <2>1 DEF UpTo
  <2>3. g \in [0..(n + 1) -> Nat]
    BY <2>1, <2>2 DEF UpTo
  <2>4. ASSUME NEW i \in 0..(n + 1)
        PROVE  g[i] = IF i = 0 THEN 0 ELSE g[i - 1] + lens[i]
    <3>1. CASE i = n + 1
      BY <2>2, <3>1
    <3>2. CASE i \in 0..n
      BY <2>1, <2>2, <3>2 DEF UpTo
    <3> QED
      BY <2>2, <3>1, <3>2
  <2>5. UpTo(g, n + 1)
    BY <2>3, <2>4 DEF UpTo
  <2> QED
    BY <2>5
<1>3. T = Nat
  BY <1>1, <1>2, Induction
<1>4. PICK f : UpTo(f, Len(lens))
  BY <1>0, <1>3
<1>5. f \in [0..Len(lens) -> Nat] /\ IsSum(f, lens)
  BY <1>4 DEF UpTo, IsSum
<1> QED
  BY <1>5

\* The bytes of the first n items, each named by its item and its place there.
BytesOf(lens, n) == {b \in (1..n) \X Nat : b[2] \in 1..lens[b[1]]}

\* A sum counts the bytes.
LEMMA TotalCounts ==
    ASSUME NEW lens \in Seq(Nat)
    PROVE  /\ IsFiniteSet(BytesOf(lens, Len(lens)))
           /\ Total(lens) = Cardinality(BytesOf(lens, Len(lens)))
           /\ Total(lens) \in Nat
<1> DEFINE sum == CHOOSE f : IsSum(f, lens)
           B(n) == BytesOf(lens, n)
           T == {n \in Nat : n <= Len(lens) => IsFiniteSet(B(n)) /\ sum[n] = Cardinality(B(n))}
<1>0. Len(lens) \in Nat /\ \A i \in 1..Len(lens) : lens[i] \in Nat
  OBVIOUS
<1>1. Total(lens) = sum[Len(lens)]
  BY DEF Total, IsSum
<1>2. IsSum(sum, lens)
  BY SumExists
<1> HIDE DEF sum
<1>3. \A i \in 0..Len(lens) : sum[i] = IF i = 0 THEN 0 ELSE sum[i - 1] + lens[i]
  BY <1>2 DEF IsSum
<1>4. 0 \in T
  <2>1. B(0) = {}
    BY DEF BytesOf
  <2>2. sum[0] = 0
    BY <1>0, <1>3
  <2> QED
    BY <2>1, <2>2, FS_EmptySet
<1>5. ASSUME NEW n \in T PROVE n + 1 \in T
  <2> SUFFICES ASSUME n + 1 <= Len(lens)
               PROVE  IsFiniteSet(B(n + 1)) /\ sum[n + 1] = Cardinality(B(n + 1))
    OBVIOUS
  <2> DEFINE item == {n + 1} \X (1..lens[n + 1])
             place == [k \in 1..lens[n + 1] |-> <<n + 1, k>>]
  <2>1. n \in Nat /\ lens[n + 1] \in Nat
    BY <1>0
  <2>2. IsFiniteSet(B(n)) /\ sum[n] = Cardinality(B(n)) /\ sum[n + 1] = sum[n] + lens[n + 1]
    BY <1>0, <1>3, <2>1
  <2>3. B(n + 1) = B(n) \cup item /\ B(n) \cap item = {}
    BY <2>1 DEF BytesOf
  <2>4. place \in Bijection(1..lens[n + 1], item)
    BY DEF Bijection, Injection, Surjection, IsInjective
  <2>5. ExistsBijection(1..lens[n + 1], item)
    BY <2>4 DEF ExistsBijection
  <2> HIDE DEF item, B
  <2>6. Cardinality(item) = lens[n + 1] /\ IsFiniteSet(item)
    BY <2>1, <2>5, FS_CountingElements, FS_NatBijection
  <2>7. /\ IsFiniteSet(B(n) \cup item)
        /\ Cardinality(B(n) \cup item) = Cardinality(B(n)) + Cardinality(item) - Cardinality(B(n) \cap item)
    BY <2>2, <2>6, FS_Union
  <2>8. Cardinality(B(n)) \in Nat
    BY <2>2, FS_CardinalityType
  <2>9. Cardinality({}) = 0
    BY FS_EmptySet
  <2>10. Cardinality(B(n) \cap item) = 0
    BY <2>3, <2>9
  <2>11. Cardinality(B(n) \cup item) = Cardinality(B(n)) + lens[n + 1]
    <3> DEFINE all == Cardinality(B(n) \cup item)
               old == Cardinality(B(n))
               new == Cardinality(item)
               common == Cardinality(B(n) \cap item)
    <3>1. all = old + new - common /\ common = 0 /\ new = lens[n + 1] /\ old \in Nat
      BY <2>6, <2>7, <2>8, <2>10
    <3> HIDE DEF all, old, new, common
    <3>2. all = old + lens[n + 1]
      BY <2>1, <3>1
    <3> QED
      BY <3>2 DEF all, old
  <2> QED
    BY <2>2, <2>3, <2>7, <2>11
<1> HIDE DEF B
<1>6. T = Nat
  BY <1>4, <1>5, Induction
<1>7. IsFiniteSet(B(Len(lens))) /\ sum[Len(lens)] = Cardinality(B(Len(lens)))
  BY <1>0, <1>6
<1> QED
  BY <1>1, <1>7, FS_CardinalityType DEF B

\* A sum over some of the items, none larger, is no larger.
LEMMA TotalOfSome ==
    ASSUME NEW s \in Seq(Nat), NEW t \in Seq(Nat),
           NEW h \in Injection(1..Len(s), 1..Len(t)),
           \A i \in 1..Len(s) : s[i] <= t[h[i]]
    PROVE  Total(s) <= Total(t)
<1> DEFINE S == BytesOf(s, Len(s))
           T == BytesOf(t, Len(t))
           move == [b \in S |-> <<h[b[1]], b[2]>>]
<1>1. \A i \in 1..Len(s) : h[i] \in 1..Len(t) /\ s[i] \in Nat /\ t[h[i]] \in Nat
  <2>1. h \in [1..Len(s) -> 1..Len(t)]
    BY DEF Injection
  <2> QED
    BY <2>1
<1>2. ASSUME NEW b \in S PROVE <<h[b[1]], b[2]>> \in T
  <2>1. b[1] \in 1..Len(s) /\ b[2] \in Nat /\ b[2] \in 1..s[b[1]]
    BY DEF BytesOf
  <2>2. b[2] \in 1..t[h[b[1]]]
    BY <1>1, <2>1
  <2> QED
    BY <1>1, <2>1, <2>2 DEF BytesOf
<1>3. ASSUME NEW b \in S, NEW c \in S, <<h[b[1]], b[2]>> = <<h[c[1]], c[2]>>
      PROVE  b = c
  <2>1. /\ b \in (1..Len(s)) \X Nat /\ c \in (1..Len(s)) \X Nat
        /\ h[b[1]] = h[c[1]] /\ b[2] = c[2]
    BY <1>3 DEF BytesOf
  <2>2. b[1] = c[1]
    BY <2>1 DEF Injection, IsInjective
  <2> QED
    BY <2>1, <2>2
<1>4. move \in Injection(S, T)
  BY <1>2, <1>3 DEF Injection, IsInjective
<1>5. IsFiniteSet(T) /\ Total(s) = Cardinality(S) /\ Total(t) = Cardinality(T)
  BY TotalCounts
<1> HIDE DEF S, T, move
<1> QED
  BY <1>4, <1>5, FS_Injection

\* What a list takes as JSON is a natural number, and no more once it is sorted
\* and repetitions are dropped.
LEMMA ListLens ==
    ASSUME NEW list, IsTextList(list)
    PROVE  /\ ListLen(list) \in Nat /\ ListLen(Canonical(list)) \in Nat
           /\ ListLen(Canonical(list)) <= ListLen(list)
           /\ Canonical(list) = <<>> <=> list = <<>>
<1> DEFINE c == Canonical(list)
           LensOf(l) == [i \in 1..Len(l) |-> l[i].json + 1]
<1>1. /\ list \in Seq(Text) /\ c \in Seq(Text) /\ ToSet(c) = ToSet(list)
      /\ Len(list) # 0 => Len(c) # 0
      /\ Len(c) <= Len(list) /\ Len(c) \in Nat /\ Len(list) \in Nat
      /\ \A i, j \in 1..Len(c) : i < j => c[i].id < c[j].id
  BY CanonicalKeeps DEF IsTextList
<1> HIDE DEF c
<1>2. ASSUME NEW l \in Seq(Text)
      PROVE  LensOf(l) \in Seq(Nat) /\ Len(LensOf(l)) = Len(l)
  <2>1. Len(l) \in Nat /\ \A i \in 1..Len(l) : l[i] \in Text
    OBVIOUS
  <2>2. \A i \in 1..Len(l) : l[i].json + 1 \in Nat
    BY <2>1 DEF Text
  <2> QED
    BY <2>1, <2>2
<1>3. \A l \in Seq(Text) : ListLen(l) = IF l = <<>> THEN 2 ELSE 1 + Total(LensOf(l))
  BY DEF ListLen
<1>4. \A l \in Seq(Text) : Total(LensOf(l)) \in Nat
  BY <1>2, TotalCounts
<1>5. c = <<>> <=> list = <<>>
  BY <1>1
<1> DEFINE h == [i \in 1..Len(c) |-> CHOOSE j \in 1..Len(list) : list[j] = c[i]]
<1>6. \A i \in 1..Len(c) : h[i] \in 1..Len(list) /\ list[h[i]] = c[i]
  <2> TAKE i \in 1..Len(c)
  <2>1. c[i] \in ToSet(list)
    BY <1>1 DEF ToSet
  <2>2. \E j \in 1..Len(list) : list[j] = c[i]
    BY <1>1, <2>1 DEF ToSet
  <2> QED
    BY <2>2
<1> HIDE DEF h
<1>0. \A i \in 1..Len(c) : c[i].id \in Nat /\ c[i].json \in Nat
  <2>1. \A i \in 1..Len(c) : c[i] \in Text
    BY <1>1
  <2> QED
    BY <2>1 DEF Text
<1>7. ASSUME NEW i \in 1..Len(c), NEW j \in 1..Len(c), h[i] = h[j]
      PROVE  i = j
  <2>1. c[i] = c[j]
    BY <1>6, <1>7
  <2>2. ~(i < j) /\ ~(j < i)
    BY <1>0, <1>1, <2>1
  <2> QED
    BY <1>1, <2>2
<1>8. h \in Injection(1..Len(c), 1..Len(list))
  <2>1. h \in [1..Len(c) -> 1..Len(list)]
    BY <1>6 DEF h
  <2> QED
    BY <1>7, <2>1 DEF Injection, IsInjective
<1>9. Total(LensOf(c)) <= Total(LensOf(list))
  <2>1. \A i \in 1..Len(c) : LensOf(c)[i] <= LensOf(list)[h[i]]
    <3> TAKE i \in 1..Len(c)
    <3>1. LensOf(c)[i] = c[i].json + 1 /\ LensOf(list)[h[i]] = list[h[i]].json + 1
      BY <1>6
    <3>2. c[i].json + 1 <= list[h[i]].json + 1
      BY <1>0, <1>6
    <3> QED
      BY <3>1, <3>2
  <2>2. LensOf(c) \in Seq(Nat) /\ LensOf(list) \in Seq(Nat)
        /\ Len(LensOf(c)) = Len(c) /\ Len(LensOf(list)) = Len(list)
    BY <1>1, <1>2
  <2> HIDE DEF LensOf
  <2> QED
    BY <1>8, <2>1, <2>2, TotalOfSome
<1> HIDE DEF LensOf
<1> QED
  BY <1>1, <1>3, <1>4, <1>5, <1>9 DEF c
--------------------------------------------------------------------------------
(* The wire format *)

\* A principal that was built can be built again from its own fields, unchanged.
LEMMA PrincipalRebuilt ==
    ASSUME NEW fields, DOMAIN fields = PrincipalFields,
           \A field \in {"roles", "scopes", "amr"} : IsTextList(fields[field]),
           PrincipalV1(fields) # None
    PROVE  /\ PrincipalV1(PrincipalV1(fields)[1]) = PrincipalV1(fields)
           /\ PrincipalV1(fields) = Some(PrincipalV1(fields)[1])
<1> DEFINE p == [fields EXCEPT !.roles = Canonical(@), !.scopes = Canonical(@), !.amr = Canonical(@)]
<1>1. PrincipalV1(fields) = <<p>>
  BY DEF PrincipalV1, OkIf, Some
<1>2. /\ DOMAIN p = PrincipalFields
      /\ p.roles = Canonical(fields.roles)
      /\ p.scopes = Canonical(fields.scopes)
      /\ p.amr = Canonical(fields.amr)
      /\ p.issuer = fields.issuer /\ p.subject = fields.subject
      /\ p.tenant_id = fields.tenant_id /\ p.acr = fields.acr /\ p.actor = fields.actor
      /\ p.auth_time = fields.auth_time /\ p.expires_at = fields.expires_at
      /\ p.session_id = fields.session_id
  BY DEF PrincipalFields
<1>3. /\ Canonical(p.roles) = p.roles
      /\ Canonical(p.scopes) = p.scopes
      /\ Canonical(p.amr) = p.amr
  BY <1>2, CanonicalKeeps
<1>4. [p EXCEPT !.roles = Canonical(@), !.scopes = Canonical(@), !.amr = Canonical(@)] = p
  BY <1>2, <1>3
<1>5. validated_tokens(p.roles) /\ validated_tokens(p.scopes) /\ validated_tokens(p.amr)
  BY <1>1, <1>2, CanonicalValid DEF PrincipalV1, OkIf, None
<1>6. PrincipalV1(p) = <<p>>
  BY <1>1, <1>2, <1>3, <1>4, <1>5 DEF PrincipalV1, OkIf, None, Some
<1> QED
  BY <1>1, <1>6 DEF Some

\* A field takes a natural number of bytes, and no more with a shorter value.
LEMMA FieldLens ==
    ASSUME NEW name, Len(name) \in Nat
    PROVE  /\ \A v : v.len \in Nat /\ v.skip \in BOOLEAN => Field("object", name, v) \in Nat
           /\ \A v, w : v.len \in Nat /\ w.len \in Nat /\ v.skip \in BOOLEAN
                        /\ v.skip = w.skip /\ v.len <= w.len
                        => Field("object", name, v) <= Field("object", name, w)
BY DEF Field

\* An option that is not empty holds one value.
LEMMA OptionHolds ==
    ASSUME NEW S, NEW option, IsOption(option, S), option # None
    PROVE  option[1] \in S /\ option = <<option[1]>>
<1>1. option \in Seq(S) /\ Len(option) \in Nat /\ Len(option) <= 1
  BY DEF IsOption
<1>2. Len(option) # 0
  BY <1>1 DEF None
<1> DEFINE n == Len(option)
<1>3. n \in Nat /\ n <= 1 /\ n # 0
  BY <1>1, <1>2
<1> HIDE DEF n
<1>4. n = 1
  BY <1>3
<1> QED
  BY <1>1, <1>4 DEF n

\* An option of a text, or of a number, takes a natural number of bytes.
LEMMA OptionLens ==
    /\ \A text \in Text : Full(text.json).len \in Nat /\ Full(text.json).skip \in BOOLEAN
    /\ \A option : IsOption(option, Text) =>
         OptText(option).len \in Nat /\ OptText(option).skip \in BOOLEAN
    /\ \A option : OptNumber(option).len \in Nat /\ OptNumber(option).skip \in BOOLEAN
<1>1. \A text \in Text : text.json \in Nat
  BY DEF Text
<1>2. ASSUME NEW option, IsOption(option, Text), option # None
      PROVE  option[1].json \in Nat
  BY <1>1, <1>2, OptionHolds
<1>3. ASSUME NEW n PROVE Digits(n) \in Nat
  <2> DEFINE shifted == CHOOSE f : f = [k \in 0..19 |-> IF k = 0 THEN n ELSE f[k - 1] \div 10]
             places == {k \in 1..19 : shifted[k] > 0}
  <2>1. Digits(n) = 1 + Cardinality(places)
    BY DEF Digits
  <2>0. 1 \in Int /\ 19 \in Int
    OBVIOUS
  <2>2. IsFiniteSet(1..19)
    BY <2>0, FS_Interval
  <2>3. IsFiniteSet(places)
    BY <2>2, FS_Subset, places \in SUBSET (1..19)
  <2>4. Cardinality(places) \in Nat
    BY <2>3, FS_CardinalityType
  <2> HIDE DEF places
  <2> QED
    BY <2>1, <2>4
<1>4. \A text \in Text : Full(text.json).len \in Nat /\ Full(text.json).skip \in BOOLEAN
  BY <1>1 DEF Full
<1>5. ASSUME NEW option, IsOption(option, Text)
      PROVE  OptText(option).len \in Nat /\ OptText(option).skip \in BOOLEAN
  BY <1>2, <1>5 DEF OptText, Opt
<1>6. ASSUME NEW option
      PROVE  OptNumber(option).len \in Nat /\ OptNumber(option).skip \in BOOLEAN
  BY <1>3 DEF OptNumber, Opt
<1> QED
  BY <1>4, <1>5, <1>6

\* A list field takes a natural number of bytes, and no more once it is canonical.
LEMMA ListFieldLens ==
    ASSUME NEW list, IsTextList(list), NEW name, Len(name) \in Nat
    PROVE  /\ Field("object", name, OptList(list)) \in Nat
           /\ Field("object", name, OptList(Canonical(list))) \in Nat
           /\ Field("object", name, OptList(Canonical(list)))
                <= Field("object", name, OptList(list))
           /\ Field("object", name, Full(ListLen(list))) \in Nat
           /\ Field("object", name, Full(ListLen(Canonical(list)))) \in Nat
           /\ Field("object", name, Full(ListLen(Canonical(list))))
                <= Field("object", name, Full(ListLen(list)))
BY ListLens DEF OptList, Full, Field

\* A principal takes no more bytes once it is built than as it was read.
LEMMA PrincipalLens ==
    ASSUME NEW fields, DOMAIN fields = PrincipalFields, Readable(fields),
           NEW p, p = [fields EXCEPT !.roles = Canonical(@), !.scopes = Canonical(@),
                                     !.amr = Canonical(@)]
    PROVE  /\ PrincipalLen("object", fields) \in Nat /\ PrincipalLen("object", p) \in Nat
           /\ PrincipalLen("object", p) <= PrincipalLen("object", fields)
<1> DEFINE F(name, value) == Field("object", name, value)
<1>1. /\ p.roles = Canonical(fields.roles)
      /\ p.scopes = Canonical(fields.scopes)
      /\ p.amr = Canonical(fields.amr)
      /\ p.issuer = fields.issuer /\ p.subject = fields.subject
      /\ p.tenant_id = fields.tenant_id /\ p.acr = fields.acr /\ p.actor = fields.actor
      /\ p.auth_time = fields.auth_time /\ p.expires_at = fields.expires_at
      /\ p.session_id = fields.session_id
  BY DEF PrincipalFields
<1>2. \A name \in PrincipalFields : Len(name) \in Nat
  BY NameAssumption
<1>3. /\ F("issuer", Full(fields.issuer.json)) \in Nat
      /\ F("subject", Full(fields.subject.json)) \in Nat
      /\ F("tenant_id", OptText(fields.tenant_id)) \in Nat
      /\ F("acr", OptText(fields.acr)) \in Nat
      /\ F("session_id", OptText(fields.session_id)) \in Nat
  BY <1>2, FieldLens, OptionLens DEF PrincipalFields, Readable
<1>4. /\ F("auth_time", OptNumber(fields.auth_time)) \in Nat
      /\ F("expires_at", OptNumber(fields.expires_at)) \in Nat
  BY <1>2, FieldLens, OptionLens DEF PrincipalFields
<1>5. F("actor", OptActor("object", fields.actor)) \in Nat
  <2> DEFINE value == OptActor("object", fields.actor)
  <2>1. CASE fields.actor = None
    <3>1. value.len \in Nat /\ value.skip \in BOOLEAN
      BY <2>1 DEF OptActor, Opt
    <3> QED
      BY <1>2, <3>1, FieldLens DEF PrincipalFields
  <2>2. CASE fields.actor # None
    <3> DEFINE actor == fields.actor[1]
    <3>1. actor \in [issuer : Text, subject : Text]
      BY <2>2, OptionHolds DEF Readable
    <3>2. actor.issuer \in Text /\ actor.subject \in Text
      BY <3>1
    <3> HIDE DEF actor
    <3>3. F("issuer", Full(actor.issuer.json)) \in Nat /\ F("subject", Full(actor.subject.json)) \in Nat
      BY <1>2, <3>2, FieldLens, OptionLens DEF PrincipalFields
    <3>4. ActorLen("object", actor) \in Nat
      BY <3>3 DEF ActorLen
    <3>5. value.len \in Nat /\ value.skip \in BOOLEAN
      BY <2>2, <3>4 DEF OptActor, Opt, actor
    <3> QED
      BY <1>2, <3>5, FieldLens DEF PrincipalFields
  <2> QED
    BY <2>1, <2>2
<1>6. ASSUME NEW name \in {"roles", "scopes", "amr"}
      PROVE  /\ F(name, OptList(fields[name])) \in Nat
             /\ F(name, OptList(Canonical(fields[name]))) \in Nat
             /\ F(name, OptList(Canonical(fields[name]))) <= F(name, OptList(fields[name]))
  BY <1>2, ListFieldLens DEF PrincipalFields, Readable
<1> HIDE DEF F
<1>7. PrincipalLen("object", fields) =
      1 + F("issuer", Full(fields.issuer.json)) + F("subject", Full(fields.subject.json))
        + F("tenant_id", OptText(fields.tenant_id))
        + F("roles", OptList(fields.roles)) + F("scopes", OptList(fields.scopes))
        + F("acr", OptText(fields.acr)) + F("amr", OptList(fields.amr))
        + F("actor", OptActor("object", fields.actor))
        + F("auth_time", OptNumber(fields.auth_time))
        + F("expires_at", OptNumber(fields.expires_at))
        + F("session_id", OptText(fields.session_id))
  BY DEF F, PrincipalLen
<1>8. PrincipalLen("object", p) =
      1 + F("issuer", Full(fields.issuer.json)) + F("subject", Full(fields.subject.json))
        + F("tenant_id", OptText(fields.tenant_id))
        + F("roles", OptList(Canonical(fields.roles)))
        + F("scopes", OptList(Canonical(fields.scopes)))
        + F("acr", OptText(fields.acr)) + F("amr", OptList(Canonical(fields.amr)))
        + F("actor", OptActor("object", fields.actor))
        + F("auth_time", OptNumber(fields.auth_time))
        + F("expires_at", OptNumber(fields.expires_at))
        + F("session_id", OptText(fields.session_id))
  BY <1>1 DEF F, PrincipalLen
<1> QED
  BY <1>3, <1>4, <1>5, <1>6, <1>7, <1>8
--------------------------------------------------------------------------------
\* The middleware's two kinds of context, and what is known of what they are
\* built from.
Anonymous(c, deployment) ==
    /\ IsTextList(deployment.audiences)
    /\ c = anonymous(deployment.service_id, deployment.audiences)
    /\ c # None

Authenticated(c, deployment, fields, decision_id, policy_revision) ==
    /\ IsTextList(deployment.audiences)
    /\ DOMAIN fields = PrincipalFields
    /\ \A field \in {"roles", "scopes", "amr"} : IsTextList(fields[field])
    /\ PrincipalV1(fields) # None
    /\ c = authenticated(deployment.service_id, deployment.audiences, PrincipalV1(fields)[1],
                         decision_id, policy_revision)
    /\ c # None

\* An anonymous context is read back as it was written.
LEMMA AnonymousRead ==
    ASSUME NEW c, NEW deployment, Anonymous(c, deployment)
    PROVE  FromWire(Wire(c[1])) = c
<1> DEFINE list == deployment.audiences
           ctx == [state |-> "anonymous", service_id |-> deployment.service_id,
                   audiences |-> Canonical(list),
                   principal |-> None, decision_id |-> None, policy_revision |-> None]
<1>1. c = <<ctx>> /\ validated_deployment(deployment.service_id, list)
  BY DEF Anonymous, anonymous, OkIf, Some
<1>2. /\ Wire(ctx).version = AUTH_CONTEXT_VERSION /\ Wire(ctx).state = "anonymous"
      /\ Wire(ctx).service_id = deployment.service_id
      /\ Wire(ctx).audiences = Canonical(list)
      /\ Wire(ctx).principal = None /\ Wire(ctx).decision_id = None
      /\ Wire(ctx).policy_revision = None
  BY DEF Wire, None
<1>3. FromWire(Wire(ctx)) = anonymous(deployment.service_id, Canonical(list))
  BY <1>2 DEF FromWire
<1>4. /\ validated_deployment(deployment.service_id, Canonical(list))
      /\ Canonical(Canonical(list)) = Canonical(list)
  BY <1>1, CanonicalValid, CanonicalKeeps DEF Anonymous
<1> QED
  BY <1>1, <1>3, <1>4 DEF anonymous, OkIf, Some

\* An authenticated context is read back as it was written.
LEMMA AuthenticatedRead ==
    ASSUME NEW c, NEW deployment, NEW fields, NEW decision_id, NEW policy_revision,
           Authenticated(c, deployment, fields, decision_id, policy_revision)
    PROVE  FromWire(Wire(c[1])) = c
<1> DEFINE list == deployment.audiences
           p == PrincipalV1(fields)[1]
           ctx == [state |-> "authenticated", service_id |-> deployment.service_id,
                   audiences |-> Canonical(list), principal |-> Some(p),
                   decision_id |-> Some(decision_id), policy_revision |-> Some(policy_revision)]
<1>1. /\ c = <<ctx>> /\ validated_deployment(deployment.service_id, list)
      /\ validate_text(decision_id, MAX_CONTEXT_VALUE_LEN)
      /\ validate_text(policy_revision, MAX_CONTEXT_VALUE_LEN)
  BY DEF Authenticated, authenticated, OkIf, Some
<1>2. PrincipalV1(p) = <<p>>
  BY PrincipalRebuilt DEF Authenticated, Some
<1> HIDE DEF p
<1>3. /\ Wire(ctx).version = AUTH_CONTEXT_VERSION /\ Wire(ctx).state = "authenticated"
      /\ Wire(ctx).service_id = deployment.service_id
      /\ Wire(ctx).audiences = Canonical(list)
      /\ Wire(ctx).principal = <<p>> /\ Wire(ctx).decision_id = <<decision_id>>
      /\ Wire(ctx).policy_revision = <<policy_revision>>
  BY DEF Wire, WirePrincipal, Some
<1>4. FromWire(Wire(ctx)) = authenticated(deployment.service_id, Canonical(list), p,
                                          decision_id, policy_revision)
  BY <1>2, <1>3 DEF FromWire, None
<1>5. /\ validated_deployment(deployment.service_id, Canonical(list))
      /\ Canonical(Canonical(list)) = Canonical(list)
  BY <1>1, CanonicalValid, CanonicalKeeps DEF Authenticated
<1> QED
  BY <1>1, <1>4, <1>5 DEF authenticated, OkIf, Some
--------------------------------------------------------------------------------
(* The identity path *)

\* A request that the middleware serves: its claims are those of the broker's
\* answer, its context is bound from them, or anonymous without them, to an
\* accepted deployment, and its header is the encoding of that context.
ServedInv ==
    /\ middleware \in Deployment /\ success \in Success
    /\ pc \in {"configure", "ready"} => claims = None
    /\ pc \in {"configure", "ready", "claims"} =>
         context = None /\ header = None /\ outcome = "none"
    /\ pc \in {"ready", "claims"} => MiddlewareAccepts(middleware)
    /\ pc = "claims" => claims # None
    /\ claims # None => claims = authenticated_claims(success)
    /\ context # None =>
         /\ header = encode_auth_context(context[1])
         /\ context = IF claims = None
                        THEN anonymous(middleware.service_id, middleware.audiences)
                        ELSE into_context(claims[1], middleware.service_id, middleware.audiences)
    /\ context = None => header = None
    /\ pc = "forwarded" => header # None
    /\ outcome = "ContextEncoding" => claims # None /\ context # None /\ header = None

\* A request of another ingress: only its header is known.
ForeignInv ==
    /\ \E value \in Foreign : header = Some(value)
    /\ claims = None /\ context = None
    /\ pc \in {"forwarded", "done"}
    /\ outcome # "ContextEncoding"

\* The inductive invariant of the identity path: where a request comes from, and
\* that the terminal service's verdict is about what its header decodes to.
PathInv ==
    /\ terminal \in Deployment /\ now \in Nat
    /\ ServedInv \/ ForeignInv
    /\ pc # "done" => installed = None /\ outcome = "none"
    /\ installed # None => installed = Decoded
    /\ outcome = "InvalidBoundary" =>
         header # None /\ ~(Decoded # None /\ Trusted(Decoded[1]))

\* A context that can be encoded decodes to what its document is read as.
LEMMA EncodedDecodes ==
    ASSUME NEW c, encode_auth_context(c) # None
    PROVE  decode_auth_context(encode_auth_context(c)[1]) = FromWire(Wire(c))
<1> DEFINE value == Header("object", "canonical", Wire(c))
<1>1. /\ encode_auth_context(c) = <<value>>
      /\ EncodedLen(JsonLen("object", Wire(c))) <= MAX_AUTH_CONTEXT_ENCODED_LEN
  BY DEF encode_auth_context, OkIf, Some
<1>2. value.form = "object" /\ value.base64 = "canonical" /\ value.wire = Wire(c)
  BY DEF Header
<1> HIDE DEF value
<1> QED
  BY <1>1, <1>2 DEF decode_auth_context

\* Accepted claims hold the principal of the answer and identifiers of its
\* decision that pass every later test.
LEMMA ClaimsOf ==
    ASSUME NEW answer, authenticated_claims(answer) # None
    PROVE  /\ Principal(answer) # None
           /\ authenticated_claims(answer) = Some(Claims(Principal(answer)[1], answer))
           /\ validate_text(answer.decision_id, MAX_CONTEXT_VALUE_LEN)
           /\ validate_text(answer.policy_revision, MAX_CONTEXT_VALUE_LEN)
<1>1. /\ Principal(answer) # None
      /\ authenticated(Validation, <<Validation>>, Principal(answer)[1],
                       answer.decision_id, answer.policy_revision) # None
      /\ authenticated_claims(answer) = Some(Claims(Principal(answer)[1], answer))
  BY DEF authenticated_claims, OkIf
<1> QED
  BY <1>1 DEF authenticated, OkIf

\* Accepted claims make a context for every accepted deployment.
LEMMA ClaimsBind ==
    ASSUME NEW answer, authenticated_claims(answer) # None,
           NEW deployment, MiddlewareAccepts(deployment)
    PROVE  into_context(authenticated_claims(answer)[1],
                        deployment.service_id, deployment.audiences) # None
<1>1. validated_deployment(deployment.service_id, deployment.audiences)
  BY DEF MiddlewareAccepts, anonymous, OkIf
<1>2. /\ authenticated_claims(answer)[1].decision_id = answer.decision_id
      /\ authenticated_claims(answer)[1].policy_revision = answer.policy_revision
  BY ClaimsOf DEF Some, Claims
<1> QED
  BY <1>1, <1>2, ClaimsOf DEF into_context, authenticated, OkIf, None, Some

\* What the middleware writes, the terminal service reads.
LEMMA ReadBack ==
    ASSUME ServedInv, context # None, header # None
    PROVE  Decoded = context
<1>1. IsTextList(middleware.audiences)
  BY DeploymentAssumption DEF ServedInv
<1>2. Decoded = FromWire(Wire(context[1]))
  BY EncodedDecodes DEF ServedInv, Decoded
<1>3. CASE claims = None
  <2>1. Anonymous(context, middleware)
    BY <1>1, <1>3 DEF ServedInv, Anonymous
  <2> QED
    BY <1>2, <2>1, AnonymousRead
<1>4. CASE claims # None
  <2> DEFINE fields == [field \in PrincipalFields |-> success[field]]
  <2>1. \A field \in {"roles", "scopes", "amr"} : IsTextList(fields[field])
    BY SuccessAssumption DEF ServedInv, Readable, PrincipalFields
  <2>2. /\ PrincipalV1(fields) # None
        /\ claims = <<Claims(PrincipalV1(fields)[1], success)>>
    BY <1>4, ClaimsOf DEF ServedInv, Principal, Some
  <2>3. /\ claims[1].principal = PrincipalV1(fields)[1]
        /\ claims[1].decision_id = success.decision_id
        /\ claims[1].policy_revision = success.policy_revision
    BY <2>2 DEF Claims
  <2>4. DOMAIN fields = PrincipalFields
    OBVIOUS
  <2> HIDE DEF fields
  <2>5. context = authenticated(middleware.service_id, middleware.audiences,
                                PrincipalV1(fields)[1],
                                success.decision_id, success.policy_revision)
    BY <1>4, <2>3 DEF ServedInv, into_context
  <2>6. Authenticated(context, middleware, fields, success.decision_id, success.policy_revision)
    BY <1>1, <2>1, <2>2, <2>4, <2>5 DEF Authenticated
  <2> QED
    BY <1>2, <2>6, AuthenticatedRead
<1> QED
  BY <1>3, <1>4

\* Every request begins as one of the two kinds.
LEMMA InitPath == Init => PathInv
<1> SUFFICES ASSUME Init PROVE PathInv
  OBVIOUS
<1>1. ServedInv \/ ForeignInv
  BY DEF Init, ServedInv, ForeignInv, None, Some
<1> QED
  BY <1>1 DEF Init, PathInv

\* Every step of the middleware, the broker, the terminal service and the clock
\* keeps the invariant of the path.
LEMMA StepPath == PathInv /\ [Next]_vars => PathInv'
<1> SUFFICES ASSUME PathInv, [Next]_vars PROVE PathInv'
  OBVIOUS
<1>1. CASE Configure
  <2>1. ServedInv
    BY <1>1 DEF PathInv, Configure, ForeignInv
  <2>2. ServedInv'
    BY <1>1, <2>1 DEF ServedInv, Configure, Finish, None, Some
  <2> QED
    BY <1>1, <2>2 DEF PathInv, Configure, Finish, Decoded
<1>2. CASE ForwardAnonymous
  <2>1. ServedInv
    BY <1>2 DEF PathInv, ForwardAnonymous, ForeignInv
  <2> DEFINE bound == anonymous(middleware.service_id, middleware.audiences)
  <2>2. bound # None /\ encode_auth_context(bound[1]) # None
    BY <1>2, <2>1 DEF ServedInv, ForwardAnonymous, MiddlewareAccepts
  <2> HIDE DEF bound
  <2>3. /\ context' = bound /\ header' = encode_auth_context(bound[1])
        /\ pc' = "forwarded" /\ outcome' = outcome
        /\ UNCHANGED <<middleware, terminal, success, claims, now, installed>>
    BY <1>2, <2>2 DEF ForwardAnonymous, Forward, bound
  <2>4. claims = None /\ outcome = "none" /\ installed = None
    BY <1>2, <2>1 DEF ServedInv, ForwardAnonymous, PathInv
  <2>5. ServedInv'
    BY <2>1, <2>2, <2>3, <2>4 DEF ServedInv, bound
  <2> QED
    BY <2>3, <2>4, <2>5 DEF PathInv
<1>3. CASE BrokerAnswers
  <2>1. ServedInv
    BY <1>3 DEF PathInv, BrokerAnswers, ForeignInv
  <2>2. ServedInv'
    BY <1>3, <2>1 DEF ServedInv, BrokerAnswers, Finish
  <2> QED
    BY <1>3, <2>2 DEF PathInv, BrokerAnswers, Finish, Decoded
<1>4. CASE BindClaims
  <2>1. ServedInv
    BY <1>4 DEF PathInv, BindClaims, ForeignInv
  <2> DEFINE bound == into_context(claims[1], middleware.service_id, middleware.audiences)
  <2>2. claims # None /\ bound # None
    BY <1>4, <2>1, ClaimsBind DEF ServedInv, BindClaims
  <2> HIDE DEF bound
  <2>3. /\ context' = bound /\ header' = encode_auth_context(bound[1])
        /\ IF header' = None THEN Finish("ContextEncoding")
                             ELSE pc' = "forwarded" /\ outcome' = outcome
        /\ UNCHANGED <<middleware, terminal, success, claims, now, installed>>
    BY <1>4, <2>2 DEF BindClaims, Forward, bound
  <2>4. outcome = "none" /\ installed = None
    BY <1>4, <2>1 DEF ServedInv, BindClaims, PathInv
  <2>5. ServedInv'
    BY <2>1, <2>2, <2>3, <2>4 DEF ServedInv, Finish, bound
  <2> QED
    BY <2>3, <2>4, <2>5 DEF PathInv, Finish
<1>5. CASE Accept
  <2>1. header # None /\ UNCHANGED <<middleware, terminal, success, claims, context, header, now>>
    BY <1>5 DEF PathInv, Accept, ServedInv, ForeignInv, None, Some
  <2>2. /\ Decoded' = Decoded
        /\ installed' = IF Decoded # None /\ Trusted(Decoded[1]) THEN Decoded ELSE None
        /\ pc' = "done" /\ outcome' = IF installed' = None THEN "InvalidBoundary" ELSE "Ok"
    BY <1>5, <2>1 DEF Accept, Finish, Decoded
  <2>3. Decoded # None => (Trusted(Decoded[1])' <=> Trusted(Decoded[1]))
    BY <2>1, <2>2 DEF Trusted
  <2>4. (ServedInv \/ ForeignInv)'
    BY <2>1, <2>2 DEF PathInv, ServedInv, ForeignInv
  <2> QED
    BY <2>1, <2>2, <2>3, <2>4 DEF PathInv
<1>6. CASE Tick
  <2>1. (ServedInv \/ ForeignInv)'
    BY <1>6 DEF PathInv, Tick, ServedInv, ForeignInv
  <2> QED
    BY <1>6, <2>1 DEF PathInv, Tick, Decoded
<1>7. CASE UNCHANGED vars
  BY <1>7 DEF PathInv, ServedInv, ForeignInv, vars, Decoded, Trusted
<1> QED
  BY <1>1, <1>2, <1>3, <1>4, <1>5, <1>6, <1>7 DEF Next

\* Every request is served by the middleware or of another ingress, and what is
\* decided about it is decided about what its header decodes to.
THEOREM PathAlways == Spec => []PathInv
  BY InitPath, StepPath, PTL DEF Spec

\* An item of a sequence.
LEMMA ItemIn ==
    ASSUME NEW S, NEW seq \in Seq(S), NEW i \in 1..Len(seq)
    PROVE  seq[i] \in S
  OBVIOUS

\* An absent option holds nothing.
LEMMA NothingIn == ToSet(None) = {}
  BY DEF ToSet, None

\* What a context of the middleware holds: the deployment's service and audiences,
\* and either nothing or the fields of the answer.
LEMMA ContextHolds ==
    ASSUME ServedInv, context # None
    PROVE  /\ context = <<context[1]>>
           /\ context[1].service_id = middleware.service_id
           /\ ToSet(context[1].audiences) = ToSet(middleware.audiences)
           /\ claims = None => context[1].principal = None
           /\ claims # None =>
                /\ context[1].principal = <<context[1].principal[1]>>
                /\ \A field \in PrincipalFields \ {"roles", "scopes", "amr"} :
                     context[1].principal[1][field] = success[field]
                /\ \A field \in {"roles", "scopes", "amr"} :
                     ToSet(context[1].principal[1][field]) = ToSet(success[field])
                /\ context[1].decision_id = <<success.decision_id>>
                /\ context[1].policy_revision = <<success.policy_revision>>
<1>1. ToSet(Canonical(middleware.audiences)) = ToSet(middleware.audiences)
  BY DeploymentAssumption, CanonicalKeeps DEF ServedInv
<1>2. CASE claims = None
  <2>1. context = anonymous(middleware.service_id, middleware.audiences)
    BY <1>2 DEF ServedInv
  <2>2. /\ context = <<context[1]>>
        /\ context[1].service_id = middleware.service_id
        /\ context[1].audiences = Canonical(middleware.audiences)
        /\ context[1].principal = None
    BY <2>1 DEF anonymous, OkIf, Some
  <2> QED
    BY <1>1, <1>2, <2>2
<1>3. CASE claims # None
  <2> DEFINE fields == [field \in PrincipalFields |-> success[field]]
             p == [fields EXCEPT !.roles = Canonical(@), !.scopes = Canonical(@), !.amr = Canonical(@)]
  <2>1. /\ Principal(success) # None
        /\ claims = <<Claims(Principal(success)[1], success)>>
    BY <1>3, ClaimsOf DEF ServedInv, Some
  <2>2. Principal(success) = <<p>>
    BY <2>1 DEF Principal, PrincipalV1, OkIf, Some
  <2>3. /\ claims[1].principal = p
        /\ claims[1].decision_id = success.decision_id
        /\ claims[1].policy_revision = success.policy_revision
    BY <2>1, <2>2 DEF Claims
  <2>4. \A field \in PrincipalFields \ {"roles", "scopes", "amr"} : p[field] = success[field]
    BY DEF PrincipalFields
  <2>5. /\ p.roles = Canonical(success.roles)
        /\ p.scopes = Canonical(success.scopes)
        /\ p.amr = Canonical(success.amr)
    BY DEF PrincipalFields
  <2>6. /\ IsTextList(success.roles) /\ IsTextList(success.scopes) /\ IsTextList(success.amr)
    BY SuccessAssumption DEF ServedInv, Readable
  <2>7. \A field \in {"roles", "scopes", "amr"} : ToSet(p[field]) = ToSet(success[field])
    BY <2>5, <2>6, CanonicalKeeps
  <2> HIDE DEF p
  <2>8. context = authenticated(middleware.service_id, middleware.audiences, p,
                                success.decision_id, success.policy_revision)
    BY <1>3, <2>3 DEF ServedInv, into_context
  <2>9. /\ context = <<context[1]>>
        /\ context[1].service_id = middleware.service_id
        /\ context[1].audiences = Canonical(middleware.audiences)
        /\ context[1].principal = <<p>>
        /\ context[1].decision_id = <<success.decision_id>>
        /\ context[1].policy_revision = <<success.policy_revision>>
    BY <2>8 DEF authenticated, OkIf, Some
  <2> QED
    BY <1>1, <1>3, <2>4, <2>7, <2>9
<1> QED
  BY <1>2, <1>3

\* RefusedForCause for every deployment, answer and time: the terminal service
\* refuses a context of the middleware only for its service, its audiences or its
\* expiry, because it reads back exactly what was written.
THEOREM RefusalsHaveCause == Spec => []RefusedForCause
<1>1. PathInv => RefusedForCause
  <2> SUFFICES ASSUME PathInv, outcome = "InvalidBoundary", context # None,
                      terminal.service_id = middleware.service_id,
                      ToSet(terminal.audiences) \cap ToSet(middleware.audiences) # {}
               PROVE  success.expires_at # None /\ success.expires_at[1] <= now
    BY DEF RefusedForCause
  <2>1. ServedInv
    BY DEF PathInv, ForeignInv
  <2>2. Decoded = context /\ ~Trusted(context[1])
    BY <2>1, ReadBack DEF PathInv
  <2>3. ~validate_lifetime(context[1], now)
    BY <2>1, <2>2, ContextHolds DEF Trusted
  <2>4. PICK expiry \in ToSet(ExpiresAt(context[1])) : ~(expiry > now)
    BY <2>3 DEF validate_lifetime
  <2>5. claims # None
    BY <2>1, <2>4, ContextHolds DEF ExpiresAt, None, ToSet
  <2>6. ExpiresAt(context[1]) = success.expires_at
    BY <2>1, <2>5, ContextHolds DEF ExpiresAt, None, PrincipalFields
  <2> DEFINE times == success.expires_at
  <2>7. times \in Seq(Nat) /\ Len(times) <= 1
    BY <2>1, SuccessAssumption DEF ServedInv, Readable, IsOption
  <2>8. PICK i \in 1..Len(times) : expiry = times[i]
    BY <2>4, <2>6, <2>7 DEF ToSet
  <2> HIDE DEF times
  <2>9. i = 1 /\ Len(times) = 1 /\ times[1] \in Nat
    <3>1. Len(times) \in Nat
      BY <2>7
    <3> DEFINE n == Len(times)
    <3> HIDE DEF n
    <3>2. n \in Nat /\ n <= 1 /\ i \in 1..n
      BY <2>7, <3>1 DEF n
    <3>3. i = 1 /\ n = 1
      BY <3>2
    <3>4. times[i] \in Nat
      BY <2>7, ItemIn
    <3> QED
      BY <3>3, <3>4 DEF n
  <2>10. times # None
    BY <2>9 DEF None
  <2>11. times[1] <= now
    <3>1. now \in Nat
      BY DEF PathInv
    <3>2. expiry \in Nat /\ expiry = times[1] /\ ~(expiry > now)
      BY <2>4, <2>8, <2>9
    <3> QED
      BY <3>1, <3>2
  <2> QED
    BY <2>10, <2>11 DEF times
<1> QED
  BY <1>1, PathAlways, PTL

\* IdentityKept for every deployment and answer: what the terminal service
\* installs is what the broker asserted, field by field.
THEOREM IdentityUnchanged == Spec => []IdentityKept
<1>1. PathInv => IdentityKept
  <2> SUFFICES ASSUME PathInv, context # None, installed # None
               PROVE  IdentityKept
    BY NothingIn DEF IdentityKept
  <2>1. ServedInv
    BY DEF PathInv, ForeignInv
  <2>2. header # None
    BY DEF PathInv, Decoded
  <2>3. installed = <<context[1]>>
    BY <2>1, <2>2, ReadBack, ContextHolds DEF PathInv
  <2>4. ToSet(installed) = {context[1]}
    BY <2>3 DEF ToSet
  <2>5. CASE claims = None
    BY <2>1, <2>4, <2>5, ContextHolds, NothingIn DEF IdentityKept
  <2>6. CASE claims # None
    <3> DEFINE c == context[1]
               p == c.principal[1]
    <3>1. c.principal = <<p>>
      BY <2>1, <2>6, ContextHolds
    <3>2. c.principal # None /\ ToSet(c.principal) = {p}
      BY <3>1 DEF None, ToSet
    <3> QED
      BY <2>1, <2>4, <2>6, <3>2, ContextHolds DEF IdentityKept
  <2> QED
    BY <2>5, <2>6
<1> QED
  BY <1>1, PathAlways, PTL

\* OnlySizeRefuses for every deployment and answer: claims that were accepted can
\* only fail for the encoded size of their context, and no anonymous context does.
THEOREM SizeIsTheOnlyRefusal == Spec => []OnlySizeRefuses
<1>1. PathInv => OnlySizeRefuses
  BY DEF PathInv, ForeignInv, ServedInv, OnlySizeRefuses, encode_auth_context, OkIf, None, Some
<1> QED
  BY <1>1, PathAlways, PTL

\* A principal that was built from readable fields is sorted and begins before it
\* ends.
LEMMA PrincipalSound ==
    ASSUME NEW fields, DOMAIN fields = PrincipalFields, Readable(fields),
           PrincipalV1(fields) # None
    PROVE  SoundPrincipal(PrincipalV1(fields)[1])
<1> DEFINE p == PrincipalV1(fields)[1]
           begun == fields.auth_time
           ends == fields.expires_at
<1>1. /\ p = [fields EXCEPT !.roles = Canonical(@), !.scopes = Canonical(@), !.amr = Canonical(@)]
      /\ with_times(begun, ends)
  BY DEF PrincipalV1, OkIf, Some
<1> HIDE DEF p
<1>2. /\ p.roles = Canonical(fields.roles)
      /\ p.scopes = Canonical(fields.scopes)
      /\ p.amr = Canonical(fields.amr)
      /\ p.auth_time = begun /\ p.expires_at = ends
  BY <1>1 DEF PrincipalFields
<1>3. IsTextList(fields.roles) /\ IsTextList(fields.scopes) /\ IsTextList(fields.amr)
  BY DEF Readable
<1>4. begun \in Seq(Nat) /\ ends \in Seq(Nat)
  BY DEF Readable, IsOption
<1> HIDE DEF begun, ends
<1>5. ASSUME begun # None, ends # None PROVE begun[1] < ends[1]
  <2>1. 1 \in 1..Len(begun) /\ 1 \in 1..Len(ends)
    BY <1>4, <1>5 DEF None
  <2>2. begun[1] \in Nat /\ ends[1] \in Nat
    BY <1>4, <2>1, ItemIn
  <2>3. begun[1] \in ToSet(begun) /\ ends[1] \in ToSet(ends)
    BY <1>4, <2>1 DEF ToSet
  <2>4. ends[1] > begun[1]
    BY <1>1, <2>3 DEF with_times
  <2> QED
    BY <2>2, <2>4
<1>6. Sorted(p.roles) /\ Sorted(p.scopes) /\ Sorted(p.amr)
  BY <1>2, <1>3, CanonicalKeeps DEF Sorted
<1> QED
  BY <1>2, <1>5, <1>6 DEF p, SoundPrincipal

\* What is decoded was read from a document, well-formed as serde_json leaves it.
IsDocument(wire) ==
    /\ IsTextList(wire.audiences)
    /\ wire.principal # None =>
         /\ wire.principal = Some(wire.principal[1])
         /\ DOMAIN wire.principal[1] = PrincipalFields
         /\ Readable(wire.principal[1])

\* The audiences of a validated deployment are some, and sorted when canonical.
LEMMA AudiencesSound ==
    ASSUME NEW service_id, NEW list, IsTextList(list), validated_deployment(service_id, list)
    PROVE  Canonical(list) # <<>> /\ Sorted(Canonical(list))
<1>1. Len(list) # 0
  BY DEF validated_deployment
<1>2. Len(Canonical(list)) # 0
  BY <1>1, CanonicalKeeps
<1> QED
  BY <1>2, CanonicalKeeps DEF Sorted

\* Whatever document is read, if it is read, the context is sound.
LEMMA ReadSound ==
    ASSUME NEW wire, IsDocument(wire), FromWire(wire) # None
    PROVE  /\ FromWire(wire) = <<FromWire(wire)[1]>>
           /\ LET c == FromWire(wire)[1]
                  parts == {c.principal, c.decision_id, c.policy_revision}
              IN  /\ IF c.state = "authenticated" THEN None \notin parts ELSE parts = {None}
                  /\ c.audiences # <<>> /\ Sorted(c.audiences)
                  /\ \A p \in ToSet(c.principal) : SoundPrincipal(p)
<1> DEFINE c == FromWire(wire)[1]
<1>1. CASE /\ wire.version = AUTH_CONTEXT_VERSION /\ wire.state = "anonymous"
           /\ wire.principal = None /\ wire.decision_id = None /\ wire.policy_revision = None
  <2>1. FromWire(wire) = anonymous(wire.service_id, wire.audiences)
    BY <1>1 DEF FromWire
  <2>2. /\ validated_deployment(wire.service_id, wire.audiences)
        /\ FromWire(wire) = <<c>>
        /\ c.state = "anonymous" /\ c.audiences = Canonical(wire.audiences)
        /\ c.principal = None /\ c.decision_id = None /\ c.policy_revision = None
    BY <2>1 DEF anonymous, OkIf, Some
  <2> HIDE DEF c
  <2> QED
    BY <2>2, AudiencesSound, NothingIn DEF c, IsDocument
<1>2. CASE /\ wire.version = AUTH_CONTEXT_VERSION /\ wire.state = "authenticated"
           /\ wire.principal # None /\ wire.decision_id # None /\ wire.policy_revision # None
  <2> DEFINE built == PrincipalV1(wire.principal[1])
  <2>1. /\ built # None
        /\ FromWire(wire) = authenticated(wire.service_id, wire.audiences, built[1],
                                          wire.decision_id[1], wire.policy_revision[1])
    BY <1>2 DEF FromWire
  <2>2. SoundPrincipal(built[1])
    BY <1>2, <2>1, PrincipalSound DEF IsDocument
  <2> HIDE DEF built
  <2>3. /\ validated_deployment(wire.service_id, wire.audiences)
        /\ FromWire(wire) = <<c>>
        /\ c.state = "authenticated" /\ c.audiences = Canonical(wire.audiences)
        /\ c.principal = <<built[1]>>
        /\ c.decision_id = <<wire.decision_id[1]>>
        /\ c.policy_revision = <<wire.policy_revision[1]>>
    BY <2>1 DEF authenticated, OkIf, Some
  <2>4. ToSet(c.principal) = {built[1]}
    BY <2>3 DEF ToSet
  <2> HIDE DEF c
  <2>5. c.principal # None /\ c.decision_id # None /\ c.policy_revision # None
    BY <2>3 DEF None
  <2>6. c.audiences # <<>> /\ Sorted(c.audiences)
    BY <2>3, AudiencesSound DEF IsDocument
  <2> QED
    BY <2>2, <2>3, <2>4, <2>5, <2>6 DEF c
<1> QED
  BY <1>1, <1>2 DEF FromWire

\* A document that was read, written again, reads the same.
LEMMA ReadAgain ==
    ASSUME NEW wire, IsDocument(wire), FromWire(wire) # None
    PROVE  FromWire(Wire(FromWire(wire)[1])) = FromWire(wire)
<1>1. CASE /\ wire.version = AUTH_CONTEXT_VERSION /\ wire.state = "anonymous"
           /\ wire.principal = None /\ wire.decision_id = None /\ wire.policy_revision = None
  <2>1. FromWire(wire) = anonymous(wire.service_id, wire.audiences)
    BY <1>1 DEF FromWire
  <2>2. Anonymous(FromWire(wire), wire)
    BY <2>1 DEF Anonymous, IsDocument
  <2> QED
    BY <2>2, AnonymousRead
<1>2. CASE /\ wire.version = AUTH_CONTEXT_VERSION /\ wire.state = "authenticated"
           /\ wire.principal # None /\ wire.decision_id # None /\ wire.policy_revision # None
  <2>1. /\ PrincipalV1(wire.principal[1]) # None
        /\ FromWire(wire) = authenticated(wire.service_id, wire.audiences,
                                          PrincipalV1(wire.principal[1])[1],
                                          wire.decision_id[1], wire.policy_revision[1])
    BY <1>2 DEF FromWire
  <2>2. Authenticated(FromWire(wire), wire, wire.principal[1],
                      wire.decision_id[1], wire.policy_revision[1])
    BY <1>2, <2>1 DEF Authenticated, IsDocument, Readable
  <2> QED
    BY <2>2, AuthenticatedRead
<1> QED
  BY <1>1, <1>2 DEF FromWire

\* Documents as serde_json types them, every field included.
IsTypedDocument(wire) ==
    /\ IsDocument(wire)
    /\ wire.state \in States /\ wire.service_id \in Text
    /\ IsOption(wire.decision_id, Text) /\ IsOption(wire.policy_revision, Text)

\* What was read from an object can be written in no more bytes: the context has
\* the fields of the document, and lists that are no longer.
LEMMA DocumentLens ==
    ASSUME NEW wire, IsTypedDocument(wire), FromWire(wire) # None
    PROVE  /\ JsonLen("object", wire) \in Nat
           /\ JsonLen("object", Wire(FromWire(wire)[1])) \in Nat
           /\ JsonLen("object", Wire(FromWire(wire)[1])) <= JsonLen("object", wire)
<1> DEFINE F(name, value) == Field("object", name, value)
           again == Wire(FromWire(wire)[1])
<1>1. /\ \A name \in States : Len(name) \in Nat
      /\ \A name \in {"version", "state", "service_id", "audiences", "principal",
                      "decision_id", "policy_revision"} : Len(name) \in Nat
  BY NameAssumption
<1>2. F("version", Full(1)) \in Nat /\ F("state", Full(Len(wire.state) + 2)) \in Nat
  <2>1. Len(wire.state) + 2 \in Nat
    BY <1>1 DEF IsTypedDocument
  <2>2. /\ Full(1).len \in Nat /\ Full(1).skip \in BOOLEAN
        /\ Full(Len(wire.state) + 2).len \in Nat /\ Full(Len(wire.state) + 2).skip \in BOOLEAN
    BY <2>1 DEF Full
  <2> QED
    BY <1>1, <2>2, FieldLens
<1>3. /\ F("service_id", Full(wire.service_id.json)) \in Nat
      /\ F("decision_id", OptText(wire.decision_id)) \in Nat
      /\ F("policy_revision", OptText(wire.policy_revision)) \in Nat
  BY <1>1, FieldLens, OptionLens DEF IsTypedDocument
<1>4. /\ F("audiences", Full(ListLen(wire.audiences))) \in Nat
      /\ F("audiences", Full(ListLen(Canonical(wire.audiences)))) \in Nat
      /\ F("audiences", Full(ListLen(Canonical(wire.audiences))))
           <= F("audiences", Full(ListLen(wire.audiences)))
  BY <1>1, ListFieldLens DEF IsTypedDocument, IsDocument
<1>5. /\ again.state = wire.state /\ again.service_id = wire.service_id
      /\ again.audiences = Canonical(wire.audiences)
      /\ again.decision_id = wire.decision_id /\ again.policy_revision = wire.policy_revision
      /\ F("principal", OptPrincipal("object", wire.principal)) \in Nat
      /\ F("principal", OptPrincipal("object", again.principal)) \in Nat
      /\ F("principal", OptPrincipal("object", again.principal))
           <= F("principal", OptPrincipal("object", wire.principal))
  <2>1. CASE /\ wire.version = AUTH_CONTEXT_VERSION /\ wire.state = "anonymous"
             /\ wire.principal = None /\ wire.decision_id = None /\ wire.policy_revision = None
    <3>1. FromWire(wire) = anonymous(wire.service_id, wire.audiences)
      BY <2>1 DEF FromWire
    <3>2. FromWire(wire)[1] = [state |-> "anonymous", service_id |-> wire.service_id,
                               audiences |-> Canonical(wire.audiences), principal |-> None,
                               decision_id |-> None, policy_revision |-> None]
      BY <3>1 DEF anonymous, OkIf, Some
    <3>3. /\ again.state = "anonymous" /\ again.service_id = wire.service_id
          /\ again.audiences = Canonical(wire.audiences)
          /\ again.principal = None
          /\ again.decision_id = None /\ again.policy_revision = None
      BY <3>2 DEF Wire, None
    <3>4. OptPrincipal("object", None).len \in Nat /\ OptPrincipal("object", None).skip \in BOOLEAN
      BY DEF OptPrincipal, Opt
    <3>5. F("principal", OptPrincipal("object", None)) \in Nat
      BY <1>1, <3>4, FieldLens
    <3> HIDE DEF F, again
    <3> QED
      BY <2>1, <3>3, <3>5
  <2>2. CASE /\ wire.version = AUTH_CONTEXT_VERSION /\ wire.state = "authenticated"
             /\ wire.principal # None /\ wire.decision_id # None /\ wire.policy_revision # None
    <3> DEFINE fields == wire.principal[1]
               p == PrincipalV1(fields)[1]
    <3>1. /\ PrincipalV1(fields) # None
          /\ FromWire(wire) = authenticated(wire.service_id, wire.audiences, p,
                                            wire.decision_id[1], wire.policy_revision[1])
      BY <2>2 DEF FromWire
    <3>2. /\ wire.principal = <<fields>> /\ DOMAIN fields = PrincipalFields /\ Readable(fields)
          /\ wire.decision_id = <<wire.decision_id[1]>>
          /\ wire.policy_revision = <<wire.policy_revision[1]>>
      BY <2>2, OptionHolds DEF IsTypedDocument, IsDocument, Some
    <3>3. p = [fields EXCEPT !.roles = Canonical(@), !.scopes = Canonical(@), !.amr = Canonical(@)]
      BY <3>1 DEF PrincipalV1, OkIf, Some
    <3> HIDE DEF fields, p
    <3>4. FromWire(wire)[1] = [state |-> "authenticated", service_id |-> wire.service_id,
                               audiences |-> Canonical(wire.audiences), principal |-> <<p>>,
                               decision_id |-> <<wire.decision_id[1]>>,
                               policy_revision |-> <<wire.policy_revision[1]>>]
      BY <3>1 DEF authenticated, OkIf, Some
    <3>5. /\ again.state = "authenticated" /\ again.service_id = wire.service_id
          /\ again.audiences = Canonical(wire.audiences)
          /\ again.principal = <<p>>
          /\ again.decision_id = <<wire.decision_id[1]>>
          /\ again.policy_revision = <<wire.policy_revision[1]>>
      BY <3>4 DEF Wire, WirePrincipal
    <3>6. /\ PrincipalLen("object", fields) \in Nat /\ PrincipalLen("object", p) \in Nat
          /\ PrincipalLen("object", p) <= PrincipalLen("object", fields)
      BY <3>2, <3>3, PrincipalLens
    <3>7. \A q : /\ OptPrincipal("object", <<q>>).len = PrincipalLen("object", q)
                 /\ OptPrincipal("object", <<q>>).skip = FALSE
      BY DEF OptPrincipal, Opt, None
    <3>8. /\ F("principal", OptPrincipal("object", <<fields>>)) \in Nat
          /\ F("principal", OptPrincipal("object", <<p>>)) \in Nat
          /\ F("principal", OptPrincipal("object", <<p>>))
               <= F("principal", OptPrincipal("object", <<fields>>))
      BY <1>1, <3>6, <3>7, FieldLens
    <3> HIDE DEF F, again
    <3> QED
      BY <2>2, <3>2, <3>5, <3>8
  <2> QED
    BY <2>1, <2>2 DEF FromWire
<1> HIDE DEF F
<1>6. JsonLen("object", wire) =
      1 + F("version", Full(1)) + F("state", Full(Len(wire.state) + 2))
        + F("service_id", Full(wire.service_id.json))
        + F("audiences", Full(ListLen(wire.audiences)))
        + F("principal", OptPrincipal("object", wire.principal))
        + F("decision_id", OptText(wire.decision_id))
        + F("policy_revision", OptText(wire.policy_revision))
  BY DEF F, JsonLen
<1> HIDE DEF again
<1>7. JsonLen("object", again) =
      1 + F("version", Full(1)) + F("state", Full(Len(wire.state) + 2))
        + F("service_id", Full(wire.service_id.json))
        + F("audiences", Full(ListLen(Canonical(wire.audiences))))
        + F("principal", OptPrincipal("object", again.principal))
        + F("decision_id", OptText(wire.decision_id))
        + F("policy_revision", OptText(wire.policy_revision))
  BY <1>5 DEF F, JsonLen
<1>8. /\ F("principal", OptPrincipal("object", wire.principal)) \in Nat
      /\ F("principal", OptPrincipal("object", again.principal)) \in Nat
      /\ F("principal", OptPrincipal("object", again.principal))
           <= F("principal", OptPrincipal("object", wire.principal))
  BY <1>5
<1>9. /\ JsonLen("object", wire) \in Nat /\ JsonLen("object", again) \in Nat
      /\ JsonLen("object", again) <= JsonLen("object", wire)
  <2> DEFINE version == F("version", Full(1))
             state == F("state", Full(Len(wire.state) + 2))
             service == F("service_id", Full(wire.service_id.json))
             decision == F("decision_id", OptText(wire.decision_id))
             revision == F("policy_revision", OptText(wire.policy_revision))
             given == F("audiences", Full(ListLen(wire.audiences)))
             kept == F("audiences", Full(ListLen(Canonical(wire.audiences))))
             read == F("principal", OptPrincipal("object", wire.principal))
             built == F("principal", OptPrincipal("object", again.principal))
  <2>1. /\ version \in Nat /\ state \in Nat /\ service \in Nat
        /\ decision \in Nat /\ revision \in Nat
        /\ given \in Nat /\ kept \in Nat /\ kept <= given
        /\ read \in Nat /\ built \in Nat /\ built <= read
    BY <1>2, <1>3, <1>4, <1>8
  <2>2. /\ JsonLen("object", wire) =
             1 + version + state + service + given + read + decision + revision
        /\ JsonLen("object", again) =
             1 + version + state + service + kept + built + decision + revision
    BY <1>6, <1>7
  <2> HIDE DEF version, state, service, decision, revision, given, kept, read, built
  <2> QED
    BY <2>1, <2>2
<1> QED
  BY <1>9 DEF again

\* Whatever is decoded was read from a document: that of another ingress, or one
\* with the fields that the middleware bound.
LEMMA DecodedFrom ==
    ASSUME PathInv, Decoded # None
    PROVE  \E wire : IsDocument(wire) /\ Decoded = FromWire(wire)
<1>0. header # None
  BY DEF Decoded
<1>1. CASE ForeignInv
  <2>1. PICK value \in Foreign : header = <<value>>
    BY <1>1 DEF ForeignInv, Some
  <2>2. Decoded = FromWire(value.wire)
    BY <1>0, <2>1 DEF Decoded, decode_auth_context
  <2> QED
    BY <2>2, ForeignAssumption DEF IsDocument
<1>2. CASE ServedInv
  <2>1. context # None /\ IsTextList(middleware.audiences)
    BY <1>0, <1>2, DeploymentAssumption DEF ServedInv
  <2>2. Decoded = context
    BY <1>0, <1>2, <2>1, ReadBack
  <2> DEFINE unsigned == [version |-> AUTH_CONTEXT_VERSION, state |-> "anonymous",
                          service_id |-> middleware.service_id,
                          audiences |-> middleware.audiences,
                          principal |-> None, decision_id |-> None, policy_revision |-> None]
  <2>3. CASE claims = None
    <3>1. FromWire(unsigned) = anonymous(middleware.service_id, middleware.audiences)
      BY DEF FromWire
    <3>2. Decoded = FromWire(unsigned)
      BY <1>2, <2>1, <2>2, <2>3, <3>1 DEF ServedInv
    <3> WITNESS unsigned
    <3> QED
      BY <2>1, <3>2 DEF IsDocument
  <2>4. CASE claims # None
    <3> DEFINE fields == [field \in PrincipalFields |-> success[field]]
               signed == [unsigned EXCEPT !.state = "authenticated", !.principal = <<fields>>,
                                          !.decision_id = <<success.decision_id>>,
                                          !.policy_revision = <<success.policy_revision>>]
    <3>1. /\ PrincipalV1(fields) # None
          /\ claims = <<Claims(PrincipalV1(fields)[1], success)>>
      BY <1>2, <2>4, ClaimsOf DEF ServedInv, Principal, Some
    <3>2. Readable(fields) /\ DOMAIN fields = PrincipalFields
      BY <1>2, SuccessAssumption DEF ServedInv, Readable, PrincipalFields
    <3> HIDE DEF fields
    <3>3. context = authenticated(middleware.service_id, middleware.audiences,
                                  PrincipalV1(fields)[1],
                                  success.decision_id, success.policy_revision)
      BY <1>2, <2>1, <2>4, <3>1 DEF ServedInv, into_context, Claims
    <3>4. FromWire(signed) = authenticated(middleware.service_id, middleware.audiences,
                                           PrincipalV1(fields)[1],
                                           success.decision_id, success.policy_revision)
      BY <3>1 DEF FromWire, None
    <3> WITNESS signed
    <3> QED
      BY <2>1, <2>2, <3>2, <3>3, <3>4 DEF Some, IsDocument
  <2> QED
    BY <2>3, <2>4
<1> QED
  BY <1>1, <1>2 DEF PathInv

\* DecodedSound for every document that another ingress may write and every
\* context of the middleware.
THEOREM DecodingIsSound == Spec => []DecodedSound
<1>1. PathInv => DecodedSound
  <2> SUFFICES ASSUME PathInv, Decoded # None
               PROVE  DecodedSound
    BY NothingIn DEF DecodedSound
  <2>1. PICK wire : IsDocument(wire) /\ Decoded = FromWire(wire)
    BY DecodedFrom
  <2>2. ToSet(Decoded) = {Decoded[1]}
    BY <2>1, ReadSound DEF ToSet
  <2> QED
    BY <2>1, <2>2, ReadSound DEF DecodedSound
<1> QED
  BY <1>1, PathAlways, PTL

\* The second half of ObjectsReencode, in whatever form the document came: a
\* context that was decoded and fits its bound is read back unchanged.
ReadsTheSame ==
    \A c \in ToSet(Decoded) : encode_auth_context(c) # None =>
        decode_auth_context(encode_auth_context(c)[1]) = Some(c)

\* Whatever the terminal service decoded, it decodes to the same context after it
\* was encoded again, as fuzz_targets/auth_context.rs asserts.
THEOREM ReencodingReadsTheSame == Spec => []ReadsTheSame
<1>1. PathInv => ReadsTheSame
  <2> SUFFICES ASSUME PathInv, NEW c \in ToSet(Decoded), encode_auth_context(c) # None
               PROVE  decode_auth_context(encode_auth_context(c)[1]) = Some(c)
    BY DEF ReadsTheSame
  <2>1. Decoded # None
    BY NothingIn
  <2>2. PICK wire : IsDocument(wire) /\ Decoded = FromWire(wire)
    BY <2>1, DecodedFrom
  <2>3. Decoded = <<Decoded[1]>>
    BY <2>1, <2>2, ReadSound
  <2>4. c = Decoded[1]
    BY <2>3 DEF ToSet
  <2>5. FromWire(Wire(c)) = Decoded
    BY <2>1, <2>2, <2>4, ReadAgain
  <2> QED
    BY <2>3, <2>4, <2>5, EncodedDecodes DEF Some
<1> QED
  BY <1>1, PathAlways, PTL

\* The base64 of fewer bytes is no longer.
LEMMA EncodedLens ==
    ASSUME NEW m \in Nat, NEW n \in Nat, m <= n
    PROVE  EncodedLen(m) <= EncodedLen(n) /\ EncodedLen(m) \in Nat /\ EncodedLen(n) \in Nat
BY DEF EncodedLen

\* The assertions of fuzz_targets/auth_context.rs for every document in the form
\* that encode_auth_context writes: whatever was read, sorting and dropping
\* repetitions never make it exceed the limit when it is written again.
THEOREM ObjectsAreReencoded == Spec => []ObjectsReencode
<1>1. PathInv => ObjectsReencode
  <2> SUFFICES ASSUME PathInv, NEW c \in ToSet(Decoded), header[1].form = "object"
               PROVE  encode_auth_context(c) # None
                      /\ decode_auth_context(encode_auth_context(c)[1]) = Some(c)
    BY DEF ObjectsReencode
  <2>0. Decoded # None /\ header # None
    BY NothingIn DEF Decoded
  <2>1. PICK wire : IsDocument(wire) /\ Decoded = FromWire(wire)
    BY <2>0, DecodedFrom
  <2>2. Decoded = <<Decoded[1]>>
    BY <2>0, <2>1, ReadSound
  <2>3. c = Decoded[1]
    BY <2>2 DEF ToSet
  <2>4. encode_auth_context(c) # None
    <3>1. CASE ServedInv
      <4>1. context # None /\ header = encode_auth_context(context[1])
        BY <2>0, <3>1 DEF ServedInv
      <4>2. Decoded = context
        BY <2>0, <3>1, <4>1, ReadBack
      <4> QED
        BY <2>0, <2>3, <4>1, <4>2
    <3>2. CASE ForeignInv
      <4>1. PICK value \in Foreign : header = <<value>>
        BY <3>2 DEF ForeignInv, Some
      <4>2. /\ Decoded = FromWire(value.wire)
            /\ EncodedLen(JsonLen("object", value.wire)) <= MAX_AUTH_CONTEXT_ENCODED_LEN
        BY <2>0, <4>1 DEF Decoded, decode_auth_context
      <4>3. IsTypedDocument(value.wire)
        BY ForeignAssumption DEF IsTypedDocument, IsDocument
      <4> DEFINE given == JsonLen("object", value.wire)
                 written == JsonLen("object", Wire(c))
      <4>4. given \in Nat /\ written \in Nat /\ written <= given
        BY <2>0, <2>3, <4>2, <4>3, DocumentLens
      <4> HIDE DEF given, written
      <4>5. EncodedLen(written) <= MAX_AUTH_CONTEXT_ENCODED_LEN
        BY <4>2, <4>4, EncodedLens DEF given, MAX_AUTH_CONTEXT_ENCODED_LEN
      <4> QED
        BY <4>5 DEF written, encode_auth_context, OkIf, Some, None
    <3> QED
      BY <3>1, <3>2 DEF PathInv
  <2>5. FromWire(Wire(c)) = Decoded
    BY <2>0, <2>1, <2>3, ReadAgain
  <2> QED
    BY <2>2, <2>3, <2>4, <2>5, EncodedDecodes DEF Some
<1> QED
  BY <1>1, PathAlways, PTL
--------------------------------------------------------------------------------
(* The configuration *)

\* The inductive invariant: a configuration that is set is that of the
\* environment.
ConfigInv ==
    /\ env \in Env
    /\ cors = Unset \/ cors = load_config(env.cors)
    /\ authn = Unset \/ authn = from_environment(env.authn)

\* A configuration is loaded once, from the environment of its instance.
THEOREM ConfigAlways == ConfigSpec => []ConfigInv
<1>1. ConfigInit => ConfigInv
  BY DEF ConfigInit, ConfigInv
<1>2. ConfigInv /\ [ConfigNext]_configVars => ConfigInv'
  BY DEF ConfigInv, ConfigNext, LoadCors, LoadAuthn, configVars
<1> QED
  BY <1>1, <1>2, PTL DEF ConfigSpec

\* A configuration is accepted only if no check fails.
LEMMA NoCheckFails ==
    ASSUME NEW checks, NEW config, FirstError(checks, config).state = "ok"
    PROVE  /\ FirstError(checks, config) = config
           /\ \A i \in DOMAIN checks : ~checks[i][2]
  BY DEF FirstError, Err

\* A value that was given once is the value that is used.
LEMMA GivenOnce ==
    ASSUME NEW values, IsSequence(values), ~Duplicated(values), NEW default
    PROVE  /\ Len(values) \in Nat /\ Len(values) <= 1
           /\ values # <<>> => /\ values = <<values[1]>>
                              /\ Value(values, default) = values[1]
                              /\ values[1] \in ToSet(values)
<1>1. /\ Len(values) \in Nat /\ ~(Len(values) > 1)
      /\ DOMAIN values = 1..Len(values)
  BY DEF IsSequence, Duplicated
<1>2. Len(values) <= 1
  BY <1>1
<1>3. ASSUME values # <<>> PROVE Len(values) = 1
  BY <1>1, <1>3 DEF IsSequence
<1>4. ASSUME values # <<>> PROVE values = <<values[1]>> /\ values[1] \in ToSet(values)
  BY <1>1, <1>3, <1>4 DEF IsSequence, ToSet
<1> QED
  BY <1>1, <1>2, <1>4 DEF Value

\* What a loaded CORS policy has passed.
LEMMA CorsChecks ==
    ASSUME NEW e, load_config(e).state = "ok"
    PROVE  /\ ~Duplicated(e.origins) /\ ~Duplicated(e.methods)
           /\ ~Duplicated(e.headers) /\ ~Duplicated(e.allow_credentials)
           /\ \E origins, methods, headers : \E credentials \in BOOLEAN :
                /\ load_config(e) = [state |-> "ok", origins |-> origins, methods |-> methods,
                                    headers |-> headers, credentials |-> credentials]
                /\ origins # {} /\ methods # {}
                /\ ~(credentials /\ "*" \in origins)
                /\ BadOrigin \notin origins
                /\ BadToken \notin methods /\ BadToken \notin headers
<1> DEFINE allowed == Value(e.allow_credentials, "false")
           origins == split_csv(Value(e.origins, <<>>))
           methods == split_csv(Value(e.methods, <<"GET", "HEAD", "POST">>))
           headers == split_csv(Value(e.headers, <<"content-type", "authorization">>))
           credentials == (allowed = "true")
           early == <<
             <<"DuplicateEnvironment", Duplicated(e.origins)>>,
             <<"MissingOrigins", e.origins = <<>> >>,
             <<"DuplicateEnvironment", Duplicated(e.methods)>>,
             <<"DuplicateEnvironment", Duplicated(e.headers)>>,
             <<"DuplicateEnvironment", Duplicated(e.allow_credentials)>>,
             <<"InvalidPolicy", allowed \notin {"true", "false"}>> >>
           late == <<
             <<"InvalidPolicy", origins = {}>>,
             <<"InvalidPolicy", credentials /\ "*" \in origins>>,
             <<"InvalidPolicy", BadOrigin \in origins>>,
             <<"InvalidPolicy", BadToken \in methods \/ methods = {}>>,
             <<"InvalidPolicy", BadToken \in headers>> >>
           policy == [state |-> "ok", origins |-> origins, methods |-> methods,
                      headers |-> headers, credentials |-> credentials]
<1>1. load_config(e) = FirstError(early, FirstError(late, policy))
  BY DEF load_config, CorsConfig
<1>2. /\ \A i \in DOMAIN early : ~early[i][2]
      /\ load_config(e) = FirstError(late, policy)
  BY <1>1, NoCheckFails
<1>3. /\ \A i \in DOMAIN late : ~late[i][2]
      /\ load_config(e) = policy
  BY <1>2, NoCheckFails
<1>4. DOMAIN early = 1..6 /\ DOMAIN late = 1..5
  OBVIOUS
<1> HIDE DEF early, late
<1>5. ~early[1][2] /\ ~early[3][2] /\ ~early[4][2] /\ ~early[5][2]
  BY <1>2, <1>4
<1>6. ~late[1][2] /\ ~late[2][2] /\ ~late[3][2] /\ ~late[4][2] /\ ~late[5][2]
  BY <1>3, <1>4
<1>7. /\ ~Duplicated(e.origins) /\ ~Duplicated(e.methods)
      /\ ~Duplicated(e.headers) /\ ~Duplicated(e.allow_credentials)
  BY <1>5 DEF early
<1>8. credentials \in BOOLEAN
  OBVIOUS
<1> HIDE DEF origins, methods, headers, credentials
<1>9. /\ origins # {} /\ methods # {}
      /\ ~(credentials /\ "*" \in origins)
      /\ BadOrigin \notin origins
      /\ BadToken \notin methods /\ BadToken \notin headers
  BY <1>6 DEF late
<1>10. load_config(e) = policy
  BY <1>3
<1> QED
  BY <1>7, <1>8, <1>9, <1>10

\* CorsConfigSafe for every environment: no policy is used that was chosen among
\* values, allows nothing, or combines the wildcard with credentials.
THEOREM CorsPolicySafe == ConfigSpec => []CorsConfigSafe
<1>1. ConfigInv => CorsConfigSafe
  <2> SUFFICES ASSUME ConfigInv, cors.state = "ok" PROVE CorsConfigSafe
    BY DEF CorsConfigSafe
  <2> DEFINE e == env.cors
  <2>1. cors = load_config(e)
    BY DEF ConfigInv, Unset
  <2>2. DOMAIN e = CorsKeys /\ \A key \in CorsKeys : IsSequence(e[key])
    BY EnvAssumption DEF ConfigInv
  <2> HIDE DEF e
  <2>3. /\ ~Duplicated(e.origins) /\ ~Duplicated(e.methods)
        /\ ~Duplicated(e.headers) /\ ~Duplicated(e.allow_credentials)
    BY <2>1, CorsChecks
  <2>4. \A key \in DOMAIN e : Len(e[key]) <= 1
    <3> SUFFICES ASSUME NEW key \in CorsKeys PROVE Len(e[key]) <= 1
      BY <2>2
    <3>1. ~Duplicated(e[key])
      BY <2>3 DEF CorsKeys
    <3> QED
      BY <2>2, <3>1, GivenOnce
  <2>5. PICK origins, methods, headers : \E credentials \in BOOLEAN :
          /\ cors = [state |-> "ok", origins |-> origins, methods |-> methods,
                     headers |-> headers, credentials |-> credentials]
          /\ origins # {} /\ methods # {}
          /\ ~(credentials /\ "*" \in origins)
          /\ BadOrigin \notin origins
          /\ BadToken \notin methods /\ BadToken \notin headers
    BY <2>1, CorsChecks
  <2> QED
    BY <2>4, <2>5 DEF CorsConfigSafe, e
<1> QED
  BY <1>1, ConfigAlways, PTL

\* What a loaded authentication configuration has passed.
LEMMA AuthnChecks ==
    ASSUME NEW e, from_environment(e).state = "ok"
    PROVE  LET flag == Value(e.allow_insecure_loopback, "false")
               url == Value(e.broker_url, NoUrl)
               timeout == Value(e.timeout_ms, DEFAULT_TIMEOUT_MS)
               max == Value(e.max_in_flight, DEFAULT_MAX_IN_FLIGHT)
               service_id == Value(e.service_id, NoText)
               audiences == Value(e.audiences, <<>>)
           IN  /\ ~Duplicated(e.allow_insecure_loopback) /\ ~Duplicated(e.broker_url)
               /\ ~Duplicated(e.timeout_ms) /\ ~Duplicated(e.mode)
               /\ ~Duplicated(e.max_in_flight) /\ ~Duplicated(e.service_id)
               /\ ~Duplicated(e.audiences)
               /\ e.broker_url # <<>> /\ e.audiences # <<>>
               /\ parse_broker_url(url, flag = "true")
               /\ timeout \in 1..MAX_TIMEOUT_MS /\ max \in 1..MAX_MAX_IN_FLIGHT
               /\ ValidDeployment(service_id, audiences)
               /\ from_environment(e) =
                    [state |-> "ok", scheme |-> url.scheme, host |-> url.host,
                     timeout |-> timeout, mode |-> Value(e.mode, "required"),
                     max_in_flight |-> max,
                     service_id |-> service_id, audiences |-> Canonical(audiences)]
<1> DEFINE flag == Value(e.allow_insecure_loopback, "false")
           url == Value(e.broker_url, NoUrl)
           timeout == Value(e.timeout_ms, DEFAULT_TIMEOUT_MS)
           mode == Value(e.mode, "required")
           max == Value(e.max_in_flight, DEFAULT_MAX_IN_FLIGHT)
           service_id == Value(e.service_id, NoText)
           audiences == Value(e.audiences, <<>>)
           checks == <<
             <<"DuplicateEnvironment", Duplicated(e.allow_insecure_loopback)>>,
             <<"InvalidBoolean", flag \notin {"true", "false"}>>,
             <<"DuplicateEnvironment", Duplicated(e.broker_url)>>,
             <<"MissingBrokerUrl", e.broker_url = <<>> >>,
             <<"InvalidBrokerUrl", ~parse_broker_url(url, flag = "true")>>,
             <<"DuplicateEnvironment", Duplicated(e.timeout_ms)>>,
             <<"InvalidTimeout", timeout \notin 1..MAX_TIMEOUT_MS>>,
             <<"DuplicateEnvironment", Duplicated(e.mode)>>,
             <<"InvalidMode", mode \notin {"required", "optional"}>>,
             <<"DuplicateEnvironment", Duplicated(e.max_in_flight)>>,
             <<"InvalidMaxInFlight", max \notin 1..MAX_MAX_IN_FLIGHT>>,
             <<"DuplicateEnvironment", Duplicated(e.service_id)>>,
             <<"MissingServiceId", e.service_id = <<>> >>,
             <<"DuplicateEnvironment", Duplicated(e.audiences)>>,
             <<"MissingAudiences", e.audiences = <<>> >>,
             <<"InvalidDeploymentIdentity", ~ValidDeployment(service_id, audiences)>> >>
           config == [state |-> "ok", scheme |-> url.scheme, host |-> url.host,
                      timeout |-> timeout, mode |-> mode, max_in_flight |-> max,
                      service_id |-> service_id, audiences |-> Canonical(audiences)]
<1>1. from_environment(e) = FirstError(checks, config)
  BY DEF from_environment
<1>2. /\ \A i \in DOMAIN checks : ~checks[i][2]
      /\ from_environment(e) = config
  BY <1>1, NoCheckFails
<1>3. DOMAIN checks = 1..16
  OBVIOUS
<1> HIDE DEF checks, flag, url, timeout, mode, max, service_id, audiences
<1>4. /\ ~checks[1][2] /\ ~checks[3][2] /\ ~checks[4][2] /\ ~checks[5][2] /\ ~checks[6][2]
      /\ ~checks[7][2] /\ ~checks[8][2] /\ ~checks[10][2] /\ ~checks[11][2]
      /\ ~checks[12][2] /\ ~checks[14][2] /\ ~checks[15][2] /\ ~checks[16][2]
  BY <1>2, <1>3
<1>5. /\ ~Duplicated(e.allow_insecure_loopback) /\ ~Duplicated(e.broker_url)
      /\ ~Duplicated(e.timeout_ms) /\ ~Duplicated(e.mode)
      /\ ~Duplicated(e.max_in_flight) /\ ~Duplicated(e.service_id)
      /\ ~Duplicated(e.audiences)
  BY <1>4 DEF checks
<1>6. /\ e.broker_url # <<>> /\ e.audiences # <<>>
      /\ parse_broker_url(url, flag = "true")
      /\ timeout \in 1..MAX_TIMEOUT_MS /\ max \in 1..MAX_MAX_IN_FLIGHT
      /\ ValidDeployment(service_id, audiences)
  BY <1>4 DEF checks
<1> QED
  BY <1>2, <1>5, <1>6 DEF flag, url, timeout, mode, max, service_id, audiences

\* The anonymous context of an accepted deployment identity, which every request
\* without credentials will carry, is read back as it is written.
LEMMA DeploymentReads ==
    ASSUME NEW service_id, NEW list, IsTextList(list), ValidDeployment(service_id, list)
    PROVE  LET c == anonymous(service_id, Canonical(list))
           IN  decode_auth_context(encode_auth_context(c[1])[1]) = c
<1> DEFINE deployment == [service_id |-> service_id, audiences |-> list]
           c == anonymous(service_id, list)
<1>1. c # None /\ encode_auth_context(c[1]) # None
  BY DEF ValidDeployment
<1>2. validated_deployment(service_id, list)
  BY <1>1 DEF anonymous, OkIf
<1>3. /\ validated_deployment(service_id, Canonical(list))
      /\ Canonical(Canonical(list)) = Canonical(list)
  BY <1>2, CanonicalValid, CanonicalKeeps
<1>4. anonymous(service_id, Canonical(list)) = c
  BY <1>2, <1>3 DEF anonymous
<1>5. Anonymous(c, deployment)
  BY <1>1 DEF Anonymous
<1> HIDE DEF c
<1>6. FromWire(Wire(c[1])) = c
  BY <1>5, AnonymousRead
<1> QED
  BY <1>1, <1>4, <1>6, EncodedDecodes

\* A sequence of three items is its head and the two of its tail.
LEMMA ThreeItems ==
    ASSUME NEW S, NEW seq \in Seq(S), Len(seq) = 3
    PROVE  seq = <<seq[1], Tail(seq)[1], Tail(seq)[2]>>
<1>1. DOMAIN seq = 1..3
  OBVIOUS
<1>2. Tail(seq)[1] = seq[2] /\ Tail(seq)[2] = seq[3]
  OBVIOUS
<1>3. seq = <<seq[1], seq[2], seq[3]>>
  BY <1>1
<1> QED
  BY <1>2, <1>3

\* A host of Spin's own is one label and the two that name the domain.
LEMMA SpinHost ==
    ASSUME NEW host, host.labels \in Seq(STRING), is_spin_internal_host(host)
    PROVE  host.labels = <<host.labels[1], "spin", "internal">> /\ host.labels[1] # ""
<1> DEFINE labels == host.labels
           rest == Tail(labels)
<1>1. Len(labels) = 3 /\ labels[1] # ""
  BY DEF is_spin_internal_host
<1>2. rest = <<"spin", "internal">>
  BY DEF is_spin_internal_host
<1>3. labels = <<labels[1], rest[1], rest[2]>>
  <2> HIDE DEF labels
  <2>1. labels \in Seq(STRING)
    BY DEF labels
  <2> QED
    BY <1>1, <2>1, ThreeItems
<1> HIDE DEF rest
<1>4. rest[1] = "spin" /\ rest[2] = "internal"
  BY <1>2
<1> QED
  BY <1>1, <1>3, <1>4

\* A limit that was checked against its range is positive.
LEMMA Positive ==
    ASSUME NEW max \in Nat, NEW n \in 1..max
    PROVE  n > 0
  OBVIOUS

\* AuthnConfigSafe for every environment: credentials travel in the clear only
\* inside Spin or, with the explicit flag, to the loopback; limits are positive;
\* the anonymous context works; and no value was chosen among several.
THEOREM AuthnPolicySafe == ConfigSpec => []AuthnConfigSafe
<1>1. ConfigInv => AuthnConfigSafe
  <2> SUFFICES ASSUME ConfigInv, authn.state = "ok" PROVE AuthnConfigSafe
    BY DEF AuthnConfigSafe
  <2> DEFINE e == env.authn
             flags == e.allow_insecure_loopback
             url == Value(e.broker_url, NoUrl)
             audiences == Value(e.audiences, <<>>)
             service_id == Value(e.service_id, NoText)
  <2>1. authn = from_environment(e)
    BY DEF ConfigInv, Unset
  <2>2. /\ DOMAIN e = AuthnKeys /\ \A key \in AuthnKeys : IsSequence(e[key])
        /\ \A list \in ToSet(e.audiences) : IsTextList(list)
        /\ \A u \in ToSet(e.broker_url) : u.host.labels \in Seq(STRING)
    BY EnvAssumption DEF ConfigInv
  <2> HIDE DEF e
  <2>3. /\ ~Duplicated(flags) /\ ~Duplicated(e.broker_url)
        /\ ~Duplicated(e.timeout_ms) /\ ~Duplicated(e.mode)
        /\ ~Duplicated(e.max_in_flight) /\ ~Duplicated(e.service_id)
        /\ ~Duplicated(e.audiences)
        /\ e.broker_url # <<>> /\ e.audiences # <<>>
        /\ parse_broker_url(url, Value(flags, "false") = "true")
        /\ authn.scheme = url.scheme /\ authn.host = url.host
        /\ authn.service_id = service_id /\ authn.audiences = Canonical(audiences)
        /\ ValidDeployment(service_id, audiences)
    BY <2>1, AuthnChecks
  <2>4. /\ authn.timeout \in 1..MAX_TIMEOUT_MS
        /\ authn.max_in_flight \in 1..MAX_MAX_IN_FLIGHT
    BY <2>1, AuthnChecks
  <2>5. \A key \in DOMAIN e : Len(e[key]) <= 1
    <3> SUFFICES ASSUME NEW key \in AuthnKeys PROVE Len(e[key]) <= 1
      BY <2>2
    <3>1. ~Duplicated(e[key])
      BY <2>3 DEF AuthnKeys
    <3> QED
      BY <2>2, <3>1, GivenOnce
  <2>6. IsTextList(audiences) /\ url.host.labels \in Seq(STRING)
    <3>1. IsSequence(e.audiences) /\ IsSequence(e.broker_url)
      BY <2>2 DEF AuthnKeys
    <3> QED
      BY <2>2, <2>3, <3>1, GivenOnce
  <2>7. Value(flags, "false") = "true" => flags = <<"true">>
    <3>1. IsSequence(flags)
      BY <2>2 DEF AuthnKeys
    <3>2. flags # <<>> => flags = <<flags[1]>> /\ Value(flags, "false") = flags[1]
      BY <2>3, <3>1, GivenOnce
    <3>3. flags = <<>> => Value(flags, "false") = "false"
      BY DEF Value
    <3> QED
      BY <3>2, <3>3
  <2> DEFINE host == url.host
  <2>8. is_spin_internal_host(host) =>
          host.labels = <<host.labels[1], "spin", "internal">> /\ host.labels[1] # ""
    BY <2>6, SpinHost
  <2>9. authn.scheme = "http" =>
          \/ host.labels = <<host.labels[1], "spin", "internal">> /\ host.labels[1] # ""
          \/ is_loopback_host(host) /\ flags = <<"true">>
    BY <2>3, <2>7, <2>8 DEF parse_broker_url
  <2>10. decode_auth_context(encode_auth_context(
             anonymous(authn.service_id, authn.audiences)[1])[1]) =
           anonymous(authn.service_id, authn.audiences)
    BY <2>3, <2>6, DeploymentReads
  <2>11. authn.timeout > 0 /\ authn.max_in_flight > 0
    <3>1. MAX_TIMEOUT_MS \in Nat /\ MAX_MAX_IN_FLIGHT \in Nat
      BY DEF MAX_TIMEOUT_MS, MAX_MAX_IN_FLIGHT
    <3> QED
      BY <2>4, <3>1, Positive
  <2> HIDE DEF url
  <2> QED
    BY <2>3, <2>5, <2>9, <2>10, <2>11 DEF AuthnConfigSafe, is_loopback_host, e
<1> QED
  BY <1>1, ConfigAlways, PTL
================================================================================
