------------------------- MODULE ApplicationModelFacts -------------------------
(***************************************************************************)
(* The operators of the dock's list: what is found, kept, moved, filed,    *)
(* loaded and saved, each as facts about positions in the list.            *)
(***************************************************************************)
EXTENDS ApplicationModel, FiniteSetTheorems, SequenceTheorems,
        WellFoundedInduction, TLAPS

(* A set of numbers that is not empty has a least one, ...                 *)
LEMMA LeastOne ==
  ASSUME NEW S \in SUBSET Nat, S # {}
  PROVE  \E m \in S : Min(S) = m /\ \A n \in S : m <= n
<1> DEFINE R == {p \in Nat \X Nat : p[1] < p[2]}
<1>1. IsWellFoundedOn(R, Nat)
  BY NatLessThanWellFounded DEF OpToRel
<1> HIDE DEF R
<1>2. PICK m \in S : \A n \in S : <<n, m>> \notin R
  BY <1>1, WFMin
<1>3. ASSUME NEW n \in S
      PROVE  m <= n
  <2>1. <<n, m>> \in Nat \X Nat /\ m \in Nat /\ n \in Nat
    OBVIOUS
  <2>2. ~(n < m)
    BY <1>2, <2>1 DEF R
  <2> QED
    BY <2>1, <2>2
<1>4. Min(S) \in S /\ \A n \in S : Min(S) <= n
  BY <1>3 DEF Min
<1> QED
  BY <1>4

(* ... and a greatest one, if it is bounded.                               *)
LEMMA GreatestOne ==
  ASSUME NEW n \in Nat, NEW S \in SUBSET (1 .. n), S # {}
  PROVE  Max(S) \in S
<1> DEFINE R == {n - x : x \in S}
<1>0. \A x \in S : x \in Int /\ n - x \in Nat
  <2> TAKE x \in S
  <2>1. x \in 1 .. n
    OBVIOUS
  <2> QED
    BY <2>1
<1>1. R \in SUBSET Nat /\ R # {}
  BY <1>0
<1>2. PICK m \in R : \A x \in R : m <= x
  BY <1>1, LeastOne
<1>3. PICK y \in S : m = n - y
  OBVIOUS
<1>4. \A x \in S : y >= x
  <2> TAKE x \in S
  <2>1. n - y <= n - x
    BY <1>2, <1>3
  <2>2. x \in Int /\ y \in Int
    BY <1>0
  <2> QED
    BY <2>1, <2>2
<1> QED
  BY <1>4 DEF Max

(* The n-th element of a finite set of numbers.                            *)
LEMMA NthFacts ==
  ASSUME NEW K \in SUBSET Nat, IsFiniteSet(K)
  PROVE  /\ Cardinality(K) \in Nat
         /\ \A i \in 1 .. Cardinality(K) : Nth(K, i) \in K
         /\ \A k \in K : \E i \in 1 .. Cardinality(K) : Nth(K, i) = k
         /\ \A i, j \in 1 .. Cardinality(K) : Nth(K, i) = Nth(K, j) => i = j
<1> DEFINE n == Cardinality(K)
           Below(k) == {j \in K : j < k}
           f == [k \in K |-> Cardinality(Below(k)) + 1]
<1>1. n \in Nat
  BY FS_CardinalityType
<1>2. ASSUME NEW k \in K
      PROVE  IsFiniteSet(Below(k)) /\ Cardinality(Below(k)) \in 0 .. n - 1
  <2>1. Below(k) \subseteq K \ {k}
    OBVIOUS
  <2>2. IsFiniteSet(K \ {k}) /\ Cardinality(K \ {k}) = n - 1
    BY FS_RemoveElement
  <2>3. IsFiniteSet(Below(k)) /\ Cardinality(Below(k)) <= n - 1
    BY <2>1, <2>2, FS_Subset
  <2>4. Cardinality(Below(k)) \in Nat
    BY <2>3, FS_CardinalityType
  <2> QED
    BY <1>1, <2>3, <2>4
<1>3. ASSUME NEW k \in K, NEW l \in K, k < l
      PROVE  Cardinality(Below(k)) < Cardinality(Below(l))
  <2>0. k \in Int /\ l \in Int /\ \A j \in K : j \in Int
    OBVIOUS
  <2>1. Below(k) \cup {k} \subseteq Below(l) /\ k \notin Below(k)
    <3>1. ASSUME NEW j \in Below(k)
          PROVE  j \in Below(l)
      <4>1. j \in K /\ j < k
        OBVIOUS
      <4>2. j < l
        BY <1>3, <2>0, <4>1
      <4> QED
        BY <4>1, <4>2
    <3>2. k \in Below(l) /\ k \notin Below(k)
      BY <1>3, <2>0
    <3> QED
      BY <3>1, <3>2
  <2>2. Cardinality(Below(k) \cup {k}) = Cardinality(Below(k)) + 1
    BY <1>2, <2>1, FS_AddElement
  <2>3. Cardinality(Below(k) \cup {k}) <= Cardinality(Below(l))
    BY <1>2, <2>1, FS_Subset
  <2>4. Cardinality(Below(k)) \in Int /\ Cardinality(Below(l)) \in Int
    BY <1>2
  <2> HIDE DEF Below
  <2> QED
    BY <2>2, <2>3, <2>4
<1>4. f \in [K -> 1 .. n]
  BY <1>1, <1>2
<1>5. ASSUME NEW k \in K, NEW l \in K, f[k] = f[l]
      PROVE  k = l
  <2>1. Cardinality(Below(k)) \in Int /\ Cardinality(Below(l)) \in Int
    BY <1>2
  <2>2. Cardinality(Below(k)) = Cardinality(Below(l))
    BY <1>5, <2>1
  <2>3. ~(k < l) /\ ~(l < k)
    BY <1>3, <2>1, <2>2
  <2> QED
    BY <2>3
<1>6. f \in Injection(K, 1 .. n)
  <2> HIDE DEF f
  <2> QED
    BY <1>4, <1>5, Zenon DEF Injection, IsInjective
<1>7. Cardinality(1 .. n) = n /\ IsFiniteSet(1 .. n)
  BY <1>1, FS_Interval
<1>8. f \in Surjection(K, 1 .. n)
  BY <1>6, <1>7, FS_Injection
<1>9. \A i \in 1 .. n : \E k \in K : f[k] = i
  BY <1>8 DEF Surjection
<1>10. ASSUME NEW i \in 1 .. n
       PROVE  Nth(K, i) \in K /\ f[Nth(K, i)] = i
  <2>1. \A k \in K : f[k] = i <=> Cardinality(Below(k)) = i - 1
    BY <1>1, <1>2
  <2>2. \E k \in K : Cardinality(Below(k)) = i - 1
    BY <1>9, <2>1
  <2>3. Nth(K, i) \in K /\ Cardinality(Below(Nth(K, i))) = i - 1
    BY <2>2 DEF Nth
  <2> QED
    BY <2>1, <2>3
<1>11. ASSUME NEW k \in K
       PROVE  \E i \in 1 .. n : Nth(K, i) = k
  <2>1. f[k] \in 1 .. n
    BY <1>4
  <2>2. Nth(K, f[k]) \in K /\ f[Nth(K, f[k])] = f[k]
    BY <1>10, <2>1
  <2>3. Nth(K, f[k]) = k
    BY <1>5, <2>2
  <2> QED
    BY <2>1, <2>3
<1> HIDE DEF f
<1> QED
  <2>1. \A i, j \in 1 .. n : Nth(K, i) = Nth(K, j) => i = j
    BY <1>10
  <2> QED
    BY <1>1, <1>10, <1>11, <2>1

(* s is drawn from t: its elements are those at the positions K of t.      *)
Drawn(s, t, K) ==
    \E m \in [DOMAIN s -> K] :
        /\ \A i, j \in DOMAIN s : m[i] = m[j] => i = j
        /\ \A k \in K : \E i \in DOMAIN s : m[i] = k
        /\ \A i \in DOMAIN s : s[i] = t[m[i]]

(* Only(q, K) has what q has at the positions K.                           *)
LEMMA OnlyDrawn ==
  ASSUME NEW T, NEW q \in Seq(T), NEW K \in SUBSET DOMAIN q
  PROVE  Only(q, K) \in Seq(T) /\ Drawn(Only(q, K), q, K)
<1> DEFINE n == Cardinality(K)
<1>1. DOMAIN q = 1 .. Len(q) /\ Len(q) \in Nat
  OBVIOUS
<1>2. IsFiniteSet(K) /\ K \in SUBSET Nat
  <2>1. IsFiniteSet(DOMAIN q) /\ DOMAIN q \subseteq Nat
    BY <1>1, FS_Interval
  <2> QED
    BY <2>1, FS_Subset
<1>3. /\ n \in Nat
      /\ \A i \in 1 .. n : Nth(K, i) \in K
      /\ \A k \in K : \E i \in 1 .. n : Nth(K, i) = k
      /\ \A i, j \in 1 .. n : Nth(K, i) = Nth(K, j) => i = j
  BY <1>2, NthFacts
<1>4. \A k \in K : q[k] \in T
  BY <1>1
<1> HIDE DEF n
<1>5. Only(q, K) = [i \in 1 .. n |-> q[Nth(K, i)]]
  BY DEF Only, n
<1> DEFINE m == [i \in 1 .. n |-> Nth(K, i)]
<1>6. Only(q, K) \in Seq(T) /\ DOMAIN Only(q, K) = 1 .. n
  BY <1>3, <1>4, <1>5
<1>7. m \in [1 .. n -> K] /\ \A i \in 1 .. n : m[i] = Nth(K, i)
  BY <1>3
<1> HIDE DEF m
<1>8. \A i \in 1 .. n : Only(q, K)[i] = q[m[i]]
  BY <1>5, <1>7
<1>9. \A i, j \in 1 .. n : m[i] = m[j] => i = j
  BY <1>3, <1>7
<1>10. \A k \in K : \E i \in 1 .. n : m[i] = k
  BY <1>3, <1>7
<1> DEFINE o == Only(q, K)
<1>11. /\ m \in [DOMAIN o -> K]
       /\ \A i, j \in DOMAIN o : m[i] = m[j] => i = j
       /\ \A k \in K : \E i \in DOMAIN o : m[i] = k
       /\ \A i \in DOMAIN o : o[i] = q[m[i]]
  BY <1>6, <1>7, <1>8, <1>9, <1>10
<1>12. Drawn(o, q, K)
  BY <1>11, Zenon DEF Drawn
<1> QED
  BY <1>6, <1>12

(* removeAt(k) of a list takes out what is at k and moves the rest up.     *)
LEMMA Removal ==
  ASSUME NEW S, NEW s \in Seq(S), NEW k \in DOMAIN s
  PROVE  /\ RemoveAt(s, k) \in Seq(S)
         /\ Len(RemoveAt(s, k)) = Len(s) - 1
         /\ \A i \in 1 .. Len(s) - 1 :
               RemoveAt(s, k)[i] = IF i < k THEN s[i] ELSE s[i + 1]
<1> DEFINE a == SubSeq(s, 1, k - 1)
           b == SubSeq(s, k + 1, Len(s))
<1>1. Len(s) \in Nat /\ k \in 1 .. Len(s)
  OBVIOUS
<1>2. a \in Seq(S) /\ Len(a) = k - 1 /\ \A i \in 1 .. k - 1 : a[i] = s[i]
  BY <1>1
<1>3. /\ b \in Seq(S) /\ Len(b) = Len(s) - k
      /\ \A i \in 1 .. Len(s) - k : b[i] = s[k + i]
  BY <1>1
<1>4. RemoveAt(s, k) = a \o b
  BY DEF RemoveAt
<1> HIDE DEF a, b
<1>5. /\ a \o b \in Seq(S) /\ Len(a \o b) = Len(s) - 1
      /\ \A i \in 1 .. Len(s) - 1 :
            (a \o b)[i] = IF i <= Len(a) THEN a[i] ELSE b[i - Len(a)]
  <2>1. /\ a \o b \in Seq(S) /\ Len(a \o b) = Len(a) + Len(b)
        /\ \A i \in 1 .. Len(a) + Len(b) :
              (a \o b)[i] = IF i <= Len(a) THEN a[i] ELSE b[i - Len(a)]
    BY <1>2, <1>3, ConcatProperties
  <2>2. Len(a) + Len(b) = Len(s) - 1
    BY <1>1, <1>2, <1>3
  <2> QED
    BY <2>1, <2>2
<1>6. ASSUME NEW i \in 1 .. Len(s) - 1
      PROVE  (a \o b)[i] = IF i < k THEN s[i] ELSE s[i + 1]
  <2>1. Len(a) = k - 1 /\ k \in Nat /\ i \in Nat
    BY <1>1, <1>2
  <2>2. CASE i < k
    <3>1. i \in 1 .. k - 1 /\ i <= Len(a)
      BY <2>1, <2>2
    <3> QED
      BY <1>2, <1>5, <2>2, <3>1
  <2>3. CASE ~(i < k)
    <3>1. /\ ~(i <= Len(a)) /\ i - Len(a) \in 1 .. Len(s) - k
          /\ k + (i - Len(a)) = i + 1
      BY <1>1, <2>1, <2>3
    <3> QED
      BY <1>3, <1>5, <2>3, <3>1
  <2> QED
    BY <2>2, <2>3
<1> QED
  BY <1>4, <1>5, <1>6

(* A list from which k is removed is drawn from the rest of it.            *)
LEMMA RemovalDrawn ==
  ASSUME NEW S, NEW s \in Seq(S), NEW k \in DOMAIN s
  PROVE  /\ RemoveAt(s, k) \in Seq(S)
         /\ Drawn(RemoveAt(s, k), s, DOMAIN s \ {k})
<1> DEFINE r == RemoveAt(s, k)
           m == [i \in 1 .. Len(s) - 1 |-> IF i < k THEN i ELSE i + 1]
<1>1. /\ r \in Seq(S) /\ Len(r) = Len(s) - 1
      /\ \A i \in 1 .. Len(s) - 1 : r[i] = IF i < k THEN s[i] ELSE s[i + 1]
  BY Removal
<1> HIDE DEF r
<1>2. /\ Len(s) \in Nat /\ DOMAIN s = 1 .. Len(s) /\ k \in 1 .. Len(s)
      /\ DOMAIN r = 1 .. Len(s) - 1
  BY <1>1
<1>3. m \in [DOMAIN r -> DOMAIN s \ {k}]
  BY <1>2
<1>4. \A i \in 1 .. Len(s) - 1 : m[i] = IF i < k THEN i ELSE i + 1
  OBVIOUS
<1> HIDE DEF m
<1>5. \A i \in DOMAIN r : r[i] = s[m[i]]
  BY <1>1, <1>2, <1>4
<1>6. \A i, j \in DOMAIN r : m[i] = m[j] => i = j
  BY <1>2, <1>4
<1>7. ASSUME NEW x \in DOMAIN s \ {k}
      PROVE  \E i \in DOMAIN r : m[i] = x
  <2>1. CASE x < k
    BY <1>2, <1>4, <2>1
  <2>2. CASE x > k
    <3>1. x - 1 \in DOMAIN r /\ ~(x - 1 < k) /\ (x - 1) + 1 = x
      BY <1>2, <2>2
    <3> QED
      BY <1>2, <1>4, <3>1
  <2> QED
    BY <1>2, <2>1, <2>2
<1> QED
  BY <1>1, <1>3, <1>5, <1>6, <1>7 DEF Drawn, r

(* insert(k) puts an item at k and moves down what is there and behind.    *)
LEMMA Insertion ==
  ASSUME NEW s \in Seq(ItemType), NEW k \in 1 .. Len(s) + 1, NEW e \in ItemType
  PROVE  /\ InsertAt(s, k, e) \in Seq(ItemType)
         /\ Len(InsertAt(s, k, e)) = Len(s) + 1
         /\ \A i \in 1 .. Len(s) + 1 :
               InsertAt(s, k, e)[i] = IF i < k THEN s[i]
                                      ELSE IF i = k THEN e ELSE s[i - 1]
<1> DEFINE a == SubSeq(s, 1, k - 1)
           b == SubSeq(s, k, Len(s))
<1>1. Len(s) \in Nat /\ k \in 1 .. Len(s) + 1
  OBVIOUS
<1>2. /\ a \in Seq(ItemType) /\ Len(a) = k - 1
      /\ \A i \in 1 .. k - 1 : a[i] = s[i]
  BY <1>1
<1>3. /\ b \in Seq(ItemType) /\ Len(b) = Len(s) - k + 1
      /\ \A i \in 1 .. Len(s) - k + 1 : b[i] = s[k + i - 1]
  BY <1>1
<1>4. InsertAt(s, k, e) = (a \o <<e>>) \o b
  BY DEF InsertAt
<1> HIDE DEF a, b
<1>5. /\ a \o <<e>> \in Seq(ItemType) /\ Len(a \o <<e>>) = k
      /\ \A i \in 1 .. k : (a \o <<e>>)[i] = IF i < k THEN s[i] ELSE e
  BY <1>1, <1>2
<1> DEFINE c == a \o <<e>>
<1> HIDE DEF c
<1>6. /\ c \o b \in Seq(ItemType) /\ Len(c \o b) = Len(s) + 1
      /\ \A i \in 1 .. Len(s) + 1 :
            (c \o b)[i] = IF i <= k THEN c[i] ELSE b[i - k]
  BY <1>1, <1>3, <1>5 DEF c
<1>7. \A i \in 1 .. Len(s) + 1 : i > k => b[i - k] = s[i - 1]
  <2> TAKE i \in 1 .. Len(s) + 1
  <2> HAVE i > k
  <2>1. i - k \in 1 .. Len(s) - k + 1 /\ k + (i - k) - 1 = i - 1
    BY <1>1
  <2> QED
    BY <1>3, <2>1
<1>8. \A i \in 1 .. k : c[i] = IF i < k THEN s[i] ELSE e
  BY <1>5 DEF c
<1>9. InsertAt(s, k, e) = c \o b
  BY <1>4 DEF c
<1>10. ASSUME NEW i \in 1 .. Len(s) + 1
       PROVE  (c \o b)[i] = IF i < k THEN s[i]
                             ELSE IF i = k THEN e ELSE s[i - 1]
  <2>0. i \in Int /\ k \in Int
    BY <1>1
  <2>1. CASE i <= k
    <3>1. i \in 1 .. k /\ (c \o b)[i] = c[i]
      BY <1>1, <1>6, <2>1
    <3> QED
      BY <1>8, <3>1
  <2>2. CASE ~(i <= k)
    <3>1. i > k /\ ~(i < k) /\ i # k
      BY <2>0, <2>2
    <3>2. (c \o b)[i] = b[i - k]
      BY <1>6, <2>2
    <3> QED
      BY <1>7, <3>1, <3>2
  <2> QED
    BY <2>1, <2>2
<1> QED
  BY <1>6, <1>9, <1>10

(* An item that is dragged to another place: the items stay the same.      *)
LEMMA MovingDrawn ==
  ASSUME NEW s \in Seq(ItemType), NEW from \in DOMAIN s, NEW to \in DOMAIN s
  PROVE  /\ InsertAt(RemoveAt(s, from), to, s[from]) \in Seq(ItemType)
         /\ Drawn(InsertAt(RemoveAt(s, from), to, s[from]), s, DOMAIN s)
<1> DEFINE r == RemoveAt(s, from)
<1>1. /\ r \in Seq(ItemType) /\ Len(r) = Len(s) - 1
      /\ Drawn(r, s, DOMAIN s \ {from})
  BY Removal, RemovalDrawn
<1> HIDE DEF r
<1>2. /\ Len(s) \in Nat /\ DOMAIN s = 1 .. Len(s) /\ DOMAIN r = 1 .. Len(s) - 1
      /\ Len(r) + 1 = Len(s) /\ s[from] \in ItemType
  BY <1>1
<1>4. ASSUME NEW k \in 1 .. Len(r) + 1, NEW e \in ItemType
      PROVE  /\ InsertAt(r, k, e) \in Seq(ItemType)
             /\ Len(InsertAt(r, k, e)) = Len(r) + 1
             /\ \A i \in 1 .. Len(r) + 1 :
                   InsertAt(r, k, e)[i] = IF i < k THEN r[i]
                                          ELSE IF i = k THEN e ELSE r[i - 1]
  BY <1>1, Insertion
<1>3. PICK m \in [DOMAIN r -> DOMAIN s \ {from}] :
        /\ \A i, j \in DOMAIN r : m[i] = m[j] => i = j
        /\ \A k \in DOMAIN s \ {from} : \E i \in DOMAIN r : m[i] = k
        /\ \A i \in DOMAIN r : r[i] = s[m[i]]
  BY <1>1 DEF Drawn
<1> DEFINE u == InsertAt(r, to, s[from])
           h == [i \in DOMAIN s |-> IF i < to THEN m[i]
                                    ELSE IF i = to THEN from ELSE m[i - 1]]
<1>5. /\ u \in Seq(ItemType) /\ Len(u) = Len(s)
      /\ \A i \in DOMAIN s : u[i] = IF i < to THEN r[i]
                                    ELSE IF i = to THEN s[from] ELSE r[i - 1]
  <2>1. to \in 1 .. Len(r) + 1 /\ 1 .. Len(r) + 1 = DOMAIN s
    BY <1>2
  <2>2. /\ InsertAt(r, to, s[from]) \in Seq(ItemType)
        /\ Len(InsertAt(r, to, s[from])) = Len(r) + 1
        /\ \A i \in 1 .. Len(r) + 1 :
              InsertAt(r, to, s[from])[i] =
                 IF i < to THEN r[i] ELSE IF i = to THEN s[from] ELSE r[i - 1]
    BY <1>2, <1>4, <2>1, Zenon
  <2> QED
    BY <1>2, <2>1, <2>2
<1>6. u \in Seq(ItemType) /\ DOMAIN u = DOMAIN s
  BY <1>2, <1>5
<1> HIDE DEF u
<1>7. \A i \in DOMAIN s : /\ i < to => i \in DOMAIN r
                          /\ i > to => i - 1 \in DOMAIN r
                          /\ i < to \/ i = to \/ i > to
                          /\ i > to => ~(i < to) /\ i # to
  BY <1>2
<1>8. /\ h \in [DOMAIN s -> DOMAIN s]
      /\ \A i \in DOMAIN s : /\ i < to => h[i] = m[i]
                             /\ i = to => h[i] = from
                             /\ i > to => h[i] = m[i - 1]
  BY <1>2, <1>3, <1>7
<1> HIDE DEF h
<1>9. ASSUME NEW i \in DOMAIN s
      PROVE  u[i] = s[h[i]]
  <2>1. CASE i < to
    BY <1>3, <1>5, <1>7, <1>8, <2>1
  <2>2. CASE i = to
    BY <1>2, <1>5, <1>8, <2>2
  <2>3. CASE i > to
    BY <1>3, <1>5, <1>7, <1>8, <2>3
  <2> QED
    BY <1>7, <2>1, <2>2, <2>3
<1>10. ASSUME NEW i \in DOMAIN s, NEW j \in DOMAIN s, h[i] = h[j]
       PROVE  i = j
  <2>1. h[to] = from /\ \A x \in DOMAIN s : x # to => h[x] # from
    BY <1>3, <1>7, <1>8
  <2>2. CASE i = to \/ j = to
    BY <1>10, <2>1, <2>2
  <2>3. CASE i # to /\ j # to
    <3>1. /\ i < to => h[i] = m[i] /\ i \in DOMAIN r
          /\ i > to => h[i] = m[i - 1] /\ i - 1 \in DOMAIN r
          /\ j < to => h[j] = m[j] /\ j \in DOMAIN r
          /\ j > to => h[j] = m[j - 1] /\ j - 1 \in DOMAIN r
          /\ i < to \/ i > to
          /\ j < to \/ j > to
      BY <1>7, <1>8, <2>3
    <3>2. (i < to /\ j < to) => i = j
      BY <1>3, <1>10, <3>1
    <3>3. (i > to /\ j > to) => i - 1 = j - 1
      BY <1>3, <1>10, <3>1
    <3>4. (i < to /\ j > to) => i = j - 1
      BY <1>3, <1>10, <3>1
    <3>5. (i > to /\ j < to) => i - 1 = j
      BY <1>3, <1>10, <3>1
    <3> QED
      BY <1>2, <3>1, <3>2, <3>3, <3>4, <3>5
  <2> QED
    BY <2>2, <2>3
<1>11. ASSUME NEW k \in DOMAIN s
       PROVE  \E i \in DOMAIN s : h[i] = k
  <2>1. CASE k = from
    BY <1>8, <2>1
  <2>2. CASE k # from
    <3>1. PICK i \in DOMAIN r : m[i] = k
      BY <1>3, <2>2
    <3>2. CASE i < to
      BY <1>2, <1>8, <3>1, <3>2
    <3>3. CASE i >= to
      <4>1. i + 1 \in DOMAIN s /\ i + 1 > to /\ (i + 1) - 1 = i
        BY <1>2, <3>3
      <4> QED
        BY <1>8, <3>1, <4>1
    <3> QED
      BY <1>2, <3>2, <3>3
  <2> QED
    BY <2>1, <2>2
<1>12. /\ h \in [DOMAIN u -> DOMAIN s]
       /\ \A i, j \in DOMAIN u : h[i] = h[j] => i = j
       /\ \A k \in DOMAIN s : \E i \in DOMAIN u : h[i] = k
       /\ \A i \in DOMAIN u : u[i] = s[h[i]]
  BY <1>6, <1>8, <1>9, <1>10, <1>11
<1>13. Drawn(u, s, DOMAIN s)
  BY <1>12, Zenon DEF Drawn
<1> QED
  BY <1>6, <1>13 DEF u, r

(* The index that is found is one of an item that fits, 0 is none.         *)
LEMMA ByIdFacts ==
  ASSUME NEW its \in Seq(ItemType), NEW c
  PROVE  /\ ById(its, c) = 0 <=> \A k \in DOMAIN its : its[k].id # c
         /\ ById(its, c) # 0 => /\ ById(its, c) \in DOMAIN its
                                /\ its[ById(its, c)].id = c
<1> DEFINE I == {i \in 1 .. Len(its) : its[i].id = c}
<1>1. ById(its, c) = IF I # {} THEN Min(I) ELSE 0
  BY DEF ById, SelectInSeq
<1>2. I \in SUBSET Nat /\ DOMAIN its = 1 .. Len(its) /\ 0 \notin I
  OBVIOUS
<1>3. I # {} => Min(I) \in I
  BY <1>2, LeastOne
<1> QED
  BY <1>1, <1>2, <1>3

(* The same for the desktop file, findItemByDesktop(), ...                 *)
LEMMA ByDesktopFacts ==
  ASSUME NEW its \in Seq(ItemType), NEW p
  PROVE  /\ ByDesktop(its, p) = 0 <=> \A k \in DOMAIN its : its[k].path # p
         /\ ByDesktop(its, p) # 0 => /\ ByDesktop(its, p) \in DOMAIN its
                                     /\ its[ByDesktop(its, p)].path = p
<1> DEFINE I == {i \in 1 .. Len(its) : its[i].path = p}
<1>1. ByDesktop(its, p) = IF I # {} THEN Min(I) ELSE 0
  BY DEF ByDesktop, SelectInSeq
<1>2. I \in SUBSET Nat /\ DOMAIN its = 1 .. Len(its) /\ 0 \notin I
  OBVIOUS
<1>3. I # {} => Min(I) \in I
  BY <1>2, LeastOne
<1> QED
  BY <1>1, <1>2, <1>3

(* ... and for a window, findItemByWId().                                  *)
LEMMA ByWindowFacts ==
  ASSUME NEW its \in Seq(ItemType), NEW w
  PROVE  /\ ByWindow(its, w) = 0 <=>
               \A k \in DOMAIN its : w \notin ToSet(its[k].wids)
         /\ ByWindow(its, w) # 0 => /\ ByWindow(its, w) \in DOMAIN its
                                    /\ w \in ToSet(its[ByWindow(its, w)].wids)
<1> DEFINE I == {i \in 1 .. Len(its) : w \in ToSet(its[i].wids)}
<1>1. ByWindow(its, w) = IF I # {} THEN Min(I) ELSE 0
  BY DEF ByWindow, SelectInSeq
<1>2. I \in SUBSET Nat /\ DOMAIN its = 1 .. Len(its) /\ 0 \notin I
  OBVIOUS
<1>3. I # {} => Min(I) \in I
  BY <1>2, LeastOne
<1> QED
  BY <1>1, <1>2, <1>3

(* Window v is at most once among ws.                                      *)
Single(ws, v) ==
    \A i, j \in DOMAIN ws : ws[i] = v /\ ws[j] = v => i = j

(* What an item has left when window w is taken from it, ...               *)
LEMMA RestFacts ==
  ASSUME NEW ws \in Seq(Window), NEW w
  PROVE  LET r == RemoveFirst(ws, w)
         IN  /\ r \in Seq(Window)
             /\ ToSet(r) \subseteq ToSet(ws)
             /\ ToSet(ws) \ {w} \subseteq ToSet(r)
             /\ \A v : Single(ws, v) => Single(r, v)
             /\ Single(ws, w) => w \notin ToSet(r)
<1> DEFINE r == RemoveFirst(ws, w)
           I == {i \in 1 .. Len(ws) : ws[i] = w}
<1>0. DOMAIN ws = 1 .. Len(ws) /\ Len(ws) \in Nat /\ I \in SUBSET Nat
  OBVIOUS
<1>1. CASE I = {}
  <2>1. r = ws /\ w \notin ToSet(ws)
    BY <1>0, <1>1 DEF RemoveFirst, ToSet
  <2> QED
    BY <2>1
<1>2. CASE I # {}
  <2>1. PICK k \in I : Min(I) = k
    BY <1>0, <1>2, LeastOne
  <2>2. r = RemoveAt(ws, k) /\ k \in DOMAIN ws /\ ws[k] = w
    BY <1>0, <1>2, <2>1 DEF RemoveFirst, SelectInSeq
  <2>3. r \in Seq(Window) /\ Drawn(r, ws, DOMAIN ws \ {k})
    BY <2>2, RemovalDrawn
  <2> HIDE DEF r, I
  <2>4. PICK m \in [DOMAIN r -> DOMAIN ws \ {k}] :
           /\ \A i, j \in DOMAIN r : m[i] = m[j] => i = j
           /\ \A x \in DOMAIN ws \ {k} : \E i \in DOMAIN r : m[i] = x
           /\ \A i \in DOMAIN r : r[i] = ws[m[i]]
    BY <2>3 DEF Drawn
  <2>5. ToSet(r) \subseteq ToSet(ws)
    BY <2>4 DEF ToSet
  <2>6. ToSet(ws) \ {w} \subseteq ToSet(r)
    <3>1. ASSUME NEW x \in DOMAIN ws, ws[x] # w
          PROVE  ws[x] \in ToSet(r)
      <4>1. PICK i \in DOMAIN r : m[i] = x
        BY <2>2, <2>4, <3>1
      <4> QED
        BY <2>4, <4>1 DEF ToSet
    <3> QED
      BY <3>1 DEF ToSet
  <2>7. ASSUME NEW v, Single(ws, v)
        PROVE  Single(r, v)
    <3>1. ASSUME NEW i \in DOMAIN r, NEW j \in DOMAIN r, r[i] = v, r[j] = v
          PROVE  i = j
      <4>1. /\ m[i] \in DOMAIN ws /\ m[j] \in DOMAIN ws
            /\ ws[m[i]] = v /\ ws[m[j]] = v
        BY <2>4, <3>1
      <4>2. m[i] = m[j]
        BY <2>7, <4>1 DEF Single
      <4> QED
        BY <2>4, <4>2
    <3> QED
      BY <3>1 DEF Single
  <2>8. ASSUME Single(ws, w)
        PROVE  w \notin ToSet(r)
    <3>1. ASSUME NEW i \in DOMAIN r, r[i] = w
          PROVE  FALSE
      <4>1. m[i] \in DOMAIN ws /\ m[i] # k /\ ws[m[i]] = w
        BY <2>4, <3>1
      <4> QED
        BY <2>2, <2>8, <4>1 DEF Single
    <3> QED
      BY <3>1 DEF ToSet
  <2>9. /\ r \in Seq(Window)
        /\ ToSet(r) \subseteq ToSet(ws)
        /\ ToSet(ws) \ {w} \subseteq ToSet(r)
        /\ \A v : Single(ws, v) => Single(r, v)
        /\ Single(ws, w) => w \notin ToSet(r)
    BY <2>3, <2>5, <2>6, <2>7, <2>8
  <2> QED
    BY <2>9 DEF r
<1> QED
  BY <1>1, <1>2

(* ... and what it has when w is added.                                    *)
LEMMA MoreFacts ==
  ASSUME NEW ws \in Seq(Window), NEW w \in Window
  PROVE  LET r == Append(ws, w)
         IN  /\ r \in Seq(Window) /\ r # <<>>
             /\ Len(r) = Len(ws) + 1 /\ Len(ws) \in Nat
             /\ ToSet(r) = ToSet(ws) \cup {w}
             /\ \A v : Single(ws, v) /\ v # w => Single(r, v)
             /\ w \notin ToSet(ws) => Single(r, w)
<1> DEFINE r == Append(ws, w)
<1>1. /\ r \in Seq(Window) /\ Len(ws) \in Nat /\ Len(r) = Len(ws) + 1
      /\ DOMAIN ws = 1 .. Len(ws) /\ DOMAIN r = 1 .. Len(ws) + 1
      /\ \A k \in 1 .. Len(ws) : r[k] = ws[k]
      /\ r[Len(ws) + 1] = w
  OBVIOUS
<1> HIDE DEF r
<1>2. /\ DOMAIN r = DOMAIN ws \cup {Len(ws) + 1}
      /\ Len(ws) + 1 \notin DOMAIN ws /\ r # <<>>
  BY <1>1
<1>3. ToSet(r) = ToSet(ws) \cup {w}
  BY <1>1, <1>2 DEF ToSet
<1>4. \A v : Single(ws, v) /\ v # w => Single(r, v)
  BY <1>1, <1>2 DEF Single
<1>5. w \notin ToSet(ws) => Single(r, w)
  BY <1>1, <1>2 DEF Single, ToSet
<1> QED
  BY <1>1, <1>2, <1>3, <1>4, <1>5 DEF r

(* Another item in the place of one.                                       *)
LEMMA Replacing ==
  ASSUME NEW its \in Seq(ItemType), NEW k \in DOMAIN its, NEW x \in ItemType
  PROVE  LET r == [its EXCEPT ![k] = x]
         IN  /\ r \in Seq(ItemType) /\ DOMAIN r = DOMAIN its /\ r[k] = x
             /\ \A j \in DOMAIN its : j # k => r[j] = its[j]
OBVIOUS

(* A new one at the end.                                                   *)
LEMMA Adding ==
  ASSUME NEW its \in Seq(ItemType), NEW x \in ItemType
  PROVE  LET r == Append(its, x)
         IN  /\ r \in Seq(ItemType)
             /\ DOMAIN r = DOMAIN its \cup {Len(its) + 1}
             /\ Len(its) + 1 \notin DOMAIN its
             /\ r[Len(its) + 1] = x
             /\ \A j \in DOMAIN its : r[j] = its[j]
OBVIOUS
-----------------------------------------------------------------------------
(* What onWindowAdded() may change.                                        *)
States == [items : Seq(ItemType), saved : [Class -> Group],
           kept : Seq(DesktopOrNone)]

(* What filing window w does to the items.                                 *)
LEMMA Filing ==
  ASSUME NEW its \in Seq(ItemType), path \in [Window -> DesktopOrNone],
         NEW w \in Window
  PROVE  LET r == Filed(its, w)
             at == FiledAt(its, w)
         IN  /\ r \in Seq(ItemType) /\ at \subseteq DOMAIN its
             /\ at = {} => /\ r = Append(its, NewItem(w))
                           /\ NewItem(w) \in ItemType
                           /\ \A k \in DOMAIN its :
                                 /\ its[k].id # ClassOf[w]
                                 /\ its[k].path = path[w] =>
                                       path[w] = NoDesktop
             /\ at # {} =>
                   /\ DOMAIN r = DOMAIN its
                   /\ \A k \in DOMAIN its \ at : r[k] = its[k]
                   /\ \A k \in at :
                         r[k] = [its[k] EXCEPT !.wids = Append(@, w),
                                               !.id = ClassOf[w]]
             /\ \A k \in at : \/ its[k].id = ClassOf[w]
                              \/ its[k].path = path[w] /\ at = {k}
                                 /\ path[w] # NoDesktop
             /\ Renamed(its, w) => at # {}
<1> DEFINE r == Filed(its, w)
           at == FiledAt(its, w)
           d == ByDesktop(its, path[w])
<1>1. /\ ClassOf[w] \in Class /\ path[w] \in DesktopOrNone
      /\ Len(its) \in Nat /\ DOMAIN its = 1 .. Len(its)
  BY DockAssumption
<1>2. /\ d = 0 <=> \A k \in DOMAIN its : its[k].path # path[w]
      /\ d # 0 => d \in DOMAIN its /\ its[d].path = path[w]
  BY ByDesktopFacts
<1>3. at = IF path[w] # NoDesktop /\ d # 0 THEN {d}
           ELSE {j \in DOMAIN its : its[j].id = ClassOf[w]}
  BY DEF FiledAt
<1>4. Renamed(its, w) <=> /\ path[w] # NoDesktop /\ d # 0
                          /\ its[d].id # ClassOf[w]
  BY DEF Renamed
<1> HIDE DEF d
<1>5. at \subseteq DOMAIN its
  BY <1>2, <1>3
<1>6. \A k \in at : \/ its[k].id = ClassOf[w]
                    \/ its[k].path = path[w] /\ at = {k}
                       /\ path[w] # NoDesktop
  BY <1>2, <1>3
<1>7. Renamed(its, w) => at # {}
  BY <1>3, <1>4
<1>8. \A k \in at : ~Renamed(its, w) => its[k].id = ClassOf[w]
  BY <1>3, <1>4
<1>9. CASE at = {}
  <2>1. r = Append(its, NewItem(w))
    BY <1>9 DEF Filed
  <2>2. <<w>> \in Seq(Window)
    OBVIOUS
  <2>3. NewItem(w) \in ItemType
    BY <1>1, <2>2 DEF NewItem, ItemType
  <2>4. \A k \in DOMAIN its : /\ its[k].id # ClassOf[w]
                              /\ its[k].path = path[w] => path[w] = NoDesktop
    BY <1>2, <1>3, <1>9
  <2>5. r \in Seq(ItemType)
    BY <2>1, <2>3
  <2> QED
    BY <1>5, <1>6, <1>7, <1>9, <2>1, <2>3, <2>4, <2>5
<1>10. CASE at # {}
  <2>1. r = [k \in DOMAIN its |->
               IF k \notin at THEN its[k]
               ELSE [its[k] EXCEPT
                       !.wids = Append(@, w),
                       !.id = IF Renamed(its, w) THEN ClassOf[w] ELSE @]]
    BY <1>10 DEF Filed
  <2> HIDE DEF r
  <2>2. /\ DOMAIN r = DOMAIN its
        /\ \A k \in DOMAIN its \ at : r[k] = its[k]
        /\ \A k \in at :
              r[k] = [its[k] EXCEPT
                        !.wids = Append(@, w),
                        !.id = IF Renamed(its, w) THEN ClassOf[w] ELSE @]
    BY <1>5, <2>1
  <2> HIDE DEF at
  <2>3. ASSUME NEW k \in at
        PROVE  /\ r[k] = [its[k] EXCEPT !.wids = Append(@, w),
                                        !.id = ClassOf[w]]
               /\ r[k] \in ItemType
    <3>1. its[k] \in ItemType
      BY <1>5
    <3>2. Append(its[k].wids, w) \in Seq(Window)
      BY <3>1 DEF ItemType
    <3>3. r[k] = [its[k] EXCEPT !.wids = Append(@, w), !.id = ClassOf[w]]
      <4>1. CASE Renamed(its, w)
        BY <2>2, <4>1
      <4>2. CASE ~Renamed(its, w)
        <5>1. its[k].id = ClassOf[w]
          BY <1>8, <4>2
        <5>2. r[k] = [its[k] EXCEPT !.wids = Append(@, w), !.id = @]
          BY <2>2, <4>2
        <5> QED
          BY <3>1, <5>1, <5>2 DEF ItemType
      <4> QED
        BY <4>1, <4>2
    <3> QED
      BY <1>1, <3>1, <3>2, <3>3 DEF ItemType
  <2>4. r \in Seq(ItemType)
    <3>1. ASSUME NEW k \in 1 .. Len(its)
          PROVE  r[k] \in ItemType
      <4>1. CASE k \in at
        BY <2>3, <4>1
      <4>2. CASE k \notin at
        <5>1. r[k] = its[k]
          BY <1>1, <2>2, <4>2
        <5> QED
          BY <5>1
      <4> QED
        BY <4>1, <4>2
    <3>2. r = [k \in 1 .. Len(its) |-> r[k]]
      BY <1>1, <2>1
    <3> QED
      BY <1>1, <3>1, <3>2
  <2> QED
    BY <1>5, <1>6, <1>7, <1>10, <2>2, <2>3, <2>4 DEF at, r
<1> QED
  BY <1>9, <1>10

(* What is saved of the items: the groups name the pinned ones.            *)
LEMMA Grouping ==
  ASSUME NEW its \in Seq(ItemType)
  PROVE  LET p == Pinned(its)
             file == Groups(its)
         IN  /\ p \in Seq(ItemType)
             /\ Drawn(p, its, {k \in DOMAIN its : its[k].pinned})
             /\ file \in [Class -> Group]
             /\ \A c \in Class :
                   \/ /\ file[c] = NoGroup
                      /\ \A k \in DOMAIN p : p[k].id # c
                   \/ \E k \in DOMAIN p :
                         /\ p[k].id = c
                         /\ file[c] = [index |-> k - 1, path |-> p[k].path]
             /\ Paths(p) \in Seq(DesktopOrNone) /\ DOMAIN Paths(p) = DOMAIN p
             /\ \A k \in DOMAIN p : Paths(p)[k] = p[k].path
<1> DEFINE p == Pinned(its)
           file == Groups(its)
           Final(c) == SelectLastInSeq(p, LAMBDA it : it.id = c)
<1>1. /\ p \in Seq(ItemType)
      /\ Drawn(p, its, {k \in DOMAIN its : its[k].pinned})
  BY OnlyDrawn DEF Pinned
<1>2. file = [c \in Class |-> IF Final(c) = 0 THEN NoGroup
                              ELSE [index |-> Final(c) - 1,
                                    path |-> p[Final(c)].path]]
  BY DEF Groups
<1>3. Paths(p) = [k \in DOMAIN p |-> p[k].path]
  BY DEF Paths
<1>4. NoGroup \in Group
  BY DEF NoGroup, Group, DesktopOrNone
<1> HIDE DEF p, file
<1>5. Len(p) \in Nat /\ DOMAIN p = 1 .. Len(p)
      /\ \A k \in DOMAIN p : p[k].path \in DesktopOrNone
  <2>1. Len(p) \in Nat /\ DOMAIN p = 1 .. Len(p)
        /\ \A k \in DOMAIN p : p[k] \in ItemType
    BY <1>1
  <2> QED
    BY <2>1 DEF ItemType
<1>6. ASSUME NEW c \in Class
      PROVE  \/ Final(c) = 0 /\ \A k \in DOMAIN p : p[k].id # c
             \/ Final(c) \in DOMAIN p /\ p[Final(c)].id = c
  <2> DEFINE I == {i \in 1 .. Len(p) : p[i].id = c}
  <2>1. Final(c) = IF I # {} THEN Max(I) ELSE 0
    BY DEF SelectLastInSeq
  <2>2. I \in SUBSET (1 .. Len(p))
    OBVIOUS
  <2>3. I # {} => Max(I) \in I
    BY <1>5, <2>2, GreatestOne
  <2> QED
    BY <1>5, <2>1, <2>3
<1> HIDE DEF Final
<1>7. ASSUME NEW c \in Class
      PROVE  /\ file[c] \in Group
             /\ \/ file[c] = NoGroup /\ \A k \in DOMAIN p : p[k].id # c
                \/ \E k \in DOMAIN p :
                      /\ p[k].id = c
                      /\ file[c] = [index |-> k - 1, path |-> p[k].path]
  <2>1. CASE Final(c) = 0 /\ \A k \in DOMAIN p : p[k].id # c
    BY <1>2, <1>4, <2>1
  <2>2. CASE Final(c) \in DOMAIN p /\ p[Final(c)].id = c
    <3>1. file[c] = [index |-> Final(c) - 1, path |-> p[Final(c)].path]
      BY <1>2, <1>5, <2>2
    <3>2. Final(c) - 1 \in Nat /\ p[Final(c)].path \in DesktopOrNone
      BY <1>5, <2>2
    <3>3. file[c] \in Group
      BY <3>1, <3>2 DEF Group
    <3> QED
      BY <2>2, <3>1, <3>3
  <2> QED
    BY <1>6, <2>1, <2>2
<1>8. file \in [Class -> Group]
  BY <1>2, <1>7
<1>9. /\ Paths(p) \in Seq(DesktopOrNone) /\ DOMAIN Paths(p) = DOMAIN p
      /\ \A k \in DOMAIN p : Paths(p)[k] = p[k].path
  BY <1>3, <1>5
<1> QED
  BY <1>1, <1>7, <1>8, <1>9 DEF p, file

(* Announcing a window keeps the types.                                    *)
LEMMA StepTypes ==
  ASSUME path \in [Window -> DesktopOrNone], NEW st \in States,
         NEW w \in Window
  PROVE  Step(st, w) \in States
<1>1. /\ st.items \in Seq(ItemType) /\ st.saved \in [Class -> Group]
      /\ st.kept \in Seq(DesktopOrNone)
      /\ st = [items |-> st.items, saved |-> st.saved, kept |-> st.kept]
  BY DEF States
<1> DEFINE its == Filed(st.items, w)
<1>2. its \in Seq(ItemType)
  BY <1>1, Filing
<1>3. /\ Groups(its) \in [Class -> Group]
      /\ Paths(Pinned(its)) \in Seq(DesktopOrNone)
  BY <1>2, Grouping
<1>4. Step(st, w) = IF Renamed(st.items, w)
                    THEN [items |-> its, saved |-> Groups(its),
                          kept |-> Paths(Pinned(its))]
                    ELSE [st EXCEPT !.items = its]
  BY DEF Step
<1> HIDE DEF its
<1> QED
  BY <1>1, <1>2, <1>3, <1>4 DEF States

(* After is what n steps, one after another, make of st.                   *)
LEMMA Telling ==
  ASSUME NEW ws \in Seq(Window), NEW st
  PROVE  \E g : /\ g[0] = st
                /\ \A n \in 1 .. Len(ws) : g[n] = Step(g[n - 1], ws[n])
                /\ After(st, ws) = g[Len(ws)]
<1> DEFINE N == Len(ws)
           Good(g, n) == /\ DOMAIN g = 0 .. n /\ g[0] = st
                         /\ \A i \in 1 .. n : g[i] = Step(g[i - 1], ws[i])
           B == {n \in 0 .. N : ~\E g : Good(g, n)}
<1>1. N \in Nat /\ B \in SUBSET Nat
  OBVIOUS
<1>2. B = {}
  <2> SUFFICES ASSUME B # {}
               PROVE  FALSE
    OBVIOUS
  <2>1. PICK n \in B : \A x \in B : n <= x
    BY <1>1, LeastOne
  <2>2. n \in 0 .. N /\ ~\E g : Good(g, n)
    OBVIOUS
  <2>3. CASE n = 0
    <3> DEFINE g == [i \in 0 .. 0 |-> st]
    <3>1. Good(g, 0)
      OBVIOUS
    <3> QED
      BY <2>2, <2>3, <3>1
  <2>4. CASE n # 0
    <3>1. n - 1 \in 0 .. N /\ n - 1 \in Nat /\ ~(n <= n - 1) /\ n \in Nat
      BY <1>1, <2>2, <2>4
    <3>2. n - 1 \notin B
      BY <2>1, <3>1
    <3>3. PICK g : Good(g, n - 1)
      BY <3>1, <3>2
    <3> DEFINE h == [i \in 0 .. n |-> IF i = n THEN Step(g[n - 1], ws[n])
                                      ELSE g[i]]
    <3>4. DOMAIN h = 0 .. n /\ h[0] = st
      BY <2>4, <3>1, <3>3
    <3>5. ASSUME NEW i \in 1 .. n
          PROVE  h[i] = Step(h[i - 1], ws[i])
      <4>1. h[i - 1] = g[i - 1]
        BY <3>1
      <4>2. CASE i = n
        BY <4>1, <4>2
      <4>3. CASE i # n
        <5>1. i \in 1 .. n - 1 /\ h[i] = g[i]
          BY <3>1, <4>3
        <5> QED
          BY <3>3, <4>1, <5>1
      <4> QED
        BY <4>2, <4>3
    <3>6. Good(h, n)
      BY <3>4, <3>5
    <3> QED
      BY <2>2, <3>6
  <2> QED
    BY <2>3, <2>4
<1>3. PICK g : Good(g, N)
  BY <1>1, <1>2
<1> DEFINE Def(f) == f = [n \in 0 .. N |->
                            IF n = 0 THEN st ELSE Step(f[n - 1], ws[n])]
           h == [n \in 0 .. N |-> g[n]]
           told == CHOOSE f : Def(f)
<1>4. Def(h)
  <2>1. ASSUME NEW n \in 0 .. N
        PROVE  h[n] = IF n = 0 THEN st ELSE Step(h[n - 1], ws[n])
    <3>1. CASE n = 0
      BY <1>3, <3>1
    <3>2. CASE n # 0
      <4>1. n \in 1 .. N /\ h[n - 1] = g[n - 1] /\ h[n] = g[n]
        BY <1>1, <3>2
      <4> QED
        BY <1>3, <3>2, <4>1
    <3> QED
      BY <3>1, <3>2
  <2> QED
    BY <2>1, Zenon
<1>5. Def(told)
  BY <1>4
<1>6. After(st, ws) = told[N]
  BY DEF After
<1> HIDE DEF told
<1>7. /\ told[0] = st
      /\ \A n \in 1 .. N : told[n] = Step(told[n - 1], ws[n])
  BY <1>1, <1>5
<1> QED
  BY <1>6, <1>7

(* What no step leads out of a set, After does not either.                 *)
LEMMA AfterSteps ==
  ASSUME NEW S, NEW st \in S, NEW ws \in Seq(Window),
         \A x \in S : \A w \in Window : Step(x, w) \in S
  PROVE  After(st, ws) \in S
<1>1. PICK g : /\ g[0] = st
               /\ \A n \in 1 .. Len(ws) : g[n] = Step(g[n - 1], ws[n])
               /\ After(st, ws) = g[Len(ws)]
  BY Telling
<1> DEFINE B == {n \in 0 .. Len(ws) : g[n] \notin S}
<1>2. Len(ws) \in Nat /\ B \in SUBSET Nat
  OBVIOUS
<1>3. ASSUME B # {}
      PROVE  FALSE
  <2>1. PICK n \in B : \A x \in B : n <= x
    BY <1>2, <1>3, LeastOne
  <2>2. n \in 1 .. Len(ws) /\ n - 1 \in 0 .. Len(ws) /\ ~(n <= n - 1)
    BY <1>1, <1>2
  <2>3. g[n - 1] \in S /\ ws[n] \in Window
    BY <2>1, <2>2
  <2>4. g[n] \in S
    BY <1>1, <2>2, <2>3
  <2> QED
    BY <2>4
<1> QED
  BY <1>1, <1>2, <1>3

(* And so does startInitWindows(), which announces many.                   *)
LEMMA AfterTypes ==
  ASSUME path \in [Window -> DesktopOrNone], NEW st \in States,
         NEW ws \in Seq(Window)
  PROVE  After(st, ws) \in States
BY AfterSteps, StepTypes

(* The numbers of the groups whose items are loaded.                       *)
Used(file, exist) ==
    {n \in 1 .. Cardinality(Named(file)) : Here(file, exist, n) # {}}

(* initPinnedApplications(): an item for each number that has a group,     *)
(* with the class and the file of one such group.                          *)
LEMMA Loading ==
  ASSUME NEW file \in [Class -> Group], NEW exist \in SUBSET Desktop
  PROVE  LET r == Load(file, exist)
             used == Used(file, exist)
         IN  /\ IsFiniteSet(Named(file)) /\ Cardinality(Named(file)) \in Nat
             /\ IsFiniteSet(used) /\ used \in SUBSET Nat
             /\ r \in Seq(ItemType) /\ DOMAIN r = 1 .. Cardinality(used)
             /\ \A k \in DOMAIN r : Nth(used, k) \in used
             /\ \A k \in DOMAIN r :
                   \E c \in Here(file, exist, Nth(used, k)) :
                      r[k] = FromFile(file, c)
<1> DEFINE r == Load(file, exist)
           used == Used(file, exist)
           Of(n) == CHOOSE c \in Here(file, exist, n) : TRUE
<1>1. IsFiniteSet(Named(file)) /\ Cardinality(Named(file)) \in Nat
  <2>1. Named(file) \subseteq Class
    BY DEF Named
  <2> QED
    BY <2>1, DockAssumption, FS_Subset, FS_CardinalityType
<1>2. IsFiniteSet(used) /\ used \in SUBSET Nat
  <2>1. used \subseteq 1 .. Cardinality(Named(file))
    BY DEF Used
  <2>2. IsFiniteSet(1 .. Cardinality(Named(file)))
    BY <1>1, FS_Interval
  <2> QED
    BY <1>1, <2>1, <2>2, FS_Subset
<1>3. /\ Cardinality(used) \in Nat
      /\ \A k \in 1 .. Cardinality(used) : Nth(used, k) \in used
  BY <1>2, NthFacts
<1>4. r = [k \in 1 .. Cardinality(used) |-> FromFile(file, Of(Nth(used, k)))]
  BY DEF Load, Used
<1>5. \A n \in used : Of(n) \in Here(file, exist, n)
  BY DEF Used
<1>6. ASSUME NEW n, NEW c \in Here(file, exist, n)
      PROVE  FromFile(file, c) \in ItemType
  <2>1. c \in Class /\ file[c] \in Group
    BY DEF Here, Named
  <2>2. file[c].path \in DesktopOrNone
    BY <2>1 DEF Group
  <2>3. <<>> \in Seq(Window)
    OBVIOUS
  <2> QED
    BY <2>1, <2>2, <2>3 DEF FromFile, ItemType
<1> HIDE DEF r, used, Of
<1>7. \A k \in 1 .. Cardinality(used) :
         /\ r[k] = FromFile(file, Of(Nth(used, k)))
         /\ Of(Nth(used, k)) \in Here(file, exist, Nth(used, k))
  BY <1>3, <1>4, <1>5
<1>8. r \in [1 .. Cardinality(used) -> ItemType]
  BY <1>4, <1>6, <1>7
<1>9. r \in Seq(ItemType) /\ DOMAIN r = 1 .. Cardinality(used)
  BY <1>3, <1>8
<1>10. \A k \in DOMAIN r : \E c \in Here(file, exist, Nth(used, k)) :
          r[k] = FromFile(file, c)
  BY <1>7, <1>9
<1> QED
  BY <1>1, <1>2, <1>3, <1>9, <1>10 DEF r, used

(* An item without window w keeps everything else.                         *)
LEMMA Losing ==
  ASSUME NEW it \in ItemType, NEW w
  PROVE  /\ Lost(it, w) \in ItemType
         /\ Lost(it, w).wids = RemoveFirst(it.wids, w)
         /\ Lost(it, w).id = it.id /\ Lost(it, w).path = it.path
         /\ Lost(it, w).pinned = it.pinned
         /\ \/ Lost(it, w).current < Len(Lost(it, w).wids)
            \/ Lost(it, w).current = 0
<1> DEFINE rest == RemoveFirst(it.wids, w)
           cur == IF it.current >= Len(rest) THEN 0 ELSE it.current
<1>1. it.wids \in Seq(Window) /\ it.current \in Nat
  BY DEF ItemType
<1>2. rest \in Seq(Window)
  BY <1>1, RestFacts
<1> HIDE DEF rest
<1>3. Len(rest) \in Nat
  BY <1>2
<1>4. cur \in Nat /\ (cur < Len(rest) \/ cur = 0)
  BY <1>1, <1>3
<1>5. Lost(it, w) = [it EXCEPT !.wids = rest, !.current = cur]
  BY DEF Lost, rest
<1> HIDE DEF cur
<1>6. /\ Lost(it, w) \in ItemType /\ Lost(it, w).wids = rest
      /\ Lost(it, w).current = cur
      /\ Lost(it, w).id = it.id /\ Lost(it, w).path = it.path
      /\ Lost(it, w).pinned = it.pinned
  BY <1>2, <1>4, <1>5 DEF ItemType
<1> QED
  BY <1>4, <1>6 DEF rest

(* onWindowRemoved(): nothing changes, or the item goes, or it loses the   *)
(* window and stays.                                                       *)
LEMMA Taking ==
  ASSUME NEW its \in Seq(ItemType), NEW w
  PROVE  LET r == WithoutWindow(its, w)
             k == ByWindow(its, w)
         IN  /\ r \in Seq(ItemType)
             /\ k = 0 => r = its
             /\ k # 0 /\ Goes(Lost(its[k], w)) =>
                   Drawn(r, its, DOMAIN its \ {k})
             /\ k # 0 /\ ~Goes(Lost(its[k], w)) =>
                   /\ DOMAIN r = DOMAIN its /\ r[k] = Lost(its[k], w)
                   /\ \A j \in DOMAIN its : j # k => r[j] = its[j]
<1> DEFINE r == WithoutWindow(its, w)
           k == ByWindow(its, w)
<1>1. CASE k = 0
  <2>1. r = its
    BY <1>1 DEF WithoutWindow
  <2> QED
    BY <1>1, <2>1
<1>2. CASE k # 0 /\ Goes(Lost(its[k], w))
  <2>1. r = RemoveAt(its, k) /\ k \in DOMAIN its
    BY <1>2, ByWindowFacts DEF WithoutWindow
  <2>2. r \in Seq(ItemType) /\ Drawn(r, its, DOMAIN its \ {k})
    BY <2>1, RemovalDrawn
  <2> QED
    BY <1>2, <2>2
<1>3. CASE k # 0 /\ ~Goes(Lost(its[k], w))
  <2>1. r = [its EXCEPT ![k] = Lost(its[k], w)] /\ k \in DOMAIN its
    BY <1>3, ByWindowFacts DEF WithoutWindow
  <2>2. Lost(its[k], w) \in ItemType
    BY <2>1, Losing
  <2>3. /\ r \in Seq(ItemType) /\ DOMAIN r = DOMAIN its
        /\ r[k] = Lost(its[k], w)
        /\ \A j \in DOMAIN its : j # k => r[j] = its[j]
    BY <2>1, <2>2, Replacing
  <2> QED
    BY <1>3, <2>3
<1> QED
  BY <1>1, <1>2, <1>3

(* unPin(): an item without windows goes, another stays and is not pinned. *)
LEMMA Unpinning ==
  ASSUME NEW its \in Seq(ItemType), NEW k \in DOMAIN its
  PROVE  LET r == Unpinned(its, k)
         IN  /\ r \in Seq(ItemType)
             /\ its[k].wids = <<>> => Drawn(r, its, DOMAIN its \ {k})
             /\ its[k].wids # <<>> =>
                   /\ DOMAIN r = DOMAIN its
                   /\ r[k] = [its[k] EXCEPT !.pinned = FALSE]
                   /\ \A j \in DOMAIN its : j # k => r[j] = its[j]
<1> DEFINE r == Unpinned(its, k)
<1>1. CASE its[k].wids = <<>>
  <2>1. r = RemoveAt(its, k)
    BY <1>1 DEF Unpinned
  <2> QED
    BY <1>1, <2>1, RemovalDrawn
<1>2. CASE its[k].wids # <<>>
  <2> DEFINE x == [its[k] EXCEPT !.pinned = FALSE]
  <2>1. r = [its EXCEPT ![k] = x]
    BY <1>2 DEF Unpinned
  <2>2. x \in ItemType
    <3>1. its[k] \in ItemType
      OBVIOUS
    <3> QED
      BY <3>1 DEF ItemType
  <2> HIDE DEF x
  <2>3. /\ r \in Seq(ItemType) /\ DOMAIN r = DOMAIN its /\ r[k] = x
        /\ \A j \in DOMAIN its : j # k => r[j] = its[j]
    BY <2>1, <2>2, Replacing
  <2> QED
    BY <1>2, <2>3 DEF x
<1> QED
  BY <1>1, <1>2

(* An item is changed, but not in what it is found by.                     *)
LEMMA Setting ==
  ASSUME NEW its \in Seq(ItemType), NEW k \in DOMAIN its, NEW n \in Nat
  PROVE  /\ [its EXCEPT ![k].pinned = TRUE] \in Seq(ItemType)
         /\ DOMAIN [its EXCEPT ![k].pinned = TRUE] = DOMAIN its
         /\ [its EXCEPT ![k].pinned = TRUE][k] =
               [its[k] EXCEPT !.pinned = TRUE]
         /\ \A j \in DOMAIN its : j # k =>
               [its EXCEPT ![k].pinned = TRUE][j] = its[j]
         /\ [its EXCEPT ![k].current = n] \in Seq(ItemType)
         /\ DOMAIN [its EXCEPT ![k].current = n] = DOMAIN its
         /\ [its EXCEPT ![k].current = n][k] = [its[k] EXCEPT !.current = n]
         /\ \A j \in DOMAIN its : j # k =>
               [its EXCEPT ![k].current = n][j] = its[j]
<1> DEFINE x == [its[k] EXCEPT !.pinned = TRUE]
           y == [its[k] EXCEPT !.current = n]
<1>1. x \in ItemType /\ y \in ItemType
  <2>1. its[k] \in ItemType
    OBVIOUS
  <2> QED
    BY <2>1 DEF ItemType
<1>2. /\ [its EXCEPT ![k].pinned = TRUE] = [its EXCEPT ![k] = x]
      /\ [its EXCEPT ![k].current = n] = [its EXCEPT ![k] = y]
  OBVIOUS
<1> HIDE DEF x, y
<1>3. /\ [its EXCEPT ![k] = x] \in Seq(ItemType)
      /\ [its EXCEPT ![k] = y] \in Seq(ItemType)
      /\ DOMAIN [its EXCEPT ![k] = x] = DOMAIN its
      /\ DOMAIN [its EXCEPT ![k] = y] = DOMAIN its
      /\ [its EXCEPT ![k] = x][k] = x /\ [its EXCEPT ![k] = y][k] = y
      /\ \A j \in DOMAIN its : j # k => /\ [its EXCEPT ![k] = x][j] = its[j]
                                        /\ [its EXCEPT ![k] = y][j] = its[j]
  BY <1>1
<1> QED
  BY <1>2, <1>3 DEF x, y

(* A row of the view stands for an item with the id of that row.           *)
LEMMA AtFacts ==
  ASSUME items \in Seq(ItemType), NEW j \in DOMAIN items
  PROVE  At(j) \in DOMAIN items /\ items[At(j)].id = items[j].id
<1>1. ById(items, items[j].id) # 0
  BY ByIdFacts
<1> QED
  BY <1>1, ByIdFacts DEF At

(* addItem() makes an item.                                                *)
LEMMA NewPinType ==
  ASSUME NEW d \in Desktop
  PROVE  NewPin(d) \in ItemType
<1>1. BaseName[d] \in Class /\ <<>> \in Seq(Window)
  BY DockAssumption
<1> QED
  BY <1>1 DEF NewPin, ItemType, DesktopOrNone
=============================================================================
