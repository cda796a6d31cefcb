-------------------------- MODULE LauncherModelProofs --------------------------
(***************************************************************************)
(* What TLAPS proves of the launcher's list, for any set of files, any     *)
(* number of threads and any number of events.                             *)
(***************************************************************************)
EXTENDS LauncherModel, FiniteSetTheorems, WellFoundedInduction, TLAPS

(* A set of numbers that is not empty has a least one.                     *)
LEMMA LeastOne ==
  ASSUME NEW S \in SUBSET Nat, S # {}
  PROVE  Min(S) \in S /\ \A n \in S : Min(S) <= n
<1> DEFINE R == {p \in Nat \X Nat : p[1] < p[2]}
<1>1. IsWellFoundedOn(R, Nat)
  BY NatLessThanWellFounded DEF OpToRel
<1> HIDE DEF R
<1>2. PICK m \in S : \A n \in S : <<n, m>> \notin R
  BY <1>1, WFMin
<1>3. ASSUME NEW n \in S
      PROVE  m <= n
  <2>1. <<n, m>> \in Nat \X Nat /\ m \in Nat /\ n \in Nat
    OBVIOUS
  <2>2. ~(n < m)
    BY <1>2, <2>1 DEF R
  <2> QED
    BY <2>1, <2>2
<1> QED
  BY <1>3 DEF Min

(* Find(f) is the index of an entry for f, if there is one.                *)
LEMMA Findings ==
  ASSUME NEW f, list \in Seq(Entry)
  PROVE  /\ Find(f) = 0 <=> f \notin Ids(list)
         /\ Find(f) # 0 => Find(f) \in DOMAIN list /\ list[Find(f)].id = f
<1> DEFINE I == {i \in 1 .. Len(list) : list[i].id = f}
<1>1. Find(f) = IF I # {} THEN Min(I) ELSE 0
  BY DEF Find, SelectInSeq
<1>2. I \in SUBSET Nat /\ DOMAIN list = 1 .. Len(list) /\ 0 \notin I
  OBVIOUS
<1>3. I = {} <=> f \notin Ids(list)
  BY <1>2 DEF Ids
<1>4. I # {} => Min(I) \in I
  BY <1>2, LeastOne
<1> QED
  BY <1>1, <1>2, <1>3, <1>4

(* What is left when the element at k is taken out of a sequence.          *)
LEMMA Removal ==
  ASSUME NEW S, NEW s \in Seq(S), NEW k \in DOMAIN s
  PROVE  /\ RemoveAt(s, k) \in Seq(S)
         /\ Len(RemoveAt(s, k)) = Len(s) - 1
         /\ \A i \in 1 .. Len(s) - 1 :
               RemoveAt(s, k)[i] = IF i < k THEN s[i] ELSE s[i + 1]
<1> DEFINE a == SubSeq(s, 1, k - 1)
           b == SubSeq(s, k + 1, Len(s))
<1>1. Len(s) \in Nat /\ k \in 1 .. Len(s)
  OBVIOUS
<1>2. a \in Seq(S) /\ Len(a) = k - 1 /\ \A i \in 1 .. k - 1 : a[i] = s[i]
  BY <1>1
<1>3. /\ b \in Seq(S) /\ Len(b) = Len(s) - k
      /\ \A i \in 1 .. Len(s) - k : b[i] = s[k + i]
  BY <1>1
<1>4. RemoveAt(s, k) = a \o b
  BY DEF RemoveAt
<1> HIDE DEF a, b
<1> QED
  BY <1>1, <1>2, <1>3, <1>4

(* What there is when e is put in at k.                                    *)
LEMMA Insertion ==
  ASSUME NEW s \in Seq(Entry), NEW k \in 1 .. Len(s) + 1, NEW e \in Entry
  PROVE  /\ InsertAt(s, k, e) \in Seq(Entry)
         /\ Len(InsertAt(s, k, e)) = Len(s) + 1
         /\ \A i \in 1 .. Len(s) + 1 :
               InsertAt(s, k, e)[i] = IF i < k THEN s[i]
                                      ELSE IF i = k THEN e ELSE s[i - 1]
<1> DEFINE a == SubSeq(s, 1, k - 1)
           b == SubSeq(s, k, Len(s))
<1>1. Len(s) \in Nat /\ k \in 1 .. Len(s) + 1
  OBVIOUS
<1>2. a \in Seq(Entry) /\ Len(a) = k - 1 /\ \A i \in 1 .. k - 1 : a[i] = s[i]
  BY <1>1
<1>3. /\ b \in Seq(Entry) /\ Len(b) = Len(s) - k + 1
      /\ \A i \in 1 .. Len(s) - k + 1 : b[i] = s[k + i - 1]
  BY <1>1
<1>4. InsertAt(s, k, e) = (a \o <<e>>) \o b
  BY DEF InsertAt
<1> HIDE DEF a, b
<1>5. /\ a \o <<e>> \in Seq(Entry) /\ Len(a \o <<e>>) = k
      /\ \A i \in 1 .. k : (a \o <<e>>)[i] = IF i < k THEN s[i] ELSE e
  BY <1>1, <1>2
<1> DEFINE c == a \o <<e>>
<1> HIDE DEF c
<1>6. /\ c \o b \in Seq(Entry) /\ Len(c \o b) = Len(s) + 1
      /\ \A i \in 1 .. Len(s) + 1 :
            (c \o b)[i] = IF i <= k THEN c[i] ELSE b[i - k]
  BY <1>1, <1>3, <1>5 DEF c
<1>7. \A i \in 1 .. Len(s) + 1 : i > k => b[i - k] = s[i - 1]
  <2> TAKE i \in 1 .. Len(s) + 1
  <2> HAVE i > k
  <2>1. i - k \in 1 .. Len(s) - k + 1 /\ k + (i - k) - 1 = i - 1
    BY <1>1
  <2> QED
    BY <1>3, <2>1
<1>8. \A i \in 1 .. k : c[i] = IF i < k THEN s[i] ELSE e
  BY <1>5 DEF c
<1>9. InsertAt(s, k, e) = c \o b
  BY <1>4 DEF c
<1>10. ASSUME NEW i \in 1 .. Len(s) + 1
       PROVE  (c \o b)[i] = IF i < k THEN s[i]
                             ELSE IF i = k THEN e ELSE s[i - 1]
  <2>0. i \in Int /\ k \in Int
    BY <1>1
  <2>1. CASE i <= k
    <3>1. i \in 1 .. k /\ (c \o b)[i] = c[i]
      BY <1>1, <1>6, <2>1
    <3> QED
      BY <1>8, <3>1
  <2>2. CASE ~(i <= k)
    <3>1. i > k /\ ~(i < k) /\ i # k
      BY <2>0, <2>2
    <3>2. (c \o b)[i] = b[i - k]
      BY <1>6, <2>2
    <3> QED
      BY <1>7, <3>1, <3>2
  <2> QED
    BY <2>1, <2>2
<1> QED
  BY <1>6, <1>9, <1>10

(* A finite set made a sequence.                                           *)
LEMMA Listing ==
  ASSUME NEW S, IsFiniteSet(S)
  PROVE  SetToSeq(S) \in Seq(S)
<1>1. /\ Cardinality(S) \in Nat
      /\ ExistsBijection(1 .. Cardinality(S), S)
  BY FS_CardinalityType
<1>2. \E f \in [1 .. Cardinality(S) -> S] : IsInjective(f)
  BY <1>1 DEF ExistsBijection, Bijection, Injection
<1>3. SetToSeq(S) \in [1 .. Cardinality(S) -> S]
  BY <1>2 DEF SetToSeq
<1> QED
  BY <1>1, <1>3
-----------------------------------------------------------------------------
(* What those mean for a list of entries: it stays a list, without twins.  *)
Distinct(s) == \A j, k \in DOMAIN s : s[j].id = s[k].id => j = k

LEMMA RemovalIds ==
  ASSUME NEW s \in Seq(Entry), NEW k \in DOMAIN s
  PROVE  /\ Ids(s) \ {s[k].id} \subseteq Ids(RemoveAt(s, k))
         /\ Distinct(s) => /\ Distinct(RemoveAt(s, k))
                           /\ s[k].id \notin Ids(RemoveAt(s, k))
<1> DEFINE r == RemoveAt(s, k)
<1>1. Len(s) \in Nat /\ DOMAIN s = 1 .. Len(s)
  OBVIOUS
<1>2. /\ r \in Seq(Entry) /\ Len(r) = Len(s) - 1
      /\ \A i \in 1 .. Len(s) - 1 : r[i] = IF i < k THEN s[i] ELSE s[i + 1]
  BY Removal
<1> HIDE DEF r
<1>3. DOMAIN r = 1 .. Len(s) - 1
  BY <1>1, <1>2
<1>4. ASSUME NEW i \in DOMAIN s, i # k
      PROVE  \E j \in DOMAIN r : r[j] = s[i]
  <2>1. CASE i < k
    BY <1>1, <1>2, <1>3, <2>1
  <2>2. CASE i > k
    <3>1. i - 1 \in DOMAIN r /\ ~(i - 1 < k) /\ (i - 1) + 1 = i
      BY <1>1, <1>3, <2>2
    <3> QED
      BY <1>2, <1>3, <3>1
  <2> QED
    BY <1>1, <1>4, <2>1, <2>2
<1>5. ASSUME NEW i \in DOMAIN r
      PROVE  \E j \in DOMAIN s : /\ r[i] = s[j] /\ j # k
                                /\ j = IF i < k THEN i ELSE i + 1
  BY <1>1, <1>2, <1>3
<1>6. Ids(s) \ {s[k].id} \subseteq Ids(r)
  BY <1>4 DEF Ids
<1>7. ASSUME Distinct(s)
      PROVE  Distinct(r) /\ s[k].id \notin Ids(r)
  <2>1. s[k].id \notin Ids(r)
    BY <1>5, <1>7 DEF Ids, Distinct
  <2>2. ASSUME NEW i \in DOMAIN r, NEW j \in DOMAIN r, r[i].id = r[j].id
        PROVE  i = j
    <3>1. PICK x \in DOMAIN s : r[i] = s[x] /\ x = IF i < k THEN i ELSE i + 1
      BY <1>5
    <3>2. PICK y \in DOMAIN s : r[j] = s[y] /\ y = IF j < k THEN j ELSE j + 1
      BY <1>5
    <3>3. x = y
      BY <1>7, <2>2, <3>1, <3>2 DEF Distinct
    <3> QED
      BY <1>1, <1>3, <3>1, <3>2, <3>3
  <2> QED
    BY <2>1, <2>2 DEF Distinct
<1> QED
  BY <1>6, <1>7 DEF r

LEMMA InsertionIds ==
  ASSUME NEW s \in Seq(Entry), NEW k \in 1 .. Len(s) + 1, NEW e \in Entry
  PROVE  /\ Ids(s) \cup {e.id} \subseteq Ids(InsertAt(s, k, e))
         /\ Distinct(s) /\ e.id \notin Ids(s) => Distinct(InsertAt(s, k, e))
<1> DEFINE r == InsertAt(s, k, e)
<1>1. Len(s) \in Nat /\ DOMAIN s = 1 .. Len(s)
  OBVIOUS
<1>2. /\ r \in Seq(Entry) /\ Len(r) = Len(s) + 1
      /\ \A i \in 1 .. Len(s) + 1 :
            r[i] = IF i < k THEN s[i] ELSE IF i = k THEN e ELSE s[i - 1]
  <2>1. /\ InsertAt(s, k, e) \in Seq(Entry)
        /\ Len(InsertAt(s, k, e)) = Len(s) + 1
        /\ \A i \in 1 .. Len(s) + 1 :
               InsertAt(s, k, e)[i] = IF i < k THEN s[i]
                                      ELSE IF i = k THEN e ELSE s[i - 1]
    BY Insertion
  <2> QED
    BY <2>1
<1> HIDE DEF r
<1>3. DOMAIN r = 1 .. Len(s) + 1
  BY <1>1, <1>2
<1>4. ASSUME NEW i \in DOMAIN s
      PROVE  \E j \in DOMAIN r : r[j] = s[i]
  <2>1. CASE i < k
    BY <1>1, <1>2, <1>3, <2>1
  <2>2. CASE i >= k
    <3>1. /\ i + 1 \in DOMAIN r /\ ~(i + 1 < k) /\ i + 1 # k
          /\ (i + 1) - 1 = i
      BY <1>1, <1>3, <2>2
    <3> QED
      BY <1>2, <1>3, <3>1
  <2> QED
    BY <1>1, <2>1, <2>2
<1>5. k \in DOMAIN r /\ r[k] = e
  BY <1>1, <1>2, <1>3
<1>6. Ids(s) \cup {e.id} \subseteq Ids(r)
  BY <1>4, <1>5 DEF Ids
<1>7. ASSUME NEW i \in DOMAIN r, i # k
      PROVE  \E j \in DOMAIN s : r[i] = s[j] /\ j = IF i < k THEN i ELSE i - 1
  BY <1>1, <1>2, <1>3, <1>7
<1>8. ASSUME Distinct(s), e.id \notin Ids(s),
             NEW i \in DOMAIN r, NEW j \in DOMAIN r, r[i].id = r[j].id
      PROVE  i = j
  <2>1. ASSUME NEW x \in DOMAIN r, x # k
        PROVE  r[x].id # r[k].id
    BY <1>5, <1>7, <1>8, <2>1 DEF Ids
  <2>2. CASE i # k /\ j # k
    <3>1. PICK x \in DOMAIN s : r[i] = s[x] /\ x = IF i < k THEN i ELSE i - 1
      BY <1>7, <2>2
    <3>2. PICK y \in DOMAIN s : r[j] = s[y] /\ y = IF j < k THEN j ELSE j - 1
      BY <1>7, <2>2
    <3>3. x = y
      BY <1>8, <3>1, <3>2 DEF Distinct
    <3> QED
      BY <1>1, <1>3, <2>2, <3>1, <3>2, <3>3
  <2> QED
    BY <1>8, <2>1, <2>2
<1> QED
  BY <1>6, <1>8 DEF r, Distinct

(* An entry brought up to date keeps its place, the list its order.        *)
LEMMA Updating ==
  ASSUME list \in Seq(Entry), version \in [App -> Nat], NEW f \in App,
         NEW k \in Nat
  PROVE  /\ Update(k, f) \in Seq(Entry)
         /\ Order(Update(k, f)) = Order(list)
<1> DEFINE u == Update(k, f)
<1>1. Contents(f) \in Nat
  BY DEF Contents, Exists
<1>2. DOMAIN u = DOMAIN list
  BY DEF Update
<1>3. ASSUME NEW i \in DOMAIN list
      PROVE  u[i] \in Entry /\ u[i].id = list[i].id
  <2>1. list[i] \in Entry
    OBVIOUS
  <2>2. CASE i = k
    <3>1. u[i] = [list[i] EXCEPT !.version = Contents(f), !.args = TRUE]
      BY <2>2 DEF Update
    <3> QED
      BY <1>1, <2>1, <3>1 DEF Entry
  <2>3. CASE i # k
    <3>1. u[i] = list[i]
      BY <2>3 DEF Update
    <3> QED
      BY <2>1, <3>1
  <2> QED
    BY <2>2, <2>3
<1>4. u = [i \in DOMAIN list |-> u[i]]
  BY DEF Update
<1> HIDE DEF u
<1>5. u \in Seq(Entry)
  <2>1. u \in [1 .. Len(list) -> Entry] /\ Len(list) \in Nat
    BY <1>2, <1>3, <1>4
  <2> QED
    BY <2>1
<1>6. Order(u) = Order(list)
  BY <1>2, <1>3 DEF Order
<1> QED
  BY <1>5, <1>6 DEF u

(* So does the list in the settings.                                       *)
LEMMA Storing ==
  ASSUME NEW s \in Seq(Entry)
  PROVE  Stored(s) \in Seq(Entry) /\ Order(Stored(s)) = Order(s)
<1> DEFINE u == Stored(s)
<1>1. Len(s) \in Nat /\ DOMAIN s = 1 .. Len(s) /\ DOMAIN u = DOMAIN s
  BY DEF Stored
<1>2. ASSUME NEW i \in DOMAIN s
      PROVE  u[i] \in Entry /\ u[i].id = s[i].id
  <2>1. s[i] \in Entry /\ u[i] = [s[i] EXCEPT !.args = FALSE]
    BY DEF Stored
  <2> QED
    BY <2>1 DEF Entry
<1>3. u = [i \in DOMAIN s |-> u[i]]
  BY DEF Stored
<1> HIDE DEF u
<1>4. u \in [1 .. Len(s) -> Entry]
  BY <1>1, <1>2, <1>3
<1>5. u \in Seq(Entry)
  BY <1>1, <1>4
<1>6. Order(u) = Order(s)
  BY <1>1, <1>2 DEF Order
<1> QED
  BY <1>5, <1>6 DEF u

(* Two lists of the same order have the same twins and applications.       *)
LEMMA SameOrder ==
  ASSUME NEW s, NEW t, Order(s) = Order(t)
  PROVE  Ids(s) = Ids(t) /\ (Distinct(s) <=> Distinct(t))
<1>1. DOMAIN s = DOMAIN Order(s) /\ DOMAIN t = DOMAIN Order(t)
  BY DEF Order
<1>2. /\ \A i \in DOMAIN s : Order(s)[i] = s[i].id
      /\ \A i \in DOMAIN t : Order(t)[i] = t[i].id
  BY DEF Order
<1>3. DOMAIN s = DOMAIN t /\ \A i \in DOMAIN s : s[i].id = t[i].id
  BY <1>1, <1>2
<1> QED
  BY <1>3 DEF Ids, Distinct

(* Sorting moves the entries about.                                        *)
LEMMA Sorting ==
  ASSUME NEW s \in Seq(Entry), NEW t \in Sorted(s)
  PROVE  /\ t \in Seq(Entry) /\ Ids(t) = Ids(s)
         /\ Distinct(s) => Distinct(t)
<1>1. PICK p \in Bijection(DOMAIN s, DOMAIN s) :
          t = [k \in DOMAIN s |-> s[p[k]]]
  BY DEF Sorted
<1>2. /\ p \in [DOMAIN s -> DOMAIN s]
      /\ \A a, b \in DOMAIN s : p[a] = p[b] => a = b
      /\ \A b \in DOMAIN s : \E a \in DOMAIN s : p[a] = b
  BY DEF Bijection, Injection, Surjection, IsInjective
<1>3. Len(s) \in Nat /\ DOMAIN s = 1 .. Len(s)
  OBVIOUS
<1>4. /\ DOMAIN t = DOMAIN s
      /\ \A k \in DOMAIN s : t[k] = s[p[k]] /\ p[k] \in DOMAIN s
  BY <1>1, <1>2
<1>5. t \in [1 .. Len(s) -> Entry]
  BY <1>1, <1>2, <1>3
<1>6. t \in Seq(Entry)
  BY <1>3, <1>5
<1>7. Ids(t) = Ids(s)
  BY <1>2, <1>4 DEF Ids
<1>8. ASSUME Distinct(s), NEW i \in DOMAIN t, NEW j \in DOMAIN t,
             t[i].id = t[j].id
      PROVE  i = j
  <2>1. s[p[i]].id = s[p[j]].id /\ p[i] \in DOMAIN s /\ p[j] \in DOMAIN s
    BY <1>4, <1>8
  <2>2. p[i] = p[j]
    BY <1>8, <2>1 DEF Distinct
  <2> QED
    BY <1>2, <1>4, <2>2
<1> QED
  BY <1>6, <1>7, <1>8 DEF Distinct

(* A new entry joins the list at its end.                                  *)
LEMMA Joining ==
  ASSUME NEW s \in Seq(Entry), NEW e \in Entry
  PROVE  /\ Append(s, e) \in Seq(Entry)
         /\ Ids(Append(s, e)) = Ids(s) \cup {e.id}
         /\ Distinct(s) /\ e.id \notin Ids(s) => Distinct(Append(s, e))
<1> DEFINE r == Append(s, e)
<1>1. /\ Len(s) \in Nat /\ DOMAIN s = 1 .. Len(s) /\ r \in Seq(Entry)
      /\ DOMAIN r = 1 .. Len(s) + 1
      /\ \A i \in DOMAIN s : i \in DOMAIN r /\ r[i] = s[i]
      /\ r[Len(s) + 1] = e
  OBVIOUS
<1> HIDE DEF r
<1>2. \A i \in DOMAIN r : i \in DOMAIN s \/ i = Len(s) + 1
  BY <1>1
<1>3. Len(s) + 1 \in DOMAIN r
  BY <1>1
<1>4. Ids(r) = Ids(s) \cup {e.id}
  BY <1>1, <1>2, <1>3 DEF Ids
<1>5. Distinct(s) /\ e.id \notin Ids(s) => Distinct(r)
  BY <1>1, <1>2 DEF Ids, Distinct
<1> QED
  BY <1>1, <1>4, <1>5 DEF r

(* An entry that is moved is taken out and put in again.                   *)
LEMMA Moving ==
  ASSUME NEW s \in Seq(Entry), NEW from \in DOMAIN s, NEW to \in DOMAIN s
  PROVE  LET m == InsertAt(RemoveAt(s, from), to, s[from])
         IN  /\ m \in Seq(Entry) /\ Ids(s) \subseteq Ids(m)
             /\ Distinct(s) => Distinct(m)
<1> DEFINE r == RemoveAt(s, from)
<1>1. r \in Seq(Entry) /\ Len(r) = Len(s) - 1 /\ s[from] \in Entry
  BY Removal
<1>2. to \in 1 .. Len(r) + 1
  BY <1>1
<1>3. /\ Ids(s) \ {s[from].id} \subseteq Ids(r)
      /\ Distinct(s) => Distinct(r) /\ s[from].id \notin Ids(r)
  BY RemovalIds
<1> HIDE DEF r
<1>4. /\ InsertAt(r, to, s[from]) \in Seq(Entry)
      /\ Ids(r) \cup {s[from].id} \subseteq Ids(InsertAt(r, to, s[from]))
      /\ Distinct(r) /\ s[from].id \notin Ids(r)
            => Distinct(InsertAt(r, to, s[from]))
  BY <1>1, <1>2, Insertion, InsertionIds
<1> QED
  BY <1>3, <1>4 DEF r

(* The calls a refresh posts.                                              *)
LEMMA Calls ==
  ASSUME NEW F \in SUBSET App, NEW y \in {"add", "remove"}
  PROVE  SetToSeq([type : {y}, file : F]) \in Seq(Call)
<1> DEFINE S == [type : {y}, file : F]
           f == [x \in F |-> [type |-> y, file |-> x]]
<1>1. IsFiniteSet(F)
  BY FS_Subset, LauncherModelAssumption
<1>2. f \in Surjection(F, S)
  BY DEF Surjection
<1>3. IsFiniteSet(S)
  BY <1>1, <1>2, FS_Surjection
<1>4. SetToSeq(S) \in Seq(S)
  BY <1>3, Listing
<1>5. S \subseteq Call
  BY DEF Call
<1> HIDE DEF S
<1> DEFINE q == SetToSeq(S)
<1>6. /\ Len(q) \in Nat /\ DOMAIN q = 1 .. Len(q) /\ q \in [1 .. Len(q) -> S]
  BY <1>4
<1> HIDE DEF q
<1>7. q \in [1 .. Len(q) -> Call]
  BY <1>5, <1>6
<1>8. q \in Seq(Call)
  BY <1>6, <1>7
<1> QED
  BY <1>8 DEF q, S
-----------------------------------------------------------------------------
LEMMA IdsTypes ==
  ASSUME NEW s \in Seq(Entry)
  PROVE  Ids(s) \subseteq App
<1>1. ASSUME NEW k \in DOMAIN s
      PROVE  s[k].id \in App
  <2>1. s[k] \in Entry
    OBVIOUS
  <2> QED
    BY <2>1 DEF Entry
<1> QED
  BY <1>1 DEF Ids

(* Type correctness, for every set of files, of threads and every bound.   *)
LEMMA InitTypes == Init => TypeOK
<1>1. <<>> \in Seq(Entry) /\ <<>> \in Seq(Call)
  OBVIOUS
<1> SUFFICES ASSUME Init
             PROVE  TypeOK
  OBVIOUS
<1>2. /\ entries \in [Thread -> SUBSET App]
      /\ before \in [Thread -> Seq(Entry)]
      /\ refresh \in [Thread -> {"idle", "queued", "scanned", "posted",
                                 "reading"}]
  BY <1>1 DEF Init
<1>3. /\ disk \in [App -> {"absent", "shown", "hidden"}]
      /\ version \in [App -> Nat]
  BY DEF Init
<1> QED
  BY <1>1, <1>2, <1>3 DEF Init, TypeOK

(* What the directory, the threads ...                                     *)
LEMMA DiskTypes ==
  ASSUME TypeOK, NEW f \in App,
         \/ \E s \in {"shown", "hidden"} : Install(f, s)
         \/ Uninstall(f) \/ Edit(f)
  PROVE  TypeOK'
<1>1. ASSUME NEW d \in BOOLEAN, NEW F \in SUBSET App, Hear(d, F), Event,
             disk' \in [App -> {"absent", "shown", "hidden"}],
             version' \in [App -> Nat], files' \subseteq App
      PROVE  TypeOK'
  BY <1>1 DEF TypeOK, Hear, Event, listVars, threadVars
<1>2. /\ disk \in [App -> {"absent", "shown", "hidden"}]
      /\ [version EXCEPT ![f] = version[f] + 1] \in [App -> Nat]
      /\ files \subseteq App /\ files \cap {f} \in SUBSET App
      /\ version \in [App -> Nat]
  BY DEF TypeOK
<1>3. ASSUME NEW s \in {"shown", "hidden"}, Install(f, s)
      PROVE  TypeOK'
  BY <1>1, <1>2, <1>3 DEF Install
<1>4. CASE Uninstall(f)
  BY <1>1, <1>2, <1>4 DEF Uninstall
<1>5. CASE Edit(f)
  BY <1>1, <1>2, <1>5 DEF Edit
<1> QED
  BY <1>3, <1>4, <1>5

LEMMA ThreadTypes ==
  ASSUME TypeOK, NEW t \in Thread,
         TScan(t) \/ TAdd(t) \/ TRead(t) \/ TRemove(t) \/ DirChanged(t)
  PROVE  TypeOK'
<1> USE DEF diskVars, listVars, watchVars
<1>1. CASE TScan(t)
  BY <1>1 DEF TypeOK, TScan, Exists
<1>2. CASE TAdd(t)
  <2>1. posted' \in Seq(Call)
    <3>1. /\ entries[t] \in SUBSET App /\ posted \in Seq(Call)
          /\ posted' = posted \o SetToSeq([type : {"add"}, file : entries[t]])
      BY <1>2 DEF TypeOK, TAdd
    <3>2. SetToSeq([type : {"add"}, file : entries[t]]) \in Seq(Call)
      BY <3>1, Calls
    <3> HIDE DEF Call
    <3> QED
      BY <3>1, <3>2
  <2> QED
    BY <1>2, <2>1 DEF TypeOK, TAdd
<1>3. CASE TRead(t)
  BY <1>3 DEF TypeOK, TRead
<1>4. CASE TRemove(t)
  <2>1. PICK seen \in SUBSET (Ids(before[t]) \cup Ids(list)) :
            posted' = posted \o SetToSeq([type : {"remove"},
                                          file : seen \ entries[t]])
                             \o <<[type |-> "refreshed"]>>
    BY <1>4 DEF TRemove
  <2>2. seen \ entries[t] \in SUBSET App
    <3>1. Ids(before[t]) \subseteq App /\ Ids(list) \subseteq App
      BY IdsTypes DEF TypeOK
    <3> QED
      BY <3>1
  <2>3. SetToSeq([type : {"remove"}, file : seen \ entries[t]]) \in Seq(Call)
    BY <2>2, Calls
  <2>4. [type |-> "refreshed"] \in Call
    BY DEF Call
  <2>5. posted' \in Seq(Call)
    BY <2>1, <2>3, <2>4 DEF TypeOK
  <2> QED
    BY <1>4, <2>5 DEF TypeOK, TRemove
<1>5. CASE DirChanged(t)
  BY <1>5 DEF TypeOK, DirChanged
<1> QED
  BY <1>1, <1>2, <1>3, <1>4, <1>5

(* ... and the launcher's thread do.                                       *)
LEMMA ListTypes ==
  ASSUME TypeOK, NEW f \in App, FileChanged(f) \/ AddApp(f) \/ RemoveApp(f)
  PROVE  TypeOK'
<1> USE DEF diskVars, threadVars
<1>1. Find(f) \in Nat /\ (Find(f) # 0 => Find(f) \in DOMAIN list)
  BY Findings DEF TypeOK
<1>2. Update(Find(f), f) \in Seq(Entry)
  BY <1>1, Updating DEF TypeOK
<1>3. CASE FileChanged(f)
  <2>1. list' \in Seq(Entry)
    BY <1>2, <1>3 DEF TypeOK, FileChanged
  <2> QED
    BY <1>3, <2>1 DEF TypeOK, FileChanged
<1>4. CASE AddApp(f)
  <2>1. Contents(f) \in Nat
    BY DEF Contents, Exists, TypeOK
  <2>2. [id |-> f, version |-> Contents(f), args |-> TRUE] \in Entry
    BY <2>1 DEF Entry
  <2>3. list' \in Seq(Entry)
    <3> DEFINE e == [id |-> f, version |-> Contents(f), args |-> TRUE]
    <3>1. list' \in {list, Update(Find(f), f), Append(list, e)}
      BY <1>4 DEF AddApp
    <3>2. Append(list, e) \in Seq(Entry)
      BY <2>2 DEF TypeOK
    <3> QED
      BY <1>2, <3>1, <3>2 DEF TypeOK
  <2>4. posted' \in Seq(Call)
    BY <1>4 DEF TypeOK, AddApp, Served
  <2>5. saving' \in BOOLEAN /\ files' \subseteq App /\ skipped' \subseteq App
    BY <1>4 DEF TypeOK, AddApp
  <2> QED
    BY <1>4, <2>3, <2>4, <2>5 DEF TypeOK, AddApp, Served
<1>5. CASE RemoveApp(f)
  <2>1. list' \in Seq(Entry)
    BY <1>1, <1>5, Removal DEF TypeOK, RemoveApp
  <2>2. posted' \in Seq(Call)
    BY <1>5 DEF TypeOK, RemoveApp, Served
  <2> QED
    BY <1>5, <2>1, <2>2 DEF TypeOK, RemoveApp, Served, SavesRemoval
<1> QED
  BY <1>3, <1>4, <1>5

LEMMA NextTypes == TypeOK /\ [Next]_vars => TypeOK'
<1> SUFFICES ASSUME TypeOK, [Next]_vars
             PROVE  TypeOK'
  OBVIOUS
<1> USE DEF diskVars, listVars, watchVars, threadVars
<1>1. CASE Watch \/ UNCHANGED vars
  BY <1>1 DEF TypeOK, Watch, vars
<1>2. CASE Refreshed
  <2>1. list' \in Seq(Entry)
    BY <1>2, Sorting DEF TypeOK, Refreshed
  <2>2. posted' \in Seq(Call)
    BY <1>2 DEF TypeOK, Refreshed, Served
  <2> QED
    BY <1>2, <2>1, <2>2 DEF TypeOK, Refreshed, Served
<1>3. CASE Save
  BY <1>3, Storing DEF TypeOK, Save
<1>4. CASE Restart
  <2>1. PICK l \in {Stored(list), saved} : Started(l) /\ saved' = l
    BY <1>4 DEF Restart
  <2>2. l \in Seq(Entry)
    BY Storing DEF TypeOK
  <2>3. <<>> \in Seq(Entry) /\ <<>> \in Seq(Call)
    OBVIOUS
  <2>4. /\ entries' \in [Thread -> SUBSET App]
        /\ before' \in [Thread -> Seq(Entry)]
        /\ refresh' \in [Thread -> {"idle", "queued", "scanned", "posted",
                                    "reading"}]
    BY <2>1, <2>3 DEF Started
  <2>5. list' \in Seq(Entry) /\ saved' \in Seq(Entry) /\ posted' \in Seq(Call)
    BY <2>1, <2>2, <2>3 DEF Started
  <2>6. UNCHANGED <<disk, version>> /\ events' \in Nat
    BY <1>4 DEF Restart, Event, TypeOK
  <2>7. /\ firstLoad' \in BOOLEAN /\ saving' \in BOOLEAN
        /\ watching' \in BOOLEAN /\ files' = {} /\ dirChanged' \in BOOLEAN
        /\ fileChanged' = {} /\ skipped' = {} /\ slips' = {}
    BY <2>1 DEF Started
  <2> QED
    BY <2>4, <2>5, <2>6, <2>7 DEF TypeOK
<1>5. ASSUME NEW from \in DOMAIN list, NEW to \in DOMAIN list, Move(from, to)
      PROVE  TypeOK'
  <2>1. list' \in Seq(Entry)
    BY <1>5, Moving DEF TypeOK, Move
  <2> QED
    BY <1>5, <2>1 DEF TypeOK, Move, Event
<1> QED
  BY <1>1, <1>2, <1>3, <1>4, <1>5, DiskTypes, ThreadTypes, ListTypes
     DEF Next

THEOREM TypesHold == Spec => []TypeOK
BY InitTypes, NextTypes, PTL DEF Spec
-----------------------------------------------------------------------------
(* The list is consistent because what is watched is in it, too, and what  *)
(* a restart reads from the settings has no twins either.                  *)
Linked ==
    /\ Distinct(list) /\ Distinct(saved)
    /\ files \subseteq Ids(list) /\ fileChanged \subseteq Ids(list)

(* A step that keeps the order, and watches no more than was watched.      *)
LEMMA LinkedKept ==
  ASSUME Linked, Order(list') = Order(list), UNCHANGED saved,
         files' \subseteq files, fileChanged' \subseteq fileChanged \cup files
  PROVE  Linked'
<1>1. Ids(list') = Ids(list) /\ (Distinct(list') <=> Distinct(list))
  BY SameOrder
<1> QED
  BY <1>1 DEF Linked

LEMMA ListLinked ==
  ASSUME TypeOK, Linked, NEW f \in App,
         FileChanged(f) \/ AddApp(f) \/ RemoveApp(f)
  PROVE  Linked'
<1> USE DEF diskVars
<1>1. list \in Seq(Entry) /\ version \in [App -> Nat]
  BY DEF TypeOK
<1>2. /\ Find(f) \in Nat /\ (Find(f) = 0 <=> f \notin Ids(list))
      /\ Find(f) # 0 => Find(f) \in DOMAIN list /\ list[Find(f)].id = f
  BY <1>1, Findings
<1>3. Order(Update(Find(f), f)) = Order(list)
  BY <1>1, <1>2, Updating
<1>4. CASE FileChanged(f)
  <2>1. Order(list') = Order(list)
    BY <1>3, <1>4 DEF FileChanged
  <2>2. UNCHANGED saved /\ files' = files /\ fileChanged' \subseteq fileChanged
    BY <1>4 DEF FileChanged
  <2> QED
    BY <2>1, <2>2, LinkedKept
<1>5. CASE AddApp(f)
  <2> DEFINE e == [id |-> f, version |-> Contents(f), args |-> TRUE]
  <2>1. UNCHANGED <<saved, fileChanged>> /\ files' \subseteq files \cup {f}
    BY <1>5 DEF AddApp, Served
  <2>2. CASE disk[f] = "hidden"
    <3>1. UNCHANGED <<list, files>>
      BY <1>5, <2>2 DEF AddApp
    <3> QED
      BY <2>1, <3>1, LinkedKept
  <2>3. CASE disk[f] # "hidden" /\ Find(f) # 0
    <3>1. list' = Update(Find(f), f)
      BY <1>5, <2>3 DEF AddApp
    <3>2. Ids(list') = Ids(list) /\ (Distinct(list') <=> Distinct(list))
      BY <1>3, <3>1, SameOrder
    <3> QED
      BY <1>2, <2>1, <2>3, <3>2 DEF Linked
  <2>4. CASE disk[f] # "hidden" /\ Find(f) = 0
    <3>1. list' = Append(list, e)
      BY <1>5, <2>4 DEF AddApp
    <3>2. Contents(f) \in Nat
      BY <1>1 DEF Contents, Exists
    <3>3. e \in Entry /\ e.id = f
      BY <3>2 DEF Entry
    <3> HIDE DEF e
    <3>4. /\ Ids(list') = Ids(list) \cup {f}
          /\ Distinct(list) /\ f \notin Ids(list) => Distinct(list')
      BY <1>1, <3>1, <3>3, Joining
    <3> QED
      BY <1>2, <2>1, <2>4, <3>4 DEF Linked
  <2> QED
    BY <2>2, <2>3, <2>4
<1>6. CASE RemoveApp(f)
  <2>1. UNCHANGED saved
    BY <1>6 DEF RemoveApp, Served
  <2>2. CASE Find(f) = 0
    <3>1. UNCHANGED <<list, files, fileChanged>>
      BY <1>6, <2>2 DEF RemoveApp
    <3> QED
      BY <2>1, <3>1, LinkedKept
  <2>3. CASE Find(f) # 0
    <3>1. /\ list' = RemoveAt(list, Find(f))
          /\ files' = files \ {f} /\ fileChanged' = fileChanged \ {f}
      BY <1>6, <2>3 DEF RemoveApp
    <3>2. /\ Ids(list) \ {f} \subseteq Ids(list')
          /\ Distinct(list) => Distinct(list')
      BY <1>1, <1>2, <2>3, <3>1, RemovalIds
    <3> QED
      BY <2>1, <3>1, <3>2 DEF Linked
  <2> QED
    BY <2>2, <2>3
<1> QED
  BY <1>4, <1>5, <1>6

LEMMA NextLinked == TypeOK /\ Linked /\ [Next]_vars => Linked'
<1> SUFFICES ASSUME TypeOK, Linked, [Next]_vars
             PROVE  Linked'
  OBVIOUS
<1> USE DEF diskVars, listVars, watchVars, threadVars
<1>1. list \in Seq(Entry) /\ saved \in Seq(Entry)
  BY DEF TypeOK
<1>2. CASE Watch \/ UNCHANGED vars
  BY <1>2, LinkedKept DEF Watch, vars
<1>3. CASE Refreshed
  <2>1. UNCHANGED <<saved, files, fileChanged>>
    BY <1>3 DEF Refreshed, Served
  <2>2. list' = list \/ list' \in Sorted(list)
    BY <1>3 DEF Refreshed
  <2>3. Ids(list') = Ids(list) /\ (Distinct(list) => Distinct(list'))
    BY <1>1, <2>2, Sorting
  <2> QED
    BY <2>1, <2>3 DEF Linked
<1>4. CASE Save
  <2>1. UNCHANGED <<list, files, fileChanged>> /\ saved' = Stored(list)
    BY <1>4 DEF Save
  <2>2. Distinct(saved') <=> Distinct(list)
    BY <1>1, <2>1, Storing, SameOrder
  <2> QED
    BY <2>1, <2>2 DEF Linked
<1>5. CASE Restart
  <2>1. PICK l \in {Stored(list), saved} : Started(l) /\ saved' = l
    BY <1>5 DEF Restart
  <2>2. Distinct(l)
    <3>1. Distinct(Stored(list)) <=> Distinct(list)
      BY <1>1, Storing, SameOrder
    <3> QED
      BY <2>1, <3>1 DEF Linked
  <2>3. list' = l /\ files' = {} /\ fileChanged' = {}
    BY <2>1 DEF Started
  <2> QED
    BY <2>1, <2>2, <2>3 DEF Linked
<1>6. ASSUME NEW from \in DOMAIN list, NEW to \in DOMAIN list, Move(from, to)
      PROVE  Linked'
  <2>1. UNCHANGED <<saved, files, fileChanged>>
    BY <1>6 DEF Move
  <2>2. Ids(list) \subseteq Ids(list') /\ (Distinct(list) => Distinct(list'))
    BY <1>1, <1>6, Moving DEF Move
  <2> QED
    BY <2>1, <2>2 DEF Linked
<1>7. ASSUME NEW f \in App,
             \/ \E s \in {"shown", "hidden"} : Install(f, s)
             \/ Uninstall(f) \/ Edit(f)
      PROVE  Linked'
  <2>1. UNCHANGED <<list, saved>>
    BY <1>7 DEF Install, Uninstall, Edit, Hear
  <2>2. files' \subseteq files /\ fileChanged' \subseteq fileChanged \cup files
    BY <1>7 DEF Install, Uninstall, Edit, Hear
  <2> QED
    BY <2>1, <2>2, LinkedKept
<1>8. ASSUME NEW t \in Thread,
             TScan(t) \/ TAdd(t) \/ TRead(t) \/ TRemove(t) \/ DirChanged(t)
      PROVE  Linked'
  <2>1. UNCHANGED <<list, saved, files, fileChanged>>
    BY <1>8 DEF TScan, TAdd, TRead, TRemove, DirChanged
  <2> QED
    BY <2>1, LinkedKept
<1> QED
  BY <1>2, <1>3, <1>4, <1>5, <1>6, <1>7, <1>8, ListLinked DEF Next

(* No application is listed twice, and no change of a file reported to     *)
(* none: for every set of files, of threads and every bound.               *)
THEOREM ConsistentHolds == Spec => []Consistent
<1>1. Init => Linked
  BY DEF Init, Linked, Distinct
<1>2. Linked => Consistent
  BY DEF Linked, Distinct, Consistent
<1> QED
  BY <1>1, <1>2, NextLinked, TypesHold, PTL DEF Spec
-----------------------------------------------------------------------------
(* The order of the list is saved, or about to be: only what is done while *)
(* the list is loaded for the first time goes without, till onRefreshed(). *)
THEOREM SavedHolds == Spec => []SavedInTime
<1>1. Init => SavedInTime
  BY DEF Init, SavedInTime
<1>2. TypeOK /\ SavedInTime /\ [Next]_vars => SavedInTime'
  <2> SUFFICES ASSUME TypeOK, SavedInTime, [Next]_vars
               PROVE  SavedInTime'
    OBVIOUS
  <2> USE DEF diskVars, listVars, watchVars, threadVars
  <2>1. list \in Seq(Entry) /\ version \in [App -> Nat]
    BY DEF TypeOK
  <2>2. ASSUME Order(list') = Order(list), UNCHANGED <<firstLoad, saved>>,
               saving => saving'
        PROVE  SavedInTime'
    BY <2>2 DEF SavedInTime
  <2>3. ASSUME NEW f \in App
        PROVE  Find(f) \in Nat /\ Order(Update(Find(f), f)) = Order(list)
    <3>1. Find(f) = 0 \/ Find(f) \in DOMAIN list
      BY <2>1, Findings
    <3>2. Find(f) \in Nat
      BY <2>1, <3>1
    <3> QED
      BY <2>1, <3>2, Updating
  <2>4. ASSUME NEW f \in App, FileChanged(f)
        PROVE  SavedInTime'
    <3>1. Order(list') = Order(list)
      BY <2>3, <2>4 DEF FileChanged
    <3> QED
      BY <2>2, <2>4, <3>1 DEF FileChanged
  <2>5. ASSUME NEW f \in App, AddApp(f)
        PROVE  SavedInTime'
    <3>1. UNCHANGED <<firstLoad, saved>> /\ (saving => saving')
      BY <2>5 DEF AddApp, Served
    <3>2. CASE disk[f] # "hidden" /\ Find(f) = 0
      <4>1. saving' = (saving \/ (Find(f) = 0 /\ Saves))
        BY <2>5, <3>2 DEF AddApp
      <4>2. saving' \/ firstLoad'
        BY <3>1, <3>2, <4>1, Zenon DEF Saves
      <4> QED
        BY <4>2 DEF SavedInTime
    <3>3. CASE ~(disk[f] # "hidden" /\ Find(f) = 0)
      <4>1. Order(list') = Order(list)
        BY <2>3, <2>5, <3>3 DEF AddApp
      <4> QED
        BY <2>2, <3>1, <4>1
    <3> QED
      BY <3>2, <3>3
  <2>6. ASSUME NEW f \in App, RemoveApp(f)
        PROVE  SavedInTime'
    <3>1. UNCHANGED <<firstLoad, saved>>
      BY <2>6 DEF RemoveApp, Served
    <3> QED
      BY <2>2, <2>6, <3>1 DEF RemoveApp, SavesRemoval, SavedInTime
  <2>7. CASE Refreshed
    BY <2>2, <2>7 DEF Refreshed, Served, SavedInTime
  <2>8. CASE Save
    BY <2>1, <2>8, Storing DEF Save, SavedInTime
  <2>9. CASE Restart
    BY <2>9 DEF Restart, Started, SavedInTime
  <2>10. ASSUME NEW from \in DOMAIN list, NEW to \in DOMAIN list,
                Move(from, to)
         PROVE  SavedInTime'
    BY <2>10 DEF Move, SavedInTime
  <2>11. CASE \/ \E f \in App : \/ \E s \in {"shown", "hidden"} : Install(f, s)
                                \/ Uninstall(f) \/ Edit(f)
              \/ \E t \in Thread : \/ TScan(t) \/ TAdd(t) \/ TRead(t)
                                   \/ TRemove(t) \/ DirChanged(t)
              \/ Watch \/ UNCHANGED vars
    <3>1. UNCHANGED <<list, firstLoad, saving, saved>>
      BY <2>11 DEF Install, Uninstall, Edit, Hear, TScan, TAdd, TRead, TRemove,
                   DirChanged, Watch, vars
    <3> QED
      BY <2>2, <3>1
  <2> QED
    BY <2>4, <2>5, <2>6, <2>7, <2>8, <2>9, <2>10, <2>11 DEF Next
<1> QED
  BY <1>1, <1>2, TypesHold, PTL DEF Spec
-----------------------------------------------------------------------------
(* The list is up to date because something still cares for every entry    *)
(* that is not right: a refresh that is due, a call that is on its way, or *)
(* the watcher.  A call is posted when it is in the queue, and on its way  *)
(* as soon as a thread has scanned what will have it posted.               *)
In(q, c) == \E k \in DOMAIN q : q[k] = c
AddCall(f) == [type |-> "add", file |-> f]
RemoveCall(f) == [type |-> "remove", file |-> f]

Due == dirChanged \/ \E t \in Thread : refresh[t] = "queued"
Adding(f) ==
    \/ In(posted, AddCall(f))
    \/ \E t \in Thread : refresh[t] = "scanned" /\ f \in entries[t]

(* An entry for f is about to be removed: for sure, if it is seen, ...     *)
Removing(f) ==
    \/ In(posted, RemoveCall(f))
    \/ \E t \in Thread :
          /\ f \notin entries[t]
          /\ \/ refresh[t] \in {"scanned", "posted"}
             \/ refresh[t] = "reading" /\ f \in Ids(before[t])

(* ... and perhaps, if one comes to be there.                              *)
Leaving(f) ==
    \/ In(posted, RemoveCall(f))
    \/ \E t \in Thread :
          /\ f \notin entries[t]
          /\ refresh[t] \in {"scanned", "posted", "reading"}

(* The file is watched, and what has changed in it is read or reported.    *)
Right(f) ==
    /\ f \in files
    /\ \/ f \in fileChanged
       \/ \A k \in DOMAIN list : list[k].id = f =>
             list[k].version = version[f] /\ list[k].args

(* What a change that nothing heard of leaves wrong, the refresh removes   *)
(* with the entry, unless it misreads the list.                            *)
Cared(f) ==
    \/ Due \/ Adding(f) \/ Right(f)
    \/ "deaf" \in slips /\ ("race" \in slips \/ Removing(f))
Contented ==
    \A f \in Ids(list) : disk[f] = "shown" /\ f \notin skipped => Cared(f)

(* Before the directory is watched the first refresh sees to every entry,  *)
(* and nothing changes the list under it.                                  *)
Starting ==
    ~watching =>
       /\ \A f \in Ids(list) : Due \/ Adding(f) \/ Removing(f)
       /\ \A t \in Thread : refresh[t] = "reading" => before[t] = list
       /\ files = {}

(* Without a slip a refresh has the calls and the list for itself; what    *)
(* exists is in the list or will be, what does not is not or will not, and *)
(* a call that has become wrong is followed by another refresh.            *)
Alone ==
    \A t \in Thread : refresh[t] # "idle" =>
       /\ \A u \in Thread \ {t} : refresh[u] = "idle"
       /\ refresh[t] \in {"queued", "scanned"} => posted = <<>>
Whole(f) ==
    /\ disk[f] = "shown" => f \in Ids(list) \/ Due \/ Adding(f)
    /\ disk[f] = "shown" /\ Leaving(f) => dirChanged
    /\ f \notin Exists /\ f \in Ids(list) => Due \/ Removing(f)
    /\ f \notin Exists /\ Adding(f) => dirChanged
Clean == slips = {} => Alone /\ \A f \in App : Whole(f)

UpInv == Contented /\ Starting /\ Clean

(* A finite set made a sequence: every member is in it.                    *)
LEMMA ListingAll ==
  ASSUME NEW S, IsFiniteSet(S)
  PROVE  \A c : (\E k \in DOMAIN SetToSeq(S) : SetToSeq(S)[k] = c) <=> c \in S
<1> DEFINE n == Cardinality(S)
           q == SetToSeq(S)
<1>1. n \in Nat /\ ExistsBijection(1 .. n, S)
  BY FS_CardinalityType
<1>2. \E f \in [1 .. n -> S] : IsInjective(f)
  BY <1>1 DEF ExistsBijection, Bijection, Injection
<1>3. q \in [1 .. n -> S] /\ IsInjective(q)
  BY <1>2 DEF SetToSeq
<1>4. q \in Injection(1 .. n, S)
  BY <1>3 DEF Injection, IsInjective
<1>5. Cardinality(1 .. n) = n /\ IsFiniteSet(1 .. n)
  BY <1>1, FS_Interval
<1>6. q \in Surjection(1 .. n, S)
  BY <1>4, <1>5, FS_Injection
<1> HIDE DEF q
<1>7. q \in [1 .. n -> S] /\ \A c \in S : \E k \in 1 .. n : q[k] = c
  BY <1>6 DEF Surjection
<1> QED
  BY <1>7 DEF q

(* What is in two queues one after the other.                              *)
LEMMA InJoined ==
  ASSUME NEW T, NEW x \in Seq(T), NEW y \in Seq(T), NEW c
  PROVE  In(x \o y, c) <=> In(x, c) \/ In(y, c)
<1> DEFINE q == x \o y
<1>1. /\ Len(x) \in Nat /\ Len(y) \in Nat
      /\ DOMAIN x = 1 .. Len(x) /\ DOMAIN y = 1 .. Len(y)
      /\ DOMAIN q = 1 .. Len(x) + Len(y)
      /\ \A k \in 1 .. Len(x) : q[k] = x[k]
      /\ \A k \in Len(x) + 1 .. Len(x) + Len(y) : q[k] = y[k - Len(x)]
  OBVIOUS
<1> HIDE DEF q
<1>2. ASSUME In(x, c)
      PROVE  In(q, c)
  <2>1. PICK k \in 1 .. Len(x) : x[k] = c
    BY <1>1, <1>2 DEF In
  <2>2. k \in DOMAIN q /\ q[k] = c
    BY <1>1, <2>1
  <2> QED
    BY <2>2 DEF In
<1>3. ASSUME In(y, c)
      PROVE  In(q, c)
  <2>1. PICK k \in 1 .. Len(y) : y[k] = c
    BY <1>1, <1>3 DEF In
  <2>2. PICK j \in Len(x) + 1 .. Len(x) + Len(y) : j - Len(x) = k
    BY <1>1, Len(x) + k \in Len(x) + 1 .. Len(x) + Len(y),
       (Len(x) + k) - Len(x) = k
  <2>3. j \in DOMAIN q /\ q[j] = c
    BY <1>1, <2>1, <2>2
  <2> QED
    BY <2>3 DEF In
<1>4. ASSUME In(q, c)
      PROVE  In(x, c) \/ In(y, c)
  <2>1. PICK k \in 1 .. Len(x) + Len(y) : q[k] = c
    BY <1>1, <1>4 DEF In
  <2>2. CASE k <= Len(x)
    BY <1>1, <2>1, <2>2 DEF In
  <2>3. CASE k > Len(x)
    <3>1. k - Len(x) \in DOMAIN y /\ y[k - Len(x)] = c
      BY <1>1, <2>1, <2>3
    <3> QED
      BY <3>1 DEF In
  <2> QED
    BY <1>1, <2>2, <2>3
<1> QED
  BY <1>2, <1>3, <1>4 DEF q

(* What is in a queue: its head, and what is behind.                       *)
LEMMA InTail ==
  ASSUME NEW T, NEW q \in Seq(T), q # <<>>, NEW c
  PROVE  In(q, c) <=> Head(q) = c \/ In(Tail(q), c)
<1> DEFINE r == Tail(q)
<1>1. /\ Len(q) \in Nat \ {0} /\ DOMAIN q = 1 .. Len(q)
      /\ DOMAIN r = 1 .. Len(q) - 1 /\ Head(q) = q[1]
      /\ \A k \in 1 .. Len(q) - 1 : r[k] = q[k + 1]
  OBVIOUS
<1> HIDE DEF r
<1>2. ASSUME In(q, c), Head(q) # c
      PROVE  In(r, c)
  <2>1. PICK k \in 1 .. Len(q) : q[k] = c
    BY <1>1, <1>2 DEF In
  <2>2. PICK j \in 1 .. Len(q) - 1 : j + 1 = k
    BY <1>1, <1>2, <2>1, k - 1 \in 1 .. Len(q) - 1, (k - 1) + 1 = k
  <2> QED
    BY <1>1, <2>1, <2>2 DEF In
<1>3. ASSUME In(r, c)
      PROVE  In(q, c)
  <2>1. PICK k \in 1 .. Len(q) - 1 : r[k] = c
    BY <1>1, <1>3 DEF In
  <2>2. k + 1 \in DOMAIN q /\ q[k + 1] = c
    BY <1>1, <2>1
  <2> QED
    BY <2>2 DEF In
<1>4. Head(q) = c => In(q, c)
  BY <1>1 DEF In
<1> QED
  BY <1>2, <1>3, <1>4 DEF r

(* The calls a refresh posts for the files F, and only those.              *)
LEMMA InCalls ==
  ASSUME NEW F \in SUBSET App, NEW y \in {"add", "remove"}, NEW f
  PROVE  /\ In(SetToSeq([type : {y}, file : F]), AddCall(f)) <=>
               y = "add" /\ f \in F
         /\ In(SetToSeq([type : {y}, file : F]), RemoveCall(f)) <=>
               y = "remove" /\ f \in F
<1> DEFINE S == [type : {y}, file : F]
           q == SetToSeq(S)
           g == [x \in F |-> [type |-> y, file |-> x]]
<1>1. IsFiniteSet(F)
  BY FS_Subset, LauncherModelAssumption
<1>2. g \in Surjection(F, S)
  BY DEF Surjection
<1>3. IsFiniteSet(S)
  BY <1>1, <1>2, FS_Surjection
<1>4. AddCall(f) \in S <=> y = "add" /\ f \in F
  BY DEF AddCall
<1>5. RemoveCall(f) \in S <=> y = "remove" /\ f \in F
  BY DEF RemoveCall
<1> HIDE DEF S
<1>6. \A c : In(q, c) <=> c \in S
  BY <1>3, ListingAll DEF In
<1> QED
  BY <1>4, <1>5, <1>6 DEF S

(* Calls and threads that are left alone.                                  *)
LEMMA CallsKept ==
  ASSUME UNCHANGED <<posted, refresh, entries, before>>
  PROVE  \A f : /\ Adding(f)' <=> Adding(f)
                /\ Removing(f)' <=> Removing(f)
                /\ Leaving(f)' <=> Leaving(f)
BY DEF Adding, Removing, Leaving

(* A call that is served.                                                  *)
LEMMA CallServed ==
  ASSUME TypeOK, NEW c, Served(c)
  PROVE  /\ watching /\ posted # <<>>
         /\ In(posted, c)
         /\ \A f : /\ Adding(f)' => Adding(f)
                   /\ Adding(f) /\ c # AddCall(f) => Adding(f)'
                   /\ Removing(f) /\ c # RemoveCall(f) => Removing(f)'
                   /\ Leaving(f)' => Leaving(f)
<1>1. /\ posted \in Seq(Call) /\ posted # <<>> /\ watching
      /\ c = Head(posted) /\ posted' = Tail(posted)
      /\ UNCHANGED <<refresh, entries, before>>
  BY DEF TypeOK, Served, threadVars
<1>2. \A d : In(posted, d) <=> c = d \/ In(posted', d)
  BY <1>1, InTail
<1> QED
  BY <1>1, <1>2 DEF Adding, Removing, Leaving

(* When all is settled no call is on its way.                              *)
LEMMA Settlement ==
  Settled => \A f : ~Adding(f) /\ ~Removing(f) /\ ~Leaving(f)
BY DEF Settled, Adding, Removing, Leaving, In

(* The directory changes.                                                  *)
LEMMA UpDir ==
  ASSUME UpInv, NEW F, Hear(TRUE, F), files' \subseteq files
  PROVE  UpInv'
<1>1. /\ UNCHANGED <<watching, list, posted, refresh, entries, before,
                     skipped>>
      /\ dirChanged' = (dirChanged \/ watching)
      /\ slips' = IF ~watching /\ \A t \in Thread : refresh[t] # "queued"
                  THEN slips \cup {"deaf"} ELSE slips
  BY DEF Hear, listVars, threadVars
<1>2. \A f : /\ Adding(f)' <=> Adding(f)
             /\ Removing(f)' <=> Removing(f)
             /\ Leaving(f)' <=> Leaving(f)
  BY <1>1, CallsKept
<1>3. Due => Due'
  BY <1>1 DEF Due
<1>4. Starting'
  BY <1>1, <1>2, <1>3 DEF UpInv, Starting
<1>5. CASE ~watching /\ \A t \in Thread : refresh[t] # "queued"
  <2>1. "deaf" \in slips'
    BY <1>1, <1>5
  <2>2. Contented'
    BY <1>1, <1>2, <1>3, <1>5, <2>1 DEF UpInv, Starting, Contented, Cared
  <2>3. Clean'
    BY <2>1 DEF Clean
  <2> QED
    BY <1>4, <2>2, <2>3 DEF UpInv
<1>6. CASE watching \/ \E t \in Thread : refresh[t] = "queued"
  <2>1. Due' /\ slips' = slips
    BY <1>1, <1>6 DEF Due
  <2>2. Contented'
    BY <2>1 DEF Contented, Cared
  <2>3. ASSUME slips = {}, NEW f
        PROVE  Adding(f) \/ Leaving(f) => dirChanged'
    <3>1. CASE watching
      BY <1>1, <3>1
    <3>2. CASE ~watching
      <4>1. PICK t \in Thread : refresh[t] = "queued"
        BY <1>6, <3>2
      <4>2. /\ posted = <<>>
            /\ \A u \in Thread : refresh[u] \in {"idle", "queued"}
        BY <2>3, <4>1 DEF UpInv, Clean, Alone
      <4> QED
        BY <4>2 DEF Adding, Leaving, In
    <3> QED
      BY <3>1, <3>2
  <2>4. Clean'
    <3>1. Alone => Alone'
      BY <1>1 DEF Alone
    <3>2. ASSUME slips = {}, NEW f
          PROVE  Whole(f)'
      BY <1>2, <2>1, <2>3, <3>2 DEF Whole
    <3> QED
      BY <2>1, <3>1, <3>2 DEF UpInv, Clean
  <2> QED
    BY <1>4, <2>2, <2>4 DEF UpInv
<1> QED
  BY <1>5, <1>6

(* A file is edited in place.                                              *)
LEMMA UpEdit ==
  ASSUME TypeOK, UpInv, NEW f \in App, Edit(f)
  PROVE  UpInv'
<1>1. /\ UNCHANGED <<watching, list, posted, refresh, entries, before, skipped,
                     disk, files>>
      /\ dirChanged' = (dirChanged \/ (FALSE /\ watching))
      /\ fileChanged' = fileChanged \cup (files \cap {f})
      /\ version' = [version EXCEPT ![f] = @ + 1]
      /\ slips' \in {slips, slips \cup {"deaf"}}
  BY DEF Edit, Hear, listVars, threadVars
<1>2. /\ version \in [App -> Nat] /\ Ids(list) \subseteq App
      /\ \A g \in App \ {f} : version'[g] = version[g]
  BY <1>1, IdsTypes DEF TypeOK
<1>3. \A g : /\ Adding(g)' <=> Adding(g)
             /\ Removing(g)' <=> Removing(g)
             /\ Leaving(g)' <=> Leaving(g)
  BY <1>1, CallsKept
<1>4. Due <=> Due'
  BY <1>1 DEF Due, TypeOK
<1>5. Starting'
  BY <1>1, <1>3, <1>4 DEF UpInv, Starting
<1>6. ASSUME NEW g \in App, Right(g)
      PROVE  Right(g)'
  <2>1. CASE g = f
    BY <1>1, <1>6, <2>1 DEF Right
  <2>2. CASE g # f
    BY <1>1, <1>2, <1>6, <2>2 DEF Right
  <2> QED
    BY <2>1, <2>2
<1>7. Contented'
  <2>1. slips \subseteq slips'
    BY <1>1
  <2> QED
    BY <1>1, <1>2, <1>3, <1>4, <1>6, <2>1 DEF UpInv, Contented, Cared
<1>8. Clean'
  <2>1. slips' = {} => slips = {}
    BY <1>1
  <2>2. Alone => Alone'
    BY <1>1 DEF Alone
  <2>3. dirChanged' <=> dirChanged
    BY <1>1 DEF TypeOK
  <2>4. \A g : Whole(g) => Whole(g)'
    BY <1>1, <1>3, <1>4, <2>3 DEF Whole, Exists
  <2> QED
    BY <2>1, <2>2, <2>4 DEF UpInv, Clean
<1> QED
  BY <1>5, <1>7, <1>8 DEF UpInv

(* A thread scans the directory, ...                                       *)
LEMMA UpScan ==
  ASSUME TypeOK, UpInv, NEW t \in Thread, TScan(t)
  PROVE  UpInv'
<1>1. /\ UNCHANGED <<disk, version, list, watching, files, dirChanged,
                     fileChanged, posted, before, skipped, slips>>
      /\ refresh[t] = "queued"
      /\ refresh' = [refresh EXCEPT ![t] = "scanned"]
      /\ entries' = [entries EXCEPT ![t] = Exists]
  BY DEF TScan, diskVars, listVars, watchVars
<1>2. /\ refresh'[t] = "scanned" /\ entries'[t] = Exists
      /\ \A u \in Thread \ {t} : /\ refresh'[u] = refresh[u]
                                 /\ entries'[u] = entries[u]
  BY <1>1 DEF TypeOK
<1>3. \A g : g \in Exists => Adding(g)'
  BY <1>2 DEF Adding
<1>4. \A g : g \notin Exists => Removing(g)'
  BY <1>2 DEF Removing
<1>5. /\ Ids(list) \subseteq App
      /\ \A g \in App : disk[g] = "shown" => g \in Exists
  BY IdsTypes DEF TypeOK, Exists
<1>6. Contented'
  BY <1>1, <1>3, <1>5 DEF Contented, Cared
<1>7. Starting'
  <2>1. \A u \in Thread : refresh'[u] = "reading" => refresh[u] = "reading"
    BY <1>2
  <2> QED
    BY <1>1, <1>3, <1>4, <2>1 DEF UpInv, Starting
<1>8. ASSUME slips = {}
      PROVE  Alone' /\ \A g \in App : Whole(g)'
  <2>1. posted = <<>> /\ \A u \in Thread \ {t} : refresh[u] = "idle"
    BY <1>1, <1>8 DEF UpInv, Clean, Alone
  <2>2. Alone'
    BY <1>1, <1>2, <2>1 DEF Alone
  <2>3. ASSUME NEW g
        PROVE  /\ Adding(g)' => g \in Exists
               /\ Leaving(g)' => g \notin Exists
    BY <1>1, <1>2, <2>1 DEF Adding, Leaving, In
  <2>4. Exists' = Exists
    BY <1>1 DEF Exists
  <2> QED
    BY <1>1, <1>3, <1>4, <1>5, <2>2, <2>3, <2>4 DEF Whole
<1> QED
  BY <1>1, <1>6, <1>7, <1>8 DEF UpInv, Clean

(* ... posts what it has found, ...                                        *)
LEMMA UpAdd ==
  ASSUME TypeOK, UpInv, NEW t \in Thread, TAdd(t)
  PROVE  UpInv'
<1>1. /\ UNCHANGED <<disk, version, list, watching, files, dirChanged,
                     fileChanged, entries, before, skipped, slips>>
      /\ refresh[t] = "scanned"
      /\ refresh' = [refresh EXCEPT ![t] = "posted"]
      /\ posted' = posted \o SetToSeq([type : {"add"}, file : entries[t]])
  BY DEF TAdd, diskVars, listVars, watchVars
<1>2. /\ refresh'[t] = "posted"
      /\ \A u \in Thread \ {t} : refresh'[u] = refresh[u]
  BY <1>1 DEF TypeOK
<1>3. /\ posted \in Seq(Call) /\ entries[t] \in SUBSET App
      /\ SetToSeq([type : {"add"}, file : entries[t]]) \in Seq(Call)
  BY Calls DEF TypeOK
<1>4. ASSUME NEW g
      PROVE  /\ In(posted', AddCall(g)) <=>
                   In(posted, AddCall(g)) \/ g \in entries[t]
             /\ In(posted', RemoveCall(g)) <=> In(posted, RemoveCall(g))
  <2> DEFINE q == SetToSeq([type : {"add"}, file : entries[t]])
  <2>1. /\ In(q, AddCall(g)) <=> g \in entries[t]
        /\ ~In(q, RemoveCall(g))
    BY <1>3, InCalls
  <2>2. q \in Seq(Call) /\ posted' = posted \o q
    BY <1>1, <1>3
  <2> HIDE DEF q
  <2>3. \A c : In(posted', c) <=> In(posted, c) \/ In(q, c)
    BY <1>3, <2>2, InJoined
  <2> QED
    BY <2>1, <2>3
<1>5. \A g : Adding(g)' <=> Adding(g)
  BY <1>1, <1>2, <1>4 DEF Adding
<1>6. \A g : Removing(g)' <=> Removing(g)
  BY <1>1, <1>2, <1>4 DEF Removing
<1>7. \A g : Leaving(g)' <=> Leaving(g)
  BY <1>1, <1>2, <1>4 DEF Leaving
<1>8. Due' <=> Due
  BY <1>1, <1>2 DEF Due
<1>9. Contented'
  BY <1>1, <1>5, <1>6, <1>8 DEF UpInv, Contented, Cared, Right
<1>10. Starting'
  BY <1>1, <1>2, <1>5, <1>6, <1>8 DEF UpInv, Starting
<1>11. Clean'
  <2>1. Alone => Alone'
    BY <1>1, <1>2 DEF Alone
  <2>2. \A g : Whole(g) => Whole(g)'
    BY <1>1, <1>5, <1>6, <1>7, <1>8 DEF Whole, Exists
  <2> QED
    BY <1>1, <2>1, <2>2 DEF UpInv, Clean
<1> QED
  BY <1>9, <1>10, <1>11 DEF UpInv

(* ... begins to read the list ...                                         *)
LEMMA UpRead ==
  ASSUME TypeOK, UpInv, NEW t \in Thread, TRead(t)
  PROVE  UpInv'
<1>1. /\ UNCHANGED <<disk, version, list, watching, files, dirChanged,
                     fileChanged, entries, posted, skipped, slips>>
      /\ refresh[t] = "posted"
      /\ refresh' = [refresh EXCEPT ![t] = "reading"]
      /\ before' = [before EXCEPT ![t] = list]
  BY DEF TRead, diskVars, listVars, watchVars
<1>2. /\ refresh'[t] = "reading" /\ before'[t] = list
      /\ \A u \in Thread \ {t} : /\ refresh'[u] = refresh[u]
                                 /\ before'[u] = before[u]
  BY <1>1 DEF TypeOK
<1>3. \A g : Adding(g)' <=> Adding(g)
  BY <1>1, <1>2 DEF Adding
<1>4. \A g : Removing(g) /\ g \in Ids(list) => Removing(g)'
  BY <1>1, <1>2 DEF Removing
<1>5. \A g : Leaving(g)' <=> Leaving(g)
  BY <1>1, <1>2 DEF Leaving
<1>6. Due' <=> Due
  BY <1>1, <1>2 DEF Due
<1>7. Contented'
  BY <1>1, <1>3, <1>4, <1>6 DEF UpInv, Contented, Cared, Right
<1>8. Starting'
  BY <1>1, <1>2, <1>3, <1>4, <1>6 DEF UpInv, Starting
<1>9. Clean'
  <2>1. Alone => Alone'
    BY <1>1, <1>2 DEF Alone
  <2>2. \A g : Whole(g) => Whole(g)'
    BY <1>1, <1>3, <1>4, <1>5, <1>6 DEF Whole, Exists
  <2> QED
    BY <1>1, <2>1, <2>2 DEF UpInv, Clean
<1> QED
  BY <1>7, <1>8, <1>9 DEF UpInv

(* ... and posts what it has not found.                                    *)
LEMMA UpRemove ==
  ASSUME TypeOK, UpInv, NEW t \in Thread, TRemove(t)
  PROVE  UpInv'
<1>1. /\ UNCHANGED <<disk, version, list, watching, files, dirChanged,
                     fileChanged, skipped>>
      /\ refresh[t] = "reading"
      /\ refresh' = [refresh EXCEPT ![t] = "idle"]
      /\ slips' = IF before[t] = list THEN slips ELSE slips \cup {"race"}
      /\ before' = [before EXCEPT ![t] = <<>>]
      /\ entries' = [entries EXCEPT ![t] = {}]
  BY DEF TRemove, diskVars, listVars, watchVars
<1>2. PICK seen \in SUBSET (Ids(before[t]) \cup Ids(list)) :
         /\ before[t] = list => seen = Ids(list)
         /\ posted' = posted \o SetToSeq([type : {"remove"},
                                          file : seen \ entries[t]])
                             \o <<[type |-> "refreshed"]>>
  BY DEF TRemove
<1>3. /\ refresh'[t] = "idle"
      /\ \A u \in Thread \ {t} : /\ refresh'[u] = refresh[u]
                                 /\ before'[u] = before[u]
                                 /\ entries'[u] = entries[u]
  BY <1>1 DEF TypeOK
<1>4. seen \ entries[t] \in SUBSET App
  <2>1. Ids(before[t]) \subseteq App /\ Ids(list) \subseteq App
    BY IdsTypes DEF TypeOK
  <2> QED
    BY <2>1
<1>5. ASSUME NEW g
      PROVE  /\ In(posted', AddCall(g)) <=> In(posted, AddCall(g))
             /\ In(posted', RemoveCall(g)) <=>
                   In(posted, RemoveCall(g)) \/ g \in seen \ entries[t]
  <2> DEFINE q == SetToSeq([type : {"remove"}, file : seen \ entries[t]])
             r == <<[type |-> "refreshed"]>>
  <2>1. /\ In(q, RemoveCall(g)) <=> g \in seen \ entries[t]
        /\ ~In(q, AddCall(g))
    BY <1>4, InCalls
  <2>2. q \in Seq(Call) /\ posted \in Seq(Call)
    BY <1>4, Calls DEF TypeOK
  <2>3. r \in Seq(Call)
    <3>1. [type |-> "refreshed"] \in Call
      BY DEF Call
    <3>2. \A c \in Call : <<c>> \in Seq(Call)
      OBVIOUS
    <3> QED
      BY <3>1, <3>2, Zenon
  <2>4. ~In(r, AddCall(g)) /\ ~In(r, RemoveCall(g))
    BY DEF In, AddCall, RemoveCall
  <2>5. posted' = (posted \o q) \o r
    BY <1>2
  <2> HIDE DEF q, r
  <2>6. posted \o q \in Seq(Call)
    BY <2>2
  <2>7. \A c : In(posted', c) <=> In(posted, c) \/ In(q, c) \/ In(r, c)
    BY <2>2, <2>3, <2>5, <2>6, InJoined
  <2> QED
    BY <2>1, <2>4, <2>7
<1>6. \A g : Adding(g)' <=> Adding(g)
  BY <1>1, <1>3, <1>5 DEF Adding
<1>7. ASSUME NEW g \in Ids(list), Removing(g), before[t] = list
      PROVE  Removing(g)'
  BY <1>1, <1>2, <1>3, <1>5, <1>7 DEF Removing
<1>8. \A g : Leaving(g)' => Leaving(g)
  BY <1>1, <1>3, <1>5 DEF Leaving
<1>9. Due' <=> Due
  BY <1>1, <1>3 DEF Due
<1>10. Contented'
  <2>1. slips \subseteq slips' /\ (before[t] # list => "race" \in slips')
    BY <1>1
  <2> QED
    BY <1>1, <1>6, <1>7, <1>9, <2>1 DEF UpInv, Contented, Cared, Right
<1>11. Starting'
  BY <1>1, <1>3, <1>6, <1>7, <1>9 DEF UpInv, Starting
<1>12. Clean'
  <2>1. slips' = {} => slips = {} /\ before[t] = list
    BY <1>1
  <2>2. Alone => Alone'
    BY <1>1, <1>3 DEF Alone
  <2>3. \A g : before[t] = list /\ Whole(g) => Whole(g)'
    BY <1>1, <1>6, <1>7, <1>8, <1>9 DEF Whole, Exists
  <2> QED
    BY <2>1, <2>2, <2>3 DEF UpInv, Clean
<1> QED
  BY <1>10, <1>11, <1>12 DEF UpInv

(* The change of the directory is heard: a refresh begins.                 *)
LEMMA UpHeard ==
  ASSUME TypeOK, UpInv, NEW t \in Thread, DirChanged(t)
  PROVE  UpInv'
<1>1. /\ UNCHANGED <<disk, version, list, watching, files, fileChanged,
                     posted, entries, before, skipped>>
      /\ watching /\ refresh[t] = "idle"
      /\ refresh' = [refresh EXCEPT ![t] = "queued"]
      /\ slips' = IF Settled THEN {} ELSE slips \cup {"overlap"}
  BY DEF DirChanged, diskVars, listVars
<1>2. /\ refresh'[t] = "queued"
      /\ \A u \in Thread \ {t} : refresh'[u] = refresh[u]
  BY <1>1 DEF TypeOK
<1>3. Due'
  BY <1>2 DEF Due
<1>4. Contented'
  BY <1>3 DEF Contented, Cared
<1>5. Starting'
  BY <1>1 DEF Starting
<1>6. Clean'
  <2>1. slips' = {} => Settled
    BY <1>1
  <2>2. ASSUME Settled
        PROVE  Alone' /\ \A g \in App : Whole(g)'
    <3>1. posted = <<>> /\ \A u \in Thread : refresh[u] = "idle"
      BY <2>2 DEF Settled
    <3>2. Alone'
      BY <1>1, <1>2, <3>1 DEF Alone
    <3>3. \A g : ~Adding(g)' /\ ~Leaving(g)'
      BY <1>1, <1>2, <3>1 DEF Adding, Leaving, In
    <3> QED
      BY <1>3, <3>2, <3>3 DEF Whole
  <2> QED
    BY <2>1, <2>2 DEF Clean
<1> QED
  BY <1>4, <1>5, <1>6 DEF UpInv

(* A list whose entries are all of another one is as right as that one.    *)
Within(s, t) == \A k \in DOMAIN s : \E j \in DOMAIN t : s[k] = t[j]

(* A right entry is right as long as it is not another one.                *)
LEMMA RightWithin ==
  ASSUME NEW g, Right(g), g \in files', version'[g] = version[g],
         g \in fileChanged => g \in fileChanged',
         \A k \in DOMAIN list' : list'[k].id = g =>
            \E j \in DOMAIN list : list'[k] = list[j]
  PROVE  Right(g)'
BY DEF Right

(* No application comes to a list that way.                                *)
LEMMA WithinIds ==
  ASSUME NEW s, NEW t, Within(s, t)
  PROVE  Ids(s) \subseteq Ids(t)
BY DEF Within, Ids

(* Taking an entry out, ...                                                *)
LEMMA RemovalWithin ==
  ASSUME NEW s \in Seq(Entry), NEW k \in DOMAIN s
  PROVE  Within(RemoveAt(s, k), s)
<1> DEFINE r == RemoveAt(s, k)
<1>1. /\ r \in Seq(Entry) /\ Len(r) = Len(s) - 1
      /\ \A i \in 1 .. Len(s) - 1 : r[i] = IF i < k THEN s[i] ELSE s[i + 1]
  BY Removal
<1> HIDE DEF r
<1>2. Len(s) \in Nat /\ DOMAIN s = 1 .. Len(s) /\ DOMAIN r = 1 .. Len(s) - 1
  BY <1>1
<1>3. \A i \in 1 .. Len(s) - 1 : i \in DOMAIN s /\ i + 1 \in DOMAIN s
  BY <1>2
<1>4. Within(r, s)
  BY <1>1, <1>2, <1>3 DEF Within
<1> QED
  BY <1>4 DEF r

(* ... moving it ...                                                       *)
LEMMA MovingWithin ==
  ASSUME NEW s \in Seq(Entry), NEW from \in DOMAIN s, NEW to \in DOMAIN s
  PROVE  Within(InsertAt(RemoveAt(s, from), to, s[from]), s)
<1> DEFINE r == RemoveAt(s, from)
<1>1. r \in Seq(Entry) /\ Len(r) = Len(s) - 1 /\ s[from] \in Entry
  BY Removal
<1>2. Within(r, s)
  BY RemovalWithin
<1>3. Len(s) \in Nat /\ DOMAIN s = 1 .. Len(s) /\ DOMAIN r = 1 .. Len(r)
  BY <1>1
<1> HIDE DEF r
<1> DEFINE m == InsertAt(r, to, s[from])
<1>4. to \in 1 .. Len(r) + 1
  BY <1>1, <1>3
<1>5. /\ m \in Seq(Entry) /\ Len(m) = Len(r) + 1
      /\ \A i \in 1 .. Len(r) + 1 :
            m[i] = IF i < to THEN r[i]
                   ELSE IF i = to THEN s[from] ELSE r[i - 1]
  <2>1. ASSUME NEW k \in 1 .. Len(r) + 1, NEW e \in Entry
        PROVE  /\ InsertAt(r, k, e) \in Seq(Entry)
               /\ Len(InsertAt(r, k, e)) = Len(r) + 1
               /\ \A i \in 1 .. Len(r) + 1 :
                     InsertAt(r, k, e)[i] = IF i < k THEN r[i]
                                            ELSE IF i = k THEN e ELSE r[i - 1]
    BY <1>1, Insertion
  <2> QED
    BY <1>1, <1>4, <2>1
<1> HIDE DEF m
<1>6. ASSUME NEW i \in DOMAIN m
      PROVE  \E j \in DOMAIN s : m[i] = s[j]
  <2>1. i \in 1 .. Len(r) + 1
    BY <1>1, <1>3, <1>5, <1>6
  <2>2. CASE i < to
    BY <1>2, <1>3, <1>4, <1>5, <2>1, <2>2 DEF Within
  <2>3. CASE i = to
    BY <1>5, <2>1, <2>3
  <2>4. CASE i > to
    <3>1. i - 1 \in DOMAIN r /\ m[i] = r[i - 1]
      BY <1>1, <1>3, <1>4, <1>5, <2>1, <2>4
    <3> QED
      BY <1>2, <3>1 DEF Within
  <2> QED
    BY <1>3, <1>4, <2>1, <2>2, <2>3, <2>4
<1>7. Within(m, s)
  BY <1>6 DEF Within
<1> QED
  BY <1>7 DEF m, r

(* ... and sorting add nothing.                                            *)
LEMMA SortingWithin ==
  ASSUME NEW s \in Seq(Entry), NEW t \in Sorted(s)
  PROVE  Within(t, s)
<1>1. PICK p \in Bijection(DOMAIN s, DOMAIN s) :
          t = [k \in DOMAIN s |-> s[p[k]]]
  BY DEF Sorted
<1>2. p \in [DOMAIN s -> DOMAIN s]
  BY DEF Bijection, Injection
<1> QED
  BY <1>1, <1>2 DEF Within

(* The entries of other files are what they were.                          *)
LEMMA UpdatingOthers ==
  ASSUME TypeOK, NEW f \in App, Find(f) # 0
  PROVE  /\ DOMAIN Update(Find(f), f) = DOMAIN list
         /\ \A k \in DOMAIN list : k # Find(f) =>
               Update(Find(f), f)[k] = list[k]
         /\ Update(Find(f), f)[Find(f)].id = f
         /\ Update(Find(f), f)[Find(f)].version = Contents(f)
         /\ Update(Find(f), f)[Find(f)].args = TRUE
<1>1. Find(f) \in DOMAIN list /\ list[Find(f)].id = f /\ list \in Seq(Entry)
  BY Findings DEF TypeOK
<1>2. list[Find(f)] \in Entry
  BY <1>1
<1>3. Update(Find(f), f)[Find(f)] =
         [list[Find(f)] EXCEPT !.version = Contents(f), !.args = TRUE]
  BY <1>1 DEF Update
<1>4. /\ DOMAIN Update(Find(f), f) = DOMAIN list
      /\ \A k \in DOMAIN list : k # Find(f) =>
            Update(Find(f), f)[k] = list[k]
  BY DEF Update
<1> QED
  BY <1>1, <1>2, <1>3, <1>4 DEF Entry

(* A step of the launcher's thread that only moves entries about, takes    *)
(* them out or leaves them alone.                                          *)
LEMMA UpMoved ==
  ASSUME TypeOK, UpInv, watching, Within(list', list), Ids(list') = Ids(list),
         UNCHANGED <<disk, version, watching, files, fileChanged, dirChanged,
                     refresh, skipped, slips>>,
         posted = <<>> => posted' = <<>>,
         \A g : /\ Adding(g)' <=> Adding(g)
                /\ Removing(g) => Removing(g)'
                /\ Leaving(g)' => Leaving(g)
  PROVE  UpInv'
<1>1. Due' <=> Due
  BY DEF Due
<1>2. \A g : Right(g) => Right(g)'
  BY RightWithin DEF Within, Right
<1>3. Contented'
  BY <1>1, <1>2 DEF UpInv, Contented, Cared
<1>4. Starting'
  BY DEF Starting
<1>5. Clean'
  <2>1. Alone => Alone'
    BY DEF Alone
  <2>2. \A g : Whole(g) => Whole(g)'
    BY <1>1 DEF Whole, Exists
  <2> QED
    BY <2>1, <2>2 DEF UpInv, Clean
<1> QED
  BY <1>3, <1>4, <1>5 DEF UpInv

(* onFileChanged(): the entry is brought up to date or passed over.        *)
LEMMA UpChanged ==
  ASSUME TypeOK, Linked, UpInv, NEW f \in App, FileChanged(f)
  PROVE  UpInv'
<1>1. /\ UNCHANGED <<disk, version, watching, files, dirChanged, posted,
                     refresh, entries, before, slips>>
      /\ watching /\ f \in fileChanged /\ fileChanged' = fileChanged \ {f}
      /\ IF Find(f) = 1
         THEN skipped' = skipped \cup {f} /\ UNCHANGED list
         ELSE list' = Update(Find(f), f) /\ UNCHANGED skipped
  BY DEF FileChanged, diskVars, threadVars
<1>2. Find(f) \in DOMAIN list /\ list[Find(f)].id = f
  BY <1>1, Findings DEF TypeOK, Linked
<1>3. Find(f) # 0
  BY <1>2 DEF TypeOK
<1>4. \A k \in DOMAIN list : list[k].id = f => k = Find(f)
  BY <1>2 DEF Linked, Distinct
<1>5. /\ DOMAIN list' = DOMAIN list
      /\ \A k \in DOMAIN list : k # Find(f) => list'[k] = list[k]
      /\ list'[Find(f)].id = f
      /\ Find(f) # 1 => /\ list'[Find(f)].version = Contents(f)
                        /\ list'[Find(f)].args = TRUE
  <2>1. CASE Find(f) = 1
    BY <1>1, <1>2, <2>1
  <2>2. CASE Find(f) # 1
    <3>1. list' = Update(Find(f), f)
      BY <1>1, <2>2
    <3> QED
      BY <1>3, <3>1, UpdatingOthers
  <2> QED
    BY <2>1, <2>2
<1>6. Ids(list') = Ids(list)
  BY <1>2, <1>5 DEF Ids
<1>7. \A g : /\ Adding(g)' <=> Adding(g)
             /\ Removing(g)' <=> Removing(g)
             /\ Leaving(g)' <=> Leaving(g)
  BY <1>1, CallsKept
<1>8. Due' <=> Due
  BY <1>1 DEF Due
<1>9. ASSUME NEW g, g \in Ids(list), disk[g] = "shown", g \notin skipped',
             Right(g)
      PROVE  Right(g)'
  <2>1. CASE g # f
    <3>1. \A k \in DOMAIN list' : list'[k].id = g => list'[k] = list[k]
      BY <1>5, <2>1
    <3> QED
      BY <1>1, <1>5, <1>9, <2>1, <3>1 DEF Right
  <2>2. CASE g = f
    <3>1. Find(f) # 1 /\ f \in files
      BY <1>1, <1>9, <2>2 DEF Right
    <3>2. Contents(f) = version[f]
      BY <1>9, <2>2 DEF Contents, Exists
    <3>3. \A k \in DOMAIN list' : list'[k].id = f => k = Find(f)
      BY <1>4, <1>5
    <3> QED
      BY <1>1, <1>5, <2>2, <3>1, <3>2, <3>3 DEF Right
  <2> QED
    BY <2>1, <2>2
<1>10. Contented'
  <2>1. skipped \subseteq skipped'
    BY <1>1
  <2> QED
    BY <1>1, <1>6, <1>7, <1>8, <1>9, <2>1 DEF UpInv, Contented, Cared
<1>11. Starting'
  BY <1>1 DEF Starting
<1>12. Clean'
  <2>1. Alone => Alone'
    BY <1>1 DEF Alone
  <2>2. \A g : Whole(g) => Whole(g)'
    BY <1>1, <1>6, <1>7, <1>8 DEF Whole, Exists
  <2> QED
    BY <1>1, <2>1, <2>2 DEF UpInv, Clean
<1> QED
  BY <1>10, <1>11, <1>12 DEF UpInv

(* addApp(): the entry of f is right from then on.                         *)
LEMMA UpAdded ==
  ASSUME TypeOK, Linked, UpInv, NEW f \in App, AddApp(f)
  PROVE  UpInv'
<1>1. /\ Served(AddCall(f))
      /\ UNCHANGED <<disk, version, watching, dirChanged, refresh, entries,
                     before, slips, fileChanged>>
      /\ watching /\ posted # <<>>
  BY DEF AddApp, AddCall, Served, diskVars, threadVars
<1>2. \A g : AddCall(f) # RemoveCall(g) /\ (g # f => AddCall(f) # AddCall(g))
  BY DEF AddCall, RemoveCall
<1>3. /\ Adding(f)
      /\ \A g : /\ Adding(g)' => Adding(g)
                /\ Adding(g) /\ g # f => Adding(g)'
                /\ Removing(g) => Removing(g)'
                /\ Leaving(g)' => Leaving(g)
  BY <1>1, <1>2, CallServed DEF Adding
<1>4. Due' <=> Due
  BY <1>1 DEF Due
<1>5. Starting'
  BY <1>1 DEF Starting
<1>6. Alone => Alone'
  BY <1>1 DEF Alone
<1>7. CASE disk[f] = "hidden"
  <2>1. UNCHANGED <<list, files, skipped>>
    BY <1>7 DEF AddApp
  <2>2. \A g : Right(g) => Right(g)'
    BY <1>1, <2>1 DEF Right
  <2>3. Contented'
    BY <1>1, <1>3, <1>4, <1>7, <2>1, <2>2 DEF UpInv, Contented, Cared
  <2>4. ASSUME NEW g \in App, Whole(g)
        PROVE  Whole(g)'
    <3>1. g \notin Exists => g # f
      BY <1>7 DEF Exists
    <3> QED
      BY <1>1, <1>3, <1>4, <1>7, <2>1, <2>4, <3>1 DEF Whole, Exists
  <2> QED
    BY <1>1, <1>5, <1>6, <2>3, <2>4 DEF UpInv, Clean
<1>8. CASE disk[f] # "hidden"
  <2> DEFINE e == [id |-> f, version |-> Contents(f), args |-> TRUE]
  <2>1. /\ list' = IF Find(f) # 0 THEN Update(Find(f), f) ELSE Append(list, e)
        /\ files' = files \cup ({f} \cap Exists)
        /\ skipped' = skipped \ {f}
    BY <1>8 DEF AddApp
  <2>2. /\ Ids(list') = Ids(list) \cup {f}
        /\ \A k \in DOMAIN list' : list'[k].id # f =>
              \E j \in DOMAIN list : list'[k] = list[j]
        /\ \A k \in DOMAIN list' : list'[k].id = f =>
              list'[k].version = Contents(f) /\ list'[k].args = TRUE
    <3>1. CASE Find(f) # 0
      <4>1. Find(f) \in DOMAIN list /\ list[Find(f)].id = f
        BY <3>1, Findings DEF TypeOK
      <4>2. \A k \in DOMAIN list : list[k].id = f => k = Find(f)
        BY <4>1 DEF Linked, Distinct
      <4>3. /\ DOMAIN list' = DOMAIN list
            /\ \A k \in DOMAIN list : k # Find(f) => list'[k] = list[k]
            /\ list'[Find(f)].id = f
            /\ list'[Find(f)].version = Contents(f)
            /\ list'[Find(f)].args = TRUE
        BY <2>1, <3>1, UpdatingOthers
      <4>4. Ids(list') = Ids(list) /\ f \in Ids(list)
        BY <4>1, <4>3 DEF Ids
      <4> QED
        BY <4>2, <4>3, <4>4
    <3>2. CASE Find(f) = 0
      <4>1. f \notin Ids(list)
        BY <3>2, Findings DEF TypeOK
      <4>2. list' = Append(list, e) /\ e.id = f /\ e.version = Contents(f)
            /\ e.args = TRUE
        BY <2>1, <3>2
      <4> HIDE DEF e
      <4>3. /\ DOMAIN list' = DOMAIN list \cup {Len(list) + 1}
            /\ \A k \in DOMAIN list : list'[k] = list[k]
            /\ list'[Len(list) + 1] = e
            /\ Len(list) + 1 \notin DOMAIN list
        BY <4>2 DEF TypeOK
      <4>4. Ids(list') = Ids(list) \cup {f}
        BY <4>2, <4>3 DEF Ids
      <4> QED
        BY <4>1, <4>2, <4>3, <4>4 DEF Ids
    <3> QED
      BY <3>1, <3>2
  <2>3. ASSUME NEW g, g # f, Right(g)
        PROVE  Right(g)'
    BY <1>1, <2>1, <2>2, <2>3, RightWithin DEF Right
  <2>4. disk[f] = "shown" => Right(f)'
    <3>1. disk[f] = "shown" => f \in Exists /\ Contents(f) = version[f]
      BY DEF Exists, Contents
    <3> QED
      BY <1>1, <2>1, <2>2, <3>1 DEF Right
  <2>5. Contented'
    <3>1. ASSUME NEW g \in Ids(list'), disk'[g] = "shown", g \notin skipped'
          PROVE  Cared(g)'
      <4>1. CASE g = f
        BY <1>1, <2>4, <3>1, <4>1 DEF Cared
      <4>2. CASE g # f
        <5>1. g \in Ids(list) /\ g \notin skipped /\ disk[g] = "shown"
          BY <1>1, <2>1, <2>2, <3>1, <4>2
        <5>2. Cared(g)
          BY <5>1 DEF UpInv, Contented
        <5> QED
          BY <1>1, <1>3, <1>4, <2>3, <4>2, <5>2 DEF Cared
      <4> QED
        BY <4>1, <4>2
    <3> QED
      BY <3>1 DEF Contented
  <2>6. ASSUME NEW g \in App, Whole(g), Whole(f)
        PROVE  Whole(g)'
    BY <1>1, <1>3, <1>4, <2>2, <2>6 DEF Whole, Exists, Due
  <2> QED
    BY <1>1, <1>5, <1>6, <2>5, <2>6 DEF UpInv, Clean
<1> QED
  BY <1>7, <1>8

(* removeApp(): there is none from then on.                                *)
LEMMA UpRemoved ==
  ASSUME TypeOK, Linked, UpInv, NEW f \in App, RemoveApp(f)
  PROVE  UpInv'
<1>1. /\ Served(RemoveCall(f))
      /\ UNCHANGED <<disk, version, watching, dirChanged, refresh, entries,
                     before, slips>>
      /\ watching /\ posted # <<>>
  BY DEF RemoveApp, RemoveCall, Served, diskVars, threadVars
<1>2. \A g : /\ RemoveCall(f) # AddCall(g)
             /\ g # f => RemoveCall(f) # RemoveCall(g)
  BY DEF AddCall, RemoveCall
<1>3. /\ Leaving(f)
      /\ \A g : /\ Adding(g)' <=> Adding(g)
                /\ Removing(g) /\ g # f => Removing(g)'
                /\ Leaving(g)' => Leaving(g)
  BY <1>1, <1>2, CallServed DEF Leaving
<1>4. Due' <=> Due
  BY <1>1 DEF Due
<1>5. /\ Ids(list') = Ids(list) \ {f} /\ Within(list', list)
      /\ files \ {f} \subseteq files'
      /\ fileChanged \ {f} \subseteq fileChanged'
      /\ skipped \ {f} \subseteq skipped'
  <2>1. CASE Find(f) = 0
    <3>1. f \notin Ids(list)
      BY <2>1, Findings DEF TypeOK
    <3>2. UNCHANGED <<list, files, fileChanged, skipped>>
      BY <2>1 DEF RemoveApp
    <3> QED
      BY <3>1, <3>2 DEF Within
  <2>2. CASE Find(f) # 0
    <3>1. Find(f) \in DOMAIN list /\ list[Find(f)].id = f
      BY <2>2, Findings DEF TypeOK
    <3>2. /\ list' = RemoveAt(list, Find(f)) /\ files' = files \ {f}
          /\ fileChanged' = fileChanged \ {f} /\ skipped' = skipped \ {f}
      BY <2>2 DEF RemoveApp
    <3>3. Within(list', list) /\ Ids(list') \subseteq Ids(list)
      BY <3>1, <3>2, RemovalWithin, WithinIds DEF TypeOK
    <3>4. Ids(list) \ {f} \subseteq Ids(list') /\ f \notin Ids(list')
      BY <3>1, <3>2, RemovalIds DEF TypeOK, Linked
    <3> QED
      BY <3>2, <3>3, <3>4
  <2> QED
    BY <2>1, <2>2
<1>6. Contented'
  <2>1. ASSUME NEW g, g # f, Right(g)
        PROVE  Right(g)'
    BY <1>1, <1>5, <2>1, RightWithin DEF Within, Right
  <2>2. ASSUME NEW g \in Ids(list'), disk'[g] = "shown", g \notin skipped'
        PROVE  Cared(g)'
    <3>1. g # f /\ g \in Ids(list) /\ g \notin skipped /\ disk[g] = "shown"
      BY <1>1, <1>5, <2>2
    <3>2. Cared(g)
      BY <3>1 DEF UpInv, Contented
    <3> QED
      BY <1>1, <1>3, <1>4, <2>1, <3>1, <3>2 DEF Cared
  <2> QED
    BY <2>2 DEF Contented
<1>7. Starting'
  BY <1>1 DEF Starting
<1>8. Clean'
  <2>1. Alone => Alone'
    BY <1>1 DEF Alone
  <2>2. ASSUME NEW g \in App, Whole(g)
        PROVE  Whole(g)'
    BY <1>1, <1>3, <1>4, <1>5, <2>2 DEF Whole, Exists, Due
  <2> QED
    BY <1>1, <2>1, <2>2 DEF UpInv, Clean
<1> QED
  BY <1>6, <1>7, <1>8 DEF UpInv

(* The constructor ends, and the list is saved: what matters is unchanged. *)
LEMMA UpSame ==
  ASSUME UpInv, watching => watching',
         UNCHANGED <<disk, version, list, files, dirChanged, fileChanged,
                     posted, refresh, entries, before, skipped, slips>>
  PROVE  UpInv'
<1>1. \A g : /\ Adding(g)' <=> Adding(g)
             /\ Removing(g)' <=> Removing(g)
             /\ Leaving(g)' <=> Leaving(g)
  BY CallsKept
<1>2. Due' <=> Due
  BY DEF Due
<1>3. \A g : Right(g)' <=> Right(g)
  BY DEF Right
<1>4. Contented'
  BY <1>1, <1>2, <1>3 DEF UpInv, Contented, Cared
<1>5. Starting'
  BY <1>1, <1>2 DEF UpInv, Starting
<1>6. Clean'
  <2>1. Alone => Alone'
    BY DEF Alone
  <2>2. \A g : Whole(g) => Whole(g)'
    BY <1>1, <1>2 DEF Whole, Exists
  <2> QED
    BY <2>1, <2>2 DEF UpInv, Clean
<1> QED
  BY <1>4, <1>5, <1>6 DEF UpInv

(* onRefreshed() at most sorts the list.                                   *)
LEMMA UpRefreshed ==
  ASSUME TypeOK, UpInv, Refreshed
  PROVE  UpInv'
<1> DEFINE c == [type |-> "refreshed"]
<1>1. /\ Served(c) /\ watching /\ posted # <<>>
      /\ UNCHANGED <<disk, version, watching, files, fileChanged, dirChanged,
                     refresh, skipped, slips>>
      /\ list' = list \/ list' \in Sorted(list)
  BY DEF Refreshed, Served, diskVars, threadVars
<1>2. \A g : c # AddCall(g) /\ c # RemoveCall(g)
  <2>1. c.type = "refreshed"
    OBVIOUS
  <2>2. \A g : AddCall(g).type = "add" /\ RemoveCall(g).type = "remove"
    BY DEF AddCall, RemoveCall
  <2> QED
    BY <2>1, <2>2
<1> HIDE DEF c
<1>3. \A g : /\ Adding(g)' <=> Adding(g)
             /\ Removing(g) => Removing(g)'
             /\ Leaving(g)' => Leaving(g)
  BY <1>1, <1>2, CallServed
<1>4. Within(list', list) /\ Ids(list') = Ids(list)
  <2>1. list \in Seq(Entry)
    BY DEF TypeOK
  <2>2. CASE list' = list
    BY <2>2 DEF Within
  <2>3. CASE list' \in Sorted(list)
    BY <2>1, <2>3, Sorting, SortingWithin
  <2> QED
    BY <1>1, <2>2, <2>3
<1> QED
  BY <1>1, <1>3, <1>4, UpMoved

(* The user moves an entry.                                                *)
LEMMA UpMove ==
  ASSUME TypeOK, UpInv, NEW from \in DOMAIN list, NEW to \in DOMAIN list,
         Move(from, to)
  PROVE  UpInv'
<1>1. /\ watching
      /\ list' = InsertAt(RemoveAt(list, from), to, list[from])
      /\ UNCHANGED <<disk, version, watching, files, fileChanged, dirChanged,
                     posted, refresh, entries, before, skipped, slips>>
  BY DEF Move, diskVars, watchVars, threadVars
<1>2. list \in Seq(Entry)
  BY DEF TypeOK
<1>3. Within(list', list)
  BY <1>1, <1>2, MovingWithin
<1>4. Ids(list') = Ids(list)
  BY <1>1, <1>2, <1>3, Moving, WithinIds
<1>5. \A g : /\ Adding(g)' <=> Adding(g)
             /\ Removing(g)' <=> Removing(g)
             /\ Leaving(g)' <=> Leaving(g)
  BY <1>1, CallsKept
<1> QED
  BY <1>1, <1>3, <1>4, <1>5, UpMoved

(* The launcher starts: a refresh is all there is.                         *)
Begins ==
    /\ \E t \in Thread :
          refresh = [x \in Thread |-> IF x = t THEN "queued" ELSE "idle"]
    /\ entries = [x \in Thread |-> {}]
    /\ posted = <<>> /\ files = {} /\ slips = {}

(* What begins so is up to date: the refresh is due.                       *)
LEMMA UpStart == Begins => UpInv
<1> SUFFICES ASSUME Begins
             PROVE  UpInv
  OBVIOUS
<1>1. PICK t \in Thread :
          refresh = [x \in Thread |-> IF x = t THEN "queued" ELSE "idle"]
  BY DEF Begins
<1>2. /\ refresh[t] = "queued" /\ \A u \in Thread \ {t} : refresh[u] = "idle"
      /\ posted = <<>> /\ files = {}
  BY <1>1 DEF Begins
<1>3. Due
  BY <1>2 DEF Due
<1>4. \A g : ~Adding(g) /\ ~Leaving(g)
  BY <1>2 DEF Adding, Leaving, In
<1>5. Contented
  BY <1>3 DEF Contented, Cared
<1>6. Starting
  BY <1>2, <1>3 DEF Starting
<1>7. Alone /\ \A g : Whole(g)
  BY <1>2, <1>3, <1>4 DEF Alone, Whole
<1> QED
  BY <1>5, <1>6, <1>7 DEF UpInv, Clean

(* A restart begins so.                                                    *)
LEMMA UpRestart == Restart => Begins'
BY DEF Restart, Started, Begins

(* Every step keeps the invariant, ...                                     *)
LEMMA NextUp ==
  ASSUME TypeOK, Linked, UpInv, [Next]_vars, Begins' => UpInv'
  PROVE  UpInv'
<1>1. CASE UNCHANGED vars
  BY <1>1, UpSame DEF vars, diskVars, listVars, watchVars, threadVars
<1>2. CASE Watch \/ Save
  BY <1>2, UpSame DEF Watch, Save, diskVars, listVars, watchVars, threadVars
<1>3. CASE Refreshed
  BY <1>3, UpRefreshed
<1>4. CASE Restart
  BY <1>4, UpRestart
<1>5. ASSUME NEW from \in DOMAIN list, NEW to \in DOMAIN list, Move(from, to)
      PROVE  UpInv'
  BY <1>5, UpMove
<1>6. ASSUME NEW f \in App, NEW s \in {"shown", "hidden"}, Install(f, s)
      PROVE  UpInv'
  <2>1. Hear(TRUE, files \cap {f}) /\ files' \subseteq files
    BY <1>6 DEF Install
  <2> QED
    BY <2>1, UpDir
<1>7. ASSUME NEW f \in App, Uninstall(f)
      PROVE  UpInv'
  <2>1. Hear(TRUE, files \cap {f}) /\ files' \subseteq files
    BY <1>7 DEF Uninstall
  <2> QED
    BY <2>1, UpDir
<1>8. ASSUME NEW f \in App, Edit(f)
      PROVE  UpInv'
  BY <1>8, UpEdit
<1>9. ASSUME NEW f \in App, FileChanged(f) \/ AddApp(f) \/ RemoveApp(f)
      PROVE  UpInv'
  BY <1>9, UpChanged, UpAdded, UpRemoved
<1>10. ASSUME NEW t \in Thread,
              TScan(t) \/ TAdd(t) \/ TRead(t) \/ TRemove(t) \/ DirChanged(t)
       PROVE  UpInv'
  BY <1>10, UpScan, UpAdd, UpRead, UpRemove, UpHeard
<1> QED
  BY <1>1, <1>2, <1>3, <1>4, <1>5, <1>6, <1>7, <1>8, <1>9, <1>10 DEF Next

(* ... and with nothing due or on its way only the watcher is left.        *)
LEMMA UpWhenQuiet == TypeOK /\ Linked /\ UpInv => UpToDate
<1> SUFFICES ASSUME TypeOK, Linked, UpInv, Quiet
             PROVE  /\ slips = {} =>
                          /\ \A f \in App :
                                disk[f] = "shown" => f \in Ids(list)
                          /\ Ids(list) \subseteq Exists
                    /\ ~({"deaf", "race"} \subseteq slips) =>
                          \A k \in DOMAIN list :
                             disk[list[k].id] = "shown"
                                /\ list[k].id \notin skipped =>
                             list[k].version = version[list[k].id]
                                /\ list[k].args
  BY DEF UpToDate
<1>1. Settled /\ ~dirChanged /\ fileChanged = {}
  BY DEF Quiet
<1>2. ~Due
  BY <1>1 DEF Due, Settled
<1>3. \A f : ~Adding(f) /\ ~Removing(f)
  BY <1>1, Settlement
<1>4. Ids(list) \subseteq App
  BY IdsTypes DEF TypeOK
<1>5. ASSUME slips = {}
      PROVE  /\ \A f \in App : disk[f] = "shown" => f \in Ids(list)
             /\ Ids(list) \subseteq Exists
  BY <1>2, <1>3, <1>4, <1>5 DEF UpInv, Clean, Whole
<1>6. ASSUME ~({"deaf", "race"} \subseteq slips), NEW k \in DOMAIN list,
             disk[list[k].id] = "shown", list[k].id \notin skipped
      PROVE  list[k].version = version[list[k].id] /\ list[k].args
  <2>1. list[k].id \in Ids(list)
    BY DEF Ids
  <2>2. Cared(list[k].id)
    BY <1>6, <2>1 DEF UpInv, Contented
  <2>3. Right(list[k].id)
    BY <1>2, <1>3, <1>6, <2>2 DEF Cared
  <2> QED
    BY <1>1, <2>3 DEF Right
<1> QED
  BY <1>5, <1>6

(* When all is quiet the list says what is in the directory, but for what  *)
(* has been passed over and what has gone wrong on the way: for every set of*)
(* files, of threads and every number of changes.                          *)
THEOREM UpToDateHolds == Spec => []UpToDate
<1>1. Init => Linked
  BY DEF Init, Linked, Distinct
<1>2. Init => UpInv
  BY UpStart DEF Init, Begins
<1>3. TypeOK /\ Linked /\ UpInv /\ [Next]_vars /\ (Begins' => UpInv') => UpInv'
  BY NextUp
<1>4. (Begins => UpInv)
  BY UpStart
<1> QED
  BY <1>1, <1>2, <1>3, <1>4, NextLinked, UpWhenQuiet, TypesHold, PTL DEF Spec
=============================================================================
