--------------------------- MODULE PositionerProofs ---------------------------
(***************************************************************************)
(* Theorems about the Positioner, with their proofs.                       *)
(***************************************************************************)
EXTENDS Positioner, FiniteSetTheorems, SequenceTheorems, TLAPS

(* The inductive invariant: what OnePlaceEach says, and that only rows of  *)
(* the model have places.                                                  *)
Mapped ==
    /\ rows \in Seq(File)
    /\ DOMAIN s2p \subseteq Row
    /\ OnePlaceEach
-----------------------------------------------------------------------------
(* What Back returns, of any function and of one that is its own inverse.  *)
LEMMA BackFacts ==
  ASSUME NEW f
  PROVE  /\ DOMAIN Back(f) = Range(f)
         /\ Range(Back(f)) \subseteq DOMAIN f
         /\ IsInjective(Back(f))
         /\ IsInjective(f) => Range(Back(f)) = DOMAIN f
         /\ \A y \in Range(f) : f[Back(f)[y]] = y
         /\ IsInjective(f) => \A x \in DOMAIN f : Back(f)[f[x]] = x
<1>1. \A y \in Range(f) : Back(f)[y] \in DOMAIN f /\ f[Back(f)[y]] = y
  BY DEF Back, Range
<1>2. DOMAIN Back(f) = Range(f)
  BY DEF Back
<1>3. Range(Back(f)) \subseteq DOMAIN f
  BY <1>1, <1>2 DEF Range
<1>4. IsInjective(Back(f))
  BY <1>1, <1>2 DEF IsInjective
<1>5. ASSUME IsInjective(f), NEW x \in DOMAIN f
      PROVE  x \in Range(Back(f)) /\ Back(f)[f[x]] = x
  <2>1. f[x] \in Range(f)
    BY DEF Range
  <2>2. Back(f)[f[x]] = x
    BY <1>1, <1>5, <2>1 DEF IsInjective
  <2> QED
    BY <1>2, <2>1, <2>2 DEF Range
<1> QED
  BY <1>1, <1>2, <1>3, <1>4, <1>5

(* Two maps with different rows and different places make one.             *)
LEMMA ExtendInjective ==
  ASSUME NEW f, NEW g, IsInjective(f), IsInjective(g),
         DOMAIN f \cap DOMAIN g = {}, Range(f) \cap Range(g) = {}
  PROVE  /\ IsInjective(Extend(f, g))
         /\ DOMAIN Extend(f, g) = DOMAIN f \cup DOMAIN g
<1> DEFINE e == Extend(f, g)
<1>1. DOMAIN e = DOMAIN f \cup DOMAIN g
  BY DEF Extend
<1>2. /\ \A x \in DOMAIN f : e[x] = f[x] /\ e[x] \in Range(f)
      /\ \A x \in DOMAIN g : e[x] = g[x] /\ e[x] \in Range(g)
  BY DEF Extend, Range
<1>3. ASSUME NEW x \in DOMAIN e, NEW y \in DOMAIN e, e[x] = e[y]
      PROVE  x = y
  <2>1. CASE x \in DOMAIN f /\ y \in DOMAIN f
    BY <1>2, <1>3, <2>1 DEF IsInjective
  <2>2. CASE x \in DOMAIN g /\ y \in DOMAIN g
    BY <1>2, <1>3, <2>2 DEF IsInjective
  <2> QED
    BY <1>1, <1>2, <1>3, <2>1, <2>2
<1> QED
  BY <1>1, <1>3 DEF IsInjective

(* The identity of some rows.                                              *)
LEMMA IdentityFacts ==
  ASSUME NEW n
  PROVE  LET f == [r \in 0 .. n - 1 |-> r]
         IN  IsInjective(f) /\ DOMAIN f = 0 .. n - 1 /\ Back(f) = f
<1> DEFINE f == [r \in 0 .. n - 1 |-> r]
<1>1. IsInjective(f) /\ Range(f) = 0 .. n - 1
  BY DEF IsInjective, Range
<1>2. \A y \in 0 .. n - 1 : (CHOOSE x \in 0 .. n - 1 : f[x] = y) = y
  OBVIOUS
<1>3. Back(f) = [y \in 0 .. n - 1 |-> y]
  BY <1>1, <1>2 DEF Back
<1> QED
  BY <1>1, <1>3

(* The two maps agree when they are set together.                          *)
LEMMA SetMapsAgree ==
  ASSUME NEW f, SetMaps(f)
  PROVE  s2p' = f /\ p2s' = Back(s2p)'
  BY DEF SetMaps, Back, Range
-----------------------------------------------------------------------------
(* A part of a sequence.                                                   *)
LEMMA PartOf ==
  ASSUME NEW s \in Seq(File), NEW i \in 1 .. Len(s) + 1,
         NEW j \in i - 1 .. Len(s)
  PROVE  LET p == SubSeq(s, i, j)
         IN  /\ p \in Seq(File) /\ Len(p) = j - i + 1
             /\ \A x \in 1 .. j - i + 1 : p[x] = s[i + x - 1]
<1>1. \A x \in i .. j : s[x] \in File
  OBVIOUS
<1>2. i \in Int /\ j \in Int
  OBVIOUS
<1> QED
  BY <1>1, <1>2, SubSeqProperties

(* Two sequences, one after the other.                                     *)
LEMMA Joined ==
  ASSUME NEW x \in Seq(File), NEW y \in Seq(File)
  PROVE  /\ x \o y \in Seq(File) /\ Len(x \o y) = Len(x) + Len(y)
         /\ \A i \in 1 .. Len(x) : (x \o y)[i] = x[i]
         /\ \A i \in 1 .. Len(y) : (x \o y)[Len(x) + i] = y[i]
<1> DEFINE m == Len(x)
           n == Len(y)
<1>1. m \in Nat /\ n \in Nat
  OBVIOUS
<1>2. /\ x \o y \in Seq(File) /\ Len(x \o y) = m + n
      /\ \A i \in 1 .. m + n :
            (x \o y)[i] = IF i <= m THEN x[i] ELSE y[i - m]
  BY ConcatProperties
<1> HIDE DEF m, n
<1>3. ASSUME NEW i \in 1 .. n
      PROVE  (x \o y)[m + i] = y[i]
  <2>1. PICK q \in 1 .. m + n : q = m + i /\ ~(q <= m) /\ q - m = i
    BY <1>1
  <2>2. (x \o y)[q] = IF q <= m THEN x[q] ELSE y[q - m]
    BY <1>2
  <2> QED
    BY <2>1, <2>2, Zenon
<1>4. \A i \in 1 .. m : i \in 1 .. m + n /\ i <= m
  BY <1>1
<1>5. \A i \in 1 .. m : (x \o y)[i] = x[i]
  BY <1>2, <1>4
<1> QED
  BY <1>2, <1>3, <1>5 DEF m, n

(* What becomes of the rows when files are inserted, and when some are     *)
(* removed.                                                                *)
LEMMA InsertedRows ==
  ASSUME NEW s \in Seq(File), NEW new \in Seq(File), NEW k \in 0 .. Len(s)
  PROVE  LET t == SubSeq(s, 1, k) \o new \o SubSeq(s, k + 1, Len(s))
             n == Len(new)
         IN  /\ t \in Seq(File) /\ Len(t) = Len(s) + n
             /\ \A r \in 0 .. Len(s) - 1 :
                   t[(IF r >= k THEN r + n ELSE r) + 1] = s[r + 1]
             /\ \A j \in 1 .. n : t[k + j] = new[j]
<1> DEFINE a == SubSeq(s, 1, k)
           b == SubSeq(s, k + 1, Len(s))
           n == Len(new)
<1>0. Len(s) \in Nat /\ n \in Nat /\ k \in Nat
  OBVIOUS
<1>1. /\ a \in Seq(File) /\ Len(a) = k
      /\ \A i \in 1 .. k : a[i] = s[i]
  BY PartOf
<1>2. /\ b \in Seq(File) /\ Len(b) = Len(s) - k
      /\ \A i \in 1 .. Len(s) - k : b[i] = s[k + i]
  BY PartOf
<1> HIDE DEF a, b, n
<1> DEFINE c == a \o new
<1>3. /\ c \in Seq(File) /\ Len(c) = k + n
      /\ \A i \in 1 .. k : c[i] = s[i]
      /\ \A j \in 1 .. n : c[k + j] = new[j]
  BY <1>0, <1>1, Joined DEF n
<1> HIDE DEF c
<1> DEFINE t == c \o b
<1> HIDE DEF t
<1>4. /\ t \in Seq(File) /\ Len(t) = Len(s) + n
      /\ \A i \in 1 .. k + n : t[i] = c[i]
      /\ \A i \in 1 .. Len(s) - k : t[k + n + i] = b[i]
  <2>1. /\ k + n \in Nat /\ Len(s) - k \in Nat
        /\ k + n + (Len(s) - k) = Len(s) + n
    BY <1>0
  <2>2. /\ c \o b \in Seq(File) /\ Len(c \o b) = Len(c) + Len(b)
        /\ \A i \in 1 .. Len(c) : (c \o b)[i] = c[i]
        /\ \A i \in 1 .. Len(b) : (c \o b)[Len(c) + i] = b[i]
    BY <1>2, <1>3, Joined, Zenon
  <2>3. t = c \o b
    BY DEF t
  <2>4. /\ t \in Seq(File) /\ Len(t) = k + n + (Len(s) - k)
        /\ \A i \in 1 .. k + n : t[i] = c[i]
        /\ \A i \in 1 .. Len(s) - k : t[k + n + i] = b[i]
    BY <1>2, <1>3, <2>2, <2>3, Zenon
  <2> QED
    BY <2>1, <2>4
<1>5. ASSUME NEW r \in 0 .. Len(s) - 1
      PROVE  t[(IF r >= k THEN r + n ELSE r) + 1] = s[r + 1]
  <2>1. CASE r >= k
    <3>1. /\ r + n + 1 = k + n + (r + 1 - k)
          /\ r + 1 - k \in 1 .. Len(s) - k /\ k + (r + 1 - k) = r + 1
      BY <1>0, <2>1
    <3>2. t[r + n + 1] = b[r + 1 - k]
      BY <1>4, <3>1
    <3>3. b[r + 1 - k] = s[r + 1]
      BY <1>2, <3>1
    <3> QED
      BY <2>1, <3>2, <3>3
  <2>2. CASE r < k
    <3>1. r + 1 \in 1 .. k + n /\ r + 1 \in 1 .. k /\ ~(r >= k)
      BY <1>0, <2>2
    <3> QED
      BY <1>3, <1>4, <3>1
  <2> QED
    BY <1>0, <2>1, <2>2
<1>6. ASSUME NEW j \in 1 .. n
      PROVE  t[k + j] = new[j]
  <2>1. k + j \in 1 .. k + n
    BY <1>0
  <2> QED
    BY <1>3, <1>4, <2>1
<1> QED
  BY <1>4, <1>5, <1>6 DEF a, b, c, n, t

LEMMA RemovedRows ==
  ASSUME NEW s \in Seq(File), NEW a \in 0 .. Len(s) - 1,
         NEW b \in a .. Len(s) - 1
  PROVE  LET t == SubSeq(s, 1, a) \o SubSeq(s, b + 2, Len(s))
             n == b - a + 1
         IN  /\ t \in Seq(File) /\ Len(t) = Len(s) - n
             /\ \A r \in 0 .. Len(s) - n - 1 :
                   t[r + 1] = s[(IF r >= a THEN r + n ELSE r) + 1]
<1> DEFINE c == SubSeq(s, 1, a)
           d == SubSeq(s, b + 2, Len(s))
           n == b - a + 1
<1>0. Len(s) \in Nat /\ a \in Nat /\ b \in Nat /\ n \in Nat
  OBVIOUS
<1>1. /\ c \in Seq(File) /\ Len(c) = a
      /\ \A i \in 1 .. a : c[i] = s[i]
  BY PartOf
<1>2. /\ d \in Seq(File) /\ Len(d) = Len(s) - b - 1
      /\ \A i \in 1 .. Len(s) - b - 1 : d[i] = s[b + 1 + i]
  BY PartOf
<1> HIDE DEF c, d
<1> DEFINE t == c \o d
<1> HIDE DEF t
<1>3. /\ t \in Seq(File) /\ Len(t) = Len(s) - n
      /\ \A i \in 1 .. a : t[i] = c[i]
      /\ \A i \in 1 .. Len(s) - b - 1 : t[a + i] = d[i]
  <2>1. Len(s) - b - 1 \in Nat /\ a + (Len(s) - b - 1) = Len(s) - n
    BY <1>0
  <2>2. /\ c \o d \in Seq(File) /\ Len(c \o d) = Len(c) + Len(d)
        /\ \A i \in 1 .. Len(c) : (c \o d)[i] = c[i]
        /\ \A i \in 1 .. Len(d) : (c \o d)[Len(c) + i] = d[i]
    BY <1>1, <1>2, Joined, Zenon
  <2>3. t = c \o d
    BY DEF t
  <2>4. /\ t \in Seq(File) /\ Len(t) = a + (Len(s) - b - 1)
        /\ \A i \in 1 .. a : t[i] = c[i]
        /\ \A i \in 1 .. Len(s) - b - 1 : t[a + i] = d[i]
    BY <1>1, <1>2, <2>2, <2>3, Zenon
  <2> QED
    BY <2>1, <2>4
<1>4. ASSUME NEW r \in 0 .. Len(s) - n - 1
      PROVE  t[r + 1] = s[(IF r >= a THEN r + n ELSE r) + 1]
  <2>1. CASE r >= a
    <3>1. /\ r + 1 = a + (r + 1 - a)
          /\ r + 1 - a \in 1 .. Len(s) - b - 1
          /\ b + 1 + (r + 1 - a) = r + n + 1
      BY <1>0, <2>1
    <3>2. t[r + 1] = d[r + 1 - a]
      BY <1>3, <3>1
    <3>3. d[r + 1 - a] = s[r + n + 1]
      BY <1>2, <3>1
    <3> QED
      BY <2>1, <3>2, <3>3
  <2>2. CASE r < a
    <3>1. r + 1 \in 1 .. a /\ ~(r >= a)
      BY <1>0, <2>2
    <3> QED
      BY <1>1, <1>3, <3>1
  <2> QED
    BY <1>0, <2>1, <2>2
<1> QED
  BY <1>3, <1>4 DEF c, d, t
-----------------------------------------------------------------------------
(* What an order of some files is.                                         *)
LEMMA OrderOf ==
  ASSUME NEW S \in SUBSET File, NEW order \in SetToSeqs(S)
  PROVE  order \in Seq(File)
<1>1. Cardinality(S) \in Nat
  BY PositionerAssumption, FS_Subset, FS_CardinalityType
<1>2. order \in [1 .. Cardinality(S) -> S]
  BY DEF SetToSeqs
<1> QED
  BY <1>1, <1>2

(* The order of the rows is as good as any.                                *)
LEMMA IdentityMapped ==
  ASSUME rows' \in Seq(File), InitMaps(Len(rows'))
  PROVE  Mapped' /\ Faithful'
<1> DEFINE f == [r \in 0 .. Len(rows') - 1 |-> r]
<1>1. IsInjective(f) /\ DOMAIN f = 0 .. Len(rows') - 1 /\ Back(f) = f
  BY IdentityFacts
<1>2. s2p' = f /\ p2s' = f
  BY <1>1 DEF InitMaps, SetMaps
<1>3. Row' = 0 .. Len(rows') - 1
  BY DEF Row
<1>4. p2s' = Back(s2p)'
  BY SetMapsAgree DEF InitMaps
<1> HIDE DEF f
<1>5. IsInjective(s2p)' /\ Complete'
  BY <1>1, <1>2, <1>3 DEF IsInjective, Complete
<1>6. Faithful'
  BY <1>2, <1>3 DEF Faithful, f
<1> QED
  BY <1>1, <1>2, <1>3, <1>4, <1>5, <1>6 DEF Mapped, OnePlaceEach

(* Nothing has changed for the maps.                                       *)
LEMMA MappedStays ==
  ASSUME Mapped, UNCHANGED <<rows, maps>>,
         (defer \/ skipped) => (defer' \/ skipped')
  PROVE  Mapped'
  BY DEF Mapped, OnePlaceEach, maps, Complete, Row, Back, Range, IsInjective
-----------------------------------------------------------------------------
(* Places for new rows are theirs alone.                                   *)
LEMMA PlacingsFacts ==
  ASSUME NEW new, NEW taken, NEW Order, NEW g \in Placings(new, taken, Order)
  PROVE  DOMAIN g = new /\ IsInjective(g) /\ Range(g) \cap taken = {}
  BY DEF Placings

(* Maps with a place for each row of new, beside the places f gives.       *)
LEMMA ExtendedMaps ==
  ASSUME NEW f, NEW g, IsInjective(f), IsInjective(g),
         DOMAIN f \cap DOMAIN g = {}, Range(f) \cap Range(g) = {},
         SetMaps(Extend(f, g))
  PROVE  /\ DOMAIN s2p' = DOMAIN f \cup DOMAIN g
         /\ IsInjective(s2p') /\ p2s' = Back(s2p)'
<1>1. /\ IsInjective(Extend(f, g))
      /\ DOMAIN Extend(f, g) = DOMAIN f \cup DOMAIN g
  BY ExtendInjective
<1>2. s2p' = Extend(f, g) /\ p2s' = Back(s2p)'
  BY SetMapsAgree
<1> QED
  BY <1>1, <1>2

(* The step of applyPositions(): all rows get a place.                     *)
LEMMA ApplyMapped ==
  ASSUME Mapped, Apply, UNCHANGED rows
  PROVE  Mapped'
<1>1. CASE status' = "Listing"
  BY <1>1, MappedStays DEF Apply
<1>2. CASE status' # "Listing" /\ positions = {}
  BY <1>2, MappedStays DEF Apply
<1>3. CASE status' # "Listing" /\ positions # {}
  <2>0. PICK h \in Restored :
           LET new == Row \ Range(h)
           IN  \E g \in Placings(new, DOMAIN h, Orders(new)) :
                  SetMaps(Extend(Back(h), g))
    BY <1>3 DEF Apply
  <2>1. PICK g \in Placings(Row \ Range(h), DOMAIN h,
                            Orders(Row \ Range(h))) :
           SetMaps(Extend(Back(h), g))
    BY <2>0
  <2>2. /\ DOMAIN g = Row \ Range(h) /\ IsInjective(g)
        /\ Range(g) \cap DOMAIN h = {}
    BY <2>1, PlacingsFacts
  <2>3. /\ Range(h) \subseteq Row
        /\ DOMAIN Back(h) = Range(h) /\ IsInjective(Back(h))
        /\ Range(Back(h)) \subseteq DOMAIN h
    <3>1. Range(h) \subseteq Row
      BY DEF Restored, Range
    <3> QED
      BY <3>1, BackFacts
  <2>4. /\ DOMAIN s2p' = DOMAIN Back(h) \cup DOMAIN g
        /\ IsInjective(s2p') /\ p2s' = Back(s2p)'
    <3>1. /\ DOMAIN Back(h) \cap DOMAIN g = {}
          /\ Range(Back(h)) \cap Range(g) = {}
      BY <2>2, <2>3
    <3> QED
      BY <2>1, <2>2, <2>3, <3>1, ExtendedMaps
  <2>5. DOMAIN s2p' = Row /\ Row' = Row /\ rows' \in Seq(File)
    BY <2>2, <2>3, <2>4 DEF Row, Mapped
  <2> QED
    BY <2>4, <2>5 DEF Mapped, OnePlaceEach, Complete
<1> QED
  BY <1>1, <1>2, <1>3

(* The step of reset().                                                    *)
LEMMA ResetMapped ==
  ASSUME Mapped, Reset, UNCHANGED <<rows, defer>>
  PROVE  Mapped'
<1>1. CASE positions = {}
  BY <1>1, MappedStays DEF Reset
<1>2. CASE positions # {}
  BY <1>2, IdentityMapped DEF Reset, Mapped
<1> QED
  BY <1>1, <1>2
-----------------------------------------------------------------------------
(* The rows are numbered from 0.                                           *)
LEMMA RowNumbers ==
  ASSUME Mapped
  PROVE  /\ Len(rows) \in Nat /\ Row = 0 .. Len(rows) - 1
         /\ \A r \in DOMAIN s2p : r \in Nat /\ r < Len(rows)
  BY DEF Mapped, Row

(* What becomes of the places when n rows come before row k: their rows    *)
(* have moved, and n rows are left without one.                            *)
LEMMA ShiftedFacts ==
  ASSUME Mapped, NEW k \in 0 .. Len(rows), NEW n \in Nat
  PROVE  LET m == Shifted(k, n)
             Moved(q) == IF q >= k THEN q + n ELSE q
         IN  /\ DOMAIN m = {Moved(q) : q \in DOMAIN s2p}
             /\ \A q \in DOMAIN s2p : m[Moved(q)] = s2p[q]
             /\ IsInjective(m) /\ Range(m) = Range(s2p)
             /\ DOMAIN m \subseteq (0 .. Len(rows) + n - 1) \ (k .. k + n - 1)
             /\ Complete =>
                  DOMAIN m = (0 .. Len(rows) + n - 1) \ (k .. k + n - 1)
<1> DEFINE m == Shifted(k, n)
           Moved(q) == IF q >= k THEN q + n ELSE q
<1>0. /\ Len(rows) \in Nat /\ k \in Nat /\ k <= Len(rows)
      /\ \A r \in DOMAIN s2p : r \in Nat /\ r < Len(rows)
  BY RowNumbers
<1>1. DOMAIN m = {Moved(q) : q \in DOMAIN s2p}
  BY DEF Shifted
<1>2. ASSUME NEW q \in DOMAIN s2p
      PROVE  m[Moved(q)] = s2p[q]
  <2>1. Moved(q) \in DOMAIN m
    BY <1>1
  <2>2. (IF Moved(q) >= k THEN Moved(q) - n ELSE Moved(q)) = q
    BY <1>0
  <2> QED
    BY <2>1, <2>2 DEF Shifted
<1> HIDE DEF m
<1>3. IsInjective(m)
  <2> SUFFICES ASSUME NEW x \in DOMAIN m, NEW y \in DOMAIN m, m[x] = m[y]
               PROVE  x = y
    BY DEF IsInjective
  <2>1. PICK p \in DOMAIN s2p, q \in DOMAIN s2p : x = Moved(p) /\ y = Moved(q)
    BY <1>1
  <2>2. s2p[p] = s2p[q]
    BY <1>2, <2>1
  <2>3. p = q
    BY <2>2 DEF Mapped, OnePlaceEach, IsInjective
  <2> QED
    BY <2>1, <2>3
<1>4. Range(m) = Range(s2p)
  BY <1>1, <1>2 DEF Range
<1>5. DOMAIN m \subseteq (0 .. Len(rows) + n - 1) \ (k .. k + n - 1)
  BY <1>0, <1>1
<1>6. ASSUME Complete, NEW r \in (0 .. Len(rows) + n - 1) \ (k .. k + n - 1)
      PROVE  r \in DOMAIN m
  <2>1. DOMAIN s2p = 0 .. Len(rows) - 1
    BY <1>6 DEF Complete, Row
  <2>2. CASE r < k
    <3>1. r \in DOMAIN s2p /\ Moved(r) = r
      BY <1>0, <2>1, <2>2
    <3> QED
      BY <1>1, <3>1
  <2>3. CASE r >= k
    <3>1. r - n \in DOMAIN s2p /\ Moved(r - n) = r
      BY <1>0, <2>1, <2>3
    <3> QED
      BY <1>1, <3>1
  <2> QED
    BY <1>0, <2>2, <2>3
<1> QED
  BY <1>1, <1>2, <1>3, <1>4, <1>5, <1>6 DEF m

LEMMA RemovedFacts ==
  ASSUME Mapped, NEW a \in Row, NEW b \in Row, a <= b
  PROVE  LET m == Removed(a, b)
             n == b - a + 1
             Moved(q) == IF q > b THEN q - n ELSE q
         IN  /\ DOMAIN m = {Moved(q) : q \in DOMAIN s2p \ (a .. b)}
             /\ \A q \in DOMAIN s2p \ (a .. b) : m[Moved(q)] = s2p[q]
             /\ IsInjective(m)
             /\ DOMAIN m \subseteq 0 .. Len(rows) - n - 1
             /\ Complete => DOMAIN m = 0 .. Len(rows) - n - 1
<1> DEFINE m == Removed(a, b)
           n == b - a + 1
           Moved(q) == IF q > b THEN q - n ELSE q
<1>0. /\ Len(rows) \in Nat /\ a \in Nat /\ b \in Nat /\ b < Len(rows)
      /\ n \in Nat
      /\ \A r \in DOMAIN s2p : r \in Nat /\ r < Len(rows)
  BY RowNumbers
<1>1. DOMAIN m = {Moved(q) : q \in DOMAIN s2p \ (a .. b)}
  BY DEF Removed
<1>2. ASSUME NEW q \in DOMAIN s2p \ (a .. b)
      PROVE  m[Moved(q)] = s2p[q]
  <2>1. Moved(q) \in DOMAIN m
    BY <1>1
  <2>2. (IF Moved(q) >= a THEN Moved(q) + n ELSE Moved(q)) = q
    BY <1>0
  <2> QED
    BY <2>1, <2>2 DEF Removed
<1> HIDE DEF m
<1>3. IsInjective(m)
  <2> SUFFICES ASSUME NEW x \in DOMAIN m, NEW y \in DOMAIN m, m[x] = m[y]
               PROVE  x = y
    BY DEF IsInjective
  <2>1. PICK p \in DOMAIN s2p \ (a .. b), q \in DOMAIN s2p \ (a .. b) :
           x = Moved(p) /\ y = Moved(q)
    BY <1>1
  <2>2. s2p[p] = s2p[q]
    BY <1>2, <2>1
  <2>3. p = q
    BY <2>2 DEF Mapped, OnePlaceEach, IsInjective
  <2> QED
    BY <2>1, <2>3
<1>4. DOMAIN m \subseteq 0 .. Len(rows) - n - 1
  BY <1>0, <1>1
<1>5. ASSUME Complete, NEW r \in 0 .. Len(rows) - n - 1
      PROVE  r \in DOMAIN m
  <2>1. DOMAIN s2p = 0 .. Len(rows) - 1
    BY <1>5 DEF Complete, Row
  <2>2. CASE r < a
    <3>1. r \in DOMAIN s2p \ (a .. b) /\ Moved(r) = r
      BY <1>0, <2>1, <2>2
    <3> QED
      BY <1>1, <3>1
  <2>3. CASE r >= a
    <3>1. r + n \in DOMAIN s2p \ (a .. b) /\ Moved(r + n) = r
      BY <1>0, <2>1, <2>3
    <3> QED
      BY <1>1, <3>1
  <2> QED
    BY <1>0, <2>2, <2>3
<1> QED
  BY <1>1, <1>2, <1>3, <1>4, <1>5 DEF m
-----------------------------------------------------------------------------
(* The invariant is kept when files are inserted, and removed.             *)
LEMMA InsertedMapped ==
  ASSUME Mapped, NEW new \in Seq(File), NEW k \in 0 .. Len(rows),
         RowsInserted(k, new)
  PROVE  Mapped'
<1> DEFINE n == Len(new)
<1>0. Len(rows) \in Nat /\ n \in Nat /\ k \in Nat /\ k <= Len(rows)
  BY RowNumbers
<1>1. rows' \in Seq(File) /\ Len(rows') = Len(rows) + n
  BY InsertedRows DEF RowsInserted, Mapped
<1>2. Row' = 0 .. Len(rows) + n - 1 /\ Row \subseteq Row'
  BY <1>0, <1>1, RowNumbers DEF Row
<1>3. UNCHANGED <<defer, skipped>>
  BY DEF RowsInserted
<1>4. CASE defer
  <2>1. UNCHANGED maps
    BY <1>4 DEF RowsInserted, MapInserted
  <2>2. IsInjective(s2p)' /\ (p2s = Back(s2p))'
    BY <2>1 DEF Mapped, OnePlaceEach, maps, Back, Range, IsInjective
  <2>3. DOMAIN s2p' \subseteq Row'
    BY <1>2, <2>1 DEF Mapped, maps
  <2> QED
    BY <1>1, <1>3, <1>4, <2>2, <2>3 DEF Mapped, OnePlaceEach
<1>5. CASE ~defer /\ DOMAIN p2s = {}
  <2>1. InitMaps(k + n)
    BY <1>5 DEF RowsInserted, MapInserted
  <2> DEFINE f == [r \in 0 .. k + n - 1 |-> r]
  <2>2. s2p' = f /\ p2s' = Back(s2p)'
    BY <2>1, SetMapsAgree DEF InitMaps
  <2>3. IsInjective(f) /\ DOMAIN f = 0 .. k + n - 1
    BY DEF IsInjective
  <2> HIDE DEF f
  <2>4. IsInjective(s2p)' /\ DOMAIN s2p' = 0 .. k + n - 1
    BY <2>2, <2>3
  <2>5. DOMAIN s2p' \subseteq Row'
    BY <1>0, <1>2, <2>4
  <2>6. ASSUME Complete
        PROVE  Complete'
    <3>1. Range(s2p) = {}
      BY <1>5, BackFacts DEF Mapped, OnePlaceEach
    <3>2. Row = {}
      BY <2>6, <3>1 DEF Complete, Range
    <3>3. Len(rows) = 0 /\ k = 0
      <4>1. 0 \notin 0 .. Len(rows) - 1
        BY <3>2, RowNumbers
      <4> QED
        BY <1>0, <4>1
    <3> QED
      BY <1>0, <1>2, <2>4, <3>3 DEF Complete
  <2> QED
    BY <1>1, <1>3, <2>2, <2>4, <2>5, <2>6 DEF Mapped, OnePlaceEach
<1>6. CASE ~defer /\ DOMAIN p2s # {}
  <2> DEFINE order == [j \in 1 .. n |-> k + j - 1]
             m == Shifted(k, n)
  <2>1. PICK g \in Placings(k .. k + n - 1, DOMAIN p2s, {order}) :
           SetMaps(Extend(m, g))
    BY <1>6 DEF RowsInserted, MapInserted
  <2>2. /\ DOMAIN g = k .. k + n - 1 /\ IsInjective(g)
        /\ Range(g) \cap DOMAIN p2s = {}
    BY PlacingsFacts
  <2>3. /\ IsInjective(m) /\ Range(m) = Range(s2p)
        /\ DOMAIN m \subseteq (0 .. Len(rows) + n - 1) \ (k .. k + n - 1)
        /\ Complete =>
             DOMAIN m = (0 .. Len(rows) + n - 1) \ (k .. k + n - 1)
    BY <1>0, ShiftedFacts
  <2> HIDE DEF m
  <2>4. Range(s2p) = DOMAIN p2s
    BY BackFacts DEF Mapped, OnePlaceEach
  <2>5. DOMAIN m \cap DOMAIN g = {} /\ Range(m) \cap Range(g) = {}
    BY <2>2, <2>3, <2>4
  <2>6. /\ DOMAIN s2p' = DOMAIN m \cup DOMAIN g
        /\ IsInjective(s2p') /\ p2s' = Back(s2p)'
    BY <2>1, <2>2, <2>3, <2>5, ExtendedMaps
  <2>7. k .. k + n - 1 \subseteq 0 .. Len(rows) + n - 1
    BY <1>0
  <2>8. DOMAIN s2p' \subseteq Row' /\ (Complete => Complete')
    BY <1>2, <2>2, <2>3, <2>6, <2>7 DEF Complete
  <2> QED
    BY <1>1, <1>3, <2>6, <2>8 DEF Mapped, OnePlaceEach
<1> QED
  BY <1>4, <1>5, <1>6

LEMMA RemovedMapped ==
  ASSUME Mapped, NEW a \in Row, NEW b \in Row, a <= b, RowsRemoved(a, b)
  PROVE  Mapped'
<1> DEFINE n == b - a + 1
           m == Removed(a, b)
<1>0. /\ Len(rows) \in Nat /\ a \in 0 .. Len(rows) - 1
      /\ b \in a .. Len(rows) - 1
  BY RowNumbers
<1>1. rows' \in Seq(File) /\ Len(rows') = Len(rows) - n
  BY <1>0, RemovedRows DEF RowsRemoved, Mapped
<1>2. Row' = 0 .. Len(rows) - n - 1
  BY <1>1 DEF Row
<1>3. /\ IsInjective(m) /\ DOMAIN m \subseteq Row'
      /\ Complete => DOMAIN m = Row'
  BY <1>2, RemovedFacts
<1> HIDE DEF m
<1>4. s2p' = m /\ p2s' = Back(s2p)' /\ UNCHANGED <<defer, skipped>>
  BY SetMapsAgree DEF RowsRemoved, m
<1> QED
  BY <1>1, <1>3, <1>4 DEF Mapped, OnePlaceEach, Complete
-----------------------------------------------------------------------------
LEMMA InitMapped ==
  ASSUME Init
  PROVE  Mapped /\ Faithful
<1>1. rows \in Seq(File)
  BY OrderOf DEF Init
<1> DEFINE f == [r \in 0 .. Len(rows) - 1 |-> r]
<1>2. IsInjective(f) /\ DOMAIN f = 0 .. Len(rows) - 1 /\ Back(f) = f
  BY IdentityFacts
<1>3. s2p = f /\ p2s = f /\ Row = 0 .. Len(rows) - 1
  BY DEF Init, Row
<1>4. Faithful
  BY <1>3 DEF Faithful
<1> HIDE DEF f
<1>5. IsInjective(s2p) /\ p2s = Back(s2p) /\ Complete
  BY <1>2, <1>3 DEF Complete
<1> QED
  BY <1>1, <1>4, <1>5 DEF Mapped, OnePlaceEach, Complete

(* Each step keeps the invariant.                                          *)
LEMMA NextMapped ==
  ASSUME Mapped, [Next]_vars
  PROVE  Mapped'
<1>1. CASE Insertion
  <2>1. PICK S \in SUBSET (File \ Range(rows)) \ {{}} :
           \E new \in SetToSeqs(S), k \in 0 .. Len(rows) :
              RowsInserted(k, new)
    BY <1>1 DEF Insertion
  <2>2. PICK new \in SetToSeqs(S), k \in 0 .. Len(rows) :
           RowsInserted(k, new)
    BY <2>1
  <2>3. new \in Seq(File)
    BY OrderOf
  <2> QED
    BY <2>2, <2>3, InsertedMapped
<1>2. CASE Removal
  BY <1>2, RemovedMapped DEF Removal
<1>3. CASE Sorting
  <2>1. PICK order \in SetToSeqs(Range(rows)) : LayoutChanged(order)
    BY <1>3 DEF Sorting
  <2>2. Range(rows) \in SUBSET File
    BY DEF Mapped, Range
  <2>3. order \in Seq(File)
    BY <2>2, OrderOf
  <2> QED
    BY <2>1, <2>3, IdentityMapped DEF LayoutChanged
<1>4. CASE SetUrl
  <2>1. rows' \in Seq(File) /\ Len(rows') = 0
    BY <1>4 DEF SetUrl
  <2> QED
    BY <1>4, <2>1, IdentityMapped DEF SetUrl
<1>5. CASE ListingStarts
  BY <1>5, MappedStays DEF ListingStarts
<1>6. CASE ListingEnds
  <2>1. CASE defer
    BY <1>6, <2>1, ApplyMapped DEF ListingEnds
  <2>2. CASE ~defer
    BY <1>6, <2>2, MappedStays DEF ListingEnds
  <2> QED
    BY <2>1, <2>2
<1>7. CASE Resizing
  <2>1. PICK n \in Stripe : SetPerStripe(n)
    BY <1>7 DEF Resizing
  <2>2. CASE DOMAIN p2s # {}
    BY <2>1, <2>2, ApplyMapped DEF SetPerStripe
  <2>3. CASE DOMAIN p2s = {}
    BY <2>1, <2>3, MappedStays DEF SetPerStripe
  <2> QED
    BY <2>2, <2>3
<1>8. CASE UpdatePositions
  BY <1>8, MappedStays DEF UpdatePositions
<1>9. CASE CountChanged
  BY <1>9, ResetMapped DEF CountChanged
<1>10. CASE IconSizeChanged
  BY <1>10, ResetMapped DEF IconSizeChanged
<1>11. CASE UNCHANGED vars
  BY <1>11, MappedStays DEF vars, maps
<1> QED
  BY <1>1, <1>2, <1>3, <1>4, <1>5, <1>6, <1>7, <1>8, <1>9, <1>10, <1>11
  DEF Next

(* Whatever the folder goes through, the two maps of positioner.cpp are of *)
(* one mind, no two rows have the same place, and each row has one, but    *)
(* for a deferral and what one has lost.                                   *)
THEOREM OnePlaceEachHolds == Spec => []OnePlaceEach
<1>1. Init => Mapped
  BY InitMapped
<1>2. Mapped /\ [Next]_vars => Mapped'
  BY NextMapped
<1>3. Mapped => OnePlaceEach
  BY DEF Mapped
<1> QED
  BY <1>1, <1>2, <1>3, PTL DEF Spec
-----------------------------------------------------------------------------
(* The step of applyPositions() leaves the maps as they are, or starts the *)
(* timer.                                                                  *)
LEMMA ApplyUndone ==
  ASSUME Undone, Apply, UNCHANGED rows
  PROVE  Undone'
<1>1. CASE status' = "Listing"
  BY <1>1 DEF Apply, Undone
<1>2. CASE status' # "Listing" /\ positions = {}
  BY <1>2 DEF Apply, Undone, Faithful, Row, maps
<1>3. CASE status' # "Listing" /\ positions # {}
  BY <1>3 DEF Apply, Undone
<1> QED
  BY <1>1, <1>2, <1>3

(* The step of reset() makes the maps the rows' order, when there are      *)
(* places to forget.                                                       *)
LEMMA ResetUndone ==
  ASSUME Mapped, Undone, Reset, UNCHANGED <<rows, timer, defer>>
  PROVE  Undone'
<1>1. CASE positions = {}
  BY <1>1 DEF Reset, Undone, Faithful, Row, maps
<1>2. CASE positions # {}
  BY <1>2, IdentityMapped DEF Reset, Undone, Mapped
<1> QED
  BY <1>1, <1>2

(* The timer saves places, unless there are none, and no rows.             *)
LEMMA SavedUndone ==
  ASSUME Mapped, UpdatePositions
  PROVE  Undone'
<1>1. UNCHANGED <<rows, maps, defer, skipped>>
  BY DEF UpdatePositions
<1>2. DOMAIN p2s = Range(s2p) /\ Range(p2s) \subseteq DOMAIN s2p
  BY BackFacts DEF Mapped, OnePlaceEach
<1>3. CASE DOMAIN p2s # {}
  <2>1. Range(p2s) \subseteq Row
    BY <1>2 DEF Mapped
  <2>2. positions' # {}
    BY <1>3, <2>1 DEF UpdatePositions
  <2> QED
    BY <2>2 DEF Undone
<1>4. CASE DOMAIN p2s = {} /\ Complete
  <2>1. DOMAIN s2p = {}
    BY <1>2, <1>4 DEF Range
  <2>2. Row = {}
    BY <1>4, <2>1 DEF Complete
  <2>3. p2s = [y \in {} |-> CHOOSE x \in DOMAIN s2p : s2p[x] = y]
    BY <1>2, <1>4 DEF Mapped, OnePlaceEach, Back
  <2>4. Faithful
    BY <2>2, <2>3 DEF Faithful
  <2> QED
    BY <1>1, <2>4 DEF Undone, Faithful, Row, maps
<1>5. CASE defer \/ skipped
  BY <1>1, <1>5 DEF Undone
<1> QED
  BY <1>3, <1>4, <1>5 DEF Mapped, OnePlaceEach

LEMMA NextUndone ==
  ASSUME Mapped, Undone, [Next]_vars
  PROVE  Undone'
<1>0. rows \in Seq(File)
  BY DEF Mapped
<1>1. CASE Insertion
  <2>1. timer' = (timer \/ ~defer) /\ UNCHANGED defer
    BY <1>1 DEF Insertion, RowsInserted
  <2> QED
    BY <2>1, Zenon DEF Undone
<1>2. CASE Removal
  BY <1>2 DEF Removal, RowsRemoved, SaveLater, Undone
<1>3. CASE Sorting
  <2>1. PICK order \in SetToSeqs(Range(rows)) : LayoutChanged(order)
    BY <1>3 DEF Sorting
  <2>2. order \in Seq(File)
    <3>1. Range(rows) \in SUBSET File
      BY <1>0 DEF Range
    <3> QED
      BY <3>1, OrderOf
  <2> QED
    BY <2>1, <2>2, IdentityMapped DEF LayoutChanged, Undone
<1>4. CASE SetUrl
  <2>1. rows' \in Seq(File) /\ Len(rows') = 0
    BY <1>4 DEF SetUrl
  <2> QED
    BY <1>4, <2>1, IdentityMapped DEF SetUrl, Undone
<1>5. CASE ListingStarts
  BY <1>5 DEF ListingStarts, Undone, Faithful, Row, maps
<1>6. CASE ListingEnds
  <2>1. CASE defer
    BY <1>6, <2>1, ApplyUndone DEF ListingEnds
  <2>2. CASE ~defer
    BY <1>6, <2>2 DEF ListingEnds, Undone, Faithful, Row, maps
  <2> QED
    BY <2>1, <2>2
<1>7. CASE Resizing
  <2>1. PICK n \in Stripe : SetPerStripe(n)
    BY <1>7 DEF Resizing
  <2>2. CASE DOMAIN p2s # {}
    BY <2>1, <2>2, ApplyUndone DEF SetPerStripe
  <2>3. CASE DOMAIN p2s = {}
    BY <2>1, <2>3 DEF SetPerStripe, Undone, Faithful, Row, maps
  <2> QED
    BY <2>2, <2>3
<1>8. CASE UpdatePositions
  BY <1>8, SavedUndone
<1>9. CASE CountChanged
  BY <1>9, ResetUndone DEF CountChanged
<1>10. CASE IconSizeChanged
  BY <1>10, ResetUndone DEF IconSizeChanged
<1>11. CASE UNCHANGED vars
  BY <1>11 DEF vars, Undone, Faithful, Row, maps
<1> QED
  BY <1>1, <1>2, <1>3, <1>4, <1>5, <1>6, <1>7, <1>8, <1>9, <1>10, <1>11
  DEF Next

(* A grid whose places are not the rows' order, so that a drop on an item  *)
(* may go to another (FolderGridView.qml), has places saved for reset() to *)
(* forget, or will save them, or waits for the end of a listing, or has    *)
(* come out of one without places.                                         *)
THEOREM UndoneHolds == Spec => []Undone
<1>1. Init => Mapped /\ Undone
  BY InitMapped DEF Undone
<1>2. Mapped /\ Undone /\ [Next]_vars => (Mapped /\ Undone)'
  BY NextMapped, NextUndone
<1> QED
  BY <1>1, <1>2, PTL DEF Spec
-----------------------------------------------------------------------------
(* No file is in the model twice.                                          *)
Distinct == IsInjective(rows)

(* No file is twice in an order of some.                                   *)
LEMMA OrderDistinct ==
  ASSUME NEW S \in SUBSET File, NEW order \in SetToSeqs(S)
  PROVE  IsInjective(order) /\ Range(order) \subseteq S
<1>1. order \in [1 .. Cardinality(S) -> S]
  BY DEF SetToSeqs
<1>2. \A i, j \in 1 .. Cardinality(S) : i # j => order[i] # order[j]
  BY DEF SetToSeqs
<1> QED
  BY <1>1, <1>2 DEF IsInjective, Range

LEMMA InsertedDistinct ==
  ASSUME Mapped, Distinct, NEW new \in Seq(File), NEW k \in 0 .. Len(rows),
         IsInjective(new), Range(new) \cap Range(rows) = {},
         RowsInserted(k, new)
  PROVE  Distinct'
<1> DEFINE n == Len(new)
           Moved(q) == IF q >= k THEN q + n ELSE q
<1>0. Len(rows) \in Nat /\ n \in Nat /\ k \in Nat /\ k <= Len(rows)
  BY RowNumbers
<1>1. /\ rows' \in Seq(File) /\ Len(rows') = Len(rows) + n
      /\ \A r \in 0 .. Len(rows) - 1 : rows'[Moved(r) + 1] = rows[r + 1]
      /\ \A j \in 1 .. n : rows'[k + j] = new[j]
  BY InsertedRows DEF RowsInserted, Mapped
<1>2. ASSUME NEW i \in DOMAIN rows'
      PROVE  \/ \E r \in 0 .. Len(rows) - 1 : i = Moved(r) + 1
             \/ \E j \in 1 .. n : i = k + j
  <2>1. i \in 1 .. Len(rows) + n
    BY <1>1
  <2>2. CASE i <= k
    <3>1. i - 1 \in 0 .. Len(rows) - 1 /\ i = Moved(i - 1) + 1
      BY <1>0, <2>1, <2>2
    <3> QED
      BY <3>1
  <2>3. CASE i > k /\ i <= k + n
    <3>1. i - k \in 1 .. n /\ i = k + (i - k)
      BY <1>0, <2>1, <2>3
    <3> QED
      BY <3>1
  <2>4. CASE i > k + n
    <3>1. i - n - 1 \in 0 .. Len(rows) - 1 /\ i = Moved(i - n - 1) + 1
      BY <1>0, <2>1, <2>4
    <3> QED
      BY <3>1
  <2> QED
    BY <1>0, <2>1, <2>2, <2>3, <2>4
<1>3. \A r \in 0 .. Len(rows) - 1 : r + 1 \in DOMAIN rows
  BY DEF Mapped
<1>4. \A j \in 1 .. n : j \in DOMAIN new
  OBVIOUS
<1> SUFFICES ASSUME NEW x \in DOMAIN rows', NEW y \in DOMAIN rows',
                    rows'[x] = rows'[y]
             PROVE  x = y
  BY DEF Distinct, IsInjective
<1>5. CASE /\ \E r \in 0 .. Len(rows) - 1 : x = Moved(r) + 1
           /\ \E q \in 0 .. Len(rows) - 1 : y = Moved(q) + 1
  <2>1. PICK r \in 0 .. Len(rows) - 1, q \in 0 .. Len(rows) - 1 :
           x = Moved(r) + 1 /\ y = Moved(q) + 1
    BY <1>5
  <2>2. r + 1 = q + 1
    BY <1>1, <1>3, <2>1 DEF Distinct, IsInjective
  <2>3. r = q
    BY <2>2
  <2> QED
    BY <2>1, <2>3
<1>6. CASE /\ \E i \in 1 .. n : x = k + i
           /\ \E j \in 1 .. n : y = k + j
  <2>1. PICK i \in 1 .. n, j \in 1 .. n : x = k + i /\ y = k + j
    BY <1>6
  <2>2. new[i] = new[j]
    BY <1>1, <2>1
  <2>3. i = j
    BY <1>4, <2>2 DEF IsInjective
  <2> QED
    BY <2>1, <2>3
<1>7. ASSUME NEW r \in 0 .. Len(rows) - 1, NEW j \in 1 .. n
      PROVE  rows'[Moved(r) + 1] # rows'[k + j]
  <2>1. rows'[Moved(r) + 1] \in Range(rows)
    <3>1. rows[r + 1] \in Range(rows)
      BY <1>3 DEF Range
    <3> QED
      BY <1>1, <3>1
  <2>2. rows'[k + j] \in Range(new)
    <3>1. new[j] \in Range(new)
      BY <1>4 DEF Range
    <3> QED
      BY <1>1, <3>1
  <2> QED
    BY <2>1, <2>2
<1> QED
  BY <1>2, <1>5, <1>6, <1>7
LEMMA RemovedDistinct ==
  ASSUME Mapped, Distinct, NEW a \in Row, NEW b \in Row, a <= b,
         RowsRemoved(a, b)
  PROVE  Distinct'
<1> DEFINE n == b - a + 1
           From(r) == IF r >= a THEN r + n ELSE r
<1>0. /\ Len(rows) \in Nat /\ a \in 0 .. Len(rows) - 1
      /\ b \in a .. Len(rows) - 1
  BY RowNumbers
<1>1. /\ rows' \in Seq(File) /\ Len(rows') = Len(rows) - n
      /\ \A r \in 0 .. Len(rows) - n - 1 : rows'[r + 1] = rows[From(r) + 1]
  BY <1>0, RemovedRows DEF RowsRemoved, Mapped
<1>2. ASSUME NEW x \in DOMAIN rows'
      PROVE  /\ x \in Nat /\ From(x - 1) + 1 \in DOMAIN rows
             /\ rows'[x] = rows[From(x - 1) + 1]
  <2>1. x \in 1 .. Len(rows) - n
    BY <1>1
  <2>2. x - 1 \in 0 .. Len(rows) - n - 1 /\ x - 1 + 1 = x
    BY <1>0, <2>1
  <2>3. From(x - 1) + 1 \in 1 .. Len(rows)
    BY <1>0, <2>2
  <2> QED
    BY <1>1, <2>1, <2>2, <2>3 DEF Mapped
<1> SUFFICES ASSUME NEW x \in DOMAIN rows', NEW y \in DOMAIN rows',
                    rows'[x] = rows'[y]
             PROVE  x = y
  BY DEF Distinct, IsInjective
<1>3. From(x - 1) + 1 = From(y - 1) + 1
  <2> HIDE DEF From
  <2> QED
    BY <1>2 DEF Distinct, IsInjective
<1>4. n \in Nat /\ a \in Nat /\ x \in Nat /\ y \in Nat
  BY <1>0, <1>2
<1> QED
  BY <1>3, <1>4

(* Either map takes what the other gives back.                             *)
LEMMA ThereAndBack ==
  ASSUME NEW f, IsInjective(f)
  PROVE  /\ \A x \in DOMAIN f : f[x] \in DOMAIN Back(f) /\ Back(f)[f[x]] = x
         /\ \A y \in DOMAIN Back(f) : /\ Back(f)[y] \in DOMAIN f
                                     /\ f[Back(f)[y]] = y
<1>1. DOMAIN Back(f) = Range(f) /\ Range(Back(f)) \subseteq DOMAIN f
  BY BackFacts
<1>2. ASSUME NEW x \in DOMAIN f
      PROVE  f[x] \in Range(f)
  BY DEF Range
<1>3. ASSUME NEW y \in DOMAIN Back(f)
      PROVE  Back(f)[y] \in Range(Back(f))
  BY DEF Range
<1> QED
  BY <1>1, <1>2, <1>3, BackFacts

LEMMA NextDistinct ==
  ASSUME Mapped, Distinct, [Next]_vars
  PROVE  Distinct'
<1>1. CASE Insertion
  <2>1. PICK S \in SUBSET (File \ Range(rows)) \ {{}} :
           \E new \in SetToSeqs(S), k \in 0 .. Len(rows) :
              RowsInserted(k, new)
    BY <1>1 DEF Insertion
  <2>2. PICK new \in SetToSeqs(S), k \in 0 .. Len(rows) :
           RowsInserted(k, new)
    BY <2>1
  <2>3. /\ new \in Seq(File) /\ IsInjective(new)
        /\ Range(new) \cap Range(rows) = {}
    BY OrderOf, OrderDistinct
  <2> QED
    BY <2>2, <2>3, InsertedDistinct
<1>2. CASE Removal
  BY <1>2, RemovedDistinct DEF Removal
<1>3. CASE Sorting
  <2>1. PICK order \in SetToSeqs(Range(rows)) : LayoutChanged(order)
    BY <1>3 DEF Sorting
  <2>2. Range(rows) \in SUBSET File
    BY DEF Mapped, Range
  <2>3. IsInjective(order)
    BY <2>2, OrderDistinct
  <2> QED
    BY <2>1, <2>3 DEF LayoutChanged, Distinct
<1>4. CASE SetUrl
  BY <1>4 DEF SetUrl, Distinct, IsInjective
<1>5. CASE UNCHANGED rows
  BY <1>5 DEF Distinct
<1> QED
  BY <1>1, <1>2, <1>3, <1>4, <1>5
  DEF Next, vars, ListingStarts, ListingEnds, Resizing, SetPerStripe,
      UpdatePositions, CountChanged, IconSizeChanged

(* A file that is not removed keeps its place when others are inserted ... *)
LEMMA InsertedKept ==
  ASSUME Mapped, Mapped', NEW new \in Seq(File), NEW k \in 0 .. Len(rows),
         RowsInserted(k, new), ~defer,
         NEW p \in DOMAIN p2s, NEW f, HasPlace(p, f)
  PROVE  HasPlace(p, f)'
<1> DEFINE n == Len(new)
           m == Shifted(k, n)
           r == p2s[p]
           q == IF r >= k THEN r + n ELSE r
           order == [j \in 1 .. n |-> k + j - 1]
<1>0. Len(rows) \in Nat /\ n \in Nat /\ k \in Nat
  BY RowNumbers
<1>1. r \in DOMAIN s2p /\ s2p[r] = p
  BY ThereAndBack DEF Mapped, OnePlaceEach
<1> HIDE DEF r
<1>2. /\ r \in 0 .. Len(rows) - 1 /\ q \in Nat
      /\ q \notin k .. k + n - 1
  BY <1>0, <1>1, RowNumbers
<1>3. rows'[q + 1] = f
  <2>1. rows[r + 1] = f
    BY DEF HasPlace, FileAt, r
  <2>2. rows' = SubSeq(rows, 1, k) \o new \o SubSeq(rows, k + 1, Len(rows))
    BY DEF RowsInserted
  <2>3. \A i \in 0 .. Len(rows) - 1 :
           rows'[(IF i >= k THEN i + n ELSE i) + 1] = rows[i + 1]
    BY <2>2, InsertedRows DEF Mapped
  <2> QED
    BY <1>2, <2>1, <2>3
<1>4. PICK g \in Placings(k .. k + n - 1, DOMAIN p2s, {order}) :
         SetMaps(Extend(m, g))
  BY DEF RowsInserted, MapInserted
<1>5. DOMAIN g = k .. k + n - 1
  BY PlacingsFacts
<1>6. q \in DOMAIN m /\ m[q] = p
  <2>1. /\ DOMAIN m = {IF i >= k THEN i + n ELSE i : i \in DOMAIN s2p}
        /\ m[q] = s2p[r]
    BY <1>0, <1>1, ShiftedFacts
  <2> QED
    BY <1>1, <2>1
<1>7. q \in DOMAIN s2p' /\ s2p'[q] = p
  BY <1>2, <1>4, <1>5, <1>6 DEF SetMaps, Extend
<1>8. p \in DOMAIN p2s' /\ p2s'[p] = q
  <2>1. IsInjective(s2p') /\ p2s' = Back(s2p')
    BY <1>4 DEF Mapped, OnePlaceEach, SetMaps, IsInjective
  <2> QED
    BY <1>7, <2>1, ThereAndBack
<1> QED
  BY <1>3, <1>8 DEF HasPlace, FileAt

(* ... and when others are removed.                                        *)
LEMMA RemovedPlaces ==
  ASSUME Mapped, Mapped', Distinct, NEW a \in Row, NEW b \in Row, a <= b,
         RowsRemoved(a, b),
         NEW p \in DOMAIN p2s, NEW f \in Range(rows'), HasPlace(p, f)
  PROVE  HasPlace(p, f)'
<1> DEFINE n == b - a + 1
           m == Removed(a, b)
           r == p2s[p]
           q == IF r > b THEN r - n ELSE r
<1>0. /\ Len(rows) \in Nat /\ a \in 0 .. Len(rows) - 1
      /\ b \in a .. Len(rows) - 1
  BY RowNumbers
<1>1. r \in DOMAIN s2p /\ s2p[r] = p /\ r \in 0 .. Len(rows) - 1
  <2>1. r \in DOMAIN s2p /\ s2p[r] = p
    BY ThereAndBack DEF Mapped, OnePlaceEach
  <2> QED
    BY <2>1, RowNumbers
<1>2. /\ rows' \in Seq(File) /\ Len(rows') = Len(rows) - n
      /\ \A i \in 0 .. Len(rows) - n - 1 :
            rows'[i + 1] = rows[(IF i >= a THEN i + n ELSE i) + 1]
  BY <1>0, RemovedRows DEF RowsRemoved, Mapped
<1>3. r \notin a .. b
  <2>1. PICK x \in DOMAIN rows' : rows'[x] = f
    BY DEF Range
  <2>2. x \in 1 .. Len(rows) - n
    BY <1>2
  <2> DEFINE i == x - 1
             j == IF i >= a THEN i + n ELSE i
  <2>3. i \in 0 .. Len(rows) - n - 1 /\ x = i + 1
    BY <1>0, <2>2
  <2>4. rows[j + 1] = rows[r + 1]
    BY <1>2, <2>1, <2>3 DEF HasPlace, FileAt
  <2>5. j + 1 \in DOMAIN rows /\ r + 1 \in DOMAIN rows
    BY <1>0, <1>1, <2>3 DEF Mapped
  <2>6. j + 1 = r + 1
    <3> HIDE DEF j, r
    <3> QED
      BY <2>4, <2>5 DEF Distinct, IsInjective
  <2> QED
    BY <1>0, <1>1, <2>3, <2>6
<1>4. /\ q \in 0 .. Len(rows) - n - 1
      /\ (IF q >= a THEN q + n ELSE q) = r
  BY <1>0, <1>1, <1>3
<1>5. rows'[q + 1] = f
  BY <1>2, <1>4 DEF HasPlace, FileAt
<1>6. q \in DOMAIN m /\ m[q] = p
  <2>1. /\ DOMAIN m = {IF i > b THEN i - n ELSE i :
                         i \in DOMAIN s2p \ (a .. b)}
        /\ \A i \in DOMAIN s2p \ (a .. b) :
              m[IF i > b THEN i - n ELSE i] = s2p[i]
    BY RemovedFacts
  <2> QED
    BY <1>1, <1>3, <2>1
<1>7. s2p' = m
  BY DEF RowsRemoved, SetMaps
<1>8. p \in DOMAIN p2s' /\ p2s'[p] = q
  <2>1. IsInjective(s2p') /\ p2s' = Back(s2p')
    BY <1>7 DEF RowsRemoved, Mapped, OnePlaceEach, SetMaps, IsInjective
  <2> HIDE DEF m
  <2> QED
    BY <1>6, <1>7, <2>1, ThereAndBack
<1> QED
  BY <1>5, <1>8 DEF HasPlace, FileAt

(* A file keeps its place in the grid while others come and go, but for    *)
(* what is inserted during a deferral.                                     *)
THEOREM PlacesKeptHolds == Spec => PlacesKept
<1> DEFINE Kept == (Insertion \/ Removal) /\ ~defer =>
              \A p \in DOMAIN p2s, f \in Range(rows) \cap Range(rows') :
                 HasPlace(p, f) => HasPlace(p, f)'
<1>1. Init => Mapped /\ Distinct
  BY InitMapped, OrderDistinct DEF Init, Distinct
<1>2. Mapped /\ Distinct /\ [Next]_vars => (Mapped /\ Distinct)'
  BY NextMapped, NextDistinct
<1>3. Mapped /\ Distinct /\ [Next]_vars => [Kept]_vars
  <2> SUFFICES ASSUME Mapped, Distinct, [Next]_vars, ~defer,
                      Insertion \/ Removal,
                      NEW p \in DOMAIN p2s, NEW f \in Range(rows'),
                      HasPlace(p, f)
               PROVE  HasPlace(p, f)'
    OBVIOUS
  <2>1. Mapped'
    BY NextMapped
  <2>2. CASE Insertion
    <3>1. PICK S \in SUBSET (File \ Range(rows)) \ {{}} :
             \E new \in SetToSeqs(S), k \in 0 .. Len(rows) :
                RowsInserted(k, new)
      BY <2>2 DEF Insertion
    <3>2. PICK new \in SetToSeqs(S), k \in 0 .. Len(rows) :
             RowsInserted(k, new)
      BY <3>1
    <3>3. new \in Seq(File)
      BY OrderOf
    <3> QED
      BY <2>1, <3>2, <3>3, InsertedKept
  <2>3. CASE Removal
    BY <2>1, <2>3, RemovedPlaces DEF Removal
  <2> QED
    BY <2>2, <2>3
<1> QED
  BY <1>1, <1>2, <1>3, PTL DEF Spec, PlacesKept
=============================================================================
