------------------------ MODULE ApplicationModelProofs ------------------------
(***************************************************************************)
(* The dock's list, for every set of windows, classes and desktop files:   *)
(* TypeOK, AllFiled, IdsDistinct, Survives and NoGhost.                    *)
(*                                                                         *)
(* One invariant for each kind: FiledInv (windows are found), SoundInv (no *)
(* two items of one application, and the file numbers the pinned ones) and *)
(* GhostInv (each window once).                                            *)
(***************************************************************************)
EXTENDS ApplicationModelFacts

(* What was saved before the first start: every pinned item once.          *)
LEMMA FirstFile ==
  ASSUME NEW s \in SetToAllKPermutations(Desktop)
  PROVE  /\ s \in Seq(Desktop)
         /\ \A i, j \in DOMAIN s : s[i] = s[j] => i = j
         /\ [k \in DOMAIN s |-> NewPin(s[k])] \in Seq(ItemType)
<1>1. PICK S \in SUBSET Desktop : s \in SetToSeqs(S)
  BY DEF SetToAllKPermutations
<1>2. Cardinality(S) \in Nat
  BY DockAssumption, FS_Subset, FS_CardinalityType
<1>3. /\ s \in [1 .. Cardinality(S) -> S]
      /\ \A i, j \in 1 .. Cardinality(S) : s[i] = s[j] => i = j
  BY <1>1 DEF SetToSeqs, IsInjective
<1>4. s \in Seq(Desktop) /\ DOMAIN s = 1 .. Cardinality(S)
  BY <1>2, <1>3
<1>5. ASSUME NEW k \in 1 .. Cardinality(S)
      PROVE  NewPin(s[k]) \in ItemType
  BY <1>3, NewPinType
<1> HIDE DEF ItemType
<1>6. [k \in DOMAIN s |-> NewPin(s[k])] \in Seq(ItemType)
  BY <1>2, <1>4, <1>5
<1> QED
  BY <1>3, <1>4, <1>6

(* Before the first start everything has its type ...                      *)
LEMMA InitTypes == Init => TypeOK
<1> SUFFICES ASSUME Init
             PROVE  TypeOK
  OBVIOUS
<1>1. /\ kept \in Seq(Desktop)
      /\ saved = Groups([k \in DOMAIN kept |-> NewPin(kept[k])])
      /\ [k \in DOMAIN kept |-> NewPin(kept[k])] \in Seq(ItemType)
  BY FirstFile DEF Init
<1>2. saved \in [Class -> Group]
  BY <1>1, Grouping
<1>3. kept \in Seq(DesktopOrNone)
  BY <1>1 DEF DesktopOrNone
<1>4. <<>> \in Seq(ItemType) /\ <<>> \in Seq(Window)
  OBVIOUS
<1> QED
  BY <1>2, <1>3, <1>4 DEF Init, TypeOK

(* ... and every step keeps it.                                            *)
LEMMA NextTypes == TypeOK /\ [Next]_vars => TypeOK'
<1> SUFFICES ASSUME TypeOK, [Next]_vars
             PROVE  TypeOK'
  OBVIOUS
<1>1. /\ items \in Seq(ItemType) /\ path \in [Window -> DesktopOrNone]
      /\ open \in Seq(Window) /\ installed \in SUBSET Desktop
      /\ saved \in [Class -> Group] /\ kept \in Seq(DesktopOrNone)
  BY DEF TypeOK
<1>2. Now \in States
  BY <1>1 DEF Now, States
<1>3. ASSUME NEW st \in States, Put(st)
      PROVE  /\ items' \in Seq(ItemType) /\ saved' \in [Class -> Group]
             /\ kept' \in Seq(DesktopOrNone)
  BY <1>3 DEF Put, States
<1>4. ASSUME NEW its \in Seq(ItemType), Store(its) \/ Change(its)
      PROVE  /\ items' \in Seq(ItemType) /\ saved' \in [Class -> Group]
             /\ kept' \in Seq(DesktopOrNone)
  <2>1. /\ Groups(its) \in [Class -> Group]
        /\ Paths(Pinned(its)) \in Seq(DesktopOrNone)
    BY Grouping
  <2> QED
    BY <1>1, <1>4, <2>1 DEF Store, Change
<1>5. ASSUME NEW its \in Seq(ItemType), Store(its) \/ Change(its), User
      PROVE  TypeOK'
  BY <1>4, <1>5 DEF TypeOK, User, Event
<1>6. CASE UNCHANGED vars
  BY <1>6 DEF vars, TypeOK
<1>7. ASSUME NEW w \in Window, WOpen(w)
      PROVE  TypeOK'
  <2>1. Step(Now, w) \in States
    BY <1>1, <1>2, StepTypes
  <2>2. Put(Now) \/ Put(Step(Now, w))
    BY <1>7 DEF WOpen
  <2>3. /\ items' \in Seq(ItemType) /\ saved' \in [Class -> Group]
        /\ kept' \in Seq(DesktopOrNone)
    BY <1>2, <1>3, <2>1, <2>2
  <2>4. open' \in Seq(Window) /\ noticed' \subseteq Window
    BY <1>7 DEF WOpen, TypeOK
  <2> QED
    BY <1>7, <2>3, <2>4 DEF WOpen, TypeOK
<1>8. ASSUME NEW w \in Window, WClose(w)
      PROVE  TypeOK'
  <2>1. WithoutWindow(items, w) \in Seq(ItemType)
    BY <1>1, Taking
  <2>2. /\ items' \in Seq(ItemType) /\ saved' \in [Class -> Group]
        /\ kept' \in Seq(DesktopOrNone)
    BY <1>4, <1>8, <2>1 DEF WClose
  <2>3. open' \in Seq(Window)
    BY <1>1, <1>8, OnlyDrawn DEF WClose
  <2> QED
    BY <1>8, <2>2, <2>3 DEF WClose, TypeOK
<1>9. ASSUME NEW j \in DOMAIN items, Clicked(j) \/ Pin(j) \/ Unpin(j)
      PROVE  TypeOK'
  <2>1. At(j) \in DOMAIN items
    BY <1>1, AtFacts
  <2>2. NextOf(items[At(j)]) \in Nat
    <3>1. items[At(j)].current \in Nat
      <4>1. items[At(j)] \in ItemType
        BY <1>1, <2>1
      <4> QED
        BY <4>1 DEF ItemType
    <3> QED
      BY <3>1 DEF NextOf
  <2>3. /\ [items EXCEPT ![At(j)].pinned = TRUE] \in Seq(ItemType)
        /\ [items EXCEPT ![At(j)].current = NextOf(items[At(j)])]
              \in Seq(ItemType)
    BY <1>1, <2>1, <2>2, Setting
  <2>4. Unpinned(items, At(j)) \in Seq(ItemType)
    BY <1>1, <2>1, Unpinning
  <2> QED
    BY <1>5, <1>9, <2>3, <2>4 DEF Clicked, Pin, Unpin
<1>10. ASSUME NEW d \in Desktop, AddItem(d)
       PROVE  TypeOK'
  <2>1. CASE ByDesktop(items, d) # 0
    <3>1. ByDesktop(items, d) \in DOMAIN items
      BY <1>1, <2>1, ByDesktopFacts
    <3>2. [items EXCEPT ![ByDesktop(items, d)].pinned = TRUE] \in Seq(ItemType)
      BY <1>1, <3>1, Setting, 0 \in Nat
    <3> QED
      BY <1>5, <1>10, <2>1, <3>2 DEF AddItem
  <2>2. CASE ByDesktop(items, d) = 0
    <3>1. Append(items, NewPin(d)) \in Seq(ItemType)
      BY <1>1, NewPinType, Adding
    <3> QED
      BY <1>5, <1>10, <2>2, <3>1 DEF AddItem
  <2> QED
    BY <2>1, <2>2
<1>11. ASSUME NEW d \in Desktop, RemoveItem(d)
       PROVE  TypeOK'
  <2>1. ByDesktop(items, d) \in DOMAIN items
    BY <1>1, <1>11, ByDesktopFacts DEF RemoveItem
  <2>2. Unpinned(items, At(ByDesktop(items, d))) \in Seq(ItemType)
    BY <1>1, <2>1, AtFacts, Unpinning
  <2> QED
    BY <1>5, <1>11, <2>2 DEF RemoveItem
<1>12. ASSUME NEW d \in Desktop, Install(d)
       PROVE  TypeOK'
  BY <1>12 DEF Install, TypeOK, Event
<1>13. ASSUME NEW from \in DOMAIN items, NEW to \in DOMAIN items,
              Move(from, to)
       PROVE  TypeOK'
  <2>1. InsertAt(RemoveAt(items, from), to, items[from]) \in Seq(ItemType)
    BY <1>1, MovingDrawn
  <2> QED
    BY <1>5, <1>13, <2>1 DEF Move
<1>14. CASE Drop
  BY <1>1, <1>5, <1>14 DEF Drop
<1>15. CASE Startup
  <2>1. After(Now, open) \in States
    BY <1>1, <1>2, AfterTypes
  <2>2. /\ items' \in Seq(ItemType) /\ saved' \in [Class -> Group]
        /\ kept' \in Seq(DesktopOrNone)
    BY <1>3, <1>15, <2>1 DEF Startup, Announced
  <2>3. ToSet(open) \subseteq Window
    BY <1>1 DEF ToSet
  <2> QED
    BY <1>15, <2>2, <2>3 DEF Startup, Announced, TypeOK
<1>16. CASE DEnd
  <2>1. <<>> \in Seq(ItemType)
    OBVIOUS
  <2> QED
    BY <1>16, <2>1 DEF DEnd, TypeOK, Event
<1>17. CASE DStart
  <2>1. Load(saved, installed) \in Seq(ItemType)
    BY <1>1, Loading
  <2> QED
    BY <1>17, <2>1 DEF DStart, TypeOK
<1> QED
  BY <1>6, <1>7, <1>8, <1>9, <1>10, <1>11, <1>12, <1>13, <1>14, <1>15, <1>16,
     <1>17 DEF Next

(* Items, the groups of the file, windows and histories keep their types:  *)
(* currentActive is a natural number, and a group has an index and a file. *)
THEOREM TypesHold == Spec => []TypeOK
BY InitTypes, NextTypes, PTL DEF Spec
-----------------------------------------------------------------------------
(* Window w is filed; no item's currentActive points past its windows.     *)
Has(its, w) == \E k \in DOMAIN its : w \in ToSet(its[k].wids)
(* No item's currentActive points past its windows.                        *)
Inside(its) ==
    \A k \in DOMAIN its :
       its[k].current < Len(its[k].wids) \/ its[k].current = 0

(* onWindowAdded(w) files w and forgets no window.                         *)
LEMMA FilingKeeps ==
  ASSUME NEW its \in Seq(ItemType), path \in [Window -> DesktopOrNone],
         NEW w \in Window
  PROVE  /\ \A v : Has(Filed(its, w), v) <=> Has(its, v) \/ v = w
         /\ Inside(its) => Inside(Filed(its, w))
<1> DEFINE r == Filed(its, w)
           at == FiledAt(its, w)
<1>1. /\ r \in Seq(ItemType) /\ at \subseteq DOMAIN its
      /\ at = {} => r = Append(its, NewItem(w)) /\ NewItem(w) \in ItemType
      /\ at # {} =>
            /\ DOMAIN r = DOMAIN its
            /\ \A k \in DOMAIN its \ at : r[k] = its[k]
            /\ \A k \in at : r[k] = [its[k] EXCEPT !.wids = Append(@, w),
                                                   !.id = ClassOf[w]]
  BY Filing
<1> HIDE DEF r, at
<1>2. CASE at = {}
  <2>1. /\ DOMAIN r = DOMAIN its \cup {Len(its) + 1}
        /\ Len(its) + 1 \notin DOMAIN its
        /\ r[Len(its) + 1] = NewItem(w)
        /\ \A j \in DOMAIN its : r[j] = its[j]
    BY <1>1, <1>2, Adding
  <2>2. NewItem(w).wids = <<w>> /\ NewItem(w).current = 0
    BY DEF NewItem
  <2>3. ToSet(<<w>>) = {w}
    BY DEF ToSet
  <2> QED
    BY <2>1, <2>2, <2>3 DEF Has, Inside, r
<1>3. CASE at # {}
  <2>1. ASSUME NEW k \in at
        PROVE  /\ k \in DOMAIN its /\ r[k].current = its[k].current
               /\ ToSet(r[k].wids) = ToSet(its[k].wids) \cup {w}
               /\ Len(r[k].wids) = Len(its[k].wids) + 1
               /\ Len(its[k].wids) \in Nat /\ its[k].current \in Nat
    <3>0. k \in DOMAIN its
      BY <1>1
    <3>1. k \in DOMAIN its /\ its[k] \in ItemType
      BY <3>0
    <3>2. its[k].wids \in Seq(Window) /\ its[k].current \in Nat
      BY <3>1 DEF ItemType
    <3>3. r[k].wids = Append(its[k].wids, w) /\ r[k].current = its[k].current
      BY <1>1, <1>3, <3>1 DEF ItemType
    <3> QED
      BY <3>1, <3>2, <3>3, MoreFacts
  <2>2. ASSUME NEW v
        PROVE  Has(r, v) <=> Has(its, v) \/ v = w
    <3>1. Has(its, v) => Has(r, v)
      BY <1>1, <1>3, <2>1 DEF Has
    <3>2. Has(r, w)
      BY <1>1, <1>3, <2>1 DEF Has
    <3>3. ASSUME Has(r, v), v # w
          PROVE  Has(its, v)
      <4>1. PICK k \in DOMAIN r : v \in ToSet(r[k].wids)
        BY <3>3 DEF Has
      <4>2. k \in DOMAIN its
        BY <1>1, <1>3
      <4>3. v \in ToSet(its[k].wids)
        <5>1. CASE k \in at
          BY <2>1, <3>3, <4>1, <5>1
        <5>2. CASE k \notin at
          BY <1>1, <1>3, <4>1, <4>2, <5>2
        <5> QED
          BY <5>1, <5>2
      <4> QED
        BY <4>2, <4>3 DEF Has
    <3> QED
      BY <3>1, <3>2, <3>3
  <2>3. ASSUME Inside(its), NEW k \in DOMAIN its
        PROVE  r[k].current < Len(r[k].wids) \/ r[k].current = 0
    <3>1. its[k].current < Len(its[k].wids) \/ its[k].current = 0
      BY <2>3 DEF Inside
    <3>2. CASE k \in at
      BY <2>1, <3>1, <3>2
    <3>3. CASE k \notin at
      BY <1>1, <1>3, <3>1, <3>3
    <3> QED
      BY <3>2, <3>3
  <2>4. Inside(its) => Inside(r)
    BY <1>1, <1>3, <2>3 DEF Inside
  <2> QED
    BY <2>2, <2>4 DEF r
<1> QED
  BY <1>2, <1>3

(* Items drawn from others have the windows of those that were drawn.      *)
LEMMA DrawnKeeps ==
  ASSUME NEW its, NEW r, NEW K \in SUBSET DOMAIN its, Drawn(r, its, K)
  PROVE  /\ \A v : Has(r, v) <=> \E k \in K : v \in ToSet(its[k].wids)
         /\ Inside(its) => Inside(r)
<1>1. PICK m \in [DOMAIN r -> K] :
        /\ \A i, j \in DOMAIN r : m[i] = m[j] => i = j
        /\ \A k \in K : \E i \in DOMAIN r : m[i] = k
        /\ \A i \in DOMAIN r : r[i] = its[m[i]]
  BY DEF Drawn
<1>2. ASSUME NEW v
      PROVE  Has(r, v) <=> \E k \in K : v \in ToSet(its[k].wids)
  BY <1>1 DEF Has
<1>3. Inside(its) => Inside(r)
  BY <1>1 DEF Inside
<1> QED
  BY <1>2, <1>3

(* One item is changed, and keeps its windows.                             *)
LEMMA ChangedKeeps ==
  ASSUME NEW its, NEW r, NEW k \in DOMAIN its, DOMAIN r = DOMAIN its,
         \A j \in DOMAIN its : j # k => r[j] = its[j],
         r[k].wids = its[k].wids,
         Inside(its) => \/ r[k].current < Len(r[k].wids)
                        \/ r[k].current = 0
  PROVE  /\ \A v : Has(r, v) <=> Has(its, v)
         /\ Inside(its) => Inside(r)
<1>1. \A j \in DOMAIN its : r[j].wids = its[j].wids
  OBVIOUS
<1>2. \A v : Has(r, v) <=> Has(its, v)
  BY <1>1 DEF Has
<1>3. Inside(its) => Inside(r)
  BY DEF Inside
<1> QED
  BY <1>2, <1>3

(* onWindowRemoved(w) forgets no window but w.                             *)
LEMMA TakingKeeps ==
  ASSUME NEW its \in Seq(ItemType), NEW w
  PROVE  /\ \A v : Has(WithoutWindow(its, w), v) => Has(its, v)
         /\ \A v : Has(its, v) /\ v # w => Has(WithoutWindow(its, w), v)
         /\ Inside(its) => Inside(WithoutWindow(its, w))
<1> DEFINE r == WithoutWindow(its, w)
           k == ByWindow(its, w)
<1>1. /\ k = 0 => r = its
      /\ k # 0 /\ Goes(Lost(its[k], w)) => Drawn(r, its, DOMAIN its \ {k})
      /\ k # 0 /\ ~Goes(Lost(its[k], w)) =>
            /\ DOMAIN r = DOMAIN its /\ r[k] = Lost(its[k], w)
            /\ \A j \in DOMAIN its : j # k => r[j] = its[j]
      /\ k # 0 => k \in DOMAIN its
  BY Taking, ByWindowFacts
<1>2. ASSUME k # 0
      PROVE  /\ its[k] \in ItemType /\ its[k].wids \in Seq(Window)
             /\ Lost(its[k], w).wids = RemoveFirst(its[k].wids, w)
             /\ ToSet(Lost(its[k], w).wids) \subseteq ToSet(its[k].wids)
             /\ ToSet(its[k].wids) \ {w} \subseteq ToSet(Lost(its[k], w).wids)
  <2>1. its[k] \in ItemType
    BY <1>1, <1>2
  <2>2. its[k].wids \in Seq(Window)
    BY <2>1 DEF ItemType
  <2>3. Lost(its[k], w).wids = RemoveFirst(its[k].wids, w)
    BY <2>1, Losing
  <2> QED
    BY <2>1, <2>2, <2>3, RestFacts
<1>3. CASE k = 0
  BY <1>1, <1>3
<1>4. CASE k # 0 /\ Goes(Lost(its[k], w))
  <2>1. Lost(its[k], w).wids = <<>>
    BY <1>4 DEF Goes
  <2>0. ToSet(<<>>) = {}
    BY DEF ToSet
  <2>2. \A v \in ToSet(its[k].wids) : v = w
    BY <1>2, <1>4, <2>0, <2>1
  <2>3. /\ \A v : Has(r, v) <=>
              \E j \in DOMAIN its \ {k} : v \in ToSet(its[j].wids)
        /\ Inside(its) => Inside(r)
    BY <1>1, <1>4, DrawnKeeps
  <2> HIDE DEF r, k
  <2>4. \A v : Has(r, v) => Has(its, v)
    BY <2>3 DEF Has
  <2>5. \A v : Has(its, v) /\ v # w => Has(r, v)
    BY <2>2, <2>3 DEF Has
  <2> QED
    BY <2>3, <2>4, <2>5 DEF r
<1>5. CASE k # 0 /\ ~Goes(Lost(its[k], w))
  <2>1. /\ k \in DOMAIN its /\ DOMAIN r = DOMAIN its /\ r[k] = Lost(its[k], w)
        /\ \A j \in DOMAIN its : j # k => r[j] = its[j]
    BY <1>1, <1>5
  <2>2. /\ ToSet(r[k].wids) \subseteq ToSet(its[k].wids)
        /\ ToSet(its[k].wids) \ {w} \subseteq ToSet(r[k].wids)
    BY <1>2, <1>5, <2>1
  <2>3. r[k].current < Len(r[k].wids) \/ r[k].current = 0
    BY <1>2, <1>5, <2>1, Losing
  <2> HIDE DEF r, k
  <2>4. \A v : Has(r, v) => Has(its, v)
    BY <2>1, <2>2 DEF Has
  <2>5. \A v : Has(its, v) /\ v # w => Has(r, v)
    BY <2>1, <2>2 DEF Has
  <2>6. Inside(its) => Inside(r)
    BY <2>1, <2>3 DEF Inside
  <2> QED
    BY <2>4, <2>5, <2>6 DEF r
<1> QED
  BY <1>3, <1>4, <1>5

(* unPin() forgets no window: an item that goes has none.                  *)
LEMMA UnpinningKeeps ==
  ASSUME NEW its \in Seq(ItemType), NEW k \in DOMAIN its
  PROVE  /\ \A v : Has(Unpinned(its, k), v) <=> Has(its, v)
         /\ Inside(its) => Inside(Unpinned(its, k))
<1> DEFINE r == Unpinned(its, k)
<1>1. /\ its[k].wids = <<>> => Drawn(r, its, DOMAIN its \ {k})
      /\ its[k].wids # <<>> =>
            /\ DOMAIN r = DOMAIN its
            /\ r[k] = [its[k] EXCEPT !.pinned = FALSE]
            /\ \A j \in DOMAIN its : j # k => r[j] = its[j]
  BY Unpinning
<1> HIDE DEF r
<1>2. CASE its[k].wids = <<>>
  <2>1. /\ \A v : Has(r, v) <=>
              \E j \in DOMAIN its \ {k} : v \in ToSet(its[j].wids)
        /\ Inside(its) => Inside(r)
    BY <1>1, <1>2, DrawnKeeps
  <2>2. ToSet(its[k].wids) = {}
    BY <1>2 DEF ToSet
  <2>3. \A v : Has(r, v) <=> Has(its, v)
    BY <2>1, <2>2 DEF Has
  <2> QED
    BY <2>1, <2>3 DEF r
<1>3. CASE its[k].wids # <<>>
  <2>1. its[k] \in ItemType
    OBVIOUS
  <2>2. r[k].wids = its[k].wids /\ r[k].current = its[k].current
    BY <1>1, <1>3, <2>1 DEF ItemType
  <2>3. Inside(its) => r[k].current < Len(r[k].wids) \/ r[k].current = 0
    BY <2>2 DEF Inside
  <2>4. /\ \A v : Has(r, v) <=> Has(its, v)
        /\ Inside(its) => Inside(r)
    BY <1>1, <1>3, <2>2, <2>3, ChangedKeeps
  <2> QED
    BY <2>4 DEF r
<1> QED
  BY <1>2, <1>3

(* pin() forgets no window.                                                *)
LEMMA PinningKeeps ==
  ASSUME NEW its \in Seq(ItemType), NEW k \in DOMAIN its
  PROVE  /\ \A v : Has([its EXCEPT ![k].pinned = TRUE], v) <=> Has(its, v)
         /\ Inside(its) => Inside([its EXCEPT ![k].pinned = TRUE])
<1> DEFINE r == [its EXCEPT ![k].pinned = TRUE]
<1>1. /\ DOMAIN r = DOMAIN its /\ r[k] = [its[k] EXCEPT !.pinned = TRUE]
      /\ \A j \in DOMAIN its : j # k => r[j] = its[j]
  BY Setting, 0 \in Nat
<1> HIDE DEF r
<1>2. its[k] \in ItemType
  OBVIOUS
<1>3. r[k].wids = its[k].wids /\ r[k].current = its[k].current
  BY <1>1, <1>2 DEF ItemType
<1>4. Inside(its) => r[k].current < Len(r[k].wids) \/ r[k].current = 0
  BY <1>3 DEF Inside
<1>5. /\ \A v : Has(r, v) <=> Has(its, v)
      /\ Inside(its) => Inside(r)
  BY <1>1, <1>3, <1>4, ChangedKeeps
<1> QED
  BY <1>5 DEF r

(* clicked() forgets no window, and the next one is one of the item's.     *)
LEMMA ClickingKeeps ==
  ASSUME NEW its \in Seq(ItemType), NEW k \in DOMAIN its,
         Len(its[k].wids) > 1
  PROVE  LET r == [its EXCEPT ![k].current = NextOf(its[k])]
         IN  /\ \A v : Has(r, v) <=> Has(its, v)
             /\ Inside(its) => Inside(r)
<1> DEFINE n == NextOf(its[k])
           r == [its EXCEPT ![k].current = n]
<1>1. its[k] \in ItemType
  OBVIOUS
<1>2. its[k].wids \in Seq(Window) /\ its[k].current \in Nat
  BY <1>1 DEF ItemType
<1>3. Len(its[k].wids) \in Nat
  BY <1>2
<1>4. /\ n \in Nat
      /\ Inside(its) => n < Len(its[k].wids) \/ n = 0
  BY <1>2, <1>3 DEF NextOf, Inside
<1> HIDE DEF n
<1>5. /\ DOMAIN r = DOMAIN its /\ r[k] = [its[k] EXCEPT !.current = n]
      /\ \A j \in DOMAIN its : j # k => r[j] = its[j]
  BY <1>4, Setting
<1> HIDE DEF r
<1>6. r[k].wids = its[k].wids /\ r[k].current = n
  BY <1>1, <1>5 DEF ItemType
<1>7. /\ \A v : Has(r, v) <=> Has(its, v)
      /\ Inside(its) => Inside(r)
  BY <1>4, <1>5, <1>6, ChangedKeeps
<1> QED
  BY <1>7 DEF r, n

(* Dragging forgets no window.                                             *)
LEMMA MovingKeeps ==
  ASSUME NEW its \in Seq(ItemType), NEW from \in DOMAIN its,
         NEW to \in DOMAIN its
  PROVE  LET r == InsertAt(RemoveAt(its, from), to, its[from])
         IN  /\ \A v : Has(r, v) <=> Has(its, v)
             /\ Inside(its) => Inside(r)
<1> DEFINE r == InsertAt(RemoveAt(its, from), to, its[from])
<1>1. Drawn(r, its, DOMAIN its)
  BY MovingDrawn
<1> HIDE DEF r
<1>2. /\ \A v : Has(r, v) <=> \E k \in DOMAIN its : v \in ToSet(its[k].wids)
      /\ Inside(its) => Inside(r)
  BY <1>1, DrawnKeeps
<1> QED
  BY <1>2 DEF Has, r

(* addItem() forgets no window.                                            *)
LEMMA NewPinKeeps ==
  ASSUME NEW its \in Seq(ItemType), NEW d \in Desktop
  PROVE  /\ \A v : Has(Append(its, NewPin(d)), v) <=> Has(its, v)
         /\ Inside(its) => Inside(Append(its, NewPin(d)))
<1> DEFINE r == Append(its, NewPin(d))
<1>1. /\ DOMAIN r = DOMAIN its \cup {Len(its) + 1}
      /\ Len(its) + 1 \notin DOMAIN its
      /\ r[Len(its) + 1] = NewPin(d)
      /\ \A j \in DOMAIN its : r[j] = its[j]
  BY NewPinType, Adding
<1> HIDE DEF r
<1>2. ToSet(NewPin(d).wids) = {} /\ NewPin(d).current = 0
  BY DEF NewPin, ToSet
<1>3. \A v : Has(r, v) <=> Has(its, v)
  BY <1>1, <1>2 DEF Has
<1>4. Inside(its) => Inside(r)
  BY <1>1, <1>2 DEF Inside
<1> QED
  BY <1>3, <1>4 DEF r

(* The items after a window is announced, saved or not.                    *)
LEMMA StepItems ==
  ASSUME NEW st \in States, NEW w
  PROVE  Step(st, w).items = Filed(st.items, w)
<1>1. st = [items |-> st.items, saved |-> st.saved, kept |-> st.kept]
  BY DEF States
<1>2. Step(st, w) = IF Renamed(st.items, w)
                    THEN [items |-> Filed(st.items, w),
                          saved |-> Groups(Filed(st.items, w)),
                          kept |-> Paths(Pinned(Filed(st.items, w)))]
                    ELSE [st EXCEPT !.items = Filed(st.items, w)]
  BY DEF Step
<1> QED
  BY <1>1, <1>2

(* Of the windows ws, told one after another, those told so far are filed. *)
LEMMA ToldFiled ==
  ASSUME path \in [Window -> DesktopOrNone], NEW st \in States,
         NEW ws \in Seq(Window)
  PROVE  \E g : /\ g[0] = st
                /\ \A n \in 1 .. Len(ws) : g[n] = Step(g[n - 1], ws[n])
                /\ After(st, ws) = g[Len(ws)]
                /\ \A n \in 0 .. Len(ws) :
                      /\ g[n] \in States
                      /\ \A v : Has(g[n].items, v) <=>
                                   \/ Has(st.items, v)
                                   \/ \E i \in 1 .. n : v = ws[i]
<1>1. PICK g : /\ g[0] = st
               /\ \A n \in 1 .. Len(ws) : g[n] = Step(g[n - 1], ws[n])
               /\ After(st, ws) = g[Len(ws)]
  BY Telling
<1> DEFINE Good(n) ==
             /\ g[n] \in States
             /\ \A v : Has(g[n].items, v) <=>
                          Has(st.items, v) \/ \E i \in 1 .. n : v = ws[i]
           B == {n \in 0 .. Len(ws) : ~Good(n)}
<1>2. Len(ws) \in Nat /\ B \in SUBSET Nat
  OBVIOUS
<1>3. ASSUME B # {}
      PROVE  FALSE
  <2>1. PICK n \in B : \A x \in B : n <= x
    BY <1>2, <1>3, LeastOne
  <2>2. n \in 0 .. Len(ws) /\ ~Good(n)
    OBVIOUS
  <2>3. n # 0
    <3>1. Good(0)
      BY <1>1
    <3> QED
      BY <2>2, <3>1
  <2>4. n \in 1 .. Len(ws) /\ n - 1 \in 0 .. Len(ws) /\ ~(n <= n - 1)
        /\ n - 1 \in Nat /\ ws[n] \in Window
    BY <1>2, <2>2, <2>3
  <2>5. n - 1 \notin B
    BY <2>1, <2>4
  <2>6. Good(n - 1)
    BY <2>4, <2>5
  <2>7. g[n] = Step(g[n - 1], ws[n]) /\ g[n] \in States
    BY <1>1, <2>4, <2>6, StepTypes
  <2>8. g[n].items = Filed(g[n - 1].items, ws[n])
        /\ g[n - 1].items \in Seq(ItemType)
    BY <2>6, <2>7, StepItems DEF States
  <2>9. \A v : Has(g[n].items, v) <=> Has(g[n - 1].items, v) \/ v = ws[n]
    BY <2>4, <2>8, FilingKeeps
  <2>10. \A i : i \in 1 .. n <=> i = n \/ i \in 1 .. n - 1
    BY <2>4
  <2>11. Good(n)
    BY <2>6, <2>7, <2>9, <2>10
  <2> QED
    BY <2>2, <2>11
<1>4. \A n \in 0 .. Len(ws) : Good(n)
  BY <1>3
<1> QED
  BY <1>1, <1>4

(* After startInitWindows() what was filed and what was announced is       *)
(* filed.                                                                  *)
LEMMA AfterKeeps ==
  ASSUME path \in [Window -> DesktopOrNone], NEW st \in States,
         NEW ws \in Seq(Window)
  PROVE  /\ \A v : Has(After(st, ws).items, v) <=>
                      Has(st.items, v) \/ v \in ToSet(ws)
         /\ Inside(st.items) => Inside(After(st, ws).items)
<1>1. ASSUME NEW v
      PROVE  Has(After(st, ws).items, v) <=>
                Has(st.items, v) \/ v \in ToSet(ws)
  <2>1. Len(ws) \in 0 .. Len(ws) /\ Len(ws) \in Nat
    OBVIOUS
  <2>2. Has(After(st, ws).items, v) <=>
           Has(st.items, v) \/ \E i \in 1 .. Len(ws) : v = ws[i]
    <3>1. PICK g :
            /\ g[0] = st
            /\ \A n \in 1 .. Len(ws) : g[n] = Step(g[n - 1], ws[n])
            /\ After(st, ws) = g[Len(ws)]
            /\ \A n \in 0 .. Len(ws) :
                  /\ g[n] \in States
                  /\ \A u : Has(g[n].items, u) <=>
                               \/ Has(st.items, u)
                               \/ \E i \in 1 .. n : u = ws[i]
      BY ToldFiled, Zenon
    <3> QED
      BY <2>1, <3>1
  <2>3. v \in ToSet(ws) <=> \E i \in 1 .. Len(ws) : v = ws[i]
    BY DEF ToSet
  <2> QED
    BY <2>2, <2>3
<1>2. ASSUME Inside(st.items)
      PROVE  Inside(After(st, ws).items)
  <2> DEFINE S == {x \in States : Inside(x.items)}
  <2>1. ASSUME NEW x \in S, NEW w \in Window
        PROVE  Step(x, w) \in S
    <3>1. Step(x, w) \in States /\ x.items \in Seq(ItemType)
      BY StepTypes DEF States
    <3>2. Inside(Filed(x.items, w))
      BY <3>1, FilingKeeps
    <3> QED
      BY <3>1, <3>2, StepItems
  <2>2. st \in S
    BY <1>2
  <2> HIDE DEF S
  <2>3. After(st, ws) \in S
    BY <2>1, <2>2, AfterSteps
  <2> QED
    BY <2>3 DEF S
<1> QED
  BY <1>1, <1>2

(* Every window that the dock was told of and that is not closed is filed, *)
(* and a dock that is down has been told of none.                          *)
FiledInv ==
    /\ phase = "down" => noticed = {}
    /\ \A w \in noticed \ closed : Has(items, w)
    /\ Inside(items)

(* Before the first start nothing has to be filed ...                      *)
LEMMA InitFiled == Init => FiledInv
BY DEF Init, FiledInv, Inside

(* ... and no step forgets a window that is open.                          *)
LEMMA NextFiled == TypeOK /\ FiledInv /\ [Next]_vars => FiledInv'
<1> SUFFICES ASSUME TypeOK, FiledInv, [Next]_vars
             PROVE  FiledInv'
  OBVIOUS
<1>1. /\ items \in Seq(ItemType) /\ path \in [Window -> DesktopOrNone]
      /\ open \in Seq(Window) /\ installed \in SUBSET Desktop
      /\ saved \in [Class -> Group] /\ kept \in Seq(DesktopOrNone)
  BY DEF TypeOK
<1>2. Now \in States /\ Now.items = items
  BY <1>1 DEF Now, States
<1>3. Inside(items) /\ \A w \in noticed \ closed : Has(items, w)
  BY DEF FiledInv
<1>4. ASSUME NEW its, Store(its) \/ Change(its), User,
             \A v : Has(its, v) <=> Has(items, v),
             Inside(items) => Inside(its)
      PROVE  FiledInv'
  <2>1. items' = its
    BY <1>4 DEF Store, Change
  <2>2. phase' = phase /\ noticed' = noticed /\ closed' = closed
    BY <1>4 DEF User
  <2>3. Inside(items')
    BY <1>3, <1>4, <2>1
  <2>4. \A v \in noticed \ closed : Has(items', v)
    BY <1>3, <1>4, <2>1
  <2> QED
    BY <2>2, <2>3, <2>4 DEF FiledInv, Has, Inside
<1>5. CASE UNCHANGED vars
  BY <1>5 DEF vars, FiledInv, Has, Inside
<1>6. ASSUME NEW w \in Window, WOpen(w)
      PROVE  FiledInv'
  <2>1. phase' = phase /\ closed' = closed
    BY <1>6 DEF WOpen
  <2>2. CASE phase = "down"
    <3>1. items' = items /\ noticed' = noticed
      BY <1>2, <1>6, <2>2 DEF WOpen, Put
    <3> QED
      BY <2>1, <3>1 DEF FiledInv, Has, Inside
  <2>3. CASE phase # "down"
    <3>1. items' = Filed(items, w) /\ noticed' = noticed \cup {w}
      BY <1>2, <1>6, <2>3, StepItems DEF WOpen, Put
    <3>2. /\ \A v : Has(items', v) <=> Has(items, v) \/ v = w
          /\ Inside(items) => Inside(items')
      BY <1>1, <3>1, FilingKeeps
    <3>3. Inside(items') /\ \A v \in noticed' \ closed' : Has(items', v)
      BY <1>3, <2>1, <3>1, <3>2
    <3> QED
      BY <2>1, <2>3, <3>3 DEF FiledInv, Has, Inside
  <2> QED
    BY <2>2, <2>3
<1>7. ASSUME NEW w \in Window, WClose(w)
      PROVE  FiledInv'
  <2>1. /\ items' = WithoutWindow(items, w) /\ closed' = closed \cup {w}
        /\ phase' = phase /\ noticed' = noticed
    BY <1>7 DEF WClose, Change
  <2>2. /\ \A v : Has(items, v) /\ v # w => Has(items', v)
        /\ Inside(items) => Inside(items')
    BY <1>1, <2>1, TakingKeeps
  <2>3. Inside(items') /\ \A v \in noticed' \ closed' : Has(items', v)
    BY <1>3, <2>1, <2>2
  <2> QED
    BY <2>1, <2>3 DEF FiledInv, Has, Inside
<1>8. ASSUME NEW j \in DOMAIN items, Clicked(j)
      PROVE  FiledInv'
  <2>1. At(j) \in DOMAIN items /\ Len(items[At(j)].wids) > 1
    BY <1>1, <1>8, AtFacts DEF Clicked
  <2> DEFINE r == [items EXCEPT ![At(j)].current = NextOf(items[At(j)])]
  <2>2. /\ \A v : Has(r, v) <=> Has(items, v)
        /\ Inside(items) => Inside(r)
    BY <1>1, <2>1, ClickingKeeps
  <2>3. Change(r) /\ User
    BY <1>8 DEF Clicked
  <2> HIDE DEF r
  <2> QED
    BY <1>4, <2>2, <2>3
<1>9. ASSUME NEW j \in DOMAIN items, Pin(j)
      PROVE  FiledInv'
  <2>1. At(j) \in DOMAIN items
    BY <1>1, AtFacts
  <2> DEFINE r == [items EXCEPT ![At(j)].pinned = TRUE]
  <2>2. /\ \A v : Has(r, v) <=> Has(items, v)
        /\ Inside(items) => Inside(r)
    BY <1>1, <2>1, PinningKeeps
  <2>3. Store(r) /\ User
    BY <1>9 DEF Pin
  <2> HIDE DEF r
  <2> QED
    BY <1>4, <2>2, <2>3
<1>10. ASSUME NEW k \in DOMAIN items, Store(Unpinned(items, k)), User
       PROVE  FiledInv'
  <2>1. /\ \A v : Has(Unpinned(items, k), v) <=> Has(items, v)
        /\ Inside(items) => Inside(Unpinned(items, k))
    BY <1>1, UnpinningKeeps
  <2> QED
    BY <1>4, <1>10, <2>1
<1>11. ASSUME NEW j \in DOMAIN items, Unpin(j)
       PROVE  FiledInv'
  BY <1>1, <1>10, <1>11, AtFacts DEF Unpin
<1>12. ASSUME NEW d \in Desktop, RemoveItem(d)
       PROVE  FiledInv'
  <2>1. ByDesktop(items, d) \in DOMAIN items
    BY <1>1, <1>12, ByDesktopFacts DEF RemoveItem
  <2>2. At(ByDesktop(items, d)) \in DOMAIN items
    BY <1>1, <2>1, AtFacts
  <2> QED
    BY <1>10, <1>12, <2>2 DEF RemoveItem
<1>13. ASSUME NEW d \in Desktop, AddItem(d)
       PROVE  FiledInv'
  <2> DEFINE k == ByDesktop(items, d)
             r == [items EXCEPT ![k].pinned = TRUE]
             s == Append(items, NewPin(d))
  <2>1. CASE k # 0
    <3>1. k \in DOMAIN items
      BY <1>1, <2>1, ByDesktopFacts
    <3>2. Change(r) /\ User
      BY <1>13, <2>1 DEF AddItem
    <3> HIDE DEF k
    <3>3. /\ \A v : Has(r, v) <=> Has(items, v)
          /\ Inside(items) => Inside(r)
      BY <1>1, <3>1, PinningKeeps
    <3> HIDE DEF r
    <3> QED
      BY <1>4, <3>2, <3>3
  <2>2. CASE k = 0
    <3>1. Store(s) /\ User
      BY <1>13, <2>2 DEF AddItem
    <3>2. /\ \A v : Has(s, v) <=> Has(items, v)
          /\ Inside(items) => Inside(s)
      BY <1>1, NewPinKeeps
    <3> HIDE DEF s
    <3> QED
      BY <1>4, <3>1, <3>2
  <2> QED
    BY <2>1, <2>2
<1>14. ASSUME NEW d \in Desktop, Install(d)
       PROVE  FiledInv'
  BY <1>14 DEF Install, FiledInv, Has, Inside
<1>15. ASSUME NEW from \in DOMAIN items, NEW to \in DOMAIN items,
              Move(from, to)
       PROVE  FiledInv'
  <2> DEFINE r == InsertAt(RemoveAt(items, from), to, items[from])
  <2>1. /\ \A v : Has(r, v) <=> Has(items, v)
        /\ Inside(items) => Inside(r)
    BY <1>1, MovingKeeps
  <2>2. Change(r) /\ User
    BY <1>15 DEF Move
  <2> HIDE DEF r
  <2> QED
    BY <1>4, <2>1, <2>2
<1>16. CASE Drop
  BY <1>4, <1>16 DEF Drop
<1>17. CASE Startup
  <2>1. /\ items' = After(Now, open).items /\ closed' = closed
        /\ noticed' = noticed \cup ToSet(open) /\ phase' = "ready"
    BY <1>17 DEF Startup, Announced, Put
  <2>2. /\ \A v : Has(items, v) \/ v \in ToSet(open) => Has(items', v)
        /\ Inside(items) => Inside(items')
    BY <1>1, <1>2, <2>1, AfterKeeps
  <2>3. Inside(items') /\ \A v \in noticed' \ closed' : Has(items', v)
    BY <1>3, <2>1, <2>2
  <2> QED
    BY <2>1, <2>3 DEF FiledInv, Has, Inside
<1>18. CASE DEnd
  BY <1>18 DEF DEnd, FiledInv, Inside
<1>19. CASE DStart
  <2>1. /\ items' = Load(saved, installed) /\ noticed' = noticed
        /\ phase' = "starting" /\ phase = "down"
    BY <1>19 DEF DStart
  <2>2. noticed' = {}
    BY <2>1 DEF FiledInv
  <2>3. ASSUME NEW k \in DOMAIN items'
        PROVE  items'[k].current = 0
    <3>1. \E c : items'[k] = FromFile(saved, c)
      BY <1>1, <2>1, Loading
    <3> QED
      BY <3>1 DEF FromFile
  <2> QED
    BY <2>1, <2>2, <2>3 DEF FiledInv, Inside
<1> QED
  BY <1>5, <1>6, <1>7, <1>8, <1>9, <1>11, <1>12, <1>13, <1>14, <1>15, <1>16,
     <1>17, <1>18, <1>19 DEF Next

(* The invariant is what AllFiled says, in terms of findItemByWId().       *)
LEMMA FiledProperty == TypeOK /\ FiledInv => AllFiled
<1> SUFFICES ASSUME TypeOK, FiledInv
             PROVE  AllFiled
  OBVIOUS
<1>1. items \in Seq(ItemType)
  BY DEF TypeOK
<1>2. \A w \in noticed \ closed : ByWindow(items, w) # 0
  BY <1>1, ByWindowFacts DEF FiledInv, Has
<1> QED
  BY <1>2 DEF FiledInv, AllFiled, Inside

(* Every open window that this process was told of is found in an item,    *)
(* and currentActive stays within the windows of its item.                 *)
THEOREM AllFiledHolds == Spec => []AllFiled
<1>1. Init => TypeOK /\ FiledInv
  BY InitTypes, InitFiled
<1>2. TypeOK /\ FiledInv /\ [Next]_vars => (TypeOK /\ FiledInv)'
  BY NextTypes, NextFiled
<1>3. TypeOK /\ FiledInv => AllFiled
  BY FiledProperty
<1> QED
  BY <1>1, <1>2, <1>3, PTL DEF Spec
-----------------------------------------------------------------------------
(* An id means one application, an application has one item, and there is  *)
(* no item without a window, unless it is pinned.                          *)
Sound(its) ==
    /\ \A k \in DOMAIN its : <<its[k].id, its[k].path>> \in Meanings
    /\ \A j, k \in DOMAIN its : its[j].id = its[k].id => j = k
    /\ \A j, k \in DOMAIN its :
          its[j].path = its[k].path /\ its[j].path # NoDesktop => j = k
    /\ \A k \in DOMAIN its : its[k].pinned \/ its[k].wids # <<>>

(* The groups of the file are those of the pinned items, in their order.   *)
Noted(file, keep) ==
    /\ \A c \in Named(file) :
          /\ <<c, file[c].path>> \in Meanings
          /\ file[c].index + 1 \in DOMAIN keep
          /\ keep[file[c].index + 1] = file[c].path
    /\ \A k \in DOMAIN keep : \E c \in Named(file) : file[c].index = k - 1
    /\ \A j, k \in DOMAIN keep :
          keep[j] = keep[k] /\ keep[j] # NoDesktop => j = k

(* Under Coherent an id has one desktop file.                              *)
LEMMA SameId ==
  ASSUME Coherent, NEW c, NEW p, NEW q,
         <<c, p>> \in Meanings, <<c, q>> \in Meanings
  PROVE  p = q
<1>1. <<c, p>>[1] = <<c, q>>[1]
  OBVIOUS
<1>2. <<c, p>>[2] = <<c, q>>[2]
  BY <1>1 DEF Coherent
<1> QED
  BY <1>2

(* Items drawn from sound ones are sound.                                  *)
LEMMA SoundDrawn ==
  ASSUME NEW its, NEW r, NEW K \in SUBSET DOMAIN its, Drawn(r, its, K),
         Sound(its)
  PROVE  Sound(r)
<1>1. PICK m \in [DOMAIN r -> K] :
        /\ \A i, j \in DOMAIN r : m[i] = m[j] => i = j
        /\ \A k \in K : \E i \in DOMAIN r : m[i] = k
        /\ \A i \in DOMAIN r : r[i] = its[m[i]]
  BY DEF Drawn
<1>2. \A i \in DOMAIN r : m[i] \in DOMAIN its
  BY <1>1
<1> QED
  BY <1>1, <1>2 DEF Sound

(* An item whose id and file stay does no harm.                            *)
LEMMA SoundChanged ==
  ASSUME NEW its, NEW r, NEW k \in DOMAIN its, DOMAIN r = DOMAIN its,
         \A j \in DOMAIN its : j # k => r[j] = its[j],
         r[k].id = its[k].id, r[k].path = its[k].path,
         r[k].pinned \/ r[k].wids # <<>>, Sound(its)
  PROVE  Sound(r)
<1>1. \A j \in DOMAIN its : /\ r[j].id = its[j].id /\ r[j].path = its[j].path
                            /\ r[j].pinned \/ r[j].wids # <<>>
  BY DEF Sound
<1> QED
  BY <1>1 DEF Sound

(* Nor does a new one whose id and file no item has.                       *)
LEMMA SoundAdded ==
  ASSUME NEW its \in Seq(ItemType), NEW x \in ItemType, Sound(its),
         <<x.id, x.path>> \in Meanings, x.pinned \/ x.wids # <<>>,
         \A k \in DOMAIN its : /\ its[k].id # x.id
                               /\ its[k].path = x.path => x.path = NoDesktop
  PROVE  Sound(Append(its, x))
<1> DEFINE r == Append(its, x)
           n == Len(its) + 1
<1>1. /\ DOMAIN r = DOMAIN its \cup {n} /\ n \notin DOMAIN its /\ r[n] = x
      /\ \A j \in DOMAIN its : r[j] = its[j]
  BY Adding
<1> HIDE DEF r, n
<1>2. Sound(r)
  BY <1>1 DEF Sound
<1> QED
  BY <1>2 DEF r

(* Under one item with its desktop file, or with its class, a window is    *)
(* filed, or under a new one.                                              *)
LEMMA SoundFiled ==
  ASSUME Coherent, NEW its \in Seq(ItemType), Sound(its),
         path \in [Window -> DesktopOrNone], NEW w \in Window
  PROVE  /\ Sound(Filed(its, w))
         /\ FiledAt(its, w) = {} \/ \E k : FiledAt(its, w) = {k}
<1> DEFINE r == Filed(its, w)
           at == FiledAt(its, w)
<1>1. /\ r \in Seq(ItemType) /\ at \subseteq DOMAIN its
      /\ at = {} => /\ r = Append(its, NewItem(w))
                    /\ NewItem(w) \in ItemType
                    /\ \A k \in DOMAIN its :
                          /\ its[k].id # ClassOf[w]
                          /\ its[k].path = path[w] => path[w] = NoDesktop
      /\ at # {} =>
            /\ DOMAIN r = DOMAIN its
            /\ \A k \in DOMAIN its \ at : r[k] = its[k]
            /\ \A k \in at : r[k] = [its[k] EXCEPT !.wids = Append(@, w),
                                                   !.id = ClassOf[w]]
      /\ \A k \in at : \/ its[k].id = ClassOf[w]
                       \/ its[k].path = path[w] /\ at = {k}
                          /\ path[w] # NoDesktop
  BY Filing
<1>2. <<ClassOf[w], path[w]>> \in Meanings
  BY DEF Meanings
<1> HIDE DEF r, at
<1>3. CASE at = {}
  <2> DEFINE x == NewItem(w)
  <2>1. x.wids # <<>> /\ x.id = ClassOf[w] /\ x.path = path[w]
    BY DEF NewItem
  <2>2. x \in ItemType /\ r = Append(its, x)
    BY <1>1, <1>3
  <2> HIDE DEF x
  <2>3. \A k \in DOMAIN its : /\ its[k].id # x.id
                              /\ its[k].path = x.path => x.path = NoDesktop
    BY <1>1, <1>3, <2>1
  <2>4. Sound(Append(its, x))
    BY <1>2, <2>1, <2>2, <2>3, SoundAdded
  <2> QED
    BY <1>3, <2>2, <2>4 DEF at, r
<1>4. CASE at # {}
  <2>1. PICK k \in at : TRUE
    BY <1>4
  <2>2. k \in DOMAIN its
    BY <1>1
  <2>3. at = {k}
    <3>1. ASSUME NEW j \in at
          PROVE  j = k
      <4>1. CASE its[j].id = ClassOf[w] /\ its[k].id = ClassOf[w]
        BY <1>1, <4>1 DEF Sound
      <4>2. CASE at = {j} \/ at = {k}
        BY <2>1, <4>2
      <4> QED
        BY <1>1, <2>1, <4>1, <4>2
    <3> QED
      BY <2>1, <3>1
  <2>4. its[k].path = path[w]
    <3>1. CASE its[k].id = ClassOf[w]
      <4>1. <<ClassOf[w], its[k].path>> \in Meanings
        BY <2>2, <3>1 DEF Sound
      <4> QED
        BY <1>2, <4>1, SameId
    <3> QED
      BY <1>1, <2>1, <3>1
  <2>5. \A j \in DOMAIN its : its[j].id = ClassOf[w] => j = k
    <3> SUFFICES ASSUME NEW j \in DOMAIN its, its[j].id = ClassOf[w]
                 PROVE  j = k
      OBVIOUS
    <3>1. CASE its[k].id = ClassOf[w]
      BY <2>2, <3>1 DEF Sound
    <3>2. CASE its[k].id # ClassOf[w]
      <4>1. path[w] # NoDesktop
        BY <1>1, <2>1, <3>2
      <4>2. <<ClassOf[w], its[j].path>> \in Meanings
        BY DEF Sound
      <4>3. its[j].path = path[w]
        BY <1>2, <4>2, SameId
      <4> QED
        BY <2>2, <2>4, <4>1, <4>3 DEF Sound
    <3> QED
      BY <3>1, <3>2
  <2>6. /\ r[k].id = ClassOf[w] /\ r[k].path = its[k].path
        /\ r[k].wids # <<>>
    <3>0. its[k] \in ItemType
      BY <2>2
    <3>1. its[k].wids \in Seq(Window)
      BY <3>0 DEF ItemType
    <3>2. /\ r[k].id = ClassOf[w] /\ r[k].path = its[k].path
          /\ r[k].wids = Append(its[k].wids, w)
      BY <1>1, <1>4, <2>1, <3>0 DEF ItemType
    <3> QED
      BY <3>1, <3>2, MoreFacts
  <2>7. DOMAIN r = DOMAIN its /\ \A j \in DOMAIN its : j # k => r[j] = its[j]
    BY <1>1, <1>4, <2>3
  <2>8. Sound(r)
    <3>1. \A j \in DOMAIN its : <<r[j].id, r[j].path>> \in Meanings
      BY <1>2, <2>4, <2>6, <2>7 DEF Sound
    <3>2. \A i, j \in DOMAIN its : r[i].id = r[j].id => i = j
      BY <2>5, <2>6, <2>7 DEF Sound
    <3>3. \A j \in DOMAIN its : r[j].path = its[j].path
      BY <2>6, <2>7
    <3>4. \A j \in DOMAIN its : r[j].pinned \/ r[j].wids # <<>>
      BY <2>6, <2>7 DEF Sound
    <3> QED
      BY <2>7, <3>1, <3>2, <3>3, <3>4 DEF Sound
  <2> QED
    BY <2>3, <2>8 DEF at, r
<1> QED
  BY <1>3, <1>4

(* savePinAndUnPinList(): the groups and what was pinned agree.            *)
LEMMA SavedNoted ==
  ASSUME NEW its \in Seq(ItemType), Sound(its)
  PROVE  Noted(Groups(its), Paths(Pinned(its)))
<1> DEFINE p == Pinned(its)
           file == Groups(its)
           keep == Paths(p)
           K == {k \in DOMAIN its : its[k].pinned}
<1>1. /\ p \in Seq(ItemType) /\ Drawn(p, its, K)
      /\ \A c \in Class :
            \/ file[c] = NoGroup /\ \A k \in DOMAIN p : p[k].id # c
            \/ \E k \in DOMAIN p :
                  /\ p[k].id = c
                  /\ file[c] = [index |-> k - 1, path |-> p[k].path]
      /\ DOMAIN keep = DOMAIN p
      /\ \A k \in DOMAIN p : keep[k] = p[k].path
  BY Grouping
<1>2. Sound(p)
  <2>1. K \in SUBSET DOMAIN its
    OBVIOUS
  <2> HIDE DEF p, K
  <2> QED
    BY <1>1, <2>1, SoundDrawn
<1> HIDE DEF p, file, keep
<1>3. \A k \in DOMAIN p : k \in Nat /\ k >= 1 /\ p[k].id \in Class
  <2>1. DOMAIN p = 1 .. Len(p) /\ Len(p) \in Nat
    BY <1>1
  <2>2. \A k \in DOMAIN p : p[k] \in ItemType
    BY <1>1
  <2> QED
    BY <2>1, <2>2 DEF ItemType
<1>4. ASSUME NEW c \in Named(file)
      PROVE  \E k \in DOMAIN p :
                /\ p[k].id = c /\ file[c].index = k - 1
                /\ file[c].path = p[k].path
  <2>1. c \in Class /\ file[c] # NoGroup
    BY DEF Named
  <2>2. PICK k \in DOMAIN p :
          p[k].id = c /\ file[c] = [index |-> k - 1, path |-> p[k].path]
    BY <1>1, <2>1
  <2> QED
    BY <2>2
<1>5. ASSUME NEW c \in Named(file)
      PROVE  /\ <<c, file[c].path>> \in Meanings
             /\ file[c].index + 1 \in DOMAIN keep
             /\ keep[file[c].index + 1] = file[c].path
  <2>1. PICK k \in DOMAIN p :
           p[k].id = c /\ file[c].index = k - 1 /\ file[c].path = p[k].path
    BY <1>4
  <2>2. file[c].index + 1 = k
    BY <1>3, <2>1
  <2> QED
    BY <1>1, <1>2, <2>1, <2>2 DEF Sound
<1>6. ASSUME NEW k \in DOMAIN keep
      PROVE  \E c \in Named(file) : file[c].index = k - 1
  <2> DEFINE c == p[k].id
  <2>1. k \in DOMAIN p /\ c \in Class
    BY <1>1, <1>3
  <2>2. PICK j \in DOMAIN p :
          p[j].id = c /\ file[c] = [index |-> j - 1, path |-> p[j].path]
    BY <1>1, <2>1
  <2>3. j = k
    BY <1>2, <2>1, <2>2 DEF Sound
  <2>4. file[c].index = k - 1
    BY <2>2, <2>3
  <2>5. NoGroup.index = -1 /\ k - 1 # -1
    BY <1>3, <2>1 DEF NoGroup
  <2>6. c \in Named(file)
    BY <2>1, <2>4, <2>5 DEF Named
  <2> QED
    BY <2>4, <2>6
<1>7. \A j, k \in DOMAIN keep :
         keep[j] = keep[k] /\ keep[j] # NoDesktop => j = k
  BY <1>1, <1>2 DEF Sound
<1>8. Noted(file, keep)
  BY <1>5, <1>6, <1>7 DEF Noted
<1> QED
  BY <1>8 DEF file, keep, p

(* Announcing a window keeps items sound, and the file as noted.           *)
LEMMA SoundStep ==
  ASSUME Coherent, path \in [Window -> DesktopOrNone], NEW st \in States,
         Sound(st.items), Noted(st.saved, st.kept), NEW w \in Window
  PROVE  /\ Sound(Step(st, w).items)
         /\ Noted(Step(st, w).saved, Step(st, w).kept)
<1> DEFINE its == Filed(st.items, w)
<1>1. /\ st.items \in Seq(ItemType)
      /\ st = [items |-> st.items, saved |-> st.saved, kept |-> st.kept]
  BY DEF States
<1>2. Sound(its) /\ its \in Seq(ItemType)
  BY <1>1, SoundFiled, Filing
<1>3. Step(st, w) = IF Renamed(st.items, w)
                    THEN [items |-> its, saved |-> Groups(its),
                          kept |-> Paths(Pinned(its))]
                    ELSE [st EXCEPT !.items = its]
  BY DEF Step
<1> HIDE DEF its
<1>4. Noted(Groups(its), Paths(Pinned(its)))
  BY <1>2, SavedNoted
<1> QED
  BY <1>1, <1>2, <1>3, <1>4

(* And so does announcing many.                                            *)
LEMMA SoundAfter ==
  ASSUME Coherent, path \in [Window -> DesktopOrNone], NEW st \in States,
         Sound(st.items), Noted(st.saved, st.kept), NEW ws \in Seq(Window)
  PROVE  /\ Sound(After(st, ws).items)
         /\ Noted(After(st, ws).saved, After(st, ws).kept)
<1> DEFINE S == {x \in States : Sound(x.items) /\ Noted(x.saved, x.kept)}
<1>1. \A x \in S : \A w \in Window : Step(x, w) \in S
  BY SoundStep, StepTypes
<1>2. st \in S
  OBVIOUS
<1> HIDE DEF S
<1>3. After(st, ws) \in S
  BY <1>1, <1>2, AfterSteps
<1> QED
  BY <1>3 DEF S

(* What is loaded is what the file has, once each.                         *)
LEMMA SoundLoaded ==
  ASSUME NEW file \in [Class -> Group], NEW exist \in SUBSET Desktop,
         NEW keep \in Seq(DesktopOrNone), Noted(file, keep)
  PROVE  Sound(Load(file, exist))
<1> DEFINE r == Load(file, exist)
           used == Used(file, exist)
<1>1. /\ IsFiniteSet(used) /\ used \in SUBSET Nat
      /\ DOMAIN r = 1 .. Cardinality(used)
      /\ \A k \in DOMAIN r : Nth(used, k) \in used
      /\ \A k \in DOMAIN r : \E c \in Here(file, exist, Nth(used, k)) :
            r[k] = FromFile(file, c)
  BY Loading
<1>2. \A i, j \in DOMAIN r : Nth(used, i) = Nth(used, j) => i = j
  BY <1>1, NthFacts
<1> HIDE DEF r, used
<1>3. ASSUME NEW k \in DOMAIN r
      PROVE  /\ r[k].id \in Named(file) /\ r[k].pinned
             /\ r[k].path = file[r[k].id].path
             /\ file[r[k].id].index = Nth(used, k) - 1
             /\ Nth(used, k) \in Nat
  <2>1. PICK c \in Here(file, exist, Nth(used, k)) : r[k] = FromFile(file, c)
    BY <1>1
  <2>2. r[k].id = c /\ r[k].path = file[c].path /\ r[k].pinned
    BY <2>1 DEF FromFile
  <2>3. c \in Named(file) /\ file[c].index = Nth(used, k) - 1
    BY DEF Here
  <2>4. Nth(used, k) \in Nat
    BY <1>1
  <2> QED
    BY <2>2, <2>3, <2>4
<1>4. ASSUME NEW j \in DOMAIN r, NEW k \in DOMAIN r,
             file[r[j].id].index = file[r[k].id].index
      PROVE  j = k
  BY <1>2, <1>3, <1>4
<1>5. ASSUME NEW j \in DOMAIN r, NEW k \in DOMAIN r,
             r[j].path = r[k].path, r[j].path # NoDesktop
      PROVE  j = k
  <2> DEFINE a == file[r[j].id].index
             b == file[r[k].id].index
  <2>1. a \in Int /\ b \in Int
    BY <1>3
  <2>2. /\ a + 1 \in DOMAIN keep /\ b + 1 \in DOMAIN keep
        /\ keep[a + 1] = r[j].path /\ keep[b + 1] = r[k].path
    BY <1>3 DEF Noted
  <2>3. a + 1 = b + 1
    BY <1>5, <2>2 DEF Noted
  <2>4. a = b
    BY <2>1, <2>3
  <2> QED
    BY <1>4, <2>4
<1>6. \A k \in DOMAIN r : <<r[k].id, r[k].path>> \in Meanings
  BY <1>3 DEF Noted
<1>7. Sound(r)
  BY <1>3, <1>4, <1>5, <1>6 DEF Sound
<1> QED
  BY <1>7 DEF r

(* What is saved comes back.                                               *)
LEMMA LoadedAgain ==
  ASSUME NEW file \in [Class -> Group], NEW exist \in SUBSET Desktop,
         NEW keep \in Seq(DesktopOrNone), Noted(file, keep)
  PROVE  Paths(Load(file, exist)) =
            Only(keep, {k \in DOMAIN keep : keep[k] \in exist})
<1> DEFINE r == Load(file, exist)
           used == Used(file, exist)
           K == {k \in DOMAIN keep : keep[k] \in exist}
<1>1. /\ IsFiniteSet(Named(file)) /\ Cardinality(Named(file)) \in Nat
      /\ DOMAIN r = 1 .. Cardinality(used)
      /\ \A k \in DOMAIN r : Nth(used, k) \in used
      /\ \A k \in DOMAIN r : \E c \in Here(file, exist, Nth(used, k)) :
            r[k] = FromFile(file, c)
  BY Loading
<1>2. Len(keep) \in Nat /\ DOMAIN keep = 1 .. Len(keep)
  OBVIOUS
<1>3. Len(keep) <= Cardinality(Named(file))
  <2> DEFINE f == [k \in 1 .. Len(keep) |->
                     CHOOSE c \in Named(file) : file[c].index = k - 1]
  <2>1. \A k \in 1 .. Len(keep) :
           f[k] \in Named(file) /\ file[f[k]].index = k - 1
    BY <1>2 DEF Noted
  <2>2. \A j, k \in 1 .. Len(keep) : f[j] = f[k] => j = k
    BY <1>2, <2>1
  <2>3. f \in [1 .. Len(keep) -> Named(file)]
    BY <2>1
  <2>4. f \in Injection(1 .. Len(keep), Named(file))
    BY <2>2, <2>3 DEF Injection, IsInjective
  <2>5. Cardinality(1 .. Len(keep)) <= Cardinality(Named(file))
    BY <1>1, <2>4, FS_Injection
  <2>6. Cardinality(1 .. Len(keep)) = Len(keep)
    <3> DEFINE n == Len(keep)
    <3>1. n \in Int /\ n >= 0 /\ 1 \in Int
      BY <1>2
    <3> HIDE DEF n
    <3>2. Cardinality(1 .. n) = IF 1 > n THEN 0 ELSE n - 1 + 1
      BY <3>1, FS_Interval
    <3>3. Cardinality(1 .. n) = n
      BY <3>1, <3>2
    <3> QED
      BY <3>3 DEF n
  <2> QED
    BY <2>5, <2>6
<1>4. \A n \in 1 .. Cardinality(Named(file)) :
         \A c \in Here(file, exist, n) :
            n \in DOMAIN keep /\ keep[n] = file[c].path /\ keep[n] \in exist
  <2> SUFFICES ASSUME NEW n \in 1 .. Cardinality(Named(file)),
                      NEW c \in Here(file, exist, n)
               PROVE  /\ n \in DOMAIN keep /\ keep[n] = file[c].path
                      /\ keep[n] \in exist
    OBVIOUS
  <2>1. c \in Named(file) /\ file[c].index = n - 1 /\ file[c].path \in exist
    BY DEF Here
  <2>2. file[c].index + 1 = n
    BY <1>1, <2>1
  <2> QED
    BY <2>1, <2>2 DEF Noted
<1>5. used = K
  <2>1. ASSUME NEW n \in used
        PROVE  n \in K
    BY <1>4 DEF Used
  <2>2. ASSUME NEW n \in K
        PROVE  n \in used
    <3>1. n \in 1 .. Cardinality(Named(file))
      BY <1>1, <1>2, <1>3
    <3>2. PICK c \in Named(file) : file[c].index = n - 1
      BY DEF Noted
    <3>3. file[c].index + 1 = n
      BY <1>2, <3>2
    <3>4. file[c].path = keep[n]
      BY <3>3 DEF Noted
    <3>5. c \in Here(file, exist, n)
      BY <3>2, <3>4 DEF Here
    <3> QED
      BY <3>1, <3>5 DEF Used
  <2> QED
    BY <2>1, <2>2
<1>6. ASSUME NEW k \in DOMAIN r
      PROVE  r[k].path = keep[Nth(used, k)]
  <2>1. PICK c \in Here(file, exist, Nth(used, k)) : r[k] = FromFile(file, c)
    BY <1>1
  <2>2. r[k].path = file[c].path
    BY <2>1 DEF FromFile
  <2>3. Nth(used, k) \in 1 .. Cardinality(Named(file))
    BY <1>1 DEF Used
  <2> QED
    BY <1>4, <2>2, <2>3
<1> HIDE DEF r, used, K
<1>7. Paths(r) = [k \in 1 .. Cardinality(K) |-> keep[Nth(K, k)]]
  BY <1>1, <1>5, <1>6 DEF Paths
<1> QED
  BY <1>7 DEF Only, r, K

(* Under Coherent items are sound, and the file has what was pinned.       *)
SoundInv == Coherent => Sound(items) /\ Noted(saved, kept)

(* The file of an earlier session is that of sound items.                  *)
LEMMA InitSound == Init => SoundInv
<1> SUFFICES ASSUME Init, Coherent
             PROVE  Sound(items) /\ Noted(saved, kept)
  BY DEF SoundInv
<1> DEFINE p == [k \in DOMAIN kept |-> NewPin(kept[k])]
<1>1. /\ kept \in Seq(Desktop) /\ p \in Seq(ItemType) /\ saved = Groups(p)
      /\ \A i, j \in DOMAIN kept : kept[i] = kept[j] => i = j
  BY FirstFile DEF Init
<1>2. \A k \in DOMAIN kept : kept[k] \in Desktop
  BY <1>1
<1>3. /\ DOMAIN p = DOMAIN kept
      /\ \A k \in DOMAIN p : /\ p[k].id = BaseName[kept[k]]
                             /\ p[k].path = kept[k] /\ p[k].pinned
  BY DEF NewPin
<1> HIDE DEF p
<1>4. Sound(p)
  <2>1. \A d \in Desktop : <<BaseName[d], d>> \in Meanings
    BY DEF Meanings
  <2>2. \A k \in DOMAIN p : <<p[k].id, p[k].path>> \in Meanings
    BY <1>2, <1>3, <2>1
  <2>3. \A j, k \in DOMAIN p : p[j].id = p[k].id => p[j].path = p[k].path
    BY <2>2, SameId
  <2> QED
    BY <1>1, <1>3, <2>2, <2>3 DEF Sound
<1>5. Paths(Pinned(p)) = kept
  <2> DEFINE n == Len(kept)
  <2>1. n \in Nat /\ DOMAIN kept = 1 .. n
    BY <1>1
  <2>2. {k \in DOMAIN p : p[k].pinned} = 1 .. n
    BY <1>3, <2>1
  <2>3. Pinned(p) = Only(p, 1 .. n)
    BY <2>2 DEF Pinned
  <2> HIDE DEF n
  <2>4. Cardinality(1 .. n) = n
    <3>1. n \in Int /\ 1 \in Int /\ n >= 0
      BY <2>1
    <3>2. Cardinality(1 .. n) = IF 1 > n THEN 0 ELSE n - 1 + 1
      BY <3>1, FS_Interval
    <3> QED
      BY <3>1, <3>2
  <2>5. ASSUME NEW k \in 1 .. n
        PROVE  Cardinality({j \in 1 .. n : j < k}) = k - 1
    <3>1. {j \in 1 .. n : j < k} = 1 .. k - 1
      BY <2>1
    <3>2. 1 \in Int /\ k - 1 \in Int /\ k - 1 >= 0
      BY <2>1
    <3>3. Cardinality(1 .. k - 1) = IF 1 > k - 1 THEN 0 ELSE k - 1 - 1 + 1
      BY <3>2, FS_Interval
    <3>4. Cardinality(1 .. k - 1) = k - 1
      BY <3>2, <3>3
    <3> HIDE DEF n
    <3> QED
      BY <3>1, <3>4
  <2>6. ASSUME NEW i \in 1 .. n
        PROVE  Nth(1 .. n, i) = i
    <3>1. \A k \in 1 .. n :
             Cardinality({j \in 1 .. n : j < k}) = i - 1 <=> k = i
      BY <2>1, <2>5
    <3> QED
      BY <3>1 DEF Nth
  <2>7. Only(p, 1 .. n) = [k \in 1 .. n |-> p[k]]
    BY <2>4, <2>6 DEF Only
  <2>8. Paths(Pinned(p)) = [k \in 1 .. n |-> kept[k]]
    BY <1>3, <2>1, <2>3, <2>7 DEF Paths
  <2> QED
    BY <1>1, <2>1, <2>8
<1>6. Noted(saved, kept)
  BY <1>1, <1>4, <1>5, SavedNoted
<1>7. Sound(items)
  BY DEF Init, Sound
<1> QED
  BY <1>6, <1>7

(* onWindowRemoved() keeps items sound: an empty item that is not pinned   *)
(* goes.                                                                   *)
LEMMA SoundTaken ==
  ASSUME NEW its \in Seq(ItemType), Sound(its), NEW w
  PROVE  Sound(WithoutWindow(its, w))
<1> DEFINE r == WithoutWindow(its, w)
           k == ByWindow(its, w)
<1>1. /\ k = 0 => r = its
      /\ k # 0 /\ Goes(Lost(its[k], w)) => Drawn(r, its, DOMAIN its \ {k})
      /\ k # 0 /\ ~Goes(Lost(its[k], w)) =>
            /\ DOMAIN r = DOMAIN its /\ r[k] = Lost(its[k], w)
            /\ \A j \in DOMAIN its : j # k => r[j] = its[j]
      /\ k # 0 => k \in DOMAIN its
  BY Taking, ByWindowFacts
<1> HIDE DEF r, k
<1>2. CASE k = 0
  BY <1>1, <1>2 DEF r
<1>3. CASE k # 0 /\ Goes(Lost(its[k], w))
  BY <1>1, <1>3, SoundDrawn DEF r
<1>4. CASE k # 0 /\ ~Goes(Lost(its[k], w))
  <2>1. k \in DOMAIN its /\ its[k] \in ItemType
    BY <1>1, <1>4
  <2>2. /\ r[k].id = its[k].id /\ r[k].path = its[k].path
        /\ r[k].pinned \/ r[k].wids # <<>>
    BY <1>1, <1>4, <2>1, Losing DEF Goes
  <2> QED
    BY <1>1, <1>4, <2>1, <2>2, SoundChanged DEF r
<1> QED
  BY <1>2, <1>3, <1>4

(* And so does unPin().                                                    *)
LEMMA SoundUnpinned ==
  ASSUME NEW its \in Seq(ItemType), Sound(its), NEW k \in DOMAIN its
  PROVE  Sound(Unpinned(its, k))
<1> DEFINE r == Unpinned(its, k)
<1>1. /\ its[k].wids = <<>> => Drawn(r, its, DOMAIN its \ {k})
      /\ its[k].wids # <<>> =>
            /\ DOMAIN r = DOMAIN its
            /\ r[k] = [its[k] EXCEPT !.pinned = FALSE]
            /\ \A j \in DOMAIN its : j # k => r[j] = its[j]
  BY Unpinning
<1> HIDE DEF r
<1>2. CASE its[k].wids = <<>>
  BY <1>1, <1>2, SoundDrawn DEF r
<1>3. CASE its[k].wids # <<>>
  <2>1. its[k] \in ItemType
    OBVIOUS
  <2>2. r[k].id = its[k].id /\ r[k].path = its[k].path /\ r[k].wids # <<>>
    BY <1>1, <1>3, <2>1 DEF ItemType
  <2> QED
    BY <1>1, <1>3, <2>2, SoundChanged DEF r
<1> QED
  BY <1>2, <1>3

(* pin, or a click: another flag or counter.                               *)
LEMMA SoundSet ==
  ASSUME NEW its \in Seq(ItemType), Sound(its), NEW k \in DOMAIN its,
         NEW n \in Nat
  PROVE  /\ Sound([its EXCEPT ![k].pinned = TRUE])
         /\ Sound([its EXCEPT ![k].current = n])
<1> DEFINE r == [its EXCEPT ![k].pinned = TRUE]
           s == [its EXCEPT ![k].current = n]
<1>1. /\ DOMAIN r = DOMAIN its /\ r[k] = [its[k] EXCEPT !.pinned = TRUE]
      /\ \A j \in DOMAIN its : j # k => r[j] = its[j]
      /\ DOMAIN s = DOMAIN its /\ s[k] = [its[k] EXCEPT !.current = n]
      /\ \A j \in DOMAIN its : j # k => s[j] = its[j]
  BY Setting
<1>2. its[k] \in ItemType
  OBVIOUS
<1> HIDE DEF r, s
<1>3. /\ r[k].id = its[k].id /\ r[k].path = its[k].path /\ r[k].pinned
      /\ s[k].id = its[k].id /\ s[k].path = its[k].path
      /\ s[k].pinned \/ s[k].wids # <<>>
  BY <1>1, <1>2 DEF ItemType, Sound
<1>4. Sound(r)
  BY <1>1, <1>3, SoundChanged
<1>5. Sound(s)
  BY <1>1, <1>3, SoundChanged
<1> QED
  BY <1>4, <1>5 DEF r, s

(* addItem() of a file that no item has adds an id that no item has.       *)
LEMMA SoundPinned ==
  ASSUME Coherent, NEW its \in Seq(ItemType), Sound(its), NEW d \in Desktop,
         ByDesktop(its, d) = 0
  PROVE  Sound(Append(its, NewPin(d)))
<1> DEFINE x == NewPin(d)
<1>1. x.id = BaseName[d] /\ x.path = d /\ x.pinned /\ x \in ItemType
  BY NewPinType DEF NewPin
<1> HIDE DEF x
<1>2. <<x.id, x.path>> \in Meanings
  BY <1>1 DEF Meanings
<1>3. \A k \in DOMAIN its : its[k].path # d
  BY ByDesktopFacts
<1>4. \A k \in DOMAIN its : its[k].id # x.id
  <2> SUFFICES ASSUME NEW k \in DOMAIN its, its[k].id = x.id
               PROVE  FALSE
    OBVIOUS
  <2>1. <<x.id, its[k].path>> \in Meanings
    BY DEF Sound
  <2>2. its[k].path = x.path
    BY <1>2, <2>1, SameId
  <2> QED
    BY <1>1, <1>3, <2>2
<1>5. Sound(Append(its, x))
  BY <1>1, <1>2, <1>3, <1>4, SoundAdded
<1> QED
  BY <1>5 DEF x

(* Every step keeps what SoundInv says.                                    *)
LEMMA NextSound == TypeOK /\ SoundInv /\ [Next]_vars => SoundInv'
<1> SUFFICES ASSUME TypeOK, SoundInv, [Next]_vars, Coherent'
             PROVE  Sound(items)' /\ Noted(saved, kept)'
  BY DEF SoundInv
<1>1. /\ items \in Seq(ItemType) /\ path \in [Window -> DesktopOrNone]
      /\ open \in Seq(Window) /\ installed \in SUBSET Desktop
      /\ saved \in [Class -> Group] /\ kept \in Seq(DesktopOrNone)
  BY DEF TypeOK
<1>2. path' = path
  BY DEF Next, vars, WOpen, WClose, Clicked, Pin, Unpin, AddItem, RemoveItem,
         Install, Move, Drop, Startup, DEnd, DStart, User
<1>3. Meanings' = Meanings /\ Coherent
  BY <1>2 DEF Meanings, Coherent
<1>4. Sound(items) /\ Noted(saved, kept)
  BY <1>3 DEF SoundInv
<1>5. ASSUME Sound(items'), Noted(saved', kept')
      PROVE  Sound(items)' /\ Noted(saved, kept)'
  BY <1>3, <1>5 DEF Sound, Noted, Named
<1>6. ASSUME NEW its \in Seq(ItemType), Sound(its), Store(its) \/ Change(its)
      PROVE  Sound(items)' /\ Noted(saved, kept)'
  <2>1. Noted(Groups(its), Paths(Pinned(its)))
    BY <1>6, SavedNoted
  <2>2. Sound(items') /\ Noted(saved', kept')
    BY <1>4, <1>6, <2>1 DEF Store, Change
  <2> QED
    BY <1>5, <2>2
<1>7. ASSUME UNCHANGED <<items, saved, kept>>
      PROVE  Sound(items)' /\ Noted(saved, kept)'
  BY <1>4, <1>5, <1>7
<1>8. /\ Now \in States /\ Now.items = items
      /\ Now.saved = saved /\ Now.kept = kept
  BY <1>1 DEF Now, States
<1>9. CASE UNCHANGED vars
  BY <1>7, <1>9 DEF vars
<1>10. ASSUME NEW w \in Window, WOpen(w)
       PROVE  Sound(items)' /\ Noted(saved, kept)'
  <2>1. CASE phase = "down"
    BY <1>7, <1>8, <1>10, <2>1 DEF WOpen, Put
  <2>2. CASE phase # "down"
    <3>1. Put(Step(Now, w))
      BY <1>10, <2>2 DEF WOpen
    <3>2. Sound(items') /\ Noted(saved', kept')
      BY <1>1, <1>3, <1>4, <1>8, <3>1, SoundStep DEF Put
    <3> QED
      BY <1>5, <3>2
  <2> QED
    BY <2>1, <2>2
<1>11. ASSUME NEW w \in Window, WClose(w)
       PROVE  Sound(items)' /\ Noted(saved, kept)'
  <2>1. /\ WithoutWindow(items, w) \in Seq(ItemType)
        /\ Sound(WithoutWindow(items, w))
    BY <1>1, <1>4, Taking, SoundTaken
  <2> QED
    BY <1>6, <1>11, <2>1 DEF WClose
<1>12. ASSUME NEW j \in DOMAIN items, Clicked(j)
       PROVE  Sound(items)' /\ Noted(saved, kept)'
  <2> DEFINE k == At(j)
             n == NextOf(items[k])
             r == [items EXCEPT ![k].current = n]
  <2>1. k \in DOMAIN items
    BY <1>1, AtFacts
  <2>2. n \in Nat
    <3>1. items[k] \in ItemType
      BY <1>1, <2>1
    <3> QED
      BY <3>1 DEF ItemType, NextOf
  <2>3. Change(r)
    BY <1>12 DEF Clicked
  <2> HIDE DEF n, k
  <2>4. Sound(r) /\ r \in Seq(ItemType)
    BY <1>1, <1>4, <2>1, <2>2, SoundSet, Setting
  <2> HIDE DEF r
  <2> QED
    BY <1>6, <2>3, <2>4
<1>13. ASSUME NEW k \in DOMAIN items,
              \/ Store([items EXCEPT ![k].pinned = TRUE])
              \/ Change([items EXCEPT ![k].pinned = TRUE])
       PROVE  Sound(items)' /\ Noted(saved, kept)'
  <2> DEFINE r == [items EXCEPT ![k].pinned = TRUE]
  <2>1. Sound(r) /\ r \in Seq(ItemType)
    BY <1>1, <1>4, SoundSet, Setting, 0 \in Nat
  <2>2. Store(r) \/ Change(r)
    BY <1>13
  <2> HIDE DEF r
  <2> QED
    BY <1>6, <2>1, <2>2
<1>14. ASSUME NEW k \in DOMAIN items, Store(Unpinned(items, k))
       PROVE  Sound(items)' /\ Noted(saved, kept)'
  <2>1. Unpinned(items, k) \in Seq(ItemType) /\ Sound(Unpinned(items, k))
    BY <1>1, <1>4, Unpinning, SoundUnpinned
  <2> QED
    BY <1>6, <1>14, <2>1
<1>15. ASSUME NEW j \in DOMAIN items, Pin(j) \/ Unpin(j)
       PROVE  Sound(items)' /\ Noted(saved, kept)'
  BY <1>1, <1>13, <1>14, <1>15, AtFacts DEF Pin, Unpin
<1>16. ASSUME NEW d \in Desktop, AddItem(d)
       PROVE  Sound(items)' /\ Noted(saved, kept)'
  <2>1. CASE ByDesktop(items, d) # 0
    <3>1. ByDesktop(items, d) \in DOMAIN items
      BY <1>1, <2>1, ByDesktopFacts
    <3>2. Change([items EXCEPT ![ByDesktop(items, d)].pinned = TRUE])
      BY <1>16, <2>1 DEF AddItem
    <3> QED
      BY <1>13, <3>1, <3>2
  <2>2. CASE ByDesktop(items, d) = 0
    <3> DEFINE r == Append(items, NewPin(d))
    <3>1. Store(r)
      BY <1>16, <2>2 DEF AddItem
    <3>2. Sound(r) /\ r \in Seq(ItemType)
      BY <1>1, <1>3, <1>4, <2>2, SoundPinned, NewPinType, Adding
    <3> HIDE DEF r
    <3> QED
      BY <1>6, <3>1, <3>2
  <2> QED
    BY <2>1, <2>2
<1>17. ASSUME NEW d \in Desktop, RemoveItem(d)
       PROVE  Sound(items)' /\ Noted(saved, kept)'
  <2>1. ByDesktop(items, d) \in DOMAIN items
    BY <1>1, <1>17, ByDesktopFacts DEF RemoveItem
  <2>2. At(ByDesktop(items, d)) \in DOMAIN items
    BY <1>1, <2>1, AtFacts
  <2> QED
    BY <1>14, <1>17, <2>2 DEF RemoveItem
<1>18. ASSUME NEW from \in DOMAIN items, NEW to \in DOMAIN items,
              Move(from, to)
       PROVE  Sound(items)' /\ Noted(saved, kept)'
  <2> DEFINE r == InsertAt(RemoveAt(items, from), to, items[from])
  <2>1. r \in Seq(ItemType) /\ Drawn(r, items, DOMAIN items)
    BY <1>1, MovingDrawn
  <2>2. Change(r)
    BY <1>18 DEF Move
  <2> HIDE DEF r
  <2>3. Sound(r)
    BY <1>4, <2>1, SoundDrawn
  <2> QED
    BY <1>6, <2>1, <2>2, <2>3
<1>19. CASE Drop
  BY <1>1, <1>4, <1>6, <1>19 DEF Drop
<1>20. CASE Startup
  <2>1. Put(After(Now, open))
    BY <1>20 DEF Startup, Announced
  <2>2. Sound(items') /\ Noted(saved', kept')
    BY <1>1, <1>3, <1>4, <1>8, <2>1, SoundAfter DEF Put
  <2> QED
    BY <1>5, <2>2
<1>21. CASE DEnd
  <2>1. Sound(<<>>)
    BY DEF Sound
  <2>2. items' = <<>> /\ UNCHANGED <<saved, kept>>
    BY <1>21 DEF DEnd
  <2>3. Sound(items') /\ Noted(saved', kept')
    BY <1>4, <2>1, <2>2
  <2> QED
    BY <1>5, <2>3
<1>22. CASE DStart
  <2>1. items' = Load(saved, installed) /\ UNCHANGED <<saved, kept>>
    BY <1>22 DEF DStart
  <2>2. Sound(items') /\ Noted(saved', kept')
    BY <1>1, <1>4, <2>1, SoundLoaded
  <2> QED
    BY <1>5, <2>2
<1>23. ASSUME NEW d \in Desktop, Install(d)
       PROVE  Sound(items)' /\ Noted(saved, kept)'
  BY <1>7, <1>23 DEF Install
<1> QED
  BY <1>9, <1>10, <1>11, <1>12, <1>15, <1>16, <1>17, <1>18, <1>19, <1>20,
     <1>21, <1>22, <1>23 DEF Next

(* No two items share an id, if an id means one application: pin, unPin    *)
(* and the groups of the file find the item they mean.                     *)
THEOREM IdsDistinctHolds == Spec => []IdsDistinct
<1>1. Init => TypeOK /\ SoundInv
  BY InitTypes, InitSound
<1>2. TypeOK /\ SoundInv /\ [Next]_vars => (TypeOK /\ SoundInv)'
  BY NextTypes, NextSound
<1>3. SoundInv => IdsDistinct
  BY DEF SoundInv, Sound, IdsDistinct
<1> QED
  BY <1>1, <1>2, <1>3, PTL DEF Spec

(* If an id means one application, what was saved last comes back at the   *)
(* next start, in its order, except for what has been removed since.       *)
THEOREM SurvivesHolds == Spec => []Survives
<1>1. Init => TypeOK /\ SoundInv
  BY InitTypes, InitSound
<1>2. TypeOK /\ SoundInv /\ [Next]_vars => (TypeOK /\ SoundInv)'
  BY NextTypes, NextSound
<1>3. TypeOK /\ SoundInv => Survives
  BY LoadedAgain DEF SoundInv, Survives, TypeOK
<1> QED
  BY <1>1, <1>2, <1>3, PTL DEF Spec
-----------------------------------------------------------------------------
(* Window v is in one item at most, and there once.                        *)
OnceOf(its, v) ==
    /\ \A j, k \in DOMAIN its :
          v \in ToSet(its[j].wids) /\ v \in ToSet(its[k].wids) => j = k
    /\ \A k \in DOMAIN its : Single(its[k].wids, v)

(* Drawn items have a window once if the others had.                       *)
LEMMA OnceDrawn ==
  ASSUME NEW its, NEW r, NEW K \in SUBSET DOMAIN its, Drawn(r, its, K),
         NEW v, OnceOf(its, v)
  PROVE  OnceOf(r, v)
<1>1. PICK m \in [DOMAIN r -> K] :
        /\ \A i, j \in DOMAIN r : m[i] = m[j] => i = j
        /\ \A k \in K : \E i \in DOMAIN r : m[i] = k
        /\ \A i \in DOMAIN r : r[i] = its[m[i]]
  BY DEF Drawn
<1>2. \A i \in DOMAIN r : m[i] \in DOMAIN its
  BY <1>1
<1> QED
  BY <1>1, <1>2 DEF OnceOf

(* Only the windows of the items matter.                                   *)
LEMMA OnceSame ==
  ASSUME NEW its, NEW r, DOMAIN r = DOMAIN its,
         \A k \in DOMAIN its : r[k].wids = its[k].wids,
         NEW v, OnceOf(its, v)
  PROVE  OnceOf(r, v)
BY DEF OnceOf

(* A new item has a window that no other has.                              *)
LEMMA OnceAdded ==
  ASSUME NEW its \in Seq(ItemType), NEW x \in ItemType, NEW v,
         OnceOf(its, v), Single(x.wids, v),
         v \in ToSet(x.wids) => ~Has(its, v)
  PROVE  OnceOf(Append(its, x), v)
<1> DEFINE r == Append(its, x)
           n == Len(its) + 1
<1>1. /\ DOMAIN r = DOMAIN its \cup {n} /\ n \notin DOMAIN its /\ r[n] = x
      /\ \A j \in DOMAIN its : r[j] = its[j]
  BY Adding
<1> HIDE DEF r, n
<1>2. \A k \in DOMAIN r : Single(r[k].wids, v)
  BY <1>1 DEF OnceOf
<1>3. \A j, k \in DOMAIN r :
         v \in ToSet(r[j].wids) /\ v \in ToSet(r[k].wids) => j = k
  BY <1>1 DEF OnceOf, Has
<1> QED
  BY <1>2, <1>3 DEF OnceOf, r

(* onWindowAdded() of a window that is filed nowhere files it once.        *)
LEMMA OnceFiled ==
  ASSUME Coherent, NEW its \in Seq(ItemType), Sound(its),
         path \in [Window -> DesktopOrNone], NEW w \in Window,
         NEW v, OnceOf(its, v), v # w \/ ~Has(its, v)
  PROVE  OnceOf(Filed(its, w), v)
<1> DEFINE r == Filed(its, w)
           at == FiledAt(its, w)
<1>1. /\ at \subseteq DOMAIN its
      /\ at = {} => r = Append(its, NewItem(w)) /\ NewItem(w) \in ItemType
      /\ at # {} =>
            /\ DOMAIN r = DOMAIN its
            /\ \A k \in DOMAIN its \ at : r[k] = its[k]
            /\ \A k \in at : r[k] = [its[k] EXCEPT !.wids = Append(@, w),
                                                   !.id = ClassOf[w]]
  BY Filing
<1>2. at = {} \/ \E k : at = {k}
  BY SoundFiled
<1> HIDE DEF r, at
<1>3. CASE at = {}
  <2> DEFINE x == NewItem(w)
  <2>1. x.wids = <<w>>
    BY DEF NewItem
  <2>2. Single(x.wids, v) /\ ToSet(x.wids) = {w}
    BY <2>1 DEF Single, ToSet
  <2>3. r = Append(its, x) /\ x \in ItemType
    BY <1>1, <1>3
  <2> HIDE DEF x
  <2>4. OnceOf(Append(its, x), v)
    BY <2>2, <2>3, OnceAdded
  <2> QED
    BY <2>3, <2>4 DEF r
<1>4. CASE at # {}
  <2>1. PICK k : at = {k}
    BY <1>2, <1>4
  <2>2. k \in DOMAIN its /\ DOMAIN r = DOMAIN its
        /\ \A j \in DOMAIN its : j # k => r[j] = its[j]
    BY <1>1, <1>4, <2>1
  <2>3. /\ Single(r[k].wids, v)
        /\ ToSet(r[k].wids) = ToSet(its[k].wids) \cup {w}
    <3>0. its[k] \in ItemType
      BY <2>2
    <3>1. its[k].wids \in Seq(Window)
      BY <3>0 DEF ItemType
    <3>2. r[k].wids = Append(its[k].wids, w)
      BY <1>1, <1>4, <2>1, <3>0 DEF ItemType
    <3>3. Single(its[k].wids, v)
      BY <2>2 DEF OnceOf
    <3>4. v \notin ToSet(its[k].wids) \/ v # w
      BY <2>2 DEF Has
    <3> QED
      BY <3>1, <3>2, <3>3, <3>4, MoreFacts
  <2>4. \A j \in DOMAIN r : Single(r[j].wids, v)
    BY <2>2, <2>3 DEF OnceOf
  <2>5. \A i, j \in DOMAIN r :
           v \in ToSet(r[i].wids) /\ v \in ToSet(r[j].wids) => i = j
    BY <2>2, <2>3 DEF OnceOf, Has
  <2> QED
    BY <2>4, <2>5 DEF OnceOf, r
<1> QED
  BY <1>3, <1>4

(* A window that is told of once, and was filed nowhere, is filed once.    *)
LEMMA OnceAfter ==
  ASSUME Coherent, path \in [Window -> DesktopOrNone], NEW st \in States,
         Sound(st.items), Noted(st.saved, st.kept), NEW ws \in Seq(Window),
         \A i, j \in DOMAIN ws : ws[i] = ws[j] => i = j,
         NEW v, OnceOf(st.items, v), v \notin ToSet(ws) \/ ~Has(st.items, v)
  PROVE  OnceOf(After(st, ws).items, v)
<1>1. PICK g :
        /\ g[0] = st
        /\ \A n \in 1 .. Len(ws) : g[n] = Step(g[n - 1], ws[n])
        /\ After(st, ws) = g[Len(ws)]
        /\ \A n \in 0 .. Len(ws) :
              /\ g[n] \in States
              /\ \A u : Has(g[n].items, u) <=>
                           \/ Has(st.items, u)
                           \/ \E i \in 1 .. n : u = ws[i]
  BY ToldFiled, Zenon
<1> DEFINE Good(n) == /\ Sound(g[n].items) /\ OnceOf(g[n].items, v)
                      /\ Noted(g[n].saved, g[n].kept)
           B == {n \in 0 .. Len(ws) : ~Good(n)}
<1>2. Len(ws) \in Nat /\ B \in SUBSET Nat /\ DOMAIN ws = 1 .. Len(ws)
  OBVIOUS
<1>3. ASSUME B # {}
      PROVE  FALSE
  <2>1. PICK n \in B : \A x \in B : n <= x
    BY <1>2, <1>3, LeastOne
  <2>2. n \in 0 .. Len(ws) /\ ~Good(n)
    OBVIOUS
  <2>3. n # 0
    <3>1. Good(0)
      BY <1>1
    <3> QED
      BY <2>2, <3>1
  <2>4. n \in 1 .. Len(ws) /\ n - 1 \in 0 .. Len(ws) /\ ~(n <= n - 1)
        /\ n - 1 \in Nat /\ ws[n] \in Window
    BY <1>2, <2>2, <2>3
  <2>5. n - 1 \notin B
    BY <2>1, <2>4
  <2>6. Good(n - 1) /\ g[n - 1] \in States
    BY <1>1, <2>4, <2>5
  <2>7. g[n] = Step(g[n - 1], ws[n])
    BY <1>1, <2>4
  <2>8. g[n].items = Filed(g[n - 1].items, ws[n])
        /\ g[n - 1].items \in Seq(ItemType)
    BY <2>6, <2>7, StepItems DEF States
  <2>9. v # ws[n] \/ ~Has(g[n - 1].items, v)
    <3> SUFFICES ASSUME v = ws[n], Has(g[n - 1].items, v)
                 PROVE  FALSE
      OBVIOUS
    <3>1. v \in ToSet(ws)
      BY <1>2, <2>4 DEF ToSet
    <3>2. \E i \in 1 .. n - 1 : v = ws[i]
      BY <1>1, <2>4, <3>1
    <3>3. PICK i \in 1 .. n - 1 : ws[i] = ws[n]
      BY <3>2
    <3>4. i \in 1 .. Len(ws) /\ i # n
      BY <2>4
    <3> QED
      BY <1>2, <2>4, <3>3, <3>4
  <2>10. OnceOf(g[n].items, v)
    BY <2>4, <2>6, <2>8, <2>9, OnceFiled
  <2>11. Sound(g[n].items) /\ Noted(g[n].saved, g[n].kept)
    BY <2>4, <2>6, <2>7, SoundStep
  <2> QED
    BY <2>2, <2>10, <2>11
<1>4. Good(Len(ws))
  BY <1>2, <1>3
<1> QED
  BY <1>1, <1>4

(* A window that is in one item only is gone when it is closed.            *)
LEMMA OnceTaken ==
  ASSUME NEW its \in Seq(ItemType), NEW w
  PROVE  /\ \A v : OnceOf(its, v) => OnceOf(WithoutWindow(its, w), v)
         /\ OnceOf(its, w) => ~Has(WithoutWindow(its, w), w)
<1> DEFINE r == WithoutWindow(its, w)
           k == ByWindow(its, w)
<1>1. /\ k = 0 => r = its
      /\ k # 0 /\ Goes(Lost(its[k], w)) => Drawn(r, its, DOMAIN its \ {k})
      /\ k # 0 /\ ~Goes(Lost(its[k], w)) =>
            /\ DOMAIN r = DOMAIN its /\ r[k] = Lost(its[k], w)
            /\ \A j \in DOMAIN its : j # k => r[j] = its[j]
      /\ k # 0 => k \in DOMAIN its /\ w \in ToSet(its[k].wids)
      /\ k = 0 => \A j \in DOMAIN its : w \notin ToSet(its[j].wids)
  BY Taking, ByWindowFacts
<1>2. ASSUME k # 0
      PROVE  /\ ToSet(Lost(its[k], w).wids) \subseteq ToSet(its[k].wids)
             /\ \A v : Single(its[k].wids, v)
                          => Single(Lost(its[k], w).wids, v)
             /\ Single(its[k].wids, w) => w \notin ToSet(Lost(its[k], w).wids)
  <2>1. its[k] \in ItemType
    BY <1>1, <1>2
  <2>2. its[k].wids \in Seq(Window)
    BY <2>1 DEF ItemType
  <2>3. Lost(its[k], w).wids = RemoveFirst(its[k].wids, w)
    BY <2>1, Losing
  <2> QED
    BY <2>2, <2>3, RestFacts
<1> HIDE DEF r, k
<1>3. CASE k = 0
  BY <1>1, <1>3 DEF r, Has
<1>4. CASE k # 0 /\ Goes(Lost(its[k], w))
  <2>1. \A v : OnceOf(its, v) => OnceOf(r, v)
    BY <1>1, <1>4, OnceDrawn
  <2>2. \A v : Has(r, v) <=>
           \E j \in DOMAIN its \ {k} : v \in ToSet(its[j].wids)
    BY <1>1, <1>4, DrawnKeeps
  <2>3. OnceOf(its, w) => ~Has(r, w)
    BY <1>1, <1>4, <2>2 DEF OnceOf
  <2> QED
    BY <2>1, <2>3 DEF r
<1>5. CASE k # 0 /\ ~Goes(Lost(its[k], w))
  <2>1. /\ k \in DOMAIN its /\ DOMAIN r = DOMAIN its
        /\ \A j \in DOMAIN its : j # k => r[j] = its[j]
        /\ ToSet(r[k].wids) \subseteq ToSet(its[k].wids)
        /\ \A v : Single(its[k].wids, v) => Single(r[k].wids, v)
        /\ Single(its[k].wids, w) => w \notin ToSet(r[k].wids)
    BY <1>1, <1>2, <1>5
  <2>2. \A v : OnceOf(its, v) => OnceOf(r, v)
    BY <2>1 DEF OnceOf
  <2>3. OnceOf(its, w) => ~Has(r, w)
    BY <1>1, <1>5, <2>1 DEF OnceOf, Has
  <2> QED
    BY <2>2, <2>3 DEF r
<1> QED
  BY <1>3, <1>4, <1>5

(* unPin() duplicates no window, ...                                       *)
LEMMA OnceUnpinned ==
  ASSUME NEW its \in Seq(ItemType), NEW k \in DOMAIN its,
         NEW v, OnceOf(its, v)
  PROVE  OnceOf(Unpinned(its, k), v)
<1> DEFINE r == Unpinned(its, k)
<1>1. /\ its[k].wids = <<>> => Drawn(r, its, DOMAIN its \ {k})
      /\ its[k].wids # <<>> =>
            /\ DOMAIN r = DOMAIN its
            /\ r[k] = [its[k] EXCEPT !.pinned = FALSE]
            /\ \A j \in DOMAIN its : j # k => r[j] = its[j]
  BY Unpinning
<1> HIDE DEF r
<1>2. CASE its[k].wids = <<>>
  BY <1>1, <1>2, OnceDrawn DEF r
<1>3. CASE its[k].wids # <<>>
  <2>1. its[k] \in ItemType
    OBVIOUS
  <2>2. r[k].wids = its[k].wids
    BY <1>1, <1>3, <2>1 DEF ItemType
  <2>3. DOMAIN r = DOMAIN its /\ \A j \in DOMAIN its : r[j].wids = its[j].wids
    BY <1>1, <1>3, <2>2
  <2> QED
    BY <2>3, OnceSame DEF r
<1> QED
  BY <1>2, <1>3

(* ... nor do pin() and clicked().                                         *)
LEMMA OnceSet ==
  ASSUME NEW its \in Seq(ItemType), NEW k \in DOMAIN its, NEW n \in Nat,
         NEW v, OnceOf(its, v)
  PROVE  /\ OnceOf([its EXCEPT ![k].pinned = TRUE], v)
         /\ OnceOf([its EXCEPT ![k].current = n], v)
<1> DEFINE r == [its EXCEPT ![k].pinned = TRUE]
           s == [its EXCEPT ![k].current = n]
<1>1. /\ DOMAIN r = DOMAIN its /\ r[k] = [its[k] EXCEPT !.pinned = TRUE]
      /\ \A j \in DOMAIN its : j # k => r[j] = its[j]
      /\ DOMAIN s = DOMAIN its /\ s[k] = [its[k] EXCEPT !.current = n]
      /\ \A j \in DOMAIN its : j # k => s[j] = its[j]
  BY Setting
<1>2. its[k] \in ItemType
  OBVIOUS
<1> HIDE DEF r, s
<1>3. r[k].wids = its[k].wids /\ s[k].wids = its[k].wids
  BY <1>1, <1>2 DEF ItemType
<1>4. OnceOf(r, v)
  BY <1>1, <1>3 DEF OnceOf
<1>5. OnceOf(s, v)
  BY <1>1, <1>3 DEF OnceOf
<1> QED
  BY <1>4, <1>5 DEF r, s

(* The list of windows has each once, and the dock was told only of those  *)
(* that are or were on it.  What is filed is on it, or was told of twice.  *)
GhostInv ==
    /\ \A i, j \in DOMAIN open : open[i] = open[j] => i = j
    /\ noticed \subseteq ToSet(open) \cup closed
    /\ phase # "ready" => twice = {}
    /\ \A v \in Window : Has(items, v) => v \in noticed
    /\ Coherent =>
          /\ \A v \in Window : Has(items, v) => v \in twice \cup ToSet(open)
          /\ \A v \in Window \ twice : OnceOf(items, v)

(* Before the first start no window is open.                               *)
LEMMA InitGhost == Init => GhostInv
<1> SUFFICES ASSUME Init
             PROVE  GhostInv
  OBVIOUS
<1>1. DOMAIN open = {} /\ DOMAIN items = {} /\ noticed = {} /\ twice = {}
  BY DEF Init
<1> QED
  BY <1>1 DEF GhostInv, Has, OnceOf

(* Every step keeps what GhostInv says: the two announcements of a window  *)
(* at startup are the only way to have it twice.                           *)
LEMMA NextGhost == TypeOK /\ SoundInv /\ GhostInv /\ [Next]_vars => GhostInv'
<1> SUFFICES ASSUME TypeOK, SoundInv, GhostInv, [Next]_vars
             PROVE  GhostInv'
  OBVIOUS
<1>1. /\ items \in Seq(ItemType) /\ path \in [Window -> DesktopOrNone]
      /\ open \in Seq(Window) /\ installed \in SUBSET Desktop
      /\ saved \in [Class -> Group] /\ kept \in Seq(DesktopOrNone)
      /\ noticed \subseteq Window /\ twice \subseteq Window
      /\ closed \subseteq Window
  BY DEF TypeOK
<1>2. path' = path
  BY DEF Next, vars, WOpen, WClose, Clicked, Pin, Unpin, AddItem, RemoveItem,
         Install, Move, Drop, Startup, DEnd, DStart, User
<1>3. Coherent' = Coherent
  BY <1>2 DEF Meanings, Coherent
<1>4. Coherent => Sound(items) /\ Noted(saved, kept)
  BY DEF SoundInv
<1>5. /\ Now \in States /\ Now.items = items
      /\ Now.saved = saved /\ Now.kept = kept
  BY <1>1 DEF Now, States
<1>6. ASSUME \A i, j \in DOMAIN open' : open'[i] = open'[j] => i = j,
             noticed' \subseteq ToSet(open') \cup closed',
             phase' # "ready" => twice' = {},
             \A v \in Window : Has(items', v) => v \in noticed',
             Coherent => \A v \in Window : Has(items', v) =>
                                              v \in twice' \cup ToSet(open'),
             Coherent => \A v \in Window \ twice' : OnceOf(items', v)
      PROVE  GhostInv'
  <2>1. \A v : Has(items', v) = Has(items, v)'
    BY DEF Has
  <2>2. \A v : OnceOf(items', v) = OnceOf(items, v)'
    BY DEF OnceOf, Single
  <2>3. ToSet(open') = ToSet(open)'
    BY DEF ToSet
  <2> QED
    BY <1>3, <1>6, <2>1, <2>2, <2>3 DEF GhostInv
<1>7. ASSUME UNCHANGED <<open, noticed, closed, twice, phase>>,
             \A v : Has(items', v) => Has(items, v),
             \A v : OnceOf(items, v) => OnceOf(items', v)
      PROVE  GhostInv'
  BY <1>6, <1>7 DEF GhostInv
<1>8. ASSUME NEW its, Store(its) \/ Change(its), User,
             \A v : Has(its, v) <=> Has(items, v),
             \A v : OnceOf(items, v) => OnceOf(its, v)
      PROVE  GhostInv'
  <2>1. items' = its /\ UNCHANGED <<open, noticed, closed, twice, phase>>
    BY <1>8 DEF Store, Change, User
  <2> QED
    BY <1>7, <1>8, <2>1
<1>9. CASE UNCHANGED vars
  BY <1>7, <1>9 DEF vars
<1>10. ASSUME NEW w \in Window, WOpen(w)
       PROVE  GhostInv'
  <2>1. /\ w \notin ToSet(open) /\ w \notin closed
        /\ open' = Append(open, w)
        /\ phase' = phase /\ closed' = closed /\ twice' = twice
    BY <1>10 DEF WOpen
  <2>2. ToSet(open') = ToSet(open) \cup {w}
    BY <1>1, <2>1, MoreFacts
  <2>3. \A i, j \in DOMAIN open' : open'[i] = open'[j] => i = j
    <3>1. /\ DOMAIN open' = DOMAIN open \cup {Len(open) + 1}
          /\ open'[Len(open) + 1] = w
          /\ \A i \in DOMAIN open : open'[i] = open[i]
      BY <1>1, <2>1
    <3>2. \A i \in DOMAIN open : open[i] # w
      BY <1>1, <2>1 DEF ToSet
    <3> QED
      BY <3>1, <3>2 DEF GhostInv
  <2>4. CASE phase = "down"
    <3>1. items' = items /\ noticed' = noticed
      BY <1>5, <1>10, <2>4 DEF WOpen, Put
    <3> QED
      BY <1>6, <2>1, <2>2, <2>3, <3>1 DEF GhostInv
  <2>5. CASE phase # "down"
    <3>1. items' = Filed(items, w) /\ noticed' = noticed \cup {w}
      BY <1>5, <1>10, <2>5, StepItems DEF WOpen, Put
    <3>2. \A v : Has(items', v) <=> Has(items, v) \/ v = w
      BY <1>1, <3>1, FilingKeeps
    <3>3. ~Has(items, w)
      BY <2>1 DEF GhostInv
    <3>4. ASSUME Coherent, NEW v \in Window \ twice
          PROVE  OnceOf(items', v)
      <4>1. OnceOf(items, v)
        BY <3>4 DEF GhostInv
      <4>2. v # w \/ ~Has(items, v)
        BY <3>3
      <4> QED
        BY <1>1, <1>4, <3>1, <3>4, <4>1, <4>2, OnceFiled
    <3>5. \A v \in Window : Has(items', v) => v \in noticed'
      BY <3>1, <3>2 DEF GhostInv
    <3>6. Coherent => \A v \in Window :
             Has(items', v) => v \in twice' \cup ToSet(open')
      BY <2>1, <2>2, <3>2 DEF GhostInv
    <3>7. noticed' \subseteq ToSet(open') \cup closed'
      BY <2>1, <2>2, <3>1 DEF GhostInv
    <3>8. phase' # "ready" => twice' = {}
      BY <2>1 DEF GhostInv
    <3> QED
      BY <1>6, <2>1, <2>3, <3>4, <3>5, <3>6, <3>7, <3>8
  <2> QED
    BY <2>4, <2>5
<1>11. ASSUME NEW w \in Window, WClose(w)
       PROVE  GhostInv'
  <2> DEFINE K == {k \in DOMAIN open : open[k] # w}
  <2>1. /\ open' = Only(open, K) /\ items' = WithoutWindow(items, w)
        /\ closed' = closed \cup {w}
        /\ phase' = phase /\ noticed' = noticed /\ twice' = twice
    BY <1>11 DEF WClose, Change
  <2>2. Drawn(open', open, K)
    BY <1>1, <2>1, OnlyDrawn
  <2>3. PICK m \in [DOMAIN open' -> K] :
          /\ \A i, j \in DOMAIN open' : m[i] = m[j] => i = j
          /\ \A k \in K : \E i \in DOMAIN open' : m[i] = k
          /\ \A i \in DOMAIN open' : open'[i] = open[m[i]]
    BY <2>2 DEF Drawn
  <2>4. \A i, j \in DOMAIN open' : open'[i] = open'[j] => i = j
    <3>1. \A i \in DOMAIN open' : m[i] \in DOMAIN open
      BY <2>3
    <3> QED
      BY <2>3, <3>1 DEF GhostInv
  <2>5. ToSet(open) \ {w} \subseteq ToSet(open')
    <3> SUFFICES ASSUME NEW v \in ToSet(open), v # w
                 PROVE  v \in ToSet(open')
      OBVIOUS
    <3>1. PICK k \in DOMAIN open : open[k] = v
      BY DEF ToSet
    <3>2. k \in K
      BY <3>1
    <3>3. PICK i \in DOMAIN open' : m[i] = k
      BY <2>3, <3>2
    <3>4. open'[i] = v
      BY <2>3, <3>1, <3>3
    <3> QED
      BY <3>4 DEF ToSet
  <2>6. \A v : Has(items', v) => Has(items, v)
    BY <1>1, <2>1, TakingKeeps
  <2>7. /\ \A v : OnceOf(items, v) => OnceOf(items', v)
        /\ OnceOf(items, w) => ~Has(items', w)
    BY <1>1, <2>1, OnceTaken
  <2>8. Coherent => \A v \in Window :
           Has(items', v) => v \in twice' \cup ToSet(open')
    <3> SUFFICES ASSUME Coherent, NEW v \in Window, Has(items', v),
                        v \notin twice
                 PROVE  v \in ToSet(open')
      BY <2>1
    <3>1. OnceOf(items, v) /\ v \in ToSet(open)
      BY <2>6 DEF GhostInv
    <3> QED
      BY <2>5, <2>7, <3>1
  <2>9. Coherent => \A v \in Window \ twice' : OnceOf(items', v)
    BY <2>1, <2>7 DEF GhostInv
  <2>10. noticed' \subseteq ToSet(open') \cup closed'
    BY <2>1, <2>5 DEF GhostInv
  <2>11. \A v \in Window : Has(items', v) => v \in noticed'
    BY <2>1, <2>6 DEF GhostInv
  <2>12. phase' # "ready" => twice' = {}
    BY <2>1 DEF GhostInv
  <2> QED
    BY <1>6, <2>4, <2>8, <2>9, <2>10, <2>11, <2>12
<1>12. ASSUME NEW j \in DOMAIN items, Clicked(j)
       PROVE  GhostInv'
  <2> DEFINE k == At(j)
             n == NextOf(items[k])
             r == [items EXCEPT ![k].current = n]
  <2>1. k \in DOMAIN items /\ Len(items[k].wids) > 1
    BY <1>1, <1>12, AtFacts DEF Clicked
  <2>2. n \in Nat
    <3>1. items[k] \in ItemType
      BY <1>1, <2>1
    <3> QED
      BY <3>1 DEF ItemType, NextOf
  <2>3. Change(r) /\ User
    BY <1>12 DEF Clicked
  <2>4. \A v : Has(r, v) <=> Has(items, v)
    BY <1>1, <2>1, ClickingKeeps
  <2> HIDE DEF n, k
  <2>5. \A v : OnceOf(items, v) => OnceOf(r, v)
    BY <1>1, <2>1, <2>2, OnceSet
  <2> HIDE DEF r
  <2> QED
    BY <1>8, <2>3, <2>4, <2>5
<1>13. ASSUME NEW k \in DOMAIN items, User,
              \/ Store([items EXCEPT ![k].pinned = TRUE])
              \/ Change([items EXCEPT ![k].pinned = TRUE])
       PROVE  GhostInv'
  <2> DEFINE r == [items EXCEPT ![k].pinned = TRUE]
  <2>1. \A v : Has(r, v) <=> Has(items, v)
    BY <1>1, PinningKeeps
  <2>2. \A v : OnceOf(items, v) => OnceOf(r, v)
    BY <1>1, OnceSet, 0 \in Nat
  <2>3. Store(r) \/ Change(r)
    BY <1>13
  <2> HIDE DEF r
  <2> QED
    BY <1>8, <1>13, <2>1, <2>2, <2>3
<1>14. ASSUME NEW k \in DOMAIN items, User, Store(Unpinned(items, k))
       PROVE  GhostInv'
  <2>1. /\ \A v : Has(Unpinned(items, k), v) <=> Has(items, v)
        /\ \A v : OnceOf(items, v) => OnceOf(Unpinned(items, k), v)
    BY <1>1, UnpinningKeeps, OnceUnpinned
  <2> QED
    BY <1>8, <1>14, <2>1
<1>15. ASSUME NEW j \in DOMAIN items, Pin(j) \/ Unpin(j)
       PROVE  GhostInv'
  BY <1>1, <1>13, <1>14, <1>15, AtFacts DEF Pin, Unpin
<1>16. ASSUME NEW d \in Desktop, AddItem(d)
       PROVE  GhostInv'
  <2>1. CASE ByDesktop(items, d) # 0
    <3>1. ByDesktop(items, d) \in DOMAIN items
      BY <1>1, <2>1, ByDesktopFacts
    <3>2. Change([items EXCEPT ![ByDesktop(items, d)].pinned = TRUE]) /\ User
      BY <1>16, <2>1 DEF AddItem
    <3> QED
      BY <1>13, <3>1, <3>2
  <2>2. CASE ByDesktop(items, d) = 0
    <3> DEFINE x == NewPin(d)
               r == Append(items, x)
    <3>1. Store(r) /\ User
      BY <1>16, <2>2 DEF AddItem
    <3>2. \A v : Has(r, v) <=> Has(items, v)
      BY <1>1, NewPinKeeps
    <3>3. x \in ItemType /\ x.wids = <<>>
      BY NewPinType DEF NewPin
    <3> HIDE DEF x
    <3>4. \A v : Single(x.wids, v) /\ v \notin ToSet(x.wids)
      BY <3>3 DEF Single, ToSet
    <3>5. \A v : OnceOf(items, v) => OnceOf(r, v)
      BY <1>1, <3>3, <3>4, OnceAdded
    <3> HIDE DEF r
    <3> QED
      BY <1>8, <3>1, <3>2, <3>5
  <2> QED
    BY <2>1, <2>2
<1>17. ASSUME NEW d \in Desktop, RemoveItem(d)
       PROVE  GhostInv'
  <2>1. ByDesktop(items, d) \in DOMAIN items
    BY <1>1, <1>17, ByDesktopFacts DEF RemoveItem
  <2>2. At(ByDesktop(items, d)) \in DOMAIN items
    BY <1>1, <2>1, AtFacts
  <2> QED
    BY <1>14, <1>17, <2>2 DEF RemoveItem
<1>18. ASSUME NEW from \in DOMAIN items, NEW to \in DOMAIN items,
              Move(from, to)
       PROVE  GhostInv'
  <2> DEFINE r == InsertAt(RemoveAt(items, from), to, items[from])
  <2>1. Drawn(r, items, DOMAIN items)
    BY <1>1, MovingDrawn
  <2>2. \A v : Has(r, v) <=> Has(items, v)
    BY <1>1, MovingKeeps
  <2>3. Change(r) /\ User
    BY <1>18 DEF Move
  <2> HIDE DEF r
  <2>4. \A v : OnceOf(items, v) => OnceOf(r, v)
    BY <2>1, OnceDrawn
  <2> QED
    BY <1>8, <2>2, <2>3, <2>4
<1>19. CASE Drop
  BY <1>8, <1>19 DEF Drop
<1>20. CASE Startup
  <2>1. /\ items' = After(Now, open).items /\ phase = "starting"
        /\ twice' = noticed \cap ToSet(open) /\ phase' = "ready"
        /\ noticed' = noticed \cup ToSet(open)
        /\ open' = open /\ closed' = closed
    BY <1>20 DEF Startup, Announced, Put
  <2>2. \A v : Has(items', v) <=> Has(items, v) \/ v \in ToSet(open)
    BY <1>1, <1>5, <2>1, AfterKeeps
  <2>3. twice = {}
    BY <2>1 DEF GhostInv
  <2>4. ASSUME Coherent, NEW v \in Window \ twice'
        PROVE  OnceOf(items', v)
    <3>1. OnceOf(items, v)
      BY <2>3, <2>4 DEF GhostInv
    <3>2. v \notin ToSet(open) \/ ~Has(items, v)
      BY <2>1 DEF GhostInv
    <3>3. \A i, j \in DOMAIN open : open[i] = open[j] => i = j
      BY DEF GhostInv
    <3> QED
      BY <1>1, <1>4, <1>5, <2>1, <2>4, <3>1, <3>2, <3>3, OnceAfter
  <2>5. Coherent => \A v \in Window :
           Has(items', v) => v \in twice' \cup ToSet(open')
    BY <2>1, <2>2, <2>3 DEF GhostInv
  <2>6. \A v \in Window : Has(items', v) => v \in noticed'
    BY <2>1, <2>2 DEF GhostInv
  <2>7. noticed' \subseteq ToSet(open') \cup closed'
    BY <2>1 DEF GhostInv
  <2>8. \A i, j \in DOMAIN open' : open'[i] = open'[j] => i = j
    BY <2>1 DEF GhostInv
  <2> QED
    BY <1>6, <2>1, <2>4, <2>5, <2>6, <2>7, <2>8
<1>21. CASE DEnd
  <2>1. /\ items' = <<>> /\ noticed' = {} /\ twice' = {}
        /\ open' = open /\ closed' = closed
    BY <1>21 DEF DEnd
  <2>2. \A v : ~Has(items', v) /\ OnceOf(items', v)
    BY <2>1 DEF Has, OnceOf
  <2>3. \A i, j \in DOMAIN open' : open'[i] = open'[j] => i = j
    BY <2>1 DEF GhostInv
  <2> QED
    BY <1>6, <2>1, <2>2, <2>3
<1>22. CASE DStart
  <2>1. /\ items' = Load(saved, installed) /\ phase = "down"
        /\ UNCHANGED <<open, closed, noticed, twice>>
    BY <1>22 DEF DStart
  <2>2. twice' = {}
    BY <2>1 DEF GhostInv
  <2>3. ASSUME NEW k \in DOMAIN items'
        PROVE  items'[k].wids = <<>>
    <3>1. \E c : items'[k] = FromFile(saved, c)
      BY <1>1, <2>1, Loading
    <3> QED
      BY <3>1 DEF FromFile
  <2>4. \A v : ~Has(items', v) /\ OnceOf(items', v)
    <3>1. ToSet(<<>>) = {} /\ \A v : Single(<<>>, v)
      BY DEF ToSet, Single
    <3> QED
      BY <2>3, <3>1 DEF Has, OnceOf
  <2>5. /\ \A i, j \in DOMAIN open' : open'[i] = open'[j] => i = j
        /\ noticed' \subseteq ToSet(open') \cup closed'
    BY <2>1 DEF GhostInv
  <2> QED
    BY <1>6, <2>2, <2>4, <2>5
<1>23. ASSUME NEW d \in Desktop, Install(d)
       PROVE  GhostInv'
  BY <1>7, <1>23 DEF Install
<1> QED
  BY <1>9, <1>10, <1>11, <1>12, <1>15, <1>16, <1>17, <1>18, <1>19, <1>20,
     <1>21, <1>22, <1>23 DEF Next

(* What that means for an item: it is pinned or has a window, and its      *)
(* windows are open and filed nowhere else.                                *)
LEMMA GhostProperty == TypeOK /\ SoundInv /\ GhostInv => NoGhost
<1> SUFFICES ASSUME TypeOK, SoundInv, GhostInv, Coherent,
                    NEW k \in DOMAIN items
             PROVE  /\ items[k].pinned \/ items[k].wids # <<>>
                    /\ \A w \in ToSet(items[k].wids) \ twice :
                          w \in ToSet(open) /\ ByWindow(items, w) = k
  BY DEF NoGhost
<1>1. items \in Seq(ItemType)
  BY DEF TypeOK
<1>2. items[k].pinned \/ items[k].wids # <<>>
  BY DEF SoundInv, Sound
<1>3. ASSUME NEW w \in ToSet(items[k].wids) \ twice
      PROVE  w \in ToSet(open) /\ ByWindow(items, w) = k
  <2>1. w \in Window
    <3>1. items[k] \in ItemType
      BY <1>1
    <3>2. items[k].wids \in Seq(Window)
      BY <3>1 DEF ItemType
    <3> QED
      BY <3>2 DEF ToSet
  <2>2. Has(items, w)
    BY DEF Has
  <2>3. w \in ToSet(open) /\ OnceOf(items, w)
    BY <2>1, <2>2 DEF GhostInv
  <2>4. /\ ByWindow(items, w) \in DOMAIN items
        /\ w \in ToSet(items[ByWindow(items, w)].wids)
    BY <1>1, ByWindowFacts
  <2> QED
    BY <2>3, <2>4 DEF OnceOf
<1> QED
  BY <1>2, <1>3

(* If an id means one application, there is no item without a window       *)
(* unless it is pinned, and a window that was announced once is open and   *)
(* in one item.                                                            *)
THEOREM NoGhostHolds == Spec => []NoGhost
<1> DEFINE Inv == TypeOK /\ SoundInv /\ GhostInv
<1>1. Init => Inv
  BY InitTypes, InitSound, InitGhost
<1>2. Inv /\ [Next]_vars => Inv'
  BY NextTypes, NextSound, NextGhost
<1>3. Inv => NoGhost
  BY GhostProperty
<1> QED
  BY <1>1, <1>2, <1>3, PTL DEF Spec
=============================================================================
