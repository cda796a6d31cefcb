---------------------------- MODULE ApplicationModel ----------------------------
(***************************************************************************)
(* The dock's list of applications (applicationmodel.cpp): pinned ones and *)
(* those that have windows, and the file that keeps the pinned ones from   *)
(* one session to the next.                                                *)
(*                                                                         *)
(* A window is filed under the item with its desktop file, or else with    *)
(* its class.  Which desktop file is found for a window is a matter of     *)
(* guesses (Utils::desktopPathFromMetadata()); any outcome is possible, it *)
(* stays the same while the window lives.  The launcher's own item, which  *)
(* has no windows and cannot be pinned, is left out.                       *)
(***************************************************************************)
EXTENDS Integers, Sequences, FiniteSets, SequencesExt

CONSTANTS
    Window,
    Class,        \* window classes and base names of desktop files
    ClassOf,      \* the class of a window
    Desktop,      \* desktop files
    BaseName,     \* of a desktop file
    NoDesktop,    \* an empty desktopPath
    MaxEvents     \* bound: what the user does, restarts and (un)installations

ASSUME DockAssumption ==
    /\ IsFiniteSet(Class) /\ IsFiniteSet(Desktop)
    /\ ClassOf \in [Window -> Class] /\ BaseName \in [Desktop -> Class]
    /\ NoDesktop \notin Desktop
    /\ MaxEvents \in Nat

VARIABLES
    items,        \* m_appItems
    saved,        \* groups of the file dock_pinned
    phase,        \* down; starting; ready: startInitWindows() was called
    open,         \* KWindowSystem's list of windows, the oldest first
    path,         \* the desktop file that is found for a window
    installed,    \* desktop files that exist
    closed,       \* windows that have been; their ids are not used again
    noticed,      \* history: windows this process was told of ...
    twice,        \* ... and those it was told of twice
    kept,         \* history: desktop files of what was saved last, in order
    events

vars == <<items, saved, phase, open, path, installed, closed, noticed, twice, kept,
          events>>

DesktopOrNone == Desktop \cup {NoDesktop}
ItemType == [id : Class, path : DesktopOrNone, wids : Seq(Window),
             current : Nat, pinned : BOOLEAN]
NoGroup == [index |-> -1, path |-> NoDesktop]
Group == [index : Nat \cup {-1}, path : DesktopOrNone]

Event == events < MaxEvents /\ events' = events + 1
-----------------------------------------------------------------------------
(* findItemByDesktop(), findItemById(), findItemByWId(): 0 is a null item. *)
ByDesktopPinned(its, p) ==                                       \* mutant
    SelectInSeq(its, LAMBDA it : it.path = p /\ it.pinned)
ByDesktop(its, p) == SelectInSeq(its, LAMBDA it : it.path = p)
ById(its, c) == SelectInSeq(its, LAMBDA it : it.id = c)
ByWindow(its, w) == SelectInSeq(its, LAMBDA it : w \in ToSet(it.wids))

(* What is left of sequence s when only positions K are kept.              *)
Nth(K, n) == CHOOSE k \in K : Cardinality({j \in K : j < k}) = n - 1
Only(s, K) == [n \in 1 .. Cardinality(K) |-> s[Nth(K, n)]]

Pinned(its) == Only(its, {k \in DOMAIN its : its[k].pinned})
Paths(its) == [k \in DOMAIN its |-> its[k].path]

(* savePinAndUnPinList(): a group per pinned item, named after its id; of  *)
(* two with one id the last is kept, with its own index.                   *)
GroupsFromOne(its) ==                                            \* mutant
    LET p == Pinned(its)
    IN  [c \in Class |->
           LET k == SelectLastInSeq(p, LAMBDA it : it.id = c)
           IN  IF k = 0 THEN NoGroup ELSE [index |-> k, path |-> p[k].path]]
Groups(its) ==
    LET p == Pinned(its)
    IN  [c \in Class |->
           LET k == SelectLastInSeq(p, LAMBDA it : it.id = c)
           IN  IF k = 0 THEN NoGroup
                        ELSE [index |-> k - 1, path |-> p[k].path]]

(* initPinnedApplications(): for each number from 0 on, as many as there   *)
(* are groups, the group with that index, if its desktop file exists.      *)
Named(file) == {c \in Class : file[c] # NoGroup}
Here(file, exist, n) ==
    {c \in Named(file) : file[c].index = n - 1 /\ file[c].path \in exist}
FromFile(file, c) == [id |-> c, path |-> file[c].path, wids |-> <<>>,
                      current |-> 0, pinned |-> TRUE]
Load(file, exist) ==
    LET used == {n \in 1 .. Cardinality(Named(file)) : Here(file, exist, n) # {}}
        Of(n) == CHOOSE c \in Here(file, exist, n) : TRUE
    IN  [k \in 1 .. Cardinality(used) |-> FromFile(file, Of(Nth(used, k)))]

(* The items are its, and the list is saved, or not.                       *)
Store(its) == items' = its /\ saved' = Groups(its) /\ kept' = Paths(Pinned(its))
Change(its) == items' = its /\ UNCHANGED <<saved, kept>>
-----------------------------------------------------------------------------
(* onWindowAdded(w), from items its: under the item with its desktop file, *)
(* which takes its class for an id; else under all items with that id;     *)
(* else under a new one.                                                   *)
FiledAt(its, w) ==
    LET k == IF path[w] = NoDesktop THEN 0 ELSE ByDesktop(its, path[w])
    IN  IF k # 0 THEN {k}
                 ELSE {j \in DOMAIN its : its[j].id = ClassOf[w]}
Renamed(its, w) ==
    /\ path[w] # NoDesktop /\ ByDesktop(its, path[w]) # 0
    /\ its[ByDesktop(its, path[w])].id # ClassOf[w]
NewItem(w) == [id |-> ClassOf[w], path |-> path[w], wids |-> <<w>>,
               current |-> 0, pinned |-> FALSE]
Filed(its, w) ==
    LET at == FiledAt(its, w)
    IN  IF at = {} THEN Append(its, NewItem(w))
        ELSE [k \in DOMAIN its |->
                IF k \notin at THEN its[k]
                ELSE [its[k] EXCEPT
                        !.wids = Append(@, w),
                        !.id = IF Renamed(its, w) THEN ClassOf[w] ELSE @]]

Step(st, w) ==
    LET its == Filed(st.items, w)
    IN  IF Renamed(st.items, w)
        THEN [items |-> its, saved |-> Groups(its), kept |-> Paths(Pinned(its))]
        ELSE [st EXCEPT !.items = its]

Now == [items |-> items, saved |-> saved, kept |-> kept]
Put(st) == items' = st.items /\ saved' = st.saved /\ kept' = st.kept

WOpen(w) ==
    /\ w \notin ToSet(open) \cup closed
    /\ open' = Append(open, w)
    /\ IF phase = "down"
       THEN Put(Now) /\ UNCHANGED noticed
       ELSE Put(Step(Now, w)) /\ noticed' = noticed \cup {w}
    /\ UNCHANGED <<phase, path, installed, closed, twice, events>>

(* startInitWindows(), 100 ms after the start: every window of the list is *)
(* announced, also one that has been announced meanwhile.                  *)
Announced == open
After(st, ws) ==
    LET told[n \in 0 .. Len(ws)] ==
            IF n = 0 THEN st ELSE Step(told[n - 1], ws[n])
    IN  told[Len(ws)]
Startup ==
    /\ phase = "starting"
    /\ phase' = "ready"
    /\ Put(After(Now, Announced))
    /\ twice' = noticed \cap ToSet(Announced)
    /\ noticed' = noticed \cup ToSet(Announced)
    /\ UNCHANGED <<open, path, installed, closed, events>>

(* onWindowRemoved(w): the first item that has it loses it, once; an item  *)
(* that has no window left and is not pinned goes.                         *)
Lost(it, w) ==
    LET rest == RemoveFirst(it.wids, w)
    IN  [it EXCEPT !.wids = rest,
                   !.current = IF @ >= Len(rest) THEN 0 ELSE @]
GoesAlways(it) == ~it.pinned                                     \* mutant
Goes(it) == it.wids = <<>> /\ ~it.pinned
WithoutWindow(its, w) ==
    LET k == ByWindow(its, w)
    IN  IF k = 0 THEN its
        ELSE IF Goes(Lost(its[k], w)) THEN RemoveAt(its, k)
        ELSE [its EXCEPT ![k] = Lost(@, w)]
WClose(w) ==
    /\ w \in ToSet(open)
    /\ open' = Only(open, {k \in DOMAIN open : open[k] # w})
    /\ closed' = closed \cup {w}
    /\ Change(WithoutWindow(items, w))
    /\ UNCHANGED <<phase, path, installed, noticed, twice, events>>
-----------------------------------------------------------------------------
Up == phase # "down"
User ==
    /\ Up /\ Event
    /\ UNCHANGED <<phase, open, path, installed, closed, noticed, twice>>

(* What the user does with row j of the view is told to the first item     *)
(* with its id.  clicked(id): of several windows the next one is raised.   *)
At(j) == ById(items, items[j].id)
NextOf(it) == IF it.current + 1 = Len(it.wids) THEN 0 ELSE it.current + 1
Clicked(j) ==
    /\ User
    /\ Len(items[At(j)].wids) > 1
    /\ Change([items EXCEPT ![At(j)].current = NextOf(items[At(j)])])

(* pin(id) and unPin(id), as the menu of an item with a file offers them.  *)
Pin(j) ==
    /\ User
    /\ items[j].path # NoDesktop /\ ~items[j].pinned
    /\ Store([items EXCEPT ![At(j)].pinned = TRUE])

UnpinnedStays(its, k) == [its EXCEPT ![k].pinned = FALSE]        \* mutant
Unpinned(its, k) ==
    IF its[k].wids = <<>> THEN RemoveAt(its, k)
                          ELSE [its EXCEPT ![k].pinned = FALSE]
Unpin(j) ==
    /\ User
    /\ items[j].path # NoDesktop /\ items[j].pinned
    /\ Store(Unpinned(items, At(j)))

(* addItem(d), for the launcher: one that is there already is pinned, but  *)
(* that is not saved.                                                      *)
NewPinByFile(d) == [id |-> d, path |-> d, wids |-> <<>>,         \* mutant
                    current |-> 0, pinned |-> TRUE]
NewPin(d) == [id |-> BaseName[d], path |-> d, wids |-> <<>>,
              current |-> 0, pinned |-> TRUE]
AddItem(d) ==
    LET k == ByDesktop(items, d)
    IN  /\ d \in installed
        /\ User
        /\ IF k # 0 THEN Change([items EXCEPT ![k].pinned = TRUE])
                    ELSE Store(Append(items, NewPin(d)))

RemoveItem(d) ==
    LET k == ByDesktop(items, d)
    IN  /\ k # 0
        /\ User
        /\ Store(Unpinned(items, At(k)))

(* An item is dragged over another, and dropped.                           *)
Move(from, to) ==
    /\ from # to
    /\ User
    /\ Change(InsertAt(RemoveAt(items, from), to, items[from]))
Drop == User /\ Store(items)
-----------------------------------------------------------------------------
(* The dock ends, or is started; an application is installed or removed.   *)
DEnd ==
    /\ Up /\ Event
    /\ phase' = "down" /\ items' = <<>> /\ noticed' = {} /\ twice' = {}
    /\ UNCHANGED <<saved, open, path, installed, closed, kept>>

DStart ==
    /\ phase = "down"
    /\ phase' = "starting" /\ items' = Load(saved, installed)
    /\ UNCHANGED <<saved, open, path, installed, closed, noticed, twice, kept,
                   events>>

Install(d) ==
    /\ Event
    /\ installed' = IF d \in installed THEN installed \ {d}
                                       ELSE installed \cup {d}
    /\ UNCHANGED <<items, saved, phase, open, path, closed, noticed, twice,
                   kept>>

Init ==
    /\ path \in [Window -> DesktopOrNone]
    /\ kept \in SetToAllKPermutations(Desktop)
    /\ saved = Groups([k \in DOMAIN kept |-> NewPin(kept[k])])
    /\ installed = Desktop
    /\ phase = "down" /\ items = <<>>
    /\ open = <<>> /\ closed = {} /\ noticed = {} /\ twice = {}
    /\ events = 0

Next ==
    \/ \E w \in Window : WOpen(w) \/ WClose(w)
    \/ \E j \in DOMAIN items : Clicked(j) \/ Pin(j) \/ Unpin(j)
    \/ \E d \in Desktop : AddItem(d) \/ RemoveItem(d) \/ Install(d)
    \/ \E from, to \in DOMAIN items : Move(from, to)
    \/ Drop \/ Startup \/ DEnd \/ DStart

Spec == Init /\ [][Next]_vars
-----------------------------------------------------------------------------
TypeOK ==
    /\ items \in Seq(ItemType) /\ saved \in [Class -> Group]
    /\ phase \in {"down", "starting", "ready"}
    /\ open \in Seq(Window) /\ path \in [Window -> DesktopOrNone]
    /\ installed \subseteq Desktop
    /\ closed \subseteq Window /\ noticed \subseteq Window
    /\ twice \subseteq Window /\ kept \in Seq(DesktopOrNone)
    /\ events \in Nat

(* An id means the same application in every window and file name.         *)
Meanings == {<<ClassOf[w], path[w]>> : w \in Window}
       \cup {<<BaseName[d], d>> : d \in Desktop}
Coherent == \A m, n \in Meanings : m[1] = n[1] => m[2] = n[2]

(* Nothing but that keeps ids apart: pin and unPin find their item by it,  *)
(* and the file has a group for each.                                      *)
IdsDistinct ==
    Coherent => \A j, k \in DOMAIN items : items[j].id = items[k].id => j = k

(* Every window that the dock was told of is filed, and currentActive, an  *)
(* index into the windows of an item, stays within them.                   *)
AllFiled ==
    /\ \A w \in noticed \ closed : ByWindow(items, w) # 0
    /\ \A k \in DOMAIN items :
          items[k].current < Len(items[k].wids) \/ items[k].current = 0

(* A window that is filed is open and in one item, unless it was announced *)
(* twice; and there is no item without a window, unless it is pinned.      *)
NoGhost ==
    Coherent => \A k \in DOMAIN items :
        /\ items[k].pinned \/ items[k].wids # <<>>
        /\ \A w \in ToSet(items[k].wids) \ twice :
              w \in ToSet(open) /\ ByWindow(items, w) = k

(* What was saved last comes back at the next start, in its order, except  *)
(* for applications that have been removed.                                *)
Survives ==
    Coherent => Paths(Load(saved, installed)) =
                    Only(kept, {k \in DOMAIN kept : kept[k] \in installed})
=============================================================================
