------------------------------ MODULE Positioner ------------------------------
(***************************************************************************)
(* The Positioner of a grid of files (positioner.cpp): it keeps for each   *)
(* row of the folder model a place in the grid, across the model's         *)
(* changes, and saves the places by name, to put the files there again     *)
(* when the grid's width changes.  With it the steps of FolderModel that   *)
(* it is told of, and those of the view (FolderGridView.qml), which counts *)
(* the model's rows itself and asks the Positioner where a drop goes.      *)
(***************************************************************************)
EXTENDS Integers, Sequences, FiniteSets, Functions, SequencesExt

CONSTANTS
    File,       \* the files there may be
    Stripe,     \* how many places may fit in a row of the grid
    MaxPlace    \* bound: places that are saved and restored

ASSUME PositionerAssumption ==
    /\ IsFiniteSet(File)
    /\ Stripe \subseteq Nat \ {0} /\ MaxPlace \in Nat

VARIABLES
    (* FolderModel *)
    rows,        \* its files, in order
    status,      \* m_status
    (* Positioner *)
    p2s, s2p,    \* m_proxyToSource, m_sourceToProxy
    positions,   \* m_positions: of each file its stripe and its column
    perStripe,   \* m_perStripe
    timer,       \* m_updatePositionsTimer is active
    defer,       \* m_deferApplyPositions
    (* FolderGridView *)
    count,       \* its count, when it was last told of a change
    (* history *)
    skipped      \* a deferral has ended without places, and nothing since
                 \* has given each row one

maps == <<p2s, s2p>>
vars == <<rows, status, maps, positions, perStripe, timer, defer, count,
          skipped>>

Row == 0 .. Len(rows) - 1
FileAt(r) == rows[r + 1]

(* The function that takes each value of f back to where f has it.         *)
Back(f) == [y \in Range(f) |-> CHOOSE x \in DOMAIN f : f[x] = y]

(* Both maps, from the one that gives a row its place.                     *)
SetMaps(f) == s2p' = f /\ p2s' = Back(f)

(* initMaps(n): each row at the place of its own number.                   *)
InitMaps(n) == SetMaps([r \in 0 .. n - 1 |-> r])
-----------------------------------------------------------------------------
(* firstFreeRow(), or lastRow() + 1 when none is free; of an empty map,    *)
(* lastRow() is 0.                                                         *)
IsNextPlace(p, taken) ==
    IF taken = {} THEN p = 1
    ELSE p \notin taken /\ \A q \in 0 .. p - 1 : q \in taken

(* Rows get places beside the taken ones, one after the other in order.    *)
Placed(order, g, taken) ==
    \A k \in DOMAIN order :
       IsNextPlace(g[order[k]], taken \cup {g[order[j]] : j \in 1 .. k - 1})

Placings(new, taken, Order) ==
    {g \in [new -> 0 .. Cardinality(taken) + Cardinality(new)] :
        /\ IsInjective(g) /\ Range(g) \cap taken = {}
        /\ \E order \in Order : Placed(order, g, taken)}

(* updateMaps() for all of them.                                           *)
Extend(f, g) ==
    [r \in DOMAIN f \cup DOMAIN g |-> IF r \in DOMAIN g THEN g[r] ELSE f[r]]
-----------------------------------------------------------------------------
(* reset(): nothing happens as long as there are no saved places.          *)
Reset ==
    IF positions = {}
    THEN UNCHANGED <<maps, positions, skipped>>
    ELSE InitMaps(Len(rows)) /\ positions' = {} /\ skipped' = FALSE

(* What positions say: a place is restored from stripe and column when its *)
(* column is not beyond the width, the first one beyond it included.       *)
Known(e) == \E r \in Row : FileAt(r) = e[1]
Fits(e) == e[3] <= perStripe'
CellOf(e) == e[2] * perStripe' + e[3]
Fitting == {e \in positions : Known(e) /\ Fits(e)}
Pushed == {r \in Row : \E e \in positions : e[1] = FileAt(r) /\ ~Fits(e)}

(* Of several files for one place the first in the list gets it, whose     *)
(* order is a hash table's.                                                *)
Restored ==
    {h \in [{CellOf(e) : e \in Fitting} -> Row] :
        /\ IsInjective(h)
        /\ \A c \in DOMAIN h :
              \E e \in Fitting : CellOf(e) = c /\ FileAt(h[c]) = e[1]}

(* Files that are beyond the width come next, then all the others.         *)
Orders(new) ==
    {a \o b : a \in SetToSeqs(new \cap Pushed),
              b \in SetToSeqs(new \ Pushed)}

(* applyPositions(), with the model's status as it is now: deferred while  *)
(* the model is listing.  Without saved places it ends a deferral with     *)
(* reset(), which returns for the same reason.                             *)
Apply ==
    IF status' = "Listing"
    THEN defer' = TRUE /\ UNCHANGED <<maps, positions, timer, skipped>>
    ELSE IF positions = {}
    THEN /\ defer' = FALSE /\ skipped' = (skipped \/ defer)
         /\ UNCHANGED <<maps, positions, timer>>
    ELSE /\ \E h \in Restored :
               /\ \A c \in DOMAIN h : c <= MaxPlace
               /\ LET new == Row \ Range(h)
                  IN  \E g \in Placings(new, DOMAIN h, Orders(new)) :
                         SetMaps(Extend(Back(h), g))
         /\ defer' = FALSE /\ timer' = TRUE /\ skipped' = FALSE
         /\ UNCHANGED positions
-----------------------------------------------------------------------------
(* Files are inserted into the model, before row k.  The places of rows    *)
(* that follow are theirs still ...                                        *)
ShiftedLate(k, n) ==                                             \* mutant
    [r \in {IF q > k THEN q + n ELSE q : q \in DOMAIN s2p} |->
        s2p[IF r > k THEN r - n ELSE r]]
Shifted(k, n) ==
    [r \in {IF q >= k THEN q + n ELSE q : q \in DOMAIN s2p} |->
        s2p[IF r >= k THEN r - n ELSE r]]

(* ... and the new ones fill the grid.  Without any place there is nothing *)
(* to shift, and in a deferral nothing is done.                            *)
MapInserted(k, n) ==
    IF defer THEN UNCHANGED maps
    ELSE IF DOMAIN p2s = {} THEN InitMaps(k + n)
    ELSE LET new == k .. k + n - 1
             order == [j \in 1 .. n |-> k + j - 1]
         IN  \E g \in Placings(new, DOMAIN p2s, {order}) :
                SetMaps(Extend(Shifted(k, n), g))

RowsInserted(k, new) ==
    /\ rows' = SubSeq(rows, 1, k) \o new \o SubSeq(rows, k + 1, Len(rows))
    /\ MapInserted(k, Len(new))
    /\ timer' = (timer \/ ~defer)
    /\ UNCHANGED <<status, positions, perStripe, defer, count, skipped>>

(* Rows a to b are removed from the model, and their places are free; a    *)
(* row without a place counts as one at place 0, which changes nothing.    *)
RemovedKept(a, b) == [r \in DOMAIN s2p \ (a .. b) |-> s2p[r]]     \* mutant
Removed(a, b) ==
    LET n == b - a + 1
    IN  [r \in {IF q > b THEN q - n ELSE q : q \in DOMAIN s2p \ (a .. b)} |->
            s2p[IF r >= a THEN r + n ELSE r]]

SaveNever == UNCHANGED timer                                     \* mutant
SaveLater == timer' = TRUE

RowsRemoved(a, b) ==
    /\ rows' = SubSeq(rows, 1, a) \o SubSeq(rows, b + 2, Len(rows))
    /\ SetMaps(Removed(a, b))
    /\ SaveLater
    /\ UNCHANGED <<status, positions, perStripe, defer, count, skipped>>

(* The model is sorted.                                                    *)
LayoutChanged(order) ==
    /\ rows' = order
    /\ InitMaps(Len(order)) /\ skipped' = FALSE
    /\ UNCHANGED <<status, positions, perStripe, timer, defer, count>>

(* setUrl(): the rows are removed, then the Positioner is reset.           *)
SetUrl ==
    /\ status' = "Listing" /\ rows' = <<>>
    /\ InitMaps(0) /\ positions' = {} /\ skipped' = FALSE
    /\ timer' = (timer \/ rows # <<>>)
    /\ UNCHANGED <<perStripe, defer, count>>

(* The lister starts to read the directory (again) ...                     *)
ListingStarts ==
    /\ status # "Listing" /\ status' = "Listing"
    /\ UNCHANGED <<rows, maps, positions, perStripe, timer, defer, count,
                   skipped>>

(* ... and has read it, or is stopped: sourceStatusChanged().              *)
ListingEnds ==
    /\ status = "Listing" /\ status' \in {"Ready", "Canceled"}
    /\ UNCHANGED <<rows, perStripe, count>>
    /\ IF defer THEN Apply
       ELSE UNCHANGED <<maps, positions, timer, defer, skipped>>
-----------------------------------------------------------------------------
(* The width of the grid changes.                                          *)
SetPerStripe(n) ==
    /\ n # perStripe /\ perStripe' = n
    /\ UNCHANGED <<rows, status, count>>
    /\ IF DOMAIN p2s # {} THEN Apply
       ELSE UNCHANGED <<maps, positions, timer, defer, skipped>>

(* The timer fires: updatePositions().  It stops at a place whose row the  *)
(* model does not have.                                                    *)
UpdatePositions ==
    /\ timer /\ timer' = FALSE
    /\ positions' =
          IF Range(p2s) \subseteq Row
          THEN {<<FileAt(p2s[p]), p \div perStripe, p % perStripe>> :
                  p \in DOMAIN p2s}
          ELSE positions
    /\ UNCHANGED <<rows, status, maps, perStripe, defer, count, skipped>>

(* The view finds that its count has changed.                              *)
CountChanged ==
    /\ count # Len(rows) /\ count' = Len(rows)
    /\ Reset
    /\ UNCHANGED <<rows, status, perStripe, timer, defer>>

(* The user changes the size of the icons.                                 *)
IconSizeChanged ==
    /\ Reset
    /\ UNCHANGED <<rows, status, perStripe, timer, defer, count>>
-----------------------------------------------------------------------------
(* The view is made for a model that may have files already, and may be    *)
(* listing more.                                                           *)
Init ==
    /\ \E S \in SUBSET File : rows \in SetToSeqs(S)
    /\ status \in {"Listing", "Ready", "Canceled"}
    /\ s2p = [r \in Row |-> r] /\ p2s = [r \in Row |-> r]
    /\ positions = {} /\ perStripe \in Stripe /\ timer = FALSE
    /\ defer = FALSE /\ count = 0 /\ skipped = FALSE

Insertion ==
    \E S \in SUBSET (File \ Range(rows)) \ {{}} :
       \E new \in SetToSeqs(S), k \in 0 .. Len(rows) : RowsInserted(k, new)
Removal == \E a, b \in Row : a <= b /\ RowsRemoved(a, b)
Sorting == \E order \in SetToSeqs(Range(rows)) : LayoutChanged(order)
Resizing == \E n \in Stripe : SetPerStripe(n)

Next ==
    \/ Insertion \/ Removal \/ Sorting
    \/ SetUrl \/ ListingStarts \/ ListingEnds
    \/ Resizing \/ UpdatePositions \/ CountChanged \/ IconSizeChanged

Spec == Init /\ [][Next]_vars
-----------------------------------------------------------------------------
Complete == DOMAIN s2p = Row

(* The two maps are of one mind, whatever the model goes through, and each *)
(* of its rows has one place of its own, unless places wait for the end of *)
(* a listing, or have been lost at one.                                    *)
OnePlaceEach ==
    /\ IsInjective(s2p) /\ p2s = Back(s2p)
    /\ defer \/ skipped \/ Complete

(* Files keep their places when others come and go, but for a deferral.    *)
HasPlace(p, f) == p \in DOMAIN p2s /\ FileAt(p2s[p]) = f
PlacesKept ==
    [][ (Insertion \/ Removal) /\ ~defer =>
        \A p \in DOMAIN p2s, f \in Range(rows) \cap Range(rows') :
           HasPlace(p, f) => HasPlace(p, f)'
      ]_vars

(* The view counts rows: a drop on item i is meant for row i, but goes to  *)
(* row p2s[i].  When these differ, the next reset() will set it right: its *)
(* early return is never taken, but before the timer fires.                *)
Faithful == p2s = [r \in Row |-> r]
Undone == Faithful \/ positions # {} \/ timer \/ defer \/ skipped

(* "Reset to populate": after a deferral each row has a place.             *)
Populated == [][defer /\ ~defer' => Complete']_vars
=============================================================================
