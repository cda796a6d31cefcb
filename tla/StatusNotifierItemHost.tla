------------------------- MODULE StatusNotifierItemHost -------------------------
(***************************************************************************)
(* The host (statusnotifieritemhost.cpp) with the model of the view        *)
(* (systemtraymodel.cpp), which it calls when an item comes or goes.       *)
(***************************************************************************)
EXTENDS TrayBus, SequencesExt

Used(x) == services[x[1]] = x[2] \/ x \in ToSet(rows)
NewSource(i) == CHOOSE n \in 1 .. MaxSource : ~Used(<<i, n>>)

(* addSNIService() for each i in S: a new source, which fetches at once if *)
(* its application is there, and a row for it at the end.  A source that   *)
(* the item may have had already loses its place in the table.             *)
AddItems(S) ==
    LET new == {<<i, NewSource(i)>> : i \in S}
        live == {x \in new : On(x[1])}
    IN  /\ services' = [i \in Item |-> IF i \in S THEN NewSource(i)
                                                  ELSE services[i]]
        /\ rows' = rows \o SetToSeq(new)
        /\ connected' = [x \in Source |-> connected[x] \/ x \in live]
        /\ timer' = [x \in Source |-> timer[x] \/ x \in live]
        /\ UNCHANGED <<refreshing, again, shown, asked, toSource>>

(* What is left of sequence q when only positions K are kept.              *)
Nth(K, n) == CHOOSE k \in K : Cardinality({j \in K : j < k}) = n - 1
Only(q, K) == [n \in 1 .. Cardinality(K) |-> q[Nth(K, n)]]

(* onItemRemoved(i) for each i in S: the source that is in the first row   *)
(* with that item leaves the rows, wherever it is.                         *)
FirstRow(i) ==
    rows[CHOOSE k \in DOMAIN rows :
            rows[k][1] = i /\ \A j \in 1 .. k - 1 : rows[j][1] # i]
RowsWithout(S) ==
    Only(rows, {k \in DOMAIN rows :
                   rows[k][1] \in S => rows[k] # FirstRow(rows[k][1])})

(* Sources X are disconnected and deleted, with what they wait for.        *)
Delete(X) ==
    /\ connected' = [x \in Source |-> connected[x] /\ x \notin X]
    /\ timer' = [x \in Source |-> timer[x] /\ x \notin X]
    /\ refreshing' = [x \in Source |-> refreshing[x] /\ x \notin X]
    /\ again' = [x \in Source |-> again[x] /\ x \notin X]
    /\ shown' = [x \in Source |-> IF x \in X THEN 0 ELSE shown[x]]
    /\ asked' = [x \in Source |-> asked[x] /\ x \notin X]
    /\ toSource' = [x \in Source |-> IF x \in X THEN <<>> ELSE toSource[x]]

(* Items S leave the table, and the rows one by one.                       *)
Withdraw(S) ==
    /\ services' = [i \in Item |-> IF i \in S THEN 0 ELSE services[i]]
    /\ rows' = RowsWithout(S)
    /\ Delete({<<i, services[i]>> : i \in S})

Mirrored == {i \in Item : services[i] # 0}
-----------------------------------------------------------------------------
Delivered(m) ==
    /\ toHost # <<>> /\ m = Head(toHost)
    /\ UNCHANGED <<appVars, watcher, watcherVars, events>>

Kept == UNCHANGED <<tableVars, sourceVars>>

(* serviceRegistered(i) adds without a question, ...                       *)
HRegistered(i) ==
    /\ Delivered([type |-> "Registered", item |-> i])
    /\ IF proxy THEN AddItems({i}) ELSE Kept
    /\ toHost' = Tail(toHost)
    /\ UNCHANGED <<toWatcher, proxy>>

(* removeSNIService(i) asks whether it is known, ...                       *)
HUnregistered(i) ==
    /\ Delivered([type |-> "Unregistered", item |-> i])
    /\ IF proxy THEN Withdraw({i} \cap Mirrored) ELSE Kept
    /\ toHost' = Tail(toHost)
    /\ UNCHANGED <<toWatcher, proxy>>

(* ... and so does the answer to the call for the list.                    *)
MissingAll(S) == S                                               \* mutant
Missing(S) == S \ Mirrored
HList(S) ==
    /\ Delivered([type |-> "List", items |-> S])
    /\ AddItems(Missing(S))
    /\ toHost' = Tail(toHost)
    /\ UNCHANGED <<toWatcher, proxy>>

(* unregisterWatcher(): the watcher has gone, and every item with it.      *)
HGone ==
    /\ Delivered([type |-> "Gone"])
    /\ proxy' = FALSE
    /\ Withdraw(Mirrored)
    /\ toHost' = Tail(toHost)
    /\ UNCHANGED toWatcher

(* registerWatcher() waits for the bus to say whether there is a watcher   *)
(* still.  If so it connects the signals, those sent before have had no    *)
(* receiver, and asks for the list.                                        *)
StaleSignals == Tail(toHost)                                     \* mutant
NoSignals ==
    Only(toHost, {k \in 2 .. Len(toHost) :
                     toHost[k].type \notin {"Registered", "Unregistered"}})
HCome ==
    /\ Delivered([type |-> "Come"])
    /\ IF watcher
       THEN /\ proxy' = TRUE
            /\ toWatcher' = Append(toWatcher, [type |-> "Get"])
            /\ toHost' = NoSignals
       ELSE /\ proxy' = FALSE
            /\ toHost' = Tail(toHost)
            /\ UNCHANGED toWatcher
    /\ Kept

HostStep ==
    \/ \E i \in Item : HRegistered(i) \/ HUnregistered(i)
    \/ \E S \in SUBSET Item : HList(S)
    \/ HGone \/ HCome
=============================================================================
