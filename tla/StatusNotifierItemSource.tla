----------------------- MODULE StatusNotifierItemSource ------------------------
(***************************************************************************)
(* The source of an item (statusnotifieritemsource.cpp): it fetches all    *)
(* properties of the item when a signal says that one has changed.  Calls  *)
(* are not repeated while one is under way; a note is made instead.        *)
(***************************************************************************)
EXTENDS TrayBus

Rest(x) ==
    UNCHANGED <<appVars, watcher, watcherVars, toWatcher, proxy, toHost,
                tableVars, connected, events>>

(* refreshTitle(), refreshIcons(), refreshToolTip(): the timer runs.       *)
SChanged(x) ==
    /\ toSource[x] # <<>> /\ Head(toSource[x]).type = "Changed"
    /\ toSource' = [toSource EXCEPT ![x] = Tail(@)]
    /\ timer' = [timer EXCEPT ![x] = TRUE]
    /\ UNCHANGED <<refreshing, again, shown, asked>>
    /\ Rest(x)

(* performRefresh() calls GetAll(); q is what is left to read.  There is   *)
(* an error at once when nobody owns the name.                             *)
CallGetAll(x, q) ==
    IF On(x[1])
    THEN asked' = [asked EXCEPT ![x] = TRUE]
         /\ toSource' = [toSource EXCEPT ![x] = q]
    ELSE toSource' = [toSource EXCEPT ![x] = Append(q, [type |-> "Error"])]
         /\ UNCHANGED asked

(* The timer fires.                                                        *)
STimeout(x) ==
    /\ timer[x]
    /\ timer' = [timer EXCEPT ![x] = FALSE]
    /\ IF refreshing[x]
       THEN /\ again' = [again EXCEPT ![x] = TRUE]
            /\ UNCHANGED <<refreshing, asked, toSource>>
       ELSE /\ refreshing' = [refreshing EXCEPT ![x] = TRUE]
            /\ CallGetAll(x, toSource[x])
            /\ UNCHANGED again
    /\ UNCHANGED shown
    /\ Rest(x)

(* refreshCallback(): if there is a note, the answer is thrown away and    *)
(* another one asked for.  An error only marks the source.                 *)
NoteKept == TRUE                                                 \* mutant
NoteAfter == FALSE
SAnswered(x) ==
    /\ toSource[x] # <<>> /\ Head(toSource[x]).type \in {"Answer", "Error"}
    /\ IF again[x]
       THEN /\ again' = [again EXCEPT ![x] = NoteAfter]
            /\ CallGetAll(x, Tail(toSource[x]))
            /\ UNCHANGED <<refreshing, shown>>
       ELSE /\ refreshing' = [refreshing EXCEPT ![x] = FALSE]
            /\ shown' = [shown EXCEPT ![x] =
                   IF Head(toSource[x]).type = "Answer"
                   THEN Head(toSource[x]).version ELSE @]
            /\ toSource' = [toSource EXCEPT ![x] = Tail(@)]
            /\ UNCHANGED <<again, asked>>
    /\ UNCHANGED timer
    /\ Rest(x)

SourceStep(x) == SChanged(x) \/ STimeout(x) \/ SAnswered(x)
=============================================================================
