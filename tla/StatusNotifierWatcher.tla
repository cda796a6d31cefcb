------------------------- MODULE StatusNotifierWatcher -------------------------
(***************************************************************************)
(* The watcher (statusnotifierwatcher.cpp): the registry of items.  It     *)
(* serves one message at a time; while it waits for the bus to answer a    *)
(* question of its own, further messages are kept.                         *)
(***************************************************************************)
EXTENDS TrayBus, SequencesExt

(* A signal per item reaches the host, if it has connected it.             *)
Emit(signal, S) ==
    toHost' = IF proxy
              THEN toHost \o SetToSeq([type : {signal}, item : S])
              ELSE toHost

Served(m) ==
    /\ watcher /\ wpc = "idle"
    /\ toWatcher # <<>> /\ m = Head(toWatcher)
    /\ toWatcher' = Tail(toWatcher)
    /\ UNCHANGED <<appVars, watcher, proxy, tableVars, sourceVars, events>>

(* RegisterStatusNotifierItem(i): nothing if i is known; else its service  *)
(* is watched ...                                                          *)
WatchedItem(i) == i                                              \* mutant
WatchedName(i) == ServiceOf[i]
KnownService(i) == Items(ServiceOf[i]) \cap registered # {}      \* mutant
Known(i) == i \in registered
WRegister(i) ==
    /\ Served([type |-> "Register", item |-> i])
    /\ IF Known(i)
       THEN UNCHANGED watcherVars
       ELSE /\ watched' = watched \cup {WatchedName(i)}
            /\ wpc' = "check" /\ wItem' = i
            /\ UNCHANGED registered
    /\ UNCHANGED toHost

Working(step) ==
    /\ watcher /\ wpc = step
    /\ UNCHANGED <<appVars, watcher, wItem, toWatcher, proxy, tableVars,
                   sourceVars, events>>

(* ... and the bus asked whether it exists, once more by trayclient: the   *)
(* step is the answer that decides.  If it does not, it is not watched;    *)
WCheck ==
    /\ Working("check")
    /\ IF On(wItem)
       THEN wpc' = "add" /\ UNCHANGED watched
       ELSE wpc' = "idle" /\ watched' = watched \ {ServiceOf[wItem]}
    /\ UNCHANGED <<registered, toHost>>

(* if so, the item is added.                                               *)
WAdd ==
    /\ Working("add")
    /\ wpc' = "idle"
    /\ registered' = registered \cup {wItem}
    /\ Emit("Registered", {wItem})
    /\ UNCHANGED watched

(* serviceUnregistered(s): all items of the service are removed.           *)
RemovedFirst(s) ==                                               \* mutant
    LET S == registered \cap Items(s)
    IN  IF S = {} THEN {} ELSE {CHOOSE i \in S : TRUE}
Removed(s) == registered \cap Items(s)
WLost(s) ==
    /\ Served([type |-> "Lost", service |-> s])
    /\ watched' = watched \ {s}
    /\ registered' = registered \ Removed(s)
    /\ Emit("Unregistered", Removed(s))
    /\ UNCHANGED <<wpc, wItem>>

(* The host reads RegisteredStatusNotifierItems.                           *)
WGet ==
    /\ Served([type |-> "Get"])
    /\ toHost' = Append(toHost, [type |-> "List", items |-> registered])
    /\ UNCHANGED watcherVars

WatcherStep ==
    \/ WCheck \/ WAdd \/ WGet
    \/ \E i \in Item : WRegister(i)
    \/ \E s \in Service : WLost(s)
-----------------------------------------------------------------------------
(* The watcher's process ends.  It takes its list with it, its calls are   *)
(* not answered: the host's call for the list comes to nothing.  Then      *)
(* another one takes the name, and the applications turn to it.            *)
WDie ==
    /\ watcher /\ Event("watcher")
    /\ watcher' = FALSE
    /\ registered' = {} /\ watched' = {} /\ wpc' = "idle" /\ UNCHANGED wItem
    /\ toWatcher' = <<>> /\ told' = {}
    /\ toHost' = Append(toHost, [type |-> "Gone"])
    /\ UNCHANGED <<app, version, proxy, tableVars, sourceVars>>

WStart ==
    /\ ~watcher /\ Event("watcher")
    /\ watcher' = TRUE
    /\ toHost' = Append(toHost, [type |-> "Come"])
    /\ UNCHANGED <<appVars, watcherVars, toWatcher, proxy, tableVars,
                   sourceVars>>
=============================================================================
