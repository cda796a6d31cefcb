------------------------------- MODULE TrayBus --------------------------------
(***************************************************************************)
(* The state of the system tray of the status bar and the session bus it   *)
(* lives on: the watcher, where applications register their items; the     *)
(* host, which mirrors the watcher's list; a source per item, which        *)
(* fetches its icon and texts; the rows of the view.                       *)
(*                                                                         *)
(* The bus delivers what one connection sends to another in order, and     *)
(* what it reports itself (a name that is lost) in order with the rest.    *)
(* Applications are outside the code: they register an item once, again    *)
(* when a new watcher comes, and signal every change of it.                *)
(***************************************************************************)
EXTENDS Integers, Sequences, FiniteSets

CONSTANTS
    Item,         \* what an item is registered as: service and path
    Service,      \* names on the bus that applications own
    ServiceOf,    \* the part of an item before the slash
    MaxSource,    \* bound: sources of one item that exist at a time
    Changing,     \* bound: items that change ...
    MaxVersion,   \* ... and how often
    MaxEvents     \* bounds: how often applications start, end or repeat
                  \* themselves and watchers come or go, at most

(* Who causes the events that are bounded.                                 *)
Party == {"app", "watcher"}

ASSUME TrayAssumption ==
    /\ IsFiniteSet(Item) /\ Item # {}
    /\ ServiceOf \in [Item -> Service]
    /\ MaxSource \in Nat \ {0} /\ Changing \subseteq Item
    /\ MaxVersion \in Nat /\ MaxEvents \subseteq [Party -> Nat]

(* A StatusNotifierItemSource object.                                      *)
Source == Item \X (1 .. MaxSource)

VARIABLES
    (* applications *)
    app,          \* does somebody own the service's name?
    version,      \* what the item looks like now
    told,         \* items registered, for all their applications know
    (* the watcher *)
    watcher,      \* does a process own org.kde.StatusNotifierWatcher?
    registered,   \* m_registeredServices
    watched,      \* services of m_serviceWatcher
    wpc,          \* RegisterStatusNotifierItem(): how far it is ...
    wItem,        \* ... and with which item
    toWatcher,    \* messages on their way to it
    (* the host *)
    proxy,        \* m_statusNotifierWatcher exists, its signals are connected
    toHost,       \* messages on their way to it
    services,     \* m_sniServices: the source of an item; 0 is none
    rows,         \* SystemTrayModel::m_items
    (* the sources *)
    connected,    \* the signals of its item are connected
    timer,        \* m_refreshTimer is active
    refreshing,   \* m_refreshing
    again,        \* m_needsReRefreshing
    shown,        \* the version it has fetched last
    asked,        \* a GetAll() call is on its way to the item
    toSource,     \* signals and answers on their way to it
    events

appVars     == <<app, version, told>>
watcherVars == <<registered, watched, wpc, wItem>>
tableVars   == <<services, rows>>
fetchVars   == <<connected, timer, refreshing, again, shown>>
sourceVars  == <<fetchVars, asked, toSource>>
vars == <<appVars, watcher, watcherVars, toWatcher, proxy, toHost, tableVars,
          sourceVars, events>>

WatcherMsg == [type : {"Register"}, item : Item]
         \cup [type : {"Lost"}, service : Service]
         \cup [type : {"Get"}]
HostMsg == [type : {"Registered", "Unregistered"}, item : Item]
      \cup [type : {"List"}, items : SUBSET Item]
      \cup [type : {"Come", "Gone"}]
SourceMsg == [type : {"Changed", "Error"}]
        \cup [type : {"Answer"}, version : 0 .. MaxVersion]

On(i) == app[ServiceOf[i]]
Items(s) == {i \in Item : ServiceOf[i] = s}

Event(z) ==
    /\ events' = [events EXCEPT ![z] = @ + 1]
    /\ \E most \in MaxEvents : \A y \in Party : events'[y] <= most[y]
-----------------------------------------------------------------------------
AppStart(s) ==
    /\ ~app[s] /\ Event("app")
    /\ app' = [app EXCEPT ![s] = TRUE]
    /\ UNCHANGED <<version, told, watcher, watcherVars, toWatcher, proxy,
                   toHost, tableVars, sourceVars>>

(* RegisterStatusNotifierItem(i) is called, without waiting.               *)
Call(i) ==
    /\ watcher /\ On(i)
    /\ toWatcher' = Append(toWatcher, [type |-> "Register", item |-> i])
    /\ told' = told \cup {i}
    /\ UNCHANGED <<app, version, watcher, watcherVars, proxy, toHost,
                   tableVars, sourceVars>>
AppRegister(i) == i \notin told /\ Call(i) /\ UNCHANGED events
AppRepeat(i) == i \in told /\ Event("app") /\ Call(i)

AppChange(i) ==
    /\ On(i) /\ i \in Changing /\ version[i] < MaxVersion
    /\ version' = [version EXCEPT ![i] = @ + 1]
    /\ toSource' = [x \in Source |->
           IF x[1] = i /\ connected[x]
           THEN Append(toSource[x], [type |-> "Changed"]) ELSE toSource[x]]
    /\ UNCHANGED <<app, told, watcher, watcherVars, toWatcher, proxy, toHost,
                   tableVars, fetchVars, asked, events>>

(* The item of source x answers GetAll().                                  *)
AppAnswer(x) ==
    /\ asked[x] /\ On(x[1])
    /\ asked' = [asked EXCEPT ![x] = FALSE]
    /\ toSource' = [toSource EXCEPT ![x] =
           Append(@, [type |-> "Answer", version |-> version[x[1]]])]
    /\ UNCHANGED <<appVars, watcher, watcherVars, toWatcher, proxy, toHost,
                   tableVars, fetchVars, events>>

(* The application ends: who watches its name is told, who waits for an    *)
(* answer gets an error.                                                   *)
AppQuit(s) ==
    /\ app[s] /\ Event("app")
    /\ app' = [app EXCEPT ![s] = FALSE]
    /\ told' = told \ Items(s)
    /\ toWatcher' = IF s \in watched
                    THEN Append(toWatcher, [type |-> "Lost", service |-> s])
                    ELSE toWatcher
    /\ asked' = [x \in Source |-> asked[x] /\ x[1] \notin Items(s)]
    /\ toSource' = [x \in Source |->
           IF asked[x] /\ x[1] \in Items(s)
           THEN Append(toSource[x], [type |-> "Error"]) ELSE toSource[x]]
    /\ UNCHANGED <<version, watcher, watcherVars, proxy, toHost, tableVars,
                   fetchVars>>
=============================================================================
