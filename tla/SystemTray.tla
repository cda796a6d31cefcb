------------------------------- MODULE SystemTray -------------------------------
(***************************************************************************)
(* The system tray: applications, watcher, host and sources composed.      *)
(***************************************************************************)
EXTENDS StatusNotifierWatcher, StatusNotifierItemSource, StatusNotifierItemHost

VARIABLE overtaken    \* history: the host has once been Overtaken, below

trayVars == <<vars, overtaken>>

(* The status bar has found a watcher, its own (which knows no item yet)   *)
(* or another program's, has connected its signals and asked for the list. *)
Init ==
    /\ app \in [Service -> BOOLEAN]
    /\ registered \in SUBSET {i \in Item : On(i)}
    /\ told = registered
    /\ watched = {ServiceOf[i] : i \in registered}
    /\ version = [i \in Item |-> 0]
    /\ watcher = TRUE /\ wpc = "idle"
    /\ wItem = CHOOSE i \in Item : TRUE
    /\ toWatcher = <<[type |-> "Get"]>>
    /\ proxy = TRUE /\ toHost = <<>>
    /\ services = [i \in Item |-> 0] /\ rows = <<>>
    /\ connected = [x \in Source |-> FALSE]
    /\ timer = [x \in Source |-> FALSE]
    /\ refreshing = [x \in Source |-> FALSE]
    /\ again = [x \in Source |-> FALSE]
    /\ shown = [x \in Source |-> 0]
    /\ asked = [x \in Source |-> FALSE]
    /\ toSource = [x \in Source |-> <<>>]
    /\ events = [z \in Party |-> 0] /\ overtaken = FALSE

AppStep ==
    \/ \E s \in Service : AppStart(s) \/ AppQuit(s)
    \/ \E i \in Item : AppRegister(i) \/ AppRepeat(i) \/ AppChange(i)
    \/ \E x \in Source : AppAnswer(x)

TrayStep ==
    \/ AppStep \/ WDie \/ WStart \/ WatcherStep \/ HostStep
    \/ \E x \in Source : SourceStep(x)

(* The host may have asked a watcher for its list on the word that an      *)
(* earlier one had come, while the news that this one has come waits: two  *)
(* watchers have gone meanwhile.  What the list says is old by the time    *)
(* the signals are connected, and the host has no means to tell.           *)
Has(q, t) == \E k \in DOMAIN q : q[k].type = t
Overtaken == Has(toWatcher, "Get") /\ Has(toHost, "Come")

Next == TrayStep /\ overtaken' = (overtaken \/ Overtaken')

Spec == Init /\ [][Next]_trayVars

(* The event loops of watcher and status bar serve what has arrived, and   *)
(* an application that is there answers: some such step is taken as long   *)
(* as there is one.                                                        *)
Serve ==
    \/ WatcherStep \/ HostStep
    \/ \E x \in Source : SourceStep(x) \/ AppAnswer(x)

FairSpec == Spec /\ WF_vars(Serve)
-----------------------------------------------------------------------------
TypeOK ==
    /\ app \in [Service -> BOOLEAN] /\ version \in [Item -> 0 .. MaxVersion]
    /\ told \subseteq Item
    /\ watcher \in BOOLEAN /\ registered \subseteq Item
    /\ watched \subseteq Service /\ wpc \in {"idle", "check", "add"}
    /\ wItem \in Item /\ toWatcher \in Seq(WatcherMsg)
    /\ proxy \in BOOLEAN /\ toHost \in Seq(HostMsg)
    /\ services \in [Item -> 0 .. MaxSource] /\ rows \in Seq(Source)
    /\ connected \in [Source -> BOOLEAN] /\ timer \in [Source -> BOOLEAN]
    /\ refreshing \in [Source -> BOOLEAN] /\ again \in [Source -> BOOLEAN]
    /\ shown \in [Source -> 0 .. MaxVersion] /\ asked \in [Source -> BOOLEAN]
    /\ toSource \in [Source -> Seq(SourceMsg)]
    /\ events \in [Party -> Nat] /\ overtaken \in BOOLEAN

(* The view shows each item the host knows once, and no row holds a source *)
(* that was deleted, whatever order signals and list arrive in.  A list    *)
(* that has been overtaken may add an item that the signal adds again.     *)
RowsRight ==
    /\ ToSet(rows) = {<<i, services[i]>> : i \in Mirrored}
    /\ \A j, k \in DOMAIN rows : rows[j] = rows[k] => j = k
RowsMatch == ~overtaken => RowsRight

(* Once everything sent has been served, the watcher has items of running  *)
(* applications only, and watches them; and the host knows the items that  *)
(* the watcher has, unless a list has been overtaken.                      *)
WatcherRight ==
    toWatcher = <<>> /\ wpc = "idle" =>
        \A i \in registered : On(i) /\ ServiceOf[i] \in watched
Agreement ==
    /\ ~overtaken /\ toWatcher = <<>> /\ toHost = <<>> => Mirrored = registered
    /\ WatcherRight
-----------------------------------------------------------------------------
(* When applications and watchers come to rest -- the bounds see to it --  *)
(* the tray does: an item that its application has registered appears,     *)
Appears == <>[](told \subseteq Mirrored)

(* an item whose application has gone disappears, unless it came with a    *)
(* list that was overtaken,                                                *)
Disappears == <>[](overtaken \/ \A i \in Mirrored : On(i))

(* and the last change of an item is shown, though refreshes that meet one *)
(* that is under way are only noted.                                       *)
LastChangeShown ==
    <>[](\A i \in Mirrored \cap told : shown[<<i, services[i]>>] = version[i])
=============================================================================
