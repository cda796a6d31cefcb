----------------------------- MODULE LauncherModel -----------------------------
(***************************************************************************)
(* The launcher's list of applications (launchermodel.cpp).  Its own       *)
(* thread keeps the list; when the directory of desktop files changes, a   *)
(* thread of the pool scans it and posts what is to be added and removed.  *)
(* It reads the list, too, which nothing protects.                         *)
(***************************************************************************)
EXTENDS Integers, Sequences, FiniteSets, SequencesExt

CONSTANTS
    App,          \* paths of desktop files
    Rank,         \* the order of the applications' names
    Thread,       \* threads of the pool
    MaxEvents     \* bound: changes of files, moves, ends

ASSUME LauncherModelAssumption ==
    /\ IsFiniteSet(App) /\ Rank \in [App -> Nat] /\ MaxEvents \in Nat

VARIABLES
    (* the directory *)
    disk,         \* the desktop file: absent, shown, or hidden (NoDisplay)
    version,      \* its contents
    (* the launcher *)
    list,         \* m_appItems
    firstLoad,    \* m_firstLoad
    saving,       \* m_saveTimer is active
    saved,        \* the list in the settings
    watching,     \* the constructor has had the directory watched
    files,        \* m_fileWatcher->files()
    dirChanged,   \* directoryChanged is to be delivered
    fileChanged,  \* files fileChanged is to be delivered for
    posted,       \* calls posted to the launcher's thread
    (* refresh() *)
    refresh,      \* how far each thread is
    entries,      \* allEntries
    before,       \* m_appItems, when it began to read it for the second time
    (* history *)
    skipped,      \* files whose change was passed over
    slips,        \* what has happened since a refresh last had a good start
    events

diskVars == <<disk, version>>
listVars == <<list, firstLoad, saving, saved>>
watchVars == <<watching, files, dirChanged, fileChanged>>
threadVars == <<refresh, entries, before>>
vars == <<diskVars, listVars, watchVars, posted, threadVars, skipped, slips,
          events>>

(* An entry's mark as a new application is lost when it is copied into the *)
(* list, and left out.                                                     *)
Entry == [id : App, version : Nat, args : BOOLEAN]
Call == [type : {"add", "remove"}, file : App] \cup [type : {"refreshed"}]

Ids(s) == {s[k].id : k \in DOMAIN s}
FindNotFirst(f) ==                                               \* mutant
    LET k == SelectInSeq(list, LAMBDA e : e.id = f)
    IN  IF k = 1 THEN 0 ELSE k
Find(f) == SelectInSeq(list, LAMBDA e : e.id = f)
Exists == {f \in App : disk[f] # "absent"}

(* What is written to the settings: the command is not.                    *)
Stored(s) == [k \in DOMAIN s |-> [s[k] EXCEPT !.args = FALSE]]

(* What is read of file f; of none, empty values.                          *)
ContentsInvalid(f) == IF f \in Exists THEN version[f] ELSE -1     \* mutant
Contents(f) == IF f \in Exists THEN version[f] ELSE 0

Event == events < MaxEvents /\ events' = events + 1
-----------------------------------------------------------------------------
(* The directory changes: packages are installed, replaced and removed,    *)
(* files are edited in place.  A change that comes after the first scan    *)
(* and before the directory is watched is not heard of.                    *)
Hear(d, F) ==
    /\ dirChanged' = (dirChanged \/ (d /\ watching))
    /\ fileChanged' = fileChanged \cup F
    /\ slips' = IF ~watching /\ \A t \in Thread : refresh[t] # "queued"
                THEN slips \cup {"deaf"} ELSE slips
    /\ UNCHANGED <<watching, listVars, posted, threadVars, skipped>>

Install(f, s) ==
    /\ Event
    /\ disk' = [disk EXCEPT ![f] = s]
    /\ version' = [version EXCEPT ![f] = @ + 1]
    /\ files' = files \ {f}
    /\ Hear(TRUE, files \cap {f})

Uninstall(f) ==
    /\ f \in Exists /\ Event
    /\ disk' = [disk EXCEPT ![f] = "absent"]
    /\ files' = files \ {f}
    /\ Hear(TRUE, files \cap {f})
    /\ UNCHANGED version

Edit(f) ==
    /\ f \in Exists /\ Event
    /\ version' = [version EXCEPT ![f] = @ + 1]
    /\ Hear(FALSE, files \cap {f})
    /\ UNCHANGED <<disk, files>>
-----------------------------------------------------------------------------
(* refresh(), in thread t: the directory is scanned, all its files are to  *)
(* be added, ...                                                           *)
TScan(t) ==
    /\ refresh[t] = "queued"
    /\ refresh' = [refresh EXCEPT ![t] = "scanned"]
    /\ entries' = [entries EXCEPT ![t] = Exists]
    /\ UNCHANGED <<diskVars, listVars, watchVars, posted, before, skipped,
                   slips, events>>

TAdd(t) ==
    /\ refresh[t] = "scanned"
    /\ refresh' = [refresh EXCEPT ![t] = "posted"]
    /\ posted' = posted \o SetToSeq([type : {"add"}, file : entries[t]])
    /\ UNCHANGED <<diskVars, listVars, watchVars, entries, before, skipped,
                   slips, events>>

(* ... and what is in the list, but not among them, to be removed.  If the *)
(* list changes meanwhile, any of the old and new entries may be seen.     *)
TRead(t) ==
    /\ refresh[t] = "posted"
    /\ refresh' = [refresh EXCEPT ![t] = "reading"]
    /\ before' = [before EXCEPT ![t] = list]
    /\ UNCHANGED <<diskVars, listVars, watchVars, posted, entries, skipped,
                   slips, events>>

TRemove(t) ==
    /\ refresh[t] = "reading"
    /\ refresh' = [refresh EXCEPT ![t] = "idle"]
    /\ \E seen \in SUBSET (Ids(before[t]) \cup Ids(list)) :
          /\ before[t] = list => seen = Ids(list)
          /\ posted' = posted \o SetToSeq([type : {"remove"},
                                           file : seen \ entries[t]])
                              \o <<[type |-> "refreshed"]>>
    /\ slips' = IF before[t] = list THEN slips ELSE slips \cup {"race"}
    /\ before' = [before EXCEPT ![t] = <<>>]
    /\ entries' = [entries EXCEPT ![t] = {}]
    /\ UNCHANGED <<diskVars, listVars, watchVars, skipped, events>>
-----------------------------------------------------------------------------
(* The constructor ends: from now on the launcher's thread serves events.  *)
Watch ==
    /\ ~watching
    /\ watching' = TRUE
    /\ UNCHANGED <<diskVars, listVars, files, dirChanged, fileChanged, posted,
                   threadVars, skipped, slips, events>>

(* directoryChanged: a refresh.  It has a good start when nothing is left  *)
(* of an earlier one.                                                      *)
Settled == posted = <<>> /\ \A t \in Thread : refresh[t] = "idle"
DirChanged(t) ==
    /\ watching /\ dirChanged
    /\ dirChanged' = FALSE
    /\ refresh[t] = "idle"
    /\ refresh' = [refresh EXCEPT ![t] = "queued"]
    /\ slips' = IF Settled THEN {} ELSE slips \cup {"overlap"}
    /\ UNCHANGED <<diskVars, listVars, watching, files, fileChanged, posted,
                   entries, before, skipped, events>>

UpdateNone(k, f) == list                                         \* mutant
Update(k, f) == [list EXCEPT ![k].version = Contents(f), ![k].args = TRUE]

(* onFileChanged(f): the first entry of the list is taken for none.        *)
FileChanged(f) ==
    LET k == Find(f)
    IN  /\ watching /\ f \in fileChanged
        /\ fileChanged' = fileChanged \ {f}
        /\ IF k = 1
           THEN skipped' = skipped \cup {f} /\ UNCHANGED list
           ELSE list' = Update(k, f) /\ UNCHANGED skipped
        /\ UNCHANGED <<diskVars, firstLoad, saving, saved, watching, files,
                       dirChanged, posted, threadVars, slips, events>>

Served(c) ==
    /\ watching /\ posted # <<>> /\ c = Head(posted)
    /\ posted' = Tail(posted)
    /\ UNCHANGED <<diskVars, saved, watching, dirChanged, threadVars, slips,
                   events>>

(* addApp(f): not if it is not to be displayed; an entry that is there is  *)
(* brought up to date, else there is a new one.  While the list is loaded  *)
(* for the first time it is not saved.                                     *)
Saves == ~firstLoad
AddApp(f) ==
    LET k == Find(f)
        entry == [id |-> f, version |-> Contents(f), args |-> TRUE]
    IN  /\ Served([type |-> "add", file |-> f])
        /\ IF disk[f] = "hidden"
           THEN UNCHANGED <<list, saving, files, skipped>>
           ELSE /\ list' = IF k # 0 THEN Update(k, f) ELSE Append(list, entry)
                /\ saving' = (saving \/ (k = 0 /\ Saves))
                /\ files' = files \cup ({f} \cap Exists)
                /\ skipped' = skipped \ {f}
        /\ UNCHANGED <<firstLoad, fileChanged>>

(* removeApp(f).                                                           *)
SavesNothing == saving                                           \* mutant
SavesRemoval == TRUE
RemoveApp(f) ==
    LET k == Find(f)
    IN  /\ Served([type |-> "remove", file |-> f])
        /\ IF k = 0
           THEN UNCHANGED <<list, saving, files, fileChanged, skipped>>
           ELSE /\ list' = RemoveAt(list, k)
                /\ saving' = SavesRemoval
                /\ files' = files \ {f}
                /\ fileChanged' = fileChanged \ {f}
                /\ skipped' = skipped \ {f}
        /\ UNCHANGED firstLoad

(* onRefreshed(): after the first time the list is sorted.                 *)
Sorted(s) ==
    {t \in {[k \in DOMAIN s |-> s[p[k]]] : p \in Bijection(DOMAIN s, DOMAIN s)} :
        \A j, k \in DOMAIN t : j < k => Rank[t[j].id] <= Rank[t[k].id]}
Refreshed ==
    /\ Served([type |-> "refreshed"])
    /\ firstLoad' = FALSE
    /\ IF firstLoad
       THEN /\ list' \in Sorted(list)
            /\ saving' = TRUE
       ELSE UNCHANGED <<list, saving>>
    /\ UNCHANGED <<files, fileChanged, skipped>>
-----------------------------------------------------------------------------
(* The user drags an entry to another place.                               *)
Move(from, to) ==
    /\ watching /\ from # to /\ Event
    /\ list' = InsertAt(RemoveAt(list, from), to, list[from])
    /\ saving' = TRUE
    /\ UNCHANGED <<diskVars, firstLoad, saved, watchVars, posted, threadVars,
                   skipped, slips>>

(* save(), a second after the last change.                                 *)
Save ==
    /\ watching /\ saving
    /\ saving' = FALSE /\ saved' = Stored(list)
    /\ UNCHANGED <<diskVars, list, firstLoad, watchVars, posted, threadVars,
                   skipped, slips, events>>

(* The launcher ends, in order (it saves then) or not, and is started: it  *)
(* has a refresh begun before it has the directory watched.                *)
Started(l) ==
    /\ list' = l /\ firstLoad' = (l = <<>>) /\ saving' = FALSE
    /\ watching' = FALSE /\ files' = {}
    /\ dirChanged' = FALSE /\ fileChanged' = {} /\ posted' = <<>>
    /\ \E t \in Thread :
          refresh' = [x \in Thread |-> IF x = t THEN "queued" ELSE "idle"]
    /\ entries' = [x \in Thread |-> {}]
    /\ before' = [x \in Thread |-> <<>>]
    /\ skipped' = {} /\ slips' = {}
Restart ==
    /\ Event
    /\ \E l \in {Stored(list), saved} : Started(l) /\ saved' = l
    /\ UNCHANGED diskVars

Init ==
    /\ disk \in [App -> {"absent", "shown"}]
    /\ version = [f \in App |-> 1]
    /\ list = <<>> /\ firstLoad = TRUE /\ saving = FALSE /\ saved = <<>>
    /\ watching = FALSE /\ files = {}
    /\ dirChanged = FALSE /\ fileChanged = {} /\ posted = <<>>
    /\ \E t \in Thread :
          refresh = [x \in Thread |-> IF x = t THEN "queued" ELSE "idle"]
    /\ entries = [x \in Thread |-> {}]
    /\ before = [x \in Thread |-> <<>>]
    /\ skipped = {} /\ slips = {} /\ events = 0

Next ==
    \/ \E f \in App : \/ \E s \in {"shown", "hidden"} : Install(f, s)
                      \/ Uninstall(f) \/ Edit(f)
                      \/ FileChanged(f) \/ AddApp(f) \/ RemoveApp(f)
    \/ \E t \in Thread : TScan(t) \/ TAdd(t) \/ TRead(t) \/ TRemove(t)
                         \/ DirChanged(t)
    \/ \E from, to \in DOMAIN list : Move(from, to)
    \/ Watch \/ Refreshed \/ Save \/ Restart

Spec == Init /\ [][Next]_vars
-----------------------------------------------------------------------------
TypeOK ==
    /\ disk \in [App -> {"absent", "shown", "hidden"}]
    /\ version \in [App -> Nat]
    /\ list \in Seq(Entry) /\ firstLoad \in BOOLEAN
    /\ saving \in BOOLEAN /\ saved \in Seq(Entry)
    /\ watching \in BOOLEAN /\ files \subseteq App
    /\ dirChanged \in BOOLEAN /\ fileChanged \subseteq App
    /\ posted \in Seq(Call)
    /\ refresh \in [Thread -> {"idle", "queued", "scanned", "posted",
                               "reading"}]
    /\ entries \in [Thread -> SUBSET App]
    /\ before \in [Thread -> Seq(Entry)]
    /\ skipped \subseteq App /\ slips \subseteq {"deaf", "overlap", "race"}
    /\ events \in Nat

Quiet == Settled /\ ~dirChanged /\ fileChanged = {}

(* No application is in the list twice, and a change of a file is reported *)
(* only to an entry: onFileChanged() would take one at index -1.           *)
Consistent ==
    /\ \A j, k \in DOMAIN list : list[j].id = list[k].id => j = k
    /\ fileChanged \subseteq Ids(list)

(* When all is quiet: if the last refresh had a good start and was alone   *)
(* with the list, every application to be shown is listed, and nothing     *)
(* that does not exist.  What the list says of a shown application is in   *)
(* its file, unless its change was passed over, and it has the command     *)
(* that launch() takes without asking whether there is one; it takes a     *)
(* change that nothing hears of and a refresh that then misreads the list  *)
(* to break that.                                                          *)
UpToDate ==
    Quiet =>
       /\ slips = {} =>
             /\ \A f \in App : disk[f] = "shown" => f \in Ids(list)
             /\ Ids(list) \subseteq Exists
       /\ ~({"deaf", "race"} \subseteq slips) =>
             \A k \in DOMAIN list :
                disk[list[k].id] = "shown" /\ list[k].id \notin skipped =>
                   list[k].version = version[list[k].id] /\ list[k].args

(* Which applications there are, and in what order, is in the settings or  *)
(* about to be saved.                                                      *)
Order(s) == [k \in DOMAIN s |-> s[k].id]
SavedInTime == saving \/ firstLoad \/ Order(saved) = Order(list)
=============================================================================
