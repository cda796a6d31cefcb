# A formal model of Lingmo OS

TLA+ modules, TLC runs and TLAPS proofs about the programs of this repository.
Modelled are six of them, those whose state is kept in step with something
outside them:

* **appmotor**, the service that starts the applications of the desktop (an
  invoker asks a daemon's pre-forked booster to become the application);
* the password check of the **screen locker**;
* the **system tray** of the status bar, over the session bus;
* the list of applications of the **dock**, and the file it is kept in;
* the list of applications of the **launcher**, which follows a directory;
* the places of files in a grid of the **file manager** (and of the desktop).

The rest of the repository is inventoried below, with the reasons why it is
not modelled and the order in which it should follow.

Contents: 1 inventory · 2 appmotor and its model · 3 its runs · 4 bounds and
fairness · 5 proofs · 6 what the runs found · 7 abstractions · 8 the screen
locker · 9 the system tray · 10 the dock · 11 the launcher's list · 12 the
file manager's grid · 13 not modelled · 14 plan. Sections 2 to 7 are about appmotor.

## 1. Inventory

The repository is a desktop in some twenty programs and libraries. They meet
on D-Bus, through the window system and through settings files; hardly any of
them shares memory with another. For each part: its state, its operations,
whom it talks to, what is hard about it and what would make it correct.

| part | state and operations | talks to | what is hard, what must hold |
|---|---|---|---|
| `appmotor` | process table of boosters, tables booster → invoker, signal pipe, connections; fork, accept, launch, reap, bury, switch mode, terminate | invokers over a Unix socket, boosters over a datagram socket, kernel by signals and `waitpid` | three kinds of process, asynchronous deaths, a daemon that blocks for seconds; every invoker is answered, with its own application's status, and no child is lost. **Modelled** |
| `screenlocker` | helper process, channel, "ready", password buffer; `tryUnlock`, requests of the helper, its answers and its end | helper `checkpass` over a socket pair and signals | every attempt ends in success or failure, only the right password unlocks, one helper at a time and none left behind. **Modelled** |
| `statusbar`: tray | watcher's registry, host's map service → source, refresh flags of a source, rows of the model | applications on D-Bus | names that vanish while a list is being fetched; the rows are those of the registered items, the last change of an item is shown. **Modelled** |
| `statusbar`: menus | pending layout updates, ids refreshed on show | applications on D-Bus | an update is not swallowed for ever |
| `dock` | list of items (id, windows, pinned, active), saved list | window system, settings file | long sequences of calls and signals; every window in exactly one item, one item per application, what is pinned comes back at the next start. **Modelled** |
| `filemanager` | folder model, positioner's two maps, selection, path history, size jobs, thumbnails | file system jobs, threads | the positioner's maps stay inverse while rows come, go and are sorted under a listing that is not over; back and forward undo one another. **Positioner modelled** |
| `desktop` | the folder model of the file manager as a desktop | as above | as above |
| `launcher` | list of applications, order, file watcher | worker thread | the list converges to the files although refreshes overlap with changes of the files and of the user. **Modelled** |
| `debinstaller`, `updator`, `daemon` | one transaction each and a status | package service on D-Bus | success is reported only for a transaction that succeeded; never two at once |
| `terminal` | block array, history, scroll regions | pty | indices after wrapping and resizing |
| `libcute` | network scan timers, screen configuration, audio, bluetooth, accounts | system services on D-Bus | answers that come after what they were for has gone; rate limits |
| `calculator` | a parser's stack, arbitrary-precision numbers | none | a pure algorithm |
| `ling-settings` | one page per setting | services, settings files | forwards single values |
| `texteditor`, `screenshot` | one document, one picture | files | sequential and small |
| `kwin-plugins`, `qt-plugins`, `LingmoUI`, `sddm-theme`, `cursor-themes`, `ling-wallpapers` | painting and assets | window manager, Qt | nothing a state machine says more about than the code |

`terminal/qmltermwidget` and `calculator/engine` come from other projects
(Konsole, SpeedCrunch), `libdbusmenuqt` too.

appmotor was taken first: it is the only program here whose purpose is
concurrent, every application start passes through it, and its failures (an
invoker that hangs, an exit status given to the wrong one, a daemon without a
booster) need events of several processes in an order no test produces.

## 2. appmotor and its model

The daemon (`launcherlib/daemon.cpp`) keeps one forked process ready, the
*booster*. An `invoker` connects to the listening socket, which every booster
inherits; the booster accepts, reads the request and answers ACK and its pid,
sends the daemon the invoker's pid and connection in a datagram, and turns
into the application. On the datagram the daemon forks the next booster. When
the application ends, the daemon reaps it and writes the exit status on the
connection, and the invoker exits with it. If instead the invoker goes away,
the daemon stops the application.

| module | models | state |
|---|---|---|
| `LauncherState` | what the processes share: process table, connections, listening queue, datagrams, signals; death and SIGTERM as the kernel does them | all variables |
| `Booster` | a child from fork to end (`booster.cpp`, `connection.cpp`, the lock of `single-instance`) | `proc conn xstat boot lock` |
| `Invoker` | `invoker.c`, `invokelib.c` | `ivk kpid est` |
| `LauncherDaemon` | the loop of `Daemon::run()` with all it calls, and its signal handler | `dpc rsig todo cur bpid children invOf bootMode pend pipe` |
| `AppMotor` | the composition: `Init`, `Next`, fairness, properties | |
| `MCAppMotor` | instances for TLC | |
| `AppMotorProofs`, `AppMotorInvokers` | theorems | |

How the state corresponds to the code:

* `bpid` is `m_boosterPid`, `children` is `m_children`, `invOf` is
  `m_boosterPidToInvokerFd` together with `m_boosterPidToInvokerPid` (they are
  always written together), `dgrams` is `m_boosterLauncherSocket`, `pipe` is
  `m_sigPipeFd`, `kpid` is `g_invoked_pid`, `est` an invoker's `exit_status`.
* `dpc` names the place where the daemon may be overtaken by others. The loop
  is one thread, so what it does between two blocking calls is one action, and
  the places are: `select()`, its three consequences in the order of the code
  (datagram, signal, closed connections), the two loops of `reapZombies()`,
  and inside `close_invoker()` and `kill_process()` each write, wait and kill.
  `todo` is the iterator of the loop under way and `cur` the arguments of the
  burial under way.
* `wr[i]` false says that the invoker has shut down or closed its end; `end[i]`
  says who holds the other: queue, booster, a datagram, daemon, nobody.
* A child is `forked` until it has restored its signal handlers; then
  `starting`, `accepting`, `serving` (reads the request), `checking` (acknowledged,
  about to lock), `handing` (datagram sent), `app`, and `zombie` and `reaped`.
  From `checking` a `--single-instance` request that gets no lock leads back to
  `accepting`: the booster raises the running window, reports and closes, and waits for
  the next invoker. That is so for whatever reason `lockFunc()` fails, and if
  the plugin is not loaded (`PluginLoaded`) there is no lock at all.
* An invoker that was interrupted or has lost its connection is `closing`
  (`shutdown_socket()`: it has shut down its side and reads on) until the end of
  file comes or five seconds are over (`expired`), and then closes. These are two steps:
  what the launcher does in between matters (`wrong_kill`).

History variables: `asked` (somebody outside wanted the daemon to stop),
`raced` and `strays` (see 6). They are written and never read by an action
other than through `Rest`.

`Rest` stutters where nothing need happen any more: all invokers are done, or
one of the three accidents `Lost` left one waiting. Everywhere else TLC's
deadlock check is on, in every run: somebody can always move.

## 3. Runs

| run | what it asks |
|---|---|
| `launches` (1 900 000 states) | Two waiting invokers of two applications, one of them `--single-instance`, and one accident at any point: a booster dies, an invoker is interrupted, killed, or does not react within the daemon's five seconds, the mode is switched (USR1, USR2), the daemon gets SIGTERM or SIGKILL. `MapFaithful`: the daemon pairs each invoker with the process that serves it, and buries the right pair. `OneBooster`: only the youngest child may take requests. `ExitFaithful`: an exit status that an invoker gets is that of its own application, or EXIT_FAILURE where the daemon was stopping or the invoker hung up. `NoChildForgotten`: no child escapes `m_children`. `PidIsOwn`: the pid an invoker keeps is that of the process which serves it, until a booster asked for a single instance has closed the connection. `IdleBoosterMode`: no booster of the other mode survives a switch. `SwitchSparesApps`: a switch ends no application whose launch the daemon knows about. `StopsEverything`: a daemon that stops leaves no process behind. |
| `live` (184 000 states) | Two `--single-instance` invokers of one application; forks that fail. `OneLaunched`: as long as the daemon lives, the application is not run twice, neither by two of its processes nor by a process and an invoker that executes it itself; when the daemon is dead, its processes still exclude each other. Under fairness: `Answered`: an invoker waits for a process that runs and for nothing else, whoever dies. `FollowsInvoker`: an application is stopped when its waiting invoker is gone. `Replenished`: there is a booster again and again. |
| `wrong_kill`, `wrong_booster`, `status_lost`, `mode_stops` | Violations, see 6. |

`TypeOK` is checked in `launches` and proved.

## 4. Bounds and fairness

*Processes.* `MaxPid` is the number of forks. Three allow two launches and the
booster after them, or a launch, the death of a booster and its replacement; the
next fork fails, so the daemon's death by an uncaught
exception is explored too. *Invokers.* The errors of this design relate two
launches (a datagram taken for another's, a status given to another); a third
adds only a longer queue, and `wrong_kill` has one. `Backlog` is
1, so that a queue forms and fills up. *Accidents.* `MaxFaults` is one per
behaviour at every point and in every combination with the events that are not
counted: applications end whenever they like, with either status. `Status` has
one success and one failure. `launches` starts in boot mode and may leave it: the
two modes differ in how long a booster takes to be ready, which no step measures.

Nothing but process ids and accidents is cut off, and neither by a constraint:
when processes run out, `fork()` fails as it does in the code, and accidents
need not happen.

No symmetry is used: invokers differ in what they ask for.

*Fairness* (`FairSpec`, run `live`): weak fairness for each booster until it is
an application, each invoker, and the daemon. The kernel schedules runnable
processes, every blocking call of them has a guard that says what it waits for,
and no step of one can be disabled and enabled by others for ever. Timeouts of
the daemon (`stall`) are accidents and not assumed; the invoker's five seconds are a step of
it, since `poll()` returns then. Nothing is assumed of applications (they may
run for ever or ignore SIGTERM) nor of what comes from outside.

`Answered`, `FollowsInvoker` and `Replenished` allow for `Lost`. Without that
they fail for the reasons the findings give.

## 5. Proofs

All theorems are of `Spec` and hold for every set of invokers and
applications, every number of processes and every number of outside events.
The only assumption is `LauncherAssumption` (`LauncherState`): the special
values differ, sets are of the right kind and `MaxPid > 0`.

* `TypesHold` (`AppMotorProofs`). `TypeOK` is not inductive: `Head(pipe)` is
  a signal only if the pipe is not empty, the daemon writes to `cur.inv` only
  if that is an invoker. `Ctl` says for each value of `dpc` what it implies,
  and `TypeInvariant == TypeOK /\ Ctl` is inductive (`DaemonCtl`, `OthersCtl`).
* `AlwaysLife` is the workhorse: one step moves a process
  only forward in its life and changes its connection only while it accepts.
  `StepKinds` divides the steps in calm ones (nobody is forked or launches),
  forks and launches, and the later proofs have one case for each.
* `OneLaunchedHolds` from `Locked` and `Fallen`: who runs a single-instance application
  that must be locked holds its lock, which is passed on only from the dead; and an
  invoker falls back only when nobody listens, so that the daemon is dead, which it
  stays (`Forever`).
* `NoChildForgottenHolds` is inductive on top of `Base`; the case that matters
  is `DWaitBooster` and `DReaped`, where `cur` lets go of a process: `Ctl` knows
  that it is reaped then.
* `StopsEverythingHolds` from it: the daemon exits with `m_children` empty.
* `MapFaithfulHolds`, `OneBoosterHolds` from `Paired`: as long as nothing has
  raced, there is at most one unread datagram, from the current booster, which
  has launched (`OneDatagram`); only the booster can accept (`OnlyBooster`);
  the table and the burial hold the connections of launched processes
  (`TableRight`, `BurialRight`); and the booster is not reaped before its
  datagram is read (`ReadFirst`). Each needs the others: the table is written
  from the datagram under `m_boosterPid`, and that changes when the booster
  is reaped.
* `SwitchSparesAppsHolds` from `UnreadLaunch`: if the process
  `killBoosters()` signals is an application already, its datagram is unread.
* `IdleBoosterModeHolds`: a switch either ends the booster or, when the
  signal meets a child with the daemon's handlers, leaves SIGTERM in the pipe;
  `KeepsStopping` shows that such a daemon does not come back from stopping.

* `PidIsOwnHolds` (`AppMotorInvokers`) needs to know who holds a connection
  and what is on it. `Owners` has four parts: a connection is in the queue or
  with one process and is never accepted again (`AcceptedOnce`); `end` says who
  holds it (`Ends`); the messages on it come in order, and whoever may still
  send an exit status has sent the pid before (`Answers`); and a pid on a
  connection, or taken from it, is that of a process which goes on with this
  invoker, or a single instance was asked for and the connection is closed
  (`Owned`, `Left`). A booster goes on to another invoker only in `BActivate`, and
  closes first. What the invoker does with a pid whose booster has left is not covered,
  and goes wrong: `wrong_kill`. Most steps
  say nothing to anybody (`Silent`); `SilentOwners` deals with all of them at
  once, and each of the others has a lemma.
* `ExitFaithfulHolds`: a verdict is true when it is taken over
  from `waitpid()`, or made up for an invoker that hung up or by a daemon that
  stops, because the burial is the right one (`Paired`). It stays true until
  it is read (`SettledStays`), because nothing is launched any more for an
  invoker whose connection is neither waiting nor with a booster (`Over`), a
  dead process keeps its status (`Steady`), and a daemon that stops does not
  come back (`KeepsStopping`). That the exit status an invoker keeps comes from
  a message, and not from the loss of its connection, is `Owned` again. The last case of
  `Verdict` is that of single instances.

Model-checked only: the three liveness properties (the prover handles neither
`ENABLED` nor fairness).

## 6. What the runs found

* **`wrong_kill`.** An interrupted invoker gives the launcher five seconds to close the
  connection (`invoker.c:257`), then closes it itself and signals the pid it was given
  (`invoker.c:724-727`), the "pid of the invoked process" (`invoker.c:147`). A booster that is
  asked for a single instance may, between the end of the five seconds and the kill, report that
  it is running already, close the connection and accept the next invoker: it is then killed while it
  serves that one. If the invoker has closed first, the booster's
  report fails and it goes on all the same, because libdbus has had SIGPIPE ignored.
* **`wrong_booster`.** A datagram does not say which booster it is from;
  `readFromBoosterSocket()` files it under `m_boosterPid` (`daemon.cpp:601`).
  If the booster has launched and its application has ended before the daemon
  reads the datagram, because it was busy burying another child, then
  `reapZombies()` reaps it, forks the next, and the invoker is afterwards
  paired with that one. The exit status is lost for its own invoker, which
  waits until somebody else's application ends and gets the status of that.
  `raced` remembers that this has happened; the properties that
  fail afterwards are stated under `~raced`.
* **`status_lost`.** The loop over stray children (`daemon.cpp:827`) takes any
  dead child, also one of `m_children` that died after the first loop had
  looked at it. Its status is logged and its invoker not told; if it was
  the booster, no other is forked (`BoosterLost`).
* **`mode_stops`.** A child has the daemon's signal handlers until it restores
  the default ones. A mode switch in that time sends it SIGTERM, its handler writes
  to the pipe it shares with the daemon, and the daemon terminates.

Seen while reading, and modelled as the code does it: a single instance is
promised by the documentation (`doc/mainpage.dox:11`) and not by the code in two cases. An
invoker that finds nobody listening executes the program without a lock (`IFallback`,
`invoke_fallback()`), beside an instance that outlived its daemon; and without the
single-instance plugin the booster only warns (`booster.cpp:147`). `OneLaunched` is stated
outside these. An invoker with
`--no-wait` exits with EXIT_FAILURE, the initial value of `exit_status`
(`invoker.c:766`); only SIGINT and SIGTERM reach the invoker's loop;
`kill_process("booster")` in the loop over closed connections reaps a process
and leaves it in `m_children` (`strays` holds it; its next `waitpid` fails and
it stays there).

## 7. Abstractions

* A request is read in one step: either it is complete or the connection
  breaks. Arguments, environment, priority, ids and the descriptors that are
  passed do not influence the protocol. Wrong magic numbers and versions are
  not sent.
* One daemon, one socket, one type of booster. Loading of plugins and
  preloading is the step `BReady`.
* Process ids grow with each fork and are not reused; `m_children`, in order of
  insertion, and the maps, in order of pids, are then visited in increasing
  order (`IsLeast`).
* Time is not measured. A timeout of the daemon is an accident, one of an
  invoker is a step that competes with what it waits for.
* A signal raised for the daemon is a member of `pend` until its handler has
  written it to the pipe; two of one kind may become one, as the kernel has it.
* An invoker that dies with data unread makes `recv()` fail on the daemon's
  side, which then signals the invoker: it is gone, so nothing happens.
* Whether a booster that reports to an invoker which is gone dies of SIGPIPE depends on
  whether it has reached a session bus, and is left open (`BActivate`). That it had reached one for an earlier
  invoker is not remembered: a booster that ignores SIGPIPE still ends when its
  acknowledgement cannot be written.
* `prctl(PR_SET_PDEATHSIG)` and the default handlers take effect in one step
  (`BRestore`); they are a few lines apart, at the start of the child.
* `Terminate` lets an application ignore SIGTERM, and never a booster.

Not modelled in appmotor: parsing of command lines, `daemonize()`, systemd
notification, logging, and the stand-alone `single-instance` program.

## 8. The screen locker

The locker (`screenlocker/application.cpp`) has an `Authenticator`; a password
typed goes to `tryUnlock()`. That starts a helper, `ccheckpass`, with a socket
between them (`KCheckPass`). The helper says that it is ready, waits for
SIGUSR1, runs `pam_authenticate()`, for which it asks the locker questions over the
socket, reports success or failure and says again that it is ready. In
*Direct* mode, which the program uses, the locker gives the signal at once and
deletes its `KCheckPass` after the verdict; the destructor sends SIGUSR2 and
waits for the helper. In *Delayed* mode, which the class offers, one helper
serves all attempts and each attempt gives the signal.

| module | models | state |
|---|---|---|
| `CheckPass` | the helper (`checkpass.c`, `checkpass_pam.c`), and all variables | `helper`, what PAM has got (`given aborted conv`); channel and signals: `up down sig notifier` |
| `Authenticator` | `authenticator.cpp`, the composition, properties | `lpc why check ready passwd grace` |
| `UnlockService` | what the view and the session see: attempts and outcomes (`authenticator.h`) | `last pending success life` |
| `MCAuthenticator` | instances for TLC | |
| `AuthenticatorProofs` | theorems | |

`check` is `m_checkPass` (`doomed` after `deleteLater()`), `notifier` is
`m_notifier` and the open `m_fd`, `lpc` is `reaping` while `waitpid()` blocks
the event loop, and `why` remembers who called `reapVerify()`. A slot or a handler
is one action, except that `reapVerify()` is two, before and after `waitpid()`.
History variables: `typed`, `owed`, `unlocked`.

**Run `auth`** (132 000 states), in either mode (`mode`, chosen at the start), with
a right and a wrong password, two questions or texts of PAM in one attempt, up to two
accidents (helper cannot start, helper dies, locker dies). What is asked:

* `SuccessIsEarned`: the screen is unlocked only if the password typed *last*
  is right. A second attempt may come while the first is being checked, with
  the verdict of the first under way; `m_ready` must keep the two apart.
* `NoLeftover`, `ReapedOnce`: a `KCheckPass` between verdict and deletion has a
  helper that announces itself again; it ends exactly once, and no attempt
  meets the helper of another.
* `Answered`, `OpenAgain`: an attempt whose password is accepted is answered, and another
  one becomes possible, unless the channel has broken (below). `OpenAgain` is not asked of
  the Delayed mode: there a question of kind `ConvGetBinary` is answered by `failed()`
  only, so that the helper waits for ever and no later attempt finds it ready.
* `Returns`: `waitpid()` returns, though the helper may be in the middle of
  PAM, of a question or of a blocked write when it is to end.
* `ServiceKept` (of the Direct mode): the refinement, below.
* `NoOrphan`: "prevent becoming an orphan" (`checkpass.c:290`): whenever the locker
  dies, the helper ends.

**Refinement.** `UnlockService` says what the locker promises, without a
helper, a channel or a signal: an attempt succeeds or fails, at most once; it
succeeds only with the right password; a new attempt takes the place of one that
waits; and nothing but a success lets the program end by itself, which is what
opens the screen. `Authenticator` implements it in Direct mode (`ServiceKept`): an
attempt is pending in the abstract while the concrete one is owed an outcome,
and an end of the helper, its announcements, the questions of PAM and the deletion of
a `KCheckPass` are stuttering steps. In Delayed mode the
promise is not kept and not asked: there a broken channel ends the program, with
exit code 1, without a success (`authenticator.cpp:306`).

**Bounds.** Two passwords distinguish right from wrong; `MaxConv` two allows a
question after an answered one (the answer is then null and aborts); `Buffer`
four is less than a busy helper can write, so that it also blocks. Attempts are not
bounded.

**Fairness.** The helper's and the locker's own steps and the timer are weakly
fair: both are scheduled, the event loop polls the socket, PAM returns. Nobody
needs to type, and no accident needs to happen.

**Proofs** (`AuthenticatorProofs`, from `AuthAssumption` only): `TypesHold`,
`NoLeftoverHolds` (inductive as it is), `ReapedOnceHolds` from `Unharmed`, and
`SuccessIsEarnedHolds` from `Earned`: while the locker listens, at most one
question is open and it is the last message (`OneQuestion`), no other password
than the one typed last is anywhere under way (`OnlyTyped`), a success under
way is its own (`SuccessMine`), and when the helper is ready, or has said so,
nothing has been given to PAM and no success follows (`ReadyIsUnspent`). The
last is what makes it safe for `tryUnlock()` to exchange the password.
`ServiceIsKept` proves the refinement (in Delayed mode the mapping makes it a
service that nobody asks anything of): every step of the locker, the helper and the outside maps to a step of
`UnlockService` or to a stutter; `Earned` is what makes a success one with the right
password. The liveness properties are model-checked only.

**Seen while reading**, modelled as the code does it, and therefore allowed
for in the properties. In Direct mode a channel that breaks is reaped without
`failed()` and without deleting the `KCheckPass` (`authenticator.cpp:299`): it
is never ready again and every later attempt fails (`Broken`). A `KCheckPass`
whose `start()` failed has no notifier when its destructor calls
`reapVerify()`, which uses it (`authenticator.cpp:310`): the locker crashes.

**Abstractions.** A message is written and read in one step, a prompt's answer
with its tag. `Ask` stands for both kinds of prompt, `Put` for both kinds of
text, `Error` also for `ConvPutAuthAbort`. PAM is external: it may ask, show,
fail or succeed as it likes, but succeeds only if it has got the right
password. The helper is built with PAM, hence not setuid
(`checkpass/CMakeLists.txt`), and with `signalfd`; signals from other processes,
which it ignores, are not sent. Posted events come before socket events in
Qt's loop, so a `KCheckPass` is deleted before it takes another message. The
locker ignores SIGPIPE (its D-Bus library sets that), so that writing to a
dead helper has no effect. A refusal by the grace timer changes nothing and is
no action. Views, focus and the animation before the end are left out: the end
is `LQuit`.

## 9. The system tray

An application that wants an icon in the status bar registers an item, a name
on the bus and a path, with the *watcher* (`statusnotifierwatcher.cpp`), which
keeps the list of items and watches their names. The status bar's *host*
(`statusnotifieritemhost.cpp`) mirrors that list: signals of the watcher
tell it of every item that comes or goes, and when it finds a watcher it asks for the
list as a whole. For each item it has a *source* (`statusnotifieritemsource.cpp`),
which fetches icon and texts whenever the item signals a change, and the view's
model (`systemtraymodel.cpp`) has a row. Watcher and host may be in one
process or in two, and the watcher may be another program's.

| module | models | state |
|---|---|---|
| `TrayBus` | all variables; the applications, from how they are used | `app version told`, messages under way (`toWatcher toHost toSource asked`) |
| `StatusNotifierWatcher` | the registry | `registered watched wpc wItem` |
| `StatusNotifierItemHost` | the host and the view's rows | `proxy services rows` |
| `StatusNotifierItemSource` | fetching the properties of one item | `connected timer refreshing again shown` |
| `SystemTray` | the composition, fairness, properties | |
| `MCSystemTray` | instance for TLC | |
| `SystemTrayProofs` | theorems and proofs | |

`registered` is `m_registeredServices`, `services[i]` the source that
`m_sniServices` has for item `i` (sources are numbered per item, and a number is taken again
only when neither the table nor a row holds it), `rows` is
`SystemTrayModel::m_items`, `refreshing` and `again` are `m_refreshing` and
`m_needsReRefreshing`, `shown` the version of the item it has fetched last.
`wpc` names the places where `RegisterStatusNotifierItem()` waits for the bus: the
watcher has begun to watch the name (`check`) and has been told that it exists
(`add`). Every slot is one action. The bus delivers what one connection sends to
another in order; so signals and the answer to the call for the list reach the
host in the order the watcher made them, which is what makes it harmless that the
answer may be old: what has changed since is behind it. While `registerWatcher()`
waits for `isValid()`, signals that come have no receiver: `HCome` drops them
(`NoSignals`), and the list asked for afterwards makes up for it.

**Where that fails.** It holds between one watcher and the host. But `registerWatcher()`
asks whoever has the name by the time it runs. If a watcher comes, goes and is followed by
another before the host has served the first of these news, the host asks the second one
on the word that the first had come; then it serves the news of the end, forgets all items, and the news
that the second one has come, and connects its signals. The first answer is still
under way and is now older than the signals: an item that went in between is added
when the answer is read, no signal will take it away, and the second answer only adds.
If the item is registered again meanwhile, a second source and row for it come about.
The state in which this begins is `Overtaken`: a watcher has a call for its list while the
news of its coming waits. The history variable `overtaken` remembers that it has been reached, and what fails
afterwards is stated until then. It takes four events of watchers; one more, of an application, leaves an item that is shown
for ever (without the condition TLC finds `Agreement` and `Disappears` violated), two more double a row
(`RowsMatch`).

**Run `tray`** (496 000 states). Two items of *one* application, so that the loss
of a name concerns two items and registering one meets the other; some events
out of: the application starts or ends, registers again, the watcher dies,
another takes its place; and one change of one item. What is asked:

* `RowsMatch`: a row for every item in the table and no other, each once, until a list is overtaken. A second
  source for an item, or a removal that finds another row first, breaks it.
* `Agreement`: when nothing is under way, the host has the items of the watcher, unless a list was overtaken;
  and those of the watcher are of running applications whose names are watched. The application may
  have ended between any two steps of the registration.
* `Appears`, `Disappears`, `LastChangeShown`: when applications and watchers come
  to rest, so does the tray: a registered item is in it, that of an application that
  has ended is not (unless a list was overtaken), and what is shown of a registered item is its last version, although a refresh that meets
  another one is only noted and the answer under way thrown away.

**Bounds.** `MaxSource` two is what one item needs; `MaxVersion` one change,
which can meet the first fetch at any point of it. `MaxEvents` counts events of applications and of
watchers separately and names the combinations: three of an application (it ends, comes back and
ends), two of it while a watcher dies, one with two watchers replaced. (Two with a watcher replaced
and dying again were checked once, 940 000 states, and are too many to repeat.) The last one reaches what goes wrong once a list has been
overtaken, so that `Agreement` and `Disappears` need their condition there, and `Appears` and `LastChangeShown`
are checked without one. The doubled row takes two and four, which TLC checked for the invariants alone (3 800 000
states); that `RowsMatch` holds for all bounds is proved. Nothing else is bounded, and no constraint is used. The system may rest, hence
`CHECK_DEADLOCK FALSE`.

**Fairness.** Weak fairness of `Serve`: as long as watcher, host, a source or
an application has something to read, something is read. That is less than the
event loops give. It suffices because the events, registrations and changes
are finitely many. An item that changed for ever faster than it can be fetched would
never be shown: `refreshCallback()` throws away every answer that a later change has
overtaken.

**Proofs** (`SystemTrayProofs`), for all finite sets of items and services and all bounds:

| theorem | says |
|---|---|
| `WatcherRightHolds` | `Spec => []WatcherRight`: once a watcher has served what was sent, its items are of running applications that it watches |
| `RowsMatchHolds`, `AgreementHolds` | `Spec => []RowsMatch`, `Spec => []Agreement` |
| `TypesHold` | `Spec => [](~overtaken => TypeOK)`: afterwards rows may hold so many sources of an item that none is free |

`~overtaken` describes behaviours in which no watcher is replaced twice before the host serves the news of the first, with
any number of replacements one by one. The argument, of `TrayInv`, which holds until a list is overtaken:

* `Registry`, the watcher's half, is inductive with the types of the messages: an item it has is of an
  application that is there and watched, or whose loss is in the queue. `RegisterStatusNotifierItem()` watches before it asks; the
  proof is one case per place where it waits.
* The host's half is about what is in its queue. `Turns`: news of ends and of beginnings
  alternate, and the last one is true. `Linked`: the host is connected unless the next news is that a watcher has
  come, and has no items when it is not. `Calls`: at most one call for the list, or one answer, is under
  way, and it is of the watcher the host is connected to.
* `Followed` is the core. There is a history `r` of the watcher's list, one entry per message that waits,
  such that each message tells the difference between two entries (an answer: none, it *is* the entry), the last
  entry is the list now, and the host has part of the first entry, all of it unless an answer is still to
  come. So a registration that arrives is never of an item that the host has (`addSNIService()` would leave a
  row with a deleted source), and when the queue is empty both lists are the same. That the signals which
  `registerWatcher()` misses do no harm is the case `QueueCome`: the history starts anew, at the list as it is, with nothing in
  the table.
* `RowsRight`, what `RowsMatch` says, is part of the invariant, and not only a consequence: that the first row with an item is the row of its source
  makes `onItemRemoved()` right, and that there is always a number for a new source follows from it.

TLC checked the invariant as well: `~overtaken => TrayInv` holds in all 43 000
states of an instance with one item and six events.
`Appears`, `Disappears` and `LastChangeShown` are liveness, out of the prover's reach, and checked
by TLC only.

**Abstractions.** Applications register what they have once per watcher and are
told by the bus when there is a new one. A watcher that ends loses its name before
the next one takes it; a handover from owner to owner, which the code hears as one
signal, is left out. Registration of hosts, menus, activation of an item and the decoding of icons
have no effect on lists, and dragging a row (`move()`) only on the order of the rows, which nothing depends on.

## 10. The dock

`ApplicationModel` is the list of the dock (`applicationmodel.cpp`): an item per
application, pinned or with windows; it is told of windows by the window system
(`xwindowinterface.cpp`), of pins by the user and the launcher, and
saves the pinned ones to a file with a group per item id. An item is found by desktop file,
by id or by window, always the first that fits; its id is the base name of the desktop
file, or the class of a window, and filing a window may overwrite it.

`items` is `m_appItems`, `saved` the groups of the file, `open` the list of the
window system. `phase` tells the 100 ms between the constructor and
`startInitWindows()` (`starting`), in which new windows are announced and then
announced again with all others. `path[w]` is the outcome of
`desktopPathFromMetadata()`, any at all. History variables: `noticed`, `twice`
(windows announced once, twice), `kept` (desktop files saved last).

**Run `dock`** (284 000 states): two windows, two desktop files, every outcome of
the guesses, windows before, during and after the start, four events among pin,
unpin, drag, drop, click, the launcher's calls, end of the dock and removal of a desktop file. Three
classes let a window's class be a base name, or not, and leave a base name without a window.

* `IdsDistinct`: although ids are overwritten, no two items come to share one.
* `AllFiled`: every window told of and open is in an item; `currentActive`, which
  `clicked()` and `raiseWindow()` take for an index, stays within the windows.
* `NoGhost`: no item without window or pin; a window in an item is open and in no
  other item. A window announced twice is exempt: it leaves one entry behind when it closes, a ghost
  that `twice` remembers.
* `Survives`: what was saved last comes back, in order, less what has been
  removed. The loader looks for groups by index, one number after another.

`IdsDistinct`, `NoGhost` and `Survives` are stated for `Coherent` inputs: equal ids mean
equal desktop files. The code relies on it and does not ensure it: `baseName()` ends
at the first dot, so that `org.kde.a.desktop` and `org.gnome.b.desktop` are both
`org`; then one group overwrites the other and the index it leaves out is a hole
at the next start (`applicationmodel.cpp:114`, a hazard without a property).

Also seen, and modelled: `addItem()` of an application that runs pins it and does not
save (`kept` is unchanged, as the file is); the ghost above. `raiseWindow()` of a pinned
item without windows takes the first of an empty list
(`applicationmodel.cpp:189`); the model has no other effect for it than the end of the dock, which may come at any time.

**Bounds.** A confusion of items needs two of a kind. Window ids are not used
again, so that the number of openings is that of windows. The dock may rest:
`CHECK_DEADLOCK FALSE`. **Fairness**: none; nothing is asked of the future.
**Abstractions**: the active window, icons, names, geometry, the fixed item of the launcher.
**Proofs** (`ApplicationModelProofs`, from `DockAssumption`: classes and desktop files are
finitely many, `ClassOf` and `BaseName` give classes): all five invariants of the run, for any
number of windows, any guesses and any number of events.

| theorem | inductive invariant |
|---|---|
| `TypesHold` | `TypeOK` itself |
| `AllFiledHolds` | `FiledInv`: what `AllFiled` says, and a dock that is down has been told of no window (else the next start would have to know it) |
| `IdsDistinctHolds` | `SoundInv`, for `Coherent` inputs: `Sound(items)` and `Noted(saved, kept)` |
| `SurvivesHolds` | `SoundInv` |
| `NoGhostHolds` | `SoundInv` and `GhostInv` |

`IdsDistinct` is not inductive. When a window is filed under the item with its desktop
file, that item takes the window's class for its id; another item has that class already
unless an id means one file *and a file has one item*. So `Sound` also says that files are
distinct, that each id with its file is one of the meanings that `Coherent` speaks of, and
that items without a window are pinned. After a restart all of that must come from the
file: `Noted` says that its groups are those of what was pinned, that their indexes are the
places in `kept`, and that each place has its group. `Survives` follows from `Noted` alone
(`LoadedAgain`): the loader counts to the number of groups, which is at least the length of
`kept`, and finds the groups whose file exists in the order of their indexes.

`GhostInv` is about the list of windows: each is in it once, the dock was told only of
windows that are or were in it, what is filed was told of, is open or was told of twice, and
what was not told of twice is in one item, once. It rests on `SoundInv`: a window that no
desktop file is found for is filed under *all* items of its class. That is one item because
ids are distinct. `startInitWindows()` is a loop over the windows; `ToldFiled`, `SoundAfter` and
`OnceAfter` follow it window by window (a least counterexample, in place of induction).

`ApplicationModelFacts` has what the operators do, as facts about positions:
what is found (`ByIdFacts` ...), filed (`Filing`), lost (`Taking`), loaded (`Loading`)
and saved (`Grouping`). `Drawn(r, its, K)` says that r has the items at the positions K of
`its`, in some order; removal, dragging and filtering are all of that kind, and what is proved of
`Drawn` holds for each. `Only` filters by positions and not with `SelectSeq`, and `After`
is a recursive function and not a fold, because they can be reasoned about so; the steps of
the model are the same. TLC checked `FiledInv`, `SoundInv` and `GhostInv` in the 284 000 states
of the run before they were proved.

Without `Coherent` only `TypeOK` and `AllFiled` are claimed, checked and proved.

## 11. The launcher's list

`LauncherModel` (`launchermodel.cpp`) keeps the applications of the menu. Its own
thread changes the list; a refresh runs in a thread of Qt's pool, scans the
directory, *reads the list*, which nothing protects, and posts what to add and remove to
the launcher's thread. A refresh is started by the constructor and by every change of
the directory, so that two may run at once. Files are watched one by one for changes in place.
The list, in the user's order, is saved a second after its last change.

`list` is `m_appItems`, `posted` the queue of calls to the launcher's thread,
`refresh`, `entries` and `before` a thread's progress, the files it found and the
list it began to read; `files` and `watching` are what the `QFileSystemWatcher`
watches, `saving` is the running timer of `delaySave()`. A race of reading and writing the
list is undefined: the thread may see any part of the entries there were before or are
since (`TRemove`). History variables: `skipped` (changes that `onFileChanged()` passed
over) and `slips` (why a refresh need not have seen everything: `deaf`, a
change before the directory was watched; `overlap`, a refresh that began while an earlier one
was not done; `race`).

**Run `launcher_list`** (1 800 000 states): two files, two threads, two events among installing
(shown or hidden), removing and editing a file, dragging an entry and a restart,
in order or by a crash. The first refresh, on an empty list or a saved one, comes on top.

* `Consistent`: no application twice, whatever two refreshes add; and a change of
  a file is reported only for one that is listed, as `onFileChanged()` would take one at index -1.
* `UpToDate`: at rest, the list is that of the files if there was no slip; and what it
  says of a shown application is in its file, and has a command, unless the change was
  passed over, or nothing heard of it and the refresh then misread the list.
* `SavedInTime`: the order in the settings is that of the list, or is about to be.

**Proofs** (`LauncherModelProofs`, from `LauncherModelAssumption`: files are finitely
many): `TypesHold`; `ConsistentHolds` from `Linked` (no twins in the list nor in
the settings; watched and reported files are listed), which needs lemmas on what
taking an entry out, putting one in, updating, sorting and storing do to a list;
`SavedHolds` on top of types. They hold for any number of threads and refreshes.
`UpToDateHolds` is about a list that is wrong most of the time, so its invariant `UpInv`
says who will put it right: `Contented`, every entry of a shown application is `Cared` for,
by a refresh that is `Due`, by a call that is posted or that a thread is bound to post
(`Adding`, `Removing`), or by the watcher (`Right`: the file is watched, and what was
read of it is current or its change is still to be reported); `Starting`, before the directory is
watched the first refresh sees to every entry and reads a list that nobody changes; `Clean`,
as long as there is no slip a refresh is `Alone` with the queue, and `Whole(f)`: what
exists is listed or will be, what does not will go, and a posted call that has become wrong
is followed by another refresh. TLC checked `UpInv` on the run's instance and, with one thread and
three events, on 3.5 million states. The proof has a lemma per action; that sorting, dragging and
removing add no entry is `SortingWithin`, `MovingWithin` and `RemovalWithin`, and what
is in the queue after posting and serving `InJoined`, `InCalls` and `InTail`.

The first attempt failed, and with reason: `UpToDate` claimed its second part
after any slip. A shown application that was uninstalled, installed again between the first
scan and `Watch` (`deaf`) and then missed by a racing read (`race`) keeps an entry with
old contents, and its file is not watched; TLC reaches that with one thread and three
events. Either slip alone is harmless: the property now exempts only both together.

**Seen while reading**, modelled as the code does it. `onFileChanged()` compares the index with 0
instead of -1: a change of the first entry is passed over (`launchermodel.cpp:337`). An
application whose file vanishes between scan and `addApp()` gets a blank entry, which
the next refresh removes. An application hidden later stays in the list; after a
restart it has no command, which `launch()` does not ask (`launchermodel.cpp:293`). Two refreshes
that overlap may post a removal after the other's addition: `slips` exempts that.

**Bounds.** Two files tell the first entry from others. `MaxEvents` two lets a second
change come at every point of the refresh for the first. **Fairness**: none. `CHECK_DEADLOCK
FALSE`: with the events used up it rests. **Abstractions**: the mark
of a new application is lost when an entry is copied and is left out; that a file is not watched any
more once it was replaced is modelled at the change, not at its report; search, launching and the
window are left out.

## 12. The file manager's grid

The `Positioner` (`positioner.cpp`) stands between a grid of files and the folder
model: it keeps for each row of the model a *place*, in two hash tables that
are to be inverse to one another, through every change of the model. Places are saved
by name, stripe and column after a change, by a timer of 0 ms, and restored from
that when the grid's width changes; while the folder is listed this is put off to
the end of the listing (`m_deferApplyPositions`). The view (`FolderGridView.qml`,
of which the desktop has a copy) shows the model's rows in *their* order and
asks the Positioner only where a drop goes (line 179); it calls `reset()` when it
finds that its count has changed. Model, Positioner's timer and view run in one
thread; what is not fixed is the order in which signals of the directory's
lister, the timer, the view's update and the user come.

| module | models | state |
|---|---|---|
| `Positioner` | the Positioner with what the folder model tells it and what the view does | `p2s s2p positions perStripe timer defer`; the model's `rows status`; the view's `count` |
| `MCPositioner` | instance for TLC | |
| `PositionerProofs` | theorems | |

`p2s` is `m_proxyToSource`, `s2p` `m_sourceToProxy`. A signal and the slots connected to
it are one action, so `RowsInserted` is `sourceRowsAboutToBeInserted()` and
`sourceRowsInserted()`. `Apply` is `applyPositions()`: which of two
files that were saved for one place gets it, and in which order the others follow,
depends on a hash table, and is left open. History variable: `skipped`, a deferral
that ended without saved places (below).

**Run `places`** (156 000 states): three files, a width of 1 or 3.

* `OnePlaceEach`: the tables are inverse to one another, and each row has one place,
  but in a deferral and after `skipped`. What can go wrong: rows in the middle move those behind them
  in both tables; a column that is *equal* to the width counts as fitting
  (`positioner.cpp:836`) and wraps to the next stripe, where another file may be.
* `PlacesKept`: no insertion and no removal moves another file, unless it happens in a deferral.
* `Undone`: when a place is not the row's own number, a drop on the item would go to
  another file. The code relies on `reset()` when the count changes; that returns early
  without saved places. The property says that this early return never loses it:
  places are saved, or the timer will save them, or a deferral explains it. More is not true, and the
  runs show why: a recount *before* the timer resets nothing, and a file that goes while
  another comes leaves the count as it is.

**Finding `folder_unplaced`.** "Reset to populate" says `applyPositions()`
(`positioner.cpp:793`) where a deferral ends without saved places; but `reset()` returns when there are no
saved places (line 351). A width that changes during a listing (the window opens, the
user resizes it) before anything was saved leaves all files without a place that the lister finds after that.
`map()` says -1 for them, so that a drop on such a folder goes to the folder that is shown. Rows
that are inserted later get places, the others only by a reset once places are saved; `skipped` holds until then.

**Proofs** (`PositionerProofs`, from `PositionerAssumption`, for every finite set of files, all
widths): `OnePlaceEachHolds` from `Mapped`, which adds that only rows of the model have
places: without that an insertion could meet a stale row. It needs what `Back`,
`Extend`, `Shifted` and `Removed` do to a one-to-one map, and what becomes of each row of a sequence from which a part is taken
or into which one is put (`InsertedRows`, `RemovedRows`). `UndoneHolds` on top of
it: the timer saves nothing only when there is no row. `PlacesKeptHolds` adds `Distinct`, no file twice in
the model: else a removed file might still be there. `MaxPlace` bounds which steps
there are; the theorems do not depend on its value.

**Bounds.** Three files give an insertion before, between and after others and two that
compete for a place; widths of 1 and 3 make every column fit, wrap or be pushed out. `MaxPlace` stops
wrapped places from growing without end. Files are interchangeable: `Symmetry`. **Fairness**: none, nothing is asked of the
future. **Abstractions**: nobody reads the rows and signals the Positioner has as a model of its own
(`m_ignoreNextTransaction`, `m_pendingChanges`, and `nearestItem()`, which changes nothing), so they are
left out; so are `move()` and `setPositions()`, which nothing calls, and a view narrower than one cell. A listing that
starts, ends and finds files is KDE's; it may do so in any order. The first five entries
of the saved list are its header and are not modelled beyond "there are places".

## 13. Not modelled

* **Packages** (`debinstaller`, `updator`, `daemon`). Each is a chain of handlers of one
  transaction of PackageKit or QApt. What could go wrong depends on how that service orders
  and ends transactions, which the code does not show; a model of it would be invented.
  Read all the same: a second `uninstall()` overwrites `m_trans` while the handlers of the first
  use it (`appmanager.cpp:51`); `DebInstaller` takes every transaction that finishes for a
  success (`debinstaller.cpp:535`); `UpdatorHelper` adds the packages of every check to a model that
  nothing clears (`updatorhelper.cpp:85`).
* **File manager and desktop**, but for the grid (12): the folder model's operations are KDE's jobs,
  dialogs and QML; the path history and the size job are in the plan. `CFileSizeJob` has a plain flag that one thread
  writes and another reads (`cfilesizejob.cpp:56`).
* **Status bar's menus, libcute, ling-settings, text editor, screenshot, painting and assets**: they
  forward single values of services, or paint; a state machine says no more than the code.
* **terminal, calculator, libdbusmenuqt**: other projects' code.
* Of the parts modelled: command lines, `daemonize()`, logging, systemd notification,
  the stand-alone `single-instance` program; views of the screen locker and the helper built without PAM;
  geometry of the dock; the search and the window of the launcher.

The program is written in C++ and QML. Files `*.ts` in this repository are Qt's
translations (XML), not TypeScript; they hold no behaviour and nothing maps to
them.

## 14. Plan

Done: everything in sections 2 to 12.

Next, in this order:

1. appmotor: `LaunchService`, an abstract specification (an invoker asks, its application runs, ends, and it is told) which
   `AppMotor` implements as long as nothing is `Lost`; the stand-alone
   `single-instance` program.
2. file manager: the path history and the size job; the selection of the folder model.
3. Bounded checks of algorithms against a reference: `BlockArray`, snapping of
   screens, the calculator's parser.
