------------------------------- MODULE AppMotor -------------------------------
(***************************************************************************)
(* One booster daemon of appmotor, the boosters it forks and the invokers  *)
(* that use them: the composition of Booster, Invoker and LauncherDaemon,  *)
(* and what the three of them are supposed to achieve together.            *)
(***************************************************************************)
EXTENDS Booster, Invoker, LauncherDaemon

(* The daemon has opened its socket and forked its first booster.          *)
Init ==
    /\ bootMode \in BootModes
    /\ proc = [p \in Pid |-> IF p = 1 THEN "forked" ELSE "unused"]
    /\ conn = [p \in Pid |-> NoInv]
    /\ xstat = [p \in Pid |-> Failure]
    /\ boot = [p \in Pid |-> bootMode]
    /\ lock = [a \in App |-> NoPid]
    /\ ivk = [i \in Invoker |-> "start"]
    /\ kpid = [i \in Invoker |-> NoPid]
    /\ est = [i \in Invoker |-> Failure]
    /\ backlog = <<>> /\ sent = {} /\ shut = {} /\ dgrams = <<>>
    /\ wr = [i \in Invoker |-> TRUE]
    /\ dn = [i \in Invoker |-> <<>>]
    /\ end = [i \in Invoker |-> "none"]
    /\ dpc = "select" /\ rsig = FALSE /\ todo = {} /\ cur = NoCur
    /\ bpid = 1 /\ children = {1}
    /\ invOf = [p \in Pid |-> NoInv]
    /\ pend = {} /\ pipe = <<>>
    /\ faults = 0 /\ asked = FALSE /\ raced = FALSE /\ strays = {}

(* The accidents the loops of the daemon leave room for: a datagram taken  *)
(* for another booster's (raced), a dead child that reapZombies() overlooks*)
(* for good, and with it an exit status or the need for a new booster.     *)
StatusLost(p) == p \in strays /\ invOf[p] # NoInv
BoosterLost   == DaemonUp /\ bpid \in strays /\ ~InFlight(bpid)
Lost == raced \/ BoosterLost \/ \E p \in Pid : StatusLost(p)

(* Every invoker is done, or one of the three accidents above leaves it    *)
(* waiting; nothing need happen any more.                                  *)
Rest ==
    /\ Lost \/ \A i \in Invoker : Gone(i)
    /\ UNCHANGED vars

Next ==
    \/ \E p \in Pid : BoosterStep(p) \/ AppExit(p) \/ BCrash(p)
    \/ \E i \in Invoker : InvokerStep(i) \/ ISignal(i) \/ IDie(i)
    \/ DaemonStep \/ OutsideMode \/ OutsideTerm \/ DCrash
    \/ Rest

Spec == Init /\ [][Next]_vars

(* Every program step that can be taken is taken in the end.  Applications *)
(* run as long as they like and nothing from outside need ever happen.     *)
Fairness ==
    /\ \A p \in Pid : WF_vars(BoosterStep(p))
    /\ \A i \in Invoker : WF_vars(InvokerStep(i))
    /\ WF_vars(DaemonStep)

FairSpec == Spec /\ Fairness
-----------------------------------------------------------------------------
(* Types.                                                                  *)
TypeProc ==
    /\ proc \in [Pid -> ProcState] /\ conn \in [Pid -> InvOrNone]
    /\ xstat \in [Pid -> Status] /\ boot \in [Pid -> BOOLEAN]
    /\ lock \in [App -> PidOrNone]
TypeInv ==
    /\ ivk \in [Invoker -> InvState] /\ kpid \in [Invoker -> PidOrNone]
    /\ est \in [Invoker -> Status]
TypeSock ==
    /\ backlog \in Seq(Invoker) /\ sent \subseteq Invoker
    /\ wr \in [Invoker -> BOOLEAN] /\ dn \in [Invoker -> Seq(Message)]
    /\ end \in [Invoker -> EndState] /\ shut \subseteq Invoker
    /\ dgrams \in Seq(Datagram)
TypeDaemon ==
    /\ dpc \in DaemonState /\ rsig \in BOOLEAN /\ todo \subseteq Pid
    /\ cur \in Burial
    /\ bpid \in Pid /\ children \subseteq Pid
    /\ invOf \in [Pid -> InvOrNone] /\ bootMode \in BOOLEAN
    /\ pend \subseteq Signals /\ pipe \in Seq(Signals)
TypeWorld ==
    /\ faults \in Nat /\ asked \in BOOLEAN /\ raced \in BOOLEAN
    /\ strays \subseteq Pid

TypeOK == TypeProc /\ TypeInv /\ TypeSock /\ TypeDaemon /\ TypeWorld
-----------------------------------------------------------------------------
(* Safety.  Most of it fails once a booster has been reaped before the     *)
(* daemon has read its datagram, see ExitIsOwn: hence ~raced.              *)

(* The daemon's table gives every invoker to the process that serves it,   *)
(* and so does the burial under way: whoever is sent an exit status, or    *)
(* killed together with its invoker, is the right one.                     *)
MapFaithful ==
    ~raced => /\ \A p \in Pid : invOf[p] \in {NoInv, conn[p]}
              /\ cur.inv # NoInv => conn[cur.pid] = cur.inv

(* Only the youngest child can be a booster that waits for a launch.       *)
OneBooster ==
    ~raced => \A p \in Pid : proc[p] \in PreLaunch => p = bpid

Stopping == dpc = "term" \/ cur.why = "term"
              \/ \E k \in DOMAIN pipe : pipe[k] = "TERM"

(* No booster survives a change of mode: an idle one is in the mode the    *)
(* daemon is in (m_bootMode is read after fork(), but in the child's copy).*)
IdleBoosterMode ==
    ~raced /\ DaemonUp /\ ~Stopping
        => \A p \in Pid : proc[p] \in PreLaunch => boot[p] = bootMode

(* As long as the daemon lives and has the plugin, no application is run   *)
(* twice for --single-instance invokers: two of the boosters' processes    *)
(* never run it, and no invoker executes it itself.  When the daemon is    *)
(* dead the processes still keep each other out, but invoke_fallback()     *)
(* asks for no lock.                                                       *)
Running(p) == proc[p] \in {"handing", "app"}
OneLaunched ==
    /\ \A p, q \in Pid :
          /\ p # q /\ Running(p) /\ Running(q)
          /\ MustLock(p) /\ MustLock(q)
          => AppOf[conn[p]] # AppOf[conn[q]]
    /\ \A i \in Singles : ivk[i] = "fallback" => ~DaemonUp

(* i may be told s: s is how the process it launched ended; or the daemon  *)
(* is stopping or i has hung up, and s is EXIT_FAILURE; or i's application *)
(* was running already and no process was launched for it: the one that    *)
(* answered waits for another invoker, or has died in the meantime.        *)
Verdict(i, s) ==
    \/ \E p \in Pid : conn[p] = i /\ proc[p] \in Dead /\ xstat[p] = s
    \/ s = Failure /\ (~DaemonUp \/ Stopping \/ ~wr[i])
    \/ /\ i \in Singles
       /\ \A p \in Pid : conn[p] = i
             => \/ proc[p] \in PreLaunch
                \/ proc[p] \in Dead /\ xstat[p] = Failure

(* An exit status on its way to an invoker, and the one a waiting invoker  *)
(* has just taken over, is a true one.                                     *)
ExitFaithful ==
    ~raced => \A i \in Invoker :
        /\ \A k \in DOMAIN dn[i] :
              dn[i][k].type = "EXIT" => Verdict(i, dn[i][k].val)
        /\ ivk[i] = "closing" /\ kpid[i] = NoPid => Verdict(i, est[i])

(* The pid an invoker keeps, to kill it if need be, is that of the process *)
(* which serves it.  Only a booster asked for a single instance may go on  *)
(* to another invoker, and not before the first can see the connection     *)
(* closed.                                                                 *)
PidIsOwn ==
    \A i \in Invoker :
        kpid[i] # NoPid /\ (i \in Singles => ~EOF(i)) => conn[kpid[i]] = i

(* Every child that is not reaped is in m_children or being buried: none   *)
(* escapes the reaping and the termination of all children.                *)
NoChildForgotten ==
    DaemonUp => \A p \in Pid :
        proc[p] \in Alive \cup {"zombie"} => p \in children \cup {cur.pid}

(* A mode switch kills an application only if the daemon has not read yet  *)
(* that it was launched (killBoosters() and m_boosterPid).                 *)
SwitchSparesApps ==
    [][bootMode' # bootMode /\ ~raced
         => \A p \in Pid : Running(p) => Running(p)' \/ InFlight(p)]_vars

(* A daemon that stops because of a signal stops everything it launched.   *)
StopsEverything ==
    [][dpc = "term" /\ dpc' = "dead" /\ faults' = faults
         => \A p \in Pid : proc'[p] \in Dead \cup {"unused"}]_vars
-----------------------------------------------------------------------------
(* Liveness.                                                               *)

(* An invoker is owed an answer from its connection to the pid it waits    *)
(* for, when that process has ended, when the daemon has died, and when it *)
(* hangs up itself.                                                        *)
Ended(i) == \E p \in Pid : conn[p] = i /\ proc[p] \in Dead
Owed(i) == \/ ivk[i] \notin {"start", "waiting", "fallback", "exited"}
           \/ ivk[i] = "waiting" /\ (Ended(i) \/ ~DaemonUp)

(* Every invoker gets its answer or exits: it waits for a process that     *)
(* runs, and for nothing else.                                             *)
Answered == \A i \in Invoker : Owed(i) ~> (~Owed(i) \/ Lost)

(* An application does not outlive its --wait-term invoker, unless the     *)
(* daemon dies.                                                            *)
Outlives(i) == Gone(i) /\ DaemonUp /\ \E p \in Pid : conn[p] = i /\ Running(p)
FollowsInvoker == \A i \in Waiters : Outlives(i) ~> (~Outlives(i) \/ Lost)

(* There is always a booster to come.                                      *)
BoosterReady == \E p \in Pid : proc[p] = "accepting"
Replenished == [](DaemonUp => <>(BoosterReady \/ ~DaemonUp \/ Lost))
-----------------------------------------------------------------------------
(* What the documentation or a comment says and the code does not do.      *)

(* "it must be able to report the application's exit status": invoker      *)
(* and application belong together, whatever the order of events.          *)
ExitIsOwn == \A p \in Pid : invOf[p] \in {NoInv, conn[p]}

(* The exit status of a launched application is not dropped.               *)
StatusDelivered == \A p \in Pid : ~StatusLost(p)

(* "pid of the invoked process": whom an invoker kills it has invoked.     *)
KillsInvoked ==
    \A i \in Invoker :
        ivk[i] \in {"killing", "killed"} => conn[kpid[i]] = i

(* The daemon terminates when asked to from outside.                       *)
StopsOnlyIfAsked == dpc = "term" => asked
=============================================================================
