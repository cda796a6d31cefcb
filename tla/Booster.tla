------------------------------- MODULE Booster -------------------------------
(***************************************************************************)
(* A booster: the process Daemon::forkBooster() forks, from the fork to    *)
(* the application it turns into (Booster::initialize, Booster::run and    *)
(* the Connection and single-instance code they call).                     *)
(***************************************************************************)
EXTENDS LauncherState

(* The first thing the child does: default signal handlers, PDEATHSIG, and *)
(* the descriptors it inherited from the daemon are closed.                *)
BRestore(p) ==
    /\ proc[p] = "forked"
    /\ proc' = [proc EXCEPT ![p] = "starting"]
    /\ UNCHANGED <<conn, xstat, boot, lock, invVars, sockVars, loopVars,
                   bookVars, sigVars, worldVars>>

(* Respawn delay over, libraries preloaded (or not, in boot mode).         *)
BReady(p) ==
    /\ proc[p] = "starting"
    /\ proc' = [proc EXCEPT ![p] = "accepting"]
    /\ UNCHANGED <<conn, xstat, boot, lock, invVars, sockVars, loopVars,
                   bookVars, sigVars, worldVars>>

BAccept(p) ==
    /\ proc[p] = "accepting"
    /\ backlog # <<>>
    /\ LET i == Head(backlog) IN
         /\ conn' = [conn EXCEPT ![p] = i]
         /\ end'  = [end EXCEPT ![i] = "booster"]
    /\ backlog' = Tail(backlog)
    /\ proc' = [proc EXCEPT ![p] = "serving"]
    /\ UNCHANGED <<xstat, boot, lock, invVars, sent, wr, dn, shut, dgrams,
                   loopVars, bookVars, sigVars, worldVars>>

(* receiveApplicationData() reads the request up to END and answers it.    *)
(* Without --wait-term the connection is closed here.                      *)
BReceive(p) ==
    LET i == conn[p] IN
    /\ proc[p] = "serving"
    /\ i \in sent /\ ~HungUp(i)
    /\ dn' = [dn EXCEPT ![i] = IF i \in Waiters THEN @ \o <<Ack, PidMsg(p)>>
                                                ELSE Append(@, Ack)]
    /\ end' = [end EXCEPT ![i] = IF i \in Waiters THEN @ ELSE "closed"]
    /\ proc' = [proc EXCEPT ![p] = "checking"]
    /\ UNCHANGED <<conn, xstat, boot, lock, invVars, backlog, sent, wr, shut,
                   dgrams, loopVars, bookVars, sigVars, worldVars>>

(* The request ends early, or the acknowledgement finds the connection     *)
(* closed: "Couldn't read command", or SIGPIPE, and the booster is gone.   *)
BReceiveFails(p) ==
    LET i == conn[p] IN
    /\ proc[p] = "serving"
    /\ IF i \in sent THEN HungUp(i) ELSE ~wr[i]
    /\ Die({p}, Failure)
    /\ UNCHANGED <<conn, boot, lock, invVars, backlog, sent, wr, dn, shut,
                   dgrams, loopVars, bookVars, pipe, worldVars>>

(* Without the plugin a single instance is wanted in vain.                 *)
MustLock(p) == conn[p] \in Singles /\ PluginLoaded

(* Mutant: the booster goes on before it has reported and closed.          *)
ReportNothing(i) == i \in Invoker /\ UNCHANGED <<dn, end>>

(* sendExitValue(), of which nothing is left when i has hung up; close().  *)
Report(i) ==
    /\ IF i \in Waiters /\ ~HungUp(i)
       THEN \E r \in {Success, Failure} :
              dn' = [dn EXCEPT ![i] = Append(@, ExitMsg(r))]
       ELSE UNCHANGED dn
    /\ end' = [end EXCEPT ![i] = "closed"]

(* lockFunc() fails: another process runs the application, or the lock     *)
(* file cannot be made or opened, which is taken for that.  The booster    *)
(* asks the window manager over D-Bus to raise the window, reports how     *)
(* that went and waits for the next invoker.  To an invoker that has hung  *)
(* up it cannot report: libdbus has had SIGPIPE ignored, unless there was  *)
(* no session bus.                                                         *)
BActivate(p) ==
    LET i == conn[p] IN
    /\ proc[p] = "checking"
    /\ MustLock(p)
    /\ \/ /\ i \in Waiters /\ HungUp(i)
          /\ Die({p}, Failure)
          /\ UNCHANGED dn
       \/ /\ Report(i)
          /\ proc' = [proc EXCEPT ![p] = "accepting"]
          /\ UNCHANGED <<xstat, pend>>
    /\ UNCHANGED <<conn, boot, lock, invVars, backlog, sent, wr, shut, dgrams,
                   loopVars, bookVars, pipe, worldVars>>

(* The single-instance lock is taken, if it is wanted; sendDataToParent()  *)
(* gives the daemon the invoker's pid and connection, if they are wanted.  *)
BLaunch(p) ==
    LET i == conn[p]
        w == i \in Waiters IN
    /\ proc[p] = "checking"
    /\ IF MustLock(p)
       THEN LockFree(AppOf[i]) /\ lock' = [lock EXCEPT ![AppOf[i]] = p]
       ELSE UNCHANGED lock
    /\ IF DaemonUp
       THEN /\ dgrams' = Append(dgrams,
                            [from |-> p, inv |-> IF w THEN i ELSE NoInv])
            /\ end' = [end EXCEPT ![i] = IF w THEN "flight" ELSE @]
       ELSE /\ end' = [end EXCEPT ![i] = "closed"]
            /\ UNCHANGED dgrams
    /\ proc' = [proc EXCEPT ![p] = "handing"]
    /\ UNCHANGED <<conn, xstat, boot, invVars, backlog, sent, wr, dn, shut,
                   loopVars, bookVars, sigVars, worldVars>>

(* The booster closes its own descriptors, no longer cares whether the     *)
(* daemon lives, closes the listening socket and becomes the application.  *)
BDisown(p) ==
    /\ proc[p] = "handing"
    /\ proc' = [proc EXCEPT ![p] = "app"]
    /\ UNCHANGED <<conn, xstat, boot, lock, invVars, sockVars, loopVars,
                   bookVars, sigVars, worldVars>>

(* The application ends: it returns, calls exit(), is killed by a signal   *)
(* of its own making, or could not even be executed.                       *)
AppExit(p) ==
    /\ proc[p] = "app"
    /\ \E s \in Status : Die({p}, s)
    /\ UNCHANGED <<conn, boot, lock, invVars, backlog, sent, wr, dn, shut,
                   dgrams, loopVars, bookVars, pipe, worldVars>>

(* A booster dies before it has launched anything.                         *)
BCrash(p) ==
    /\ proc[p] \in PreLaunch
    /\ Fault("crash")
    /\ Die({p}, Failure)
    /\ UNCHANGED <<conn, boot, lock, invVars, backlog, sent, wr, dn, shut,
                   dgrams, loopVars, bookVars, pipe, histVars>>

BoosterStep(p) ==
    \/ BRestore(p) \/ BReady(p) \/ BAccept(p) \/ BReceive(p)
    \/ BReceiveFails(p) \/ BActivate(p) \/ BLaunch(p) \/ BDisown(p)
=============================================================================
