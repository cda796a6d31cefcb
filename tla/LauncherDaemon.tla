---------------------------- MODULE LauncherDaemon ----------------------------
(***************************************************************************)
(* The booster daemon: the loop of Daemon::run() and all it calls.  It is  *)
(* one thread; signals only write to a pipe.  Where the code blocks -- in  *)
(* select(), in close_invoker() and in kill_process() -- the program       *)
(* counter dpc names the place, and the other processes go on.             *)
(***************************************************************************)
EXTENDS LauncherState

(* The process being buried: its invoker, exit status, and the loop that   *)
(* called close_invoker() for it.                                          *)
Burial == [pid : PidOrNone, inv : InvOrNone, st : Status,
           why : {"none", "reap", "closed", "term"}]
NoCur  == [pid |-> NoPid, inv |-> NoInv, st |-> Failure, why |-> "none"]

DaemonState == {"select", "dgram", "sig", "reap", "reaped", "close",
                "shut", "killIvk", "waitIvk", "killBst", "waitBst", "closed",
                "term", "dead"}

Unused == {p \in Pid : proc[p] = "unused"}

(* The daemon is gone.  Boosters get SIGHUP, but one that has not asked    *)
(* for it yet; what is left of them is init's.                             *)
Vanish ==
    LET gone == {p \in Pid : proc[p] \in Armed} IN
    /\ dpc' = "dead"
    /\ proc' = [p \in Pid |-> IF p \in gone \/ proc[p] = "zombie"
                              THEN "reaped" ELSE proc[p]]
    /\ end' = [i \in Invoker |->
                  IF \/ end[i] \in {"daemon", "flight"}
                     \/ end[i] = "booster" /\ \E p \in gone : conn[p] = i
                  THEN "closed" ELSE end[i]]
    /\ dgrams' = <<>> /\ pend' = {} /\ pipe' = <<>>
    /\ todo' = {} /\ rsig' = FALSE /\ cur' = NoCur
    /\ children' = {} /\ invOf' = [p \in Pid |-> NoInv]

(* Mutants of Fork: m_boosterPid not updated, m_children not updated.      *)
ForkKeepsPid(q) ==
    /\ children' = children \cup {q}
    /\ proc' = [proc EXCEPT ![q] = "forked"]
    /\ boot' = [boot EXCEPT ![q] = bootMode]
    /\ UNCHANGED bpid
ForkNotRecorded(q) ==
    /\ bpid' = q
    /\ proc' = [proc EXCEPT ![q] = "forked"]
    /\ boot' = [boot EXCEPT ![q] = bootMode]
    /\ UNCHANGED children

(* forkBooster().                                                          *)
Fork(q) ==
    /\ children' = children \cup {q}
    /\ bpid' = q
    /\ proc' = [proc EXCEPT ![q] = "forked"]
    /\ boot' = [boot EXCEPT ![q] = bootMode]

(* fork() fails -- here: no pid is left -- and a runtime error that nobody *)
(* catches ends the daemon.                                                *)
ForkFails ==
    /\ Unused = {}
    /\ Vanish
    /\ UNCHANGED <<bpid, boot>>
-----------------------------------------------------------------------------
(* The main loop.                                                          *)

AfterSignal(closed) == IF closed = {} THEN "select" ELSE "closed"

NobodyCloses == {}         \* mutant: invokers' connections are not in select()
(* The children whose invoker has closed the connection.                   *)
ClosedByInvoker == {p \in Pid : invOf[p] # NoInv /\ ~wr[invOf[p]]}

(* select() returns with what is readable at that moment.                  *)
DSelect ==
    /\ dpc = "select"
    /\ dgrams # <<>> \/ pipe # <<>> \/ ClosedByInvoker # {}
    /\ rsig' = (pipe # <<>>)
    /\ todo' = ClosedByInvoker
    /\ dpc' = IF dgrams # <<>> THEN "dgram"
              ELSE IF pipe # <<>> THEN "sig" ELSE "closed"
    /\ UNCHANGED <<cur, procVars, invVars, sockVars, bookVars, sigVars,
                   worldVars>>

(* readFromBoosterSocket(): whoever sent the datagram, it is taken to come *)
(* from the current booster; then a new booster is forked.                 *)
DReadBooster ==
    LET i == Head(dgrams).inv IN
    /\ dpc = "dgram"
    /\ \/ ForkFails
       \/ /\ invOf' = [invOf EXCEPT ![bpid] = IF i # NoInv THEN i ELSE @]
          /\ end' = [e \in Invoker |-> IF e = i THEN "daemon" ELSE end[e]]
          /\ dgrams' = Tail(dgrams)
          /\ \E q \in Pid : IsLeast(q, Unused) /\ Fork(q)
          /\ dpc' = IF rsig THEN "sig" ELSE AfterSignal(todo)
          /\ UNCHANGED <<pend, pipe, todo, rsig, cur>>
    /\ UNCHANGED <<conn, xstat, lock, invVars, backlog, sent, wr, dn, shut,
                   bootMode, worldVars>>

(* read_from_signal_pipe() and the switch.  It ends in continue, so closed *)
(* connections wait for the next round.                                    *)
ReadSignal(S) ==
    /\ dpc = "sig"
    /\ Head(pipe) \in S
    /\ rsig' = FALSE
    /\ UNCHANGED <<cur, conn, boot, lock, invVars, backlog, sent, wr, dn, shut,
                   dgrams, bpid, children, invOf, worldVars>>

DChild ==
    /\ ReadSignal({"CHLD"})
    /\ dpc' = "reap" /\ todo' = children
    /\ pipe' = Tail(pipe)
    /\ UNCHANGED <<bootMode, proc, xstat, end, pend>>

DTerminate ==
    /\ ReadSignal({"TERM"})
    /\ dpc' = "term" /\ todo' = {}
    /\ pipe' = Tail(pipe)
    /\ UNCHANGED <<bootMode, proc, xstat, end, pend>>

(* SIGPIPE, or the mode is what it should be.                              *)
DIgnore ==
    /\ ReadSignal({"PIPE", IF bootMode THEN "USR2" ELSE "USR1"})
    /\ dpc' = "select" /\ todo' = {}
    /\ pipe' = Tail(pipe)
    /\ UNCHANGED <<bootMode, proc, xstat, end, pend>>

(* Mutant: the mode is set and no booster is restarted.                    *)
SpareBoosters == pipe' = Tail(pipe) /\ UNCHANGED <<proc, xstat, end, pend>>

(* killBoosters(): m_boosterPid is the last process forked, whatever it    *)
(* has become.                                                             *)
KillBoosters == Terminate(bpid, Tail(pipe))

(* enterNormalMode(), enterBootMode().                                     *)
DSwitchMode ==
    /\ ReadSignal({IF bootMode THEN "USR1" ELSE "USR2"})
    /\ dpc' = "select" /\ todo' = {}
    /\ bootMode' = ~bootMode
    /\ KillBoosters
-----------------------------------------------------------------------------
(* reapZombies().                                                          *)

ExitStatusIgnored(p) == IF p \in Pid THEN Success ELSE Failure     \* mutant
(* WEXITSTATUS, or EXIT_FAILURE for a process killed by a signal.          *)
ExitStatus(p) == xstat[p]

AfterReapNothing(p) == IF p \in Pid THEN "reaped" ELSE "close"     \* mutant
(* close_invoker() has nothing to do when the invoker is not known.        *)
AfterReap(p) == IF invOf[p] = NoInv THEN "reaped" ELSE "close"

AnyBooster(p) == p \in Pid                     \* mutants: fork for any child,
NoBooster(p)  == p \notin Pid                  \* or never
(* "Check if pid belongs to a booster and restart the dead booster".       *)
IsBooster(p) == p = bpid

(* waitpid(pid, WNOHANG) for the next child of the vector finds it dead;   *)
(* its exit status is ready for its invoker ...                            *)
DReap(p) ==
    /\ dpc = "reap" /\ IsLeast(p, todo)
    /\ proc[p] = "zombie"
    /\ proc' = [proc EXCEPT ![p] = "reaped"]
    /\ children' = children \ {p}
    /\ todo' = todo \ {p}
    /\ cur' = [pid |-> p, inv |-> invOf[p], st |-> ExitStatus(p), why |-> "reap"]
    /\ invOf' = [invOf EXCEPT ![p] = NoInv]
    /\ dpc' = AfterReap(p)
    /\ raced' = (raced \/ (p = bpid /\ InFlight(p)))
    /\ UNCHANGED <<rsig, conn, xstat, boot, lock, invVars, sockVars, bpid,
                   bootMode, sigVars, faults, asked, strays>>

(* ... or it is not.                                                       *)
DSkip(p) ==
    /\ dpc = "reap" /\ IsLeast(p, todo)
    /\ proc[p] # "zombie"
    /\ todo' = todo \ {p}
    /\ UNCHANGED <<dpc, rsig, cur, procVars, invVars, sockVars, bookVars,
                   sigVars, worldVars>>

(* The dead child's invoker is done with; if the child was the booster,    *)
(* there is a new one, and the loop will get to it too.                    *)
DReaped ==
    /\ dpc = "reaped"
    /\ \/ /\ ~IsBooster(cur.pid)
          /\ dpc' = "reap" /\ cur' = NoCur
          /\ UNCHANGED <<proc, boot, end, dgrams, sigVars, rsig, todo, bpid,
                         children, invOf>>
       \/ IsBooster(cur.pid) /\ ForkFails
       \/ /\ IsBooster(cur.pid)
          /\ \E q \in Pid : /\ IsLeast(q, Unused) /\ Fork(q)
                            /\ todo' = todo \cup {q}
          /\ dpc' = "reap" /\ cur' = NoCur
          /\ UNCHANGED <<end, dgrams, sigVars, rsig, invOf>>
    /\ UNCHANGED <<conn, xstat, lock, invVars, backlog, sent, wr, dn, shut,
                   bootMode, worldVars>>

(* The loop over "stray" children: waitpid(-1) takes any dead child, those *)
(* that died after the first loop had passed them included.                *)
DStray ==
    LET zombies == {p \in Pid : proc[p] = "zombie"} IN
    /\ dpc = "reap" /\ todo = {}
    /\ proc' = [p \in Pid |-> IF p \in zombies THEN "reaped" ELSE proc[p]]
    /\ strays' = strays \cup (zombies \cap children)
    /\ dpc' = "select"
    /\ UNCHANGED <<rsig, todo, cur, conn, xstat, boot, lock, invVars, sockVars,
                   bookVars, sigVars, faults, asked, raced>>
-----------------------------------------------------------------------------
(* close_invoker(): exit status, shutdown, and SIGTERM and SIGKILL for an  *)
(* invoker that does not hang up.                                          *)

DSendExit ==
    LET i == cur.inv IN
    /\ dpc = "close"
    /\ IF HungUp(i)
       THEN pend' = pend \cup {"PIPE"} /\ UNCHANGED dn
       ELSE dn' = [dn EXCEPT ![i] = Append(@, ExitMsg(cur.st))] /\ UNCHANGED pend
    /\ shut' = shut \cup {i}
    /\ dpc' = "shut"
    /\ UNCHANGED <<rsig, todo, cur, procVars, invVars, backlog, sent, wr, end,
                   dgrams, bookVars, pipe, worldVars>>

AfterInvoker == IF cur.why = "reap" THEN "reaped" ELSE "killBst"

(* The invoker hangs up, or five seconds go by.                            *)
DShut ==
    /\ dpc = "shut"
    /\ IF wr[cur.inv]
       THEN Fault("stall") /\ dpc' = "killIvk"
       ELSE dpc' = AfterInvoker /\ UNCHANGED faults
    /\ end' = [end EXCEPT ![cur.inv] = "closed"]
    /\ UNCHANGED <<rsig, todo, cur, procVars, invVars, backlog, sent, wr, dn,
                   shut, dgrams, bookVars, sigVars, histVars>>

(* A waiting invoker traps SIGTERM, and its connection is readable.        *)
DKillInvoker ==
    LET i == cur.inv IN
    /\ dpc = "killIvk"
    /\ dpc' = "waitIvk"
    /\ IF ivk[i] \in {"waiting", "exited"}
       THEN UNCHANGED <<ivk, est, wr>>
       ELSE /\ ivk' = [ivk EXCEPT ![i] = "exited"]
            /\ est' = [est EXCEPT ![i] = Failure]
            /\ wr' = [wr EXCEPT ![i] = FALSE]
    /\ UNCHANGED <<rsig, todo, cur, procVars, kpid, backlog, sent, dn, end,
                   shut, dgrams, bookVars, sigVars, worldVars>>

(* Gone within ten seconds, or killed.                                     *)
DWaitInvoker ==
    LET i == cur.inv IN
    /\ dpc = "waitIvk"
    /\ dpc' = AfterInvoker
    /\ IF ivk[i] = "exited"
       THEN UNCHANGED <<ivk, est, wr>>
       ELSE /\ ivk' = [ivk EXCEPT ![i] = "exited"]
            /\ est' = [est EXCEPT ![i] = Failure]
            /\ wr' = [wr EXCEPT ![i] = FALSE]
    /\ UNCHANGED <<rsig, todo, cur, procVars, kpid, backlog, sent, dn, end,
                   shut, dgrams, bookVars, sigVars, worldVars>>
-----------------------------------------------------------------------------
(* The loop over closed connections, the loop of SIGTERM, and the          *)
(* kill_process("booster") of both.                                        *)

DClosed(p) ==
    /\ dpc = "closed" /\ IsLeast(p, todo)
    /\ todo' = todo \ {p}
    /\ cur' = [pid |-> p, inv |-> invOf[p], st |-> Failure, why |-> "closed"]
    /\ invOf' = [invOf EXCEPT ![p] = NoInv]
    /\ dpc' = "close"
    /\ UNCHANGED <<rsig, procVars, invVars, sockVars, bpid, children, bootMode,
                   sigVars, worldVars>>

DTerm(p) ==
    /\ dpc = "term" /\ IsLeast(p, children)
    /\ children' = children \ {p}
    /\ cur' = [pid |-> p, inv |-> invOf[p], st |-> Failure, why |-> "term"]
    /\ invOf' = [invOf EXCEPT ![p] = NoInv]
    /\ dpc' = IF invOf[p] = NoInv THEN "killBst" ELSE "close"
    /\ UNCHANGED <<rsig, todo, procVars, invVars, sockVars, bpid, bootMode,
                   sigVars, worldVars>>

DExit ==
    /\ dpc = "term" /\ children = {}
    /\ Vanish
    /\ UNCHANGED <<conn, xstat, boot, lock, invVars, backlog, sent, wr, dn,
                   shut, bpid, bootMode, worldVars>>

AfterBooster == IF cur.why = "term" THEN "term" ELSE AfterSignal(todo)

DKillBooster ==
    /\ dpc = "killBst"
    /\ IF proc[cur.pid] = "reaped"
       THEN /\ dpc' = AfterBooster /\ cur' = NoCur
            /\ UNCHANGED <<proc, xstat, end, pend, pipe>>
       ELSE /\ dpc' = "waitBst"
            /\ Terminate(cur.pid, pipe)
            /\ UNCHANGED cur
    /\ UNCHANGED <<rsig, todo, conn, boot, lock, invVars, backlog, sent, wr, dn,
                   shut, dgrams, bookVars, worldVars>>

DWaitBooster ==
    /\ dpc = "waitBst"
    /\ IF proc[cur.pid] \in Alive
       THEN /\ Die({cur.pid}, Failure)            \* SIGKILL
            /\ UNCHANGED <<dpc, cur, strays>>
       ELSE /\ proc' = [proc EXCEPT ![cur.pid] = "reaped"]
            /\ strays' = strays \cup ({cur.pid} \cap children)
            /\ dpc' = AfterBooster /\ cur' = NoCur
            /\ UNCHANGED <<xstat, end, pend>>
    /\ UNCHANGED <<rsig, todo, conn, boot, lock, invVars, backlog, sent, wr, dn,
                   shut, dgrams, bookVars, pipe, faults, asked, raced>>
-----------------------------------------------------------------------------
(* Signals.                                                                *)

(* write_to_signal_pipe().                                                 *)
DHandler(s) ==
    /\ s \in pend
    /\ pend' = pend \ {s}
    /\ pipe' = Append(pipe, s)
    /\ UNCHANGED <<procVars, invVars, sockVars, loopVars, bookVars, worldVars>>

(* Somebody asks the daemon to change its mode or to terminate.            *)
OutsideMode ==
    /\ DaemonUp
    /\ Fault("mode")
    /\ \E s \in {"USR1", "USR2"} : pend' = pend \cup {s}
    /\ UNCHANGED <<procVars, invVars, sockVars, loopVars, bookVars, pipe, histVars>>

OutsideTerm ==
    /\ DaemonUp
    /\ Fault("term")
    /\ pend' = pend \cup {"TERM"}
    /\ asked' = TRUE
    /\ UNCHANGED <<procVars, invVars, sockVars, loopVars, bookVars, pipe, raced,
                   strays>>

DCrash ==
    /\ DaemonUp
    /\ Fault("daemon")
    /\ Vanish
    /\ UNCHANGED <<conn, xstat, boot, lock, invVars, backlog, sent, wr, dn,
                   shut, bpid, bootMode, histVars>>

DaemonStep ==
    \/ DSelect \/ DReadBooster
    \/ DChild \/ DTerminate \/ DIgnore \/ DSwitchMode
    \/ \E p \in Pid : DReap(p) \/ DSkip(p) \/ DClosed(p) \/ DTerm(p)
    \/ DReaped \/ DStray \/ DSendExit \/ DShut \/ DKillInvoker \/ DWaitInvoker
    \/ DExit \/ DKillBooster \/ DWaitBooster
    \/ \E s \in Signals : DHandler(s)
=============================================================================
