---------------------------- MODULE LauncherState ----------------------------
(***************************************************************************)
(* The state shared by the three kinds of process of appmotor -- the       *)
(* booster daemon, the boosters it forks and the invokers -- and the part  *)
(* of the operating system they meet in: process table, listening socket,  *)
(* connections, the boosters' datagram socket, signals.                    *)
(*                                                                         *)
(* A connection is named after the invoker that opened it: an invoker      *)
(* makes one launch.  Process ids are handed out in increasing order and   *)
(* not reused.                                                             *)
(***************************************************************************)
EXTENDS Integers, Sequences, FiniteSets

CONSTANTS
    Invoker,      \* invoker processes, one launch each
    NoInv,        \* "no invoker": fd -1 and pid -1 in the daemon's maps
    MaxPid,       \* bound: how many boosters can be forked
    Waiters,      \* invokers that keep the default --wait-term
    Singles,      \* invokers given --single-instance
    PluginLoaded, \* did the daemon find the single-instance plugin?
    App,          \* application binaries
    AppOf,        \* the binary an invoker launches
    Status,       \* exit codes; Success and Failure are among them
    Success, Failure,
    BootModes,    \* --boot-mode given or not: initial values of m_bootMode
    Backlog,      \* listen(2) backlog
    Faults,       \* the kinds of outside events that may happen
    MaxFaults     \* bound: how many of them

FaultKinds == {"crash", "mode", "term", "kill", "signal", "daemon",
               "stall"}

ASSUME LauncherAssumption ==
    /\ NoInv \notin Invoker
    /\ MaxPid \in Nat \ {0}
    /\ Waiters \subseteq Invoker /\ Singles \subseteq Invoker
    /\ PluginLoaded \in BOOLEAN
    /\ AppOf \in [Invoker -> App]
    /\ Success \in Status /\ Failure \in Status /\ Success # Failure
    /\ BootModes \subseteq BOOLEAN
    /\ Backlog \in Nat /\ MaxFaults \in Nat
    /\ Faults \subseteq FaultKinds

Pid == 1 .. MaxPid
NoPid == 0
PidOrNone == Pid \cup {NoPid}
InvOrNone == Invoker \cup {NoInv}

VARIABLES
    (* boosters: process table *)
    proc,      \* where each child of the daemon is in its life
    conn,      \* the connection a booster accepted last
    xstat,     \* wait status: the exit code, Failure when killed by a signal
    boot,      \* Booster::m_bootMode, copied from the daemon by fork()
    lock,      \* owner of the fcntl lock on an application's instance.lock
    (* invokers *)
    ivk,       \* program counter of an invoker
    kpid,      \* g_invoked_pid
    est,       \* exit_status
    (* sockets *)
    backlog,   \* connections waiting on the listening socket
    sent,      \* invokers whose request, magic to END, is written completely
    wr,        \* FALSE once the invoker shut down or closed its socket
    dn,        \* messages written to an invoker and not read by it
    end,       \* who holds the launcher's end of a connection
    shut,      \* connections on which the daemon did shutdown(SHUT_WR)
    dgrams,    \* m_boosterLauncherSocket
    (* daemon *)
    dpc,       \* program counter of Daemon::run
    rsig,      \* the signal pipe was readable when select() returned
    todo,      \* children, or closed connections, the current loop has to visit
    cur,       \* the booster being buried, its invoker, its status and the loop
    bpid,      \* m_boosterPid
    children,  \* m_children
    invOf,     \* m_boosterPidToInvokerFd and m_boosterPidToInvokerPid
    bootMode,  \* m_bootMode
    pend,      \* signals raised for the daemon and not yet handled
    pipe,      \* m_sigPipeFd
    (* outside world and history *)
    faults,    \* outside events so far
    asked,     \* somebody outside asked the daemon to terminate
    raced,     \* a booster was reaped before its datagram was read
    strays     \* children in m_children reaped behind the back of its loop

procVars   == <<proc, conn, xstat, boot, lock>>
invVars    == <<ivk, kpid, est>>
sockVars   == <<backlog, sent, wr, dn, end, shut, dgrams>>
loopVars   == <<dpc, rsig, todo, cur>>
bookVars   == <<bpid, children, invOf, bootMode>>
sigVars    == <<pend, pipe>>
histVars   == <<asked, raced, strays>>
worldVars  == <<faults, histVars>>

vars == <<procVars, invVars, sockVars, loopVars, bookVars, sigVars, worldVars>>
-----------------------------------------------------------------------------
(* Process life cycle.                                                     *)

Idle      == {"starting", "accepting", "serving", "checking"}
PreLaunch == Idle \cup {"forked"}
Armed     == Idle \cup {"handing"}       \* PR_SET_PDEATHSIG is in force
Alive     == PreLaunch \cup {"handing", "app"}
Dead      == {"zombie", "reaped"}
ProcState == Alive \cup Dead \cup {"unused"}

InvState == {"start", "connected", "sent", "acked", "waiting", "closing",
             "expired", "killing", "killed", "fallback", "exited"}
Gone(i) == ivk[i] \in {"exited", "fallback"}
HungUp(i) == ivk[i] \in {"killing", "killed", "exited"}  \* its socket is closed

EndState == {"none", "queued", "booster", "flight", "daemon", "closed"}

Signals == {"CHLD", "TERM", "USR1", "USR2", "PIPE"}

Message == [type : {"ACK"}, val : {Success}]
             \cup [type : {"PID"}, val : Pid]
             \cup [type : {"EXIT"}, val : Status]
Ack      == [type |-> "ACK", val |-> Success]
PidMsgZero(p) == [type |-> "PID", val |-> NoPid]   \* mutant: pid not known yet
PidMsg(p)  == [type |-> "PID", val |-> p]
ExitMsg(s) == [type |-> "EXIT", val |-> s]

(* The datagram a booster sends names its invoker, not the booster: "from" *)
(* is not in it and is used by the history variable and properties only.   *)
Datagram == [from : Pid, inv : InvOrNone]
InFlight(p) == \E k \in DOMAIN dgrams : dgrams[k].from = p

DaemonUp == dpc # "dead"

(* Every process that still has the listening socket open can accept.      *)
Listening == DaemonUp \/ \E p \in Pid : proc[p] \in PreLaunch \cup {"handing"}

(* What read() on the invoker's end of its connection sees when nothing is *)
(* queued on it: end of file, or it blocks.                                *)
EOF(i) == \/ end[i] = "closed"
          \/ i \in shut
          \/ end[i] = "queued" /\ ~Listening

LockAlwaysFree(a) == a \in App     \* mutant: F_SETLK's result is not looked at
LockFree(a) == \A p \in Pid : lock[a] = p => proc[p] \in Dead

IsLeast(p, S) == p \in S /\ \A q \in S : p <= q

-----------------------------------------------------------------------------
(* The death of processes: the kernel closes their connections, tells the  *)
(* parent, and hands them to init when there is no parent any more.        *)
Die(S, s) ==
    /\ proc'  = [p \in Pid |-> IF p \in S
                               THEN IF DaemonUp THEN "zombie" ELSE "reaped"
                               ELSE proc[p]]
    /\ xstat' = [p \in Pid |-> IF p \in S THEN s ELSE xstat[p]]
    /\ end'   = [i \in Invoker |->
                    IF end[i] = "booster" /\ \E p \in S : conn[p] = i
                    THEN "closed" ELSE end[i]]
    /\ pend'  = IF DaemonUp /\ S # {} THEN pend \cup {"CHLD"} ELSE pend

(* kill(p, SIGTERM).  A child that has not restored the default handlers   *)
(* runs the daemon's handler, and that writes to the pipe the daemon       *)
(* reads; an application may have handlers of its own and live on.  pip is what  *)
(* the step leaves in the pipe otherwise.                                  *)
Terminate(p, pip) ==
    \/ /\ proc[p] \in Armed \cup {"app"}
       /\ Die({p}, Failure)
       /\ pipe' = pip
    \/ /\ proc[p] = "forked"
       /\ pipe' = IF DaemonUp THEN Append(pip, "TERM") ELSE pip
       /\ UNCHANGED <<proc, xstat, end, pend>>
    \/ /\ proc[p] \in Dead \cup {"app"}
       /\ pipe' = pip
       /\ UNCHANGED <<proc, xstat, end, pend>>

(* An outside event of kind k happens; there are MaxFaults of them.        *)
Fault(k) ==
    /\ k \in Faults
    /\ faults < MaxFaults
    /\ faults' = faults + 1
=============================================================================
