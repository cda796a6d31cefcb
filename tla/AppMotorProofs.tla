---------------------------- MODULE AppMotorProofs ----------------------------
(***************************************************************************)
(* Type correctness and safety of AppMotor, for every set of invokers and  *)
(* applications and every bound on processes and outside events.           *)
(***************************************************************************)
EXTENDS AppMotor, TLAPS

(* What the program counter of the daemon says about the rest of its state:*)
(* a datagram or a signal is there when it is about to be read, and the    *)
(* steps that deal with an invoker or a process have one to deal with.     *)
Ctl ==
    /\ dpc = "dgram" => dgrams # <<>>
    /\ dpc = "sig" => rsig
    /\ rsig => pipe # <<>>
    /\ dpc \in {"close", "shut", "killIvk", "waitIvk"} => cur.inv \in Invoker
    /\ dpc \in {"select", "dgram", "sig", "reap", "closed", "term", "dead"}
          => cur = NoCur
    /\ dpc \in {"reaped", "close", "shut", "killIvk", "waitIvk", "killBst",
                "waitBst"} => cur.pid \in Pid /\ cur.why # "none"
    /\ dpc \in {"killBst", "waitBst"} => cur.why # "reap"
    /\ dpc = "reaped" => cur.why = "reap"
    /\ cur.why = "reap" => proc[cur.pid] = "reaped"
    /\ dpc \in {"dgram", "sig", "closed"} \/ cur.why = "closed"
          => \A p \in todo : invOf[p] \in Invoker

TypeInvariant == TypeOK /\ Ctl
-----------------------------------------------------------------------------
(* Constants, messages and sequences.                                      *)

(* Process numbers start at 1: "no process" is none of them.               *)
LEMMA PidFacts == 1 \in Pid /\ NoPid \notin Pid /\ Pid \subseteq Nat
  BY LauncherAssumption DEF Pid, NoPid

(* The exit codes Success and Failure are exit codes.                      *)
LEMMA StatusFacts == Success \in Status /\ Failure \in Status
  BY LauncherAssumption

(* What the launcher writes on a connection is a message ...               *)
LEMMA WriteMsg ==
  /\ Ack \in Message
  /\ \A p \in Pid : PidMsg(p) \in Message
  /\ \A s \in Status : ExitMsg(s) \in Message
  BY LauncherAssumption DEF Message, Ack, PidMsg, ExitMsg

(* ... and what the invoker reads from it is a pid or an exit status.      *)
LEMMA ReadMsg ==
  ASSUME NEW m \in Message
  PROVE  /\ m.type = "PID" => m.val \in Pid
         /\ m.type = "EXIT" => m.val \in Status
  BY DEF Message

(* Writing to and reading from a socket or a pipe keeps its type.          *)
LEMMA SeqFacts ==
  ASSUME NEW S, NEW s \in Seq(S)
  PROVE  /\ \A m \in S : Append(s, m) \in Seq(S)
         /\ \A m, n \in S : s \o <<m, n>> \in Seq(S)
         /\ s # <<>> => Head(s) \in S /\ Tail(s) \in Seq(S)
         /\ <<>> \in Seq(S)
  OBVIOUS
-----------------------------------------------------------------------------
(* Steps several actions have in common.                                   *)

(* The death of processes keeps the types.                                 *)
LEMMA DieType ==
  ASSUME TypeOK, NEW S, NEW s \in Status, Die(S, s)
  PROVE  /\ proc' \in [Pid -> ProcState] /\ xstat' \in [Pid -> Status]
         /\ end' \in [Invoker -> EndState] /\ pend' \subseteq Signals
  BY DEF TypeOK, TypeProc, TypeSock, TypeDaemon, Die, ProcState, Dead,
         EndState, Signals

(* So does a SIGTERM, whatever its target makes of it.                     *)
LEMMA TerminateType ==
  ASSUME TypeOK, NEW p, NEW pip \in Seq(Signals), Terminate(p, pip)
  PROVE  /\ proc' \in [Pid -> ProcState] /\ xstat' \in [Pid -> Status]
         /\ end' \in [Invoker -> EndState] /\ pend' \subseteq Signals
         /\ pipe' \in Seq(Signals)
  <1>1. CASE Die({p}, Failure) /\ pipe' = pip
    BY <1>1, DieType, StatusFacts
  <1>2. CASE /\ pipe' = IF DaemonUp THEN Append(pip, "TERM") ELSE pip
             /\ UNCHANGED <<proc, xstat, end, pend>>
    BY <1>2 DEF TypeOK, TypeProc, TypeSock, TypeDaemon, Signals
  <1>3. CASE pipe' = pip /\ UNCHANGED <<proc, xstat, end, pend>>
    BY <1>3 DEF TypeOK, TypeProc, TypeSock, TypeDaemon
  <1> QED BY <1>1, <1>2, <1>3 DEF Terminate

(* So do the end of the daemon ...                                         *)
LEMMA VanishType ==
  ASSUME TypeOK, Vanish
  PROVE  /\ proc' \in [Pid -> ProcState] /\ end' \in [Invoker -> EndState]
         /\ dgrams' \in Seq(Datagram)
         /\ dpc' \in DaemonState /\ rsig' \in BOOLEAN /\ todo' \subseteq Pid
         /\ cur' \in Burial /\ children' \subseteq Pid
         /\ invOf' \in [Pid -> InvOrNone]
         /\ pend' \subseteq Signals /\ pipe' \in Seq(Signals)
         /\ Ctl'
  <1>1. /\ proc' \in [Pid -> ProcState] /\ end' \in [Invoker -> EndState]
        /\ dgrams' \in Seq(Datagram)
    BY DEF TypeOK, TypeProc, TypeSock, Vanish, ProcState, Dead, EndState
  <1>2. /\ dpc' \in DaemonState /\ todo' \subseteq Pid
        /\ children' \subseteq Pid /\ pend' \subseteq Signals
        /\ pipe' \in Seq(Signals)
    BY DEF Vanish, DaemonState
  <1>3. rsig' \in BOOLEAN
    BY Zenon DEF Vanish
  <1>4. invOf' \in [Pid -> InvOrNone]
    BY DEF Vanish, InvOrNone
  <1>5. cur' \in Burial
    BY LauncherAssumption DEF Vanish, Burial, NoCur, PidOrNone, InvOrNone
  <1>6. Ctl'
    BY DEF Vanish, Ctl, NoCur
  <1> QED BY <1>1, <1>2, <1>4, <1>5, <1>6, <1>3

(* ... and the fork of a booster.                                          *)
LEMMA ForkType ==
  ASSUME TypeOK, NEW q \in Pid, Fork(q)
  PROVE  /\ children' \subseteq Pid /\ bpid' \in Pid
         /\ proc' \in [Pid -> ProcState] /\ boot' \in [Pid -> BOOLEAN]
  <1>1. boot' \in [Pid -> BOOLEAN]
    BY Zenon DEF TypeOK, TypeProc, TypeDaemon, Fork
  <1> QED
    BY <1>1 DEF TypeOK, TypeProc, TypeDaemon, Fork, ProcState, Alive, PreLaunch

(* A step of another process leaves the daemon where it is: it can only    *)
(* add to what the daemon has to read, and dead processes stay dead.       *)
LEMMA CtlStable ==
  ASSUME TypeInvariant, UNCHANGED <<loopVars, bookVars>>,
         dgrams # <<>> => dgrams' # <<>>, pipe # <<>> => pipe' # <<>>,
         \A p \in Pid : proc[p] = "reaped" => proc'[p] = "reaped"
  PROVE  Ctl'
  <1>1. cur.why = "reap" => cur.pid \in Pid
    BY DEF TypeInvariant, TypeOK, TypeDaemon, Ctl, DaemonState, NoCur
  <1> QED
    BY <1>1 DEF TypeInvariant, Ctl, loopVars, bookVars, NoCur
-----------------------------------------------------------------------------
(* The initial states are of the right type.                               *)
LEMMA InitType == Init => TypeInvariant
  <1> SUFFICES ASSUME Init PROVE TypeInvariant
    OBVIOUS
  <1> USE LauncherAssumption, PidFacts DEF Init, InvOrNone, PidOrNone, NoCur
  <1>1. TypeProc
    BY DEF TypeProc, ProcState, Alive, PreLaunch, Idle
  <1>2. TypeInv
    BY DEF TypeInv, InvState
  <1>3. TypeSock
    BY DEF TypeSock, EndState
  <1>4. TypeDaemon
    <2>1. cur \in Burial
      BY DEF Burial
    <2>2. invOf \in [Pid -> InvOrNone]
      OBVIOUS
    <2>3. bootMode \in BOOLEAN
      BY Zenon
    <2>4. dpc \in DaemonState /\ rsig \in BOOLEAN /\ todo \subseteq Pid
      BY DEF DaemonState
    <2>5. bpid \in Pid /\ children \subseteq Pid
      OBVIOUS
    <2>6. pend \subseteq Signals /\ pipe \in Seq(Signals)
      OBVIOUS
    <2> QED
      BY <2>1, <2>2, <2>3, <2>4, <2>5, <2>6, Zenon DEF TypeDaemon
  <1>5. TypeWorld
    BY DEF TypeWorld
  <1>6. Ctl
    BY DEF Ctl
  <1> QED BY <1>1, <1>2, <1>3, <1>4, <1>5, <1>6 DEF TypeOK, TypeInvariant
-----------------------------------------------------------------------------
(* Every step of a booster keeps the types ...                             *)
LEMMA BoosterType ==
  ASSUME TypeOK, NEW p \in Pid, BoosterStep(p) \/ AppExit(p) \/ BCrash(p)
  PROVE  TypeOK'
  <1> DEFINE i == conn[p]
  <1> USE DEF TypeOK, TypeProc, TypeInv, TypeSock, TypeDaemon, TypeWorld,
              procVars, invVars, sockVars, loopVars, bookVars, sigVars,
              histVars, worldVars, InvOrNone, PidOrNone, ProcState, Alive,
              PreLaunch, Idle
  <1>1. ASSUME BRestore(p) PROVE TypeOK'
    BY <1>1 DEF BRestore
  <1>2. ASSUME BReady(p) PROVE TypeOK'
    BY <1>2 DEF BReady
  <1>3. ASSUME BAccept(p) PROVE TypeOK'
    BY <1>3 DEF BAccept, EndState
  <1>4. ASSUME BReceive(p) PROVE TypeOK'
    <2>1. dn' \in [Invoker -> Seq(Message)]
      BY <1>4, WriteMsg, SeqFacts DEF BReceive
    <2> QED
      BY <1>4, <2>1 DEF BReceive, EndState
  <1>5. ASSUME BReceiveFails(p) PROVE TypeOK'
    BY <1>5, DieType, StatusFacts DEF BReceiveFails
  <1>6. ASSUME BActivate(p) PROVE TypeOK'
    <2>1. CASE Die({p}, Failure) /\ UNCHANGED dn
      BY <1>6, <2>1, DieType, StatusFacts DEF BActivate
    <2>2. CASE Report(i) /\ proc' = [proc EXCEPT ![p] = "accepting"]
                         /\ UNCHANGED <<xstat, pend>>
      <3>1. PICK r \in {Success, Failure} :
               \/ dn' = [dn EXCEPT ![i] = Append(@, ExitMsg(r))]
               \/ dn' = dn
        BY <2>2 DEF Report
      <3>2. ExitMsg(r) \in Message
        BY WriteMsg, StatusFacts
      <3>3. dn' \in [Invoker -> Seq(Message)]
        <4>1. Append(dn[i], ExitMsg(r)) \in Seq(Message) \/ i \notin Invoker
          BY <3>2, SeqFacts
        <4> QED BY <3>1, <4>1
      <3>4. end' \in [Invoker -> EndState]
        BY <2>2 DEF Report, EndState
      <3> QED
        BY <1>6, <2>2, <3>3, <3>4 DEF BActivate
    <2> QED BY <1>6, <2>1, <2>2 DEF BActivate
  <1>7. ASSUME BLaunch(p) PROVE TypeOK'
    <2> DEFINE d == [from |-> p, inv |-> IF i \in Waiters THEN i ELSE NoInv]
    <2>1. d \in Datagram
      BY <1>7 DEF BLaunch, Datagram
    <2>2. dgrams' = IF DaemonUp THEN Append(dgrams, d) ELSE dgrams
      BY <1>7 DEF BLaunch
    <2>3. dgrams' \in Seq(Datagram)
      BY <2>1, <2>2, SeqFacts
    <2>4. lock' \in [App -> PidOrNone]
      BY <1>7 DEF BLaunch
    <2>5. end' \in [Invoker -> EndState]
      <3>1. CASE DaemonUp /\ i \in Waiters
        BY <1>7, <3>1 DEF BLaunch, EndState
      <3>2. CASE DaemonUp /\ i \notin Waiters
        BY <1>7, <3>2 DEF BLaunch
      <3>3. CASE ~DaemonUp
        BY <1>7, <3>3 DEF BLaunch, EndState
      <3> QED BY <3>1, <3>2, <3>3
    <2>6. proc' \in [Pid -> ProcState]
      BY <1>7 DEF BLaunch
    <2> QED
      BY <1>7, <2>3, <2>4, <2>5, <2>6 DEF BLaunch
  <1>8. ASSUME BDisown(p) PROVE TypeOK'
    BY <1>8 DEF BDisown
  <1>9. ASSUME AppExit(p) PROVE TypeOK'
    BY <1>9, DieType DEF AppExit
  <1>10. ASSUME BCrash(p) PROVE TypeOK'
    BY <1>10, DieType, StatusFacts DEF BCrash, Fault
  <1> QED
    BY <1>1, <1>2, <1>3, <1>4, <1>5, <1>6, <1>7, <1>8, <1>9, <1>10
       DEF BoosterStep

(* What an invoker has got is a message, and it takes it away.             *)
LEMMA GotType ==
  ASSUME TypeOK, NEW i \in Invoker, NEW t, Got(i, t)
  PROVE  /\ Head(dn[i]) \in Message
         /\ [dn EXCEPT ![i] = Tail(@)] \in [Invoker -> Seq(Message)]
  BY SeqFacts DEF TypeOK, TypeSock, Got

(* ... and so does every step of an invoker.                               *)
LEMMA InvokerType ==
  ASSUME TypeOK, NEW i \in Invoker, InvokerStep(i) \/ ISignal(i) \/ IDie(i)
  PROVE  TypeOK'
  <1> USE StatusFacts
          DEF TypeOK, TypeProc, TypeInv, TypeSock, TypeDaemon, TypeWorld,
              procVars, invVars, sockVars, loopVars, bookVars, sigVars,
              histVars, worldVars, PidOrNone, InvState, Fails
  <1>1. ASSUME IConnect(i) PROVE TypeOK'
    BY <1>1 DEF IConnect, EndState
  <1>2. ASSUME IFallback(i) PROVE TypeOK'
    <2>1. ivk' \in [Invoker -> InvState] /\ est' \in [Invoker -> Status]
      BY <1>2 DEF IFallback
    <2> QED
      BY <1>2, <2>1 DEF IFallback
  <1>3. ASSUME ISend(i) PROVE TypeOK'
    <2>1. CASE EOF(i)
      BY <1>3, <2>1 DEF ISend
    <2>2. CASE ~EOF(i)
      BY <1>3, <2>2 DEF ISend
    <2> QED BY <2>1, <2>2
  <1>4. ASSUME IAck(i) PROVE TypeOK'
    <2>1. dn' \in [Invoker -> Seq(Message)]
      <3>1. CASE Got(i, "ACK")
        <4>1. dn' = [dn EXCEPT ![i] = Tail(@)]
          BY <1>4, <3>1 DEF IAck
        <4> QED BY <3>1, <4>1, GotType
      <3>2. CASE ~Got(i, "ACK")
        BY <1>4, <3>2 DEF IAck
      <3> QED BY <3>1, <3>2
    <2>2. CASE Got(i, "ACK") /\ i \in Waiters
      BY <1>4, <2>1, <2>2 DEF IAck
    <2>3. CASE ~(Got(i, "ACK") /\ i \in Waiters)
      BY <1>4, <2>1, <2>3 DEF IAck
    <2> QED BY <2>2, <2>3
  <1>5. ASSUME IPid(i) PROVE TypeOK'
    <2>1. CASE Got(i, "PID")
      <3>1. Head(dn[i]).val \in Pid
        BY <2>1, GotType, ReadMsg DEF Got
      <3> QED
        BY <1>5, <2>1, <3>1, GotType DEF IPid
    <2>2. CASE ~Got(i, "PID")
      BY <1>5, <2>2 DEF IPid
    <2> QED BY <2>1, <2>2
  <1>6. ASSUME IExit(i) PROVE TypeOK'
    <2>1. CASE Got(i, "EXIT")
      <3>1. Head(dn[i]).val \in Status
        BY <2>1, GotType, ReadMsg DEF Got
      <3> QED
        BY <1>6, <2>1, <3>1, GotType DEF IExit
    <2>2. CASE ~Got(i, "EXIT")
      BY <1>6, <2>2 DEF IExit
    <2> QED BY <2>1, <2>2
  <1>7. ASSUME ISignal(i) PROVE TypeOK'
    BY <1>7 DEF ISignal, Fault
  <1>8. ASSUME IDisconnected(i) PROVE TypeOK'
    BY <1>8 DEF IDisconnected
  <1>9. ASSUME IShutTimeout(i) PROVE TypeOK'
    BY <1>9 DEF IShutTimeout
  <1>10. ASSUME IKillApp(i) PROVE TypeOK'
    BY <1>10, TerminateType DEF IKillApp
  <1>11. ASSUME IKillForce(i) PROVE TypeOK'
    BY <1>11, DieType DEF IKillForce
  <1>12. ASSUME IKilled(i) PROVE TypeOK'
    BY <1>12 DEF IKilled
  <1>13. ASSUME IDie(i) PROVE TypeOK'
    BY <1>13 DEF IDie, Fault
  <1>14. ASSUME IDrain(i) PROVE TypeOK'
    BY <1>14, SeqFacts DEF IDrain
  <1>15. ASSUME IClose(i) PROVE TypeOK'
    BY <1>15, SeqFacts DEF IClose
  <1> QED
    BY <1>1, <1>2, <1>3, <1>4, <1>5, <1>6, <1>7, <1>8, <1>9, <1>10, <1>11,
       <1>12, <1>13, <1>14, <1>15 DEF InvokerStep
-----------------------------------------------------------------------------
(* The steps of a booster or an invoker, and events outside.               *)
Others ==
    \/ \E p \in Pid : BoosterStep(p) \/ AppExit(p) \/ BCrash(p)
    \/ \E i \in Invoker : InvokerStep(i) \/ ISignal(i) \/ IDie(i)
    \/ \E s \in Signals : DHandler(s)
    \/ OutsideMode \/ OutsideTerm

(* They leave the daemon where it is and what it has to read in place.     *)
LEMMA OthersCtl ==
  ASSUME TypeInvariant, Others
  PROVE  Ctl' /\ UNCHANGED <<loopVars, bookVars>>
  <1> DEFINE More(s, t) == t = s \/ \E m : t = Append(s, m)
             Stays == \A p \in Pid : proc[p] = "reaped" => proc'[p] = "reaped"
             Goal == /\ UNCHANGED <<loopVars, bookVars>>
                     /\ More(dgrams, dgrams') /\ More(pipe, pipe') /\ Stays
  <1> USE DEF procVars, invVars, sockVars, sigVars, Alive, Armed, PreLaunch,
              Idle, TypeInvariant, TypeOK, TypeProc
  <1>1. ASSUME NEW p \in Pid, BoosterStep(p) \/ AppExit(p) \/ BCrash(p)
        PROVE  Goal
    <2>1. CASE \/ BRestore(p) \/ BReady(p) \/ BAccept(p) \/ BReceive(p)
               \/ BDisown(p)
      BY <2>1 DEF BRestore, BReady, BAccept, BReceive, BDisown
    <2>2. CASE BReceiveFails(p) \/ BActivate(p) \/ AppExit(p) \/ BCrash(p)
      BY <2>2 DEF BReceiveFails, BActivate, AppExit, BCrash, Die
    <2>3. CASE BLaunch(p)
      BY <2>3 DEF BLaunch
    <2> QED BY <1>1, <2>1, <2>2, <2>3 DEF BoosterStep
  <1>2. ASSUME NEW i \in Invoker, InvokerStep(i) \/ ISignal(i) \/ IDie(i)
        PROVE  Goal
    <2>1. CASE IKillApp(i)
      BY <2>1 DEF IKillApp, Terminate, Die
    <2>2. CASE IKillForce(i)
      BY <2>2 DEF IKillForce, Die
    <2> QED
      BY <1>2, <2>1, <2>2
         DEF InvokerStep, IConnect, IFallback, ISend, IAck, IPid, IExit,
             IDrain, IClose, ISignal, IDisconnected, IShutTimeout, IKilled,
             IDie
  <1>3. ASSUME \/ \E s \in Signals : DHandler(s)
               \/ OutsideMode \/ OutsideTerm
        PROVE  Goal
    BY <1>3 DEF DHandler, OutsideMode, OutsideTerm
  <1>4. Goal
    BY <1>1, <1>2, <1>3 DEF Others
  <1>5. \A s, t : s # <<>> /\ More(s, t) => t # <<>>
    OBVIOUS
  <1>6. /\ dgrams # <<>> => dgrams' # <<>>
        /\ pipe # <<>> => pipe' # <<>>
    BY <1>4, <1>5
  <1> QED
    BY <1>4, <1>6, CtlStable

(* Every step of the daemon keeps the types, because it is only taken when *)
(* there is something to take it on.                                       *)
LEMMA DaemonType ==
  ASSUME TypeInvariant, DaemonStep \/ OutsideMode \/ OutsideTerm \/ DCrash
  PROVE  TypeOK'
  <1> USE DEF TypeInvariant, TypeOK, TypeProc, TypeInv, TypeSock, TypeDaemon,
              TypeWorld, procVars, invVars, sockVars, loopVars, bookVars,
              sigVars, histVars, worldVars, InvOrNone, PidOrNone
  <1>1. ASSUME DSelect PROVE TypeOK'
    BY <1>1 DEF DSelect, DaemonState, ClosedByInvoker
  <1>2. ASSUME DReadBooster PROVE TypeOK'
    <2>1. CASE ForkFails
      BY <1>2, <2>1, VanishType DEF DReadBooster, ForkFails
    <2>2. CASE ~ForkFails
      <3>1. PICK q \in Pid : Fork(q)
        BY <1>2, <2>2 DEF DReadBooster
      <3>2. Head(dgrams).inv \in InvOrNone /\ dgrams' \in Seq(Datagram)
        <4>1. dgrams # <<>> /\ dgrams' = Tail(dgrams)
          BY <1>2, <2>2 DEF DReadBooster, Ctl
        <4>2. Head(dgrams) \in Datagram
          BY <4>1, SeqFacts
        <4> QED BY <4>1, <4>2, SeqFacts DEF Datagram
      <3>3. invOf' \in [Pid -> InvOrNone]
        BY <1>2, <2>2, <3>2 DEF DReadBooster
      <3>4. end' \in [Invoker -> EndState]
        BY <1>2, <2>2 DEF DReadBooster, EndState
      <3>5. dpc' \in DaemonState
        BY <1>2, <2>2 DEF DReadBooster, DaemonState, AfterSignal
      <3> QED
        BY <1>2, <2>2, <3>1, <3>2, <3>3, <3>4, <3>5, ForkType DEF DReadBooster
    <2> QED BY <2>1, <2>2
  <1>3. ASSUME NEW S, ReadSignal(S)
        PROVE  Tail(pipe) \in Seq(Signals)
    BY <1>3, SeqFacts DEF ReadSignal, Ctl
  <1>4. ASSUME DChild PROVE TypeOK'
    BY <1>3, <1>4 DEF DChild, ReadSignal, DaemonState
  <1>5. ASSUME DTerminate PROVE TypeOK'
    BY <1>3, <1>5 DEF DTerminate, ReadSignal, DaemonState
  <1>6. ASSUME DIgnore PROVE TypeOK'
    BY <1>3, <1>6 DEF DIgnore, ReadSignal, DaemonState
  <1>7. ASSUME DSwitchMode PROVE TypeOK'
    <2>1. Terminate(bpid, Tail(pipe)) /\ Tail(pipe) \in Seq(Signals)
      BY <1>3, <1>7 DEF DSwitchMode, KillBoosters
    <2>2. dpc' \in DaemonState /\ todo' \subseteq Pid
      BY <1>7 DEF DSwitchMode, DaemonState
    <2>3. bootMode' \in BOOLEAN /\ rsig' \in BOOLEAN
      BY <1>7, Zenon DEF DSwitchMode, ReadSignal
    <2> QED
      BY <1>7, <2>1, <2>2, <2>3, TerminateType DEF DSwitchMode, ReadSignal
  <1>8. ASSUME NEW p \in Pid, DReap(p) PROVE TypeOK'
    <2>1. cur' \in Burial
      BY <1>8 DEF DReap, ExitStatus, Burial
    <2>2. raced' \in BOOLEAN
      BY <1>8, Zenon DEF DReap
    <2>3. dpc' \in DaemonState
      BY <1>8 DEF DReap, AfterReap, DaemonState
    <2> QED
      BY <1>8, <2>1, <2>2, <2>3 DEF DReap, ProcState, Dead
  <1>9. ASSUME NEW p \in Pid, DSkip(p) PROVE TypeOK'
    BY <1>9 DEF DSkip
  <1>10. NoCur \in Burial
    BY StatusFacts DEF NoCur, Burial
  <1>11. ASSUME DReaped PROVE TypeOK'
    <2>1. CASE ~IsBooster(cur.pid)
      BY <1>10, <1>11, <2>1 DEF DReaped, DaemonState
    <2>2. CASE IsBooster(cur.pid) /\ ForkFails
      BY <1>11, <2>2, VanishType DEF DReaped, ForkFails
    <2>3. CASE IsBooster(cur.pid) /\ ~ForkFails
      <3>1. PICK q \in Pid : Fork(q) /\ todo' = todo \cup {q}
        BY <1>11, <2>3 DEF DReaped
      <3> QED
        BY <1>10, <1>11, <2>3, <3>1, ForkType DEF DReaped, DaemonState
    <2> QED BY <2>1, <2>2, <2>3
  <1>12. ASSUME DStray PROVE TypeOK'
    BY <1>12 DEF DStray, ProcState, Dead, DaemonState
  <1>13. ASSUME DSendExit PROVE TypeOK'
    <2>1. cur.inv \in Invoker /\ cur.st \in Status
      BY <1>13 DEF DSendExit, Ctl, Burial
    <2>2. dn' \in [Invoker -> Seq(Message)]
      <3>1. \/ dn' = dn
            \/ dn' = [dn EXCEPT ![cur.inv] = Append(@, ExitMsg(cur.st))]
        BY <1>13 DEF DSendExit
      <3>2. ExitMsg(cur.st) \in Message
        BY <2>1, WriteMsg
      <3>3. CASE dn' = [dn EXCEPT ![cur.inv] = Append(@, ExitMsg(cur.st))]
        BY <2>1, <3>2, <3>3, SeqFacts
      <3> QED BY <3>1, <3>3
    <2> QED
      BY <1>13, <2>1, <2>2 DEF DSendExit, DaemonState, Signals
  <1>14. AfterInvoker \in DaemonState
    BY DEF AfterInvoker, DaemonState
  <1>15. ASSUME DShut PROVE TypeOK'
    <2>1. end' \in [Invoker -> EndState]
      BY <1>15 DEF DShut, EndState
    <2>2. dpc' \in DaemonState /\ faults' \in Nat
      BY <1>14, <1>15 DEF DShut, Fault, DaemonState
    <2> QED
      BY <1>15, <2>1, <2>2 DEF DShut
  <1>16. ASSUME DKillInvoker PROVE TypeOK'
    BY <1>16, StatusFacts DEF DKillInvoker, DaemonState, InvState
  <1>17. ASSUME DWaitInvoker PROVE TypeOK'
    BY <1>14, <1>17, StatusFacts DEF DWaitInvoker, InvState
  <1>18. ASSUME NEW p \in Pid, DClosed(p) PROVE TypeOK'
    BY <1>18, StatusFacts DEF DClosed, DaemonState, Burial
  <1>19. ASSUME NEW p \in Pid, DTerm(p) PROVE TypeOK'
    BY <1>19, StatusFacts DEF DTerm, DaemonState, Burial
  <1>20. ASSUME DExit PROVE TypeOK'
    BY <1>20, VanishType DEF DExit
  <1>21. AfterBooster \in DaemonState
    BY DEF AfterBooster, AfterSignal, DaemonState
  <1>22. ASSUME DKillBooster PROVE TypeOK'
    <2>1. CASE proc[cur.pid] = "reaped"
      BY <1>10, <1>21, <1>22, <2>1 DEF DKillBooster
    <2>2. CASE proc[cur.pid] # "reaped"
      BY <1>22, <2>2, TerminateType DEF DKillBooster, DaemonState
    <2> QED BY <2>1, <2>2
  <1>23. ASSUME DWaitBooster PROVE TypeOK'
    <2>1. CASE proc[cur.pid] \in Alive
      BY <1>23, <2>1, DieType, StatusFacts DEF DWaitBooster
    <2>2. CASE proc[cur.pid] \notin Alive
      BY <1>10, <1>21, <1>23, <2>2 DEF DWaitBooster, ProcState, Dead
    <2> QED BY <2>1, <2>2
  <1>24. ASSUME NEW s \in Signals, DHandler(s) PROVE TypeOK'
    BY <1>24, SeqFacts DEF DHandler
  <1>25. ASSUME OutsideMode \/ OutsideTerm PROVE TypeOK'
    <2>1. CASE OutsideMode
      BY <2>1 DEF OutsideMode, Fault, Signals
    <2>2. CASE OutsideTerm
      <3>1. asked' \in BOOLEAN
        BY <2>2, Zenon DEF OutsideTerm
      <3> QED
        BY <2>2, <3>1 DEF OutsideTerm, Fault, Signals
    <2> QED BY <1>25, <2>1, <2>2
  <1>26. ASSUME DCrash PROVE TypeOK'
    BY <1>26, VanishType DEF DCrash, Fault
  <1> QED
    BY <1>1, <1>2, <1>4, <1>5, <1>6, <1>7, <1>8, <1>9, <1>11, <1>12, <1>13,
       <1>15, <1>16, <1>17, <1>18, <1>19, <1>20, <1>22, <1>23, <1>24, <1>25,
       <1>26 DEF DaemonStep

(* And every step of the daemon leads it to a point where that is so again.*)
LEMMA DaemonCtl ==
  ASSUME TypeInvariant, DaemonStep \/ DCrash
  PROVE  Ctl'
  <1> USE DEF TypeInvariant, TypeOK, TypeProc, TypeDaemon, loopVars, bookVars,
              sigVars, procVars
  <1>1. cur.why = "reap" => cur.pid \in Pid
    BY DEF Ctl, DaemonState, NoCur
  <1>2. ASSUME DSelect PROVE Ctl'
    <2>1. \A p \in todo' : invOf'[p] \in Invoker
      BY <1>2 DEF DSelect, ClosedByInvoker, InvOrNone
    <2>2. cur' = NoCur /\ rsig' = (pipe' # <<>>)
      BY <1>2 DEF DSelect, Ctl
    <2>3. /\ dpc' \in {"dgram", "sig", "closed"}
          /\ dpc' = "dgram" => dgrams' # <<>>
          /\ dpc' = "sig" => pipe' # <<>>
      BY <1>2 DEF DSelect, sockVars
    <2> QED BY <2>1, <2>2, <2>3 DEF Ctl, NoCur
  <1>3. ASSUME DReadBooster PROVE Ctl'
    <2>1. CASE ForkFails
      BY <2>1, VanishType DEF ForkFails
    <2>2. CASE ~ForkFails
      <3>1. PICK q \in Pid : IsLeast(q, Unused) /\ Fork(q)
        BY <1>3, <2>2 DEF DReadBooster
      <3>2. dgrams # <<>>
        BY <1>3 DEF DReadBooster, Ctl
      <3>3. Head(dgrams).inv \in InvOrNone
        <4>1. Head(dgrams) \in Datagram
          BY <3>2, SeqFacts DEF TypeSock
        <4> QED BY <4>1 DEF Datagram
      <3>4. \A p \in todo : invOf'[p] \in Invoker
        BY <1>3, <2>2, <3>3 DEF DReadBooster, Ctl, InvOrNone
      <3>5. rsig' = rsig /\ pipe' = pipe /\ todo' = todo /\ cur' = NoCur
        BY <1>3, <2>2 DEF DReadBooster, Ctl
      <3>6. dpc' = IF rsig THEN "sig" ELSE AfterSignal(todo)
        BY <1>3, <2>2 DEF DReadBooster
      <3> QED
        BY <3>4, <3>5, <3>6 DEF Ctl, NoCur, AfterSignal
    <2> QED BY <2>1, <2>2
  <1>4. ASSUME DChild \/ DTerminate \/ DIgnore PROVE Ctl'
    BY <1>4 DEF DChild, DTerminate, DIgnore, ReadSignal, Ctl, NoCur
  <1>5. ASSUME DSwitchMode PROVE Ctl'
    BY <1>5 DEF DSwitchMode, ReadSignal, Ctl, NoCur
  <1>6. ASSUME NEW p \in Pid, DReap(p) PROVE Ctl'
    BY <1>6 DEF DReap, AfterReap, Ctl, NoCur, InvOrNone
  <1>7. ASSUME NEW p \in Pid, DSkip(p) PROVE Ctl'
    BY <1>7 DEF DSkip, Ctl, NoCur
  <1>8. ASSUME DReaped PROVE Ctl'
    <2>1. CASE ForkFails
      BY <2>1, VanishType DEF ForkFails
    <2>2. CASE ~ForkFails
      BY <1>8, <2>2 DEF DReaped, Ctl, NoCur
    <2> QED BY <2>1, <2>2
  <1>9. ASSUME DStray PROVE Ctl'
    BY <1>9 DEF DStray, Ctl, NoCur
  <1>10. ASSUME DSendExit PROVE Ctl'
    BY <1>10 DEF DSendExit, Ctl, NoCur
  <1>11. ASSUME DShut \/ DKillInvoker \/ DWaitInvoker PROVE Ctl'
    BY <1>11 DEF DShut, DKillInvoker, DWaitInvoker, AfterInvoker, Ctl, NoCur
  <1>12. ASSUME NEW p \in Pid, DClosed(p) PROVE Ctl'
    BY <1>12 DEF DClosed, IsLeast, Ctl, NoCur
  <1>13. ASSUME NEW p \in Pid, DTerm(p) PROVE Ctl'
    BY <1>13 DEF DTerm, Ctl, NoCur, InvOrNone
  <1>14. ASSUME DExit \/ DCrash PROVE Ctl'
    BY <1>14, VanishType DEF DExit, DCrash
  <1>15. ASSUME dpc \in {"killBst", "waitBst"}, dpc' = AfterBooster
         PROVE  /\ dpc' \in {"term", "select", "closed"}
                /\ dpc' = "closed" => \A p \in todo : invOf[p] \in Invoker
    BY <1>15 DEF AfterBooster, AfterSignal, Ctl, Burial
  <1>16. ASSUME DKillBooster PROVE Ctl'
    <2>1. CASE proc[cur.pid] = "reaped"
      BY <1>16, <1>15, <2>1 DEF DKillBooster, Ctl, NoCur
    <2>2. CASE proc[cur.pid] # "reaped"
      <3>1. pipe # <<>> => pipe' # <<>>
        BY <1>16, <2>2 DEF DKillBooster, Terminate
      <3> QED
        BY <1>16, <2>2, <3>1 DEF DKillBooster, Ctl, NoCur
    <2> QED BY <2>1, <2>2
  <1>17. ASSUME DWaitBooster PROVE Ctl'
    <2>1. CASE proc[cur.pid] \in Alive
      BY <1>17, <2>1 DEF DWaitBooster, Ctl, NoCur
    <2>2. CASE proc[cur.pid] \notin Alive
      BY <1>17, <1>15, <2>2 DEF DWaitBooster, Ctl, NoCur
    <2> QED BY <2>1, <2>2
  <1>18. ASSUME NEW s \in Signals, DHandler(s) PROVE Ctl'
    BY <1>18, OthersCtl DEF Others
  <1> QED
    BY <1>2, <1>3, <1>4, <1>5, <1>6, <1>7, <1>8, <1>9, <1>10, <1>11, <1>12,
       <1>13, <1>14, <1>16, <1>17, <1>18 DEF DaemonStep
-----------------------------------------------------------------------------
(* Every variable of the daemon, the boosters and the invokers keeps its   *)
(* type, and the daemon never reads from an empty socket or pipe, whatever *)
(* the number of invokers, processes and outside events.                   *)
THEOREM TypeCorrect == Spec => []TypeInvariant
  <1>1. ASSUME TypeInvariant, [Next]_vars
        PROVE  TypeInvariant'
    <2>1. ASSUME NEW p \in Pid, BoosterStep(p) \/ AppExit(p) \/ BCrash(p)
          PROVE  TypeInvariant'
      BY <1>1, <2>1, BoosterType, OthersCtl DEF TypeInvariant, Others
    <2>2. ASSUME NEW i \in Invoker, InvokerStep(i) \/ ISignal(i) \/ IDie(i)
          PROVE  TypeInvariant'
      BY <1>1, <2>2, InvokerType, OthersCtl DEF TypeInvariant, Others
    <2>3. ASSUME DaemonStep \/ DCrash
          PROVE  TypeInvariant'
      BY <1>1, <2>3, DaemonType, DaemonCtl DEF TypeInvariant
    <2>4. ASSUME OutsideMode \/ OutsideTerm
          PROVE  TypeInvariant'
      BY <1>1, <2>4, DaemonType, OthersCtl DEF TypeInvariant, Others
    <2>5. CASE UNCHANGED vars
      BY <1>1, <2>5
         DEF TypeInvariant, TypeOK, TypeProc, TypeInv, TypeSock, TypeDaemon,
             TypeWorld, Ctl, vars, procVars, invVars, sockVars, loopVars,
             bookVars, sigVars, worldVars, histVars
    <2> QED
      BY <1>1, <2>1, <2>2, <2>3, <2>4, <2>5 DEF Next, Rest
  <1> QED
    BY <1>1, InitType, PTL DEF Spec

(* In particular the run's type invariant holds for every instance.        *)
COROLLARY TypesHold == Spec => []TypeOK
  BY TypeCorrect, PTL DEF TypeInvariant
-----------------------------------------------------------------------------
Launched(p) == proc[p] \notin PreLaunch \cup {"unused"}

(* The life of a process: what one step may make of it.                    *)
NextState(p, q) ==
    \/ p = q
    \/ p = "unused" /\ q = "forked"
    \/ p \in PreLaunch /\ q \in PreLaunch \cup {"handing"} \cup Dead
    \/ p = "handing" /\ q \in {"app"} \cup Dead
    \/ p = "app" /\ q \in Dead
    \/ p = "zombie" /\ q = "reaped"
Life ==
    \A p \in Pid :
        /\ NextState(proc[p], proc'[p])
        /\ conn'[p] # conn[p] => proc[p] = "accepting"

(* Whom the daemon keeps books about, it has forked.                       *)
Forked ==
    \A p \in Pid : p \in children \cup {bpid, cur.pid} \/ invOf[p] # NoInv
                      => proc[p] # "unused"

(* A step that forks no booster, launches nothing, and tells the daemon    *)
(* nothing new about who belongs together.                                 *)
Calm ==
    /\ Life
    /\ \A p \in Pid : /\ proc[p] = "unused" => proc'[p] = "unused"
                      /\ proc[p] \in PreLaunch => proc'[p] # "handing"
    /\ UNCHANGED <<lock, bpid, boot>>

(* A booster that dies, or an application, is alive: it does not rise.     *)
LEMMA DieLife ==
  ASSUME TypeOK, NEW S, NEW s, Die(S, s),
         \A p \in S \cap Pid : proc[p] \in Alive, UNCHANGED conn
  PROVE  Life
  BY DEF TypeOK, TypeProc, Die, Life, NextState, Alive, Dead

(* SIGTERM touches the process it is sent to, and no other.                *)
LEMMA TerminateLife ==
  ASSUME TypeOK, NEW q, NEW pip, Terminate(q, pip), UNCHANGED conn
  PROVE  /\ Life
         /\ \A p \in Pid : p # q => proc'[p] = proc[p]
         /\ \A p \in Pid : \/ proc'[p] = proc[p]
                           \/ proc[p] \in Alive /\ proc'[p] \in Dead
  <1> USE DEF TypeOK, TypeProc, Alive, Armed, PreLaunch, Idle
  <1>1. CASE proc[q] \in Armed \cup {"app"} /\ Die({q}, Failure)
    <2>1. Life
      BY <1>1, DieLife
    <2> QED
      BY <1>1, <2>1 DEF Die, Dead
  <1>2. CASE proc' = proc
    BY <1>2 DEF Life, NextState
  <1> QED BY <1>1, <1>2 DEF Terminate

(* The kernel ends the daemon's boosters with it.                          *)
LEMMA VanishLife ==
  ASSUME TypeOK, Vanish, UNCHANGED <<conn, lock, bpid, boot>>
  PROVE  Calm
  BY DEF TypeOK, TypeProc, Vanish, Calm, Life, NextState, Armed, Alive,
         PreLaunch, Idle, Dead

(* Before it launches, and after it has, a booster's steps are calm.       *)
LEMMA BoosterCalm ==
  ASSUME TypeOK, NEW p \in Pid, BoosterStep(p) \/ AppExit(p) \/ BCrash(p),
         ~BLaunch(p)
  PROVE  Calm
  <1> USE DEF procVars, bookVars, TypeOK, TypeProc, Calm, Alive, PreLaunch, Idle
  <1>1. CASE BRestore(p) \/ BReady(p) \/ BAccept(p) \/ BReceive(p) \/ BDisown(p)
    BY <1>1
       DEF BRestore, BReady, BAccept, BReceive, BDisown, Life, NextState
  <1>2. CASE BReceiveFails(p) \/ AppExit(p) \/ BCrash(p)
    <2>1. PICK s : Die({p}, s)
      BY <1>2 DEF BReceiveFails, AppExit, BCrash
    <2>2. proc[p] \in Alive /\ UNCHANGED <<conn, lock, bpid, boot>>
      BY <1>2 DEF BReceiveFails, AppExit, BCrash
    <2>3. Life
      BY <2>1, <2>2, DieLife
    <2> QED
      BY <2>1, <2>2, <2>3 DEF Die, Dead
  <1>3. CASE BActivate(p)
    BY <1>3 DEF BActivate, Die, Life, NextState, Dead
  <1> QED
    BY <1>1, <1>2, <1>3 DEF BoosterStep

(* An invoker may kill a process and does nothing else to it.              *)
LEMMA InvokerCalm ==
  ASSUME TypeOK, NEW i \in Invoker, InvokerStep(i) \/ ISignal(i) \/ IDie(i)
  PROVE  Calm
  <1>1. CASE IKillApp(i)
    <2>1. Terminate(kpid[i], pipe) /\ UNCHANGED <<conn, lock, bpid, boot>>
      BY <1>1 DEF IKillApp, bookVars
    <2> QED
      BY <2>1, TerminateLife DEF Calm, Dead, Alive, PreLaunch, Idle
  <1>2. CASE IKillForce(i)
    BY <1>2
       DEF TypeOK, TypeProc, IKillForce, Die, bookVars, Calm, Life, NextState,
           Alive, PreLaunch, Idle, Dead
  <1>3. CASE UNCHANGED <<procVars, bookVars>>
    BY <1>3 DEF Calm, Life, NextState, procVars, bookVars, PreLaunch, Idle
  <1> QED
    BY <1>1, <1>2, <1>3
       DEF InvokerStep, IConnect, IFallback, ISend, IAck, IPid, IExit, ISignal,
           IDrain, IClose, IDisconnected, IShutTimeout, IKilled, IDie

(* Only the steps in which it forks a booster are not calm.                *)
LEMMA DaemonCalm ==
  ASSUME TypeInvariant, Forked,
         DaemonStep \/ OutsideMode \/ OutsideTerm \/ DCrash,
         ~\E q \in Pid : IsLeast(q, Unused) /\ Fork(q)
  PROVE  Calm
  <1> USE DEF TypeInvariant, TypeOK, TypeProc, procVars, bookVars
  <1>1. CASE UNCHANGED <<procVars, bpid>>
    BY <1>1 DEF Calm, Life, NextState, PreLaunch, Idle
  <1>2. CASE DReadBooster \/ DReaped
    <2>1. CASE ForkFails
      BY <1>2, <2>1, VanishLife DEF DReadBooster, DReaped, ForkFails
    <2>2. CASE ~ForkFails
      BY <1>1, <1>2, <2>2 DEF DReadBooster, DReaped
    <2> QED BY <2>1, <2>2
  <1>3. CASE DExit \/ DCrash
    BY <1>3, VanishLife DEF DExit, DCrash
  <1>4. CASE DSwitchMode \/ DKillBooster
    <2>1. CASE DKillBooster /\ UNCHANGED <<proc, xstat>>
      BY <1>1, <2>1 DEF DKillBooster
    <2>2. CASE \E q, pip : Terminate(q, pip)
      <3>1. UNCHANGED <<conn, lock, bpid, boot>>
        BY <1>4 DEF DSwitchMode, ReadSignal, DKillBooster
      <3> QED
        BY <2>2, <3>1, TerminateLife DEF Calm, Dead, Alive, PreLaunch, Idle
    <2> QED
      BY <1>4, <2>1, <2>2 DEF DSwitchMode, KillBoosters, DKillBooster
  <1>5. CASE DStray \/ \E p \in Pid : DReap(p)
    BY <1>5
       DEF DStray, DReap, Calm, Life, NextState, PreLaunch, Idle
  <1>6. CASE DWaitBooster
    <2>1. CASE proc[cur.pid] \in Alive
      BY <1>6, <2>1
         DEF DWaitBooster, Die, Calm, Life, NextState, Alive, PreLaunch, Idle,
             Dead
    <2>2. CASE proc[cur.pid] \notin Alive
      BY <1>6, <2>2
         DEF DWaitBooster, Forked, Ctl, Calm, Life, NextState, ProcState,
             Alive, PreLaunch, Idle, Dead
    <2> QED BY <2>1, <2>2
  <1> QED
    BY <1>1, <1>2, <1>3, <1>4, <1>5, <1>6
       DEF DaemonStep, DSelect, DChild, DTerminate, DIgnore, ReadSignal, DSkip,
           DClosed, DTerm, DSendExit, DShut, DKillInvoker, DWaitInvoker,
           DHandler, OutsideMode, OutsideTerm
-----------------------------------------------------------------------------
(* Steps that fork.                                                        *)
ForkStep(q) ==
    /\ IsLeast(q, Unused) /\ Fork(q)
    /\ DReadBooster \/ DReaped

(* A step is calm, or it launches, or it forks.                            *)
LEMMA StepKinds ==
  ASSUME TypeInvariant, Forked, [Next]_vars
  PROVE  \/ Calm
         \/ \E p \in Pid : BLaunch(p)
         \/ \E q \in Pid : ForkStep(q)
  <1>1. ASSUME NEW q \in Pid, IsLeast(q, Unused), Fork(q),
               DaemonStep \/ OutsideMode \/ OutsideTerm \/ DCrash
        PROVE  ForkStep(q)
    <2>1. proc'[q] # proc[q] /\ q \in children' /\ q \notin children
      BY <1>1 DEF TypeInvariant, TypeOK, TypeProc, Forked, Fork, IsLeast, Unused
    <2> QED
      BY <1>1, <2>1
         DEF ForkStep, DaemonStep, DSelect, DChild, DTerminate, DIgnore,
             DSwitchMode, ReadSignal, DReap, DSkip, DClosed, DTerm, DStray,
             DSendExit, DShut, DKillInvoker, DWaitInvoker, DExit, Vanish,
             DKillBooster, DWaitBooster, DHandler, OutsideMode, OutsideTerm,
             DCrash, procVars, bookVars
  <1>2. CASE UNCHANGED vars
    BY <1>2
       DEF vars, procVars, bookVars, Calm, Life, NextState, PreLaunch, Idle
  <1> QED
    BY <1>1, <1>2, BoosterCalm, InvokerCalm, DaemonCalm
       DEF TypeInvariant, Next, Rest

(* Every process lives its life in order, in every step.                   *)
LEMMA AlwaysLife ==
  ASSUME TypeInvariant, Forked, [Next]_vars
  PROVE  Life
  <1> USE DEF TypeInvariant, TypeOK, TypeProc, Life, NextState
  <1>1. CASE Calm
    BY <1>1 DEF Calm
  <1>2. ASSUME NEW p \in Pid, BLaunch(p) PROVE Life
    BY <1>2 DEF BLaunch, PreLaunch, Idle
  <1>3. ASSUME NEW q \in Pid, ForkStep(q) PROVE Life
    BY <1>3 DEF ForkStep, Fork, IsLeast, Unused, DReadBooster, DReaped
  <1> QED BY <1>1, <1>2, <1>3, StepKinds

(* Whom the daemon keeps books about, it has forked.                       *)
LEMMA ForkedInv ==
  ASSUME TypeInvariant, Forked, [Next]_vars
  PROVE  Forked'
  <1> DEFINE Booked(p) == \/ p \in children \cup {bpid, cur.pid}
                          \/ invOf[p] # NoInv
  <1>1. ASSUME NEW p \in Pid, proc[p] # "unused" PROVE proc'[p] # "unused"
    BY <1>1, AlwaysLife DEF Life, NextState, PreLaunch, Idle, Dead
  <1>2. CASE UNCHANGED <<bpid, children, invOf, cur>>
    BY <1>1, <1>2 DEF Forked
  <1>3. ASSUME NEW q \in Pid, ForkStep(q) PROVE Forked'
    <2>1. proc'[q] # "unused" /\ bpid' = q /\ children' = children \cup {q}
      BY <1>3
         DEF TypeInvariant, TypeOK, TypeProc, ForkStep, Fork
    <2>2. \A p \in Pid : invOf'[p] # NoInv => invOf[p] # NoInv \/ p = bpid
      <3>1. \/ invOf' = invOf
            \/ \E i : invOf' = [invOf EXCEPT ![bpid] = i]
            \/ invOf' = [p \in Pid |-> NoInv]
        BY <1>3 DEF ForkStep, DReadBooster, DReaped, ForkFails, Vanish
      <3> QED
        BY <3>1 DEF TypeInvariant, TypeOK, TypeDaemon
    <2>3. cur'.pid \in {cur.pid, NoPid}
      BY <1>3 DEF ForkStep, DReadBooster, DReaped, ForkFails, Vanish, NoCur
    <2> QED
      BY <1>1, <2>1, <2>2, <2>3, PidFacts DEF Forked
  <1>4. CASE Vanish /\ UNCHANGED bpid
    BY <1>1, <1>4, PidFacts DEF Forked, Vanish, NoCur
  <1>5. CASE DReaped /\ UNCHANGED <<bpid, children, invOf>> /\ cur' = NoCur
    BY <1>1, <1>5, PidFacts DEF Forked, NoCur
  <1>6. ASSUME NEW p \in Pid, DReap(p) \/ DClosed(p) \/ DTerm(p) PROVE Forked'
    <2>1. proc[p] # "unused"
      BY <1>6, LauncherAssumption
         DEF TypeInvariant, Ctl, Forked, DReap, DClosed, DTerm, IsLeast
    <2>2. /\ bpid' = bpid /\ cur'.pid = p /\ children' \subseteq children
          /\ \A r \in Pid : invOf'[r] # NoInv => invOf[r] # NoInv
      BY <1>6
         DEF TypeInvariant, TypeOK, TypeDaemon, DReap, DClosed, DTerm
    <2> QED
      BY <1>1, <2>1, <2>2 DEF Forked
  <1>7. CASE DKillBooster \/ DWaitBooster
    BY <1>1, <1>7, PidFacts
       DEF Forked, DKillBooster, DWaitBooster, bookVars, NoCur
  <1>8. CASE Others
    BY <1>2, <1>8, OthersCtl DEF loopVars, bookVars
  <1>9. CASE DaemonStep \/ DCrash
    <2>1. CASE DReadBooster \/ DReaped
      BY <1>3, <1>4, <1>5, <2>1
         DEF DReadBooster, DReaped, ForkStep, ForkFails
    <2>2. CASE DExit \/ DCrash
      BY <1>4, <2>2 DEF DExit, DCrash
    <2> QED
      BY <1>2, <1>6, <1>7, <1>9, <2>1, <2>2
         DEF DaemonStep, DSelect, DChild, DTerminate, DIgnore, DSwitchMode,
             ReadSignal, DSkip, DStray, DSendExit, DShut, DKillInvoker,
             DWaitInvoker, DHandler, bookVars, loopVars
  <1>10. CASE UNCHANGED vars
    BY <1>2, <1>10 DEF vars, loopVars, bookVars
  <1> QED
    BY <1>8, <1>9, <1>10 DEF Next, Rest, Others

(* What is known of every reachable state so far.                          *)
Base == TypeInvariant /\ Forked

(* Types, control and the daemon's books are in order.                     *)
LEMMA BaseInv == Spec => []Base
  <1>1. Init => Forked
    BY LauncherAssumption, PidFacts DEF Init, Forked, NoCur
  <1> QED
    BY <1>1, TypeCorrect, ForkedInv, PTL DEF Spec, Base

(* Some things do not change back.                                         *)
LEMMA Forever ==
  ASSUME Base, [Next]_vars
  PROVE  /\ raced => raced'
         /\ DaemonUp' => DaemonUp
  <1> USE DEF worldVars, histVars, loopVars, DaemonUp
  <1>1. CASE Others \/ UNCHANGED vars
    <2>1. UNCHANGED raced
      BY <1>1
         DEF Others, BoosterStep, BRestore, BReady, BAccept, BReceive,
             BReceiveFails, BActivate, BLaunch, BDisown, AppExit, BCrash,
             InvokerStep, IConnect, IFallback, ISend, IAck, IPid, IExit,
             IDrain, IClose, ISignal, IDisconnected, IShutTimeout, IKillApp,
             IKillForce, IKilled, IDie, DHandler, OutsideMode, OutsideTerm, vars
    <2>2. UNCHANGED dpc
      BY <1>1, OthersCtl DEF Base, vars
    <2> QED BY <2>1, <2>2
  <1>2. ASSUME NEW p \in Pid, DReap(p)
        PROVE  (raced => raced') /\ (DaemonUp' => DaemonUp)
    <2>1. raced => raced'
      BY <1>2, Zenon DEF DReap
    <2> QED BY <1>2, <2>1 DEF DReap
  <1>3. CASE (DaemonStep \/ DCrash) /\ ~\E p \in Pid : DReap(p)
    BY <1>1, <1>3
       DEF Others, DaemonStep, DSelect, DReadBooster, DChild, DTerminate,
           DIgnore, DSwitchMode, ReadSignal, DSkip, DReaped, DClosed,
           DTerm, DStray, DSendExit, DShut, DKillInvoker, DWaitInvoker, DExit,
           DKillBooster, DWaitBooster, DCrash
  <1> QED
    BY <1>1, <1>2, <1>3 DEF Next, Rest, Others
-----------------------------------------------------------------------------
(* Single instance.                                                        *)

(* The holder of a lock is the process that runs the application.          *)
Locked ==
    \A p \in Pid : Running(p) /\ MustLock(p) => lock[AppOf[conn[p]]] = p

(* The lock changes hands only when its holder is dead.                    *)
LEMMA LockedInv ==
  ASSUME Base, Locked, [Next]_vars
  PROVE  Locked'
  <1>1. ASSUME UNCHANGED lock,
               \A p \in Pid : Running(p)' => Running(p) /\ conn'[p] = conn[p]
        PROVE  Locked'
    BY <1>1 DEF Locked, MustLock
  <1>2. CASE Calm
    BY <1>1, <1>2 DEF Calm, Life, NextState, Running, PreLaunch, Idle, Dead
  <1>3. ASSUME NEW q \in Pid, ForkStep(q) PROVE Locked'
    BY <1>1, <1>3, AlwaysLife
       DEF Base, TypeInvariant, TypeOK, TypeProc, ForkStep, Fork, DReadBooster,
           DReaped, Running
  <1>4. ASSUME NEW p \in Pid, BLaunch(p) PROVE Locked'
    <2>1. \A q \in Pid : Running(q)' => q = p \/ Running(q)
      BY <1>4
         DEF BLaunch, Running, Base, TypeInvariant, TypeOK, TypeProc
    <2>2. UNCHANGED conn
      BY <1>4 DEF BLaunch
    <2>3. CASE ~MustLock(p)
      BY <1>4, <2>1, <2>2, <2>3 DEF BLaunch, Locked, MustLock
    <2>4. CASE MustLock(p)
      <3> DEFINE a == AppOf[conn[p]]
      <3>1. LockFree(a) /\ lock' = [lock EXCEPT ![a] = p]
        BY <1>4, <2>4 DEF BLaunch
      <3>2. a \in App
        BY <2>4, LauncherAssumption DEF MustLock
      <3>3. \A q \in Pid : Running(q) /\ MustLock(q) => AppOf[conn[q]] # a
        BY <3>1 DEF Locked, LockFree, Running, Dead
      <3> QED
        BY <2>1, <2>2, <3>1, <3>2, <3>3
           DEF Locked, MustLock, Base, TypeInvariant, TypeOK, TypeProc
    <2> QED BY <2>3, <2>4
  <1> QED
    BY <1>2, <1>3, <1>4, StepKinds DEF Base

(* An invoker executes the application itself only when nobody listens.    *)
Fallen == \A i \in Invoker : ivk[i] = "fallback" => ~DaemonUp

(* The daemon does not rise from the dead to listen again.                 *)
LEMMA FallenInv ==
  ASSUME Base, Fallen, [Next]_vars
  PROVE  Fallen'
  <1> SUFFICES ASSUME NEW i \in Invoker, ivk'[i] = "fallback", DaemonUp'
               PROVE  FALSE
    BY DEF Fallen
  <1>1. ivk[i] # "fallback" /\ DaemonUp
    BY Forever DEF Fallen
  <1>2. ~IFallback(i)
    BY <1>1 DEF IFallback, Listening
  <1>3. ASSUME NEW j \in Invoker, InvokerStep(j) \/ ISignal(j) \/ IDie(j)
        PROVE  FALSE
    BY <1>1, <1>2, <1>3
       DEF InvokerStep, IConnect, IFallback, ISend, IAck, IPid, IExit, IDrain,
           IClose, IShutTimeout, IDisconnected, IKillApp, IKillForce, IKilled,
           ISignal, IDie, Fails, Base, TypeInvariant, TypeOK, TypeInv
  <1>4. CASE \/ \E p \in Pid : BoosterStep(p) \/ AppExit(p) \/ BCrash(p)
             \/ OutsideMode \/ OutsideTerm \/ UNCHANGED vars
    BY <1>1, <1>4
       DEF BoosterStep, BRestore, BReady, BAccept, BReceive, BReceiveFails,
           BActivate, BLaunch, BDisown, AppExit, BCrash, OutsideMode,
           OutsideTerm, vars, invVars
  <1>5. CASE DaemonStep \/ DCrash
    BY <1>1, <1>5
       DEF DaemonStep, DSelect, DReadBooster, DChild, DTerminate,
           DIgnore, DSwitchMode, ReadSignal, DReap, DSkip, DReaped, DClosed,
           DTerm, DStray, DSendExit, DShut, DKillInvoker, DWaitInvoker, DExit,
           DKillBooster, DWaitBooster, DHandler, DCrash, invVars, Base,
           TypeInvariant, TypeOK, TypeInv
  <1> QED
    BY <1>3, <1>4, <1>5 DEF Next, Rest

(* As long as the daemon lives and has the plugin, neither two of its      *)
(* processes nor a process and an invoker run one application for          *)
(* --single-instance invokers, however many boosters, invokers and         *)
(* applications there are and whatever dies; and when the daemon is dead   *)
(* its processes still keep each other out (Booster::initialize, lock() of *)
(* single-instance/main.cpp, invoke_fallback).                             *)
THEOREM OneLaunchedHolds == Spec => []OneLaunched
  <1>1. Init => Locked /\ Fallen
    BY DEF Init, Locked, Fallen, Running
  <1>2. Base /\ Locked /\ Fallen /\ [Next]_vars => Locked' /\ Fallen'
    BY LockedInv, FallenInv
  <1>3. Locked /\ Fallen => OneLaunched
    BY LauncherAssumption DEF Locked, Fallen, OneLaunched
  <1> QED
    BY <1>1, <1>2, <1>3, BaseInv, PTL DEF Spec
-----------------------------------------------------------------------------
(* Children.                                                               *)

(* A child leaves m_children, or the hands of the loop that buries it, only*)
(* when it is reaped.                                                      *)
LEMMA ChildrenInv ==
  ASSUME Base, NoChildForgotten, [Next]_vars
  PROVE  NoChildForgotten'
  <1> DEFINE Lives(p) == proc[p] \in Alive \cup {"zombie"}
  <1> USE DEF Alive, PreLaunch, Idle, Dead
  <1>1. Life
    BY AlwaysLife DEF Base
  <1>2. ASSUME NEW p \in Pid, proc[p] # "unused", Lives(p)' PROVE Lives(p)
    BY <1>1, <1>2 DEF Life, NextState
  <1>3. ASSUME Calm, DaemonUp' => DaemonUp, UNCHANGED <<children, cur>>
        PROVE  NoChildForgotten'
    BY <1>2, <1>3 DEF NoChildForgotten, Calm
  <1>4. ASSUME dpc' = "dead" PROVE NoChildForgotten'
    BY <1>4 DEF NoChildForgotten, DaemonUp
  <1>5. ASSUME NEW p \in Pid, BLaunch(p) PROVE NoChildForgotten'
    BY <1>2, <1>5
       DEF NoChildForgotten, BLaunch, loopVars, bookVars, Base, TypeInvariant,
           TypeOK, TypeProc, DaemonUp
  <1>6. dpc \in {"reaped", "reap", "closed", "term"} => DaemonUp
    BY DEF DaemonUp
  <1>7. ASSUME DReaped, dpc' # "dead" PROVE NoChildForgotten'
    <2>1. proc[cur.pid] = "reaped" /\ cur' = NoCur /\ DaemonUp
      BY <1>6, <1>7
         DEF DReaped, Base, TypeInvariant, Ctl, ForkFails, Vanish
    <2>2. \/ UNCHANGED <<proc, children>>
          \/ \E q \in Pid : /\ children' = children \cup {q}
                            /\ proc' = [proc EXCEPT ![q] = "forked"]
      BY <1>7 DEF DReaped, ForkFails, Vanish, Fork
    <2> QED
      BY <2>1, <2>2
         DEF NoChildForgotten, Base, TypeInvariant, TypeOK, TypeProc
  <1>8. ASSUME DReadBooster, dpc' # "dead" PROVE NoChildForgotten'
    <2>1. DaemonUp /\ cur' = cur
      BY <1>8 DEF DReadBooster, ForkFails, Vanish, DaemonUp
    <2>2. \E q \in Pid : /\ children' = children \cup {q}
                         /\ proc' = [proc EXCEPT ![q] = "forked"]
      BY <1>8 DEF DReadBooster, ForkFails, Vanish, Fork
    <2> QED
      BY <2>1, <2>2
         DEF NoChildForgotten, Base, TypeInvariant, TypeOK, TypeProc
  <1>9. ASSUME NEW p \in Pid, DReap(p) \/ DClosed(p) \/ DTerm(p)
        PROVE  NoChildForgotten'
    <2>1. cur.pid = NoPid /\ DaemonUp
      BY <1>6, <1>9
         DEF DReap, DClosed, DTerm, Base, TypeInvariant, Ctl, NoCur
    <2>2. /\ children \subseteq children' \cup {p} /\ cur'.pid = p
      BY <1>9 DEF DReap, DClosed, DTerm
    <2>3. \A q \in Pid : Lives(q)' => Lives(q)
      BY <1>2, <1>9
         DEF DReap, DClosed, DTerm, Base, TypeInvariant, TypeOK, TypeProc,
             procVars
    <2> QED
      BY <2>1, <2>2, <2>3, PidFacts DEF NoChildForgotten
  <1>10. ASSUME DKillBooster \/ DWaitBooster PROVE NoChildForgotten'
    <2>1. DaemonUp /\ children' = children
      BY <1>10 DEF DKillBooster, DWaitBooster, bookVars, DaemonUp
    <2>2. cur' = cur \/ proc'[cur.pid] = "reaped"
      BY <1>10
         DEF DKillBooster, DWaitBooster, Base, TypeInvariant, Ctl, TypeOK,
             TypeProc
    <2>3. \A q \in Pid : Lives(q)' => Lives(q)
      <3>1. Calm
        BY <1>10, DaemonCalm
           DEF Base, DaemonStep, DKillBooster, DWaitBooster, bookVars, Fork,
               IsLeast, Unused, Forked
      <3> QED BY <1>2, <3>1 DEF Calm
    <2> QED
      BY <2>1, <2>2, <2>3 DEF NoChildForgotten
  <1>11. CASE DExit \/ DCrash
    BY <1>4, <1>11 DEF DExit, DCrash, Vanish
  <1>12. CASE DReaped \/ DReadBooster
    BY <1>4, <1>7, <1>8, <1>12
  <1>13. CASE Others \/ UNCHANGED vars
    <2>1. UNCHANGED <<loopVars, bookVars>>
      BY <1>13, OthersCtl DEF Base, vars
    <2> QED
      BY <1>3, <1>5, <1>12, <2>1, StepKinds
         DEF Base, loopVars, bookVars, DaemonUp, ForkStep
  <1>14. CASE \/ DSelect \/ DChild \/ DTerminate \/ DIgnore \/ DSwitchMode
              \/ DStray \/ DSendExit \/ DShut \/ DKillInvoker \/ DWaitInvoker
              \/ \E p \in Pid : DSkip(p)
    <2>1. DaemonUp /\ UNCHANGED <<children, cur>>
      BY <1>14
         DEF DSelect, DChild, DTerminate, DIgnore, DSwitchMode, ReadSignal,
             DStray, DSendExit, DShut, DKillInvoker, DWaitInvoker, DSkip,
             bookVars, DaemonUp
    <2> QED
      BY <1>3, <1>5, <1>12, <2>1, StepKinds DEF Base, ForkStep
  <1> QED
    BY <1>9, <1>10, <1>11, <1>12, <1>13, <1>14
       DEF Next, Rest, Others, DaemonStep

(* No child of the daemon escapes it: while the daemon lives, every process*)
(* it has forked and not reaped is in m_children, or it is the one whose   *)
(* invoker the daemon is closing (Daemon::reapZombies, Daemon::run).       *)
THEOREM NoChildForgottenHolds == Spec => []NoChildForgotten
  <1>1. Init => NoChildForgotten
    BY DEF Init, NoChildForgotten, Alive, PreLaunch, Idle
  <1>2. Base /\ NoChildForgotten /\ [Next]_vars => NoChildForgotten'
    BY ChildrenInv
  <1> QED
    BY <1>1, <1>2, BaseInv, PTL DEF Spec

(* When the daemon ends its loop over m_children at SIGTERM, nothing it    *)
(* launched runs any more (the case SIGTERM of Daemon::run).               *)
THEOREM StopsEverythingHolds == Spec => StopsEverything
  <1> DEFINE Goal == dpc = "term" /\ dpc' = "dead" /\ faults' = faults
                        => \A p \in Pid : proc'[p] \in Dead \cup {"unused"}
  <1>1. ASSUME Base, NoChildForgotten, [Next]_vars PROVE [Goal]_vars
    <2> SUFFICES ASSUME dpc = "term", dpc' = "dead", faults' = faults
                 PROVE  \A p \in Pid : proc'[p] \in Dead \cup {"unused"}
      OBVIOUS
    <2>1. DExit
      <3>1. faults \in Nat
        BY <1>1 DEF Base, TypeInvariant, TypeOK, TypeWorld
      <3>2. ~DCrash
        BY <3>1 DEF DCrash, Fault
      <3>3. ~Others /\ ~UNCHANGED vars
        BY <1>1, OthersCtl DEF Base, loopVars, vars
      <3> QED
        BY <1>1, <3>2, <3>3
           DEF Next, Rest, Others, DaemonStep, DSelect, DReadBooster, DChild,
               DTerminate, DIgnore, DSwitchMode, ReadSignal, DReap, DSkip,
               DReaped, DClosed, DTerm, DStray, DSendExit, DShut,
               DKillInvoker, DWaitInvoker, DKillBooster, DWaitBooster
    <2>2. \A p \in Pid : proc[p] \in Dead \cup {"unused"}
      <3>1. children = {} /\ cur.pid = NoPid /\ DaemonUp
        BY <1>1, <2>1 DEF DExit, DaemonUp, Base, TypeInvariant, Ctl, NoCur
      <3> QED
        BY <1>1, <3>1, PidFacts
           DEF NoChildForgotten, Base, TypeInvariant, TypeOK, TypeProc,
               ProcState, Dead
    <2> QED
      BY <2>1, <2>2 DEF DExit, Vanish, Armed, Idle, Dead
  <1> QED
    BY <1>1, BaseInv, NoChildForgottenHolds, PTL DEF Spec, StopsEverything
-----------------------------------------------------------------------------
(* Who belongs together.                                                   *)

(* Launches are one at a time: only the current booster can launch, its    *)
(* datagram is the only one that can be on the way, and the daemon does    *)
(* not reap the booster before it has read that.                           *)
OnlyBooster == \A p \in Pid : proc[p] \in PreLaunch => p = bpid
OneDatagram ==
    /\ Len(dgrams) <= 1
    /\ dgrams # <<>> => /\ dgrams[1].from = bpid /\ Launched(bpid)
                        /\ dgrams[1].inv \in {NoInv, conn[bpid]}
TableRight ==
    \A p \in Pid : invOf[p] # NoInv => invOf[p] = conn[p] /\ Launched(p)
BurialRight ==
    cur.inv # NoInv => cur.inv = conn[cur.pid] /\ Launched(cur.pid)
ReadFirst == cur.why = "reap" /\ cur.pid = bpid => dgrams = <<>>
(* What a change of mode relies on: the daemon does not know of a launch   *)
(* only as long as the datagram is on its way.                             *)
UnreadLaunch == DaemonUp /\ Running(bpid) => dgrams # <<>>

Paired == ~raced => /\ OnlyBooster /\ OneDatagram /\ TableRight
                    /\ BurialRight /\ ReadFirst /\ UnreadLaunch

(* A burial is that of a process.                                          *)
LEMMA CurPid ==
  ASSUME Base, cur.inv # NoInv \/ cur.why = "reap"
  PROVE  cur.pid \in Pid
  BY DEF Base, TypeInvariant, TypeOK, TypeDaemon, Ctl, DaemonState, NoCur

(* A process that has launched stays that way and keeps its connection.    *)
LEMMA LaunchedStays ==
  ASSUME Base, [Next]_vars, NEW p \in Pid, Launched(p)
  PROVE  Launched(p)' /\ conn'[p] = conn[p]
  BY AlwaysLife DEF Base, Life, NextState, Launched, PreLaunch, Idle, Dead

(* Calm steps that change none of the books keep the pairs.                *)
LEMMA PairedCalm ==
  ASSUME Base, Paired, [Next]_vars, Calm, raced => raced',
         UNCHANGED <<dgrams, invOf>>, cur' \in {cur, NoCur},
         DaemonUp' => DaemonUp
  PROVE  Paired'
  <1> SUFFICES ASSUME ~raced PROVE Paired'
    BY DEF Paired
  <1>1. bpid \in Pid /\ bpid' = bpid
    BY DEF Base, TypeInvariant, TypeOK, TypeDaemon, Calm
  <1>2. \A p \in Pid : /\ proc'[p] \in PreLaunch => proc[p] \in PreLaunch
                       /\ Running(p)' => Running(p)
    BY DEF Calm, Life, NextState, Running, PreLaunch, Idle, Dead
  <1>3. \A p \in Pid : Launched(p) => Launched(p)' /\ conn'[p] = conn[p]
    BY LaunchedStays
  <1>4. OneDatagram'
    BY <1>1, <1>3 DEF Paired, OneDatagram, Launched
  <1>5. BurialRight'
    BY <1>3, CurPid DEF Paired, BurialRight, Launched, NoCur
  <1>6. UnreadLaunch'
    BY <1>1, <1>2 DEF Paired, UnreadLaunch, Running
  <1>7. OnlyBooster' /\ TableRight'
    BY <1>1, <1>2, <1>3 DEF Paired, OnlyBooster, TableRight, Launched
  <1>8. ReadFirst'
    BY <1>1 DEF Paired, ReadFirst, NoCur
  <1> QED
    BY <1>4, <1>5, <1>6, <1>7, <1>8 DEF Paired

(* The daemon takes an invoker out of its books to bury it.                *)
LEMMA PairedBury ==
  ASSUME Base, Paired, [Next]_vars, NEW p \in Pid,
         DReap(p) \/ DClosed(p) \/ DTerm(p)
  PROVE  Paired'
  <1> SUFFICES ASSUME ~raced' PROVE Paired'
    BY DEF Paired
  <1>1. ~raced
    BY Zenon DEF DReap, DClosed, DTerm, worldVars, histVars
  <1>2. UNCHANGED <<dgrams, bpid, conn>>
    BY DEF DReap, DClosed, DTerm, sockVars, procVars
  <1>3. bpid \in Pid /\ invOf \in [Pid -> InvOrNone] /\ dgrams \in Seq(Datagram)
    BY DEF Base, TypeInvariant, TypeOK, TypeDaemon, TypeSock
  <1>4. \A q \in Pid : /\ proc'[q] \in PreLaunch => proc[q] \in PreLaunch
                       /\ Running(q)' => Running(q)
    BY DEF DReap, DClosed, DTerm, procVars, Base, TypeInvariant, TypeOK,
           TypeProc, Running, PreLaunch, Idle
  <1>5. /\ invOf' = [invOf EXCEPT ![p] = NoInv]
        /\ cur'.pid = p /\ cur'.inv = invOf[p]
    BY DEF DReap, DClosed, DTerm
  <1>6. DaemonUp
    BY DEF DReap, DClosed, DTerm, DaemonUp
  <1>7. cur'.why = "reap" /\ p = bpid => dgrams = <<>>
    <2>1. CASE DReap(p)
      <3>1. p = bpid => ~InFlight(p)
        BY <2>1 DEF DReap
      <3>2. dgrams # <<>> => 1 \in DOMAIN dgrams
        BY <1>3
      <3> QED
        BY <1>1, <1>2, <3>1, <3>2 DEF InFlight, Paired, OneDatagram
    <2>2. CASE DClosed(p) \/ DTerm(p)
      BY <2>2 DEF DClosed, DTerm
    <2> QED BY <2>1, <2>2
  <1>8. \A q \in Pid : Launched(q) => Launched(q)' /\ conn'[q] = conn[q]
    BY LaunchedStays
  <1>9. OneDatagram'
    BY <1>1, <1>2, <1>3, <1>8 DEF Paired, OneDatagram, Launched
  <1>10. TableRight'
    BY <1>1, <1>3, <1>5, <1>8 DEF Paired, TableRight, Launched
  <1>11. BurialRight'
    BY <1>1, <1>5, <1>8 DEF Paired, TableRight, BurialRight, Launched
  <1>12. UnreadLaunch'
    BY <1>1, <1>2, <1>3, <1>4, <1>6 DEF Paired, UnreadLaunch, Running
  <1>13. OnlyBooster' /\ ReadFirst'
    BY <1>1, <1>2, <1>4, <1>5, <1>7 DEF Paired, OnlyBooster, ReadFirst
  <1> QED
    BY <1>9, <1>10, <1>11, <1>12, <1>13 DEF Paired

(* A launch is always by the current booster, and after the daemon has read*)
(* about all earlier ones.                                                 *)
LEMMA PairedLaunch ==
  ASSUME Base, Paired, [Next]_vars, NEW p \in Pid, BLaunch(p)
  PROVE  Paired'
  <1> SUFFICES ASSUME ~raced PROVE Paired'
    BY DEF Paired, BLaunch, worldVars, histVars
  <1>1. UNCHANGED <<conn, bpid, invOf, cur, raced, dpc>> /\ bpid \in Pid
    BY DEF BLaunch, bookVars, loopVars, worldVars, histVars, Base,
           TypeInvariant, TypeOK, TypeDaemon
  <1>2. p = bpid /\ dgrams = <<>>
    BY DEF BLaunch, Paired, OnlyBooster, OneDatagram, Launched, PreLaunch, Idle
  <1>3. proc' = [proc EXCEPT ![p] = "handing"] /\ proc \in [Pid -> ProcState]
    BY DEF BLaunch, Base, TypeInvariant, TypeOK, TypeProc
  <1>4. ~(cur.why = "reap" /\ cur.pid = bpid)
    BY <1>2 DEF BLaunch, Base, TypeInvariant, Ctl
  <1>5. \/ ~DaemonUp /\ dgrams' = <<>>
        \/ DaemonUp /\ \E d : /\ d.from = p /\ d.inv \in {NoInv, conn[p]}
                              /\ dgrams' = <<d>>
    BY <1>2 DEF BLaunch
  <1>6. /\ Len(dgrams') <= 1
        /\ dgrams' # <<>> => /\ dgrams'[1].from = bpid
                             /\ dgrams'[1].inv \in {NoInv, conn[bpid]}
        /\ DaemonUp => dgrams' # <<>>
    <2>1. CASE dgrams' = <<>>
      BY <1>5, <2>1
    <2>2. ASSUME NEW d, d.from = p, d.inv \in {NoInv, conn[p]}, dgrams' = <<d>>
          PROVE  /\ Len(dgrams') <= 1 /\ dgrams' # <<>>
                 /\ dgrams'[1].from = p
                 /\ dgrams'[1].inv \in {NoInv, conn[p]}
      BY <2>2
    <2> QED BY <1>2, <1>5, <2>1, <2>2
  <1>7. \A q \in Pid : proc'[q] \in PreLaunch => proc[q] \in PreLaunch
    BY <1>3 DEF PreLaunch, Idle
  <1>8. Launched(p)'
    BY <1>3 DEF Launched, PreLaunch, Idle
  <1> QED
    BY <1>1, <1>2, <1>4, <1>6, <1>7, <1>8, CurPid, LaunchedStays
       DEF Paired, OnlyBooster, OneDatagram, TableRight, BurialRight, ReadFirst,
           UnreadLaunch, DaemonUp

(* After the daemon has forked, everything is about the new booster.       *)
LEMMA PairedFork ==
  ASSUME Base, Paired, [Next]_vars, NEW q \in Pid, ForkStep(q), ~ForkFails
  PROVE  Paired'
  <1> SUFFICES ASSUME ~raced PROVE Paired'
    BY DEF Paired, ForkStep, DReadBooster, DReaped, worldVars, histVars
  <1>1. /\ proc[q] = "unused" /\ proc' = [proc EXCEPT ![q] = "forked"]
        /\ bpid' = q /\ bpid \in Pid /\ proc \in [Pid -> ProcState]
        /\ UNCHANGED conn
    BY DEF ForkStep, IsLeast, Unused, Fork, DReadBooster, DReaped, Base,
           TypeInvariant, TypeOK, TypeDaemon, TypeProc
  <1>2. bpid # q
    BY <1>1 DEF Base, Forked
  <1>3. ~(Running(q)') /\ ~Launched(q)
    BY <1>1 DEF Running, Launched
  <1>4. CASE DReadBooster
    <2>1. dgrams # <<>> /\ dgrams \in Seq(Datagram)
      BY <1>4 DEF DReadBooster, Base, TypeInvariant, TypeOK, TypeSock, Ctl
    <2>2. Head(dgrams) = dgrams[1] /\ Tail(dgrams) = <<>>
      BY <2>1 DEF Paired, OneDatagram
    <2>3. /\ invOf' = [invOf EXCEPT ![bpid] = IF dgrams[1].inv # NoInv
                                              THEN dgrams[1].inv ELSE @]
          /\ dgrams' = <<>> /\ cur' = cur /\ invOf \in [Pid -> InvOrNone]
      BY <1>4, <2>2
         DEF DReadBooster, Base, TypeInvariant, TypeOK, TypeDaemon
    <2>4. cur = NoCur
      BY <1>4 DEF DReadBooster, Base, TypeInvariant, Ctl
    <2>5. \A p \in Pid : proc'[p] \in PreLaunch => p = q
      BY <1>1, <2>1 DEF Paired, OnlyBooster, OneDatagram, Launched
    <2>6. \A p \in Pid : invOf'[p] # NoInv => invOf'[p] = conn[p] /\ Launched(p)
      BY <2>1, <2>3 DEF Paired, OneDatagram, TableRight
    <2> QED
      BY <1>1, <1>3, <2>3, <2>4, <2>5, <2>6, LaunchedStays
         DEF Paired, OnlyBooster, OneDatagram, TableRight, BurialRight,
             ReadFirst, UnreadLaunch, NoCur
  <1>5. CASE DReaped
    <2>1. cur.why = "reap" /\ cur.pid = bpid /\ proc[bpid] = "reaped"
      BY <1>1, <1>2, <1>5
         DEF DReaped, IsBooster, Base, TypeInvariant, Ctl
    <2>2. dgrams = <<>> /\ dgrams' = <<>> /\ cur' = NoCur /\ invOf' = invOf
      BY <1>5, <2>1 DEF DReaped, Paired, ReadFirst
    <2>3. \A p \in Pid : proc'[p] \in PreLaunch => p = q
      BY <1>1, <2>1 DEF Paired, OnlyBooster, PreLaunch, Idle
    <2> QED
      BY <1>1, <1>3, <2>2, <2>3, LaunchedStays
         DEF Paired, OnlyBooster, OneDatagram, TableRight, BurialRight,
             ReadFirst, UnreadLaunch, NoCur
  <1> QED
    BY <1>4, <1>5 DEF ForkStep

(* When the daemon is gone there are no books left to be wrong.            *)
LEMMA PairedVanish ==
  ASSUME Base, Paired, Vanish, UNCHANGED <<conn, lock, bpid, boot, raced>>
  PROVE  Paired'
  <1> SUFFICES ASSUME ~raced PROVE Paired'
    BY DEF Paired
  <1>1. \A p \in Pid : proc'[p] \in PreLaunch => proc[p] \in PreLaunch
    BY DEF Vanish, Base, TypeInvariant, TypeOK, TypeProc, PreLaunch, Idle
  <1>2. OnlyBooster'
    BY <1>1 DEF Paired, OnlyBooster
  <1>3. OneDatagram' /\ TableRight' /\ ReadFirst'
    BY DEF Vanish, OneDatagram, TableRight, ReadFirst
  <1>4. BurialRight' /\ UnreadLaunch'
    BY DEF Vanish, NoCur, BurialRight, UnreadLaunch, DaemonUp
  <1> QED
    BY <1>2, <1>3, <1>4 DEF Paired

(* Every step keeps the pairs: it is a launch, a fork, a burial, the end of*)
(* the daemon, or none of the books is about it.                           *)
LEMMA PairedInv ==
  ASSUME Base, Paired, [Next]_vars
  PROVE  Paired'
  <1> DEFINE Books == /\ UNCHANGED <<dgrams, invOf>> /\ cur' \in {cur, NoCur}
                      /\ raced' = raced /\ (DaemonUp' => DaemonUp)
  <1>1. ASSUME NEW p \in Pid, BLaunch(p) PROVE Paired'
    BY <1>1, PairedLaunch
  <1>2. ASSUME NEW p \in Pid, DReap(p) \/ DClosed(p) \/ DTerm(p) PROVE Paired'
    BY <1>2, PairedBury
  <1>3. CASE \/ DExit \/ DCrash
             \/ (DReadBooster \/ DReaped) /\ ForkFails
    BY <1>3, PairedVanish
       DEF DExit, DCrash, DReadBooster, DReaped, ForkFails, worldVars, histVars
  <1>4. ASSUME NEW q \in Pid, ForkStep(q) PROVE Paired'
    BY <1>3, <1>4, PairedFork DEF ForkStep
  <1>5. CASE Books
    <2>1. CASE Calm
      <3>1. raced => raced'
        BY <1>5
      <3> QED
        BY <1>5, <2>1, <3>1, PairedCalm
    <2> QED
      BY <1>1, <1>4, <2>1, StepKinds DEF Base
  <1>6. ASSUME Others, ~\E p \in Pid : BLaunch(p) PROVE Books
    <2>1. UNCHANGED <<loopVars, bookVars>>
      BY <1>6, OthersCtl DEF Base
    <2>2. UNCHANGED <<dgrams, raced>>
      BY <1>6
         DEF Others, BoosterStep, BRestore, BReady, BAccept, BReceive,
             BReceiveFails, BActivate, BDisown, AppExit, BCrash, InvokerStep,
             IConnect, IFallback, ISend, IAck, IPid, IExit, ISignal,
             IDrain, IClose, IDisconnected, IShutTimeout, IKillApp, IKillForce,
             IKilled, IDie,
             DHandler, OutsideMode, OutsideTerm, sockVars, worldVars, histVars
    <2> QED
      BY <2>1, <2>2 DEF loopVars, bookVars, DaemonUp
  <1>7. ASSUME \/ DSelect \/ DChild \/ DTerminate \/ DIgnore \/ DSwitchMode
               \/ DStray \/ DSendExit \/ DShut \/ DKillInvoker
               \/ DWaitInvoker \/ DKillBooster \/ DWaitBooster
               \/ \E p \in Pid : DSkip(p)
               \/ DReaped /\ ~IsBooster(cur.pid)
        PROVE  Books
    BY <1>7
       DEF DSelect, DChild, DTerminate, DIgnore, DSwitchMode, ReadSignal,
           DStray, DSendExit, DShut, DKillInvoker, DWaitInvoker, DKillBooster,
           DWaitBooster, DSkip, DReaped, DaemonUp, sockVars, bookVars,
           worldVars, histVars
  <1>8. CASE UNCHANGED vars
    BY <1>5, <1>8
       DEF vars, sockVars, loopVars, bookVars, worldVars, histVars, DaemonUp
  <1>9. CASE Others
    BY <1>1, <1>5, <1>6, <1>9
  <1>10. CASE DReadBooster \/ DReaped
    BY <1>3, <1>4, <1>5, <1>7, <1>10 DEF DReadBooster, DReaped, ForkStep
  <1>11. CASE DaemonStep
    BY <1>2, <1>3, <1>5, <1>7, <1>9, <1>10, <1>11 DEF DaemonStep, Others
  <1>12. CASE DCrash
    BY <1>3, <1>12
  <1> QED
    BY <1>8, <1>9, <1>11, <1>12 DEF Next, Rest, Others

(* The pairs are right in every reachable state.                           *)
LEMMA PairedAlways == Spec => []Paired
  <1>1. Init => Paired
    BY PidFacts
       DEF Init, Paired, OnlyBooster, OneDatagram, TableRight, BurialRight,
           ReadFirst, UnreadLaunch, Running, PreLaunch, Idle, NoCur
  <1> QED
    BY <1>1, PairedInv, BaseInv, PTL DEF Spec

(* The daemon never tells an invoker about, or kills with it, a process    *)
(* that serves another invoker, as long as no booster is reaped before its *)
(* datagram is read (readFromBoosterSocket, close_invoker).                *)
THEOREM MapFaithfulHolds == Spec => []MapFaithful
  <1>1. Base /\ Paired => MapFaithful
    BY DEF Base, TypeInvariant, TypeOK, TypeDaemon, Paired, TableRight,
           BurialRight, MapFaithful, InvOrNone
  <1> QED
    BY <1>1, BaseInv, PairedAlways, PTL

(* Under the same condition there are never two boosters that could accept *)
(* an invoker (Daemon::forkBooster).                                       *)
THEOREM OneBoosterHolds == Spec => []OneBooster
  <1>1. Paired => OneBooster
    BY DEF Paired, OnlyBooster, OneBooster
  <1> QED
    BY <1>1, PairedAlways, PTL
-----------------------------------------------------------------------------
(* Changes of mode.                                                        *)

(* A change of mode kills a process that has launched an application only  *)
(* in the window in which the daemon has not read about the launch         *)
(* (Daemon::killBoosters, m_boosterPid).                                   *)
THEOREM SwitchSparesAppsHolds == Spec => SwitchSparesApps
  <1> DEFINE Goal == bootMode' # bootMode /\ ~raced
                       => \A p \in Pid :
                            Running(p) => Running(p)' \/ InFlight(p)
  <1>1. ASSUME Base, Paired, [Next]_vars PROVE [Goal]_vars
    <2> SUFFICES ASSUME bootMode' # bootMode, ~raced, NEW p \in Pid, Running(p)
                 PROVE  Running(p)' \/ InFlight(p)
      OBVIOUS
    <2>1. DSwitchMode
      <3>1. ~Others /\ ~UNCHANGED vars
        BY <1>1, OthersCtl DEF Base, bookVars, vars
      <3> QED
        BY <1>1, <3>1
           DEF Next, Rest, Others, DaemonStep, DSelect, DReadBooster, DChild,
               DTerminate, DIgnore, ReadSignal, DReap, DSkip, DReaped, DClosed,
               DTerm, DStray, DSendExit, DShut, DKillInvoker, DWaitInvoker,
               DKillBooster, DWaitBooster, DExit, DCrash, bookVars
    <2>2. CASE p = bpid
      <3>1. dgrams # <<>> /\ dgrams[1].from = p /\ dgrams \in Seq(Datagram)
        BY <1>1, <2>1, <2>2
           DEF DSwitchMode, ReadSignal, DaemonUp, Paired, UnreadLaunch,
               OneDatagram, Base, TypeInvariant, TypeOK, TypeSock
      <3>2. 1 \in DOMAIN dgrams
        BY <3>1
      <3> QED
        BY <3>1, <3>2 DEF InFlight
    <2>3. CASE p # bpid
      <3>1. proc'[p] = proc[p]
        BY <1>1, <2>1, <2>3, TerminateLife
           DEF DSwitchMode, ReadSignal, KillBoosters, Base, TypeInvariant
      <3> QED BY <3>1 DEF Running
    <2> QED BY <2>2, <2>3
  <1> QED
    BY <1>1, BaseInv, PairedAlways, PTL DEF Spec, SwitchSparesApps

(* A SIGTERM that has arrived waits in the pipe until it is read.          *)
Waits(s) == \E k \in DOMAIN s : s[k] = "TERM"

(* Writing to the pipe, and reading another signal, leave it there.        *)
LEMMA TermWaits ==
  ASSUME NEW s \in Seq(Signals), Waits(s)
  PROVE  /\ \A m \in Signals : Waits(Append(s, m))
         /\ Head(s) # "TERM" => Waits(Tail(s))
  <1>1. PICK k \in DOMAIN s : s[k] = "TERM"
    BY DEF Waits
  <1>2. ASSUME NEW m \in Signals PROVE Waits(Append(s, m))
    BY <1>1 DEF Waits
  <1>3. ASSUME Head(s) # "TERM" PROVE Waits(Tail(s))
    <2>1. k # 1 /\ k \in 1 .. Len(s)
      BY <1>1, <1>3
    <2>2. k - 1 \in DOMAIN Tail(s) /\ Tail(s)[k - 1] = s[k]
      BY <2>1
    <2> QED BY <1>1, <2>2 DEF Waits
  <1> QED BY <1>2, <1>3

(* A daemon that has begun to stop stops.                                  *)
LEMMA KeepsStopping ==
  ASSUME Base, Stopping, [Next]_vars, DaemonUp'
  PROVE  Stopping'
  <1>1. Stopping <=> dpc = "term" \/ cur.why = "term" \/ Waits(pipe)
    BY DEF Stopping, Waits
  <1>2. Stopping' <=> dpc' = "term" \/ cur'.why = "term" \/ Waits(pipe')
    BY DEF Stopping, Waits
  <1>3. dpc' # "dead" /\ ~DExit /\ ~DCrash /\ ~(DReadBooster /\ ForkFails)
          /\ ~(DReaped /\ ForkFails)
    BY DEF DaemonUp, DExit, DCrash, ForkFails, Vanish
  <1>4. CASE dpc = "term"
    <2>1. CASE Others \/ UNCHANGED vars
      BY <1>2, <1>4, <2>1, OthersCtl DEF Base, loopVars, vars
    <2>2. CASE \E p \in Pid : DTerm(p)
      BY <1>2, <2>2 DEF DTerm
    <2> QED
      BY <1>3, <1>4, <2>1, <2>2
         DEF Next, Rest, Others, DaemonStep, DSelect, DReadBooster, DChild,
             DTerminate, DIgnore, DSwitchMode, ReadSignal, DReap, DSkip,
             DReaped, DClosed, DStray, DSendExit, DShut, DKillInvoker,
             DWaitInvoker, DKillBooster, DWaitBooster
  <1>5. CASE cur.why = "term"
    <2>1. dpc \in {"close", "shut", "killIvk", "waitIvk", "killBst", "waitBst"}
      BY <1>5
         DEF Base, TypeInvariant, TypeOK, TypeDaemon, DaemonState, Ctl, NoCur
    <2>2. CASE Others \/ UNCHANGED vars
      BY <1>2, <1>5, <2>2, OthersCtl DEF Base, loopVars, vars
    <2>3. CASE DSendExit \/ DShut \/ DKillInvoker \/ DWaitInvoker
      BY <1>2, <1>5, <2>3 DEF DSendExit, DShut, DKillInvoker, DWaitInvoker
    <2>4. CASE DKillBooster \/ DWaitBooster
      BY <1>2, <1>5, <2>4 DEF DKillBooster, DWaitBooster, AfterBooster
    <2> QED
      BY <1>3, <2>1, <2>2, <2>3, <2>4
         DEF Next, Rest, Others, DaemonStep, DSelect, DReadBooster, DChild,
             DTerminate, DIgnore, DSwitchMode, ReadSignal, DReap, DSkip,
             DReaped, DClosed, DTerm, DStray
  <1>6. CASE Waits(pipe)
    <2>1. pipe \in Seq(Signals) /\ "TERM" \in Signals
      BY DEF Base, TypeInvariant, TypeOK, TypeDaemon, Signals
    <2>2. ASSUME NEW S, ReadSignal(S), Head(pipe) # "TERM"
          PROVE  Waits(Tail(pipe)) /\ Tail(pipe) \in Seq(Signals)
      BY <1>6, <2>1, <2>2, TermWaits, SeqFacts
         DEF ReadSignal, Base, TypeInvariant, Ctl
    <2>3. CASE DTerminate
      BY <1>2, <2>3 DEF DTerminate
    <2>4. CASE DChild \/ DIgnore
      BY <1>2, <2>2, <2>4 DEF DChild, DIgnore, ReadSignal
    <2>5. CASE DSwitchMode
      <3>1. Waits(Tail(pipe)) /\ Tail(pipe) \in Seq(Signals)
        BY <2>2, <2>5 DEF DSwitchMode, ReadSignal
      <3>2. pipe' = Tail(pipe) \/ pipe' = Append(Tail(pipe), "TERM")
        BY <2>5 DEF DSwitchMode, KillBoosters, Terminate
      <3> QED
        BY <1>2, <2>1, <3>1, <3>2, TermWaits
    <2>6. CASE pipe' = pipe \/ \E m \in Signals : pipe' = Append(pipe, m)
      BY <1>2, <1>6, <2>1, <2>6, TermWaits
    <2>7. CASE \E i \in Invoker : IKillApp(i)
      BY <2>1, <2>6, <2>7 DEF IKillApp, Terminate
    <2>8. CASE DKillBooster
      BY <2>1, <2>6, <2>8 DEF DKillBooster, Terminate
    <2>9. CASE UNCHANGED vars
      BY <2>6, <2>9 DEF vars, sigVars
    <2>10. ASSUME DaemonStep PROVE Stopping'
      BY <1>3, <2>3, <2>4, <2>5, <2>6, <2>8, <2>10
         DEF DaemonStep, DSelect, DReadBooster, DReap, DSkip, DReaped,
             DClosed, DTerm, DStray, DSendExit, DShut, DKillInvoker,
             DWaitInvoker, DWaitBooster, DHandler, sigVars
    <2>11. ASSUME NEW p \in Pid, BoosterStep(p) \/ AppExit(p) \/ BCrash(p)
           PROVE  Stopping'
      BY <2>6, <2>11
         DEF BoosterStep, BRestore, BReady, BAccept, BReceive, BReceiveFails,
             BActivate, BLaunch, BDisown, AppExit, BCrash, sigVars
    <2>12. ASSUME NEW i \in Invoker, InvokerStep(i) \/ ISignal(i) \/ IDie(i)
           PROVE  Stopping'
      BY <2>6, <2>7, <2>12
         DEF InvokerStep, IConnect, IFallback, ISend, IAck, IPid, IExit,
             IDrain, IClose, ISignal, IDisconnected, IShutTimeout, IKillForce,
             IKilled, IDie,
             sigVars
    <2>13. CASE OutsideMode \/ OutsideTerm
      BY <2>6, <2>13 DEF OutsideMode, OutsideTerm
    <2> QED
      BY <1>3, <2>9, <2>10, <2>11, <2>12, <2>13 DEF Next, Rest
  <1> QED
    BY <1>1, <1>4, <1>5, <1>6

(* A change of mode restarts the booster, and a booster is forked in the   *)
(* mode the daemon is in.                                                  *)
LEMMA IdleInv ==
  ASSUME Base, Paired, Paired', IdleBoosterMode, [Next]_vars
  PROVE  IdleBoosterMode'
  <1> SUFFICES ASSUME ~raced', DaemonUp', ~Stopping',
                      NEW p \in Pid, proc'[p] \in PreLaunch
               PROVE  boot'[p] = bootMode'
    BY DEF IdleBoosterMode
  <1>1. proc[p] \in PreLaunch => boot[p] = bootMode
    BY Forever, KeepsStopping DEF IdleBoosterMode
  <1>2. CASE DSwitchMode
    <2>1. p = bpid
      BY <1>2 DEF DSwitchMode, ReadSignal, Paired, OnlyBooster
    <2>2. Terminate(p, Tail(pipe)) /\ DaemonUp
      BY <1>2, <2>1 DEF DSwitchMode, ReadSignal, KillBoosters, DaemonUp
    <2>3. CASE proc[p] = "forked" /\ pipe' = Append(Tail(pipe), "TERM")
      <3>1. Tail(pipe) \in Seq(Signals) /\ "TERM" \in Signals
        BY <1>2, SeqFacts
           DEF DSwitchMode, ReadSignal, Base, TypeInvariant, TypeOK, TypeDaemon,
               Ctl, Signals
      <3>2. Waits(pipe')
        <4>1. Len(pipe') \in DOMAIN pipe' /\ pipe'[Len(pipe')] = "TERM"
          BY <2>3, <3>1
        <4> QED BY <4>1 DEF Waits
      <3> QED BY <3>2 DEF Waits, Stopping
    <2>4. CASE proc'[p] \notin PreLaunch
      BY <2>4
    <2> QED
      BY <2>2, <2>3, <2>4
         DEF Terminate, Die, Armed, PreLaunch, Idle, Dead, Base, TypeInvariant,
             TypeOK, TypeProc
  <1>3. ASSUME ~DSwitchMode PROVE bootMode' = bootMode
    <2>1. CASE Others \/ UNCHANGED vars
      BY <2>1, OthersCtl DEF Base, bookVars, vars
    <2>2. CASE DaemonStep \/ DCrash
      BY <1>3, <2>1, <2>2
         DEF Others, DaemonStep, DSelect, DReadBooster, DChild, DTerminate,
             DIgnore, ReadSignal, DReap, DSkip, DReaped, DClosed, DTerm, DStray,
             DSendExit, DShut, DKillInvoker, DWaitInvoker, DExit, DKillBooster,
             DWaitBooster, DCrash, bookVars
    <2> QED
      BY <2>1, <2>2 DEF Next, Rest, Others
  <1>4. CASE ~DSwitchMode
    <2>1. CASE Calm
      BY <1>1, <1>3, <1>4, <2>1
         DEF Calm, Life, NextState, PreLaunch, Idle, Dead
    <2>2. ASSUME NEW q \in Pid, BLaunch(q) PROVE boot'[p] = bootMode'
      BY <1>1, <1>3, <1>4, <2>2
         DEF BLaunch, Base, TypeInvariant, TypeOK, TypeProc, PreLaunch, Idle
    <2>3. ASSUME NEW q \in Pid, ForkStep(q) PROVE boot'[p] = bootMode'
      <3>1. /\ proc' = [proc EXCEPT ![q] = "forked"]
            /\ boot' = [boot EXCEPT ![q] = bootMode]
        BY <2>3 DEF ForkStep, Fork
      <3>2. boot \in [Pid -> BOOLEAN] /\ proc \in [Pid -> ProcState]
        BY DEF Base, TypeInvariant, TypeOK, TypeProc
      <3>3. CASE p = q
        <4>1. boot'[p] = bootMode
          BY <3>1, <3>2, <3>3, Zenon
        <4> QED BY <1>3, <1>4, <4>1
      <3>4. CASE p # q
        BY <1>1, <1>3, <1>4, <3>1, <3>2, <3>4
      <3> QED BY <3>3, <3>4
    <2> QED
      BY <2>1, <2>2, <2>3, StepKinds DEF Base
  <1> QED BY <1>2, <1>4

(* Unless the daemon is stopping or a booster was reaped too early, an idle*)
(* booster is in the mode the daemon is in (Daemon::enterNormalMode,       *)
(* Daemon::enterBootMode, Daemon::forkBooster).                            *)
THEOREM IdleBoosterModeHolds == Spec => []IdleBoosterMode
  <1>1. Init => IdleBoosterMode
    BY DEF Init, IdleBoosterMode
  <1>2. Base /\ Paired /\ Paired' /\ IdleBoosterMode /\ [Next]_vars
          => IdleBoosterMode'
    BY IdleInv
  <1> QED
    BY <1>1, <1>2, BaseInv, PairedAlways, PTL DEF Spec
=============================================================================
