---------------------------- MODULE AppMotorInvokers ----------------------------
(***************************************************************************)
(* Whom an invoker would kill and what it is told: PidIsOwn and            *)
(* ExitFaithful, for every instance of AppMotor.                           *)
(*                                                                         *)
(* A booster that has sent an invoker its pid serves that invoker until it *)
(* dies, or, asked for a single instance, closes the connection.  So what  *)
(* has to be known is which messages are where, and who holds a connection.*)
(***************************************************************************)
EXTENDS AppMotorProofs

(* What an invoker has read so far, and what type the nth message has.     *)
Early(i)   == ivk[i] \in {"start", "connected", "sent", "fallback"}
Read(i)    == IF Early(i) THEN 0 ELSE IF ivk[i] = "acked" THEN 1 ELSE 2
Nth(n)     == IF n = 1 THEN "ACK" ELSE IF n = 2 THEN "PID" ELSE "EXIT"
Talking(i) == ivk[i] \in {"start", "connected", "sent", "acked", "waiting"}

(* The acknowledgement and the pid have been written.                      *)
Introduced(i) == Len(dn[i]) + Read(i) >= 2

(* Nobody has begun to answer the invoker.                                 *)
Unserved(i) ==
    \/ ivk[i] = "start"
    \/ \E k \in DOMAIN backlog : backlog[k] = i
    \/ \E p \in Pid : conn[p] = i /\ proc[p] = "serving"

(* An exit status for the invoker may still be written.                    *)
Pending(i) ==
    \/ i \in Waiters /\ \E p \in Pid : conn[p] = i /\ proc[p] = "checking"
    \/ \E k \in DOMAIN dgrams : dgrams[k].inv = i
    \/ \E p \in Pid : invOf[p] = i
    \/ cur.inv = i

(* p belongs to i: it has acknowledged its request and has not gone on.    *)
Owning   == {"checking", "handing", "app"} \cup Dead
Own(p, i) == conn[p] = i /\ proc[p] \in Owning

(* The booster of i may have gone on to serve another invoker.             *)
Left(i) == i \in Singles /\ end[i] = "closed"

(* A connection is in the queue or with one process, and never again.      *)
AcceptedOnce ==
    /\ \A k, l \in DOMAIN backlog : backlog[k] = backlog[l] => k = l
    /\ \A k \in DOMAIN backlog :
          /\ ivk[backlog[k]] # "start" /\ end[backlog[k]] = "queued"
          /\ \A p \in Pid : conn[p] # backlog[k]
    /\ \A p \in Pid : conn[p] # NoInv => ivk[conn[p]] # "start"
    /\ \A p, q \in Pid : conn[p] = conn[q] /\ conn[p] # NoInv => p = q
    /\ \A i \in Invoker : ivk[i] = "start" => end[i] = "none"

(* Who holds the launcher's end of it: booster, datagram, or daemon.       *)
Ends ==
    /\ \A p \in Pid : proc[p] = "serving"
          => conn[p] # NoInv /\ end[conn[p]] = "booster"
    /\ \A p \in Pid : proc[p] = "checking"
          => /\ conn[p] # NoInv
             /\ end[conn[p]] = IF conn[p] \in Waiters THEN "booster" ELSE "closed"
    /\ \A k \in DOMAIN dgrams : dgrams[k].inv # NoInv => end[dgrams[k].inv] = "flight"
    /\ \A k, l \in DOMAIN dgrams :
          dgrams[k].inv # NoInv /\ dgrams[k].inv = dgrams[l].inv => k = l
    /\ \A p \in Pid : invOf[p] # NoInv => end[invOf[p]] \in {"daemon", "closed"}
    /\ cur.inv # NoInv => end[cur.inv] \in {"daemon", "closed"}

(* Answers come in order, and an exit status after the pid only.           *)
Answers ==
    /\ \A i \in Invoker :
          Unserved(i) => dn[i] = <<>> /\ (Early(i) \/ ivk[i] = "exited")
    /\ \A i \in Invoker : Talking(i)
          => \A k \in DOMAIN dn[i] : dn[i][k].type = Nth(Read(i) + k)
    /\ \A i \in Invoker : Pending(i) => Introduced(i)

(* The pid an invoker is sent, and has, is its own process's, or the       *)
(* booster may have left; it has one to wait for, or to kill.              *)
OwnedBy(i) ==
    /\ Talking(i) => \A k \in DOMAIN dn[i] : dn[i][k].type = "PID"
          => i \in Waiters /\ (Own(dn[i][k].val, i) \/ Left(i))
    /\ kpid[i] # NoPid => i \in Waiters /\ (Own(kpid[i], i) \/ Left(i))
    /\ ivk[i] \in {"waiting", "killing", "killed"} => kpid[i] # NoPid
Owned == \A i \in Invoker : OwnedBy(i)

Owners == AcceptedOnce /\ Ends /\ Answers /\ Owned
-----------------------------------------------------------------------------
(* A step in which nobody says anything: processes and connections come to *)
(* their end, and invokers, too.                                           *)
Silent ==
    /\ UNCHANGED <<conn, kpid, backlog, dn>>
    /\ \A i \in Invoker : \/ ivk'[i] = ivk[i]
                          \/ ivk'[i] = "exited"
                          \/ ivk'[i] = "fallback" /\ ivk[i] = "start"
                          \/ ivk'[i] = "killed" /\ ivk[i] = "killing"
    /\ \A p \in Pid :
          /\ proc'[p] \in {"serving", "checking"} => proc'[p] = proc[p]
          /\ proc[p] \in Owning => proc'[p] \in Owning
    /\ \A i \in Invoker : end'[i] # end[i]
          => end'[i] = "closed" /\ end[i] \notin {"none", "queued"}
    /\ \A p \in Pid : proc'[p] \in {"serving", "checking"}
                        /\ conn[p] # NoInv /\ end[conn[p]] = "booster"
                           => end'[conn[p]] = "booster"
    /\ \/ dgrams' = <<>>
       \/ /\ dgrams' = dgrams
          /\ \A i \in Invoker : end[i] = "flight" => end'[i] = "flight"
    /\ \A p \in Pid : invOf'[p] \in {NoInv, invOf[p]}
    /\ cur'.inv \in {NoInv, cur.inv} \cup {invOf[p] : p \in Pid}

LEMMA Ranges ==
  ASSUME TypeOK
  PROVE  /\ \A p \in Pid : conn[p] # NoInv => conn[p] \in Invoker
         /\ \A p \in Pid : invOf[p] # NoInv => invOf[p] \in Invoker
         /\ cur.inv # NoInv => cur.inv \in Invoker
         /\ \A k \in DOMAIN backlog : backlog[k] \in Invoker
         /\ \A k \in DOMAIN dgrams : dgrams[k].inv # NoInv => dgrams[k].inv \in Invoker
         /\ \A i \in Invoker : dn[i] \in Seq(Message) /\ kpid[i] \in PidOrNone
         /\ \A i \in Invoker : ivk[i] \in InvState
  <1>1. \A k \in DOMAIN backlog : backlog[k] \in Invoker
    BY DEF TypeOK, TypeSock
  <1>2. \A k \in DOMAIN dgrams : dgrams[k].inv \in InvOrNone
    <2>1. \A k \in DOMAIN dgrams : dgrams[k] \in Datagram
      BY DEF TypeOK, TypeSock
    <2> QED
      BY <2>1 DEF Datagram
  <1> QED
    BY <1>1, <1>2
       DEF TypeOK, TypeProc, TypeSock, TypeDaemon, TypeInv, InvOrNone, Burial

(* It leaves everything as it should be.                                   *)
LEMMA SilentOwners ==
  ASSUME TypeOK, Owners, Silent
  PROVE  Owners'
  <1> USE Ranges DEF Owners, Silent
  <1>1. AcceptedOnce'
    BY DEF AcceptedOnce
  <1>2. Ends'
    BY DEF Ends
  <1>3. \A i \in Invoker : Introduced(i) => Introduced(i)'
    <2> SUFFICES ASSUME NEW i \in Invoker, Introduced(i)
                 PROVE  Introduced(i)'
      OBVIOUS
    <2>1. Len(dn[i]) \in Nat /\ Len(dn'[i]) = Len(dn[i])
      OBVIOUS
    <2>2. Read(i) \in 0 .. 2 /\ Read(i)' \in 0 .. 2 /\ Read(i)' >= Read(i)
      BY DEF Read, Early
    <2> QED
      BY <2>1, <2>2 DEF Introduced
  <1>4. \A i \in Invoker : Talking(i)' => ivk'[i] = ivk[i]
    BY DEF Talking
  <1>5. Answers'
    <2>1. \A i \in Invoker : Unserved(i)' => Unserved(i) \/ ivk'[i] = "exited"
      BY DEF Unserved
    <2>2. \A i \in Invoker : Unserved(i)'
             => dn'[i] = <<>> /\ (Early(i)' \/ ivk'[i] = "exited")
      BY <2>1 DEF Answers, Early, Unserved, AcceptedOnce
    <2>3. \A i \in Invoker : Talking(i)'
             => \A k \in DOMAIN dn'[i] : dn'[i][k].type = Nth(Read(i)' + k)
      BY <1>4 DEF Answers, Talking, Read, Early
    <2>4. ASSUME NEW i \in Invoker, Pending(i)'
          PROVE  Pending(i)
      <3>1. cur'.inv = i => Pending(i)
        BY LauncherAssumption DEF Pending
      <3>2. (\E p \in Pid : invOf'[p] = i) => Pending(i)
        BY LauncherAssumption DEF Pending
      <3>3. (\E k \in DOMAIN dgrams' : dgrams'[k].inv = i) => Pending(i)
        BY DEF Pending
      <3>4. (\E p \in Pid : conn'[p] = i /\ proc'[p] = "checking" /\ i \in Waiters)
               => Pending(i)
        BY DEF Pending
      <3> QED
        BY <2>4, <3>1, <3>2, <3>3, <3>4 DEF Pending
    <2> QED
      BY <1>3, <2>2, <2>3, <2>4 DEF Answers
  <1>6. ASSUME NEW i \in Invoker
        PROVE  /\ \A p \in Pid : Own(p, i) => Own(p, i)'
               /\ Left(i) => Left(i)'
    BY DEF Own, Left
  <1>7. ASSUME NEW i \in Invoker, OwnedBy(i)
        PROVE  OwnedBy(i)'
    <2>1. \A k \in DOMAIN dn[i] : dn[i][k].type = "PID" => dn[i][k].val \in Pid
      <3>1. \A k \in DOMAIN dn[i] : dn[i][k] \in Message
        OBVIOUS
      <3> QED
        BY <3>1, ReadMsg
    <2>2. kpid[i] # NoPid => kpid[i] \in Pid
      BY DEF PidOrNone
    <2> QED
      BY <1>4, <1>6, <1>7, <2>1, <2>2 DEF OwnedBy, Talking
  <1> QED BY <1>1, <1>2, <1>5, <1>7 DEF Owned
-----------------------------------------------------------------------------
(* Invokers go on in silence, and everything else they look at stays.      *)
Quiet ==
    /\ UNCHANGED <<conn, kpid, backlog, dn, dgrams, invOf, cur>>
    /\ \A i \in Invoker : \/ ivk'[i] = ivk[i]
                          \/ ivk'[i] = "exited"
                          \/ ivk'[i] = "killed" /\ ivk[i] = "killing"

(* The death of processes says nothing to anybody.                         *)
LEMMA DieSilent ==
  ASSUME TypeOK, Owners, Quiet, NEW S, NEW s, S \subseteq Pid, Die(S, s)
  PROVE  Silent
  <1> USE DEF TypeOK, TypeProc, TypeSock
  <1>1. \A p \in Pid : (proc'[p] = proc[p] /\ p \notin S) \/ proc'[p] \in Dead
    BY DEF Die, Dead
  <1>2. \A i \in Invoker : end'[i] # end[i]
           => /\ end[i] = "booster" /\ end'[i] = "closed"
              /\ \E p \in S : conn[p] = i
    BY DEF Die
  <1>3. ASSUME NEW p \in Pid, proc'[p] \in {"serving", "checking"},
               conn[p] # NoInv, end[conn[p]] = "booster"
        PROVE  end'[conn[p]] = "booster"
    <2>1. p \notin S
      BY <1>1, <1>3 DEF Dead
    <2>2. \A q \in S : conn[q] # conn[p]
      BY <1>3, <2>1 DEF Owners, AcceptedOnce
    <2> QED
      BY <1>2, <1>3, <2>2, Ranges
  <1> QED
    BY <1>1, <1>2, <1>3 DEF Silent, Quiet, Owning, Dead

(* Nor does a SIGTERM.                                                     *)
LEMMA TerminateSilent ==
  ASSUME TypeOK, Owners, Quiet, NEW p, NEW pip, p \in Pid, Terminate(p, pip)
  PROVE  Silent
  <1>1. CASE Die({p}, Failure)
    <2>1. {p} \subseteq Pid
      OBVIOUS
    <2> QED
      BY <1>1, <2>1, DieSilent
  <1>2. CASE UNCHANGED <<proc, end>>
    BY <1>2 DEF Silent, Quiet
  <1> QED
    BY <1>1, <1>2 DEF Terminate

(* Nor does the end of the daemon.                                         *)
LEMMA VanishSilent ==
  ASSUME TypeOK, Owners, Vanish, UNCHANGED <<conn, backlog, dn, invVars>>
  PROVE  Silent
  BY DEF TypeOK, TypeProc, TypeSock, TypeDaemon, Vanish, Silent, invVars, Owning,
         Dead, Armed, Idle, NoCur

(* Steps in which a process and an invoker talk.                           *)
BoosterTalks(p) == BAccept(p) \/ BReceive(p) \/ BActivate(p) \/ BLaunch(p)
InvokerTalks(i) ==
    \/ IConnect(i) \/ ISend(i) \/ IAck(i) \/ IPid(i) \/ IExit(i) \/ ISignal(i)
    \/ IDrain(i) \/ IDisconnected(i) \/ IShutTimeout(i) \/ IClose(i)
DaemonTalks == DReadBooster \/ DSendExit

LEMMA BoosterSilent ==
  ASSUME TypeOK, Owners, NEW p \in Pid,
         BoosterStep(p) \/ AppExit(p) \/ BCrash(p), ~BoosterTalks(p)
  PROVE  Silent
  <1>1. CASE BRestore(p) \/ BReady(p) \/ BDisown(p)
    BY <1>1 DEF BRestore, BReady, BDisown, TypeOK, TypeProc, Silent, Owning, Dead,
                invVars, sockVars, bookVars, loopVars
  <1>2. CASE BReceiveFails(p) \/ AppExit(p) \/ BCrash(p)
    <2>1. PICK s : Die({p}, s)
      BY <1>2 DEF BReceiveFails, AppExit, BCrash
    <2>2. Quiet
      BY <1>2 DEF BReceiveFails, AppExit, BCrash, invVars, bookVars, loopVars, Quiet
    <2>3. {p} \subseteq Pid
      OBVIOUS
    <2> QED
      BY <2>1, <2>2, <2>3, DieSilent
  <1> QED
    BY <1>1, <1>2 DEF BoosterStep, BoosterTalks

LEMMA InvokerSilent ==
  ASSUME TypeOK, Owners, NEW i \in Invoker,
         InvokerStep(i) \/ ISignal(i) \/ IDie(i), ~InvokerTalks(i)
  PROVE  Silent
  <1> USE DEF procVars, sockVars, bookVars, loopVars
  <1>1. CASE IFallback(i) \/ IDie(i) \/ IKilled(i)
    BY <1>1 DEF IFallback, IDie, IKilled, Fails, TypeOK, TypeInv, Silent
  <1>2. ivk[i] \in {"killing", "killed"} => kpid[i] \in Pid
    BY Ranges DEF Owners, Owned, OwnedBy, PidOrNone
  <1>3. CASE IKillApp(i)
    <2>1. Terminate(kpid[i], pipe) /\ kpid[i] \in Pid
      BY <1>2, <1>3 DEF IKillApp
    <2>2. Quiet
      BY <1>3 DEF IKillApp, TypeOK, TypeInv, Quiet
    <2> QED
      BY <2>1, <2>2, TerminateSilent
  <1>4. CASE IKillForce(i)
    <2>1. CASE proc[kpid[i]] \in Alive
      <3>1. Die({kpid[i]}, Failure) /\ {kpid[i]} \subseteq Pid
        BY <1>2, <1>4, <2>1 DEF IKillForce
      <3>2. Quiet
        BY <1>4 DEF IKillForce, TypeOK, TypeInv, Quiet
      <3> QED
        BY <3>1, <3>2, DieSilent
    <2>2. CASE proc[kpid[i]] \notin Alive
      BY <1>4, <2>2 DEF IKillForce, TypeOK, TypeInv, Silent
    <2> QED BY <2>1, <2>2
  <1> QED
    BY <1>1, <1>3, <1>4 DEF InvokerStep, InvokerTalks

LEMMA DaemonSilent ==
  ASSUME TypeInvariant, Forked, Owners, ~DaemonTalks,
         DaemonStep \/ OutsideMode \/ OutsideTerm \/ DCrash \/ UNCHANGED vars
  PROVE  Silent
  <1> USE DEF TypeInvariant, procVars, invVars, sockVars, bookVars, loopVars
  <1>1. CASE UNCHANGED <<proc, conn, ivk, kpid, backlog, dn, end, dgrams, invOf, cur>>
    BY <1>1 DEF Silent
  <1>2. CASE \/ DSelect \/ DChild \/ DTerminate \/ DIgnore \/ OutsideMode
             \/ OutsideTerm \/ UNCHANGED vars \/ \E p \in Pid : DSkip(p)
             \/ \E s \in Signals : DHandler(s)
    BY <1>1, <1>2 DEF DSelect, DChild, DTerminate, DIgnore, ReadSignal, OutsideMode,
                 OutsideTerm, vars, DSkip, DHandler
  <1>3. CASE DExit \/ DCrash
    BY <1>3, VanishSilent DEF DExit, DCrash
  <1>4. CASE DSwitchMode
    <2>1. Terminate(bpid, Tail(pipe)) /\ bpid \in Pid
      BY <1>4 DEF DSwitchMode, KillBoosters, TypeOK, TypeDaemon
    <2>2. Quiet
      BY <1>4 DEF DSwitchMode, ReadSignal, Quiet
    <2> QED
      BY <2>1, <2>2, TerminateSilent
  <1>5. ASSUME NEW p \in Pid, DReap(p) \/ DClosed(p) \/ DTerm(p)
        PROVE  Silent
    BY <1>5 DEF DReap, DClosed, DTerm, Silent, Owning, Dead, TypeOK, TypeProc,
                TypeDaemon
  <1>6. CASE DReaped
    <2>1. CASE ForkFails
      BY <1>6, <2>1, VanishSilent DEF DReaped, ForkFails
    <2>2. CASE ~ForkFails
      BY <1>6, <2>2 DEF DReaped, Fork, IsLeast, Unused, Silent, Owning, Dead,
                        TypeOK, TypeProc, NoCur
    <2> QED BY <2>1, <2>2
  <1>7. CASE DStray
    BY <1>7 DEF DStray, Silent, Owning, Dead, TypeOK, TypeProc
  <1>8. CASE DShut
    <2>1. cur.inv \in Invoker /\ cur.inv # NoInv
      BY <1>8, LauncherAssumption DEF DShut, Ctl
    <2>2. end[cur.inv] \in {"daemon", "closed"}
      BY <2>1 DEF Owners, Ends
    <2>3. end' = [end EXCEPT ![cur.inv] = "closed"] /\ UNCHANGED proc
      BY <1>8 DEF DShut
    <2>4. UNCHANGED <<conn, ivk, kpid, backlog, dn, dgrams, invOf, cur>>
      BY <1>8 DEF DShut
    <2> QED
      BY <2>1, <2>2, <2>3, <2>4, Ranges DEF Silent, TypeOK, TypeSock
  <1>9. CASE DKillInvoker \/ DWaitInvoker
    BY <1>9 DEF DKillInvoker, DWaitInvoker, Silent, TypeOK, TypeInv
  <1>10. cur.pid \in Pid => proc[cur.pid] # "unused"
    BY DEF Forked
  <1>11. CASE DKillBooster
    <2>1. CASE proc[cur.pid] = "reaped"
      BY <1>11, <2>1 DEF DKillBooster, Silent, NoCur
    <2>2. CASE proc[cur.pid] # "reaped"
      <3>1. Terminate(cur.pid, pipe) /\ cur.pid \in Pid
        BY <1>11, <2>2 DEF DKillBooster, Ctl
      <3>2. Quiet
        BY <1>11, <2>2 DEF DKillBooster, Quiet
      <3> QED
        BY <3>1, <3>2, TerminateSilent
    <2> QED BY <2>1, <2>2
  <1>12. CASE DWaitBooster
    <2>1. CASE proc[cur.pid] \in Alive
      <3>1. Die({cur.pid}, Failure) /\ {cur.pid} \subseteq Pid
        BY <1>12, <2>1 DEF DWaitBooster, Ctl
      <3>2. Quiet
        BY <1>12, <2>1 DEF DWaitBooster, Quiet
      <3> QED
        BY <3>1, <3>2, DieSilent
    <2>2. CASE proc[cur.pid] \notin Alive
      BY <1>12, <2>2 DEF DWaitBooster, Silent, NoCur, Owning, Dead, Alive, PreLaunch,
                         Idle, TypeOK, TypeProc
    <2> QED BY <2>1, <2>2
  <1> QED
    BY <1>2, <1>3, <1>4, <1>5, <1>6, <1>7, <1>8, <1>9, <1>11, <1>12
       DEF DaemonStep, DaemonTalks
-----------------------------------------------------------------------------
(* Sequences: what reading the first message leaves, and what writing adds.*)
LEMMA TailFacts ==
  ASSUME NEW S, NEW s \in Seq(S), s # <<>>
  PROVE  /\ 1 \in DOMAIN s /\ Head(s) = s[1] /\ Len(s) \in Nat
         /\ Len(Tail(s)) = Len(s) - 1
         /\ \A k \in DOMAIN Tail(s) :
               k \in Nat \ {0} /\ k + 1 \in DOMAIN s /\ Tail(s)[k] = s[k + 1]
         /\ \A k \in DOMAIN s : k # 1
               => k - 1 \in DOMAIN Tail(s) /\ Tail(s)[k - 1] = s[k]
  OBVIOUS

LEMMA AppendFacts ==
  ASSUME NEW S, NEW s \in Seq(S), NEW m \in S
  PROVE  /\ Len(s) \in Nat /\ Len(Append(s, m)) = Len(s) + 1
         /\ Append(s, m)[Len(s) + 1] = m /\ Len(s) + 1 \in DOMAIN Append(s, m)
         /\ \A k \in DOMAIN s : k \in DOMAIN Append(s, m) /\ Append(s, m)[k] = s[k]
         /\ \A k \in DOMAIN Append(s, m) : k \in DOMAIN s \/ k = Len(s) + 1
  OBVIOUS

(* What is known of an invoker stays true while nothing happens to it and  *)
(* its process goes on.                                                    *)
LEMMA Undisturbed ==
  ASSUME TypeOK, NEW j \in Invoker, OwnedBy(j), ivk'[j] = ivk[j],
         kpid'[j] = kpid[j], dn'[j] = dn[j], end[j] = "closed" => end'[j] = "closed",
         \A p \in Pid : Own(p, j) => Own(p, j)'
  PROVE  OwnedBy(j)'
  <1>1. \A k \in DOMAIN dn[j] : dn[j][k].type = "PID" => dn[j][k].val \in Pid
    <2>1. \A k \in DOMAIN dn[j] : dn[j][k] \in Message
      BY Ranges
    <2> QED
      BY <2>1, ReadMsg
  <1>2. kpid[j] # NoPid => kpid[j] \in Pid
    BY Ranges DEF PidOrNone
  <1>3. Left(j) => Left(j)'
    BY DEF Left
  <1> QED
    BY <1>1, <1>2, <1>3 DEF OwnedBy, Talking

(* Who writes an exit status after the pid keeps the messages in order ... *)
LEMMA ExitLast ==
  ASSUME TypeOK, Answers, NEW i \in Invoker, Introduced(i), Talking(i)',
         ivk'[i] = ivk[i], NEW s \in Status, dn'[i] = Append(dn[i], ExitMsg(s))
  PROVE  \A k \in DOMAIN dn'[i] : dn'[i][k].type = Nth(Read(i)' + k)
  <1>1. ExitMsg(s) \in Message /\ dn[i] \in Seq(Message)
    BY WriteMsg, Ranges
  <1>2. Talking(i) /\ Read(i)' = Read(i) /\ Read(i) \in 0 .. 2
    BY DEF Talking, Read, Early
  <1>3. Len(dn[i]) \in Nat /\ Len(dn[i]) + Read(i) >= 2
    BY <1>1 DEF Introduced
  <1>4. Nth(Read(i) + (Len(dn[i]) + 1)) = "EXIT"
    BY <1>2, <1>3 DEF Nth
  <1>5. ASSUME NEW k \in DOMAIN dn'[i] PROVE dn'[i][k].type = Nth(Read(i) + k)
    <2>1. CASE k \in DOMAIN dn[i]
      BY <1>1, <1>2, <2>1, AppendFacts DEF Answers
    <2>2. CASE k = Len(dn[i]) + 1
      BY <1>1, <1>4, <2>2, AppendFacts DEF ExitMsg
    <2> QED BY <1>1, <1>5, <2>1, <2>2, AppendFacts
  <1> QED BY <1>2, <1>5

(* ... and nothing that is written takes an introduction back.             *)
LEMMA MoreSaid ==
  ASSUME TypeOK, NEW j \in Invoker, ivk'[j] = ivk[j], Introduced(j), NEW m \in Message,
         dn'[j] = dn[j] \/ dn'[j] = Append(dn[j], m)
  PROVE  Introduced(j)'
  <1>1. Len(dn[j]) \in Nat /\ Len(dn'[j]) \in Nat /\ Len(dn'[j]) >= Len(dn[j])
    BY Ranges, AppendFacts
  <1>2. Read(j)' = Read(j) /\ Read(j) \in 0 .. 2 /\ Read(j)' \in 0 .. 2
    BY DEF Read, Early
  <1> QED
    BY <1>1, <1>2 DEF Introduced

(* accept(): the connection leaves the queue.                              *)
LEMMA AcceptOwners ==
  ASSUME TypeOK, Owners, NEW p \in Pid, BAccept(p)
  PROVE  Owners'
  <1> DEFINE i == Head(backlog)
  <1>1. /\ backlog \in Seq(Invoker) /\ backlog # <<>>
        /\ proc \in [Pid -> ProcState] /\ conn \in [Pid -> InvOrNone]
        /\ end \in [Invoker -> EndState] /\ proc[p] = "accepting"
        /\ conn' = [conn EXCEPT ![p] = i] /\ end' = [end EXCEPT ![i] = "booster"]
        /\ backlog' = Tail(backlog) /\ proc' = [proc EXCEPT ![p] = "serving"]
        /\ UNCHANGED <<ivk, kpid, dn, dgrams, invOf, cur>>
    BY DEF BAccept, TypeOK, TypeSock, TypeProc, invVars, bookVars, loopVars
  <1>2. i \in Invoker /\ i = backlog[1] /\ 1 \in DOMAIN backlog /\ i # NoInv
    BY <1>1, TailFacts, Ranges, LauncherAssumption
  <1>3. /\ end[i] = "queued" /\ ivk[i] # "start" /\ Unserved(i)
        /\ \A q \in Pid : conn[q] # i
    BY <1>2 DEF Owners, AcceptedOnce, Unserved
  <1>4. \A k \in DOMAIN backlog' : \E l \in DOMAIN backlog :
           l = k + 1 /\ backlog'[k] = backlog[l] /\ backlog[l] # i
    BY <1>1, <1>2, TailFacts DEF Owners, AcceptedOnce
  <1>5. AcceptedOnce'
    BY <1>1, <1>2, <1>3, <1>4, TailFacts, Ranges DEF Owners, AcceptedOnce
  <1>6. Ends'
    BY <1>1, <1>2, <1>3, Ranges DEF Owners, Ends
  <1>7. Answers'
    <2>1. \A j \in Invoker : Unserved(j)' => Unserved(j)
      BY <1>1, <1>3, <1>4 DEF Unserved
    <2>2. \A j \in Invoker : Pending(j)' => Pending(j)
      BY <1>1 DEF Pending
    <2>3. UNCHANGED <<ivk, dn>>
      BY <1>1
    <2> QED
      BY <2>1, <2>2, <2>3 DEF Owners, Answers, Early, Introduced, Read, Talking
  <1>8. \A j \in Invoker : OwnedBy(j)'
    BY <1>1, <1>3, Undisturbed DEF Owners, Owned, Own, Owning, Dead
  <1> QED BY <1>5, <1>6, <1>7, <1>8 DEF Owners, Owned

(* The connection a booster is busy with belongs to nobody else.           *)
LEMMA BusyAlone ==
  ASSUME TypeOK, Owners, NEW p \in Pid, proc[p] \in {"serving", "checking"}
  PROVE  /\ conn[p] \in Invoker /\ conn[p] # NoInv /\ ivk[conn[p]] # "start"
         /\ \A q \in Pid : conn[q] = conn[p] => q = p
         /\ \A k \in DOMAIN backlog : backlog[k] # conn[p]
         /\ \A k \in DOMAIN dgrams : dgrams[k].inv # conn[p]
         /\ end[conn[p]] = "booster"
               => /\ \A q \in Pid : invOf[q] # conn[p]
                  /\ cur.inv # conn[p]
  BY Ranges DEF Owners, AcceptedOnce, Ends

(* receiveApplicationData(): acknowledgement and pid are written.          *)
LEMMA ReceiveOwners ==
  ASSUME TypeOK, Owners, NEW p \in Pid, BReceive(p)
  PROVE  Owners'
  <1> PICK i \in Invoker : i = conn[p]
    BY BusyAlone DEF BReceive
  <1>1. /\ dn \in [Invoker -> Seq(Message)]
        /\ proc \in [Pid -> ProcState] /\ conn \in [Pid -> InvOrNone]
        /\ end \in [Invoker -> EndState] /\ proc[p] = "serving" /\ ~HungUp(i)
        /\ dn' = [dn EXCEPT ![i] = IF i \in Waiters THEN @ \o <<Ack, PidMsg(p)>>
                                                    ELSE Append(@, Ack)]
        /\ end' = [end EXCEPT ![i] = IF i \in Waiters THEN @ ELSE "closed"]
        /\ proc' = [proc EXCEPT ![p] = "checking"]
        /\ UNCHANGED <<ivk, kpid, conn, backlog, dgrams, invOf, cur>>
    BY DEF BReceive, TypeOK, TypeSock, TypeProc, invVars, bookVars, loopVars
  <1>2. /\ i # NoInv /\ ivk[i] # "start" /\ end[i] = "booster"
        /\ conn[p] = i /\ \A q \in Pid : conn[q] = i => q = p
        /\ \A k \in DOMAIN backlog : backlog[k] # i
        /\ \A k \in DOMAIN dgrams : dgrams[k].inv # i
        /\ \A q \in Pid : invOf[q] # i
        /\ cur.inv # i
    BY <1>1, BusyAlone DEF Owners, Ends
  <1>3. dn[i] = <<>> /\ Early(i)
    BY <1>1, <1>2 DEF Owners, Answers, Unserved, HungUp
  <1>4. dn'[i] = IF i \in Waiters THEN <<Ack, PidMsg(p)>> ELSE <<Ack>>
    BY <1>1, <1>2, <1>3
  <1>5. AcceptedOnce'
    BY <1>1, <1>2, Ranges DEF Owners, AcceptedOnce
  <1>6. Ends'
    BY <1>1, <1>2, Ranges DEF Owners, Ends
  <1>7. \A j \in Invoker \ {i} : dn'[j] = dn[j] /\ end'[j] = end[j]
    BY <1>1
  <1>8. Answers'
    <2>1. \A j \in Invoker : Unserved(j)' => Unserved(j) /\ j # i
      BY <1>1, <1>2 DEF Unserved
    <2>2. \A j \in Invoker : j # i /\ Pending(j)' => Pending(j)
      BY <1>1, <1>2 DEF Pending
    <2>3. Pending(i)' => i \in Waiters
      BY <1>1, <1>2 DEF Pending
    <2>4. ASSUME i \in Waiters PROVE Introduced(i)'
      <3>1. Len(dn'[i]) = 2 /\ Len(dn'[i]) \in Nat
        BY <1>4, <2>4
      <3>2. Read(i)' \in 0 .. 2
        BY DEF Read, Early
      <3> QED
        BY <3>1, <3>2 DEF Introduced
    <2>5. \A k \in DOMAIN dn'[i] : dn'[i][k].type = Nth(Read(i)' + k)
      BY <1>1, <1>3, <1>4 DEF Nth, Read, Early, Ack, PidMsg
    <2>6. \A j \in Invoker : Unserved(j)'
             => dn'[j] = <<>> /\ (Early(j)' \/ ivk'[j] = "exited")
      BY <1>1, <1>7, <2>1 DEF Owners, Answers, Early
    <2>7. \A j \in Invoker : Talking(j)'
             => \A k \in DOMAIN dn'[j] : dn'[j][k].type = Nth(Read(j)' + k)
      <3> SUFFICES ASSUME NEW j \in Invoker, Talking(j)', j # i
                   PROVE  \A k \in DOMAIN dn'[j] :
                             dn'[j][k].type = Nth(Read(j)' + k)
        BY <2>5
      <3>1. dn'[j] = dn[j]
        BY <1>7
      <3>2. Talking(j) /\ Read(j)' = Read(j)
        BY <1>1 DEF Talking, Read, Early
      <3>3. \A k \in DOMAIN dn[j] : dn[j][k].type = Nth(Read(j) + k)
        BY <3>2 DEF Owners, Answers
      <3> QED
        BY <3>1, <3>2, <3>3
    <2>8. \A j \in Invoker : Pending(j)' => Introduced(j)'
      BY <1>1, <1>7, <2>2, <2>3, <2>4
         DEF Owners, Answers, Early, Read, Introduced
    <2> QED
      BY <2>6, <2>7, <2>8 DEF Answers
  <1>9. \A j \in Invoker : OwnedBy(j)'
    <2>1. ASSUME NEW j \in Invoker, j # i PROVE OwnedBy(j)'
      BY <1>1, <1>7, <2>1, Undisturbed DEF Owners, Owned, Own, Owning, Dead
    <2>2. OwnedBy(i)'
      <3>1. Own(p, i)'
        BY <1>1, <1>2 DEF Own, Owning
      <3>2. \A k \in DOMAIN dn'[i] : dn'[i][k].type = "PID"
               => i \in Waiters /\ Own(dn[i][k].val, i)'
        BY <1>4, <3>1 DEF Ack, PidMsg, Own
      <3>3. Early(i)'
        BY <1>1, <1>3 DEF Early
      <3>4. kpid'[i] = NoPid
        <4>1. ~Left(i) /\ \A q \in Pid : ~Own(q, i)
          BY <1>1, <1>2 DEF Left, Own, Owning, Dead
        <4> QED
          BY <1>1, <4>1, Ranges DEF Owners, Owned, OwnedBy, PidOrNone
      <3> QED
        BY <1>1, <3>2, <3>3, <3>4 DEF OwnedBy, Early, Own
    <2> QED BY <2>1, <2>2
  <1> QED BY <1>5, <1>6, <1>8, <1>9 DEF Owners, Owned

(* The single-instance application runs already: outcome and goodbye.      *)
LEMMA ActivateOwners ==
  ASSUME TypeOK, Owners, NEW p \in Pid, BActivate(p)
  PROVE  Owners'
  <1> PICK i \in Invoker : i = conn[p]
    BY BusyAlone DEF BActivate
  <1>1. CASE Die({p}, Failure) /\ UNCHANGED dn
    <2>1. Quiet
      BY <1>1 DEF BActivate, Quiet, invVars, bookVars, loopVars
    <2>2. {p} \subseteq Pid
      OBVIOUS
    <2> QED
      BY <1>1, <2>1, <2>2, DieSilent, SilentOwners
  <1>2. CASE Report(i) /\ proc' = [proc EXCEPT ![p] = "accepting"]
    <2>1. PICK r \in {Success, Failure} :
             \/ dn' = [dn EXCEPT ![i] = Append(@, ExitMsg(r))] /\ i \in Waiters
             \/ dn' = dn
      BY <1>2 DEF Report
    <2>2. /\ dn \in [Invoker -> Seq(Message)]
          /\ proc \in [Pid -> ProcState] /\ conn \in [Pid -> InvOrNone]
          /\ end \in [Invoker -> EndState] /\ proc[p] = "checking"
          /\ end' = [end EXCEPT ![i] = "closed"]
          /\ proc' = [proc EXCEPT ![p] = "accepting"]
          /\ UNCHANGED <<ivk, kpid, conn, backlog, dgrams, invOf, cur>>
      BY <1>2 DEF BActivate, Report, TypeOK, TypeSock, TypeProc, invVars, bookVars,
                  loopVars
    <2>3. /\ i # NoInv /\ ivk[i] # "start"
          /\ conn[p] = i /\ \A q \in Pid : conn[q] = i => q = p
          /\ \A k \in DOMAIN backlog : backlog[k] # i
          /\ \A k \in DOMAIN dgrams : dgrams[k].inv # i
      BY <2>2, BusyAlone
    <2>4. AcceptedOnce'
      BY <2>2, <2>3, Ranges DEF Owners, AcceptedOnce
    <2>5. Ends'
      BY <2>2, <2>3, Ranges DEF Owners, Ends
    <2>6. \A j \in Invoker \ {i} : dn'[j] = dn[j] /\ end'[j] = end[j]
      BY <2>1, <2>2
    <2>7. i \in Singles
      BY DEF BActivate, MustLock
    <2>8. ExitMsg(r) \in Message
      BY WriteMsg, StatusFacts
    <2>9. \/ dn'[i] = dn[i]
          \/ dn'[i] = Append(dn[i], ExitMsg(r)) /\ Introduced(i)
      BY <2>1, <2>2, <2>3 DEF Owners, Answers, Pending
    <2>10. Answers'
      <3>1. \A j \in Invoker : Unserved(j)' => Unserved(j) /\ j # i
        BY <2>2, <2>3 DEF Unserved
      <3>2. \A j \in Invoker : Unserved(j)'
               => dn'[j] = <<>> /\ (Early(j)' \/ ivk'[j] = "exited")
        BY <2>2, <2>6, <3>1 DEF Owners, Answers, Early
      <3>3. \A j \in Invoker : Pending(j)' => Pending(j)
        BY <2>2, <2>3 DEF Pending
      <3>4. ASSUME NEW j \in Invoker, Introduced(j) PROVE Introduced(j)'
        BY <2>2, <2>6, <2>8, <2>9, <3>4, MoreSaid
      <3>5. ASSUME NEW j \in Invoker, Talking(j)'
            PROVE  \A k \in DOMAIN dn'[j] : dn'[j][k].type = Nth(Read(j)' + k)
        <4>1. CASE dn'[j] = dn[j]
          BY <2>2, <3>5, <4>1 DEF Owners, Answers, Early, Read, Talking
        <4>2. CASE j = i /\ dn'[i] # dn[i]
          BY <2>2, <2>9, <3>5, <4>2, ExitLast, StatusFacts DEF Owners
        <4> QED BY <2>6, <4>1, <4>2
      <3> QED
        BY <3>2, <3>3, <3>4, <3>5 DEF Owners, Answers
    <2>11. \A j \in Invoker : OwnedBy(j)'
      <3>1. ASSUME NEW j \in Invoker, j # i PROVE OwnedBy(j)'
        BY <2>2, <2>3, <2>6, <3>1, Undisturbed DEF Owners, Owned, Own, Owning, Dead
      <3>2. OwnedBy(i)'
        <4>1. Left(i)'
          BY <2>2, <2>7 DEF Left
        <4>2. \A k \in DOMAIN dn'[i] : dn'[i][k].type = "PID"
                 => k \in DOMAIN dn[i] /\ dn[i][k].type = "PID"
          <5>1. CASE dn'[i] = dn[i]
            BY <5>1
          <5>2. CASE dn'[i] = Append(dn[i], ExitMsg(r))
            <6>1. dn[i] \in Seq(Message) /\ ExitMsg(r).type # "PID"
              BY <2>2 DEF ExitMsg
            <6> QED
              BY <2>8, <5>2, <6>1, AppendFacts
          <5> QED BY <2>9, <5>1, <5>2
        <4> QED
          BY <2>2, <4>1, <4>2 DEF Owners, Owned, OwnedBy, Talking
      <3> QED BY <3>1, <3>2
    <2> QED BY <2>4, <2>5, <2>10, <2>11 DEF Owners, Owned
  <1> QED BY <1>1, <1>2 DEF BActivate

(* sendDataToParent(): the connection goes to the daemon.                  *)
LEMMA LaunchOwners ==
  ASSUME TypeOK, Owners, NEW p \in Pid, BLaunch(p)
  PROVE  Owners'
  <1> PICK i \in Invoker : i = conn[p]
    BY BusyAlone DEF BLaunch
  <1> DEFINE d == [from |-> p, inv |-> IF i \in Waiters THEN i ELSE NoInv]
  <1>1. /\ dgrams \in Seq(Datagram)
        /\ proc \in [Pid -> ProcState] /\ conn \in [Pid -> InvOrNone]
        /\ end \in [Invoker -> EndState] /\ proc[p] = "checking"
        /\ proc' = [proc EXCEPT ![p] = "handing"]
        /\ UNCHANGED <<ivk, kpid, dn, conn, backlog, invOf, cur>>
    BY DEF BLaunch, TypeOK, TypeSock, TypeProc, invVars, bookVars, loopVars
  <1>2. \/ /\ dgrams' = Append(dgrams, d) /\ i \in Waiters
           /\ end' = [end EXCEPT ![i] = "flight"]
        \/ /\ dgrams' = Append(dgrams, d) /\ i \notin Waiters /\ end' = end
        \/ /\ dgrams' = dgrams /\ end' = [end EXCEPT ![i] = "closed"]
    BY <1>1 DEF BLaunch
  <1>3. /\ i # NoInv /\ ivk[i] # "start"
        /\ end[i] = IF i \in Waiters THEN "booster" ELSE "closed"
        /\ conn[p] = i /\ \A q \in Pid : conn[q] = i => q = p
        /\ \A k \in DOMAIN backlog : backlog[k] # i
        /\ \A k \in DOMAIN dgrams : dgrams[k].inv # i
    BY <1>1, BusyAlone DEF Owners, Ends
  <1>4. d \in Datagram /\ d.inv = IF i \in Waiters THEN i ELSE NoInv
    BY DEF Datagram, InvOrNone
  <1>5. \A k \in DOMAIN dgrams' :
           \/ k \in DOMAIN dgrams /\ dgrams'[k] = dgrams[k]
           \/ /\ k = Len(dgrams) + 1 /\ dgrams'[k] = d
              /\ i \in Waiters => end'[i] = "flight"
    BY <1>1, <1>2, <1>4, AppendFacts
  <1>6. AcceptedOnce'
    BY <1>1, <1>2, <1>3, Ranges DEF Owners, AcceptedOnce
  <1>7. Ends'
    <2>1. \A q \in Pid : proc'[q] \in {"serving", "checking"}
             => proc'[q] = proc[q] /\ conn[q] # i /\ conn[q] # NoInv
                /\ end'[conn[q]] = end[conn[q]]
      BY <1>1, <1>2, <1>3, Ranges DEF Owners, Ends
    <2>2. \A k \in DOMAIN dgrams' : dgrams'[k].inv # NoInv
             => end'[dgrams'[k].inv] = "flight"
      BY <1>1, <1>2, <1>3, <1>4, <1>5, Ranges DEF Owners, Ends
    <2>3. \A k, l \in DOMAIN dgrams' :
             dgrams'[k].inv # NoInv /\ dgrams'[k].inv = dgrams'[l].inv => k = l
      BY <1>3, <1>4, <1>5 DEF Owners, Ends
    <2>4. \A q \in Pid : invOf[q] # NoInv => end'[invOf[q]] \in {"daemon", "closed"}
      BY <1>1, <1>2, <1>3, Ranges DEF Owners, Ends
    <2>5. cur.inv # NoInv => end'[cur.inv] \in {"daemon", "closed"}
      BY <1>1, <1>2, <1>3, Ranges DEF Owners, Ends
    <2> QED
      BY <1>1, <2>1, <2>2, <2>3, <2>4, <2>5 DEF Owners, Ends
  <1>8. Answers'
    <2>1. \A j \in Invoker : Unserved(j)' => Unserved(j)
      BY <1>1 DEF Unserved
    <2>2. \A j \in Invoker : Pending(j)' => Pending(j)
      BY <1>1, <1>3, <1>4, <1>5, LauncherAssumption DEF Pending
    <2>3. UNCHANGED <<ivk, dn>>
      BY <1>1
    <2> QED
      BY <2>1, <2>2, <2>3 DEF Owners, Answers, Early, Introduced, Read, Talking
  <1>9. ASSUME NEW j \in Invoker PROVE OwnedBy(j)'
    <2>1. \A q \in Pid : Own(q, j) => Own(q, j)'
      BY <1>1 DEF Own, Owning, Dead
    <2>2. end[j] = "closed" => end'[j] = "closed"
      BY <1>1, <1>2, <1>3
    <2> QED
      BY <1>1, <2>1, <2>2, Undisturbed DEF Owners, Owned
  <1> QED BY <1>6, <1>7, <1>8, <1>9 DEF Owners, Owned

LEMMA BoosterOwners ==
  ASSUME TypeOK, Owners, NEW p \in Pid, BoosterStep(p) \/ AppExit(p) \/ BCrash(p)
  PROVE  Owners'
  BY AcceptOwners, ReceiveOwners, ActivateOwners, LaunchOwners, BoosterSilent,
     SilentOwners DEF BoosterTalks
-----------------------------------------------------------------------------
(* connect(): the connection enters the queue.                             *)
LEMMA ConnectOwners ==
  ASSUME TypeOK, Owners, NEW i \in Invoker, IConnect(i)
  PROVE  Owners'
  <1>1. /\ backlog \in Seq(Invoker) /\ ivk \in [Invoker -> InvState]
        /\ end \in [Invoker -> EndState] /\ ivk[i] = "start"
        /\ ivk' = [ivk EXCEPT ![i] = "connected"]
        /\ backlog' = Append(backlog, i) /\ end' = [end EXCEPT ![i] = "queued"]
        /\ UNCHANGED <<proc, conn, kpid, dn, dgrams, invOf, cur>>
    BY DEF IConnect, TypeOK, TypeSock, TypeInv, procVars, bookVars, loopVars
  <1>2. /\ i # NoInv /\ end[i] = "none" /\ dn[i] = <<>>
        /\ \A q \in Pid : conn[q] # i
        /\ \A k \in DOMAIN backlog : backlog[k] # i
    BY <1>1, LauncherAssumption DEF Owners, AcceptedOnce, Answers, Unserved
  <1>3. \A k \in DOMAIN backlog' :
           \/ k \in DOMAIN backlog /\ backlog'[k] = backlog[k]
           \/ k = Len(backlog) + 1 /\ backlog'[k] = i
    BY <1>1, AppendFacts
  <1>4. AcceptedOnce'
    BY <1>1, <1>2, <1>3, Ranges DEF Owners, AcceptedOnce
  <1>5. Ends'
    BY <1>1, <1>2, Ranges DEF Owners, Ends
  <1>6. Answers'
    <2>1. \A j \in Invoker : Unserved(j)' => Unserved(j)
      BY <1>1, <1>3 DEF Unserved
    <2>2. \A j \in Invoker : Pending(j)' => Pending(j)
      BY <1>1 DEF Pending
    <2>3. \A j \in Invoker : Early(j) => Early(j)'
      BY <1>1 DEF Early
    <2>4. \A j \in Invoker : Introduced(j) => Introduced(j)'
      BY <1>1 DEF Introduced, Read, Early
    <2>5. ASSUME NEW j \in Invoker, Talking(j)'
          PROVE  \A k \in DOMAIN dn'[j] : dn'[j][k].type = Nth(Read(j)' + k)
      BY <1>1, <1>2, <2>5 DEF Owners, Answers, Talking, Read, Early
    <2>6. \A j \in Invoker : ivk[j] = "exited" => ivk'[j] = "exited"
      BY <1>1
    <2> QED
      BY <1>1, <2>1, <2>2, <2>3, <2>4, <2>5, <2>6 DEF Owners, Answers
  <1>7. ASSUME NEW j \in Invoker PROVE OwnedBy(j)'
    <2>1. CASE j = i
      BY <1>1, <1>2, <2>1 DEF OwnedBy, Owners, Owned, Own, Left
    <2>2. CASE j # i
      BY <1>1, <2>2, Undisturbed DEF Owners, Owned, Own
    <2> QED BY <2>1, <2>2
  <1> QED BY <1>4, <1>5, <1>6, <1>7 DEF Owners, Owned

(* An invoker that reads, or stops reading, changes nothing but itself.    *)
LEMMA ReadOwners ==
  ASSUME TypeOK, Owners, NEW i \in Invoker,
         UNCHANGED <<proc, conn, backlog, end, dgrams, invOf, cur>>,
         ivk[i] # "start", ivk'[i] # "start",
         \A j \in Invoker \ {i} : ivk'[j] = ivk[j] /\ kpid'[j] = kpid[j] /\ dn'[j] = dn[j],
         Unserved(i) => dn'[i] = <<>> /\ ivk'[i] \in {"sent", "exited"},
         Talking(i)' => \A k \in DOMAIN dn'[i] : dn'[i][k].type = Nth(Read(i)' + k),
         Introduced(i) => Introduced(i)', OwnedBy(i)'
  PROVE  Owners'
  <1>1. AcceptedOnce'
    BY Ranges DEF Owners, AcceptedOnce
  <1>2. Ends'
    BY DEF Owners, Ends
  <1>3. ASSUME NEW j \in Invoker, j # i
        PROVE  /\ Unserved(j)' => dn'[j] = <<>> /\ (Early(j)' \/ ivk'[j] = "exited")
               /\ Talking(j)'
                    => \A k \in DOMAIN dn'[j] : dn'[j][k].type = Nth(Read(j)' + k)
               /\ Pending(j)' => Introduced(j)'
               /\ OwnedBy(j)'
    <2>1. ivk'[j] = ivk[j] /\ kpid'[j] = kpid[j] /\ dn'[j] = dn[j]
      BY <1>3
    <2>2. /\ Unserved(j)' => Unserved(j)
          /\ Pending(j)' => Pending(j)
          /\ Introduced(j) => Introduced(j)'
          /\ \A p \in Pid : Own(p, j) => Own(p, j)'
      BY <2>1 DEF Unserved, Pending, Introduced, Read, Early, Own
    <2>3. OwnedBy(j)'
      BY <2>1, <2>2, Undisturbed DEF Owners, Owned
    <2> QED
      BY <2>1, <2>2, <2>3 DEF Owners, Answers, Early, Read, Talking
  <1>4. Unserved(i)' => Unserved(i)
    BY DEF Unserved
  <1>5. Pending(i)' => Pending(i)
    BY DEF Pending
  <1> QED
    BY <1>1, <1>2, <1>3, <1>4, <1>5 DEF Owners, Answers, Owned, Early

(* It is over with the invoker, or it writes its request.                  *)
LEMMA SendOwners ==
  ASSUME TypeOK, Owners, NEW i \in Invoker, ISend(i)
  PROVE  Owners'
  <1> USE DEF procVars, bookVars, loopVars
  <1>1. CASE EOF(i)
    BY <1>1, SilentOwners DEF ISend, Fails, Silent, TypeOK, TypeInv
  <1>2. CASE ~EOF(i)
    <2>1. /\ ivk[i] = "connected" /\ ivk'[i] = "sent"
          /\ \A j \in Invoker \ {i} : ivk'[j] = ivk[j]
          /\ UNCHANGED <<proc, conn, kpid, dn, backlog, end, dgrams, invOf, cur>>
      BY <1>2 DEF ISend, TypeOK, TypeInv
    <2>2. /\ Unserved(i) => dn'[i] = <<>>
          /\ Talking(i)' => \A k \in DOMAIN dn'[i] : dn'[i][k].type = Nth(Read(i)' + k)
      BY <2>1 DEF Owners, Answers, Talking, Read, Early
    <2>3. Introduced(i) => Introduced(i)'
      BY <2>1 DEF Introduced, Read, Early
    <2>4. OwnedBy(i)'
      BY <2>1 DEF Owners, Owned, OwnedBy, Talking, Own, Left
    <2> QED
      BY <2>1, <2>2, <2>3, <2>4, ReadOwners
  <1> QED BY <1>1, <1>2

(* What is left when a message of type t has been read.                    *)
LEMMA GotFacts ==
  ASSUME TypeOK, Owners, NEW i \in Invoker, NEW t, t # "EXIT", Got(i, t), Talking(i),
         dn'[i] = Tail(dn[i]), UNCHANGED <<proc, conn, end>>,
         NEW r \in {1, 2}, Read(i) + 1 = r
  PROVE  /\ ~Unserved(i)
         /\ Len(dn'[i]) \in Nat /\ Len(dn'[i]) = Len(dn[i]) - 1
         /\ \A k \in DOMAIN dn'[i] : dn'[i][k].type = Nth(r + k)
         /\ \A k \in DOMAIN dn'[i] : dn'[i][k].type = "PID"
               => i \in Waiters /\ (Own(dn'[i][k].val, i) \/ Left(i))
  <1>1. dn[i] \in Seq(Message) /\ dn[i] # <<>> /\ dn[i][1].type = t
    BY Ranges, TailFacts DEF Got
  <1>2. ~Unserved(i)
    BY <1>1 DEF Owners, Answers
  <1>3. Read(i) \in 0 .. 2
    BY DEF Read
  <1>4. ASSUME NEW k \in DOMAIN dn'[i]
        PROVE  /\ k \in Nat /\ k + 1 \in DOMAIN dn[i] /\ dn'[i][k] = dn[i][k + 1]
               /\ dn[i][k + 1] \in Message
    BY <1>1, <1>4, TailFacts
  <1>5. \A k \in DOMAIN dn'[i] : dn'[i][k].type = Nth(Read(i) + (k + 1))
    BY <1>4 DEF Owners, Answers
  <1>6. \A k \in DOMAIN dn'[i] : Read(i) + (k + 1) = r + k
    BY <1>3, <1>4
  <1>7. \A k \in DOMAIN dn'[i] : dn'[i][k].type = "PID"
           => i \in Waiters /\ (Own(dn'[i][k].val, i) \/ Left(i))
    BY <1>4 DEF Owners, Owned, OwnedBy
  <1>8. Len(dn[i]) \in Nat \ {0} /\ Len(dn'[i]) = Len(dn[i]) - 1
    BY <1>1, TailFacts
  <1> QED
    BY <1>2, <1>5, <1>6, <1>7, <1>8

(* It reads the acknowledgement, ...                                       *)
LEMMA AckOwners ==
  ASSUME TypeOK, Owners, NEW i \in Invoker, IAck(i)
  PROVE  Owners'
  <1> USE DEF procVars, bookVars, loopVars
  <1>1. /\ ivk[i] = "sent" /\ Talking(i) /\ Read(i) = 0 /\ Read(i) + 1 = 1
        /\ \A j \in Invoker \ {i} : ivk'[j] = ivk[j] /\ kpid'[j] = kpid[j] /\ dn'[j] = dn[j]
        /\ UNCHANGED <<proc, conn, kpid, backlog, end, dgrams, invOf, cur>>
    BY DEF IAck, Fails, TypeOK, TypeInv, TypeSock, Talking, Read, Early
  <1>2. CASE ~Got(i, "ACK")
    BY <1>2, SilentOwners DEF IAck, Fails, Silent, TypeOK, TypeInv
  <1>3. CASE Got(i, "ACK")
    <2>1. dn'[i] = Tail(dn[i])
      BY <1>3 DEF IAck, TypeOK, TypeSock
    <2>2. CASE i \in Waiters
      <3>1. ivk'[i] = "acked"
        BY <1>3, <2>2 DEF IAck, TypeOK, TypeInv
      <3>2. /\ ~Unserved(i)
            /\ \A k \in DOMAIN dn'[i] : dn'[i][k].type = Nth(1 + k)
        BY <1>1, <1>3, <2>1, GotFacts
      <3>3. Talking(i)' => \A k \in DOMAIN dn'[i] : dn'[i][k].type = Nth(Read(i)' + k)
        BY <3>1, <3>2 DEF Read, Early
      <3>4. Introduced(i) => Introduced(i)'
        <4>1. Len(dn'[i]) \in Nat /\ Len(dn'[i]) = Len(dn[i]) - 1
          BY <1>1, <1>3, <2>1, GotFacts
        <4>2. Read(i)' = 1
          BY <3>1 DEF Read, Early
        <4>3. Len(dn[i]) \in Nat
          BY Ranges
        <4>4. Introduced(i) => Len(dn[i]) >= 2
          BY <1>1, <4>3 DEF Introduced
        <4> QED
          BY <4>1, <4>2, <4>3, <4>4 DEF Introduced
      <3>5. OwnedBy(i)'
        <4>1. \A k \in DOMAIN dn'[i] : dn'[i][k].type = "PID"
                 => i \in Waiters /\ (Own(dn'[i][k].val, i) \/ Left(i))
          BY <1>1, <1>3, <2>1, GotFacts
        <4> QED
          BY <1>1, <3>1, <4>1 DEF Owners, Owned, OwnedBy, Own, Left
      <3> QED
        BY <1>1, <3>1, <3>2, <3>3, <3>4, <3>5, ReadOwners
    <2>3. CASE i \notin Waiters
      <3>1. ivk'[i] = "exited"
        BY <2>3 DEF IAck, Fails, TypeOK, TypeInv
      <3>2. ~Unserved(i)
        BY <1>1, <1>3, <2>1, GotFacts
      <3>3. ~Talking(i)' /\ OwnedBy(i)'
        BY <1>1, <3>1 DEF Talking, Owners, Owned, OwnedBy, Own, Left
      <3>4. Introduced(i)'
        <4>1. Len(dn'[i]) \in Nat
          BY <1>1, <1>3, <2>1, GotFacts
        <4>2. Read(i)' = 2
          BY <3>1 DEF Read, Early
        <4> QED
          BY <4>1, <4>2 DEF Introduced
      <3> QED
        BY <1>1, <3>1, <3>2, <3>3, <3>4, ReadOwners
    <2> QED BY <2>2, <2>3
  <1> QED BY <1>2, <1>3

(* ... the pid ...                                                         *)
LEMMA PidOwners ==
  ASSUME TypeOK, Owners, NEW i \in Invoker, IPid(i)
  PROVE  Owners'
  <1> USE DEF procVars, bookVars, loopVars
  <1>1. CASE ~Got(i, "PID")
    BY <1>1, SilentOwners DEF IPid, Fails, Silent, TypeOK, TypeInv
  <1>2. CASE Got(i, "PID")
    <2>1. /\ ivk[i] = "acked" /\ Talking(i) /\ Read(i) + 1 = 2
          /\ \A j \in Invoker \ {i} :
                ivk'[j] = ivk[j] /\ kpid'[j] = kpid[j] /\ dn'[j] = dn[j]
          /\ UNCHANGED <<proc, conn, backlog, end, dgrams, invOf, cur>>
          /\ ivk'[i] = "waiting" /\ kpid'[i] = Head(dn[i]).val
          /\ dn'[i] = Tail(dn[i])
      BY <1>2 DEF IPid, TypeOK, TypeInv, TypeSock, Talking, Read, Early
    <2>2. /\ ~Unserved(i)
          /\ \A k \in DOMAIN dn'[i] : dn'[i][k].type = Nth(2 + k)
          /\ Len(dn'[i]) \in Nat
      BY <1>2, <2>1, GotFacts
    <2>3. Read(i)' = 2
      BY <2>1 DEF Read, Early
    <2>4. Introduced(i)'
      BY <2>2, <2>3 DEF Introduced
    <2>5. OwnedBy(i)'
      <3>1. /\ Head(dn[i]) = dn[i][1] /\ 1 \in DOMAIN dn[i]
            /\ dn[i][1].type = "PID" /\ dn[i][1] \in Message
        BY <1>2, Ranges, TailFacts DEF Got
      <3>2. /\ kpid'[i] \in Pid /\ i \in Waiters
            /\ Own(kpid'[i], i) \/ Left(i)
        BY <2>1, <3>1, ReadMsg DEF Owners, Owned, OwnedBy
      <3>3. \A k \in DOMAIN dn'[i] : dn'[i][k].type = "PID"
               => i \in Waiters /\ (Own(dn'[i][k].val, i) \/ Left(i))
        BY <1>2, <2>1, GotFacts
      <3> QED
        BY <2>1, <3>2, <3>3, PidFacts DEF OwnedBy, Own, Left
    <2>6. Talking(i)' => \A k \in DOMAIN dn'[i] : dn'[i][k].type = Nth(Read(i)' + k)
      BY <2>2, <2>3
    <2> QED
      BY <2>1, <2>2, <2>4, <2>5, <2>6, ReadOwners
  <1> QED BY <1>1, <1>2

(* ... the exit status, and hangs up; it hangs up without one; it waits,   *)
(* goes, or goes on to kill.                                               *)
LEMMA CloseOwners ==
  ASSUME TypeOK, Owners, NEW i \in Invoker,
         \/ IExit(i) \/ ISignal(i) \/ IDrain(i) \/ IDisconnected(i)
         \/ IShutTimeout(i) \/ IClose(i)
  PROVE  Owners'
  <1>1. /\ ivk[i] \in {"waiting", "closing", "expired"}
        /\ ivk'[i] \in {"closing", "expired", "killing", "exited"}
        /\ \A j \in Invoker \ {i} :
              ivk'[j] = ivk[j] /\ kpid'[j] = kpid[j] /\ dn'[j] = dn[j]
        /\ UNCHANGED <<proc, conn, backlog, end, dgrams, invOf, cur>>
    BY DEF IExit, ISignal, IDrain, IDisconnected, IShutTimeout, IClose, TypeOK,
           TypeInv, TypeSock, procVars, sockVars, bookVars, loopVars
  <1>2. ~Unserved(i)
    BY <1>1 DEF Owners, Answers, Early
  <1>3. ~Talking(i)'
    BY <1>1 DEF Talking
  <1>4. Introduced(i)'
    <2>1. dn'[i] \in Seq(Message)
      <3>1. dn[i] \in Seq(Message)
        BY Ranges
      <3>2. \/ dn'[i] = dn[i]
            \/ dn'[i] = <<>>
            \/ dn[i] # <<>> /\ dn'[i] = Tail(dn[i])
        BY DEF IExit, ISignal, IDrain, IDisconnected, IShutTimeout, IClose, TypeOK,
               TypeSock, Got, sockVars
      <3> QED BY <3>1, <3>2, SeqFacts
    <2>2. Read(i)' = 2
      BY <1>1 DEF Read, Early
    <2>3. Len(dn'[i]) \in Nat
      BY <2>1
    <2> QED
      BY <2>2, <2>3 DEF Introduced
  <1>5. OwnedBy(i)'
    <2>1. kpid'[i] \in {kpid[i], NoPid}
      BY DEF IExit, ISignal, IDrain, IDisconnected, IShutTimeout, IClose, TypeOK,
             TypeInv
    <2>2. ivk'[i] = "killing" => kpid'[i] # NoPid
      BY <1>1 DEF IExit, ISignal, IDrain, IDisconnected, IShutTimeout, IClose,
                  TypeOK, TypeInv
    <2> QED
      BY <1>1, <1>3, <2>1, <2>2 DEF Owners, Owned, OwnedBy, Own, Left
  <1> QED
    BY <1>1, <1>2, <1>3, <1>4, <1>5, ReadOwners

LEMMA InvokerOwners ==
  ASSUME TypeOK, Owners, NEW i \in Invoker, InvokerStep(i) \/ ISignal(i) \/ IDie(i)
  PROVE  Owners'
  BY ConnectOwners, SendOwners, AckOwners, PidOwners, CloseOwners, InvokerSilent,
     SilentOwners DEF InvokerTalks

-----------------------------------------------------------------------------
(* readFromBoosterSocket(): the daemon takes the connection over.          *)
LEMMA DatagramOwners ==
  ASSUME TypeInvariant, Owners, DReadBooster
  PROVE  Owners'
  <1> USE DEF TypeInvariant
  <1>1. CASE ForkFails
    BY <1>1, VanishSilent, SilentOwners DEF DReadBooster, ForkFails
  <1>2. CASE ~ForkFails
    <2> DEFINE h == Head(dgrams)
    <2>1. PICK q \in Pid : proc[q] = "unused" /\ proc' = [proc EXCEPT ![q] = "forked"]
      BY <1>2 DEF DReadBooster, Fork, IsLeast, Unused
    <2>2. PICK i \in InvOrNone : i = Head(dgrams).inv
      <3>1. Head(dgrams) \in Datagram
        BY SeqFacts DEF DReadBooster, Ctl, TypeOK, TypeSock
      <3> QED
        BY <3>1 DEF Datagram
    <2>3. /\ dgrams \in Seq(Datagram) /\ dgrams # <<>> /\ dgrams' = Tail(dgrams)
          /\ invOf' = [invOf EXCEPT ![bpid] = IF i # NoInv THEN i ELSE @]
          /\ end' = [e \in Invoker |-> IF e = i THEN "daemon" ELSE end[e]]
          /\ bpid \in Pid /\ invOf \in [Pid -> InvOrNone]
          /\ proc \in [Pid -> ProcState] /\ end \in [Invoker -> EndState]
          /\ UNCHANGED <<conn, ivk, kpid, backlog, dn, cur>>
      BY <1>2, <2>2 DEF DReadBooster, Ctl, TypeOK, TypeSock, TypeProc, TypeDaemon,
                        invVars
    <2>4. 1 \in DOMAIN dgrams /\ dgrams[1].inv = i
      BY <2>2, <2>3, TailFacts
    <2>5. i # NoInv => i \in Invoker /\ end[i] = "flight" /\ Pending(i)
      BY <2>4 DEF Owners, Ends, Pending, InvOrNone
    <2>6. \A k \in DOMAIN dgrams' : \E l \in DOMAIN dgrams :
             l = k + 1 /\ dgrams'[k] = dgrams[l] /\ (i # NoInv => dgrams[l].inv # i)
      <3>1. ASSUME NEW k \in DOMAIN dgrams'
            PROVE  /\ k \in Nat \ {0} /\ k + 1 \in DOMAIN dgrams
                   /\ dgrams'[k] = dgrams[k + 1]
        BY <2>3, <3>1, TailFacts
      <3> QED
        BY <2>4, <3>1 DEF Owners, Ends
    <2>7. AcceptedOnce'
      <3>1. \A j \in Invoker : end[j] \in {"none", "queued"} => end'[j] = end[j]
        BY <2>3, <2>5, LauncherAssumption
      <3> QED
        BY <2>3, <3>1, Ranges DEF Owners, AcceptedOnce
    <2>8. Ends'
      <3>1. \A p \in Pid : proc'[p] \in {"serving", "checking"} => proc'[p] = proc[p]
        BY <2>1, <2>3
      <3>2. \A k \in DOMAIN dgrams' : dgrams'[k].inv # NoInv
               => end'[dgrams'[k].inv] = "flight"
        BY <2>3, <2>6, Ranges, LauncherAssumption DEF Owners, Ends
      <3>3. \A k, l \in DOMAIN dgrams' :
               dgrams'[k].inv # NoInv /\ dgrams'[k].inv = dgrams'[l].inv => k = l
        <4>1. DOMAIN dgrams' \subseteq Nat
          BY <2>3
        <4> QED
          BY <2>6, <4>1 DEF Owners, Ends
      <3>4. \A p \in Pid : invOf'[p] # NoInv
               => invOf'[p] \in Invoker /\ end'[invOf'[p]] \in {"daemon", "closed"}
        BY <2>3, <2>5, Ranges DEF Owners, Ends
      <3>5. cur.inv # NoInv => end'[cur.inv] \in {"daemon", "closed"}
        BY <2>3, Ranges DEF Owners, Ends
      <3>6. \A p \in Pid : proc'[p] \in {"serving", "checking"}
               => conn[p] # NoInv /\ conn[p] \in Invoker /\ end'[conn[p]] = end[conn[p]]
        BY <2>3, <2>5, <3>1, Ranges DEF Owners, Ends
      <3>7. \A p \in Pid : proc'[p] = "serving"
               => conn'[p] # NoInv /\ end'[conn'[p]] = "booster"
        <4>1. \A p \in Pid : proc[p] = "serving" => end[conn[p]] = "booster"
          BY DEF Owners, Ends
        <4>2. conn' = conn
          BY <2>3
        <4> QED
          BY <3>1, <3>6, <4>1, <4>2
      <3>8. \A p \in Pid : proc'[p] = "checking"
               => /\ conn'[p] # NoInv
                  /\ end'[conn'[p]] = IF conn'[p] \in Waiters THEN "booster" ELSE "closed"
        <4>1. \A p \in Pid : proc[p] = "checking"
                 => end[conn[p]] = IF conn[p] \in Waiters THEN "booster" ELSE "closed"
          BY DEF Owners, Ends
        <4>2. conn' = conn
          BY <2>3
        <4> QED
          BY <3>1, <3>6, <4>1, <4>2
      <3>9. cur' = cur
        BY <2>3
      <3> QED
        BY <3>2, <3>3, <3>4, <3>5, <3>7, <3>8, <3>9 DEF Ends
    <2>9. Answers'
      <3>1. \A j \in Invoker : Unserved(j)' => Unserved(j)
        BY <2>1, <2>3 DEF Unserved
      <3>2. \A j \in Invoker : Pending(j)' => Pending(j)
        BY <2>1, <2>3, <2>5, <2>6, LauncherAssumption DEF Pending
      <3>3. UNCHANGED <<ivk, dn>>
        BY <2>3
      <3> QED
        BY <3>1, <3>2, <3>3 DEF Owners, Answers, Early, Introduced, Read, Talking
    <2>10. ASSUME NEW j \in Invoker PROVE OwnedBy(j)'
      <3>1. \A p \in Pid : Own(p, j) => Own(p, j)'
        BY <2>1, <2>3 DEF Own, Owning, Dead
      <3>2. end[j] = "closed" => end'[j] = "closed"
        BY <2>3, <2>5, LauncherAssumption
      <3> QED
        BY <2>3, <3>1, <3>2, Undisturbed DEF Owners, Owned
    <2> QED BY <2>7, <2>8, <2>9, <2>10 DEF Owners, Owned
  <1> QED BY <1>1, <1>2

(* The exit status is sent to the invoker: nothing comes after it.         *)
LEMMA SendExitOwners ==
  ASSUME TypeInvariant, Owners, DSendExit
  PROVE  Owners'
  <1> USE DEF TypeInvariant, procVars, invVars, bookVars
  <1> PICK i \in Invoker : i = cur.inv
    BY DEF DSendExit, Ctl
  <1>1. CASE HungUp(i)
    BY <1>1, SilentOwners DEF DSendExit, Silent
  <1>2. CASE ~HungUp(i)
    <2>1. /\ dn' = [dn EXCEPT ![i] = Append(@, ExitMsg(cur.st))]
          /\ dn \in [Invoker -> Seq(Message)] /\ cur.st \in Status
          /\ UNCHANGED <<proc, conn, ivk, kpid, backlog, end, dgrams, invOf, cur>>
      BY <1>2 DEF DSendExit, TypeOK, TypeSock, TypeDaemon, Burial
    <2>2. ExitMsg(cur.st) \in Message
      BY <2>1, WriteMsg
    <2>3. dn'[i] = Append(dn[i], ExitMsg(cur.st))
          /\ \A j \in Invoker \ {i} : dn'[j] = dn[j]
      BY <2>1
    <2>4. Introduced(i) /\ i # NoInv
      BY LauncherAssumption DEF Owners, Answers, Pending
    <2>5. end[i] \in {"daemon", "closed"}
      BY <2>4 DEF Owners, Ends
    <2>6. ~Unserved(i)
      BY <2>4, <2>5 DEF Unserved, Owners, AcceptedOnce, Ends
    <2>7. AcceptedOnce' /\ Ends'
      BY <2>1 DEF Owners, AcceptedOnce, Ends
    <2>8. Answers'
      <3>1. ASSUME NEW j \in Invoker, Unserved(j)'
            PROVE  dn'[j] = <<>> /\ (Early(j)' \/ ivk'[j] = "exited")
        <4>1. Unserved(j)
          BY <2>1, <3>1 DEF Unserved
        <4> QED
          BY <2>1, <2>3, <2>6, <4>1 DEF Owners, Answers, Early
      <3>2. ASSUME NEW j \in Invoker, Talking(j)'
            PROVE  \A k \in DOMAIN dn'[j] : dn'[j][k].type = Nth(Read(j)' + k)
        <4>1. CASE j = i
          BY <2>1, <2>3, <2>4, <3>2, <4>1, ExitLast DEF Owners
        <4>2. CASE j # i
          BY <2>1, <2>3, <3>2, <4>2 DEF Owners, Answers, Talking, Read, Early
        <4> QED BY <4>1, <4>2
      <3>3. ASSUME NEW j \in Invoker, Pending(j)' PROVE Introduced(j)'
        <4>1. Introduced(j)
          BY <2>1, <3>3 DEF Owners, Answers, Pending
        <4> QED
          BY <2>1, <2>2, <2>3, <4>1, MoreSaid
      <3> QED BY <3>1, <3>2, <3>3 DEF Answers
    <2>9. ASSUME NEW j \in Invoker PROVE OwnedBy(j)'
      <3>1. CASE j # i
        BY <2>1, <2>3, <3>1, Undisturbed DEF Owners, Owned, Own
      <3>2. CASE j = i
        <4>1. dn[i] \in Seq(Message)
          BY <2>1
        <4>2. \A k \in DOMAIN dn'[i] : dn'[i][k].type = "PID"
                 => k \in DOMAIN dn[i] /\ dn'[i][k] = dn[i][k]
          BY <2>2, <2>3, <4>1, AppendFacts DEF ExitMsg
        <4> QED
          BY <2>1, <3>2, <4>2 DEF Owners, Owned, OwnedBy, Own, Left, Talking
      <3> QED BY <3>1, <3>2
    <2> QED BY <2>7, <2>8, <2>9 DEF Owners, Owned
  <1> QED BY <1>1, <1>2
-----------------------------------------------------------------------------
(* Nothing has been said at the start.                                     *)
LEMMA InitOwners == Init => Owners
  <1> SUFFICES ASSUME Init PROVE Owners
    OBVIOUS
  <1>1. AcceptedOnce /\ Ends
    BY LauncherAssumption DEF Init, AcceptedOnce, Ends, NoCur
  <1>2. Answers
    BY LauncherAssumption
       DEF Init, Answers, Early, Talking, Pending, NoCur
  <1>3. Owned
    BY DEF Init, Owned, OwnedBy
  <1> QED BY <1>1, <1>2, <1>3 DEF Owners

LEMMA OwnersInv == Base /\ Owners /\ [Next]_vars => Owners'
  <1> SUFFICES ASSUME Base, Owners, [Next]_vars PROVE Owners'
    OBVIOUS
  <1> USE DEF Base, TypeInvariant
  <1>1. ASSUME NEW p \in Pid, BoosterStep(p) \/ AppExit(p) \/ BCrash(p)
        PROVE  Owners'
    BY <1>1, BoosterOwners
  <1>2. ASSUME NEW i \in Invoker, InvokerStep(i) \/ ISignal(i) \/ IDie(i)
        PROVE  Owners'
    BY <1>2, InvokerOwners
  <1>3. CASE DaemonStep \/ OutsideMode \/ OutsideTerm \/ DCrash \/ UNCHANGED vars
    BY <1>3, DatagramOwners, SendExitOwners, DaemonSilent, SilentOwners
       DEF DaemonTalks
  <1> QED
    BY <1>1, <1>2, <1>3 DEF Next, Rest

(* The pid an invoker has been sent stays that of the process that serves  *)
(* it: a booster that turns to another invoker has closed the connection   *)
(* of the first before (kill_application() in invoker.c, and the loop of   *)
(* Booster::run).                                                          *)
THEOREM PidIsOwnHolds == Spec => []PidIsOwn
  <1>1. Owners => PidIsOwn
    BY DEF Owners, Owned, OwnedBy, Own, Left, EOF, PidIsOwn
  <1> QED
    BY <1>1, InitOwners, OwnersInv, BaseInv, PTL DEF Spec
-----------------------------------------------------------------------------
(* An exit status is true when it is taken over for an invoker; the rest   *)
(* is that it stays true on its way, through the burial in the daemon and  *)
(* the connection, to the invoker's own exit status.                       *)

(* The connection of i is neither waiting nor with a booster: nothing will *)
(* be launched for i any more.                                             *)
Over(i) ==
    /\ ivk[i] # "start"
    /\ \A k \in DOMAIN backlog : backlog[k] # i
    /\ \A p \in Pid : conn[p] = i => proc[p] \notin {"serving", "checking"}

Settled(i, s) == Over(i) /\ Verdict(i, s)

(* A process that has not ended has no wait status yet.                    *)
Fresh == \A p \in Pid : proc[p] \notin Dead => xstat[p] = Failure

(* What is written, taken over, and about to be sent is true; whom the     *)
(* daemon still has to close has hung up.                                  *)
Written ==
    \A i \in Invoker : \A k \in DOMAIN dn[i] :
        dn[i][k].type = "EXIT" => Settled(i, dn[i][k].val)
Heard ==
    \A i \in Invoker :
        ivk[i] = "closing" /\ kpid[i] = NoPid => Settled(i, est[i])
ToSend == dpc = "close" => Settled(cur.inv, cur.st)
Closing ==
    dpc \in {"dgram", "sig", "closed"} \/ cur.why = "closed"
        => \A p \in todo : ~wr[invOf[p]]

Faithful == Fresh /\ (~raced => Written /\ Heard /\ ToSend /\ Closing)
-----------------------------------------------------------------------------
(* What no step does: bring a connection or an invoker back, or change the *)
(* wait status of a process that has ended.                                *)
Queued(i) == \E k \in DOMAIN backlog : backlog[k] = i
SteadyProc(p) ==
    /\ conn'[p] # conn[p] => Queued(conn'[p])
    /\ proc'[p] \in {"serving", "checking"}
          => proc[p] \in {"serving", "checking"} \/ Queued(conn'[p])
    /\ proc'[p] = "handing" => proc[p] \in {"checking", "handing"}
    /\ \/ xstat'[p] = xstat[p]
       \/ /\ proc[p] \in Alive /\ proc'[p] \in Dead
          /\ xstat'[p] = Failure \/ proc[p] = "app"
    /\ proc'[p] \notin Dead => proc[p] \notin Dead
SteadyQueue ==
    \A k \in DOMAIN backlog' : ivk[backlog'[k]] = "start" \/ Queued(backlog'[k])
SteadyInv ==
    \A i \in Invoker : /\ ivk'[i] = "start" => ivk[i] = "start"
                       /\ wr'[i] => wr[i]
Steady == (\A p \in Pid : SteadyProc(p)) /\ SteadyQueue /\ SteadyInv

(* Deaths are steady; so are a SIGTERM and the end of the daemon.          *)
LEMMA DieSteady ==
  ASSUME TypeOK, NEW S, NEW s, Die(S, s), UNCHANGED conn,
         \A p \in S : proc[p] \in Alive /\ (s = Failure \/ proc[p] = "app")
  PROVE  \A p \in Pid : SteadyProc(p)
  BY DEF TypeOK, TypeProc, Die, SteadyProc, Dead, Alive, PreLaunch, Idle

LEMMA TerminateSteady ==
  ASSUME TypeOK, NEW p, NEW pip, Terminate(p, pip), UNCHANGED <<conn>>
  PROVE  \A q \in Pid : SteadyProc(q)
  <1>1. CASE proc[p] \in Armed \cup {"app"} /\ Die({p}, Failure)
    BY <1>1, DieSteady DEF Armed, Alive, PreLaunch
  <1>2. CASE UNCHANGED <<proc, xstat>>
    BY <1>2 DEF SteadyProc
  <1> QED
    BY <1>1, <1>2 DEF Terminate

LEMMA VanishSteady ==
  ASSUME TypeOK, Vanish, UNCHANGED <<conn, xstat>>
  PROVE  \A p \in Pid : SteadyProc(p)
  BY DEF TypeOK, TypeProc, Vanish, SteadyProc, Dead

(* The queue.                                                              *)
LEMMA SameQueue ==
  ASSUME TypeOK, UNCHANGED backlog
  PROVE  SteadyQueue
  BY DEF SteadyQueue, Queued

LEMMA BoosterSteady ==
  ASSUME TypeOK, NEW p \in Pid, BoosterStep(p) \/ AppExit(p) \/ BCrash(p)
  PROVE  Steady
  <1> USE DEF TypeOK, TypeProc, TypeSock
  <1>1. SteadyInv
    BY DEF SteadyInv, BoosterStep, BRestore, BReady, BAccept, BReceive,
           BReceiveFails, BActivate, BLaunch, BDisown, AppExit, BCrash, invVars,
           sockVars
  <1>2. CASE BAccept(p)
    <2>1. backlog' = Tail(backlog) /\ backlog # <<>> /\ backlog \in Seq(Invoker)
      BY <1>2 DEF BAccept
    <2>2. 1 \in DOMAIN backlog /\ Head(backlog) = backlog[1]
      BY <2>1, TailFacts
    <2>3. \A k \in DOMAIN backlog' : k + 1 \in DOMAIN backlog /\ backlog'[k] = backlog[k + 1]
      BY <2>1, TailFacts
    <2>4. SteadyQueue
      BY <2>3 DEF SteadyQueue, Queued
    <2>5. Queued(Head(backlog))
      BY <2>2 DEF Queued
    <2>6. \A q \in Pid : SteadyProc(q)
      BY <1>2, <2>5 DEF BAccept, SteadyProc, Dead
    <2> QED BY <1>1, <2>4, <2>6 DEF Steady
  <1>3. CASE ~BAccept(p)
    <2>1. SteadyQueue
      BY <1>3, SameQueue
         DEF BoosterStep, BRestore, BReady, BReceive, BReceiveFails, BActivate,
             BLaunch, BDisown, AppExit, BCrash, sockVars
    <2>2. CASE BRestore(p) \/ BReady(p) \/ BReceive(p) \/ BLaunch(p) \/ BDisown(p)
      BY <1>1, <2>1, <2>2
         DEF Steady, BRestore, BReady, BReceive, BLaunch, BDisown, SteadyProc, Dead
    <2>3. CASE BReceiveFails(p) \/ AppExit(p) \/ BCrash(p)
      <3>1. PICK s : Die({p}, s) /\ (s = Failure \/ proc[p] = "app")
        BY <2>3 DEF BReceiveFails, AppExit, BCrash
      <3>2. proc[p] \in Alive /\ UNCHANGED conn
        BY <2>3 DEF BReceiveFails, AppExit, BCrash, Alive, PreLaunch, Idle
      <3> QED
        BY <1>1, <2>1, <3>1, <3>2, DieSteady DEF Steady
    <2>4. CASE BActivate(p)
      <3>1. CASE Die({p}, Failure)
        BY <1>1, <2>1, <2>4, <3>1, DieSteady
           DEF Steady, BActivate, Alive, PreLaunch, Idle
      <3>2. CASE ~Die({p}, Failure)
        BY <1>1, <2>1, <2>4, <3>2 DEF Steady, BActivate, SteadyProc, Dead
      <3> QED BY <3>1, <3>2, <1>1, <2>1 DEF Steady
    <2> QED
      BY <1>1, <1>3, <2>1, <2>2, <2>3, <2>4 DEF Steady, BoosterStep
  <1> QED BY <1>2, <1>3

LEMMA InvokerSteady ==
  ASSUME TypeOK, NEW i \in Invoker, InvokerStep(i) \/ ISignal(i) \/ IDie(i)
  PROVE  Steady
  <1> USE DEF TypeOK, TypeProc, TypeSock, TypeInv
  <1>1. SteadyInv
    BY DEF SteadyInv, InvokerStep, IConnect, IFallback, ISend, IAck, IPid, IExit,
           ISignal, IDrain, IClose, IDisconnected, IShutTimeout, IKillApp,
           IKillForce, IKilled, IDie, Fails, sockVars
  <1>2. SteadyQueue
    <2>1. CASE IConnect(i)
      <3>1. \A k \in DOMAIN backlog' :
               (k \in DOMAIN backlog /\ backlog'[k] = backlog[k]) \/ backlog'[k] = i
        BY <2>1, AppendFacts DEF IConnect
      <3> QED
        BY <2>1, <3>1 DEF IConnect, SteadyQueue, Queued
    <2>2. CASE ~IConnect(i)
      BY <2>2, SameQueue
         DEF InvokerStep, IFallback, ISend, IAck, IPid, IExit, ISignal,
             IDrain, IClose, IDisconnected, IShutTimeout, IKillApp, IKillForce,
             IKilled, IDie,
             sockVars
    <2> QED BY <2>1, <2>2
  <1>3. \A p \in Pid : SteadyProc(p)
    <2>1. CASE UNCHANGED <<proc, conn, xstat>>
      BY <2>1 DEF SteadyProc
    <2>2. CASE IKillApp(i)
      BY <2>2, TerminateSteady DEF IKillApp
    <2>3. CASE IKillForce(i)
      BY <2>1, <2>3, DieSteady DEF IKillForce
    <2> QED
      BY <2>1, <2>2, <2>3
         DEF InvokerStep, IConnect, IFallback, ISend, IAck, IPid, IExit, ISignal,
             IDrain, IClose, IDisconnected, IShutTimeout, IKilled, IDie, procVars
  <1> QED BY <1>1, <1>2, <1>3 DEF Steady

LEMMA DaemonSteady ==
  ASSUME TypeInvariant, Forked,
         DaemonStep \/ OutsideMode \/ OutsideTerm \/ DCrash \/ UNCHANGED vars
  PROVE  Steady
  <1> USE DEF TypeInvariant, procVars, invVars, sockVars
  <1>1. SteadyInv
    BY DEF SteadyInv, DaemonStep, DSelect, DReadBooster, DChild, DTerminate, DIgnore,
           DSwitchMode, ReadSignal, DReap, DSkip, DReaped, DClosed, DTerm, DStray,
           DSendExit, DShut, DKillInvoker, DWaitInvoker, DExit, DKillBooster,
           DWaitBooster, DHandler, OutsideMode, OutsideTerm, DCrash, vars, TypeOK,
           TypeInv, TypeSock
  <1>2. SteadyQueue
    BY SameQueue
       DEF DaemonStep, DSelect, DReadBooster, DChild, DTerminate, DIgnore,
           DSwitchMode, ReadSignal, DReap, DSkip, DReaped, DClosed, DTerm, DStray,
           DSendExit, DShut, DKillInvoker, DWaitInvoker, DExit, DKillBooster,
           DWaitBooster, DHandler, OutsideMode, OutsideTerm, DCrash, vars
  <1>3. \A p \in Pid : SteadyProc(p)
    <2>1. CASE UNCHANGED <<proc, conn, xstat>>
      BY <2>1 DEF SteadyProc
    <2>2. CASE DReadBooster \/ DReaped
      <3>1. CASE ForkFails
        BY <2>2, <3>1, VanishSteady DEF ForkFails, DReadBooster, DReaped
      <3>2. ASSUME NEW q \in Pid, IsLeast(q, Unused), Fork(q)
            PROVE  \A p \in Pid : SteadyProc(p)
        BY <2>2, <3>2 DEF DReadBooster, DReaped, IsLeast, Unused, Fork, SteadyProc,
                          TypeOK, TypeProc, Dead
      <3> QED
        BY <2>1, <2>2, <3>1, <3>2 DEF DReadBooster, DReaped
    <2>3. CASE DExit \/ DCrash
      BY <2>3, VanishSteady DEF DExit, DCrash
    <2>4. CASE DSwitchMode
      BY <2>4, TerminateSteady DEF DSwitchMode, KillBoosters, ReadSignal
    <2>5. CASE DStray \/ \E p \in Pid : DReap(p)
      BY <2>5 DEF DStray, DReap, SteadyProc, TypeOK, TypeProc, Dead
    <2>6. CASE DKillBooster
      BY <2>1, <2>6, TerminateSteady DEF DKillBooster
    <2>7. CASE DWaitBooster
      <3>1. CASE proc[cur.pid] \in Alive
        BY <2>7, <3>1, DieSteady DEF DWaitBooster
      <3>2. CASE proc[cur.pid] \notin Alive
        <4>1. cur.pid \in Pid /\ proc[cur.pid] \in Dead
          BY <2>7, <3>2 DEF DWaitBooster, Ctl, Forked, TypeOK, TypeProc, ProcState
        <4> QED
          BY <2>7, <3>2, <4>1 DEF DWaitBooster, SteadyProc, TypeOK, TypeProc, Dead
      <3> QED BY <3>1, <3>2
    <2> QED
      BY <2>1, <2>2, <2>3, <2>4, <2>5, <2>6, <2>7
         DEF DaemonStep, DSelect, DChild, DTerminate, DIgnore, ReadSignal, DSkip,
             DClosed, DTerm, DSendExit, DShut, DKillInvoker, DWaitInvoker, DHandler,
             OutsideMode, OutsideTerm, vars
  <1> QED BY <1>1, <1>2, <1>3 DEF Steady

LEMMA AlwaysSteady ==
  ASSUME Base, [Next]_vars
  PROVE  Steady
  BY BoosterSteady, InvokerSteady, DaemonSteady DEF Base, TypeInvariant, Next, Rest
-----------------------------------------------------------------------------
(* A verdict stays one.                                                    *)
LEMMA SettledStays ==
  ASSUME Base, Fresh, [Next]_vars, NEW i \in Invoker, NEW s, Settled(i, s)
  PROVE  Settled(i, s)'
  <1>1. Steady /\ Life
    BY AlwaysSteady, AlwaysLife DEF Base
  <1>2. ~Queued(i) /\ ivk[i] # "start"
    BY DEF Settled, Over, Queued
  <1>3. ASSUME NEW p \in Pid, conn'[p] = i
        PROVE  conn[p] = i /\ proc[p] \notin {"serving", "checking"}
    BY <1>1, <1>2, <1>3 DEF Steady, SteadyProc, Settled, Over
  <1>4. Over(i)'
    <2>1. ivk'[i] # "start"
      BY <1>1, <1>2 DEF Steady, SteadyInv
    <2>2. \A k \in DOMAIN backlog' : backlog'[k] # i
      BY <1>1, <1>2 DEF Steady, SteadyQueue
    <2>3. \A p \in Pid : conn'[p] = i => proc'[p] \notin {"serving", "checking"}
      BY <1>1, <1>2, <1>3 DEF Steady, SteadyProc
    <2> QED BY <2>1, <2>2, <2>3 DEF Over
  <1>5. ASSUME NEW p \in Pid, proc[p] \in Dead
        PROVE  proc'[p] \in Dead /\ conn'[p] = conn[p] /\ xstat'[p] = xstat[p]
    BY <1>1, <1>5 DEF Steady, SteadyProc, Life, NextState, Dead, Alive, PreLaunch, Idle
  <1>6. CASE \E p \in Pid : conn[p] = i /\ proc[p] \in Dead /\ xstat[p] = s
    BY <1>4, <1>5, <1>6 DEF Settled, Verdict
  <1>7. CASE s = Failure /\ (~DaemonUp \/ Stopping \/ ~wr[i])
    <2>1. ~DaemonUp' \/ Stopping' \/ ~wr'[i]
      BY <1>1, <1>7, KeepsStopping, Forever DEF Steady, SteadyInv
    <2> QED
      BY <1>4, <1>7, <2>1 DEF Settled, Verdict
  <1>8. CASE /\ i \in Singles
             /\ \A p \in Pid : conn[p] = i
                   => \/ proc[p] \in PreLaunch
                      \/ proc[p] \in Dead /\ xstat[p] = Failure
    <2>1. ASSUME NEW p \in Pid, conn'[p] = i
          PROVE  \/ proc'[p] \in PreLaunch
                 \/ proc'[p] \in Dead /\ xstat'[p] = Failure
      <3>1. CASE proc[p] \in Dead
        BY <1>3, <1>5, <1>8, <2>1, <3>1 DEF PreLaunch, Idle, Dead
      <3>2. CASE proc[p] \in PreLaunch
        <4>1. xstat[p] = Failure /\ xstat'[p] = Failure
          BY <1>1, <3>2 DEF Fresh, Steady, SteadyProc, PreLaunch, Idle, Dead
        <4>2. proc'[p] \in PreLaunch \cup Dead
          BY <1>1, <1>3, <2>1, <3>2
             DEF Life, NextState, Steady, SteadyProc, PreLaunch, Idle, Dead
        <4> QED BY <4>1, <4>2
      <3> QED BY <1>3, <1>8, <2>1, <3>1, <3>2
    <2> QED
      BY <1>4, <1>8, <2>1 DEF Settled, Verdict
  <1> QED
    BY <1>6, <1>7, <1>8 DEF Settled, Verdict

(* Whoever has a process that has launched has nothing else to come.       *)
LEMMA LaunchedOver ==
  ASSUME TypeOK, Owners, NEW p \in Pid, Launched(p), conn[p] \in Invoker
  PROVE  Over(conn[p])
  <1>1. conn[p] # NoInv
    BY LauncherAssumption
  <1>2. \A q \in Pid : conn[q] = conn[p] => q = p
    BY <1>1 DEF Owners, AcceptedOnce
  <1> QED
    BY <1>1, <1>2 DEF Owners, AcceptedOnce, Over, Launched, PreLaunch, Idle

(* The messages of an invoker are the ones it had, but for an exit status  *)
(* that a booster or the daemon has written.                               *)
Kept(i) ==
    \A k \in DOMAIN dn'[i] : dn'[i][k].type = "EXIT"
        => \E l \in DOMAIN dn[i] : dn[i][l] = dn'[i][k]
Informed(i, s) ==
    \A k \in DOMAIN dn'[i] : dn'[i][k].type = "EXIT"
        => dn'[i][k].val = s \/ \E l \in DOMAIN dn[i] : dn[i][l] = dn'[i][k]

LEMMA WhatIsSaid ==
  ASSUME Base, [Next]_vars, NEW i \in Invoker
  PROVE  \/ Kept(i)
         \/ DSendExit /\ i = cur.inv /\ Informed(i, cur.st)
         \/ \E p \in Pid, r \in {Success, Failure} :
               BActivate(p) /\ i = conn[p] /\ i \in Singles /\ ~HungUp(i)
                 /\ proc' = [proc EXCEPT ![p] = "accepting"] /\ Informed(i, r)
  <1>1. dn \in [Invoker -> Seq(Message)] /\ cur.st \in Status
    BY DEF Base, TypeInvariant, TypeOK, TypeSock, TypeDaemon, Burial
  <1>2. ASSUME dn' = dn \/ dn'[i] = dn[i] PROVE Kept(i)
    BY <1>2 DEF Kept
  <1>3. ASSUME NEW j \in Invoker, dn' = [dn EXCEPT ![j] = Tail(@)], dn[j] # <<>>
        PROVE  Kept(i)
    <2>1. \A k \in DOMAIN Tail(dn[j]) :
             k + 1 \in DOMAIN dn[j] /\ Tail(dn[j])[k] = dn[j][k + 1]
      BY <1>1, <1>3, TailFacts
    <2> QED
      BY <1>1, <1>2, <1>3, <2>1 DEF Kept
  <1>4. ASSUME NEW j \in Invoker, dn' = [dn EXCEPT ![j] = <<>>]
        PROVE  Kept(i)
    BY <1>1, <1>2, <1>4 DEF Kept
  <1>5. ASSUME NEW s \in Status, dn' = [dn EXCEPT ![i] = Append(@, ExitMsg(s))]
        PROVE  Informed(i, s)
    <2>1. dn'[i] = Append(dn[i], ExitMsg(s)) /\ dn[i] \in Seq(Message)
      BY <1>1, <1>5
    <2>2. \A k \in DOMAIN dn'[i] :
             (k \in DOMAIN dn[i] /\ dn'[i][k] = dn[i][k]) \/ dn'[i][k] = ExitMsg(s)
      BY <2>1, WriteMsg, AppendFacts
    <2> QED
      BY <2>2 DEF Informed, ExitMsg
  <1>6. ASSUME NEW p \in Pid, BReceive(p) PROVE Kept(i)
    <2>1. CASE conn[p] # i
      BY <1>1, <1>2, <1>6, <2>1 DEF BReceive
    <2>2. CASE conn[p] = i
      <3>1. \/ dn'[i] = dn[i] \o <<Ack, PidMsg(p)>>
            \/ dn'[i] = Append(dn[i], Ack)
        BY <1>1, <1>6, <2>2 DEF BReceive
      <3>2. dn[i] \in Seq(Message) /\ Ack \in Message /\ PidMsg(p) \in Message
        BY <1>1, WriteMsg
      <3>3. \A k \in DOMAIN dn'[i] :
               \/ k \in DOMAIN dn[i] /\ dn'[i][k] = dn[i][k]
               \/ dn'[i][k] \in {Ack, PidMsg(p)}
        <4>1. CASE dn'[i] = dn[i] \o <<Ack, PidMsg(p)>>
          <5> DEFINE t == <<Ack, PidMsg(p)>>
          <5>1. Len(t) = 2 /\ t[1] = Ack /\ t[2] = PidMsg(p)
            OBVIOUS
          <5>2. \A k \in DOMAIN (dn[i] \o t) :
                   \/ k \in DOMAIN dn[i] /\ (dn[i] \o t)[k] = dn[i][k]
                   \/ k - Len(dn[i]) \in 1 .. 2 /\ (dn[i] \o t)[k] = t[k - Len(dn[i])]
            BY <3>2
          <5> QED BY <4>1, <5>1, <5>2
        <4>2. CASE dn'[i] = Append(dn[i], Ack)
          BY <3>2, <4>2, AppendFacts
        <4> QED BY <3>1, <4>1, <4>2
      <3> QED
        BY <3>3 DEF Kept, Ack, PidMsg
    <2> QED BY <2>1, <2>2
  <1>7. ASSUME NEW p \in Pid, BActivate(p)
        PROVE  \/ Kept(i)
               \/ \E r \in {Success, Failure} :
                     i = conn[p] /\ i \in Singles /\ ~HungUp(i)
                      /\ proc' = [proc EXCEPT ![p] = "accepting"] /\ Informed(i, r)
    <2>1. CASE conn[p] \in Waiters /\ ~HungUp(conn[p]) /\ i = conn[p]
      <3>1. PICK r \in {Success, Failure} :
               dn' = [dn EXCEPT ![conn[p]] = Append(@, ExitMsg(r))]
        BY <1>7, <2>1 DEF BActivate, Report
      <3>2. Informed(i, r)
        BY <1>5, <2>1, <3>1, StatusFacts
      <3> QED
        BY <1>7, <2>1, <3>2 DEF BActivate, MustLock
    <2>2. CASE ~(conn[p] \in Waiters /\ ~HungUp(conn[p]) /\ i = conn[p])
      <3>1. dn' = dn \/ dn'[i] = dn[i]
        BY <1>1, <1>7, <2>2 DEF BActivate, Report
      <3> QED BY <1>2, <3>1
    <2> QED BY <2>1, <2>2
  <1>8. ASSUME DSendExit
        PROVE  Kept(i) \/ (i = cur.inv /\ Informed(i, cur.st))
    <2>1. CASE i = cur.inv
      BY <1>1, <1>2, <1>5, <1>8, <2>1 DEF DSendExit
    <2>2. CASE i # cur.inv
      BY <1>1, <1>2, <1>8, <2>2 DEF DSendExit
    <2> QED BY <2>1, <2>2
  <1>9. ASSUME NEW j \in Invoker, InvokerStep(j) \/ ISignal(j) \/ IDie(j)
        PROVE  Kept(i)
    BY <1>2, <1>3, <1>4, <1>9
       DEF InvokerStep, IConnect, IFallback, ISend, IAck, IPid, IExit, ISignal,
           IDrain, IClose, IDisconnected, IShutTimeout, IKillApp, IKillForce,
           IKilled, IDie, Got,
           sockVars
  <1>10. ASSUME NEW p \in Pid, BoosterStep(p) \/ AppExit(p) \/ BCrash(p),
                ~BReceive(p), ~BActivate(p)
         PROVE  Kept(i)
    BY <1>2, <1>10
       DEF BoosterStep, BRestore, BReady, BAccept, BReceiveFails, BLaunch, BDisown,
           AppExit, BCrash, sockVars
  <1>11. CASE /\ DaemonStep \/ OutsideMode \/ OutsideTerm \/ DCrash \/ UNCHANGED vars
              /\ ~DSendExit
    BY <1>2, <1>11
       DEF DaemonStep, DSelect, DReadBooster, DChild, DTerminate, DIgnore,
           DSwitchMode, ReadSignal, DReap, DSkip, DReaped, DClosed, DTerm, DStray,
           DShut, DKillInvoker, DWaitInvoker, DExit, DKillBooster, DWaitBooster,
           DHandler, OutsideMode, OutsideTerm, DCrash, vars, sockVars
  <1> QED
    BY <1>6, <1>7, <1>8, <1>9, <1>10, <1>11 DEF Next, Rest

(* An invoker has its exit status from a message, or had it before.        *)
LEMMA WhatIsHeard ==
  ASSUME Base, Owners, [Next]_vars, NEW i \in Invoker,
         ivk'[i] = "closing", kpid'[i] = NoPid
  PROVE  \/ ivk[i] = "closing" /\ kpid[i] = NoPid /\ est'[i] = est[i]
         \/ \E k \in DOMAIN dn[i] : dn[i][k].type = "EXIT" /\ est'[i] = dn[i][k].val
  <1> DEFINE Before == ivk[i] = "closing" /\ kpid[i] = NoPid /\ est'[i] = est[i]
             Now == \E k \in DOMAIN dn[i] :
                       dn[i][k].type = "EXIT" /\ est'[i] = dn[i][k].val
  <1> USE DEF Base, TypeInvariant, TypeOK, TypeInv, TypeSock
  <1>1. ASSUME UNCHANGED invVars PROVE Before
    BY <1>1 DEF invVars
  <1>2. ivk[i] = "waiting" => kpid[i] # NoPid
    BY DEF Owners, Owned, OwnedBy
  <1>3. ASSUME IExit(i) PROVE Now
    <2>1. Got(i, "EXIT") /\ est'[i] = Head(dn[i]).val
      BY <1>2, <1>3 DEF IExit
    <2>2. 1 \in DOMAIN dn[i] /\ Head(dn[i]) = dn[i][1]
      BY <2>1, TailFacts DEF Got
    <2> QED
      BY <2>1, <2>2 DEF Got
  <1>4. ASSUME NEW j \in Invoker, InvokerStep(j) \/ ISignal(j) \/ IDie(j), ~IExit(i)
        PROVE  Before
    BY <1>2, <1>4
       DEF InvokerStep, IConnect, IFallback, ISend, IAck, IPid, IExit, ISignal,
           IDrain, IClose, IDisconnected, IShutTimeout, IKillApp, IKillForce,
           IKilled, IDie, Fails
  <1>5. ASSUME NEW p \in Pid, BoosterStep(p) \/ AppExit(p) \/ BCrash(p)
        PROVE  Before
    BY <1>1, <1>5
       DEF BoosterStep, BRestore, BReady, BAccept, BReceive, BReceiveFails,
           BActivate, BLaunch, BDisown, AppExit, BCrash
  <1>6. ASSUME DaemonStep \/ OutsideMode \/ OutsideTerm \/ DCrash \/ UNCHANGED vars
        PROVE  Before
    <2>1. CASE DKillInvoker \/ DWaitInvoker
      BY <2>1 DEF DKillInvoker, DWaitInvoker
    <2>2. CASE ~(DKillInvoker \/ DWaitInvoker)
      BY <1>1, <1>6, <2>2
         DEF DaemonStep, DSelect, DReadBooster, DChild, DTerminate, DIgnore,
             DSwitchMode, ReadSignal, DReap, DSkip, DReaped, DClosed, DTerm, DStray,
             DSendExit, DShut, DExit, DKillBooster, DWaitBooster, DHandler,
             OutsideMode, OutsideTerm, DCrash, vars
    <2> QED BY <2>1, <2>2
  <1> QED
    BY <1>3, <1>4, <1>5, <1>6 DEF Next, Rest

(* Who is told something now, and rightly.                                 *)
LEMMA WrittenInv ==
  ASSUME Base, Owners, Fresh, Written, ToSend, [Next]_vars
  PROVE  Written'
  <1> SUFFICES ASSUME NEW i \in Invoker, NEW k \in DOMAIN dn'[i],
                      dn'[i][k].type = "EXIT", NEW s, s = dn'[i][k].val
               PROVE  Settled(i, s)'
    BY DEF Written, Settled, Verdict
  <1>1. ASSUME NEW l \in DOMAIN dn[i], dn[i][l] = dn'[i][k]
        PROVE  Settled(i, s)'
    <2>1. Settled(i, s)
      BY <1>1 DEF Written
    <2> QED BY <2>1, SettledStays
  <1>2. ASSUME DSendExit, i = cur.inv, s = cur.st
        PROVE  Settled(i, s)'
    <2>1. Settled(i, s)
      BY <1>2 DEF ToSend, DSendExit
    <2> QED BY <2>1, SettledStays
  <1>3. ASSUME NEW p \in Pid, BActivate(p), i = conn[p], i \in Singles, ~HungUp(i),
               proc' = [proc EXCEPT ![p] = "accepting"]
        PROVE  Settled(i, s)'
    <2>1. /\ proc[p] = "checking" /\ proc \in [Pid -> ProcState]
          /\ UNCHANGED <<conn, backlog, ivk>>
      BY <1>3 DEF BActivate, invVars, Base, TypeInvariant, TypeOK, TypeProc
    <2>2. /\ ivk[i] # "start" /\ \A l \in DOMAIN backlog : backlog[l] # i
          /\ \A q \in Pid : conn[q] = i => q = p
      BY <1>3, <2>1, BusyAlone DEF Base, TypeInvariant
    <2>3. \A q \in Pid : conn'[q] = i => proc'[q] = "accepting"
      BY <1>3, <2>1, <2>2
    <2>4. Over(i)'
      BY <2>1, <2>2, <2>3 DEF Over
    <2> QED
      BY <1>3, <2>3, <2>4 DEF Settled, Verdict, PreLaunch, Idle
  <1> QED
    BY <1>1, <1>2, <1>3, WhatIsSaid DEF Kept, Informed

LEMMA HeardInv ==
  ASSUME Base, Owners, Fresh, Written, Heard, [Next]_vars
  PROVE  Heard'
  <1> SUFFICES ASSUME NEW i \in Invoker, ivk'[i] = "closing", kpid'[i] = NoPid,
                      NEW s, s = est'[i]
               PROVE  Settled(i, s)'
    BY DEF Heard, Settled, Verdict
  <1>1. Settled(i, s)
    BY WhatIsHeard DEF Written, Heard
  <1> QED
    BY <1>1, SettledStays

(* A burial begins with the wait status of the process, or with the failure*)
(* that an invoker which has hung up, or a daemon that stops, makes of it. *)
LEMMA Buries ==
  ASSUME Base, [Next]_vars, dpc' = "close"
  PROVE  \/ dpc = "close" /\ cur' = cur
         \/ \E p \in Pid : DReap(p) \/ DClosed(p) \/ DTerm(p)
  <1>1. CASE Others \/ UNCHANGED vars
    BY <1>1, OthersCtl DEF Base, vars, loopVars
  <1>2. CASE DCrash \/ DExit \/ (DReadBooster /\ ForkFails) \/ (DReaped /\ ForkFails)
    BY <1>2 DEF DCrash, DExit, ForkFails, Vanish
  <1>3. CASE DKillBooster \/ DWaitBooster
    BY <1>3 DEF DKillBooster, DWaitBooster, AfterBooster, AfterSignal
  <1>4. CASE DReadBooster /\ ~ForkFails
    BY <1>4 DEF DReadBooster, AfterSignal
  <1>5. CASE DReaped /\ ~ForkFails
    BY <1>5 DEF DReaped
  <1>6. CASE DWaitInvoker \/ DShut
    BY <1>6 DEF DWaitInvoker, DShut, AfterInvoker
  <1> QED
    BY <1>1, <1>2, <1>3, <1>4, <1>5, <1>6
       DEF Next, Rest, Others, DaemonStep, DSelect, DChild, DTerminate, DIgnore,
           DSwitchMode, ReadSignal, DSkip, DStray, DSendExit, DKillInvoker

LEMMA ToSendInv ==
  ASSUME Base, Owners, Paired, Fresh, ToSend, Closing, ~raced, [Next]_vars
  PROVE  ToSend'
  <1> USE DEF Base, TypeInvariant, TypeOK, TypeProc, TypeInv, TypeSock, TypeDaemon
  <1> SUFFICES ASSUME dpc' = "close", NEW i, i = cur'.inv, NEW s, s = cur'.st
               PROVE  Settled(i, s)'
    BY DEF ToSend, Settled, Verdict, Over
  <1>1. CASE dpc = "close" /\ cur' = cur
    <2>1. i \in Invoker /\ Settled(i, s)
      BY <1>1 DEF ToSend, Ctl
    <2> QED BY <2>1, SettledStays
  <1>2. ASSUME NEW p \in Pid, DReap(p) \/ DClosed(p) \/ DTerm(p)
        PROVE  Settled(i, s)'
    <2>1. i = invOf[p] /\ i # NoInv /\ i \in Invoker
      <3>1. CASE DReap(p)
        BY <3>1, Ranges DEF DReap, AfterReap
      <3>2. CASE DClosed(p)
        BY <3>2, LauncherAssumption DEF DClosed, IsLeast, Ctl
      <3>3. CASE DTerm(p)
        BY <3>3, Ranges DEF DTerm
      <3> QED BY <1>2, <3>1, <3>2, <3>3
    <2>2. i = conn[p] /\ Launched(p)
      BY <2>1 DEF Paired, TableRight
    <2>3. Over(i)
      BY <2>1, <2>2, LaunchedOver
    <2>4. UNCHANGED <<conn, xstat, backlog, ivk, wr>>
      BY <1>2 DEF DReap, DClosed, DTerm, procVars, invVars, sockVars
    <2>5. \A q \in Pid : proc'[q] = proc[q] \/ proc'[q] = "reaped"
      BY <1>2 DEF DReap, DClosed, DTerm, procVars
    <2>6. Over(i)'
      BY <2>3, <2>4, <2>5 DEF Over
    <2>7. CASE DReap(p)
      <3>1. proc'[p] = "reaped" /\ s = xstat[p]
        BY <2>7 DEF DReap, ExitStatus
      <3> QED
        BY <2>2, <2>4, <2>6, <3>1 DEF Settled, Verdict, Dead
    <2>8. CASE DClosed(p)
      <3>1. s = Failure /\ ~wr[i]
        BY <2>1, <2>8 DEF DClosed, Closing, IsLeast
      <3> QED
        BY <2>4, <2>6, <3>1 DEF Settled, Verdict
    <2>9. CASE DTerm(p)
      <3>1. s = Failure /\ cur'.why = "term"
        BY <2>9 DEF DTerm
      <3> QED
        BY <2>6, <3>1 DEF Settled, Verdict, Stopping
    <2> QED BY <1>2, <2>7, <2>8, <2>9
  <1> QED BY <1>1, <1>2, Buries

(* Whom the daemon is going to close has hung up, and stays so.            *)
LEMMA ClosingInv ==
  ASSUME Base, Paired, Closing, ~raced, [Next]_vars
  PROVE  Closing'
  <1> USE DEF Base, TypeInvariant
  <1> DEFINE Due == dpc \in {"dgram", "sig", "closed"} \/ cur.why = "closed"
             DueNext == dpc' \in {"dgram", "sig", "closed"} \/ cur'.why = "closed"
  <1>1. Due => \A p \in todo : invOf[p] \in Invoker /\ ~wr[invOf[p]]
    BY DEF Ctl, Closing
  <1>2. \A i \in Invoker : wr'[i] => wr[i]
    BY AlwaysSteady DEF Steady, SteadyInv
  <1>3. todo \subseteq Pid
    BY DEF TypeOK, TypeDaemon
  <1>4. ASSUME DueNext => Due, todo' \subseteq todo,
               \A p \in todo' : invOf'[p] = invOf[p]
        PROVE  Closing'
    BY <1>1, <1>2, <1>4 DEF Closing
  <1>5. ASSUME todo' = {} \/ ~DueNext PROVE Closing'
    BY <1>5 DEF Closing
  <1>6. CASE Others \/ UNCHANGED vars
    <2>1. UNCHANGED <<loopVars, bookVars>>
      BY <1>6, OthersCtl DEF vars
    <2> QED
      BY <1>4, <2>1 DEF loopVars, bookVars
  <1>7. CASE DSelect
    BY <1>7 DEF DSelect, ClosedByInvoker, Closing, sockVars, bookVars
  <1>8. CASE DExit \/ DCrash \/ (DReadBooster /\ ForkFails) \/ (DReaped /\ ForkFails)
    BY <1>5, <1>8 DEF DExit, DCrash, ForkFails, Vanish
  <1>9. CASE DReadBooster /\ ~ForkFails
    <2>1. /\ dpc = "dgram" /\ todo' = todo /\ dgrams # <<>> /\ bpid \in Pid
          /\ dgrams \in Seq(Datagram) /\ invOf \in [Pid -> InvOrNone]
          /\ LET i == Head(dgrams).inv IN
               invOf' = [invOf EXCEPT ![bpid] = IF i # NoInv THEN i ELSE @]
      BY <1>9 DEF DReadBooster, Ctl, TypeOK, TypeSock, TypeDaemon
    <2>2. Head(dgrams).inv \in {NoInv, conn[bpid]}
      BY <2>1 DEF Paired, OneDatagram
    <2>3. invOf[bpid] # NoInv => invOf[bpid] = conn[bpid]
      BY <2>1 DEF Paired, TableRight
    <2>4. \A p \in todo : invOf[p] # NoInv
      BY <1>1, <2>1, LauncherAssumption
    <2>5. \A p \in todo : invOf'[p] = invOf[p]
      BY <1>3, <2>1, <2>2, <2>3, <2>4
    <2> QED
      BY <1>4, <2>1, <2>5
  <1>10. CASE DChild \/ DTerminate \/ DIgnore \/ DSwitchMode
    BY <1>5, <1>10
       DEF DChild, DTerminate, DIgnore, DSwitchMode, ReadSignal, Ctl, NoCur
  <1>11. ASSUME NEW p \in Pid, DReap(p) \/ DTerm(p) \/ DSkip(p) PROVE Closing'
    BY <1>5, <1>11 DEF DReap, AfterReap, DTerm, DSkip, Ctl, NoCur
  <1>12. CASE (DReaped /\ ~ForkFails) \/ DStray
    BY <1>5, <1>12 DEF DReaped, DStray, Ctl, NoCur
  <1>13. ASSUME NEW p \in Pid, DClosed(p) PROVE Closing'
    <2>1. Due /\ todo' = todo \ {p}
      BY <1>13 DEF DClosed
    <2>2. \A q \in todo' : invOf'[q] = invOf[q]
      BY <1>3, <1>13 DEF DClosed, TypeOK, TypeDaemon
    <2> QED BY <1>4, <2>1, <2>2
  <1>14. CASE DSendExit \/ DShut \/ DKillInvoker \/ DWaitInvoker
    BY <1>4, <1>14
       DEF DSendExit, DShut, DKillInvoker, DWaitInvoker, AfterInvoker, bookVars
  <1>15. CASE DKillBooster \/ DWaitBooster
    <2>1. cur.why \in {"closed", "term"}
      BY <1>15 DEF DKillBooster, DWaitBooster, Ctl, TypeOK, TypeDaemon, Burial
    <2>2. DueNext => Due
      BY <1>15, <2>1
         DEF DKillBooster, DWaitBooster, AfterBooster, AfterSignal, NoCur
    <2>3. UNCHANGED <<todo, invOf>>
      BY <1>15 DEF DKillBooster, DWaitBooster, bookVars
    <2> QED BY <1>4, <2>2, <2>3
  <1> QED
    BY <1>6, <1>7, <1>8, <1>9, <1>10, <1>11, <1>12, <1>13, <1>14, <1>15
       DEF Next, Rest, Others, DaemonStep
-----------------------------------------------------------------------------
LEMMA FaithfulInv ==
  ASSUME Base, Owners, Paired, Faithful, [Next]_vars
  PROVE  Faithful'
  <1>1. Fresh'
    BY AlwaysSteady DEF Faithful, Fresh, Steady, SteadyProc
  <1>2. raced => raced'
    BY Forever
  <1> QED
    BY <1>1, <1>2, WrittenInv, HeardInv, ToSendInv, ClosingInv DEF Faithful

LEMMA InitFaithful == Init => Faithful
  <1> SUFFICES ASSUME Init PROVE Faithful
    OBVIOUS
  <1>1. Fresh
    BY DEF Init, Fresh
  <1>2. Written /\ Heard /\ ToSend /\ Closing
    BY DEF Init, Written, Heard, ToSend, Closing, NoCur
  <1> QED BY <1>1, <1>2 DEF Faithful

(* The exit status on its way to an invoker, and the one it takes over, is *)
(* that of the process it launched; or EXIT_FAILURE where the daemon stops *)
(* or the invoker has hung up; or what a single-instance booster reported, *)
(* as long as no booster is reaped before its datagram is read             *)
(* (Daemon::reapZombies, close_invoker, wait_for_launched_process_to_exit).*)
THEOREM ExitFaithfulHolds == Spec => []ExitFaithful
  <1>1. Faithful => ExitFaithful
    BY DEF Faithful, Written, Heard, Settled, ExitFaithful
  <1>2. Base /\ Owners /\ Paired /\ Faithful /\ [Next]_vars => Faithful'
    BY FaithfulInv
  <1> QED
    BY <1>1, <1>2, InitOwners, OwnersInv, InitFaithful, BaseInv, PairedAlways, PTL
       DEF Spec
=============================================================================
