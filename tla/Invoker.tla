------------------------------- MODULE Invoker -------------------------------
(***************************************************************************)
(* The invoker: the short program that asks a booster to become the        *)
(* application, stands in for it until it ends and exits with its status   *)
(* (invoker.c).                                                            *)
(***************************************************************************)
EXTENDS LauncherState

(* die(), EXIT_FAILURE, or death by a signal.                              *)
Fails(i) ==
    /\ ivk' = [ivk EXCEPT ![i] = "exited"]
    /\ est' = [est EXCEPT ![i] = Failure]
    /\ wr'  = [wr EXCEPT ![i] = FALSE]

(* invoker_init() finds room on the listening socket.                      *)
IConnect(i) ==
    /\ ivk[i] = "start"
    /\ Listening /\ Len(backlog) <= Backlog
    /\ ivk' = [ivk EXCEPT ![i] = "connected"]
    /\ backlog' = Append(backlog, i)
    /\ end' = [end EXCEPT ![i] = "queued"]
    /\ UNCHANGED <<procVars, kpid, est, sent, wr, dn, shut, dgrams, loopVars,
                   bookVars, sigVars, worldVars>>

(* Nobody listens: the program is executed without a booster, except an    *)
(* application with a booster of its own, which must not be.               *)
IFallback(i) ==
    /\ ivk[i] = "start"
    /\ ~Listening
    /\ \/ ivk' = [ivk EXCEPT ![i] = "fallback"] /\ UNCHANGED est
       \/ /\ ivk' = [ivk EXCEPT ![i] = "exited"]
          /\ est' = [est EXCEPT ![i] = Failure]
    /\ UNCHANGED <<procVars, kpid, sockVars, loopVars, bookVars, sigVars,
                   worldVars>>

(* invoke_remote() writes the request, magic to END.                       *)
ISend(i) ==
    /\ ivk[i] = "connected"
    /\ IF EOF(i)
       THEN Fails(i) /\ UNCHANGED sent          \* SIGPIPE
       ELSE /\ ivk' = [ivk EXCEPT ![i] = "sent"]
            /\ sent' = sent \cup {i}
            /\ UNCHANGED <<est, wr>>
    /\ UNCHANGED <<procVars, kpid, backlog, dn, end, shut, dgrams, loopVars,
                   bookVars, sigVars, worldVars>>

(* The next message from the launcher, if any, is of type t.               *)
Got(i, t) == dn[i] # <<>> /\ Head(dn[i]).type = t

(* There is something to read, a message or end of file.                   *)
Readable(i) == dn[i] # <<>> \/ EOF(i)

(* invoke_recv_ack().  With --no-wait that was all, and exit_status still  *)
(* has its initial value.  A lost connection is fatal.                     *)
IAck(i) ==
    /\ ivk[i] = "sent"
    /\ Readable(i)
    /\ IF Got(i, "ACK") THEN dn' = [dn EXCEPT ![i] = Tail(@)] ELSE UNCHANGED dn
    /\ IF Got(i, "ACK") /\ i \in Waiters
       THEN ivk' = [ivk EXCEPT ![i] = "acked"] /\ UNCHANGED <<est, wr>>
       ELSE Fails(i)
    /\ UNCHANGED <<procVars, kpid, backlog, sent, end, shut, dgrams, loopVars,
                   bookVars, sigVars, worldVars>>

(* invoker_recv_pid().                                                     *)
IPid(i) ==
    /\ ivk[i] = "acked"
    /\ Readable(i)
    /\ IF Got(i, "PID")
       THEN /\ kpid' = [kpid EXCEPT ![i] = Head(dn[i]).val]
            /\ dn' = [dn EXCEPT ![i] = Tail(@)]
            /\ ivk' = [ivk EXCEPT ![i] = "waiting"]
            /\ UNCHANGED <<est, wr>>
       ELSE Fails(i) /\ UNCHANGED <<dn, kpid>>
    /\ UNCHANGED <<procVars, backlog, sent, end, shut, dgrams, loopVars,
                   bookVars, sigVars, worldVars>>

(* The loop of wait_for_launched_process_to_exit() ends because of the     *)
(* connection, which is shut down: the exit status, or the connection is   *)
(* lost and the application has to be killed.                              *)
IExit(i) ==
    /\ ivk[i] = "waiting"
    /\ Readable(i)
    /\ IF Got(i, "EXIT")
       THEN /\ est' = [est EXCEPT ![i] = Head(dn[i]).val]
            /\ kpid' = [kpid EXCEPT ![i] = NoPid]
            /\ dn' = [dn EXCEPT ![i] = Tail(@)]
       ELSE est' = [est EXCEPT ![i] = Failure] /\ UNCHANGED <<kpid, dn>>
    /\ ivk' = [ivk EXCEPT ![i] = "closing"]
    /\ wr' = [wr EXCEPT ![i] = FALSE]
    /\ UNCHANGED <<procVars, backlog, sent, end, shut, dgrams, loopVars,
                   bookVars, sigVars, worldVars>>

(* ... or because of SIGTERM, SIGINT.                                      *)
ISignal(i) ==
    /\ ivk[i] = "waiting"
    /\ ~Readable(i)
    /\ Fault("signal")
    /\ \E s \in {Success, Failure} : est' = [est EXCEPT ![i] = s]
    /\ ivk' = [ivk EXCEPT ![i] = "closing"]
    /\ wr' = [wr EXCEPT ![i] = FALSE]
    /\ UNCHANGED <<procVars, kpid, backlog, sent, dn, end, shut, dgrams,
                   loopVars, bookVars, sigVars, histVars>>

(* shutdown_socket() reads for five seconds at most.  What it reads is     *)
(* thrown away, and the time may be over by then ...                       *)
IDrain(i) ==
    /\ ivk[i] = "closing"
    /\ dn[i] # <<>>
    /\ dn' = [dn EXCEPT ![i] = <<>>]
    /\ \E next \in {"closing", "expired"} : ivk' = [ivk EXCEPT ![i] = next]
    /\ UNCHANGED <<procVars, kpid, est, backlog, sent, wr, end, shut, dgrams,
                   loopVars, bookVars, sigVars, worldVars>>

(* ... or nothing comes until it is; ...                                   *)
IShutTimeout(i) ==
    /\ ivk[i] = "closing"
    /\ ~Readable(i)
    /\ ivk' = [ivk EXCEPT ![i] = "expired"]
    /\ UNCHANGED <<procVars, kpid, est, sockVars, loopVars, bookVars, sigVars,
                   worldVars>>

(* ... if it finds the end of file, the application is left alone.         *)
IDisconnected(i) ==
    /\ ivk[i] = "closing"
    /\ dn[i] = <<>> /\ EOF(i)
    /\ kpid' = [kpid EXCEPT ![i] = NoPid]
    /\ ivk' = [ivk EXCEPT ![i] = "exited"]
    /\ UNCHANGED <<procVars, est, sockVars, loopVars, bookVars, sigVars,
                   worldVars>>

(* The time was over: the socket is closed, whatever has come meanwhile,   *)
(* and the application, if its exit status is not known, is to be killed.  *)
IClose(i) ==
    /\ ivk[i] = "expired"
    /\ dn' = [dn EXCEPT ![i] = <<>>]
    /\ ivk' = [ivk EXCEPT ![i] = IF kpid[i] = NoPid THEN "exited" ELSE "killing"]
    /\ UNCHANGED <<procVars, kpid, est, backlog, sent, wr, end, shut, dgrams,
                   loopVars, bookVars, sigVars, worldVars>>

(* kill_application(): SIGTERM, ten seconds, SIGKILL, ten seconds.         *)
IKillApp(i) ==
    /\ ivk[i] = "killing"
    /\ Terminate(kpid[i], pipe)
    /\ ivk' = [ivk EXCEPT ![i] = "killed"]
    /\ UNCHANGED <<conn, boot, lock, kpid, est, backlog, sent, wr, dn, shut,
                   dgrams, loopVars, bookVars, worldVars>>

IKillForce(i) ==
    /\ ivk[i] = "killed"
    /\ proc[kpid[i]] # "reaped"
    /\ IF proc[kpid[i]] \in Alive
       THEN Die({kpid[i]}, Failure) ELSE UNCHANGED <<proc, xstat, end, pend>>
    /\ ivk' = [ivk EXCEPT ![i] = "exited"]
    /\ UNCHANGED <<conn, boot, lock, kpid, est, backlog, sent, wr, dn, shut,
                   dgrams, loopVars, bookVars, pipe, worldVars>>

IKilled(i) ==
    /\ ivk[i] = "killed"
    /\ proc[kpid[i]] = "reaped"
    /\ ivk' = [ivk EXCEPT ![i] = "exited"]
    /\ UNCHANGED <<procVars, kpid, est, sockVars, loopVars, bookVars, sigVars,
                   worldVars>>

(* Somebody kills the invoker, or it is signalled while it does not catch  *)
(* the signal.                                                             *)
IDie(i) ==
    /\ ivk[i] \notin {"start", "fallback", "exited"}
    /\ Fault("kill")
    /\ Fails(i)
    /\ UNCHANGED <<procVars, kpid, backlog, sent, dn, end, shut, dgrams,
                   loopVars, bookVars, sigVars, histVars>>

InvokerStep(i) ==
    \/ IConnect(i) \/ IFallback(i) \/ ISend(i) \/ IAck(i) \/ IPid(i)
    \/ IExit(i) \/ IDrain(i) \/ IShutTimeout(i) \/ IDisconnected(i)
    \/ IClose(i) \/ IKillApp(i) \/ IKillForce(i) \/ IKilled(i)
=============================================================================
