----------------------------- MODULE Authenticator -----------------------------
(***************************************************************************)
(* The screen locker's side of a password check (authenticator.cpp): the   *)
(* classes Authenticator and KCheckPass in the locker's event loop,        *)
(* composed with the helper of module CheckPass.                           *)
(***************************************************************************)
EXTENDS CheckPass

LockerState == {"loop", "reaping", "gone", "crashed", "killed"}
Running == lpc \in {"loop", "reaping"}

(* kill(m_pid, s) reaches a helper that has not ended.                     *)
KillPlainly(S) == sig' = IF helper \in Gone THEN sig ELSE {"TERM"}   \* mutant
Kill(S) == sig' = IF helper \in Gone THEN sig ELSE sig \cup S

(* What PR_SET_PDEATHSIG raises for a helper, once it has asked for it.    *)
DeathIgnored == sig                                              \* mutant
DeathSignal == IF helper \in Gone \cup {"starting"} THEN sig
                                                    ELSE sig \cup {"USR2"}

(* The locker's process is gone: its end of the channel is closed.         *)
Vanish(s) ==
    /\ lpc' = s /\ why' = "none"
    /\ notifier' = FALSE
    /\ sig' = DeathSignal

(* Mutant: it relies on the closed channel to end the helper.              *)
ReapUnsignalled(w) ==
    IF notifier
    THEN lpc' = "reaping" /\ why' = w /\ notifier' = FALSE /\ UNCHANGED sig
    ELSE Vanish("crashed")

(* reapVerify(), up to waitpid(): the notifier is used without a test.     *)
ReapVerify(w) ==
    IF notifier
    THEN lpc' = "reaping" /\ why' = w /\ notifier' = FALSE /\ Kill({"USR2"})
    ELSE Vanish("crashed")

(* In Direct mode succeeded() and failed() also mean deleteLater().        *)
FinishedAtOnce == IF mode = "Direct" THEN "none" ELSE check      \* mutant
Finished == IF mode = "Direct" THEN "doomed" ELSE check

(* A helper that waits may be told to go on.                               *)
CanAlways == check # "none"                                      \* mutant
CanResume == ready
-----------------------------------------------------------------------------
(* start(): a process and a channel.                                       *)
Start ==
    /\ check' = "live"
    /\ helper' = "starting" /\ notifier' = TRUE
    /\ given' = NoPassword /\ aborted' = FALSE /\ conv' = 0
    /\ up' = <<>> /\ down' = <<>> /\ sig' = {}

(* tryUnlock(p): refused with failed() when the last attempt is less than  *)
(* 1.5 seconds ago (which changes nothing) or no helper is ready ...       *)
LRefuse ==
    /\ lpc = "loop" /\ ~grace
    /\ check # "none" /\ ~CanResume
    /\ grace' = TRUE
    /\ UNCHANGED <<mode, helperVars, wireVars, lpc, why, check, ready, passwd,
                   faults, histVars>>

(* ... or a helper is started for it, which may fail; a new KCheckPass is  *)
(* not ready ...                                                           *)
LBegin(p) ==
    /\ lpc = "loop" /\ ~grace
    /\ check = "none"
    /\ grace' = TRUE /\ passwd' = p /\ typed' = p /\ ready' = FALSE
    /\ \/ Start /\ owed' = TRUE /\ UNCHANGED faults
       \/ /\ Fault("start")
          /\ check' = "doomed" /\ owed' = FALSE
          /\ UNCHANGED <<helperVars, wireVars>>
    /\ UNCHANGED <<mode, lpc, why, unlocked>>

(* ... or the helper that waits for it is told to go on.                   *)
LResume(p) ==
    /\ lpc = "loop" /\ ~grace
    /\ check # "none" /\ CanResume
    /\ grace' = TRUE /\ passwd' = p /\ typed' = p /\ owed' = TRUE
    /\ Kill({"USR1"})
    /\ UNCHANGED <<mode, helperVars, up, down, notifier, lpc, why, check,
                   ready, faults, unlocked>>

LGraceOver ==
    /\ lpc = "loop" /\ grace
    /\ grace' = FALSE
    /\ UNCHANGED <<mode, helperVars, wireVars, lpc, why, check, ready, passwd,
                   faults, histVars>>
-----------------------------------------------------------------------------
(* handleVerify() takes message m.  A KCheckPass that is to be deleted is  *)
(* deleted before the next one.                                            *)
Receive(m) ==
    /\ lpc = "loop" /\ notifier /\ check = "live"
    /\ up # <<>> /\ Head(up) = m
    /\ up' = Tail(up)
    /\ ready' = (m = "Ready")
    /\ UNCHANGED <<mode, helperVars, notifier, lpc, why, grace, faults, typed>>

(* In Direct mode there is a password already.                             *)
WaitAlways == UNCHANGED sig                                      \* mutant
GoOn == IF mode = "Direct" THEN Kill({"USR1"}) ELSE UNCHANGED sig
LReady ==
    /\ Receive("Ready")
    /\ GoOn
    /\ UNCHANGED <<down, check, passwd, owed, unlocked>>

(* m_password is cleared once it is sent.                                  *)
LAnswer ==
    /\ Receive("Ask")
    /\ down' = IF helper \in Gone THEN down ELSE Append(down, passwd)
    /\ passwd' = NoPassword
    /\ UNCHANGED <<sig, check, owed, unlocked>>

LShow ==
    /\ Receive("Put")
    /\ UNCHANGED <<sig, down, check, passwd, owed, unlocked>>

LSucceeded ==
    /\ Receive("Succeeded")
    /\ check' = Finished /\ owed' = FALSE /\ unlocked' = TRUE
    /\ UNCHANGED <<sig, down, passwd>>

(* Error and Abort, and a question that is not supported, count as failed. *)
FailuresKnown == {"Failed", "Error"}                             \* mutant
Failures == {"Failed", "Error", "Binary"}
LFailed ==
    /\ \E m \in Failures : Receive(m)
    /\ check' = Finished /\ owed' = FALSE
    /\ UNCHANGED <<sig, down, passwd, unlocked>>

(* The channel breaks.  In Direct mode the helper is reaped and that is    *)
(* all; in Delayed mode the program exits, and its destructors reap.       *)
BrokenEnds == "quit"                                             \* mutant
BrokenThen == IF mode = "Direct" THEN "keep" ELSE "quit"
LBreak ==
    /\ lpc = "loop" /\ notifier /\ check = "live"
    /\ up = <<>> /\ helper = "dead"
    /\ ready' = FALSE
    /\ ReapVerify(BrokenThen)
    /\ UNCHANGED <<mode, helperVars, up, down, check, passwd, grace, faults,
                   histVars>>

(* deleteLater() takes effect: ~KCheckPass() reaps.                        *)
LDelete ==
    /\ lpc = "loop" /\ check = "doomed"
    /\ ReapVerify("delete")
    /\ UNCHANGED <<mode, helperVars, up, down, checkVars, faults, histVars>>

(* destroyed() resets m_checkPass; nothing is destroyed after a break.     *)
AfterReapStale == check                                          \* mutant
AfterReap == IF why = "keep" THEN check ELSE "none"

(* waitpid() returns.                                                      *)
LReaped ==
    /\ lpc = "reaping" /\ helper = "dead"
    /\ helper' = "none"
    /\ lpc' = (IF why = "quit" THEN "gone" ELSE "loop")
    /\ why' = "none"
    /\ check' = AfterReap
    /\ UNCHANGED <<mode, pamVars, wireVars, ready, passwd, grace, faults,
                   histVars>>

(* Some time after succeeded() the program quits; a KCheckPass that is     *)
(* left is destroyed.                                                      *)
LQuit ==
    /\ lpc = "loop" /\ unlocked
    /\ IF check = "none"
       THEN lpc' = "gone" /\ UNCHANGED <<why, notifier, sig>>
       ELSE ReapVerify("quit")
    /\ UNCHANGED <<mode, helperVars, up, down, checkVars, faults, histVars>>

(* The locker is killed.                                                   *)
LDie ==
    /\ Running
    /\ Fault("locker")
    /\ Vanish("killed")
    /\ UNCHANGED <<mode, helperVars, up, down, checkVars, histVars>>

(* What the locker does for its helper.                                    *)
LockerStep ==
    \/ LReady \/ LAnswer \/ LShow \/ LSucceeded \/ LFailed
    \/ LBreak \/ LDelete \/ LReaped
-----------------------------------------------------------------------------
(* In Delayed mode there is a helper from the start.                       *)
Init ==
    /\ mode \in AuthenticationMode
    /\ check = (IF mode = "Direct" THEN "none" ELSE "live")
    /\ helper = (IF mode = "Direct" THEN "none" ELSE "starting")
    /\ notifier = (mode # "Direct")
    /\ given = NoPassword /\ aborted = FALSE /\ conv = 0
    /\ up = <<>> /\ down = <<>> /\ sig = {}
    /\ lpc = "loop" /\ why = "none"
    /\ ready = FALSE /\ passwd = NoPassword /\ grace = FALSE
    /\ faults = 0 /\ typed = NoPassword /\ owed = FALSE /\ unlocked = FALSE

(* The locker is gone, or waits for its helper.                            *)
Rest == lpc # "loop" /\ UNCHANGED vars

Next ==
    \/ HelperStep \/ HStartFails \/ HDie
    \/ LRefuse \/ \E p \in Password : LBegin(p) \/ LResume(p)
    \/ LGraceOver \/ LockerStep \/ LQuit \/ LDie
    \/ Rest

Spec == Init /\ [][Next]_vars

(* The programs' own steps are taken in the end, PAM's included, and the   *)
(* event loop serves timer and channel; nobody needs to type, and no       *)
(* accident needs to happen.                                               *)
FairSpec ==
    Spec /\ WF_vars(HelperStep) /\ WF_vars(LockerStep) /\ WF_vars(LGraceOver)
-----------------------------------------------------------------------------
TypeOK ==
    /\ helper \in HelperState /\ given \in PasswordOrNone
    /\ aborted \in BOOLEAN /\ conv \in 0 .. MaxConv
    /\ up \in Seq(HelperMsg) /\ down \in Seq(PasswordOrNone)
    /\ sig \subseteq {"USR1", "USR2"} /\ notifier \in BOOLEAN
    /\ lpc \in LockerState /\ why \in {"none", "keep", "delete", "quit"}
    /\ mode \in AuthenticationMode
    /\ check \in {"none", "live", "doomed"} /\ ready \in BOOLEAN
    /\ passwd \in PasswordOrNone /\ grace \in BOOLEAN
    /\ faults \in Nat /\ typed \in PasswordOrNone
    /\ owed \in BOOLEAN /\ unlocked \in BOOLEAN

(* The screen is unlocked only if the password typed last is the right     *)
(* one, whatever was typed while an earlier one was being checked.         *)
SuccessIsEarned == [][LSucceeded => typed = Right]_vars

(* One helper at a time: none is left when there is no KCheckPass, and     *)
(* none when the program has quit in an orderly way.                       *)
NoLeftover ==
    (lpc = "loop" /\ check = "none") \/ lpc = "gone" => helper = "none"

(* reapVerify() does not find its notifier gone, unless there has been an  *)
(* accident: start() failed, or the channel broke and was reaped before.   *)
ReapedOnce == lpc = "crashed" => faults > 0
-----------------------------------------------------------------------------
(* The channel of a KCheckPass in Direct mode has broken: nobody tells     *)
(* tryUnlock() ever after.                                                 *)
Broken == lpc = "loop" /\ check = "live" /\ ~notifier

(* An accepted password is answered, unless the helper dies.               *)
Answered == owed ~> (~owed \/ Broken \/ ~Running)

(* The locker does not wait for ever for the helper that it ends.          *)
Returns == lpc = "reaping" ~> lpc # "reaping"

(* "prevent becoming an orphan": a helper does not outlive the locker.     *)
NoOrphan == ~Running ~> helper \in Gone

(* After each attempt there is a time for another one, in Direct mode: in  *)
(* Delayed mode a question that is not supported is never answered.        *)
Open == ~grace /\ (check = "none" \/ ready)
OpenAgain == []<>(Open \/ Broken \/ ~Running \/ mode = "Delayed")
-----------------------------------------------------------------------------
(* In Direct mode, the program's, all this is an unlock service: each      *)
(* attempt has one outcome at most, success is for the right password that *)
(* still waits for it, and the program never ends by itself before (which  *)
(* would open the screen), whatever becomes of helper and channel.  In     *)
(* Delayed mode it is none, for a broken channel ends the program.         *)
Direct == mode = "Direct"
Life ==
    IF Running \/ ~Direct THEN "running"
    ELSE IF lpc = "gone" THEN "over" ELSE "lost"

Service ==
    INSTANCE UnlockService
    WITH last <- IF Direct THEN typed ELSE NoPassword,
         pending <- Direct /\ owed, success <- Direct /\ unlocked,
         life <- Life

ServiceKept == Service!Spec
=============================================================================
