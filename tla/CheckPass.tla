------------------------------- MODULE CheckPass -------------------------------
(***************************************************************************)
(* The helper of the screen locker, ccheckpass (checkpass.c and            *)
(* checkpass_pam.c): it says that it is ready, waits for a signal, lets    *)
(* PAM check a password that it asks the locker for, reports the outcome   *)
(* and starts again.  Also the state it shares with the locker: one        *)
(* process, a pair of sockets, two signals.                                *)
(***************************************************************************)
EXTENDS Integers, Sequences

CONSTANTS
    Password,     \* what may be typed
    Right,        \* the user's password
    NoPassword,   \* a null QString
    MaxConv,      \* bound: conversation calls of one pam_authenticate()
    Buffer,       \* bound: messages the socket holds before write() blocks
    Faults,       \* the kinds of accidents that may happen
    MaxFaults     \* bound: how many of them

FaultKinds == {"start", "helper", "locker"}

ASSUME AuthAssumption ==
    /\ Right \in Password /\ NoPassword \notin Password
    /\ MaxConv \in Nat /\ Buffer \in Nat \ {0}
    /\ Faults \subseteq FaultKinds /\ MaxFaults \in Nat

VARIABLES
    (* the helper *)
    helper,    \* where the process is in its life
    given,     \* the password PAM has got
    aborted,   \* pam_data.abort
    conv,      \* conversation calls so far
    (* between the two *)
    up,        \* messages to the locker
    down,      \* answers to the helper
    sig,       \* signals the locker (or its death) raised for the helper
    notifier,  \* m_notifier exists, and the locker's end m_fd is open
    (* the locker *)
    lpc,       \* the locker's thread: its event loop, or blocked, or gone
    why,       \* what it goes on with when waitpid() returns
    mode,      \* m_mode, the AuthenticationMode the locker was made with
    check,     \* m_checkPass: null, a helper's, or one given to deleteLater()
    ready,     \* m_ready
    passwd,    \* m_password
    grace,     \* m_graceLockTimer is active
    (* outside and history *)
    faults,    \* accidents so far
    typed,     \* the last password tryUnlock() has accepted
    owed,      \* it is waiting for succeeded() or failed()
    unlocked   \* succeeded() was emitted: the program is about to quit

pamVars    == <<given, aborted, conv>>
helperVars == <<helper, pamVars>>
wireVars   == <<up, down, sig, notifier>>
checkVars  == <<check, ready, passwd, grace>>
lockerVars == <<lpc, why, mode, checkVars>>
histVars   == <<typed, owed, unlocked>>
vars       == <<helperVars, wireVars, lockerVars, faults, histVars>>

AuthenticationMode == {"Direct", "Delayed"}
HelperState == {"none", "starting", "announce", "idle", "auth", "asking",
                "dead"}
Gone == {"none", "dead"}
HelperMsg == {"Ready", "Ask", "Binary", "Put", "Succeeded", "Failed", "Error"}
PasswordOrNone == Password \cup {NoPassword}

(* An accident of kind k happens; there are MaxFaults of them.             *)
Fault(k) == k \in Faults /\ faults < MaxFaults /\ faults' = faults + 1

(* conv_server() writes m and goes on in state next; if the locker has     *)
(* closed its end the helper exits, and if the socket is full it waits.    *)
Send(m, next) ==
    IF notifier
    THEN /\ Len(up) < Buffer
         /\ up' = Append(up, m)
         /\ helper' = next
    ELSE helper' = "dead" /\ UNCHANGED up
-----------------------------------------------------------------------------
(* Signals are blocked from here on; before, SIGUSR2 ends the process.     *)
HBlock ==
    /\ helper = "starting"
    /\ helper' = IF "USR2" \in sig THEN "dead" ELSE "announce"
    /\ UNCHANGED <<pamVars, wireVars, lockerVars, faults, histVars>>

(* The program cannot be executed, or finds no user, or no signalfd: only  *)
(* the last of these is reported.                                          *)
HStartFails ==
    /\ helper = "starting"
    /\ Fault("start")
    /\ \/ helper' = "dead" /\ UNCHANGED up
       \/ Send("Error", "dead")
    /\ UNCHANGED <<pamVars, down, sig, notifier, lockerVars, histVars>>

HReady ==
    /\ helper = "announce"
    /\ Send("Ready", "idle")
    /\ given' = NoPassword /\ conv' = 0
    /\ UNCHANGED <<aborted, down, sig, notifier, lockerVars, faults, histVars>>

(* read() of the signalfd returns the signal with the lower number first.  *)
(* Signals of other processes are not modelled.                            *)
HSignal ==
    /\ helper = "idle" /\ sig # {}
    /\ IF "USR1" \in sig
       THEN helper' = "auth" /\ sig' = sig \ {"USR1"}
       ELSE helper' = "dead" /\ UNCHANGED sig
    /\ UNCHANGED <<pamVars, up, down, notifier, lockerVars, faults, histVars>>

(* PAM_conv(): a text is shown, a prompt waits for its answer.             *)
HConverse ==
    /\ helper = "auth" /\ conv < MaxConv
    /\ \/ Send("Put", "auth")
       \/ \E m \in {"Ask", "Binary"} : Send(m, "asking")
    /\ conv' = conv + 1
    /\ UNCHANGED <<given, aborted, down, sig, notifier, lockerVars, faults,
                   histVars>>

(* The answer, a null one is none and aborts; or the locker has closed its *)
(* end.                                                                    *)
HAnswer ==
    /\ helper = "asking"
    /\ \/ /\ down # <<>>
          /\ IF Head(down) = NoPassword
             THEN aborted' = TRUE /\ UNCHANGED given
             ELSE given' = Head(down) /\ UNCHANGED aborted
          /\ down' = Tail(down)
          /\ helper' = "auth"
       \/ /\ down = <<>> /\ ~notifier
          /\ helper' = "dead"
          /\ UNCHANGED <<given, aborted, down>>
    /\ UNCHANGED <<conv, up, sig, notifier, lockerVars, faults, histVars>>

(* Authenticate() may return m: PAM is satisfied by the right password, if *)
(* at all; when it is not, a conversation that was aborted is AuthAbort,   *)
(* for the locker an error.                                                *)
MayReturn(m) ==
    \/ m = "Succeeded" /\ given = Right
    \/ m = "Failed" /\ ~aborted
    \/ m = "Error"

(* A helper that uses PAM is not setuid and starts again.  PAM_data.abort  *)
(* outlives a success.                                                     *)
HVerdict ==
    /\ helper = "auth"
    /\ \E m \in HelperMsg :
          /\ MayReturn(m)
          /\ Send(m, "announce")
          /\ aborted' = (aborted /\ m = "Succeeded")
    /\ UNCHANGED <<given, conv, down, sig, notifier, lockerVars, faults,
                   histVars>>

(* The helper dies in a way of its own.                                    *)
HDie ==
    /\ helper \notin Gone
    /\ Fault("helper")
    /\ helper' = "dead"
    /\ UNCHANGED <<pamVars, wireVars, lockerVars, histVars>>

HelperStep ==
    HBlock \/ HReady \/ HSignal \/ HConverse \/ HAnswer \/ HVerdict
=============================================================================
