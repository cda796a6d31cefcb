-------------------------- MODULE AuthenticatorProofs --------------------------
(***************************************************************************)
(* Theorems about the screen locker, with their proofs.                    *)
(***************************************************************************)
EXTENDS Authenticator, TLAPS

(* The locker may still act on what comes through the channel.             *)
Attached == notifier /\ check = "live"

(* Nothing of a password has reached PAM, nor is under way to it.          *)
Unspent == given = NoPassword /\ down = <<>>

(* A question is the last message, and not answered yet; while there is an *)
(* answer under way, the helper waits for it or is gone.                   *)
OneQuestion ==
    /\ \A i \in DOMAIN up :
          up[i] = "Ask" => /\ i = Len(up) /\ down = <<>>
                           /\ helper \in Gone \cup {"asking"}
    /\ down # <<>> => Len(down) = 1 /\ helper \in Gone \cup {"asking"}

(* No password but the one typed last is anywhere on its way.              *)
OnlyTyped ==
    /\ {passwd, given} \subseteq {typed, NoPassword}
    /\ \A i \in DOMAIN down : down[i] \in {typed, NoPassword}

(* A success that is on its way is that password's.                        *)
SuccessMine == \A i \in DOMAIN up : up[i] = "Succeeded" => typed = Right

(* Behind a message that the helper is ready comes no success, and when    *)
(* the locker takes the helper for ready there is none to come.            *)
ReadyIsUnspent ==
    /\ \A i \in DOMAIN up :
          up[i] = "Ready" =>
             Unspent /\ \A j \in DOMAIN up : j > i => up[j] # "Succeeded"
    /\ ready => Unspent /\ \A j \in DOMAIN up : up[j] # "Succeeded"

Earned ==
    Attached => OneQuestion /\ OnlyTyped /\ SuccessMine /\ ReadyIsUnspent

(* As long as there was no accident: a KCheckPass has its channel while    *)
(* the event loop runs, a helper with a channel lives and is not told to   *)
(* end, and waitpid() is called for one that has no further use.           *)
Unharmed ==
    faults = 0 =>
       /\ lpc = "loop" /\ check # "none" => notifier
       /\ notifier => helper # "dead" /\ "USR2" \notin sig
       /\ lpc = "reaping" => why \in {"delete", "quit"}
       /\ lpc # "crashed"
-----------------------------------------------------------------------------
(* Message m is appended, or the first one is taken: what holds of all     *)
(* messages holds of those that are left.                                  *)
LEMMA QueueFacts ==
  ASSUME NEW S, NEW s \in Seq(S)
  PROVE  /\ \A m \in S :
              /\ Append(s, m) \in Seq(S) /\ Len(Append(s, m)) = Len(s) + 1
              /\ DOMAIN Append(s, m) = 1 .. Len(s) + 1
              /\ Append(s, m)[Len(s) + 1] = m
              /\ \A i \in DOMAIN s : Append(s, m)[i] = s[i]
         /\ s # <<>> =>
              /\ Head(s) \in S /\ Head(s) = s[1] /\ 1 \in DOMAIN s
              /\ Tail(s) \in Seq(S) /\ Len(Tail(s)) = Len(s) - 1
              /\ \A i \in DOMAIN Tail(s) :
                    i + 1 \in DOMAIN s /\ Tail(s)[i] = s[i + 1]
         /\ <<>> \in Seq(S)
         /\ DOMAIN s = 1 .. Len(s) /\ Len(s) \in Nat
  OBVIOUS

(* The helper writes a message of the protocol, or ends.                   *)
LEMMA SendTypes ==
  ASSUME TypeOK, NEW m \in HelperMsg, NEW s \in HelperState, Send(m, s)
  PROVE  up' \in Seq(HelperMsg) /\ helper' \in HelperState
  BY QueueFacts DEF TypeOK, Send, HelperState

(* Accidents are counted.                                                  *)
LEMMA FaultCounts ==
  ASSUME faults \in Nat, NEW k, Fault(k)
  PROVE  faults' \in Nat \ {0}
  BY DEF Fault

(* reapVerify() changes the locker's state and the signals within types.   *)
LEMMA ReapTypes ==
  ASSUME TypeOK, NEW w \in {"keep", "delete", "quit"}, ReapVerify(w)
  PROVE  /\ lpc' \in LockerState /\ notifier' \in BOOLEAN
         /\ why' \in {"none", "keep", "delete", "quit"}
         /\ sig' \subseteq {"USR1", "USR2"}
  BY DEF TypeOK, ReapVerify, Vanish, Kill, DeathSignal, LockerState

(* Every step of the helper keeps the types.                               *)
LEMMA HelperTypes ==
  ASSUME TypeOK, HelperStep \/ HStartFails \/ HDie
  PROVE  TypeOK'
<1> USE AuthAssumption DEF helperVars, pamVars, wireVars, lockerVars,
                           checkVars, histVars
<1>1. CASE HBlock
  BY <1>1 DEF HBlock, TypeOK, HelperState
<1>2. CASE HReady
  BY <1>2, SendTypes, "Ready" \in HelperMsg, "idle" \in HelperState
     DEF HReady, TypeOK, HelperMsg, HelperState, PasswordOrNone
<1>3. CASE HSignal
  BY <1>3 DEF HSignal, TypeOK, HelperState
<1>4. CASE HConverse
  <2>1. up' \in Seq(HelperMsg) /\ helper' \in HelperState
    BY <1>4, SendTypes DEF HConverse, HelperMsg, HelperState
  <2> QED
    BY <1>4, <2>1 DEF HConverse, TypeOK
<1>5. CASE HAnswer
  <2>1. down \in Seq(PasswordOrNone)
    BY DEF TypeOK
  <2>2. /\ down # <<>> => /\ Head(down) \in PasswordOrNone
                          /\ Tail(down) \in Seq(PasswordOrNone)
    BY <2>1, QueueFacts
  <2>3. CASE down # <<>>
    <3>1. /\ given' \in PasswordOrNone /\ aborted' \in BOOLEAN
          /\ down' \in Seq(PasswordOrNone) /\ helper' \in HelperState
      BY <1>5, <2>2, <2>3 DEF HAnswer, TypeOK, HelperState
    <3> QED
      BY <1>5, <3>1 DEF HAnswer, TypeOK
  <2>4. CASE down = <<>>
    <3>1. /\ UNCHANGED <<given, aborted, down>> /\ helper' \in HelperState
      BY <1>5, <2>4 DEF HAnswer, HelperState
    <3> QED
      BY <1>5, <3>1 DEF HAnswer, TypeOK
  <2> QED
    BY <2>3, <2>4
<1>6. CASE HVerdict
  <2>1. up' \in Seq(HelperMsg) /\ helper' \in HelperState
    BY <1>6, SendTypes DEF HVerdict, HelperState
  <2> QED
    BY <1>6, <2>1 DEF HVerdict, TypeOK
<1>7. CASE HStartFails
  <2>1. up' \in Seq(HelperMsg) /\ helper' \in HelperState
    BY <1>7, SendTypes DEF HStartFails, HelperMsg, HelperState, TypeOK
  <2> QED
    BY <1>7, <2>1 DEF HStartFails, TypeOK, Fault
<1>8. CASE HDie
  BY <1>8 DEF HDie, TypeOK, HelperState, Fault
<1> QED
  BY <1>1, <1>2, <1>3, <1>4, <1>5, <1>6, <1>7, <1>8 DEF HelperStep

(* Every step of the locker keeps the types.                               *)
LEMMA LockerTypes ==
  ASSUME TypeOK,
         \/ LRefuse \/ \E p \in Password : LBegin(p) \/ LResume(p)
         \/ LGraceOver \/ LockerStep \/ LQuit \/ LDie
  PROVE  TypeOK'
<1> USE AuthAssumption DEF helperVars, pamVars, wireVars, lockerVars,
                           checkVars, histVars, PasswordOrNone
<1>1. CASE LRefuse \/ LGraceOver
  BY <1>1 DEF LRefuse, LGraceOver, TypeOK
<1>2. ASSUME NEW p \in Password, LBegin(p)
      PROVE  TypeOK'
  <2>1. CASE Start /\ owed' = TRUE /\ UNCHANGED faults
    <3>1. /\ <<>> \in Seq(HelperMsg) /\ <<>> \in Seq(PasswordOrNone)
          /\ 0 \in 0 .. MaxConv
      BY QueueFacts
    <3> QED
      BY <1>2, <2>1, <3>1 DEF LBegin, Start, TypeOK, HelperState
  <2>2. CASE /\ Fault("start") /\ check' = "doomed" /\ owed' = FALSE
             /\ UNCHANGED <<helperVars, wireVars>>
    <3>1. faults' \in Nat
      BY <2>2, FaultCounts DEF TypeOK
    <3> QED
      BY <1>2, <2>2, <3>1 DEF LBegin, TypeOK
  <2> QED
    BY <1>2, <2>1, <2>2 DEF LBegin
<1>3. ASSUME NEW p \in Password, LResume(p)
      PROVE  TypeOK'
  BY <1>3 DEF LResume, Kill, TypeOK
<1>4. CASE LockerStep
  <2>1. ASSUME NEW m, Receive(m)
        PROVE  /\ up' \in Seq(HelperMsg) /\ ready' \in BOOLEAN
               /\ UNCHANGED <<helper, given, aborted, conv, notifier, lpc, why,
                              mode, grace, faults, typed>>
    BY <2>1, QueueFacts DEF Receive, TypeOK
  <2>2. CASE LReady
    <3>1. sig' \subseteq {"USR1", "USR2"}
      BY <2>2 DEF LReady, GoOn, Kill, TypeOK
    <3>2. UNCHANGED <<down, check, passwd, owed, unlocked>>
      BY <2>2 DEF LReady
    <3>3. Receive("Ready")
      BY <2>2 DEF LReady
    <3> QED
      BY <2>1, <3>1, <3>2, <3>3 DEF TypeOK
  <2>3. CASE LAnswer
    BY <2>1, <2>3, QueueFacts DEF LAnswer, TypeOK
  <2>4. CASE LShow \/ LSucceeded \/ LFailed
    BY <2>1, <2>4 DEF LShow, LSucceeded, LFailed, Finished, TypeOK
  <2>5. CASE LBreak
    BY <2>5, ReapTypes DEF LBreak, BrokenThen, TypeOK
  <2>6. CASE LDelete
    BY <2>6, ReapTypes DEF LDelete, TypeOK
  <2>7. CASE LReaped
    BY <2>7 DEF LReaped, AfterReap, TypeOK, HelperState, LockerState
  <2> QED
    BY <1>4, <2>2, <2>3, <2>4, <2>5, <2>6, <2>7 DEF LockerStep
<1>5. CASE LQuit
  BY <1>5, ReapTypes DEF LQuit, TypeOK, LockerState
<1>6. CASE LDie
  <2>1. faults' \in Nat
    BY <1>6, FaultCounts DEF LDie, TypeOK
  <2>2. lpc' \in LockerState /\ sig' \subseteq {"USR1", "USR2"}
    BY <1>6 DEF LDie, Vanish, DeathSignal, TypeOK, LockerState
  <2> QED
    BY <1>6, <2>1, <2>2 DEF LDie, Vanish, TypeOK
<1> QED
  BY <1>1, <1>2, <1>3, <1>4, <1>5, <1>6

(* The initial state has the types.                                        *)
LEMMA InitTypes == Init => TypeOK
<1>1. /\ <<>> \in Seq(HelperMsg) /\ <<>> \in Seq(PasswordOrNone)
      /\ 0 \in 0 .. MaxConv
  BY AuthAssumption, QueueFacts
<1>2. Init => helper \in HelperState /\ check \in {"none", "live", "doomed"}
  BY DEF Init, HelperState
<1>3. Init => notifier \in BOOLEAN /\ faults \in Nat /\ sig \subseteq {}
  BY DEF Init
<1> QED
  BY <1>1, <1>2, <1>3 DEF Init, TypeOK, LockerState, PasswordOrNone

(* The types are kept by every step, of whatever process.                  *)
LEMMA NextTypes == TypeOK /\ [Next]_vars => TypeOK'
<1> SUFFICES ASSUME TypeOK, [Next]_vars
             PROVE  TypeOK'
  OBVIOUS
<1>1. CASE Rest \/ UNCHANGED vars
  BY <1>1 DEF Rest, TypeOK, vars, helperVars, pamVars, wireVars, lockerVars,
              checkVars, histVars
<1> QED
  BY <1>1, HelperTypes, LockerTypes DEF Next

(* Type correctness, for every set of passwords and every bound.           *)
THEOREM TypesHold == Spec => []TypeOK
  BY InitTypes, NextTypes, PTL DEF Spec
-----------------------------------------------------------------------------
(* One helper at a time, by induction alone: a helper comes with its       *)
(* KCheckPass and that goes after waitpid().                               *)
THEOREM NoLeftoverHolds == Spec => []NoLeftover
<1> USE DEF helperVars, pamVars, wireVars, lockerVars, checkVars, histVars
<1>1. Init => NoLeftover
  BY DEF Init, NoLeftover
<1>2. NoLeftover /\ [Next]_vars => NoLeftover'
  <2> SUFFICES ASSUME NoLeftover, [Next]_vars
               PROVE  NoLeftover'
    OBVIOUS
  <2>1. CASE HelperStep \/ HStartFails \/ HDie
    BY <2>1 DEF NoLeftover, HelperStep, HBlock, HReady, HSignal, HConverse,
                HAnswer, HVerdict, HStartFails, HDie, Gone
  <2>2. CASE LRefuse \/ LGraceOver \/ Rest \/ UNCHANGED vars
    BY <2>2 DEF NoLeftover, LRefuse, LGraceOver, Rest, vars
  <2>3. ASSUME NEW p \in Password, LBegin(p) \/ LResume(p)
        PROVE  NoLeftover'
    BY <2>3 DEF NoLeftover, LBegin, LResume, Start
  <2>4. ASSUME NEW m, Receive(m), check' \in {check, Finished}
        PROVE  NoLeftover'
    BY <2>4 DEF NoLeftover, Receive, Finished
  <2>5. CASE LBreak \/ LDelete \/ LReaped
    BY <2>5 DEF NoLeftover, LBreak, LDelete, LReaped, AfterReap, ReapVerify,
                Vanish
  <2>6. CASE LQuit
    BY <2>6 DEF NoLeftover, LQuit, ReapVerify, Vanish
  <2>7. CASE LDie
    BY <2>7 DEF NoLeftover, LDie, Vanish
  <2>8. CASE LReady \/ LAnswer \/ LShow \/ LSucceeded \/ LFailed
    BY <2>4, <2>8 DEF LReady, LAnswer, LShow, LSucceeded, LFailed
  <2> QED
    BY <2>1, <2>2, <2>3, <2>5, <2>6, <2>7, <2>8 DEF Next, LockerStep
<1> QED
  BY <1>1, <1>2, PTL DEF Spec
-----------------------------------------------------------------------------
(* An accident is behind every notifier that is gone when it is wanted.    *)
THEOREM ReapedOnceHolds == Spec => []ReapedOnce
<1> USE DEF helperVars, pamVars, wireVars, lockerVars, checkVars, histVars
<1>1. Init => Unharmed
  BY DEF Init, Unharmed
<1>2. TypeOK /\ Unharmed /\ [Next]_vars => Unharmed'
  <2> SUFFICES ASSUME TypeOK, Unharmed, [Next]_vars, faults' = 0
               PROVE  Unharmed'
    BY DEF Unharmed
  <2>1. \A k : ~Fault(k)
    BY FaultCounts DEF TypeOK
  <2>2. CASE HelperStep \/ HStartFails \/ HDie
    <3>1. CASE HSignal
      <4>1. sig \subseteq {"USR1", "USR2"}
        BY DEF TypeOK
      <4>2. faults = 0 /\ UNCHANGED <<notifier, lpc, why, check>>
        BY <3>1 DEF HSignal
      <4>3. notifier => "USR1" \in sig
        BY <3>1, <4>1, <4>2 DEF HSignal, Unharmed
      <4> QED
        BY <3>1, <4>2, <4>3 DEF HSignal, Unharmed
    <3> QED
      BY <2>1, <2>2, <3>1
         DEF Unharmed, HelperStep, HBlock, HReady, HConverse, HAnswer,
             HVerdict, HStartFails, HDie, Send
  <2>3. CASE LRefuse \/ LGraceOver \/ Rest \/ UNCHANGED vars
    BY <2>3 DEF Unharmed, LRefuse, LGraceOver, Rest, vars
  <2>4. ASSUME NEW p \in Password, LBegin(p) \/ LResume(p)
        PROVE  Unharmed'
    BY <2>1, <2>4 DEF Unharmed, LBegin, LResume, Start, Kill
  <2>5. ASSUME NEW m, Receive(m), check' \in {check, Finished},
               "USR2" \in sig' => "USR2" \in sig
        PROVE  Unharmed'
    BY <2>5 DEF Unharmed, Receive, Finished
  <2>6. CASE LReady \/ LAnswer \/ LShow \/ LSucceeded \/ LFailed
    <3>1. CASE LReady
      BY <2>5, <3>1 DEF LReady, GoOn, Kill
    <3>2. CASE LAnswer \/ LShow
      BY <2>5, <3>2 DEF LAnswer, LShow
    <3>3. CASE LSucceeded
      BY <2>5, <3>3 DEF LSucceeded
    <3>4. CASE LFailed
      BY <2>5, <3>4 DEF LFailed
    <3> QED
      BY <2>6, <3>1, <3>2, <3>3, <3>4
  <2>7. CASE LBreak
    BY <2>7 DEF Unharmed, LBreak, BrokenThen
  <2>8. CASE LDelete
    BY <2>8 DEF Unharmed, LDelete, ReapVerify
  <2>9. CASE LReaped
    BY <2>9 DEF Unharmed, LReaped, AfterReap
  <2>10. CASE LQuit
    BY <2>10 DEF Unharmed, LQuit, ReapVerify
  <2>11. CASE LDie
    BY <2>1, <2>11 DEF LDie
  <2> QED
    BY <2>2, <2>3, <2>4, <2>6, <2>7, <2>8, <2>9, <2>10, <2>11
       DEF Next, LockerStep, Unharmed
<1>3. TypeOK /\ Unharmed => ReapedOnce
  BY DEF TypeOK, Unharmed, ReapedOnce
<1> QED
  BY <1>1, <1>2, <1>3, TypesHold, PTL DEF Spec
-----------------------------------------------------------------------------
(* What a success has behind it (Earned) is kept by every step ...         *)

(* ... of the helper, whose messages join the queue at its end, ...        *)
LEMMA HelperEarned ==
  ASSUME TypeOK, Earned, HelperStep \/ HStartFails \/ HDie
  PROVE  Earned'
<1> USE DEF helperVars, pamVars, wireVars, lockerVars, checkVars, histVars,
            Attached
<1> SUFFICES ASSUME Attached'
             PROVE  (OneQuestion /\ OnlyTyped /\ SuccessMine /\ ReadyIsUnspent)'
  BY DEF Earned
<1>0. /\ Attached /\ UNCHANGED <<passwd, typed, ready, notifier>>
      /\ up \in Seq(HelperMsg) /\ down \in Seq(PasswordOrNone)
      /\ OneQuestion /\ OnlyTyped /\ SuccessMine /\ ReadyIsUnspent
  BY DEF Earned, TypeOK, HelperStep, HBlock, HReady, HSignal, HConverse,
         HAnswer, HVerdict, HStartFails, HDie
<1>1. CASE HBlock \/ HSignal \/ HDie
  <2>1. UNCHANGED <<up, down, given>>
    BY <1>1 DEF HBlock, HSignal, HDie
  <2>2. helper \in Gone \cup {"asking"} => helper' \in Gone \cup {"asking"}
    BY <1>1 DEF HBlock, HSignal, HDie, Gone
  <2> QED
    BY <1>0, <2>1, <2>2
       DEF OneQuestion, OnlyTyped, SuccessMine, ReadyIsUnspent, Unspent
<1>2. ASSUME NEW m \in HelperMsg, NEW s \in HelperState, Send(m, s),
             UNCHANGED down, helper \notin Gone \cup {"asking"},
             given' \in {given, NoPassword},
             m = "Ask" => s = "asking",
             m = "Succeeded" => given = Right,
             m = "Ready" => given' = NoPassword
      PROVE  (OneQuestion /\ OnlyTyped /\ SuccessMine /\ ReadyIsUnspent)'
  <2>1. /\ down = <<>> /\ down' = <<>>
        /\ \A i \in DOMAIN up : up[i] # "Ask"
    BY <1>0, <1>2 DEF OneQuestion
  <2>2. up' = Append(up, m) /\ helper' = s
    BY <1>0, <1>2 DEF Send
  <2>3. /\ Len(up) \in Nat /\ DOMAIN up = 1 .. Len(up)
        /\ DOMAIN up' = 1 .. Len(up) + 1 /\ Len(up') = Len(up) + 1
        /\ \A i \in DOMAIN up : up'[i] = up[i]
        /\ up'[Len(up) + 1] = m
    BY <1>0, <1>2, <2>2, QueueFacts
  <2>4. \A i \in DOMAIN up' : i \in DOMAIN up \/ i = Len(up) + 1
    BY <2>3
  <2>5. OneQuestion'
    BY <1>2, <2>1, <2>2, <2>3, <2>4 DEF OneQuestion
  <2>6. OnlyTyped'
    BY <1>0, <1>2, <2>1 DEF OnlyTyped
  <2>7. m = "Succeeded" =>
          /\ typed = Right /\ ~ready
          /\ \A i \in DOMAIN up : up[i] # "Ready"
    BY <1>0, <1>2, AuthAssumption DEF OnlyTyped, ReadyIsUnspent, Unspent
  <2>8. SuccessMine'
    BY <1>0, <2>3, <2>4, <2>7 DEF SuccessMine
  <2>9. ReadyIsUnspent'
    <3>1. ASSUME NEW i \in DOMAIN up', up'[i] = "Ready"
          PROVE  Unspent' /\ \A j \in DOMAIN up' : j > i => up'[j] # "Succeeded"
      BY <1>0, <1>2, <2>1, <2>3, <2>4, <2>7, <3>1 DEF ReadyIsUnspent, Unspent
    <3>2. ASSUME ready'
          PROVE  Unspent' /\ \A j \in DOMAIN up' : up'[j] # "Succeeded"
      BY <1>0, <1>2, <2>1, <2>3, <2>4, <2>7, <3>2 DEF ReadyIsUnspent, Unspent
    <3> QED
      BY <3>1, <3>2 DEF ReadyIsUnspent
  <2> QED
    BY <2>5, <2>6, <2>8, <2>9
<1>3. CASE HReady \/ HConverse \/ HVerdict
  <2>1. CASE HReady
    BY <1>2, <2>1 DEF HReady, HelperMsg, HelperState, Gone
  <2>2. CASE HConverse
    BY <1>2, <2>2 DEF HConverse, HelperMsg, HelperState, Gone
  <2>3. CASE HVerdict
    BY <1>2, <2>3 DEF HVerdict, MayReturn, HelperState, Gone
  <2> QED
    BY <1>3, <2>1, <2>2, <2>3
<1>4. CASE HStartFails
  <2>1. CASE UNCHANGED up
    BY <1>0, <1>4, <2>1
       DEF HStartFails, Gone, OneQuestion, OnlyTyped, SuccessMine,
           ReadyIsUnspent, Unspent
  <2>2. CASE Send("Error", "dead")
    BY <1>2, <1>4, <2>2 DEF HStartFails, HelperMsg, HelperState, Gone
  <2> QED
    BY <1>4, <2>1, <2>2 DEF HStartFails
<1>5. CASE HAnswer
  <2>1. /\ down # <<>> /\ helper' = "auth" /\ down' = Tail(down)
        /\ given' \in {given, Head(down)} /\ UNCHANGED up
    BY <1>0, <1>5 DEF HAnswer
  <2>2. Len(down) = 1 /\ \A i \in DOMAIN up : up[i] # "Ask"
    BY <1>0, <2>1 DEF OneQuestion
  <2>3. down' = <<>> /\ Head(down) \in {typed, NoPassword}
    BY <1>0, <2>1, <2>2, QueueFacts DEF OnlyTyped
  <2>4. ~ready /\ \A i \in DOMAIN up : up[i] # "Ready"
    BY <1>0, <2>1 DEF ReadyIsUnspent, Unspent
  <2> QED
    BY <1>0, <2>1, <2>2, <2>3, <2>4
       DEF OneQuestion, OnlyTyped, SuccessMine, ReadyIsUnspent
<1> QED
  BY <1>1, <1>3, <1>4, <1>5 DEF HelperStep

(* ... of the locker, which takes them from its front, ...                 *)
LEMMA LockerEarned ==
  ASSUME TypeOK, Earned,
         \/ LRefuse \/ \E p \in Password : LBegin(p) \/ LResume(p)
         \/ LGraceOver \/ LockerStep \/ LQuit \/ LDie
  PROVE  Earned'
<1> USE DEF helperVars, pamVars, wireVars, lockerVars, checkVars, histVars,
            Attached
<1> SUFFICES ASSUME Attached'
             PROVE  (OneQuestion /\ OnlyTyped /\ SuccessMine /\ ReadyIsUnspent)'
  BY DEF Earned
<1>0. up \in Seq(HelperMsg) /\ down \in Seq(PasswordOrNone)
  BY DEF TypeOK
<1>1. CASE LRefuse \/ LGraceOver
  <2>1. /\ Attached
        /\ UNCHANGED <<up, down, given, passwd, typed, ready, helper>>
    BY <1>1 DEF LRefuse, LGraceOver
  <2> QED
    BY <2>1 DEF Earned, OneQuestion, OnlyTyped, SuccessMine, ReadyIsUnspent,
                Unspent
<1>2. ASSUME NEW p \in Password, LBegin(p)
      PROVE  (OneQuestion /\ OnlyTyped /\ SuccessMine /\ ReadyIsUnspent)'
  <2>1. /\ up' = <<>> /\ down' = <<>> /\ given' = NoPassword
        /\ passwd' = p /\ typed' = p /\ ready' = FALSE
    BY <1>2 DEF LBegin, Start
  <2> QED
    BY <2>1 DEF OneQuestion, OnlyTyped, SuccessMine, ReadyIsUnspent
<1>3. ASSUME NEW p \in Password, LResume(p)
      PROVE  (OneQuestion /\ OnlyTyped /\ SuccessMine /\ ReadyIsUnspent)'
  <2>1. /\ Attached /\ ready /\ passwd' = p /\ typed' = p
        /\ UNCHANGED <<up, down, given, helper, ready>>
    BY <1>3 DEF LResume, CanResume
  <2>2. Unspent /\ \A i \in DOMAIN up : up[i] # "Succeeded"
    BY <2>1 DEF Earned, ReadyIsUnspent
  <2> QED
    BY <2>1, <2>2 DEF Earned, OneQuestion, OnlyTyped, SuccessMine,
                      ReadyIsUnspent, Unspent
<1>4. ASSUME NEW m, Receive(m),
             {passwd'} \subseteq {passwd, NoPassword},
             m # "Ask" => UNCHANGED down,
             m = "Ask" => \/ UNCHANGED down
                          \/ helper \notin Gone /\ down' = Append(down, passwd)
      PROVE  (OneQuestion /\ OnlyTyped /\ SuccessMine /\ ReadyIsUnspent)'
  <2>1. /\ OneQuestion /\ OnlyTyped /\ SuccessMine /\ ReadyIsUnspent
        /\ up # <<>> /\ up' = Tail(up) /\ up[1] = m /\ 1 \in DOMAIN up
        /\ UNCHANGED <<helper, given, typed>> /\ ready' = (m = "Ready")
    BY <1>0, <1>4, QueueFacts DEF Receive, Earned
  <2>2. /\ Len(up) \in Nat /\ DOMAIN up = 1 .. Len(up)
        /\ Len(up') = Len(up) - 1
        /\ \A i \in DOMAIN up' : i + 1 \in DOMAIN up /\ up'[i] = up[i + 1]
        /\ DOMAIN up' \subseteq Nat
    BY <1>0, <2>1, QueueFacts
  <2>3. CASE m = "Ask" /\ ~UNCHANGED down
    <3>1. Len(up) = 1 /\ down = <<>> /\ helper = "asking"
      BY <1>4, <2>1, <2>3 DEF OneQuestion
    <3>2. \A i : i \notin DOMAIN up'
      BY <2>2, <3>1
    <3>3. /\ DOMAIN down' = {1} /\ Len(down') = 1
          /\ down'[1] = passwd
      BY <1>4, <2>3, <3>1
    <3>4. OneQuestion'
      BY <2>1, <3>1, <3>2, <3>3 DEF OneQuestion
    <3>5. OnlyTyped'
      BY <1>4, <2>1, <3>3 DEF OnlyTyped
    <3> QED
      BY <2>1, <2>3, <3>2, <3>4, <3>5 DEF SuccessMine, ReadyIsUnspent
  <2>4. CASE UNCHANGED down
    <3>1. OneQuestion'
      <4>1. ASSUME NEW i \in DOMAIN up', up'[i] = "Ask"
            PROVE  /\ i = Len(up') /\ down' = <<>>
                   /\ helper' \in Gone \cup {"asking"}
        BY <2>1, <2>2, <2>4, <4>1 DEF OneQuestion
      <4> QED
        BY <2>1, <2>4, <4>1 DEF OneQuestion
    <3>2. OnlyTyped' /\ SuccessMine'
      BY <1>4, <2>1, <2>2, <2>4 DEF OnlyTyped, SuccessMine
    <3>3. ASSUME NEW i \in DOMAIN up', up'[i] = "Ready"
          PROVE  Unspent' /\ \A j \in DOMAIN up' : j > i => up'[j] # "Succeeded"
      <4>1. i + 1 \in DOMAIN up /\ up[i + 1] = "Ready"
        BY <2>2, <3>3
      <4>2. \A j \in DOMAIN up' : j > i => j + 1 > i + 1
        BY <2>2
      <4> QED
        BY <2>1, <2>2, <2>4, <4>1, <4>2 DEF ReadyIsUnspent, Unspent
    <3>4. ASSUME ready'
          PROVE  Unspent' /\ \A j \in DOMAIN up' : up'[j] # "Succeeded"
      <4>1. \A j \in DOMAIN up' : j + 1 > 1
        BY <2>2
      <4> QED
        BY <2>1, <2>2, <2>4, <3>4, <4>1 DEF ReadyIsUnspent, Unspent
    <3> QED
      BY <3>1, <3>2, <3>3, <3>4 DEF ReadyIsUnspent
  <2> QED
    BY <1>4, <2>3, <2>4
<1>5. CASE LReady \/ LAnswer \/ LShow \/ LSucceeded \/ LFailed
  <2>1. CASE LReady
    BY <1>4, <2>1 DEF LReady
  <2>2. CASE LAnswer
    BY <1>4, <2>2 DEF LAnswer
  <2>3. CASE LShow
    BY <1>4, <2>3 DEF LShow
  <2>4. CASE LSucceeded
    BY <1>4, <2>4 DEF LSucceeded
  <2>5. CASE LFailed
    BY <1>4, <2>5 DEF LFailed, Failures
  <2> QED
    BY <1>5, <2>1, <2>2, <2>3, <2>4, <2>5
<1>6. CASE LBreak \/ LDelete \/ LDie
  BY <1>6 DEF LBreak, LDelete, LDie, ReapVerify, Vanish
<1>7. CASE LReaped
  <2>1. /\ Attached /\ UNCHANGED <<up, down, given, passwd, typed, ready>>
        /\ helper' = "none"
    BY <1>7 DEF LReaped, AfterReap
  <2> QED
    BY <2>1 DEF Earned, Gone, OneQuestion, OnlyTyped, SuccessMine,
                ReadyIsUnspent, Unspent
<1>8. CASE LQuit
  BY <1>8 DEF LQuit, ReapVerify, Vanish
<1> QED
  BY <1>1, <1>2, <1>3, <1>5, <1>6, <1>7, <1>8 DEF LockerStep

(* ... and so the screen is unlocked by nothing but the right password,    *)
(* typed last, in both modes and whatever fails.                           *)
THEOREM SuccessIsEarnedHolds == Spec => SuccessIsEarned
<1>1. Init => Earned
  BY DEF Init, Earned, OneQuestion, OnlyTyped, SuccessMine, ReadyIsUnspent
<1>2. TypeOK /\ Earned /\ [Next]_vars => Earned'
  <2> SUFFICES ASSUME TypeOK, Earned, [Next]_vars
               PROVE  Earned'
    OBVIOUS
  <2>1. CASE Rest \/ UNCHANGED vars
    BY <2>1 DEF Rest, vars, helperVars, pamVars, wireVars, lockerVars,
                checkVars, histVars, Earned, Attached, OneQuestion, OnlyTyped,
                SuccessMine, ReadyIsUnspent, Unspent
  <2> QED
    BY <2>1, HelperEarned, LockerEarned DEF Next
<1>3. TypeOK /\ Earned => [LSucceeded => typed = Right]_vars
  <2> SUFFICES ASSUME TypeOK, Earned, LSucceeded
               PROVE  typed = Right
    OBVIOUS
  <2>1. /\ Attached /\ up # <<>> /\ Head(up) = "Succeeded"
        /\ up \in Seq(HelperMsg)
    BY DEF LSucceeded, Receive, Attached, TypeOK
  <2>2. 1 \in DOMAIN up /\ up[1] = "Succeeded"
    BY <2>1, QueueFacts
  <2> QED
    BY <2>1, <2>2 DEF Earned, SuccessMine
<1> QED
  BY <1>1, <1>2, <1>3, TypesHold, PTL DEF Spec, SuccessIsEarned
-----------------------------------------------------------------------------
(* In Direct mode an attempt waits for its outcome exactly as long as its  *)
(* KCheckPass is not to be deleted, only that one is ready, and the        *)
(* program ends only after a success.                                      *)
OneOutcome ==
    Direct =>
       /\ check = "live" => owed
       /\ ready => check = "live" \/ lpc = "gone"
       /\ check # "live" /\ lpc # "gone" => ~owed
       /\ lpc = "reaping" /\ why = "delete" => check = "doomed"
       /\ lpc = "reaping" => why \in {"keep", "delete", "quit"}
       /\ lpc = "gone" \/ why = "quit" => unlocked

(* The mode is that of the constructor.                                    *)
LEMMA ModeKept == [Next]_vars => UNCHANGED mode
<1> SUFFICES ASSUME [Next]_vars PROVE UNCHANGED mode
  OBVIOUS
<1> USE DEF lockerVars
<1>1. CASE HelperStep \/ HStartFails \/ HDie \/ Rest \/ UNCHANGED vars
  BY <1>1 DEF HelperStep, HBlock, HReady, HSignal, HConverse, HAnswer,
              HVerdict, HStartFails, HDie, Rest, vars
<1>2. CASE \/ LRefuse \/ LGraceOver \/ LockerStep \/ LQuit \/ LDie
           \/ \E p \in Password : LBegin(p) \/ LResume(p)
  BY <1>2 DEF LRefuse, LGraceOver, LBegin, LResume, LockerStep, LReady,
              LAnswer, LShow, LSucceeded, LFailed, Receive, LBreak, LDelete,
              LReaped, LQuit, LDie
<1> QED
  BY <1>1, <1>2 DEF Next

(* A step of the helper is none of the service's.                          *)
LEMMA HelperHidden ==
  ASSUME HelperStep \/ HStartFails \/ HDie
  PROVE  UNCHANGED <<lpc, why, check, ready, owed, typed, unlocked>>
BY DEF HelperStep, HBlock, HReady, HSignal, HConverse, HAnswer, HVerdict,
       HStartFails, HDie, lockerVars, checkVars, histVars

LEMMA OneOutcomeKept ==
  ASSUME TypeOK, OneOutcome, [Next]_vars
  PROVE  OneOutcome'
<1> SUFFICES ASSUME mode = "Direct", UNCHANGED mode
             PROVE  OneOutcome'
  BY ModeKept DEF OneOutcome, Direct
<1> USE DEF helperVars, pamVars, wireVars, lockerVars, checkVars, histVars,
            Direct
<1>1. CASE HelperStep \/ HStartFails \/ HDie \/ Rest \/ UNCHANGED vars
  <2>1. UNCHANGED <<lpc, why, check, ready, owed, typed, unlocked>>
    BY <1>1, HelperHidden DEF Rest, vars
  <2> QED
    BY <2>1 DEF OneOutcome
<1>2. CASE LRefuse \/ LGraceOver
  BY <1>2 DEF LRefuse, LGraceOver, OneOutcome
<1>3. CASE \E p \in Password : LBegin(p) \/ LResume(p)
  <2>1. PICK p \in Password : LBegin(p) \/ LResume(p)
    BY <1>3
  <2>2. CASE LBegin(p)
    BY <2>2 DEF LBegin, Start, OneOutcome, TypeOK
  <2>3. CASE LResume(p)
    BY <2>3 DEF LResume, CanResume, OneOutcome
  <2> QED
    BY <2>1, <2>2, <2>3
<1>4. CASE LReady \/ LAnswer \/ LShow
  BY <1>4 DEF LReady, LAnswer, LShow, Receive, OneOutcome
<1>5. CASE LSucceeded \/ LFailed
  <2>1. PICK m \in Failures \cup {"Succeeded"} : Receive(m)
    BY <1>5 DEF LSucceeded, LFailed
  <2>2. /\ lpc = "loop" /\ UNCHANGED <<lpc, why>>
        /\ ~ready'
    BY <2>1 DEF Receive, Failures
  <2>3. ~owed' /\ check' = "doomed" /\ (unlocked => unlocked')
    BY <1>5 DEF LSucceeded, LFailed, Finished
  <2> QED
    BY <2>2, <2>3 DEF OneOutcome
<1>6. CASE LBreak
  BY <1>6 DEF LBreak, BrokenThen, ReapVerify, Vanish, OneOutcome
<1>7. CASE LDelete
  BY <1>7 DEF LDelete, ReapVerify, Vanish, OneOutcome
<1>8. CASE LReaped
  BY <1>8 DEF LReaped, AfterReap, OneOutcome, TypeOK
<1>9. CASE LQuit
  BY <1>9 DEF LQuit, ReapVerify, Vanish, OneOutcome, TypeOK
<1>10. CASE LDie
  BY <1>10 DEF LDie, Vanish, Running, OneOutcome
<1> QED
  BY <1>1, <1>2, <1>3, <1>4, <1>5, <1>6, <1>7, <1>8, <1>9, <1>10
     DEF Next, LockerStep

(* Every step of the locker is one of the service, or none.                *)
LEMMA StepKept ==
  ASSUME TypeOK, OneOutcome, [Next]_vars,
         [LSucceeded => typed = Right]_vars
  PROVE  [Service!Next]_Service!vars
<1> USE DEF helperVars, pamVars, wireVars, lockerVars, checkVars, histVars,
            Direct, Life, Running, Service!vars
<1>0. CASE mode # "Direct"
  BY <1>0, ModeKept
<1> SUFFICES ASSUME mode = "Direct", UNCHANGED mode
             PROVE  [Service!Next]_Service!vars
  BY <1>0, ModeKept
<1>1. CASE HelperStep \/ HStartFails \/ HDie \/ Rest \/ UNCHANGED vars
  <2>1. UNCHANGED <<lpc, owed, typed, unlocked>>
    BY <1>1, HelperHidden DEF Rest, vars
  <2> QED
    BY <2>1
<1>2. CASE LRefuse \/ LGraceOver \/ LReady \/ LAnswer \/ LShow
  BY <1>2 DEF LRefuse, LGraceOver, LReady, LAnswer, LShow, Receive
<1>3. ASSUME NEW p \in Password, LBegin(p) \/ LResume(p)
      PROVE  Service!Attempt(p)
  BY <1>3 DEF LBegin, Start, LResume, Service!Attempt
<1>4. CASE LSucceeded
  <2>1. typed = Right /\ owed
    <3>1. up # up'
      <4>1. up # <<>> /\ up \in Seq(HelperMsg) /\ up' = Tail(up)
        BY <1>4 DEF LSucceeded, Receive, TypeOK
      <4>2. Len(Tail(up)) # Len(up)
        BY <4>1, QueueFacts
      <4> QED
        BY <4>1, <4>2
    <3> QED
      BY <1>4, <3>1 DEF LSucceeded, Receive, OneOutcome, vars
  <2> QED
    BY <1>4, <2>1 DEF LSucceeded, Receive, Service!Succeed, Service!Next
<1>5. CASE LFailed
  BY <1>5 DEF LFailed, Receive, OneOutcome, Service!Fail, Service!Next
<1>6. CASE LBreak \/ LDelete
  BY <1>6 DEF LBreak, LDelete, ReapVerify, Vanish, Service!Lose, Service!Next
<1>7. CASE LReaped
  BY <1>7 DEF LReaped, OneOutcome, Service!Open, Service!Next
<1>8. CASE LQuit
  BY <1>8 DEF LQuit, ReapVerify, Vanish, Service!Open, Service!Lose,
              Service!Next
<1>9. CASE LDie
  BY <1>9 DEF LDie, Vanish, Service!Lose, Service!Next
<1> QED
  BY <1>1, <1>2, <1>3, <1>4, <1>5, <1>6, <1>7, <1>8, <1>9
     DEF Next, LockerStep, Service!Next

(* The locker is an unlock service, for all passwords, all lengths of the  *)
(* conversation and of the channel's buffer, and any accidents.            *)
THEOREM ServiceIsKept == Spec => ServiceKept
<1>1. Init => OneOutcome /\ Service!Init
  BY DEF Init, OneOutcome, Service!Init, Direct, Life, Running
<1>2. TypeOK /\ OneOutcome /\ [Next]_vars => OneOutcome'
  BY OneOutcomeKept
<1>3. /\ TypeOK /\ OneOutcome /\ [Next]_vars
      /\ [LSucceeded => typed = Right]_vars
      => [Service!Next]_Service!vars
  BY StepKept
<1> QED
  BY <1>1, <1>2, <1>3, TypesHold, SuccessIsEarnedHolds, PTL
     DEF Spec, ServiceKept, Service!Spec, SuccessIsEarned
=============================================================================
