---------------------------- MODULE SystemTrayProofs ----------------------------
(***************************************************************************)
(* Theorems about the system tray, with their proofs.                      *)
(***************************************************************************)
EXTENDS SystemTray, FiniteSetTheorems, SequenceTheorems, TLAPS

(* The inductive invariant, in four parts. What the buses carry has its    *)
(* type,                                                                   *)
BusTypes ==
    /\ app \in [Service -> BOOLEAN] /\ version \in [Item -> 0 .. MaxVersion]
    /\ told \subseteq Item
    /\ watcher \in BOOLEAN /\ registered \subseteq Item
    /\ watched \subseteq Service /\ wpc \in {"idle", "check", "add"}
    /\ wItem \in Item /\ toWatcher \in Seq(WatcherMsg)
    /\ proxy \in BOOLEAN /\ toHost \in Seq(HostMsg)
    /\ events \in [Party -> Nat]

(* and so has what the host keeps, whose table and rows agree.             *)
HostTypes ==
    /\ services \in [Item -> 0 .. MaxSource] /\ rows \in Seq(Source)
    /\ connected \in [Source -> BOOLEAN] /\ timer \in [Source -> BOOLEAN]
    /\ refreshing \in [Source -> BOOLEAN] /\ again \in [Source -> BOOLEAN]
    /\ shown \in [Source -> 0 .. MaxVersion] /\ asked \in [Source -> BOOLEAN]
    /\ toSource \in [Source -> Seq(SourceMsg)]
HostInv == HostTypes /\ RowsRight

(* The watcher has no item of an application that has gone without the     *)
(* word of its loss being on the way. The one that it works on is not in   *)
(* the list, and is watched before the question whether it is there is     *)
(* asked.                                                                  *)
Leaving(s) ==
    \E k \in DOMAIN toWatcher :
        toWatcher[k] = [type |-> "Lost", service |-> s]
Sure(i) == Leaving(ServiceOf[i]) \/ (On(i) /\ ServiceOf[i] \in watched)
Registry ==
    /\ ~watcher => toWatcher = <<>> /\ registered = {} /\ watched = {}
                 /\ wpc = "idle"
    /\ wpc # "idle" => wItem \notin registered
    /\ wpc = "check" => ServiceOf[wItem] \in watched
    /\ wpc = "add" => Sure(wItem)
    /\ \A i \in registered : Sure(i)

(* The news of watchers alternate, and the last one is true of now.        *)
Switch(m) == m.type \in {"Come", "Gone"}
Turns ==
    /\ \A k \in 1 .. Len(toHost) - 1 :
          toHost[k].type = "Gone" <=> toHost[k + 1].type = "Come"
    /\ toHost # <<>> => (watcher <=> toHost[Len(toHost)].type # "Gone")

(* The host is connected to a watcher unless the news of its coming is the *)
(* next; with no news on the way it is right about there being one; and    *)
(* without one it has no item.                                             *)
Linked ==
    /\ toHost # <<>> /\ toHost[1].type = "Come" => ~proxy
    /\ ~Has(toHost, "Come") /\ ~Has(toHost, "Gone") => proxy = watcher
    /\ ~proxy => Mirrored = {} /\ ~Has(toHost, "List")

(* At most one call for the list or answer to it is under way, and it is   *)
(* with the watcher that the host is connected to: no news precede it.     *)
OneGet ==
    \A j, k \in DOMAIN toWatcher :
        toWatcher[j].type = "Get" /\ toWatcher[k].type = "Get" => j = k
Calls ==
    /\ \A k \in DOMAIN toHost : toHost[k].type = "List" =>
          \A j \in 1 .. k : ~Switch(toHost[j])
    /\ Has(toWatcher, "Get") => /\ proxy /\ ~Has(toHost, "Come")
                                /\ ~Has(toHost, "Gone") /\ ~Has(toHost, "List")
    /\ OneGet

(* Message m tells that the list, S before, is T now.                      *)
Tells(m, S, T) ==
    CASE m.type = "Registered" -> m.item \notin S /\ T = S \cup {m.item}
      [] m.type = "Unregistered" -> m.item \in S /\ T = S \ {m.item}
      [] m.type = "List" -> m.items = S /\ T = S
      [] OTHER -> TRUE

(* r[k] is the list that the watcher had when it had sent k of the         *)
(* messages which wait for the host. The host has some of the items of     *)
(* r[0], all of them once it has been answered, the messages before the    *)
(* next news tell every change, and what is said last is how the list is   *)
(* now.                                                                    *)
Account(r) ==
    /\ Mirrored \subseteq r[0]
    /\ \A k \in DOMAIN toHost : (\A j \in 1 .. k : ~Switch(toHost[j])) =>
          Tells(toHost[k], r[k - 1], r[k])
    /\ ~Has(toHost, "Gone") =>
          /\ r[Len(toHost)] = registered
          /\ ~Has(toWatcher, "Get") /\ ~Has(toHost, "List") => Mirrored = r[0]
Followed == proxy => \E r \in [0 .. Len(toHost) -> SUBSET Item] : Account(r)

QueueInv == Turns /\ Linked /\ Calls /\ Followed
TrayInv == BusTypes /\ Registry /\ HostInv /\ QueueInv
-----------------------------------------------------------------------------
(* The sequence of a finite set has each of its elements once.             *)
LEMMA SetSeq ==
  ASSUME NEW S, IsFiniteSet(S)
  PROVE  /\ SetToSeq(S) \in Seq(S)
         /\ ToSet(SetToSeq(S)) = S
         /\ \A j, k \in DOMAIN SetToSeq(S) :
               SetToSeq(S)[j] = SetToSeq(S)[k] => j = k
<1> DEFINE n == Cardinality(S)
<1>1. n \in Nat
  BY FS_CardinalityType
<1>2. PICK f : f \in Bijection(1 .. n, S)
  BY FS_CardinalityType DEF ExistsBijection
<1>3. f \in [1 .. n -> S] /\ IsInjective(f)
  BY <1>2 DEF Bijection, Injection, IsInjective
<1>4. SetToSeq(S) \in [1 .. n -> S] /\ IsInjective(SetToSeq(S))
  BY <1>3 DEF SetToSeq
<1> DEFINE q == SetToSeq(S)
<1>5. q \in Injection(1 .. n, S)
  BY <1>4 DEF Injection, IsInjective
<1>6. Cardinality(1 .. n) = n /\ IsFiniteSet(1 .. n)
  BY <1>1, FS_Interval
<1>7. q \in Surjection(1 .. n, S)
  BY <1>5, <1>6, FS_Injection
<1>8. q \in [1 .. n -> S] /\ \A y \in S : \E k \in 1 .. n : q[k] = y
  BY <1>7 DEF Surjection
<1>9. DOMAIN q = 1 .. n /\ ToSet(q) = S
  BY <1>8 DEF ToSet
<1> QED
  BY <1>1, <1>4, <1>9 DEF IsInjective

(* The n-th element of a finite set of numbers.                            *)
LEMMA NthFacts ==
  ASSUME NEW K \in SUBSET Nat, IsFiniteSet(K)
  PROVE  /\ Cardinality(K) \in Nat
         /\ \A i \in 1 .. Cardinality(K) : Nth(K, i) \in K
         /\ \A k \in K : \E i \in 1 .. Cardinality(K) : Nth(K, i) = k
         /\ \A i, j \in 1 .. Cardinality(K) : Nth(K, i) = Nth(K, j) => i = j
<1> DEFINE n == Cardinality(K)
           Below(k) == {j \in K : j < k}
           f == [k \in K |-> Cardinality(Below(k)) + 1]
<1>1. n \in Nat
  BY FS_CardinalityType
<1>2. ASSUME NEW k \in K
      PROVE  IsFiniteSet(Below(k)) /\ Cardinality(Below(k)) \in 0 .. n - 1
  <2>1. Below(k) \subseteq K \ {k}
    OBVIOUS
  <2>2. IsFiniteSet(K \ {k}) /\ Cardinality(K \ {k}) = n - 1
    BY FS_RemoveElement
  <2>3. IsFiniteSet(Below(k)) /\ Cardinality(Below(k)) <= n - 1
    BY <2>1, <2>2, FS_Subset
  <2>4. Cardinality(Below(k)) \in Nat
    BY <2>3, FS_CardinalityType
  <2> QED
    BY <1>1, <2>3, <2>4
<1>3. ASSUME NEW k \in K, NEW l \in K, k < l
      PROVE  Cardinality(Below(k)) < Cardinality(Below(l))
  <2>1. k \in Int /\ l \in Int /\ \A j \in K : j \in Int
    OBVIOUS
  <2>2. Below(k) \cup {k} \subseteq Below(l) /\ k \notin Below(k)
    <3>1. ASSUME NEW j \in Below(k)
          PROVE  j \in Below(l)
      <4>1. j \in K /\ j < k
        OBVIOUS
      <4>2. j < l
        BY <1>3, <2>1, <4>1
      <4> QED
        BY <4>1, <4>2
    <3>2. k \in Below(l) /\ k \notin Below(k)
      BY <1>3, <2>1
    <3> QED
      BY <3>1, <3>2
  <2>3. Cardinality(Below(k) \cup {k}) = Cardinality(Below(k)) + 1
    BY <1>2, <2>2, FS_AddElement
  <2>4. Cardinality(Below(k) \cup {k}) <= Cardinality(Below(l))
    BY <1>2, <2>2, FS_Subset
  <2>5. Cardinality(Below(k)) \in Int /\ Cardinality(Below(l)) \in Int
    BY <1>2
  <2> HIDE DEF Below
  <2> QED
    BY <2>3, <2>4, <2>5
<1>4. f \in [K -> 1 .. n]
  BY <1>1, <1>2
<1>5. ASSUME NEW k \in K, NEW l \in K, f[k] = f[l]
      PROVE  k = l
  <2>1. Cardinality(Below(k)) \in Int /\ Cardinality(Below(l)) \in Int
    BY <1>2
  <2>2. Cardinality(Below(k)) = Cardinality(Below(l))
    BY <1>5, <2>1
  <2>3. ~(k < l) /\ ~(l < k)
    BY <1>3, <2>1, <2>2
  <2> QED
    BY <2>3
<1>6. f \in Injection(K, 1 .. n)
  <2> HIDE DEF f
  <2> QED
    BY <1>4, <1>5, Zenon DEF Injection, IsInjective
<1>7. Cardinality(1 .. n) = n /\ IsFiniteSet(1 .. n)
  BY <1>1, FS_Interval
<1>8. f \in Surjection(K, 1 .. n)
  BY <1>6, <1>7, FS_Injection
<1>9. \A i \in 1 .. n : \E k \in K : f[k] = i
  BY <1>8 DEF Surjection
<1>10. ASSUME NEW i \in 1 .. n
       PROVE  Nth(K, i) \in K /\ f[Nth(K, i)] = i
  <2>1. \A k \in K : f[k] = i <=> Cardinality(Below(k)) = i - 1
    BY <1>1, <1>2
  <2>2. \E k \in K : Cardinality(Below(k)) = i - 1
    BY <1>9, <2>1
  <2>3. Nth(K, i) \in K /\ Cardinality(Below(Nth(K, i))) = i - 1
    BY <2>2 DEF Nth
  <2> QED
    BY <2>1, <2>3
<1>11. ASSUME NEW k \in K
       PROVE  \E i \in 1 .. n : Nth(K, i) = k
  <2>1. f[k] \in 1 .. n
    BY <1>4
  <2>2. Nth(K, f[k]) \in K /\ f[Nth(K, f[k])] = f[k]
    BY <1>10, <2>1
  <2>3. Nth(K, f[k]) = k
    BY <1>5, <2>2
  <2> QED
    BY <2>1, <2>3
<1> HIDE DEF f
<1> QED
  <2>1. \A i, j \in 1 .. n : Nth(K, i) = Nth(K, j) => i = j
    BY <1>10
  <2> QED
    BY <1>1, <1>10, <1>11, <2>1

(* What is kept of a sequence.                                             *)
LEMMA OnlyFacts ==
  ASSUME NEW T, NEW q \in Seq(T), NEW K \in SUBSET DOMAIN q
  PROVE  /\ Only(q, K) \in Seq(T)
         /\ ToSet(Only(q, K)) = {q[k] : k \in K}
         /\ (\A j, k \in DOMAIN q : q[j] = q[k] => j = k) =>
               \A j, k \in DOMAIN Only(q, K) :
                  Only(q, K)[j] = Only(q, K)[k] => j = k
         /\ K = {} => Only(q, K) = <<>>
<1> DEFINE n == Cardinality(K)
<1>1. DOMAIN q = 1 .. Len(q) /\ Len(q) \in Nat
  OBVIOUS
<1>2. IsFiniteSet(K) /\ K \in SUBSET Nat
  <2>1. IsFiniteSet(DOMAIN q) /\ DOMAIN q \subseteq Nat
    BY <1>1, FS_Interval
  <2> QED
    BY <2>1, FS_Subset
<1>3. /\ n \in Nat
      /\ \A i \in 1 .. n : Nth(K, i) \in K
      /\ \A k \in K : \E i \in 1 .. n : Nth(K, i) = k
      /\ \A i, j \in 1 .. n : Nth(K, i) = Nth(K, j) => i = j
  BY <1>2, NthFacts
<1>4. \A k \in K : q[k] \in T
  BY <1>1
<1> HIDE DEF n
<1>5. Only(q, K) = [i \in 1 .. n |-> q[Nth(K, i)]]
  BY DEF Only, n
<1>6. Only(q, K) \in Seq(T)
  BY <1>3, <1>4, <1>5
<1>7. ToSet(Only(q, K)) = {q[k] : k \in K}
  BY <1>3, <1>5 DEF ToSet
<1>8. K = {} => n = 0
  BY FS_EmptySet DEF n
<1>9. K = {} => Only(q, K) = <<>>
  BY <1>5, <1>8
<1>10. ASSUME \A j, k \in DOMAIN q : q[j] = q[k] => j = k,
              NEW j \in 1 .. n, NEW k \in 1 .. n, q[Nth(K, j)] = q[Nth(K, k)]
       PROVE  j = k
  BY <1>3, <1>10
<1> QED
  BY <1>5, <1>6, <1>7, <1>9, <1>10
-----------------------------------------------------------------------------
(* What Append returns.                                                    *)
LEMMA AppendFacts ==
  ASSUME NEW T, NEW q \in Seq(T), NEW m \in T
  PROVE  /\ Append(q, m) \in Seq(T) /\ Append(q, m) # <<>>
         /\ Len(Append(q, m)) = Len(q) + 1
         /\ \A k \in 1 .. Len(q) : Append(q, m)[k] = q[k]
         /\ Append(q, m)[Len(q) + 1] = m
OBVIOUS

(* What Tail returns, of a sequence that is not empty.                     *)
LEMMA TailFacts ==
  ASSUME NEW T, NEW q \in Seq(T), q # <<>>
  PROVE  /\ Tail(q) \in Seq(T) /\ Len(q) \in Nat \ {0}
         /\ Len(Tail(q)) = Len(q) - 1
         /\ \A k \in 1 .. Len(q) - 1 : Tail(q)[k] = q[k + 1]
         /\ Head(q) = q[1] /\ q[1] \in T
OBVIOUS

(* What the concatenation of two sequences returns.                        *)
LEMMA JoinFacts ==
  ASSUME NEW T, NEW x \in Seq(T), NEW y \in Seq(T)
  PROVE  /\ x \o y \in Seq(T) /\ Len(x \o y) = Len(x) + Len(y)
         /\ \A k \in 1 .. Len(x) : (x \o y)[k] = x[k]
         /\ \A k \in 1 .. Len(y) : (x \o y)[Len(x) + k] = y[k]
BY ConcatProperties

(* The types of messages that a queue has, when one is sent,               *)
LEMMA HasAppended ==
  ASSUME NEW T, NEW q \in Seq(T), NEW m \in T, NEW t
  PROVE  Has(Append(q, m), t) <=> Has(q, t) \/ m.type = t
<1> DEFINE r == Append(q, m)
<1>1. /\ Len(r) = Len(q) + 1 /\ Len(q) \in Nat /\ r[Len(q) + 1] = m
      /\ \A k \in 1 .. Len(q) : r[k] = q[k]
      /\ DOMAIN q = 1 .. Len(q) /\ DOMAIN r = 1 .. Len(r)
  BY AppendFacts
<1> HIDE DEF r
<1> QED
  BY <1>1 DEF Has

(* when the first one is served,                                           *)
LEMMA HasTailed ==
  ASSUME NEW T, NEW q \in Seq(T), q # <<>>, NEW t
  PROVE  Has(q, t) <=> Head(q).type = t \/ Has(Tail(q), t)
<1> DEFINE r == Tail(q)
<1>1. /\ Len(q) \in Nat \ {0} /\ Len(r) = Len(q) - 1
      /\ \A k \in 1 .. Len(q) - 1 : r[k] = q[k + 1]
      /\ Head(q) = q[1]
      /\ DOMAIN q = 1 .. Len(q) /\ DOMAIN r = 1 .. Len(r)
  BY TailFacts
<1> HIDE DEF r
<1>2. ASSUME Has(q, t)
      PROVE  Head(q).type = t \/ Has(r, t)
  <2>1. PICK k \in 1 .. Len(q) : q[k].type = t
    BY <1>1, <1>2 DEF Has
  <2>2. CASE k = 1
    BY <1>1, <2>1, <2>2
  <2>3. CASE k # 1
    <3>1. PICK j \in 1 .. Len(q) - 1 : k = j + 1
      BY <1>1, <2>3
    <3>2. r[j].type = t
      BY <1>1, <2>1, <3>1
    <3> QED
      BY <1>1, <3>2 DEF Has
  <2> QED
    BY <2>2, <2>3
<1>3. ASSUME Has(r, t)
      PROVE  Has(q, t)
  <2>1. PICK j \in 1 .. Len(q) - 1 : r[j].type = t
    BY <1>1, <1>3 DEF Has
  <2>2. j + 1 \in 1 .. Len(q) /\ q[j + 1].type = t
    BY <1>1, <2>1
  <2> QED
    BY <1>1, <2>2 DEF Has
<1>4. ASSUME Head(q).type = t
      PROVE  Has(q, t)
  BY <1>1, <1>4 DEF Has
<1> QED
  BY <1>2, <1>3, <1>4 DEF r

(* and when several are sent at once.                                      *)
LEMMA HasJoined ==
  ASSUME NEW T, NEW x \in Seq(T), NEW y \in Seq(T), NEW t
  PROVE  Has(x \o y, t) <=> Has(x, t) \/ Has(y, t)
<1> DEFINE q == x \o y
<1>1. /\ Len(x) \in Nat /\ Len(y) \in Nat /\ Len(q) = Len(x) + Len(y)
      /\ \A k \in 1 .. Len(x) : q[k] = x[k]
      /\ \A k \in 1 .. Len(y) : q[Len(x) + k] = y[k]
      /\ DOMAIN x = 1 .. Len(x) /\ DOMAIN y = 1 .. Len(y)
      /\ DOMAIN q = 1 .. Len(q)
  BY JoinFacts
<1> HIDE DEF q
<1>2. ASSUME Has(q, t)
      PROVE  Has(x, t) \/ Has(y, t)
  <2>1. PICK k \in 1 .. Len(q) : q[k].type = t
    BY <1>1, <1>2 DEF Has
  <2>2. CASE k <= Len(x)
    BY <1>1, <2>1, <2>2 DEF Has
  <2>3. CASE k > Len(x)
    <3>1. PICK j \in 1 .. Len(y) : k = Len(x) + j
      BY <1>1, <2>1, <2>3, k - Len(x) \in 1 .. Len(y), Len(x) + (k - Len(x)) = k
    <3> QED
      BY <1>1, <2>1, <3>1 DEF Has
  <2> QED
    BY <1>1, <2>1, <2>2, <2>3
<1>3. ASSUME Has(x, t)
      PROVE  Has(q, t)
  BY <1>1, <1>3 DEF Has
<1>4. ASSUME Has(y, t)
      PROVE  Has(q, t)
  <2>1. PICK j \in 1 .. Len(y) : y[j].type = t
    BY <1>1, <1>4 DEF Has
  <2>2. Len(x) + j \in 1 .. Len(q) /\ q[Len(x) + j].type = t
    BY <1>1, <2>1
  <2> QED
    BY <1>1, <2>2 DEF Has
<1> QED
  BY <1>2, <1>3, <1>4 DEF q
-----------------------------------------------------------------------------
(* The signals that Emit sends: one for each item, all of one type.        *)
Signals(signal, S) == SetToSeq([type : {signal}, item : S])

(* There is one for each item, and they are all of the type that is        *)
(* emitted.                                                                *)
LEMMA SignalFacts ==
  ASSUME NEW signal \in {"Registered", "Unregistered"}, NEW S \in SUBSET Item
  PROVE  LET q == Signals(signal, S)
         IN  /\ q \in Seq(HostMsg) /\ q \in Seq([type : {signal}, item : S])
             /\ \A k \in DOMAIN q : q[k].type = signal /\ q[k].item \in S
             /\ \A j, k \in DOMAIN q : q[j].item = q[k].item => j = k
             /\ \A i \in S : \E k \in DOMAIN q : q[k].item = i
<1> DEFINE M == [type : {signal}, item : S]
           f == [i \in S |-> [type |-> signal, item |-> i]]
           q == SetToSeq(M)
<1>1. IsFiniteSet(S)
  BY TrayAssumption, FS_Subset
<1>2. \A m \in M : m = [type |-> signal, item |-> m.item] /\ m.item \in S
  OBVIOUS
<1>3. f \in [S -> M] /\ \A m \in M : \E i \in S : f[i] = m
  BY <1>2
<1>4. f \in Surjection(S, M)
  BY <1>3, Zenon DEF Surjection
<1>5. IsFiniteSet(M)
  BY <1>1, <1>4, FS_Surjection
<1>6. /\ q \in Seq(M) /\ ToSet(q) = M
      /\ \A j, k \in DOMAIN q : q[j] = q[k] => j = k
  BY <1>5, SetSeq
<1>7. M \subseteq HostMsg
  BY DEF HostMsg
<1> HIDE DEF q, M
<1>8. q \in [1 .. Len(q) -> M] /\ Len(q) \in Nat
  BY <1>6
<1>9. ASSUME NEW i \in S
      PROVE  \E k \in DOMAIN q : q[k].item = i
  <2>1. [type |-> signal, item |-> i] \in ToSet(q)
    BY <1>6 DEF M
  <2> QED
    BY <2>1 DEF ToSet, M
<1>10. \A j, k \in DOMAIN q : q[j].item = q[k].item => j = k
  BY <1>2, <1>6, <1>8
<1>11. q \in Seq(HostMsg)
  <2>1. q \in [1 .. Len(q) -> HostMsg]
    BY <1>7, <1>8
  <2> QED
    BY <1>8, <2>1
<1>12. \A k \in DOMAIN q : q[k].type = signal /\ q[k].item \in S
  BY <1>8 DEF M
<1> QED
  BY <1>6, <1>9, <1>10, <1>11, <1>12 DEF q, Signals, M

(* Emit sends them, in that order, to a host that is connected.            *)
LEMMA EmitFacts ==
  ASSUME NEW signal \in {"Registered", "Unregistered"}, NEW S \in SUBSET Item,
         toHost \in Seq(HostMsg), Emit(signal, S)
  PROVE  /\ toHost' \in Seq(HostMsg)
         /\ toHost' = IF proxy THEN toHost \o Signals(signal, S) ELSE toHost
<1>1. Signals(signal, S) \in Seq(HostMsg)
  BY SignalFacts
<1>2. toHost' = IF proxy THEN toHost \o Signals(signal, S) ELSE toHost
  BY DEF Emit, Signals
<1>3. toHost \o Signals(signal, S) \in Seq(HostMsg)
  BY <1>1, JoinFacts
<1> QED
  BY <1>2, <1>3

-----------------------------------------------------------------------------
(* The types of what the buses carry hold at first                         *)
LEMMA InitBusTypes == Init => BusTypes
<1> SUFFICES ASSUME Init PROVE BusTypes
  OBVIOUS
<1>1. wItem \in Item
  BY TrayAssumption DEF Init
<1>2. toWatcher \in Seq(WatcherMsg)
  BY DEF Init, WatcherMsg
<1> QED
  BY <1>1, <1>2, TrayAssumption DEF Init, BusTypes

(* An event is counted.                                                    *)
LEMMA CountFacts ==
  ASSUME NEW z \in Party, events \in [Party -> Nat], Event(z)
  PROVE  events' \in [Party -> Nat]
BY DEF Event

(* and are kept by every step.                                             *)
LEMMA StepBusTypes == BusTypes /\ [TrayStep]_vars => BusTypes'
<1> SUFFICES ASSUME BusTypes, [TrayStep]_vars
             PROVE  BusTypes'
  OBVIOUS
<1> USE DEF BusTypes
<1>1. CASE UNCHANGED vars
  BY <1>1 DEF vars, appVars, watcherVars
<1>2. ASSUME NEW s \in Service, AppStart(s)
      PROVE  BusTypes'
  <2>1. app' \in [Service -> BOOLEAN]
    BY <1>2, Zenon DEF AppStart
  <2> QED
    BY <1>2, <2>1, CountFacts DEF AppStart, Party, watcherVars
<1>3. ASSUME NEW s \in Service, AppQuit(s)
      PROVE  BusTypes'
  <2>1. toWatcher' \in Seq(WatcherMsg)
    BY <1>3 DEF AppQuit, WatcherMsg
  <2> QED
    BY <1>3, <2>1, CountFacts DEF AppQuit, Party, watcherVars
<1>4. ASSUME NEW i \in Item, Call(i), UNCHANGED events \/ Event("app")
      PROVE  BusTypes'
  <2>1. toWatcher' \in Seq(WatcherMsg)
    BY <1>4 DEF Call, WatcherMsg
  <2> QED
    BY <1>4, <2>1, CountFacts DEF Call, Party, watcherVars
<1>5. ASSUME NEW i \in Item, AppChange(i)
      PROVE  BusTypes'
  <2>1. version' \in [Item -> 0 .. MaxVersion]
    BY <1>5, TrayAssumption DEF AppChange
  <2> QED
    BY <1>5, <2>1 DEF AppChange, watcherVars
<1>6. ASSUME NEW x \in Source, AppAnswer(x)
      PROVE  BusTypes'
  BY <1>6 DEF AppAnswer, appVars, watcherVars
<1>7. CASE WDie
  <2>1. toHost' \in Seq(HostMsg)
    BY <1>7 DEF WDie, HostMsg
  <2>2. toWatcher' \in Seq(WatcherMsg)
    BY <1>7 DEF WDie
  <2> QED
    <3>1. watcher' = FALSE /\ told' = {} /\ registered' = {}
          /\ watched' = {} /\ wpc' = "idle"
          /\ UNCHANGED <<app, version, wItem, proxy>>
      BY <1>7 DEF WDie
    <3>2. events' \in [Party -> Nat]
      BY <1>7, CountFacts DEF WDie, Party
    <3> QED
      BY <2>1, <2>2, <3>1, <3>2
<1>8. CASE WStart
  <2>1. toHost' \in Seq(HostMsg)
    BY <1>8 DEF WStart, HostMsg
  <2> QED
    BY <1>8, <2>1, CountFacts DEF WStart, Party, appVars, watcherVars
<1>9. CASE WCheck
  BY <1>9 DEF WCheck, Working, appVars
<1>10. CASE WAdd
  <2>1. toHost' \in Seq(HostMsg)
    BY <1>10, EmitFacts DEF WAdd
  <2> QED
    BY <1>10, <2>1 DEF WAdd, Working, appVars
<1>11. CASE WGet
  <2>1. toHost' \in Seq(HostMsg)
    BY <1>11 DEF WGet, HostMsg
  <2>2. toWatcher' \in Seq(WatcherMsg)
    BY <1>11 DEF WGet, Served
  <2> QED
    BY <1>11, <2>1, <2>2 DEF WGet, Served, appVars, watcherVars
<1>12. ASSUME NEW i \in Item, WRegister(i)
       PROVE  BusTypes'
  <2>1. toWatcher' \in Seq(WatcherMsg)
    BY <1>12 DEF WRegister, Served
  <2>2. WatchedName(i) \in Service
    BY TrayAssumption DEF WatchedName
  <2> QED
    BY <1>12, <2>1, <2>2 DEF WRegister, Served, appVars, watcherVars
<1>13. ASSUME NEW s \in Service, WLost(s)
       PROVE  BusTypes'
  <2>1. toWatcher' \in Seq(WatcherMsg)
    BY <1>13 DEF WLost, Served
  <2>2. toHost' \in Seq(HostMsg)
    BY <1>13, EmitFacts DEF WLost, Removed
  <2> QED
    BY <1>13, <2>1, <2>2 DEF WLost, Served, appVars
<1>14. ASSUME HostStep
       PROVE  BusTypes'
  <2>1. UNCHANGED <<app, version, told, watcher, registered, watched, wpc,
                    wItem, events>>
    BY <1>14 DEF HostStep, HRegistered, HUnregistered, HList, HGone, HCome,
                 Delivered, appVars, watcherVars
  <2>2. toHost # <<>>
    BY <1>14 DEF HostStep, HRegistered, HUnregistered, HList, HGone, HCome,
                 Delivered
  <2>3. Tail(toHost) \in Seq(HostMsg)
    BY <2>2
  <2>4. NoSignals \in Seq(HostMsg)
    BY OnlyFacts DEF NoSignals
  <2>5. toHost' \in {Tail(toHost), NoSignals}
    BY <1>14 DEF HostStep, HRegistered, HUnregistered, HList, HGone, HCome
  <2>6. toWatcher' \in Seq(WatcherMsg)
    <3>1. Append(toWatcher, [type |-> "Get"]) \in Seq(WatcherMsg)
      BY DEF WatcherMsg
    <3> QED
      BY <1>14, <3>1
      DEF HostStep, HRegistered, HUnregistered, HList, HGone, HCome
  <2>7. proxy' \in BOOLEAN
    BY <1>14 DEF HostStep, HRegistered, HUnregistered, HList, HGone, HCome
  <2> QED
    BY <2>1, <2>3, <2>4, <2>5, <2>6, <2>7
<1>15. ASSUME NEW x \in Source, SourceStep(x)
       PROVE  BusTypes'
  BY <1>15 DEF SourceStep, SChanged, STimeout, SAnswered, Rest, appVars,
               watcherVars
<1> QED
  BY <1>1, <1>2, <1>3, <1>4, <1>5, <1>6, <1>7, <1>8, <1>9, <1>10,
     <1>11, <1>12, <1>13, <1>14, <1>15
  DEF TrayStep, AppStep, AppRegister, AppRepeat, WatcherStep
-----------------------------------------------------------------------------
(* A message that is sent or served disturbs no other one.                 *)
LEMMA LeavingSent ==
  ASSUME BusTypes, NEW m \in WatcherMsg, toWatcher' = Append(toWatcher, m)
  PROVE  \A s : Leaving(s)' <=>
                   Leaving(s) \/ m = [type |-> "Lost", service |-> s]
<1> DEFINE q == Append(toWatcher, m)
<1>1. /\ Len(toWatcher) \in Nat /\ Len(q) = Len(toWatcher) + 1
      /\ \A k \in 1 .. Len(toWatcher) : q[k] = toWatcher[k]
      /\ q[Len(toWatcher) + 1] = m
      /\ DOMAIN toWatcher = 1 .. Len(toWatcher) /\ DOMAIN q = 1 .. Len(q)
  BY AppendFacts DEF BusTypes
<1> HIDE DEF q
<1>2. toWatcher' = q
  BY DEF q
<1> QED
  BY <1>1, <1>2 DEF Leaving

(* and serving the first one loses no other word of a loss.                *)
LEMMA LeavingServed ==
  ASSUME BusTypes, toWatcher # <<>>, toWatcher' = Tail(toWatcher)
  PROVE  \A s : Leaving(s) => Leaving(s)' \/
                   Head(toWatcher) = [type |-> "Lost", service |-> s]
<1> DEFINE q == Tail(toWatcher)
<1>1. /\ Len(toWatcher) \in Nat \ {0} /\ Len(q) = Len(toWatcher) - 1
      /\ \A k \in 1 .. Len(toWatcher) - 1 : q[k] = toWatcher[k + 1]
      /\ Head(toWatcher) = toWatcher[1]
      /\ DOMAIN toWatcher = 1 .. Len(toWatcher) /\ DOMAIN q = 1 .. Len(q)
  BY TailFacts DEF BusTypes
<1> HIDE DEF q
<1>2. toWatcher' = q
  BY DEF q
<1> SUFFICES ASSUME NEW s, Leaving(s)
             PROVE  Leaving(s)' \/
                    Head(toWatcher) = [type |-> "Lost", service |-> s]
  OBVIOUS
<1>3. PICK k \in 1 .. Len(toWatcher) :
         toWatcher[k] = [type |-> "Lost", service |-> s]
  BY <1>1 DEF Leaving
<1>4. CASE k = 1
  BY <1>1, <1>3, <1>4
<1>5. CASE k # 1
  <2>1. PICK j \in 1 .. Len(q) : k = j + 1
    BY <1>1, <1>5, k - 1 \in 1 .. Len(q), k = (k - 1) + 1
  <2>2. q[j] = [type |-> "Lost", service |-> s]
    BY <1>1, <1>3, <2>1
  <2> QED
    BY <1>1, <1>2, <2>2 DEF Leaving
<1> QED
  BY <1>4, <1>5

(* The registry is sound at first                                          *)
LEMMA InitRegistry == Init => Registry
BY DEF Init, Registry, Sure

(* and stays so: a service that quits after it is watched is reported, one *)
(* that quits before is found missing by the check.                        *)
LEMMA StepRegistry ==
  BusTypes /\ Registry /\ [TrayStep]_vars => Registry'
<1> SUFFICES ASSUME BusTypes, Registry, [TrayStep]_vars
             PROVE  Registry'
  OBVIOUS
<1>1. ServiceOf \in [Item -> Service] /\ registered \subseteq Item
      /\ wItem \in Item /\ app \in [Service -> BOOLEAN]
  BY TrayAssumption DEF BusTypes
<1>2. CASE UNCHANGED <<app, watcher, watcherVars, toWatcher>>
  BY <1>2 DEF Registry, Sure, Leaving, On, watcherVars
<1>3. ASSUME NEW s \in Service, AppStart(s)
      PROVE  Registry'
  <2>1. \A i \in Item : On(i) => On(i)'
    BY <1>1, <1>3 DEF AppStart, On
  <2> QED
    BY <1>1, <1>3, <2>1 DEF AppStart, Registry, Sure, Leaving, watcherVars
<1>4. ASSUME NEW s \in Service, AppQuit(s)
      PROVE  Registry'
  <2>1. UNCHANGED <<watcher, registered, watched, wpc, wItem>>
        /\ \A i \in Item : ServiceOf[i] # s /\ On(i) => On(i)'
    BY <1>1, <1>4 DEF AppQuit, On, watcherVars
  <2>2. [type |-> "Lost", service |-> s] \in WatcherMsg
    BY DEF WatcherMsg
  <2>3. \A t : Leaving(t) => Leaving(t)'
    BY <1>4, <2>2, LeavingSent DEF AppQuit, Leaving
  <2>4. s \in watched => Leaving(s)'
    BY <1>4, <2>2, LeavingSent DEF AppQuit
  <2>5. \A i \in Item : Sure(i) => Sure(i)'
    BY <2>1, <2>3, <2>4 DEF Sure
  <2>6. ~watcher => UNCHANGED toWatcher
    BY <1>4 DEF AppQuit, Registry
  <2> QED
    BY <1>1, <2>1, <2>5, <2>6 DEF Registry
<1>5. ASSUME NEW i \in Item, Call(i)
      PROVE  Registry'
  <2>1. [type |-> "Register", item |-> i] \in WatcherMsg
    BY DEF WatcherMsg
  <2>2. \A t : Leaving(t) => Leaving(t)'
    BY <1>5, <2>1, LeavingSent DEF Call
  <2> QED
    BY <1>5, <2>2 DEF Call, Registry, Sure, On, watcherVars
<1>6. CASE WDie
  BY <1>6 DEF WDie, Registry
<1>7. CASE WStart
  BY <1>7 DEF WStart, Registry, appVars, watcherVars
<1>8. CASE WCheck
  <2>1. UNCHANGED <<app, watcher, registered, wItem, toWatcher>>
        /\ watcher /\ wpc = "check" /\ \A t : Leaving(t)' <=> Leaving(t)
    BY <1>8 DEF WCheck, Working, appVars, Leaving
  <2>2. CASE On(wItem)
    BY <1>8, <2>1, <2>2 DEF WCheck, Registry, Sure, On
  <2>3. CASE ~On(wItem)
    <3>1. ASSUME NEW i \in registered
          PROVE  Sure(i)'
      <4>1. CASE ServiceOf[i] = ServiceOf[wItem]
        BY <2>1, <2>3, <4>1 DEF Registry, Sure, On
      <4>2. CASE ServiceOf[i] # ServiceOf[wItem]
        BY <1>8, <2>1, <2>3, <4>2 DEF WCheck, Registry, Sure, On
      <4> QED
        BY <4>1, <4>2
    <3> QED
      BY <1>8, <2>1, <2>3, <3>1 DEF WCheck, Registry
  <2> QED
    BY <2>2, <2>3
<1>9. CASE WAdd
  BY <1>9 DEF WAdd, Working, Registry, Sure, On, Leaving, appVars
<1>10. CASE WGet
  <2>1. UNCHANGED <<app, watcher, registered, watched, wpc, wItem>> /\ watcher
        /\ toWatcher # <<>> /\ toWatcher' = Tail(toWatcher)
        /\ Head(toWatcher) = [type |-> "Get"]
    BY <1>10 DEF WGet, Served, appVars, watcherVars
  <2>2. \A t : Leaving(t) => Leaving(t)'
    BY <2>1, LeavingServed
  <2> QED
    BY <2>1, <2>2 DEF Registry, Sure, On
<1>11. ASSUME NEW i \in Item, WRegister(i)
       PROVE  Registry'
  <2>1. UNCHANGED <<app, watcher, registered>> /\ watcher /\ wpc = "idle"
        /\ toWatcher # <<>> /\ toWatcher' = Tail(toWatcher)
        /\ Head(toWatcher) = [type |-> "Register", item |-> i]
    BY <1>11 DEF WRegister, Served, appVars, watcherVars
  <2>2. \A t : Leaving(t) => Leaving(t)'
    BY <2>1, LeavingServed
  <2> QED
    BY <1>11, <2>1, <2>2
    DEF WRegister, WatchedName, Known, Registry, Sure, On, watcherVars
<1>12. ASSUME NEW s \in Service, WLost(s)
       PROVE  Registry'
  <2>1. UNCHANGED <<app, watcher, wpc, wItem>> /\ watcher /\ wpc = "idle"
        /\ toWatcher # <<>> /\ toWatcher' = Tail(toWatcher)
        /\ Head(toWatcher) = [type |-> "Lost", service |-> s]
        /\ watched' = watched \ {s}
        /\ registered' = registered \ Items(s)
    BY <1>12 DEF WLost, Removed, Served, appVars
  <2>2. \A t : Leaving(t) => Leaving(t)' \/ t = s
    BY <2>1, LeavingServed
  <2>3. \A i \in registered' : Sure(i)'
    BY <1>1, <2>1, <2>2 DEF Registry, Sure, On, Items
  <2> QED
    BY <2>1, <2>3 DEF Registry
<1>13. ASSUME HostStep
       PROVE  Registry'
  <2>1. UNCHANGED <<app, watcher, watcherVars>>
    BY <1>13 DEF HostStep, HRegistered, HUnregistered, HList, HGone, HCome,
                 Delivered, appVars
  <2>2. CASE UNCHANGED toWatcher
    BY <1>2, <2>1, <2>2
  <2>3. CASE watcher /\ toWatcher' = Append(toWatcher, [type |-> "Get"])
    <3>1. [type |-> "Get"] \in WatcherMsg
      BY DEF WatcherMsg
    <3>2. \A t : Leaving(t) => Leaving(t)'
      BY <2>3, <3>1, LeavingSent
    <3> QED
      BY <2>1, <2>3, <3>2 DEF Registry, Sure, On, watcherVars
  <2> QED
    BY <1>13, <2>2, <2>3
    DEF HostStep, HRegistered, HUnregistered, HList, HGone, HCome
<1>14. CASE UNCHANGED vars
  BY <1>2, <1>14 DEF vars, appVars
<1>15. ASSUME NEW i \in Item, AppChange(i)
       PROVE  Registry'
  BY <1>2, <1>15 DEF AppChange
<1>16. ASSUME NEW x \in Source, AppAnswer(x)
       PROVE  Registry'
  BY <1>2, <1>16 DEF AppAnswer, appVars
<1>17. ASSUME NEW x \in Source, SourceStep(x)
       PROVE  Registry'
  BY <1>2, <1>17 DEF SourceStep, SChanged, STimeout, SAnswered, Rest, appVars
<1> QED
  BY <1>3, <1>4, <1>5, <1>6, <1>7, <1>8, <1>9, <1>10, <1>11, <1>12,
     <1>13, <1>14, <1>15, <1>16, <1>17
  DEF TrayStep, AppStep, AppRegister, AppRepeat, WatcherStep

(* Once the watcher has served what was sent, every item it lists is of an *)
(* application that runs and whose loss it would be told of:               *)
(* registerItem() watches the service before it asks whether it is there.  *)
THEOREM WatcherRightHolds == Spec => []WatcherRight
<1>1. Init => BusTypes /\ Registry
  BY InitBusTypes, InitRegistry
<1>2. BusTypes /\ Registry /\ [Next]_trayVars => (BusTypes /\ Registry)'
  BY StepBusTypes, StepRegistry DEF Next, trayVars
<1>3. BusTypes /\ Registry => WatcherRight
  BY DEF Registry, Sure, Leaving, WatcherRight
<1> QED
  BY <1>1, <1>2, <1>3, PTL DEF Spec
-----------------------------------------------------------------------------
(* A source for an item that the host does not know is always free.        *)
LEMMA NewSourceFree ==
  ASSUME HostTypes, RowsRight, NEW i \in Item, i \notin Mirrored
  PROVE  NewSource(i) \in 1 .. MaxSource
<1>1. services[i] = 0 /\ 1 \in 1 .. MaxSource
  BY TrayAssumption DEF Mirrored
<1>2. <<i, 1>> \notin ToSet(rows)
  <2>1. \A j \in Mirrored : <<j, services[j]>> # <<i, 1>>
    OBVIOUS
  <2> QED
    BY <2>1 DEF RowsRight
<1>3. ~Used(<<i, 1>>)
  BY <1>1, <1>2 DEF Used
<1> QED
  BY <1>1, <1>3 DEF NewSource

(* What SubSeq returns.                                                    *)
LEMMA PartOf ==
  ASSUME NEW T, NEW s \in Seq(T), NEW i \in 1 .. Len(s) + 1,
         NEW j \in i - 1 .. Len(s)
  PROVE  LET p == SubSeq(s, i, j)
         IN  /\ p \in Seq(T) /\ Len(p) = j - i + 1
             /\ \A k \in 1 .. j - i + 1 : p[k] = s[i + k - 1]
<1>1. \A k \in i .. j : s[k] \in T
  OBVIOUS
<1>2. i \in Int /\ j \in Int
  OBVIOUS
<1> QED
  BY <1>1, <1>2, SubSeqProperties

(* Rows without doubles that are joined to others have none either.        *)
LEMMA JoinedRows ==
  ASSUME NEW T, NEW x \in Seq(T), NEW y \in Seq(T),
         \A j, k \in DOMAIN x : x[j] = x[k] => j = k,
         \A j, k \in DOMAIN y : y[j] = y[k] => j = k,
         ToSet(x) \cap ToSet(y) = {}
  PROVE  /\ ToSet(x \o y) = ToSet(x) \cup ToSet(y)
         /\ \A j, k \in DOMAIN (x \o y) :
               (x \o y)[j] = (x \o y)[k] => j = k
<1> DEFINE q == x \o y
           m == Len(x)
           n == Len(y)
<1>1. /\ m \in Nat /\ n \in Nat /\ Len(q) = m + n
      /\ \A k \in 1 .. m : q[k] = x[k]
      /\ \A k \in 1 .. n : q[m + k] = y[k]
      /\ DOMAIN x = 1 .. m /\ DOMAIN y = 1 .. n /\ DOMAIN q = 1 .. m + n
  BY JoinFacts
<1> HIDE DEF q, m, n
<1>2. ASSUME NEW k \in DOMAIN q
      PROVE  \/ k \in DOMAIN x /\ q[k] = x[k]
             \/ \E j \in DOMAIN y : k = m + j /\ q[k] = y[j]
  <2>1. CASE k <= m
    BY <1>1, <2>1
  <2>2. CASE k > m
    <3>1. k - m \in 1 .. n /\ k = m + (k - m)
      BY <1>1, <2>2
    <3> QED
      BY <1>1, <3>1
  <2> QED
    BY <1>1, <2>1, <2>2
<1>3. \A k \in DOMAIN x : k \in DOMAIN q /\ q[k] = x[k]
  BY <1>1
<1>4. \A k \in DOMAIN y : m + k \in DOMAIN q /\ q[m + k] = y[k]
  BY <1>1
<1>5. ToSet(q) = ToSet(x) \cup ToSet(y)
  <2>1. ASSUME NEW e \in ToSet(q)
        PROVE  e \in ToSet(x) \cup ToSet(y)
    <3>1. PICK k \in DOMAIN q : e = q[k]
      BY DEF ToSet
    <3> QED
      BY <1>2, <3>1 DEF ToSet
  <2>2. ASSUME NEW e \in ToSet(x) \cup ToSet(y)
        PROVE  e \in ToSet(q)
    BY <1>3, <1>4 DEF ToSet
  <2> QED
    BY <2>1, <2>2
<1>6. ASSUME NEW j \in DOMAIN q, NEW k \in DOMAIN q, q[j] = q[k]
      PROVE  j = k
  <2>1. \A a \in DOMAIN x, b \in DOMAIN y : x[a] # y[b]
    BY DEF ToSet
  <2>2. CASE j \in DOMAIN x /\ q[j] = x[j]
    BY <1>2, <1>6, <2>1, <2>2
  <2>3. CASE \E b \in DOMAIN y : j = m + b /\ q[j] = y[b]
    BY <1>2, <1>6, <2>1, <2>3
  <2> QED
    BY <1>2, <2>2, <2>3
<1> QED
  BY <1>5, <1>6 DEF q

(* New items have new rows at the end.                                     *)
LEMMA AddFacts ==
  ASSUME HostTypes, RowsRight, NEW S \in SUBSET Item, S \cap Mirrored = {},
         AddItems(S)
  PROVE  HostTypes' /\ RowsRight' /\ Mirrored' = Mirrored \cup S
<1> DEFINE f == [i \in S |-> <<i, NewSource(i)>>]
           new == {<<i, NewSource(i)>> : i \in S}
<1>1. \A i \in S : NewSource(i) \in 1 .. MaxSource
  BY NewSourceFree
<1>2. new \subseteq Source
  BY <1>1 DEF Source
<1>3. f \in [S -> new] /\ \A x \in new : \E i \in S : f[i] = x
  OBVIOUS
<1>4. f \in Surjection(S, new)
  BY <1>3, Zenon DEF Surjection
<1>5. IsFiniteSet(new)
  BY <1>4, TrayAssumption, FS_Subset, FS_Surjection
<1>6. /\ SetToSeq(new) \in Seq(new) /\ ToSet(SetToSeq(new)) = new
      /\ \A j, k \in DOMAIN SetToSeq(new) :
            SetToSeq(new)[j] = SetToSeq(new)[k] => j = k
  BY <1>5, SetSeq
<1>7. /\ rows' = rows \o SetToSeq(new)
      /\ services' = [i \in Item |-> IF i \in S THEN NewSource(i)
                                                ELSE services[i]]
  BY DEF AddItems
<1>8. /\ \A i \in S : services'[i] = NewSource(i) /\ services'[i] # 0
      /\ \A i \in Item \ S : services'[i] = services[i]
      /\ services' \in [Item -> 0 .. MaxSource]
  BY <1>1, <1>7 DEF HostTypes
<1>9. Mirrored' = Mirrored \cup S
  BY <1>8 DEF Mirrored
<1>10. SetToSeq(new) \in Seq(Source)
  <2> HIDE DEF new
  <2>1. SetToSeq(new) \in [1 .. Len(SetToSeq(new)) -> new]
        /\ Len(SetToSeq(new)) \in Nat
    BY <1>6
  <2>2. SetToSeq(new) \in [1 .. Len(SetToSeq(new)) -> Source]
    BY <1>2, <2>1
  <2> QED
    BY <2>1, <2>2
<1>11. {<<i, services'[i]>> : i \in Mirrored'} = ToSet(rows) \cup new
  <2>1. \A i \in Mirrored : i \in Item \ S
    BY DEF Mirrored
  <2>2. {<<i, services'[i]>> : i \in Mirrored \cup S} =
           {<<i, services'[i]>> : i \in Mirrored}
              \cup {<<i, services'[i]>> : i \in S}
    OBVIOUS
  <2>3. {<<i, services'[i]>> : i \in Mirrored} =
           {<<i, services[i]>> : i \in Mirrored}
    BY <1>8, <2>1
  <2>4. {<<i, services'[i]>> : i \in S} = new
    BY <1>8
  <2> QED
    BY <1>9, <2>2, <2>3, <2>4 DEF RowsRight
<1>12. ToSet(rows) \cap ToSet(SetToSeq(new)) = {}
  BY <1>6 DEF RowsRight
<1>13. RowsRight'
  <2>1. /\ ToSet(rows \o SetToSeq(new)) = ToSet(rows) \cup ToSet(SetToSeq(new))
        /\ \A j, k \in DOMAIN (rows \o SetToSeq(new)) :
              (rows \o SetToSeq(new))[j] = (rows \o SetToSeq(new))[k] => j = k
    BY <1>6, <1>10, <1>12, JoinedRows DEF RowsRight, HostTypes
  <2>2. ToSet(rows') = {<<i, services'[i]>> : i \in Mirrored'}
    BY <1>6, <1>7, <1>11, <2>1
  <2> QED
    BY <1>7, <2>1, <2>2 DEF RowsRight, ToSet
<1>14. rows' \in Seq(Source)
  BY <1>7, <1>10, JoinFacts DEF HostTypes
<1>15. connected' \in [Source -> BOOLEAN] /\ timer' \in [Source -> BOOLEAN]
  BY DEF AddItems, HostTypes
<1>16. UNCHANGED <<refreshing, again, shown, asked, toSource>>
  BY DEF AddItems
<1>17. HostTypes'
  BY <1>8, <1>14, <1>15, <1>16 DEF HostTypes
<1> QED
  BY <1>9, <1>13, <1>17

(* Items that go take their rows with them, and only these.                *)
LEMMA WithdrawFacts ==
  ASSUME HostTypes, RowsRight, NEW S \in SUBSET Mirrored, Withdraw(S)
  PROVE  HostTypes' /\ RowsRight' /\ Mirrored' = Mirrored \ S
<1> DEFINE K == {k \in DOMAIN rows :
                    rows[k][1] \in S => rows[k] # FirstRow(rows[k][1])}
<1>1. /\ services' = [i \in Item |-> IF i \in S THEN 0 ELSE services[i]]
      /\ rows' = Only(rows, K)
  BY DEF Withdraw, RowsWithout
<1>2. \A k \in DOMAIN rows : rows[k][1] \in Mirrored
                             /\ rows[k] = <<rows[k][1], services[rows[k][1]]>>
  BY DEF RowsRight, ToSet
<1>3. ASSUME NEW k \in DOMAIN rows
      PROVE  rows[k] = FirstRow(rows[k][1])
  <2> DEFINE i == rows[k][1]
             First(h) == rows[h][1] = i /\ \A j \in 1 .. h - 1 : rows[j][1] # i
  <2>1. DOMAIN rows = 1 .. Len(rows) /\ Len(rows) \in Nat
    BY DEF HostTypes
  <2>2. \A j \in DOMAIN rows : rows[j][1] = i => j = k
    BY <1>2 DEF RowsRight
  <2>3. First(k)
    BY <2>1, <2>2
  <2>4. rows[CHOOSE h \in DOMAIN rows : First(h)][1] = i
        /\ (CHOOSE h \in DOMAIN rows : First(h)) \in DOMAIN rows
    BY <2>3
  <2>5. (CHOOSE h \in DOMAIN rows : First(h)) = k
    BY <2>2, <2>4
  <2> QED
    BY <2>5 DEF FirstRow
<1>4. K = {k \in DOMAIN rows : rows[k][1] \notin S}
  BY <1>3
<1> HIDE DEF K
<1>5. /\ Only(rows, K) \in Seq(Source)
      /\ ToSet(Only(rows, K)) = {rows[k] : k \in K}
      /\ \A j, k \in DOMAIN Only(rows, K) :
            Only(rows, K)[j] = Only(rows, K)[k] => j = k
  <2>1. K \in SUBSET DOMAIN rows
    BY <1>4
  <2> QED
    <3>1. rows \in Seq(Source)
      BY DEF HostTypes
    <3>2. \A j, k \in DOMAIN rows : rows[j] = rows[k] => j = k
      BY DEF RowsRight
    <3> QED
      BY <2>1, <3>1, <3>2, OnlyFacts
<1>6. /\ Mirrored' = Mirrored \ S
      /\ \A i \in Mirrored' : services'[i] = services[i]
      /\ services' \in [Item -> 0 .. MaxSource]
  BY <1>1, TrayAssumption DEF Mirrored, HostTypes
<1>7. {rows[k] : k \in K} = {<<i, services[i]>> : i \in Mirrored \ S}
  <2>1. ASSUME NEW k \in K
        PROVE  rows[k] \in {<<i, services[i]>> : i \in Mirrored \ S}
    BY <1>2, <1>4
  <2>2. ASSUME NEW i \in Mirrored \ S
        PROVE  <<i, services[i]>> \in {rows[k] : k \in K}
    <3>1. PICK k \in DOMAIN rows : rows[k] = <<i, services[i]>>
      BY DEF RowsRight, ToSet
    <3> QED
      BY <1>4, <3>1
  <2> QED
    BY <2>1, <2>2
<1>8. {<<i, services'[i]>> : i \in Mirrored'} =
         {<<i, services[i]>> : i \in Mirrored \ S}
  BY <1>6
<1>9. RowsRight'
  <2>1. ToSet(rows') = {<<i, services'[i]>> : i \in Mirrored'}
    BY <1>1, <1>5, <1>7, <1>8
  <2> QED
    BY <1>1, <1>5, <2>1 DEF RowsRight, ToSet
<1>10. /\ connected' \in [Source -> BOOLEAN] /\ timer' \in [Source -> BOOLEAN]
       /\ refreshing' \in [Source -> BOOLEAN] /\ again' \in [Source -> BOOLEAN]
       /\ shown' \in [Source -> 0 .. MaxVersion]
       /\ asked' \in [Source -> BOOLEAN]
       /\ toSource' \in [Source -> Seq(SourceMsg)]
  BY TrayAssumption DEF Withdraw, Delete, HostTypes
<1>11. HostTypes'
  BY <1>1, <1>5, <1>6, <1>10 DEF HostTypes
<1> QED
  BY <1>6, <1>9, <1>11

-----------------------------------------------------------------------------
(* Calls for the list that the watcher has to serve, when a message is     *)
(* sent                                                                    *)
LEMMA GetSent ==
  ASSUME BusTypes, OneGet, NEW m \in WatcherMsg,
         toWatcher' = Append(toWatcher, m)
  PROVE  /\ Has(toWatcher', "Get") <=> Has(toWatcher, "Get") \/ m.type = "Get"
         /\ m.type # "Get" \/ ~Has(toWatcher, "Get") => OneGet'
<1> DEFINE q == Append(toWatcher, m)
<1>1. /\ Len(toWatcher) \in Nat /\ Len(q) = Len(toWatcher) + 1
      /\ \A k \in 1 .. Len(toWatcher) : q[k] = toWatcher[k]
      /\ q[Len(toWatcher) + 1] = m
      /\ DOMAIN toWatcher = 1 .. Len(toWatcher) /\ DOMAIN q = 1 .. Len(q)
  BY AppendFacts DEF BusTypes
<1>2. Has(q, "Get") <=> Has(toWatcher, "Get") \/ m.type = "Get"
  BY HasAppended DEF BusTypes
<1> HIDE DEF q
<1>3. toWatcher' = q
  BY DEF q
<1>4. ASSUME m.type # "Get" \/ ~Has(toWatcher, "Get"),
             NEW j \in 1 .. Len(q), NEW k \in 1 .. Len(q),
             q[j].type = "Get", q[k].type = "Get"
      PROVE  j = k
  <2>1. CASE m.type # "Get"
    <3>1. j \in 1 .. Len(toWatcher) /\ k \in 1 .. Len(toWatcher)
      BY <1>1, <1>4, <2>1
    <3> QED
      BY <1>1, <1>4, <3>1 DEF OneGet
  <2>2. CASE ~Has(toWatcher, "Get")
    <3>1. j \notin 1 .. Len(toWatcher) /\ k \notin 1 .. Len(toWatcher)
      BY <1>1, <1>4, <2>2 DEF Has
    <3> QED
      BY <1>1, <3>1
  <2> QED
    BY <1>4, <2>1, <2>2
<1>5. m.type # "Get" \/ ~Has(toWatcher, "Get") => OneGet'
  BY <1>1, <1>3, <1>4 DEF OneGet
<1> QED
  BY <1>2, <1>3, <1>5

(* and when the first one is served.                                       *)
LEMMA GetServed ==
  ASSUME BusTypes, OneGet, toWatcher # <<>>, toWatcher' = Tail(toWatcher)
  PROVE  /\ Has(toWatcher, "Get") <=>
               Head(toWatcher).type = "Get" \/ Has(toWatcher', "Get")
         /\ Head(toWatcher).type = "Get" => ~Has(toWatcher', "Get")
         /\ OneGet'
<1> DEFINE q == Tail(toWatcher)
<1>1. /\ Len(toWatcher) \in Nat \ {0} /\ Len(q) = Len(toWatcher) - 1
      /\ \A k \in 1 .. Len(toWatcher) - 1 : q[k] = toWatcher[k + 1]
      /\ Head(toWatcher) = toWatcher[1]
      /\ DOMAIN toWatcher = 1 .. Len(toWatcher) /\ DOMAIN q = 1 .. Len(q)
  BY TailFacts DEF BusTypes
<1>2. Has(toWatcher, "Get") <=> Head(toWatcher).type = "Get" \/ Has(q, "Get")
  BY HasTailed DEF BusTypes
<1> HIDE DEF q
<1>3. toWatcher' = q
  BY DEF q
<1>4. ASSUME NEW j \in 1 .. Len(q), NEW k \in 1 .. Len(q),
             q[j].type = "Get", q[k].type = "Get"
      PROVE  j = k
  <2>1. /\ j + 1 \in DOMAIN toWatcher /\ toWatcher[j + 1].type = "Get"
        /\ k + 1 \in DOMAIN toWatcher /\ toWatcher[k + 1].type = "Get"
    BY <1>1, <1>4
  <2>2. j + 1 = k + 1
    BY <2>1 DEF OneGet
  <2> QED
    BY <2>2
<1>5. OneGet'
  BY <1>1, <1>3, <1>4 DEF OneGet
<1>6. ASSUME Head(toWatcher).type = "Get", Has(q, "Get")
      PROVE  FALSE
  <2>1. PICK k \in 1 .. Len(q) : q[k].type = "Get"
    BY <1>1, <1>6 DEF Has
  <2>2. k + 1 \in DOMAIN toWatcher /\ toWatcher[k + 1].type = "Get"
        /\ 1 \in DOMAIN toWatcher /\ toWatcher[1].type = "Get"
    BY <1>1, <1>6, <2>1
  <2>3. k + 1 = 1
    BY <2>2 DEF OneGet
  <2> QED
    BY <2>3
<1> QED
  BY <1>2, <1>3, <1>5, <1>6

(* What leaves the queue to the host, the list and the calls alone.        *)
LEMMA QueueAlone ==
  ASSUME QueueInv, UNCHANGED <<watcher, proxy, toHost, services, registered>>,
         Has(toWatcher', "Get") <=> Has(toWatcher, "Get"), OneGet'
  PROVE  QueueInv'
<1>1. Turns'
  BY DEF QueueInv, Turns
<1>2. Linked'
  BY DEF QueueInv, Linked, Mirrored
<1>3. Calls'
  BY DEF QueueInv, Calls, Switch
<1>4. Followed'
  <2> SUFFICES ASSUME proxy'
               PROVE  \E r \in [0 .. Len(toHost') -> SUBSET Item] : Account(r)'
    BY DEF Followed
  <2>1. PICK r \in [0 .. Len(toHost) -> SUBSET Item] : Account(r)
    BY DEF QueueInv, Followed
  <2>2. Account(r)'
    BY <2>1 DEF Account, Mirrored, Switch
  <2> QED
    BY <2>1, <2>2
<1> QED
  BY <1>1, <1>2, <1>3, <1>4 DEF QueueInv

(* What a living watcher sends.                                            *)
LEMMA QueueTold ==
  ASSUME BusTypes, QueueInv, watcher, UNCHANGED <<watcher, proxy, services>>,
         proxy, NEW y \in Seq(HostMsg), toHost' = toHost \o y,
         \A k \in DOMAIN y : ~Switch(y[k]),
         Has(y, "List") => ~Has(toHost, "Gone") /\ ~Has(toHost, "Come"),
         Has(toWatcher', "Get") => Has(toWatcher, "Get") /\ ~Has(y, "List"),
         OneGet',
         Has(toWatcher, "Get") => Has(toWatcher', "Get") \/ Has(y, "List"),
         NEW p \in [0 .. Len(y) -> SUBSET Item],
         p[0] = registered, registered' = p[Len(y)],
         \A k \in 1 .. Len(y) : Tells(y[k], p[k - 1], p[k])
  PROVE  QueueInv'
<1> DEFINE q == toHost \o y
           n == Len(toHost)
           l == Len(y)
<1>1. /\ q \in Seq(HostMsg) /\ n \in Nat /\ l \in Nat /\ Len(q) = n + l
      /\ \A k \in 1 .. n : q[k] = toHost[k]
      /\ \A k \in 1 .. l : q[n + k] = y[k]
      /\ DOMAIN toHost = 1 .. n /\ DOMAIN y = 1 .. l /\ DOMAIN q = 1 .. n + l
      /\ (toHost = <<>> <=> n = 0) /\ (q = <<>> <=> n + l = 0)
  <2>1. /\ q \in Seq(HostMsg) /\ Len(q) = n + l
        /\ \A k \in 1 .. n : q[k] = toHost[k]
        /\ \A k \in 1 .. l : q[n + k] = y[k]
    BY JoinFacts DEF BusTypes
  <2>2. toHost \in Seq(HostMsg)
    BY DEF BusTypes
  <2> HIDE DEF q
  <2> QED
    BY <2>1, <2>2
<1>2. \A t : Has(q, t) <=> Has(toHost, t) \/ Has(y, t)
  BY HasJoined DEF BusTypes
<1> HIDE DEF q, n, l
<1>3. toHost' = q
  BY DEF q
<1>4. \A k \in n + 1 .. n + l : \E j \in 1 .. l : k = n + j /\ q[k] = y[j]
  <2>1. \A k \in n + 1 .. n + l : k - n \in 1 .. l /\ k = n + (k - n)
    BY <1>1
  <2> QED
    BY <1>1, <2>1
<1>5. ~Has(y, "Come") /\ ~Has(y, "Gone")
  BY DEF Has, Switch
<1>6. \A k \in n + 1 .. n + l : ~Switch(q[k])
  BY <1>1, <1>4
<1>7. Turns'
  <2>1. ASSUME NEW k \in 1 .. n + l - 1
        PROVE  q[k].type = "Gone" <=> q[k + 1].type = "Come"
    <3>1. CASE k + 1 <= n
      <4>1. k \in 1 .. n - 1 /\ k \in 1 .. n /\ k + 1 \in 1 .. n
        BY <1>1, <3>1
      <4> QED
        BY <1>1, <4>1 DEF QueueInv, Turns, n
    <3>2. CASE k = n
      <4>1. q[k] = toHost[n] /\ toHost # <<>> /\ k + 1 \in n + 1 .. n + l
        BY <1>1, <3>2
      <4>2. toHost[n].type # "Gone"
        BY <4>1 DEF QueueInv, Turns, n
      <4> QED
        BY <1>6, <4>1, <4>2 DEF Switch
    <3>3. CASE k > n
      <4>1. k \in n + 1 .. n + l /\ k + 1 \in n + 1 .. n + l
        BY <1>1, <3>3
      <4> QED
        BY <1>6, <4>1 DEF Switch
    <3> QED
      BY <1>1, <3>1, <3>2, <3>3
  <2>2. ASSUME q # <<>>
        PROVE  q[n + l].type # "Gone"
    <3>1. CASE l = 0
      <4>1. n + l = n /\ n \in 1 .. n
        BY <1>1, <2>2, <3>1
      <4>2. q[n + l] = toHost[n] /\ toHost # <<>>
        BY <1>1, <4>1
      <4> QED
        BY <4>2 DEF QueueInv, Turns, n
    <3>2. CASE l # 0
      <4>1. n + l \in n + 1 .. n + l
        BY <1>1, <3>2
      <4> QED
        BY <1>6, <4>1 DEF Switch
    <3> QED
      BY <3>1, <3>2
  <2> QED
    BY <1>1, <1>3, <2>1, <2>2 DEF Turns
<1>8. Linked'
  <2>1. toHost # <<>> => q[1] = toHost[1]
    BY <1>1
  <2>2. q # <<>> /\ toHost = <<>> => ~Switch(q[1])
    <3>1. q # <<>> /\ toHost = <<>> => 1 \in n + 1 .. n + l
      BY <1>1
    <3> QED
      BY <1>6, <3>1
  <2>3. Mirrored' = Mirrored
    BY DEF Mirrored
  <2> QED
    BY <1>2, <1>3, <1>5, <2>1, <2>2, <2>3 DEF QueueInv, Linked, Switch
<1>9. Calls'
  <2>1. ASSUME NEW k \in 1 .. n + l, q[k].type = "List", NEW j \in 1 .. k
        PROVE  ~Switch(q[j])
    <3>1. CASE k <= n
      <4>1. k \in DOMAIN toHost /\ toHost[k].type = "List"
            /\ j \in 1 .. n /\ q[j] = toHost[j]
        BY <1>1, <2>1, <3>1
      <4>2. ~Switch(toHost[j])
        BY <4>1 DEF QueueInv, Calls
      <4> QED
        BY <4>1, <4>2
    <3>2. CASE k > n
      <4>1. PICK h \in 1 .. l : q[k] = y[h]
        BY <1>1, <1>4, <3>2
      <4>2. Has(y, "List")
        BY <1>1, <2>1, <4>1 DEF Has
      <4>3. ~Has(toHost, "Gone") /\ ~Has(toHost, "Come")
        BY <4>2
      <4>4. \A i \in 1 .. n : ~Switch(q[i])
        BY <1>1, <4>3 DEF Has, Switch
      <4>5. j \in 1 .. n \/ j \in n + 1 .. n + l
        BY <1>1
      <4> QED
        BY <1>6, <4>4, <4>5
    <3> QED
      BY <1>1, <3>1, <3>2
  <2> QED
    BY <1>1, <1>2, <1>3, <1>5, <2>1 DEF QueueInv, Calls
<1>10. Followed'
  <2>1. PICK r \in [0 .. n -> SUBSET Item] : Account(r)
    BY DEF QueueInv, Followed, n
  <2>2. ~Has(toHost, "Gone") => r[n] = p[0]
    BY <2>1 DEF Account, n
  <2>3. PICK s \in [0 .. n + l -> SUBSET Item] :
           /\ \A k \in 0 .. n : s[k] = r[k]
           /\ \A k \in 1 .. l : s[n + k] = p[k]
    <3> DEFINE f == [k \in 0 .. n + l |-> IF k <= n THEN r[k] ELSE p[k - n]]
    <3>1. /\ \A k \in 0 .. n : k \in 0 .. n + l /\ k <= n
          /\ \A k \in 0 .. n + l : k > n => k - n \in 0 .. l
          /\ \A k \in 1 .. l :
                n + k \in 0 .. n + l /\ ~(n + k <= n) /\ (n + k) - n = k
      BY <1>1
    <3>2. f \in [0 .. n + l -> SUBSET Item]
      BY <1>1, <2>1, <3>1 DEF l
    <3> QED
      BY <3>1, <3>2
  <2>4. ~Has(toHost, "Gone") => s[n] = p[0]
    BY <1>1, <2>2, <2>3
  <2>5. ASSUME NEW k \in 1 .. n + l, \A j \in 1 .. k : ~Switch(q[j])
        PROVE  Tells(q[k], s[k - 1], s[k])
    <3>1. CASE k <= n
      <4>1. k \in 1 .. n /\ q[k] = toHost[k] /\ s[k - 1] = r[k - 1] /\ s[k] = r[k]
        BY <1>1, <2>3, <3>1
      <4>2. \A j \in 1 .. k : ~Switch(toHost[j])
        BY <1>1, <2>5, <3>1
      <4> QED
        BY <1>1, <2>1, <4>1, <4>2 DEF Account
    <3>2. CASE k > n
      <4>1. PICK h \in 1 .. l : k = n + h /\ q[k] = y[h]
        BY <1>1, <1>4, <3>2
      <4>2. ~Has(toHost, "Gone")
        BY <1>1, <2>5, <3>2 DEF Has, Switch
      <4>3. s[k] = p[h] /\ s[k - 1] = p[h - 1]
        <5>1. CASE h = 1
          <6>1. k - 1 = n /\ h - 1 = 0
            BY <1>1, <4>1, <5>1
          <6> QED
            BY <2>3, <2>4, <4>1, <4>2, <6>1
        <5>2. CASE h # 1
          <6>1. h - 1 \in 1 .. l /\ k - 1 = n + (h - 1)
            BY <1>1, <4>1, <5>2
          <6> QED
            BY <2>3, <4>1, <6>1
        <5> QED
          BY <5>1, <5>2
      <4>4. Tells(y[h], p[h - 1], p[h])
        BY DEF l
      <4> QED
        BY <4>1, <4>3, <4>4
    <3> QED
      BY <1>1, <3>1, <3>2
  <2>6. ~Has(q, "Gone") => s[n + l] = registered'
    <3>1. CASE l = 0
      BY <1>1, <1>2, <2>4, <3>1 DEF l
    <3>2. CASE l # 0
      BY <1>1, <2>3, <3>2 DEF l
    <3> QED
      BY <3>1, <3>2
  <2>7. Mirrored' = Mirrored /\ s[0] = r[0]
    BY <1>1, <2>3 DEF Mirrored
  <2>8. ~Has(q, "Gone") /\ ~Has(toWatcher', "Get") /\ ~Has(q, "List") =>
           Mirrored' = s[0]
    BY <1>2, <2>1, <2>7 DEF Account
  <2>9. Account(s)'
    <3>1. Mirrored' \subseteq s[0]
      BY <2>1, <2>7 DEF Account
    <3>2. DOMAIN toHost' = 1 .. n + l /\ Len(toHost') = n + l
      BY <1>1, <1>3
    <3> QED
      BY <1>3, <2>5, <2>6, <2>8, <3>1, <3>2 DEF Account, Switch
  <2>10. Len(toHost') = n + l
    BY <1>1, <1>3
  <2> QED
    BY <2>3, <2>9, <2>10 DEF Followed
<1> QED
  BY <1>7, <1>8, <1>9, <1>10 DEF QueueInv
-----------------------------------------------------------------------------
(* The order of turns survives when the first message is served.           *)
LEMMA TurnsServed ==
  ASSUME BusTypes, Turns, toHost # <<>>, toHost' = Tail(toHost),
         UNCHANGED watcher
  PROVE  Turns'
<1> DEFINE q == Tail(toHost)
           n == Len(toHost)
<1>1. /\ n \in Nat \ {0} /\ Len(q) = n - 1
      /\ \A k \in 1 .. n - 1 : q[k] = toHost[k + 1]
      /\ (q = <<>> <=> n = 1)
  <2>1. /\ q \in Seq(HostMsg) /\ n \in Nat \ {0} /\ Len(q) = n - 1
        /\ \A k \in 1 .. n - 1 : q[k] = toHost[k + 1]
    BY TailFacts DEF BusTypes
  <2> HIDE DEF q
  <2> QED
    BY <2>1
<1> HIDE DEF q, n
<1>2. toHost' = q
  BY DEF q
<1>3. ASSUME NEW k \in 1 .. n - 2
      PROVE  q[k].type = "Gone" <=> q[k + 1].type = "Come"
  <2>1. /\ k \in 1 .. n - 1 /\ k + 1 \in 1 .. n - 1
        /\ q[k] = toHost[k + 1] /\ q[k + 1] = toHost[k + 1 + 1]
    BY <1>1
  <2> QED
    BY <2>1 DEF Turns, n
<1>4. ASSUME q # <<>>
      PROVE  q[n - 1] = toHost[n]
  <2>1. n - 1 \in 1 .. n - 1 /\ n - 1 + 1 = n
    BY <1>1, <1>4
  <2> QED
    BY <1>1, <2>1
<1>5. watcher <=> toHost[n].type # "Gone"
  BY DEF Turns, n
<1>6. Len(q) = n - 1 /\ Len(q) - 1 = n - 2
  BY <1>1
<1> QED
  BY <1>2, <1>3, <1>4, <1>5, <1>6 DEF Turns

(* The host serves what does not change watchers.                          *)
LEMMA QueueServed ==
  ASSUME BusTypes, QueueInv, toHost # <<>>, toHost' = Tail(toHost),
         ~Switch(Head(toHost)),
         UNCHANGED <<watcher, proxy, toWatcher, registered>>,
         ~proxy => UNCHANGED services,
         \A S, T \in SUBSET Item :
            proxy /\ Mirrored \subseteq S /\ Tells(Head(toHost), S, T) =>
               /\ Mirrored' \subseteq T
               /\ Mirrored = S \/ Head(toHost).type = "List" => Mirrored' = T
  PROVE  QueueInv'
<1> DEFINE q == Tail(toHost)
           n == Len(toHost)
<1>1. /\ q \in Seq(HostMsg) /\ n \in Nat \ {0} /\ Len(q) = n - 1
      /\ \A k \in 1 .. n - 1 : q[k] = toHost[k + 1]
      /\ Head(toHost) = toHost[1]
      /\ DOMAIN toHost = 1 .. n /\ DOMAIN q = 1 .. n - 1
      /\ (q = <<>> <=> n = 1)
  <2>1. /\ q \in Seq(HostMsg) /\ n \in Nat \ {0} /\ Len(q) = n - 1
        /\ \A k \in 1 .. n - 1 : q[k] = toHost[k + 1]
        /\ Head(toHost) = toHost[1]
    BY TailFacts DEF BusTypes
  <2>2. toHost \in Seq(HostMsg)
    BY DEF BusTypes
  <2> HIDE DEF q
  <2> QED
    BY <2>1, <2>2
<1>2. \A t : Has(toHost, t) <=> Head(toHost).type = t \/ Has(q, t)
  BY HasTailed DEF BusTypes
<1> HIDE DEF q, n
<1>3. toHost' = q
  BY DEF q
<1>4. /\ Has(toHost, "Come") <=> Has(q, "Come")
      /\ Has(toHost, "Gone") <=> Has(q, "Gone")
  BY <1>2 DEF Switch
<1>5. Turns'
  BY TurnsServed DEF QueueInv
<1>6. q # <<>> => q[1].type # "Come"
  <2>1. q # <<>> => q[1] = toHost[2] /\ 1 \in 1 .. n - 1
    BY <1>1
  <2>2. 1 \in 1 .. n - 1 => (toHost[1].type = "Gone" <=> toHost[2].type = "Come")
    BY DEF QueueInv, Turns, n
  <2> QED
    BY <1>1, <2>1, <2>2 DEF Switch
<1>7. Linked'
  <2>1. ~proxy => Mirrored' = {}
    BY DEF QueueInv, Linked, Mirrored
  <2> QED
    BY <1>2, <1>3, <1>4, <1>6, <2>1 DEF QueueInv, Linked
<1>8. Calls'
  <2>1. ASSUME NEW k \in 1 .. n - 1, q[k].type = "List", NEW j \in 1 .. k
        PROVE  ~Switch(q[j])
    <3>1. /\ k + 1 \in DOMAIN toHost /\ toHost[k + 1].type = "List"
          /\ j + 1 \in 1 .. k + 1 /\ q[j] = toHost[j + 1]
      BY <1>1, <2>1
    <3> QED
      BY <3>1 DEF QueueInv, Calls
  <2>2. OneGet'
    BY DEF QueueInv, Calls, OneGet
  <2>3. Has(toWatcher', "Get") =>
           /\ proxy' /\ ~Has(q, "Come")
           /\ ~Has(q, "Gone") /\ ~Has(q, "List")
    BY <1>2 DEF QueueInv, Calls
  <2>4. \A k \in DOMAIN q : q[k].type = "List" =>
           \A j \in 1 .. k : ~Switch(q[j])
    BY <1>1, <2>1
  <2> QED
    BY <1>3, <2>2, <2>3, <2>4 DEF Calls, Switch
<1>9. Followed'
  <2> SUFFICES ASSUME proxy
               PROVE  \E r \in [0 .. n - 1 -> SUBSET Item] : Account(r)'
    BY <1>1, <1>3 DEF Followed
  <2>1. PICK r \in [0 .. n -> SUBSET Item] : Account(r)
    BY DEF QueueInv, Followed, n
  <2>2. PICK s \in [0 .. n - 1 -> SUBSET Item] :
           \A k \in 0 .. n - 1 : s[k] = r[k + 1]
    <3>1. \A k \in 0 .. n - 1 : k + 1 \in 0 .. n
      BY <1>1
    <3>2. [k \in 0 .. n - 1 |-> r[k + 1]] \in [0 .. n - 1 -> SUBSET Item]
      BY <2>1, <3>1
    <3> QED
      BY <3>2
  <2>3. /\ 0 \in 0 .. n /\ 1 \in 0 .. n /\ 1 \in DOMAIN toHost
        /\ 0 \in 0 .. n - 1 /\ s[0] = r[1] /\ s[n - 1] = r[n]
    BY <1>1, <2>2
  <2>4. Tells(Head(toHost), r[0], r[1])
    <3>1. \A j \in 1 .. 1 : ~Switch(toHost[j])
      BY <1>1
    <3>2. Tells(toHost[1], r[1 - 1], r[1])
      BY <2>1, <2>3, <3>1 DEF Account
    <3> QED
      BY <1>1, <3>2
  <2>5. /\ Mirrored \subseteq r[0]
        /\ Mirrored' \subseteq r[1]
        /\ Mirrored = r[0] \/ Head(toHost).type = "List" => Mirrored' = r[1]
    <3>1. r[0] \in SUBSET Item /\ r[1] \in SUBSET Item
      BY <2>1, <2>3
    <3>2. Mirrored \subseteq r[0]
      BY <2>1 DEF Account
    <3> QED
      BY <2>4, <3>1, <3>2, Zenon
  <2>6. ASSUME NEW k \in 1 .. n - 1, \A j \in 1 .. k : ~Switch(q[j])
        PROVE  Tells(q[k], s[k - 1], s[k])
    <3>1. /\ k + 1 \in DOMAIN toHost /\ q[k] = toHost[k + 1]
          /\ k \in 0 .. n - 1 /\ k - 1 \in 0 .. n - 1
          /\ s[k] = r[k + 1] /\ s[k - 1] = r[k]
          /\ (k + 1) - 1 = k
      BY <1>1, <2>2
    <3>2. ASSUME NEW j \in 1 .. k + 1
          PROVE  ~Switch(toHost[j])
      <4>1. CASE j = 1
        BY <1>1, <4>1
      <4>2. CASE j # 1
        <5>1. j - 1 \in 1 .. k /\ j - 1 \in 1 .. n - 1 /\ (j - 1) + 1 = j
          BY <1>1, <4>2
        <5>2. q[j - 1] = toHost[j]
          BY <1>1, <5>1
        <5> QED
          BY <2>6, <5>1, <5>2
      <4> QED
        BY <4>1, <4>2
    <3>3. Tells(toHost[k + 1], r[(k + 1) - 1], r[k + 1])
      BY <2>1, <3>1, <3>2 DEF Account
    <3> QED
      BY <3>1, <3>3
  <2>7. ~Has(q, "Gone") =>
           /\ s[n - 1] = registered
           /\ ~Has(toWatcher, "Get") /\ ~Has(q, "List") => Mirrored' = s[0]
    <3>1. ~Has(q, "Gone") => r[n] = registered
      BY <1>4, <2>1 DEF Account, n
    <3>2. ~Has(q, "Gone") /\ ~Has(toWatcher, "Get") /\ ~Has(toHost, "List") =>
             Mirrored = r[0]
      BY <1>4, <2>1 DEF Account
    <3> QED
      BY <1>2, <2>3, <2>5, <3>1, <3>2
  <2>8. Account(s)'
    <3>1. DOMAIN toHost' = 1 .. n - 1 /\ Len(toHost') = n - 1
      BY <1>1, <1>3
    <3>2. /\ Has(toWatcher', "Get") <=> Has(toWatcher, "Get")
          /\ registered' = registered
      OBVIOUS
    <3>3. Mirrored' \subseteq s[0]
      BY <2>3, <2>5
    <3> QED
      BY <1>3, <2>6, <2>7, <3>1, <3>2, <3>3 DEF Account, Switch
  <2> QED
    BY <2>8
<1> QED
  BY <1>5, <1>7, <1>8, <1>9 DEF QueueInv
-----------------------------------------------------------------------------
(* A watcher goes, or another one comes.                                   *)
LEMMA QueueTurned ==
  ASSUME BusTypes, Registry, QueueInv, NEW m \in HostMsg,
         m.type = (IF watcher THEN "Gone" ELSE "Come"),
         toHost' = Append(toHost, m), watcher' = ~watcher,
         toWatcher' = <<>>, UNCHANGED <<proxy, services>>
  PROVE  QueueInv'
<1> DEFINE q == Append(toHost, m)
           n == Len(toHost)
<1>1. /\ q \in Seq(HostMsg) /\ n \in Nat /\ Len(q) = n + 1
      /\ \A k \in 1 .. n : q[k] = toHost[k]
      /\ q[n + 1] = m /\ q # <<>>
      /\ DOMAIN toHost = 1 .. n /\ DOMAIN q = 1 .. n + 1
      /\ (toHost = <<>> <=> n = 0)
  <2>1. toHost \in Seq(HostMsg)
    BY DEF BusTypes
  <2>2. /\ q \in Seq(HostMsg) /\ Len(q) = n + 1
        /\ \A k \in 1 .. n : q[k] = toHost[k]
        /\ q[n + 1] = m /\ q # <<>>
    BY <2>1, AppendFacts
  <2> HIDE DEF q
  <2> QED
    BY <2>1, <2>2
<1>2. \A t : Has(q, t) <=> Has(toHost, t) \/ m.type = t
  BY HasAppended DEF BusTypes
<1> HIDE DEF q, n
<1>3. toHost' = q
  BY DEF q
<1>4. m.type \in {"Gone", "Come"} /\ (m.type = "Gone" <=> watcher)
      /\ (watcher <=> m.type # "Come") /\ watcher \in BOOLEAN
  BY DEF BusTypes
<1>5. toHost # <<>> => n \in 1 .. n /\ (watcher <=> toHost[n].type # "Gone")
  BY <1>1 DEF QueueInv, Turns, n
<1>6. Turns'
  <2>1. ASSUME NEW k \in 1 .. n
        PROVE  q[k].type = "Gone" <=> q[k + 1].type = "Come"
    <3>1. CASE k = n
      <4>1. q[k] = toHost[n] /\ q[k + 1] = m /\ toHost # <<>>
        BY <1>1, <3>1
      <4> QED
        BY <1>4, <1>5, <4>1
    <3>2. CASE k # n
      <4>1. /\ k \in 1 .. n - 1 /\ q[k] = toHost[k]
            /\ k + 1 \in 1 .. n /\ q[k + 1] = toHost[k + 1]
        BY <1>1, <3>2
      <4> QED
        BY <4>1 DEF QueueInv, Turns, n
    <3> QED
      BY <3>1, <3>2
  <2>2. Len(q) = n + 1 /\ Len(q) - 1 = n
    BY <1>1
  <2>3. watcher' <=> q[n + 1].type # "Gone"
    BY <1>1, <1>4
  <2> QED
    BY <1>3, <2>1, <2>2, <2>3 DEF Turns
<1>7. Linked'
  <2>1. q[1].type = "Come" => ~proxy
    <3>1. CASE toHost = <<>>
      <4>1. ~Has(toHost, "Come") /\ ~Has(toHost, "Gone")
        BY <1>1, <3>1 DEF Has
      <4>2. proxy = watcher
        BY <4>1 DEF QueueInv, Linked
      <4>3. q[1] = m
        BY <1>1, <3>1
      <4> QED
        BY <1>4, <4>2, <4>3
    <3>2. CASE toHost # <<>>
      <4>1. q[1] = toHost[1]
        BY <1>1, <3>2
      <4> QED
        BY <3>2, <4>1 DEF QueueInv, Linked
    <3> QED
      BY <3>1, <3>2
  <2>2. Has(q, "Come") \/ Has(q, "Gone")
    BY <1>2, <1>4
  <2>3. Has(q, "List") => Has(toHost, "List")
    BY <1>2, <1>4
  <2>4. Mirrored' = Mirrored
    BY DEF Mirrored
  <2> QED
    BY <1>3, <2>1, <2>2, <2>3, <2>4 DEF QueueInv, Linked
<1>8. Calls'
  <2>1. ASSUME NEW k \in 1 .. n + 1, q[k].type = "List", NEW j \in 1 .. k
        PROVE  ~Switch(q[j])
    <3>1. k # n + 1
      BY <1>1, <1>4, <2>1
    <3>2. k \in DOMAIN toHost /\ toHost[k].type = "List" /\ q[j] = toHost[j]
      BY <1>1, <2>1, <3>1
    <3> QED
      BY <3>2 DEF QueueInv, Calls
  <2>2. ~Has(<<>>, "Get")
    BY DEF Has
  <2>3. OneGet'
    BY DEF OneGet
  <2> QED
    BY <1>1, <1>3, <2>1, <2>2, <2>3 DEF Calls
<1>9. Followed'
  <2> SUFFICES ASSUME proxy
               PROVE  \E r \in [0 .. n + 1 -> SUBSET Item] : Account(r)'
    BY <1>1, <1>3 DEF Followed
  <2>1. PICK r \in [0 .. n -> SUBSET Item] : Account(r)
    BY DEF QueueInv, Followed, n
  <2>2. PICK s \in [0 .. n + 1 -> SUBSET Item] : \A k \in 0 .. n : s[k] = r[k]
    <3>1. \A k \in 0 .. n : k \in 0 .. n + 1
      BY <1>1
    <3>2. \A k \in 0 .. n + 1 : k # n + 1 => k \in 0 .. n
      BY <1>1
    <3>3. \A k \in 0 .. n : k # n + 1
      BY <1>1
    <3>4. [k \in 0 .. n + 1 |-> IF k = n + 1 THEN {} ELSE r[k]]
             \in [0 .. n + 1 -> SUBSET Item]
      BY <2>1, <3>2
    <3> QED
      BY <3>1, <3>3, <3>4
  <2>3. Mirrored' \subseteq s[0]
    BY <1>1, <2>1, <2>2 DEF Account, Mirrored
  <2>4. ASSUME NEW k \in 1 .. n + 1, \A j \in 1 .. k : ~Switch(q[j])
        PROVE  Tells(q[k], s[k - 1], s[k])
    <3>1. k # n + 1
      BY <1>1, <1>4, <2>4 DEF Switch
    <3>2. /\ k \in DOMAIN toHost /\ q[k] = toHost[k]
          /\ s[k] = r[k] /\ s[k - 1] = r[k - 1]
          /\ \A j \in 1 .. k : q[j] = toHost[j]
      BY <1>1, <2>2, <3>1
    <3> QED
      BY <2>1, <2>4, <3>2 DEF Account
  <2>5. Has(q, "Gone")
    <3>1. CASE watcher
      BY <1>2, <1>4, <3>1
    <3>2. CASE ~watcher
      <4>1. toHost # <<>>
        <5>1. toHost = <<>> => ~Has(toHost, "Come") /\ ~Has(toHost, "Gone")
          BY <1>1 DEF Has
        <5> QED
          BY <3>2, <5>1 DEF QueueInv, Linked
      <4>2. Has(toHost, "Gone")
        BY <1>1, <1>5, <3>2, <4>1 DEF Has
      <4> QED
        BY <1>2, <4>2
    <3> QED
      BY <3>1, <3>2
  <2>6. Account(s)'
    <3>1. DOMAIN toHost' = 1 .. n + 1
      BY <1>1, <1>3
    <3> QED
      BY <1>3, <2>3, <2>4, <2>5, <3>1 DEF Account, Switch
  <2> QED
    BY <2>6
<1> QED
  BY <1>6, <1>7, <1>8, <1>9 DEF QueueInv
-----------------------------------------------------------------------------
(* The host learns that the watcher has gone.                              *)
LEMMA QueueGone ==
  ASSUME BusTypes, QueueInv, toHost # <<>>, toHost' = Tail(toHost),
         Head(toHost).type = "Gone", proxy' = FALSE, Mirrored' = {},
         UNCHANGED <<watcher, toWatcher, registered>>
  PROVE  QueueInv'
<1> DEFINE q == Tail(toHost)
           n == Len(toHost)
<1>1. /\ n \in Nat \ {0} /\ Len(q) = n - 1
      /\ \A k \in 1 .. n - 1 : q[k] = toHost[k + 1]
      /\ Head(toHost) = toHost[1]
      /\ DOMAIN toHost = 1 .. n /\ DOMAIN q = 1 .. n - 1
      /\ (q = <<>> <=> n = 1)
  <2>1. /\ q \in Seq(HostMsg) /\ n \in Nat \ {0} /\ Len(q) = n - 1
        /\ \A k \in 1 .. n - 1 : q[k] = toHost[k + 1]
        /\ Head(toHost) = toHost[1]
    BY TailFacts DEF BusTypes
  <2>2. toHost \in Seq(HostMsg)
    BY DEF BusTypes
  <2> HIDE DEF q
  <2> QED
    BY <2>1, <2>2
<1>2. \A t : Has(toHost, t) <=> Head(toHost).type = t \/ Has(q, t)
  BY HasTailed DEF BusTypes
<1> HIDE DEF q, n
<1>3. toHost' = q
  BY DEF q
<1>4. Turns'
  BY <1>1, <1>3, TurnsServed DEF QueueInv
<1>5. ~Has(toHost, "List")
  <2>1. ASSUME NEW k \in 1 .. n, toHost[k].type = "List"
        PROVE  FALSE
    <3>1. 1 \in 1 .. k /\ Switch(toHost[1])
      BY <1>1 DEF Switch
    <3> QED
      BY <1>1, <2>1, <3>1 DEF QueueInv, Calls
  <2> QED
    BY <1>1, <2>1 DEF Has
<1>6. ~Has(toWatcher, "Get")
  BY <1>2 DEF QueueInv, Calls
<1>7. ~Has(q, "Come") => ~watcher
  <2>1. CASE n = 1
    BY <1>1, <2>1 DEF QueueInv, Turns, n
  <2>2. CASE n # 1
    <3>1. 1 \in 1 .. n - 1 /\ q[1] = toHost[2]
      BY <1>1, <2>2
    <3>2. toHost[2].type = "Come"
      BY <1>1, <3>1 DEF QueueInv, Turns, n
    <3> QED
      BY <1>1, <3>1, <3>2 DEF Has
  <2> QED
    BY <2>1, <2>2
<1>8. ~Has(q, "List") /\ ~Has(toWatcher', "Get")
  BY <1>2, <1>5, <1>6
<1>9. Linked'
  BY <1>3, <1>7, <1>8 DEF Linked, BusTypes
<1>10. Calls'
  <2>1. OneGet'
    BY DEF QueueInv, Calls, OneGet
  <2> QED
    BY <1>3, <1>8, <2>1 DEF Calls, Has
<1>11. Followed'
  BY DEF Followed
<1> QED
  BY <1>4, <1>9, <1>10, <1>11 DEF QueueInv

(* The host learns that a watcher has come, and finds none.                *)
LEMMA QueueComeLate ==
  ASSUME BusTypes, Registry, QueueInv, toHost # <<>>, toHost' = Tail(toHost),
         Head(toHost).type = "Come", ~watcher, proxy' = FALSE,
         UNCHANGED <<watcher, toWatcher, services>>
  PROVE  QueueInv'
<1> DEFINE q == Tail(toHost)
<1>1. \A t : Has(toHost, t) <=> Head(toHost).type = t \/ Has(q, t)
  BY HasTailed DEF BusTypes
<1> HIDE DEF q
<1>2. toHost' = q
  BY DEF q
<1>3. Turns'
  BY TurnsServed DEF QueueInv
<1>4. Head(toHost) = toHost[1]
  BY TailFacts DEF BusTypes
<1>5. ~proxy /\ Mirrored' = {} /\ ~Has(q, "List")
  BY <1>1, <1>4 DEF QueueInv, Linked, Mirrored
<1>6. toWatcher' = <<>> /\ ~Has(<<>>, "Get")
  BY DEF Registry, Has
<1>7. Linked'
  BY <1>2, <1>5 DEF Linked, BusTypes
<1>8. Calls'
  BY <1>2, <1>5, <1>6 DEF Calls, OneGet, Has
<1>9. Followed'
  BY DEF Followed
<1> QED
  BY <1>3, <1>7, <1>8, <1>9 DEF QueueInv

(* The host learns that a watcher has come, and finds it.                  *)
LEMMA QueueCome ==
  ASSUME BusTypes, QueueInv, toHost # <<>>, toHost' = NoSignals,
         Head(toHost).type = "Come", watcher, proxy' = TRUE,
         UNCHANGED <<watcher, services, registered>>,
         toWatcher' = Append(toWatcher, [type |-> "Get"]),
         ~Overtaken, ~Overtaken'
  PROVE  QueueInv'
<1> DEFINE n == Len(toHost)
           K == {k \in 2 .. n :
                    toHost[k].type \notin {"Registered", "Unregistered"}}
<1>1. /\ n \in Nat \ {0} /\ Head(toHost) = toHost[1]
      /\ toHost \in Seq(HostMsg) /\ DOMAIN toHost = 1 .. n
      /\ \A k \in 1 .. n : toHost[k] \in HostMsg
  <2>1. toHost \in Seq(HostMsg)
    BY DEF BusTypes
  <2> QED
    BY <2>1
<1>2. K \in SUBSET DOMAIN toHost
  BY <1>1
<1>3. ToSet(Only(toHost, K)) = {toHost[k] : k \in K}
      /\ (K = {} => Only(toHost, K) = <<>>)
  <2> HIDE DEF K
  <2>1. toHost \in Seq(HostMsg)
    BY <1>1
  <2> QED
    BY <1>2, <2>1, OnlyFacts
<1>4. toHost' = Only(toHost, K)
  BY DEF NoSignals
<1>5. [type |-> "Get"] \in WatcherMsg
  BY DEF WatcherMsg
<1>6. Has(toHost, "Come")
  BY <1>1 DEF Has
<1>7. ~Has(toWatcher, "Get")
  BY <1>6 DEF Overtaken
<1>8. OneGet' /\ Has(toWatcher', "Get")
  BY <1>5, <1>7, GetSent DEF QueueInv, Calls
<1> HIDE DEF K, n
<1>9. ~Has(toHost', "Come")
  BY <1>8 DEF Overtaken
<1>10. \A k \in K : toHost[k].type # "Come"
  <2>1. ASSUME NEW k \in K, toHost[k].type = "Come"
        PROVE  FALSE
    <3>1. toHost[k] \in ToSet(toHost')
      BY <1>3, <1>4
    <3>2. PICK j \in DOMAIN toHost' : toHost'[j] = toHost[k]
      BY <3>1 DEF ToSet
    <3> QED
      BY <1>9, <2>1, <3>2 DEF Has
  <2> QED
    BY <2>1
<1>11. \A k \in 2 .. n : toHost[k].type # "Come"
  BY <1>10 DEF K
<1>12. \A k \in 2 .. n : toHost[k].type # "Gone"
  <2>1. ASSUME NEW k \in 2 .. n, toHost[k].type = "Gone"
        PROVE  FALSE
    <3>1. CASE k = n
      BY <2>1, <3>1 DEF QueueInv, Turns, n
    <3>2. CASE k # n
      <4>1. k \in 1 .. n - 1 /\ k + 1 \in 2 .. n
        BY <1>1, <3>2
      <4>2. toHost[k + 1].type = "Come"
        BY <2>1, <4>1 DEF QueueInv, Turns, n
      <4> QED
        BY <1>11, <4>1, <4>2
    <3> QED
      BY <3>1, <3>2
  <2> QED
    BY <2>1
<1>13. \A k \in 2 .. n : toHost[k].type # "List"
  <2>1. ASSUME NEW k \in 2 .. n, toHost[k].type = "List"
        PROVE  FALSE
    <3>1. 1 \in 1 .. k /\ k \in DOMAIN toHost /\ Switch(toHost[1])
      BY <1>1 DEF Switch
    <3> QED
      BY <2>1, <3>1 DEF QueueInv, Calls
  <2> QED
    BY <2>1
<1>14. K = {}
  <2>1. \A m \in HostMsg : m.type \in {"Registered", "Unregistered", "List",
                                       "Come", "Gone"}
    BY DEF HostMsg
  <2>2. \A k \in 2 .. n : toHost[k] \in HostMsg
    BY <1>1
  <2> QED
    BY <1>11, <1>12, <1>13, <2>1, <2>2 DEF K
<1>15. toHost' = <<>>
  BY <1>3, <1>4, <1>14
<1>16. \A t : ~Has(<<>>, t)
  BY DEF Has
<1>17. Mirrored' = {}
  BY <1>1 DEF QueueInv, Linked, Mirrored
<1>18. Turns'
  BY <1>15 DEF Turns
<1>19. Linked'
  BY <1>15 DEF Linked
<1>20. Calls'
  BY <1>8, <1>15, <1>16 DEF Calls
<1>21. Followed'
  <2>1. Len(toHost') = 0 /\ DOMAIN toHost' = {}
    BY <1>15
  <2>2. PICK r \in [0 .. 0 -> SUBSET Item] : r[0] = registered
    <3>1. registered \in SUBSET Item
      BY DEF BusTypes
    <3>2. [k \in 0 .. 0 |-> registered] \in [0 .. 0 -> SUBSET Item]
      BY <3>1
    <3>3. 0 \in 0 .. 0
      OBVIOUS
    <3> QED
      BY <3>2, <3>3
  <2>3. Account(r)'
    BY <1>8, <1>17, <2>1, <2>2 DEF Account
  <2> QED
    BY <2>1, <2>2, <2>3 DEF Followed
<1> QED
  BY <1>18, <1>19, <1>20, <1>21 DEF QueueInv

(* What the host is told next fits what it knows.                          *)
LEMMA NextTold ==
  ASSUME BusTypes, QueueInv, proxy, toHost # <<>>, ~Switch(Head(toHost))
  PROVE  \E S, T \in SUBSET Item :
            Mirrored \subseteq S /\ Tells(Head(toHost), S, T)
<1> DEFINE n == Len(toHost)
<1>1. /\ n \in Nat \ {0} /\ Head(toHost) = toHost[1]
      /\ DOMAIN toHost = 1 .. n
  <2>1. toHost \in Seq(HostMsg)
    BY DEF BusTypes
  <2> QED
    BY <2>1
<1>2. PICK r \in [0 .. n -> SUBSET Item] : Account(r)
  BY DEF QueueInv, Followed
<1> HIDE DEF n
<1>3. 1 \in DOMAIN toHost /\ \A j \in 1 .. 1 : ~Switch(toHost[j])
  BY <1>1
<1>4. Mirrored \subseteq r[0] /\ Tells(toHost[1], r[1 - 1], r[1])
  BY <1>2, <1>3 DEF Account
<1>5. r[0] \in SUBSET Item /\ r[1] \in SUBSET Item
  BY <1>1, <1>2
<1> QED
  BY <1>1, <1>4, <1>5
-----------------------------------------------------------------------------
(* The invariant holds at first.                                           *)
LEMMA InitTrayInv == Init => TrayInv
<1> SUFFICES ASSUME Init PROVE TrayInv
  OBVIOUS
<1>1. BusTypes /\ Registry
  BY InitBusTypes, InitRegistry
<1>2. Mirrored = {}
  BY DEF Init, Mirrored
<1>3. HostTypes
  BY TrayAssumption DEF Init, HostTypes
<1>4. RowsRight
  BY <1>2 DEF Init, RowsRight, ToSet
<1>5. /\ toHost = <<>> /\ watcher = TRUE /\ proxy = TRUE
      /\ Len(toHost) = 0 /\ DOMAIN toHost = {}
      /\ DOMAIN toWatcher = 1 .. 1 /\ toWatcher[1].type = "Get"
  BY DEF Init
<1>6. \A t : ~Has(toHost, t)
  BY <1>5 DEF Has
<1>7. Has(toWatcher, "Get") /\ OneGet
  BY <1>5 DEF Has, OneGet
<1>8. Turns /\ Linked
  BY <1>5, <1>6 DEF Turns, Linked
<1>9. Calls
  BY <1>5, <1>6, <1>7 DEF Calls
<1>10. Followed
  <2>1. registered \in SUBSET Item
    BY <1>1 DEF BusTypes
  <2>2. PICK r \in [0 .. 0 -> SUBSET Item] : r[0] = registered
    <3>1. [k \in 0 .. 0 |-> registered] \in [0 .. 0 -> SUBSET Item]
      BY <2>1
    <3>2. 0 \in 0 .. 0
      OBVIOUS
    <3> QED
      BY <3>1, <3>2
  <2>3. Account(r)
    BY <1>2, <1>5, <1>7, <2>2 DEF Account
  <2> QED
    BY <1>5, <2>2, <2>3 DEF Followed
<1> QED
  BY <1>1, <1>3, <1>4, <1>8, <1>9, <1>10 DEF TrayInv, HostInv, QueueInv

(* Sources fetch and applications answer without touching the rows.        *)
LEMMA HostStays ==
  ASSUME HostTypes, RowsRight, UNCHANGED <<services, rows>>,
         connected' \in [Source -> BOOLEAN], timer' \in [Source -> BOOLEAN],
         refreshing' \in [Source -> BOOLEAN], again' \in [Source -> BOOLEAN],
         shown' \in [Source -> 0 .. MaxVersion],
         asked' \in [Source -> BOOLEAN],
         toSource' \in [Source -> Seq(SourceMsg)]
  PROVE  HostTypes' /\ RowsRight'
BY DEF HostTypes, RowsRight, Mirrored, ToSet

(* Table and rows agree after every step of the host, if what it is told   *)
(* is what Account says: it adds no item that it has.                      *)
LEMMA HostStepInv ==
  ASSUME BusTypes, HostInv, QueueInv, [TrayStep]_vars
  PROVE  HostInv'
<1> USE DEF HostInv
<1>1. /\ \A m : m \in SourceMsg => \A q \in Seq(SourceMsg) :
                                      Append(q, m) \in Seq(SourceMsg)
      /\ [type |-> "Changed"] \in SourceMsg /\ [type |-> "Error"] \in SourceMsg
      /\ \A v \in 0 .. MaxVersion :
            [type |-> "Answer", version |-> v] \in SourceMsg
      /\ \A q \in Seq(SourceMsg) : q # <<>> => Tail(q) \in Seq(SourceMsg)
      /\ \A q \in Seq(SourceMsg) : q # <<>> => Head(q) \in SourceMsg
  BY DEF SourceMsg
<1>2. CASE UNCHANGED <<tableVars, sourceVars>>
  BY <1>2, HostStays DEF tableVars, sourceVars, fetchVars, HostTypes
<1>3. ASSUME NEW s \in Service, AppQuit(s)
      PROVE  HostInv'
  <2>1. /\ UNCHANGED <<services, rows, connected, timer, refreshing, again,
                       shown>>
        /\ asked' \in [Source -> BOOLEAN]
        /\ toSource' \in [Source -> Seq(SourceMsg)]
    BY <1>1, <1>3 DEF AppQuit, tableVars, fetchVars, HostTypes
  <2> QED
    BY <2>1, HostStays DEF HostTypes
<1>4. ASSUME NEW i \in Item, AppChange(i)
      PROVE  HostInv'
  <2>1. /\ UNCHANGED <<services, rows, connected, timer, refreshing, again,
                       shown, asked>>
        /\ toSource' \in [Source -> Seq(SourceMsg)]
    BY <1>1, <1>4 DEF AppChange, tableVars, fetchVars, HostTypes
  <2> QED
    BY <2>1, HostStays DEF HostTypes
<1>5. ASSUME NEW x \in Source, AppAnswer(x)
      PROVE  HostInv'
  <2>1. version[x[1]] \in 0 .. MaxVersion
    BY DEF BusTypes, Source
  <2>2. /\ UNCHANGED <<services, rows, connected, timer, refreshing, again,
                       shown>>
        /\ asked' \in [Source -> BOOLEAN]
        /\ toSource' \in [Source -> Seq(SourceMsg)]
    BY <1>1, <1>5, <2>1 DEF AppAnswer, tableVars, fetchVars, HostTypes
  <2> QED
    BY <2>2, HostStays DEF HostTypes
<1>6. ASSUME NEW i \in Item, HRegistered(i)
      PROVE  HostInv'
  <2>1. CASE proxy
    <3>1. /\ toHost # <<>> /\ Head(toHost) = [type |-> "Registered", item |-> i]
          /\ AddItems({i})
      BY <1>6, <2>1 DEF HRegistered, Delivered
    <3>2. i \notin Mirrored
      <4>1. ~Switch(Head(toHost))
        BY <3>1 DEF Switch
      <4>2. PICK S \in SUBSET Item, T \in SUBSET Item :
               Mirrored \subseteq S /\ Tells(Head(toHost), S, T)
        BY <2>1, <3>1, <4>1, NextTold
      <4> QED
        BY <3>1, <4>2 DEF Tells
    <3> QED
      BY <3>1, <3>2, AddFacts
  <2>2. CASE ~proxy
    BY <1>2, <1>6, <2>2 DEF HRegistered, Kept
  <2> QED
    BY <2>1, <2>2
<1>7. ASSUME NEW i \in Item, HUnregistered(i)
      PROVE  HostInv'
  <2>1. CASE proxy
    BY <1>7, <2>1, WithdrawFacts DEF HUnregistered
  <2>2. CASE ~proxy
    BY <1>2, <1>7, <2>2 DEF HUnregistered, Kept
  <2> QED
    BY <2>1, <2>2
<1>8. ASSUME NEW S \in SUBSET Item, HList(S)
      PROVE  HostInv'
  <2>1. Missing(S) \in SUBSET Item /\ Missing(S) \cap Mirrored = {}
        /\ AddItems(Missing(S))
    BY <1>8 DEF HList, Missing
  <2> QED
    BY <2>1, AddFacts
<1>9. CASE HGone
  BY <1>9, WithdrawFacts DEF HGone
<1>10. CASE HCome
  BY <1>2, <1>10 DEF HCome, Kept
<1>11. ASSUME NEW x \in Source, SChanged(x)
       PROVE  HostInv'
  <2>1. /\ UNCHANGED <<services, rows, connected, refreshing, again, shown,
                       asked>>
        /\ timer' \in [Source -> BOOLEAN]
        /\ toSource' \in [Source -> Seq(SourceMsg)]
    BY <1>1, <1>11 DEF SChanged, Rest, tableVars, HostTypes
  <2> QED
    BY <2>1, HostStays DEF HostTypes
<1>12. ASSUME NEW x \in Source, NEW q \in Seq(SourceMsg), CallGetAll(x, q)
       PROVE  asked' \in [Source -> BOOLEAN]
              /\ toSource' \in [Source -> Seq(SourceMsg)]
  <2>1. Append(q, [type |-> "Error"]) \in Seq(SourceMsg)
    BY <1>1
  <2>2. CASE On(x[1])
    BY <1>12, <2>2 DEF CallGetAll, HostTypes
  <2>3. CASE ~On(x[1])
    BY <1>12, <2>1, <2>3 DEF CallGetAll, HostTypes
  <2> QED
    BY <2>2, <2>3
<1>13. ASSUME NEW x \in Source, STimeout(x)
       PROVE  HostInv'
  <2>1. /\ UNCHANGED <<services, rows, connected, shown>>
        /\ timer' \in [Source -> BOOLEAN] /\ refreshing' \in [Source -> BOOLEAN]
        /\ again' \in [Source -> BOOLEAN]
    BY <1>13 DEF STimeout, Rest, tableVars, HostTypes
  <2>2. toSource[x] \in Seq(SourceMsg)
    BY DEF HostTypes
  <2>3. asked' \in [Source -> BOOLEAN]
        /\ toSource' \in [Source -> Seq(SourceMsg)]
    BY <1>12, <1>13, <2>2 DEF STimeout, HostTypes
  <2> QED
    BY <2>1, <2>3, HostStays DEF HostTypes
<1>14. ASSUME NEW x \in Source, SAnswered(x)
       PROVE  HostInv'
  <2>1. /\ toSource[x] \in Seq(SourceMsg) /\ toSource[x] # <<>>
        /\ Head(toSource[x]) \in SourceMsg
        /\ Tail(toSource[x]) \in Seq(SourceMsg)
    BY <1>1, <1>14 DEF SAnswered, HostTypes
  <2>2. \A m \in SourceMsg : m.type = "Answer" => m.version \in 0 .. MaxVersion
    BY DEF SourceMsg
  <2>3. /\ UNCHANGED <<services, rows, connected, timer>>
        /\ refreshing' \in [Source -> BOOLEAN] /\ again' \in [Source -> BOOLEAN]
    BY <1>14 DEF SAnswered, NoteAfter, Rest, tableVars, HostTypes
  <2>4. shown' \in [Source -> 0 .. MaxVersion]
    BY <1>14, <2>1, <2>2 DEF SAnswered, HostTypes
  <2>5. asked' \in [Source -> BOOLEAN]
        /\ toSource' \in [Source -> Seq(SourceMsg)]
    BY <1>12, <1>14, <2>1 DEF SAnswered, HostTypes
  <2> QED
    BY <2>3, <2>4, <2>5, HostStays DEF HostTypes
<1>15. CASE UNCHANGED vars
  BY <1>2, <1>15 DEF vars
<1>16. ASSUME NEW s \in Service, AppStart(s)
       PROVE  HostInv'
  BY <1>2, <1>16 DEF AppStart
<1>17. ASSUME NEW i \in Item, Call(i)
       PROVE  HostInv'
  BY <1>2, <1>17 DEF Call
<1>18. CASE WDie \/ WStart
  BY <1>2, <1>18 DEF WDie, WStart
<1>19. CASE WatcherStep
  BY <1>2, <1>19 DEF WatcherStep, WCheck, WAdd, WGet, WRegister, WLost, Working,
                     Served
<1> QED
  BY <1>3, <1>4, <1>5, <1>6, <1>7, <1>8, <1>9, <1>10, <1>11, <1>13,
     <1>14, <1>15, <1>16, <1>17, <1>18, <1>19
  DEF TrayStep, AppStep, AppRegister, AppRepeat, HostStep, SourceStep
-----------------------------------------------------------------------------
(* A host without a watcher's signals misses what the watcher does.        *)
LEMMA QueueSilent ==
  ASSUME QueueInv, ~proxy, UNCHANGED <<watcher, proxy, toHost, services>>,
         Has(toWatcher', "Get") <=> Has(toWatcher, "Get"), OneGet'
  PROVE  QueueInv'
<1>1. Turns'
  BY DEF QueueInv, Turns
<1>2. Linked'
  BY DEF QueueInv, Linked, Mirrored
<1>3. Calls'
  BY DEF QueueInv, Calls, Switch
<1>4. Followed'
  BY DEF Followed
<1> QED
  BY <1>1, <1>2, <1>3, <1>4 DEF QueueInv

(* Messages y tell, one by one, how a list S becomes T.                    *)
Told(y, S, T) ==
    \E p \in [0 .. Len(y) -> SUBSET Item] :
        /\ p[0] = S /\ p[Len(y)] = T
        /\ \A k \in 1 .. Len(y) : Tells(y[k], p[k - 1], p[k])

(* Signals tell, one by one, what becomes of the list.                     *)
LEMMA SignalsTold ==
  ASSUME NEW R \in SUBSET Item, NEW S \in SUBSET Item,
         NEW signal \in {"Registered", "Unregistered"},
         signal = "Registered" => S \cap R = {},
         signal = "Unregistered" => S \subseteq R
  PROVE  Told(Signals(signal, S), R,
              IF signal = "Registered" THEN R \cup S ELSE R \ S)
<1> DEFINE y == Signals(signal, S)
           l == Len(y)
           Said(k) == {y[j].item : j \in 1 .. k}
           p == [k \in 0 .. l |-> IF signal = "Registered" THEN R \cup Said(k)
                                                           ELSE R \ Said(k)]
<1>1. /\ y \in Seq(HostMsg)
      /\ \A k \in DOMAIN y : y[k].type = signal /\ y[k].item \in S
      /\ \A j, k \in DOMAIN y : y[j].item = y[k].item => j = k
      /\ \A i \in S : \E k \in DOMAIN y : y[k].item = i
  BY SignalFacts
<1> HIDE DEF y
<1>2. l \in Nat /\ DOMAIN y = 1 .. l
  BY <1>1
<1> HIDE DEF l
<1>3. Said(l) = S /\ Said(0) = {}
  BY <1>1, <1>2
<1>4. ASSUME NEW k \in 1 .. l
      PROVE  /\ Said(k) = Said(k - 1) \cup {y[k].item}
             /\ y[k].item \notin Said(k - 1)
  <2>1. 1 .. k = (1 .. k - 1) \cup {k}
    BY <1>2
  <2>2. \A j \in 1 .. k - 1 : y[j].item # y[k].item
    BY <1>1, <1>2
  <2> QED
    BY <2>1, <2>2
<1>5. \A k \in 0 .. l : Said(k) \subseteq S
  BY <1>1, <1>2
<1>6. p \in [0 .. l -> SUBSET Item]
  BY <1>5
<1>7. /\ 0 \in 0 .. l /\ l \in 0 .. l
      /\ \A k \in 1 .. l : k \in 0 .. l /\ k - 1 \in 0 .. l
  BY <1>2
<1>8. p[0] = R /\ p[l] = IF signal = "Registered" THEN R \cup S ELSE R \ S
  BY <1>3, <1>7
<1>9. ASSUME NEW k \in 1 .. l
      PROVE  Tells(y[k], p[k - 1], p[k])
  <2> DEFINE i == y[k].item
             A == Said(k - 1)
             B == Said(k)
  <2>1. B = A \cup {i} /\ i \notin A /\ i \in S /\ y[k].type = signal
    BY <1>1, <1>2, <1>4
  <2>2. /\ p[k - 1] = IF signal = "Registered" THEN R \cup A ELSE R \ A
        /\ p[k] = IF signal = "Registered" THEN R \cup B ELSE R \ B
    BY <1>7
  <2> HIDE DEF A, B, p
  <2>3. CASE signal = "Registered"
    BY <2>1, <2>2, <2>3 DEF Tells
  <2>4. CASE signal = "Unregistered"
    BY <2>1, <2>2, <2>4 DEF Tells
  <2> QED
    BY <2>3, <2>4
<1> HIDE DEF p
<1> QED
  BY <1>6, <1>8, <1>9 DEF y, l, Told

(* What the watcher emits tells what it changes,                           *)
LEMMA QueueEmitted ==
  ASSUME BusTypes, QueueInv, watcher, UNCHANGED <<watcher, proxy, services>>,
         Has(toWatcher', "Get") <=> Has(toWatcher, "Get"), OneGet',
         NEW S \in SUBSET Item, NEW signal \in {"Registered", "Unregistered"},
         Emit(signal, S),
         signal = "Registered" => S \cap registered = {}
                                  /\ registered' = registered \cup S,
         signal = "Unregistered" => S \subseteq registered
                                    /\ registered' = registered \ S
  PROVE  QueueInv'
<1> DEFINE y == Signals(signal, S)
<1>1. CASE ~proxy
  <2>1. UNCHANGED toHost
    BY <1>1 DEF Emit
  <2> QED
    BY <1>1, <2>1, QueueSilent
<1>2. CASE proxy
  <2>1. toHost' = toHost \o y
    BY <1>2, EmitFacts DEF BusTypes
  <2>2. /\ y \in Seq(HostMsg)
        /\ \A k \in DOMAIN y : y[k].type = signal
    BY SignalFacts
  <2>3. PICK R \in SUBSET Item : R = registered
    BY DEF BusTypes
  <2>4. /\ signal = "Registered" => S \cap R = {}
        /\ signal = "Unregistered" => S \subseteq R
    BY <2>3
  <2>5. Told(y, R, IF signal = "Registered" THEN R \cup S ELSE R \ S)
    BY <2>4, SignalsTold
  <2> HIDE DEF y
  <2>6. PICK p \in [0 .. Len(y) -> SUBSET Item] :
           /\ p[0] = R
           /\ p[Len(y)] = IF signal = "Registered" THEN R \cup S ELSE R \ S
           /\ \A k \in 1 .. Len(y) : Tells(y[k], p[k - 1], p[k])
    BY <2>5 DEF Told
  <2>7. registered' = p[Len(y)]
    BY <2>3, <2>6
  <2>8. ~Has(y, "List") /\ \A k \in DOMAIN y : ~Switch(y[k])
    BY <2>2 DEF Has, Switch
  <2> QED
    BY <1>2, <2>1, <2>2, <2>3, <2>6, <2>7, <2>8, QueueTold
<1> QED
  BY <1>1, <1>2

(* the list it answers is the one it has,                                  *)
LEMMA QueueListed ==
  ASSUME BusTypes, QueueInv, WGet
  PROVE  QueueInv'
<1> DEFINE m == [type |-> "List", items |-> registered]
<1>1. /\ toWatcher # <<>> /\ Head(toWatcher).type = "Get"
      /\ toWatcher' = Tail(toWatcher)
      /\ toHost' = Append(toHost, m) /\ watcher
      /\ UNCHANGED <<watcher, proxy, services, registered>>
  BY DEF WGet, Served, tableVars, watcherVars
<1>2. Has(toWatcher, "Get") /\ ~Has(toWatcher', "Get") /\ OneGet'
  BY <1>1, GetServed DEF QueueInv, Calls
<1>3. proxy /\ ~Has(toHost, "Come") /\ ~Has(toHost, "Gone")
  BY <1>2 DEF QueueInv, Calls
<1>4. PICK R \in SUBSET Item : R = registered
  BY DEF BusTypes
<1>5. PICK y \in Seq(HostMsg) : y = <<[type |-> "List", items |-> R]>>
  <2>1. [type |-> "List", items |-> R] \in HostMsg
    BY DEF HostMsg
  <2>2. \A h \in HostMsg : <<h>> \in Seq(HostMsg)
    OBVIOUS
  <2> QED
    BY <2>1, <2>2, Zenon
<1>6. /\ Len(y) = 1 /\ DOMAIN y = 1 .. 1 /\ y[1].type = "List"
      /\ y[1].items = R
  BY <1>5
<1>7. toHost' = toHost \o y
  BY <1>1, <1>4, <1>5 DEF BusTypes
<1>8. Has(y, "List") /\ \A k \in DOMAIN y : ~Switch(y[k])
  BY <1>6 DEF Has, Switch
<1>9. PICK p \in [0 .. 1 -> SUBSET Item] : p[0] = R /\ p[1] = R
  <2>1. [k \in 0 .. 1 |-> R] \in [0 .. 1 -> SUBSET Item]
    OBVIOUS
  <2>2. 0 \in 0 .. 1 /\ 1 \in 0 .. 1
    OBVIOUS
  <2> QED
    BY <2>1, <2>2
<1>10. \A k \in 1 .. Len(y) : Tells(y[k], p[k - 1], p[k])
  <2>1. Tells(y[1], p[1 - 1], p[1])
    BY <1>6, <1>9 DEF Tells
  <2>2. \A k \in 1 .. 1 : k = 1
    OBVIOUS
  <2> QED
    BY <1>6, <2>1, <2>2
<1>11. p \in [0 .. Len(y) -> SUBSET Item] /\ p[0] = registered
       /\ registered' = p[Len(y)]
  BY <1>1, <1>4, <1>6, <1>9
<1> QED
  BY <1>1, <1>2, <1>3, <1>7, <1>8, <1>10, <1>11, QueueTold

(* and every step keeps what the host is told in step with the list, as    *)
(* long as no watcher is overtaken.                                        *)
LEMMA QueueStepInv ==
  ASSUME BusTypes, Registry, HostInv, QueueInv, ~Overtaken, ~Overtaken',
         [TrayStep]_vars
  PROVE  QueueInv'
<1>1. OneGet /\ HostTypes /\ RowsRight
  BY DEF QueueInv, Calls, HostInv
<1>2. CASE UNCHANGED <<watcher, proxy, toHost, services, registered, toWatcher>>
  BY <1>1, <1>2, QueueAlone DEF OneGet
<1>3. CASE UNCHANGED vars
  BY <1>2, <1>3 DEF vars, watcherVars, tableVars
<1>4. ASSUME NEW s \in Service, AppStart(s)
      PROVE  QueueInv'
  BY <1>2, <1>4 DEF AppStart, watcherVars, tableVars
<1>5. ASSUME NEW s \in Service, AppQuit(s)
      PROVE  QueueInv'
  <2>1. UNCHANGED <<watcher, proxy, toHost, services, registered>>
    BY <1>5 DEF AppQuit, watcherVars, tableVars
  <2>2. CASE s \in watched
    <3>1. [type |-> "Lost", service |-> s] \in WatcherMsg
      BY DEF WatcherMsg
    <3>2. toWatcher' = Append(toWatcher, [type |-> "Lost", service |-> s])
      BY <1>5, <2>2 DEF AppQuit
    <3>3. (Has(toWatcher', "Get") <=> Has(toWatcher, "Get")) /\ OneGet'
      BY <1>1, <3>1, <3>2, GetSent
    <3> QED
      BY <2>1, <3>3, QueueAlone
  <2>3. CASE s \notin watched
    BY <1>2, <1>5, <2>1, <2>3 DEF AppQuit
  <2> QED
    BY <2>2, <2>3
<1>6. ASSUME NEW i \in Item, Call(i)
      PROVE  QueueInv'
  <2>1. UNCHANGED <<watcher, proxy, toHost, services, registered>>
        /\ toWatcher' = Append(toWatcher, [type |-> "Register", item |-> i])
    BY <1>6 DEF Call, watcherVars, tableVars
  <2>2. [type |-> "Register", item |-> i] \in WatcherMsg
    BY DEF WatcherMsg
  <2>3. (Has(toWatcher', "Get") <=> Has(toWatcher, "Get")) /\ OneGet'
    BY <1>1, <2>1, <2>2, GetSent
  <2> QED
    BY <2>1, <2>3, QueueAlone
<1>7. ASSUME NEW i \in Item, AppChange(i)
      PROVE  QueueInv'
  BY <1>2, <1>7 DEF AppChange, watcherVars, tableVars
<1>8. ASSUME NEW x \in Source, AppAnswer(x)
      PROVE  QueueInv'
  BY <1>2, <1>8 DEF AppAnswer, watcherVars, tableVars
<1>9. ASSUME NEW x \in Source, SourceStep(x)
      PROVE  QueueInv'
  BY <1>2, <1>9 DEF SourceStep, SChanged, STimeout, SAnswered, Rest,
                    watcherVars, tableVars
<1>10. CASE WDie
  <2>1. [type |-> "Gone"] \in HostMsg
    BY DEF HostMsg
  <2>2. /\ watcher /\ watcher' = ~watcher /\ toWatcher' = <<>>
        /\ toHost' = Append(toHost, [type |-> "Gone"])
        /\ UNCHANGED <<proxy, services>>
    BY <1>10 DEF WDie, tableVars
  <2> QED
    BY <2>1, <2>2, QueueTurned
<1>11. CASE WStart
  <2>1. [type |-> "Come"] \in HostMsg
    BY DEF HostMsg
  <2>2. /\ ~watcher /\ watcher' = ~watcher /\ toWatcher' = <<>>
        /\ toHost' = Append(toHost, [type |-> "Come"])
        /\ UNCHANGED <<proxy, services>>
    BY <1>11 DEF WStart, tableVars, Registry
  <2> QED
    BY <2>1, <2>2, QueueTurned
<1>12. CASE WCheck
  BY <1>2, <1>12 DEF WCheck, Working, tableVars
<1>13. CASE WAdd
  <2>1. /\ watcher /\ wpc = "add" /\ registered' = registered \cup {wItem}
        /\ Emit("Registered", {wItem})
        /\ UNCHANGED <<watcher, proxy, services, toWatcher>>
    BY <1>13 DEF WAdd, Working, tableVars
  <2>2. {wItem} \in SUBSET Item /\ {wItem} \cap registered = {}
    BY <2>1 DEF BusTypes, Registry
  <2>3. OneGet'
    BY <1>1, <2>1 DEF OneGet
  <2> QED
    BY <2>1, <2>2, <2>3, QueueEmitted
<1>14. CASE WGet
  BY <1>14, QueueListed
<1>15. ASSUME NEW i \in Item, WRegister(i)
       PROVE  QueueInv'
  <2>1. /\ UNCHANGED <<watcher, proxy, toHost, services, registered>>
        /\ toWatcher # <<>> /\ toWatcher' = Tail(toWatcher)
        /\ Head(toWatcher).type # "Get"
    BY <1>15 DEF WRegister, Served, watcherVars, tableVars
  <2>2. (Has(toWatcher', "Get") <=> Has(toWatcher, "Get")) /\ OneGet'
    BY <1>1, <2>1, GetServed
  <2> QED
    BY <2>1, <2>2, QueueAlone
<1>16. ASSUME NEW s \in Service, WLost(s)
       PROVE  QueueInv'
  <2>1. /\ watcher /\ UNCHANGED <<watcher, proxy, services>>
        /\ toWatcher # <<>> /\ toWatcher' = Tail(toWatcher)
        /\ Head(toWatcher).type # "Get"
        /\ registered' = registered \ Removed(s)
        /\ Emit("Unregistered", Removed(s))
    BY <1>16 DEF WLost, Served, tableVars
  <2>2. (Has(toWatcher', "Get") <=> Has(toWatcher, "Get")) /\ OneGet'
    BY <1>1, <2>1, GetServed
  <2>3. Removed(s) \in SUBSET Item /\ Removed(s) \subseteq registered
    BY DEF Removed, BusTypes
  <2> QED
    BY <2>1, <2>2, <2>3, QueueEmitted
<1>17. ASSUME NEW i \in Item, HRegistered(i)
       PROVE  QueueInv'
  <2>1. /\ toHost # <<>> /\ Head(toHost) = [type |-> "Registered", item |-> i]
        /\ toHost' = Tail(toHost)
        /\ UNCHANGED <<watcher, proxy, toWatcher, registered>>
        /\ proxy => AddItems({i})
        /\ ~proxy => UNCHANGED services
    BY <1>17 DEF HRegistered, Delivered, Kept, watcherVars, tableVars
  <2>2. ASSUME NEW S \in SUBSET Item, NEW T \in SUBSET Item, proxy,
               Mirrored \subseteq S, Tells(Head(toHost), S, T)
        PROVE  Mirrored' \subseteq T /\ (Mirrored = S => Mirrored' = T)
    <3>1. i \notin S /\ T = S \cup {i}
      BY <2>1, <2>2 DEF Tells
    <3>2. Mirrored' = Mirrored \cup {i}
      BY <1>1, <2>1, <2>2, <3>1, AddFacts
    <3> QED
      BY <2>2, <3>1, <3>2
  <2>3. ~Switch(Head(toHost)) /\ Head(toHost).type # "List"
    BY <2>1 DEF Switch
  <2> QED
    BY <2>1, <2>2, <2>3, QueueServed
<1>18. ASSUME NEW i \in Item, HUnregistered(i)
       PROVE  QueueInv'
  <2>1. /\ toHost # <<>>
        /\ Head(toHost) = [type |-> "Unregistered", item |-> i]
        /\ toHost' = Tail(toHost)
        /\ UNCHANGED <<watcher, proxy, toWatcher, registered>>
        /\ proxy => Withdraw({i} \cap Mirrored)
        /\ ~proxy => UNCHANGED services
    BY <1>18 DEF HUnregistered, Delivered, Kept, watcherVars, tableVars
  <2>2. ASSUME NEW S \in SUBSET Item, NEW T \in SUBSET Item, proxy,
               Mirrored \subseteq S, Tells(Head(toHost), S, T)
        PROVE  Mirrored' \subseteq T /\ (Mirrored = S => Mirrored' = T)
    <3>1. T = S \ {i}
      BY <2>1, <2>2 DEF Tells
    <3>2. Mirrored' = Mirrored \ ({i} \cap Mirrored)
      BY <1>1, <2>1, <2>2, WithdrawFacts
    <3> QED
      BY <2>2, <3>1, <3>2
  <2>3. ~Switch(Head(toHost)) /\ Head(toHost).type # "List"
    BY <2>1 DEF Switch
  <2> QED
    BY <2>1, <2>2, <2>3, QueueServed
<1>19. ASSUME NEW L \in SUBSET Item, HList(L)
       PROVE  QueueInv'
  <2>1. /\ toHost # <<>> /\ Head(toHost) = [type |-> "List", items |-> L]
        /\ toHost' = Tail(toHost)
        /\ UNCHANGED <<watcher, proxy, toWatcher, registered>>
        /\ AddItems(Missing(L))
    BY <1>19 DEF HList, Delivered, watcherVars
  <2>2. proxy
    <3>1. Has(toHost, "List")
      <4>1. toHost \in Seq(HostMsg)
        BY DEF BusTypes
      <4>2. 1 \in DOMAIN toHost /\ toHost[1].type = "List"
        BY <2>1, <4>1
      <4> QED
        BY <4>2 DEF Has
    <3> QED
      BY <3>1 DEF QueueInv, Linked
  <2>3. Mirrored' = Mirrored \cup L
    <3>1. Missing(L) \in SUBSET Item /\ Missing(L) \cap Mirrored = {}
      BY DEF Missing
    <3>2. Mirrored' = Mirrored \cup Missing(L)
      BY <1>1, <2>1, <3>1, AddFacts
    <3> QED
      BY <3>2 DEF Missing
  <2>4. ASSUME NEW S \in SUBSET Item, NEW T \in SUBSET Item,
               Mirrored \subseteq S, Tells(Head(toHost), S, T)
        PROVE  Mirrored' = T
    BY <2>1, <2>3, <2>4 DEF Tells
  <2>5. ~Switch(Head(toHost))
    BY <2>1 DEF Switch
  <2> QED
    BY <2>1, <2>2, <2>4, <2>5, QueueServed
<1>20. CASE HGone
  <2>1. /\ toHost # <<>> /\ Head(toHost).type = "Gone" /\ proxy' = FALSE
        /\ toHost' = Tail(toHost) /\ Withdraw(Mirrored)
        /\ UNCHANGED <<watcher, toWatcher, registered>>
    BY <1>20 DEF HGone, Delivered, watcherVars
  <2>2. Mirrored' = {}
    BY <1>1, <2>1, WithdrawFacts
  <2> QED
    BY <2>1, <2>2, QueueGone
<1>21. CASE HCome
  <2>1. /\ toHost # <<>> /\ Head(toHost).type = "Come"
        /\ UNCHANGED <<watcher, registered, services>>
    BY <1>21 DEF HCome, Delivered, Kept, watcherVars, tableVars
  <2>2. CASE watcher
    BY <1>21, <2>1, <2>2, QueueCome DEF HCome
  <2>3. CASE ~watcher
    BY <1>21, <2>1, <2>3, QueueComeLate DEF HCome
  <2> QED
    BY <2>2, <2>3
<1> QED
  BY <1>3, <1>4, <1>5, <1>6, <1>7, <1>8, <1>9, <1>10, <1>11, <1>12,
     <1>13, <1>14, <1>15, <1>16, <1>17, <1>18, <1>19, <1>20, <1>21
  DEF TrayStep, AppStep, AppRegister, AppRepeat, WatcherStep, HostStep
-----------------------------------------------------------------------------
(* The invariant holds until a watcher is overtaken by a later one while   *)
(* the host waits for its list: overtaken says whether one has been.       *)
LEMMA TrayInvHolds == Spec => [](~overtaken => TrayInv)
<1> DEFINE Sofar == ~overtaken => TrayInv /\ ~Overtaken
<1>1. Init => Sofar
  BY InitTrayInv DEF Init, Overtaken, Has
<1>2. Sofar /\ [Next]_trayVars => Sofar'
  <2> SUFFICES ASSUME Sofar, [Next]_trayVars, ~overtaken'
               PROVE  TrayInv' /\ ~Overtaken'
    OBVIOUS
  <2>1. ASSUME Next
        PROVE  TrayStep /\ ~overtaken /\ ~Overtaken'
    BY <2>1, Zenon DEF Next
  <2>2. ASSUME UNCHANGED trayVars
        PROVE  UNCHANGED vars /\ ~overtaken /\ ~Overtaken'
    <3>1. UNCHANGED vars /\ ~overtaken
      BY <2>2 DEF trayVars
    <3>2. UNCHANGED <<toWatcher, toHost>>
      BY <3>1 DEF vars
    <3> QED
      BY <3>1, <3>2 DEF Overtaken, Has
  <2>3. [TrayStep]_vars /\ ~overtaken /\ ~Overtaken'
    BY <2>1, <2>2
  <2> QED
    BY <2>3, StepBusTypes, StepRegistry, HostStepInv, QueueStepInv DEF TrayInv
<1> QED
  BY <1>1, <1>2, PTL DEF Spec

(* Every variable has its type until then; that an item always finds a     *)
(* source that no row holds needs the rest of the invariant.               *)
THEOREM TypesHold == Spec => [](~overtaken => TypeOK)
<1>1. TrayInv /\ overtaken \in BOOLEAN => TypeOK
  BY DEF TrayInv, BusTypes, HostInv, HostTypes, TypeOK
<1>2. Spec => [](overtaken \in BOOLEAN)
  <2>1. Init => overtaken \in BOOLEAN
    BY DEF Init
  <2>2. overtaken \in BOOLEAN /\ [Next]_trayVars => (overtaken \in BOOLEAN)'
    BY DEF Next, trayVars, Overtaken
  <2> QED
    BY <2>1, <2>2, PTL DEF Spec
<1> QED
  BY <1>1, <1>2, TrayInvHolds, PTL

(* The view shows every item that the host knows once and has no row of a  *)
(* source that was deleted, whatever order the signals of the watcher and  *)
(* the answer to the call for its list arrive in: registerWatcher()        *)
(* connects before it asks, and the answer adds only what is missing.      *)
THEOREM RowsMatchHolds == Spec => []RowsMatch
<1>1. (~overtaken => TrayInv) => RowsMatch
  BY DEF TrayInv, HostInv, RowsMatch
<1> QED
  BY <1>1, TrayInvHolds, PTL

(* When everything sent has been served, the host has the items that the   *)
(* watcher has, through watchers that go and others that come.             *)
THEOREM AgreementHolds == Spec => []Agreement
<1>1. ASSUME TrayInv, toWatcher = <<>>, toHost = <<>>
      PROVE  Mirrored = registered
  <2>1. \A t : ~Has(toHost, t) /\ ~Has(toWatcher, t)
    BY <1>1 DEF Has
  <2>2. proxy = watcher
    BY <1>1, <2>1 DEF TrayInv, QueueInv, Linked
  <2>3. CASE proxy
    <3>1. PICK r : Account(r)
      BY <1>1, <2>3 DEF TrayInv, QueueInv, Followed
    <3>2. Len(toHost) = 0
      BY <1>1
    <3> QED
      BY <1>1, <2>1, <3>1, <3>2 DEF Account
  <2>4. CASE ~proxy
    BY <1>1, <2>2, <2>4 DEF TrayInv, Registry, QueueInv, Linked
  <2> QED
    BY <2>3, <2>4
<1>2. WatcherRight /\ (~overtaken => TrayInv) => Agreement
  BY <1>1 DEF Agreement
<1> QED
  BY <1>2, WatcherRightHolds, TrayInvHolds, PTL
================================================================================
