-------------------------- MODULE FlexServerProofs --------------------------
(***************************************************************************)
(* Theorems about the server, for any number of clients, forwarders and    *)
(* datagrams, whichever operations fail.                                   *)
(***************************************************************************)
EXTENDS FlexServer, ForwarderProofs

(***************************************************************************)
(* The inductive invariant.                                                *)
(***************************************************************************)
(* A forwarder that one of its coroutines owns. *)
Owned(f) == Connecting(f) \/ (Engaged(f) /\ f.start = "done" /\ f.idle # "off")

FwdInv ==
  /\ fwd \in [Ids -> Fwd]
  /\ made \in 0 .. MaxFwds
  /\ \A i \in Ids : Vacant(fwd[i]) \/ Owned(fwd[i])
  /\ \A i \in Ids : i > made => Vacant(fwd[i])

MapInv ==
  /\ forwarderMap \in [Addrs -> Ids \cup {None}]
  /\ addr \in [Ids -> Addrs \cup {None}]
  /\ \A i \in Ids : fwd[i].mem = "live" => addr[i] \in Addrs
  /\ \A a \in Addrs, i \in Ids :
       forwarderMap[a] = i <=> fwd[i].mem = "live" /\ addr[i] = a

IInv ==
  /\ FwdInv /\ MapInv
  /\ accepting \in BOOLEAN /\ queued \in [Addrs -> Nat] /\ data \in 0 .. MaxData
  /\ failed \in {"no", "running", "release", "receive"}

-----------------------------------------------------------------------------
LEMMA OwnedLive ==
  ASSUME NEW f, Owned(f)
  PROVE  f \in Fwd /\ f.mem = "live" /\ f.kcp /\ ~Vacant(f)
BY DEF Owned, Connecting, Engaged, Vacant

(* Forwarder i, whose entry in map is that of a if it has one, has become  *)
(* f, and everything else is as the invariant says: then the deleter       *)
(* erases the right entry.                                                 *)
LEMMA BecomesStep ==
  ASSUME IInv, failed = "no", NEW i \in Ids, NEW a \in Addrs,
         NEW map \in [Addrs -> Ids \cup {None}], NEW f \in Fwd, Becomes(i, a, map, f),
         Unowned(f) \/ (Owned(f) /\ map[a] = i), map[a] \in {None, i},
         \A b \in Addrs : b # a => map[b] # i /\ map[b] = forwarderMap[b],
         \A j \in Ids : j # i /\ fwd[j].mem = "live" => addr[j] # a,
         addr' \in [Ids -> Addrs \cup {None}], addr'[i] = a,
         \A j \in Ids : j # i => addr'[j] = addr[j],
         made' \in {made, made + 1}, made' \in 0 .. MaxFwds, i <= made',
         accepting' \in BOOLEAN, queued' \in [Addrs -> Nat], data' \in 0 .. MaxData
  PROVE  IInv'
<1>1. /\ fwd \in [Ids -> Fwd] /\ made \in Nat /\ None \notin Ids /\ Ids \subseteq Nat
      /\ \A j \in Ids : Vacant(fwd[j]) \/ Owned(fwd[j])
      /\ \A j \in Ids : j > made => Vacant(fwd[j])
  BY ServerAssumption DEF IInv, FwdInv, Ids
<1>2. \A j \in Ids : fwd[j].mem = "live" => addr[j] \in Addrs
  BY DEF IInv, MapInv
<1>3. \A b \in Addrs, j \in Ids :
        forwarderMap[b] = j <=> fwd[j].mem = "live" /\ addr[j] = b
  BY DEF IInv, MapInv
<1>4. ASSUME NEW b \in Addrs, NEW j \in Ids, j # i
      PROVE  map[b] = j <=> fwd[j].mem = "live" /\ addr[j] = b
  <2>1. CASE b = a
    BY <1>1, <1>4, <2>1
  <2>2. CASE b # a
    BY <1>3, <2>2
  <2> QED BY <2>1, <2>2
<1>5. CASE Unowned(f)
  <2>1. /\ fwd' = [fwd EXCEPT ![i] = Destruct(f)]
        /\ forwarderMap' = [map EXCEPT ![a] = None]
        /\ failed' = DestructorFails(f)
    BY <1>5 DEF Becomes, Erased
  <2>2. Vacant(Destruct(f)) /\ Destruct(f).mem = "freed"
    BY DestructVacant
  <2>3. Destruct(f) \in Fwd
    BY <2>2 DEF Vacant
  <2>4. fwd' \in [Ids -> Fwd] /\ fwd'[i] = Destruct(f) /\ \A j \in Ids : j # i => fwd'[j] = fwd[j]
    BY <1>1, <2>1, <2>3
  <2>5. FwdInv'
    <3>1. ASSUME NEW j \in Ids
          PROVE  (Vacant(fwd'[j]) \/ Owned(fwd'[j])) /\ (j > made' => Vacant(fwd'[j]))
      <4>1. CASE j = i
        BY <2>2, <2>4, <4>1
      <4>2. CASE j # i
        BY <1>1, <2>4, <4>2
      <4> QED BY <4>1, <4>2
    <3> QED BY <2>4, <3>1 DEF FwdInv
  <2>6. forwarderMap' \in [Addrs -> Ids \cup {None}] /\ forwarderMap'[a] = None
          /\ \A b \in Addrs : b # a => forwarderMap'[b] = map[b]
    BY <2>1
  <2>7. ASSUME NEW b \in Addrs, NEW j \in Ids
        PROVE  forwarderMap'[b] = j <=> fwd'[j].mem = "live" /\ addr'[j] = b
    <3>1. CASE j = i
      <4>1. fwd'[j].mem # "live"
        BY <2>2, <2>4, <3>1
      <4>2. forwarderMap'[b] # j
        BY <1>1, <2>6, <3>1
      <4> QED BY <4>1, <4>2
    <3>2. CASE j # i /\ b = a
      BY <1>1, <2>4, <2>6, <3>2
    <3>3. CASE j # i /\ b # a
      BY <1>4, <2>4, <2>6, <3>3
    <3> QED BY <3>1, <3>2, <3>3
  <2>8. \A j \in Ids : fwd'[j].mem = "live" => addr'[j] \in Addrs
    BY <1>2, <2>2, <2>4
  <2>9. failed' \in {"no", "running", "release", "receive"}
    BY <2>1, DestructorOutcome
  <2> QED BY <2>5, <2>6, <2>7, <2>8, <2>9 DEF IInv, MapInv
<1>6. CASE ~Unowned(f)
  <2>1. /\ fwd' = [fwd EXCEPT ![i] = f] /\ forwarderMap' = map /\ failed' = failed
        /\ Owned(f) /\ map[a] = i
    BY <1>6 DEF Becomes
  <2>2. fwd' \in [Ids -> Fwd] /\ fwd'[i] = f /\ \A j \in Ids : j # i => fwd'[j] = fwd[j]
    BY <1>1, <2>1
  <2>3. f.mem = "live"
    BY <2>1, OwnedLive
  <2>4. FwdInv'
    <3>1. ASSUME NEW j \in Ids
          PROVE  (Vacant(fwd'[j]) \/ Owned(fwd'[j])) /\ (j > made' => Vacant(fwd'[j]))
      <4>1. CASE j = i
        BY <1>1, <2>1, <2>2, <4>1
      <4>2. CASE j # i
        BY <1>1, <2>2, <4>2
      <4> QED BY <4>1, <4>2
    <3> QED BY <2>2, <3>1 DEF FwdInv
  <2>5. ASSUME NEW b \in Addrs, NEW j \in Ids
        PROVE  forwarderMap'[b] = j <=> fwd'[j].mem = "live" /\ addr'[j] = b
    <3>1. CASE j = i
      BY <2>1, <2>2, <2>3, <3>1
    <3>2. CASE j # i
      BY <1>4, <2>1, <2>2, <3>2
    <3> QED BY <3>1, <3>2
  <2>6. \A j \in Ids : fwd'[j].mem = "live" => addr'[j] \in Addrs
    BY <1>2, <2>2
  <2> QED BY <2>1, <2>4, <2>5, <2>6 DEF IInv, MapInv
<1> QED BY <1>5, <1>6

(* A step of a coroutine of forwarder i. *)
LEMMA ResumeStep ==
  ASSUME IInv, failed = "no", NEW i \in Ids, fwd[i].mem = "live", NEW f \in Fwd,
         Unowned(f) \/ Owned(f), Resume(i, f), data' \in 0 .. MaxData
  PROVE  IInv'
<1> DEFINE a == addr[i]
<1>1. a \in Addrs /\ forwarderMap[a] = i /\ forwarderMap \in [Addrs -> Ids \cup {None}]
  BY DEF IInv, MapInv
<1>2. \A b \in Addrs : b # a => forwarderMap[b] # i
  BY DEF IInv, MapInv
<1>3. \A j \in Ids : j # i /\ fwd[j].mem = "live" => addr[j] # a
  BY <1>1 DEF IInv, MapInv
<1>4. i <= made
  <2>1. ~Vacant(fwd[i]) /\ i \in Nat /\ made \in Nat
    BY ServerAssumption DEF Vacant, IInv, FwdInv, Ids
  <2> QED BY <2>1 DEF IInv, FwdInv
<1>5. /\ Becomes(i, a, forwarderMap, f)
      /\ accepting' = accepting /\ queued' = queued /\ addr' = addr /\ made' = made
  BY DEF Resume
<1>6. /\ addr' \in [Ids -> Addrs \cup {None}] /\ addr'[i] = a
      /\ made' \in {made, made + 1} /\ made' \in 0 .. MaxFwds /\ accepting' \in BOOLEAN
      /\ queued' \in [Addrs -> Nat]
  BY <1>5 DEF IInv, MapInv, FwdInv
<1> HIDE DEF a
<1> QED BY <1>1, <1>2, <1>3, <1>4, <1>5, <1>6, BecomesStep

(* A datagram arrives on the service socket. *)
LEMMA ToServiceStep ==
  ASSUME IInv, NEW a \in Addrs, ToService(a)
  PROVE  IInv'
<1>1. data' \in 0 .. MaxData /\ queued' \in [Addrs -> Nat]
  BY ServerAssumption DEF IInv, ToService
<1> QED BY <1>1 DEF ToService, IInv, FwdInv, MapInv

(* The accept coroutine takes a datagram from the queue. *)
LEMMA ReceiveFromStep ==
  ASSUME IInv, NEW a \in Addrs, ReceiveFrom(a)
  PROVE  queued' \in [Addrs -> Nat] /\ data' \in 0 .. MaxData
BY DEF IInv, ReceiveFrom

(* The accept coroutine, a datagram of an unknown address. *)
LEMMA AcceptNewStep ==
  ASSUME IInv, failed = "no", NEW a \in Addrs, NEW junk \in Flags, NEW starts \in BOOLEAN,
         NEW opens \in BOOLEAN, AcceptNew(a, junk, starts, opens)
  PROVE  IInv'
<1> DEFINE i == made + 1
           f == IF starts THEN OnUdpData(Start(Construct(junk), opens)) ELSE Construct(junk)
           map == IF starts THEN [forwarderMap EXCEPT ![a] = i] ELSE forwarderMap
<1>1. /\ made \in Nat /\ made < MaxFwds /\ MaxFwds \in Nat /\ None \notin Ids
      /\ queued' \in [Addrs -> Nat] /\ data' \in 0 .. MaxData
      /\ forwarderMap \in [Addrs -> Ids \cup {None}] /\ forwarderMap[a] = None
      /\ addr \in [Ids -> Addrs \cup {None}]
  BY ServerAssumption, ReceiveFromStep DEF IInv, FwdInv, MapInv, AcceptNew, Absent
<1>2. i \in Ids /\ i > made /\ i \in 0 .. MaxFwds
  BY <1>1 DEF Ids
<1>3. /\ made' = i /\ addr' = [addr EXCEPT ![i] = a]
      /\ accepting' = starts
  BY DEF AcceptNew
<1>4. Becomes(i, a, map, f)
  BY <1>1 DEF AcceptNew
<1>5. f \in Fwd /\ (Unowned(f) \/ (Owned(f) /\ starts))
  <2>1. CASE starts
    BY <2>1, StartEffect DEF Owned
  <2>2. CASE ~starts
    BY <2>2, ConstructType
  <2> QED BY <2>1, <2>2
<1>6. fwd[i].mem # "live"
  BY <1>2 DEF IInv, FwdInv, Vacant
<1>7. \A b \in Addrs : forwarderMap[b] # i
  BY <1>2, <1>6 DEF IInv, MapInv
<1>8. \A j \in Ids : j # i /\ fwd[j].mem = "live" => addr[j] # a
  BY <1>1 DEF IInv, MapInv
<1> HIDE DEF f, i
<1>9. /\ map \in [Addrs -> Ids \cup {None}] /\ map[a] \in {None, i}
      /\ starts => map[a] = i
      /\ \A b \in Addrs : b # a => map[b] # i /\ map[b] = forwarderMap[b]
  BY <1>1, <1>2, <1>7
<1>10. /\ addr' \in [Ids -> Addrs \cup {None}] /\ addr'[i] = a
       /\ \A j \in Ids : j # i => addr'[j] = addr[j]
  BY <1>1, <1>2, <1>3
<1>11. made' \in {made, made + 1} /\ made' \in 0 .. MaxFwds /\ i <= made'
         /\ accepting' \in BOOLEAN
  BY <1>1, <1>2, <1>3 DEF i
<1> HIDE DEF map
<1> QED BY <1>1, <1>2, <1>4, <1>5, <1>8, <1>9, <1>10, <1>11, BecomesStep

(* A datagram of a known address: its forwarder exists. *)
LEMMA AcceptKnownStep ==
  ASSUME IInv, failed = "no", NEW a \in Addrs, AcceptKnown(a)
  PROVE  IInv'
<1> DEFINE i == forwarderMap[a]
<1>1. i \in Ids /\ fwd[i].mem = "live"
  BY DEF IInv, MapInv, AcceptKnown, Absent
<1>2. /\ fwd \in [Ids -> Fwd] /\ \A j \in Ids : Vacant(fwd[j]) \/ Owned(fwd[j])
      /\ \A j \in Ids : j > made => Vacant(fwd[j])
      /\ queued' \in [Addrs -> Nat] /\ data' \in 0 .. MaxData
  BY ReceiveFromStep DEF IInv, FwdInv, AcceptKnown
<1>3. /\ failed' = "no" /\ fwd' = [fwd EXCEPT ![i] = OnUdpData(fwd[i])]
      /\ UNCHANGED <<accepting, forwarderMap, addr, made>>
  BY <1>1 DEF AcceptKnown
<1> HIDE DEF i
<1>4. ~Vacant(fwd[i]) /\ Owned(fwd[i])
  BY <1>1, <1>2 DEF Vacant
<1>5. Owned(OnUdpData(fwd[i]))
  BY <1>4, OnUdpDataEffect DEF Owned, Goes
<1>6. OnUdpData(fwd[i]) \in Fwd /\ OnUdpData(fwd[i]).mem = "live"
  BY <1>5, OwnedLive
<1>7. /\ fwd' \in [Ids -> Fwd] /\ fwd'[i] = OnUdpData(fwd[i])
      /\ \A j \in Ids : j # i => fwd'[j] = fwd[j]
  BY <1>1, <1>2, <1>3, <1>6
<1>8. \A j \in Ids : fwd'[j].mem = "live" <=> fwd[j].mem = "live"
  BY <1>1, <1>6, <1>7
<1>9. FwdInv'
  <2>1. ASSUME NEW j \in Ids
        PROVE  (Vacant(fwd'[j]) \/ Owned(fwd'[j])) /\ (j > made' => Vacant(fwd'[j]))
    BY <1>2, <1>3, <1>4, <1>5, <1>7
  <2> QED BY <1>3, <1>7, <2>1 DEF FwdInv, IInv
<1>10. MapInv'
  BY <1>3, <1>8 DEF MapInv, IInv
<1> QED BY <1>2, <1>3, <1>9, <1>10 DEF IInv

(* The coroutines of forwarder i. *)
LEMMA CoroutineStep ==
  ASSUME IInv, failed = "no", NEW i \in Ids,
         \/ \E ok \in BOOLEAN, more \in BOOLEAN : Connect(i, ok, more)
         \/ \E res \in Results, more \in BOOLEAN : Write(i, res, more)
         \/ \E more \in BOOLEAN : UpdateTimer(i, more)
         \/ \E res \in Results : TcpReceive(i, res) \/ UdpReceive(i, res)
         \/ RetryTimer(i)
         \/ IdleTimer(i)
  PROVE  IInv'
<1> DEFINE f == fwd[i]
<1>1. Vacant(f) \/ Connecting(f) \/ (Engaged(f) /\ f.start = "done" /\ f.idle # "off")
  BY DEF IInv, FwdInv, Owned
<1>2. data \in 0 .. MaxData /\ MaxData \in Nat
  BY ServerAssumption DEF IInv
<1>3. ASSUME NEW g \in Fwd, Resume(i, g), data' \in 0 .. MaxData,
             Connecting(f) \/ Engaged(f), Unowned(g) \/ Owned(g)
      PROVE  IInv'
  BY <1>3, ResumeStep DEF Connecting, Engaged
<1>4. ASSUME NEW g, Goes(f, g), Engaged(f), f.start = "done" /\ f.idle # "off"
      PROVE  g \in Fwd /\ (Unowned(g) \/ Owned(g))
  BY <1>4 DEF Goes, Owned, Engaged
<1>5. ASSUME NEW ok \in BOOLEAN, NEW more \in BOOLEAN, Connect(i, ok, more) PROVE IInv'
  <2>1. Connecting(f)
    BY <1>1, <1>5 DEF Connect, Vacant
  <2>2. Connected(f, ok, more) \in Fwd /\ (Unowned(Connected(f, ok, more)) \/ Owned(Connected(f, ok, more)))
    <3> HIDE DEF f
    <3> QED BY <2>1, ConnectedEffect DEF Owned
  <2> QED BY <1>2, <1>3, <1>5, <2>1, <2>2 DEF Connect
<1>6. ASSUME NEW res \in Results, NEW more \in BOOLEAN, Write(i, res, more) PROVE IInv'
  <2>1. Engaged(f) /\ f.start = "done" /\ f.idle # "off" /\ f.upd \in {"write", "bad"}
    BY <1>1, <1>6 DEF Write, Vacant, Connecting
  <2>2. Goes(f, Wrote(f, res, more))
    BY <2>1, WroteEffect
  <2> QED BY <1>2, <1>3, <1>4, <1>6, <2>1, <2>2 DEF Write
<1>7. ASSUME NEW more \in BOOLEAN, UpdateTimer(i, more) PROVE IInv'
  <2>1. Engaged(f) /\ f.start = "done" /\ f.idle # "off" /\ f.upd = "timer"
    BY <1>1, <1>7 DEF UpdateTimer, Vacant, Connecting
  <2>2. Goes(f, Updated(f, more))
    BY <2>1, UpdatedEffect
  <2> QED BY <1>2, <1>3, <1>4, <1>7, <2>1, <2>2 DEF UpdateTimer
<1>8. ASSUME NEW res \in Results, TcpReceive(i, res) PROVE IInv'
  <2>1. Engaged(f) /\ f.start = "done" /\ f.idle # "off" /\ f.recv = "read"
    BY <1>1, <1>8 DEF TcpReceive, Vacant, Connecting
  <2>2. Goes(f, TcpReceived(f, res))
    BY <2>1, TcpReceivedEffect
  <2> QED BY <1>2, <1>3, <1>4, <1>8, <2>1, <2>2 DEF TcpReceive
<1>9. ASSUME NEW res \in Results, UdpReceive(i, res) PROVE IInv'
  <2>1. Engaged(f) /\ f.start = "done" /\ f.idle # "off" /\ f.feed = "read"
    BY <1>1, <1>9 DEF UdpReceive, Vacant, Connecting
  <2>2. Goes(f, UdpReceived(f, res))
    BY <2>1, UdpReceivedEffect
  <2>3. data' \in 0 .. MaxData
    BY <1>2, <1>9 DEF UdpReceive
  <2> QED BY <1>3, <1>4, <1>9, <2>1, <2>2, <2>3 DEF UdpReceive
<1>10. ASSUME RetryTimer(i) PROVE IInv'
  <2>1. Engaged(f) /\ f.start = "done" /\ f.idle # "off" /\ f.upd = "retry"
    BY <1>1, <1>10 DEF RetryTimer, Vacant, Connecting
  <2>2. Goes(f, Retry(f))
    BY <2>1, RetryEffect
  <2> QED BY <1>2, <1>3, <1>4, <1>10, <2>1, <2>2 DEF RetryTimer
<1>11. ASSUME IdleTimer(i) PROVE IInv'
  <2>1. Engaged(f) /\ f.start = "done" /\ f.idle = "timer"
    BY <1>1, <1>11 DEF IdleTimer, Vacant, Connecting
  <2>2. Goes(f, Inactive(f))
    BY <2>1, InactiveEffect
  <2> QED BY <1>2, <1>3, <1>4, <1>11, <2>1, <2>2 DEF IdleTimer
<1> QED BY <1>5, <1>6, <1>7, <1>8, <1>9, <1>10, <1>11

-----------------------------------------------------------------------------
(* The invariant is inductive. *)
LEMMA InitInv ==
  ASSUME Init
  PROVE  IInv
<1>1. Vacant(NoFwd) /\ NoFwd \in Fwd
  BY NoFwdVacant DEF Vacant
<1>2. MaxFwds \in Nat /\ MaxData \in Nat /\ None \notin Ids
  BY ServerAssumption
<1>3. FwdInv
  BY <1>1, <1>2 DEF Init, FwdInv
<1>4. MapInv
  <2>1. \A i \in Ids : fwd[i].mem # "live"
    BY <1>1 DEF Init, Vacant
  <2> QED BY <1>2, <2>1 DEF Init, MapInv
<1> QED BY <1>2, <1>3, <1>4 DEF Init, IInv

LEMMA NextInv ==
  ASSUME IInv, [Next]_vars
  PROVE  IInv'
<1>1. CASE UNCHANGED vars
  BY <1>1 DEF vars, IInv, FwdInv, MapInv
<1>2. CASE Next
  <2>1. failed = "no"
    BY <1>2 DEF Next
  <2>2. /\ {TRUE, ~StartFails} \subseteq BOOLEAN /\ {TRUE, ~OpenFails} \subseteq BOOLEAN
        /\ {TRUE, ~ConnectFails} \subseteq BOOLEAN
    BY ServerAssumption
  <2>3. CASE Accept
    <3>1. ASSUME NEW a \in Addrs, NEW junk \in Flags, NEW starts \in BOOLEAN,
                 NEW opens \in BOOLEAN, AcceptNew(a, junk, starts, opens)
          PROVE  IInv'
      BY <2>1, <3>1, AcceptNewStep
    <3>2. ASSUME NEW a \in Addrs, AcceptKnown(a) PROVE IInv'
      BY <2>1, <3>2, AcceptKnownStep
    <3>3. ASSUME ReceiveError PROVE IInv'
      BY <3>3 DEF ReceiveError, IInv, FwdInv, MapInv
    <3>4. ASSUME NEW a \in Addrs, ToService(a) PROVE IInv'
      BY <3>4, ToServiceStep
    <3> QED BY <2>2, <2>3, <3>1, <3>2, <3>3, <3>4 DEF Accept
  <2>4. ASSUME NEW i \in Ids,
               \/ \E ok \in BOOLEAN, more \in BOOLEAN : Connect(i, ok, more)
               \/ \E res \in Results, more \in BOOLEAN : Write(i, res, more)
               \/ \E more \in BOOLEAN : UpdateTimer(i, more)
               \/ \E res \in Results : TcpReceive(i, res) \/ UdpReceive(i, res)
               \/ RetryTimer(i)
               \/ IdleTimer(i)
        PROVE  IInv'
    BY <2>1, <2>4, CoroutineStep
  <2> QED BY <1>2, <2>2, <2>3, <2>4 DEF Next
<1> QED BY <1>1, <1>2

LEMMA Invariant == Spec => []IInv
BY InitInv, NextInv, PTL DEF Spec

-----------------------------------------------------------------------------
(* The server's state is well formed: the map holds no null weak_ptr       *)
(* (TypeOK, of FlexServer.cpp and Forwarder.cpp).                          *)
THEOREM TypeCorrect == Spec => []TypeOK
<1>1. IInv => TypeOK
  BY DEF IInv, FwdInv, MapInv, TypeOK
<1> QED BY <1>1, Invariant, PTL

(* forwarderMap_ holds the existing forwarders and no others, each under   *)
(* the address it was made for: the deleter of the shared_ptr and the      *)
(* accept coroutine agree, however the coroutines of all forwarders        *)
(* interleave.                                                             *)
THEOREM MapIsExact == Spec => []MapExact
<1>1. IInv => MapExact
  BY DEF IInv, MapInv, MapExact
<1> QED BY <1>1, Invariant, PTL

(* The assertions of the accept coroutine on the insertion and on the      *)
(* weak_ptr never fail.                                                    *)
THEOREM MapAssertsHold == Spec => []MapAsserts
<1>1. IInv => MapAsserts
  BY DEF IInv, MapAsserts
<1> QED BY <1>1, Invariant, PTL

(* isRunning_ tells the state of both sockets of a connected forwarder,    *)
(* whichever of the coroutines called Stop.                                *)
THEOREM RunningTellsSockets == Spec => []RunningIsOpen
<1>1. IInv => RunningIsOpen
  <2> SUFFICES ASSUME IInv, NEW i \in Ids, fwd[i].idle # "off", fwd[i].mem = "live"
               PROVE  /\ fwd[i].udp = fwd[i].flags.running
                      /\ fwd[i].tcp = fwd[i].flags.running
    BY DEF RunningIsOpen
  <2>1. Engaged(fwd[i])
    BY DEF IInv, FwdInv, Vacant, Owned, Connecting
  <2> QED BY <2>1 DEF Engaged
<1> QED BY <1>1, Invariant, PTL

(* No coroutine and no datagram finds a forwarder without a control block. *)
THEOREM KcpIsReady == Spec => []KcpReady
<1>1. IInv => KcpReady
  <2> SUFFICES ASSUME IInv, NEW i \in Ids
               PROVE  /\ fwd[i].recv = "read" \/ fwd[i].feed = "read" \/ fwd[i].upd # "off"
                           => fwd[i].kcp
                      /\ \A a \in Addrs : forwarderMap[a] = i => fwd[i].kcp
    BY DEF KcpReady
  <2>1. Vacant(fwd[i]) \/ Owned(fwd[i])
    BY DEF IInv, FwdInv
  <2>2. CASE Vacant(fwd[i])
    BY <2>2 DEF Vacant, IInv, MapInv
  <2>3. CASE Owned(fwd[i])
    BY <2>3, OwnedLive
  <2> QED BY <2>1, <2>2, <2>3
<1> QED BY <1>1, Invariant, PTL
=============================================================================
