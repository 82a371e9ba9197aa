-------------------------- MODULE FlexClientProofs --------------------------
(***************************************************************************)
(* Theorems about the client, for any number of connections, whichever     *)
(* operations fail.                                                        *)
(***************************************************************************)
EXTENDS FlexClient, ForwarderProofs

(***************************************************************************)
(* The inductive invariant: a forwarder of the client lives exactly as     *)
(* long as its three coroutines.                                           *)
(***************************************************************************)
Owned(f) == Engaged(f) /\ f.start = "off" /\ f.idle = "off"

IInv ==
  /\ fwd \in [Ids -> Fwd]
  /\ made \in 0 .. MaxFwds /\ started \subseteq Ids
  /\ \A i \in Ids : Vacant(fwd[i]) \/ Owned(fwd[i])
  /\ \A i \in Ids : i > made => Vacant(fwd[i])

-----------------------------------------------------------------------------
LEMMA BecomesStep ==
  ASSUME IInv, NEW i \in Ids, NEW f \in Fwd, Becomes(i, f), Unowned(f) \/ Owned(f),
         made' \in {made, made + 1}, made' \in 0 .. MaxFwds, i <= made',
         started' \subseteq Ids
  PROVE  IInv'
<1>1. /\ fwd \in [Ids -> Fwd] /\ made \in Nat /\ Ids \subseteq Nat
      /\ \A j \in Ids : Vacant(fwd[j]) \/ Owned(fwd[j])
      /\ \A j \in Ids : j > made => Vacant(fwd[j])
  BY ClientAssumption DEF IInv, Ids
<1>2. ASSUME NEW g \in Fwd, fwd' = [fwd EXCEPT ![i] = g], Vacant(g) \/ Owned(g)
      PROVE  IInv'
  <2>1. /\ fwd' \in [Ids -> Fwd] /\ fwd'[i] = g
        /\ \A j \in Ids : j # i => fwd'[j] = fwd[j]
    BY <1>1, <1>2
  <2>2. ASSUME NEW j \in Ids
        PROVE  (Vacant(fwd'[j]) \/ Owned(fwd'[j])) /\ (j > made' => Vacant(fwd'[j]))
    <3>1. CASE j = i
      BY <1>1, <1>2, <2>1, <3>1
    <3>2. CASE j # i
      BY <1>1, <2>1, <3>2
    <3> QED BY <3>1, <3>2
  <2> QED BY <2>1, <2>2 DEF IInv
<1>3. CASE Unowned(f)
  <2>1. Vacant(Destruct(f)) /\ Destruct(f) \in Fwd
    BY DestructVacant DEF Vacant
  <2> QED BY <1>2, <1>3, <2>1 DEF Becomes
<1>4. CASE ~Unowned(f)
  BY <1>2, <1>4 DEF Becomes
<1> QED BY <1>3, <1>4

(* The accept coroutine. *)
LEMMA AcceptStep ==
  ASSUME IInv, NEW junk \in Flags, NEW starts \in BOOLEAN, Accept(junk, starts)
  PROVE  IInv'
<1> DEFINE i == made + 1
           f == IF starts THEN ClientStart(Construct(junk)) ELSE Construct(junk)
<1>1. made \in Nat /\ MaxFwds \in Nat /\ made < MaxFwds /\ made' = i /\ Becomes(i, f)
  BY ClientAssumption DEF IInv, Accept
<1>2. i \in Ids /\ made' \in 0 .. MaxFwds /\ i <= made'
  BY <1>1 DEF Ids
<1>4. started' \subseteq Ids
  BY <1>1, <1>2 DEF IInv, Accept
<1>3. f \in Fwd /\ (Unowned(f) \/ Owned(f))
  <2>1. CASE starts
    BY <2>1, ClientStartEffect DEF Owned, Engaged
  <2>2. CASE ~starts
    BY <2>2, ConstructType
  <2> QED BY <2>1, <2>2
<1> HIDE DEF f
<1> QED BY <1>1, <1>2, <1>3, <1>4, BecomesStep

(* The coroutines of forwarder i: it is destroyed only when nothing is     *)
(* wrong with it.                                                          *)
Coroutine(i) ==
  \/ \E res \in Results, more \in BOOLEAN : Write(i, res, more)
  \/ \E more \in BOOLEAN : UpdateTimer(i, more)
  \/ \E res \in Results : TcpReceive(i, res) \/ UdpReceive(i, res)
  \/ RetryTimer(i)

(* One of them leaves it as another of the same kind. *)
Leaves(i) ==
  \E g : /\ Goes(fwd[i], g) /\ Resume(i, g)
         /\ Engaged(fwd[i]) /\ fwd[i].start = "off" /\ fwd[i].idle = "off"

LEMMA CoroutineStep ==
  ASSUME IInv, NEW i \in Ids, Coroutine(i)
  PROVE  /\ IInv' /\ started' = started /\ Owned(fwd[i])
         /\ \A j \in Ids : j # i => fwd'[j] = fwd[j]
         /\ fwd'[i].mem = "freed" => failed' = "no"
<1> DEFINE f == fwd[i]
<1>1. Vacant(f) \/ (Engaged(f) /\ f.start = "off" /\ f.idle = "off")
  BY DEF IInv, Owned
<1>2. ASSUME NEW g, Goes(f, g), Resume(i, g), Engaged(f), f.start = "off", f.idle = "off"
      PROVE  /\ IInv' /\ started' = started /\ Owned(fwd[i])
             /\ \A j \in Ids : j # i => fwd'[j] = fwd[j]
             /\ fwd'[i].mem = "freed" => failed' = "no"
  <2>1. g \in Fwd /\ Owned(g) /\ Engaged(g) /\ g.mem = "live"
    BY <1>2 DEF Goes, Owned, Engaged
  <2>2. Becomes(i, g) /\ started' = started /\ made' = made
    BY <1>2 DEF Resume
  <2>3. fwd \in [Ids -> Fwd] /\ made \in 0 .. MaxFwds /\ started \subseteq Ids
    BY DEF IInv
  <2>4. i <= made
    <3>1. ~Vacant(fwd[i])
      BY <1>2 DEF Vacant, Engaged
    <3> QED BY <3>1, ClientAssumption DEF IInv, Ids
  <2>5. IInv'
    BY <2>1, <2>2, <2>3, <2>4, BecomesStep
  <2>6. \A j \in Ids : j # i => fwd'[j] = fwd[j]
    BY <2>2, <2>3 DEF Becomes
  <2>7. fwd'[i].mem = "freed" => failed' = "no"
    <3>1. CASE Unowned(g)
      BY <2>1, <2>2, <3>1, DestructorQuiet DEF Becomes
    <3>2. CASE ~Unowned(g)
      BY <2>1, <2>2, <2>3, <3>2 DEF Becomes
    <3> QED BY <3>1, <3>2
  <2> QED BY <1>2, <2>2, <2>5, <2>6, <2>7 DEF Owned
<1>3. ASSUME NEW res \in Results, NEW more \in BOOLEAN, Write(i, res, more)
      PROVE  Leaves(i)
  <2>1. Engaged(f) /\ f.start = "off" /\ f.idle = "off" /\ f.upd \in {"write", "bad"}
    BY <1>1, <1>3 DEF Write, Vacant
  <2>2. Goes(f, Wrote(f, res, more))
    BY <2>1, WroteEffect
  <2> QED BY <1>3, <2>1, <2>2 DEF Write, Leaves
<1>4. ASSUME NEW more \in BOOLEAN, UpdateTimer(i, more)
      PROVE  Leaves(i)
  <2>1. Engaged(f) /\ f.start = "off" /\ f.idle = "off" /\ f.upd = "timer"
    BY <1>1, <1>4 DEF UpdateTimer, Vacant
  <2>2. Goes(f, Updated(f, more))
    BY <2>1, UpdatedEffect
  <2> QED BY <1>4, <2>1, <2>2 DEF UpdateTimer, Leaves
<1>5. ASSUME NEW res \in Results, TcpReceive(i, res)
      PROVE  Leaves(i)
  <2>1. Engaged(f) /\ f.start = "off" /\ f.idle = "off" /\ f.recv = "read"
    BY <1>1, <1>5 DEF TcpReceive, Vacant
  <2>2. Goes(f, TcpReceived(f, res))
    BY <2>1, TcpReceivedEffect
  <2> QED BY <1>5, <2>1, <2>2 DEF TcpReceive, Leaves
<1>6. ASSUME NEW res \in Results, UdpReceive(i, res)
      PROVE  Leaves(i)
  <2>1. Engaged(f) /\ f.start = "off" /\ f.idle = "off" /\ f.feed = "read"
    BY <1>1, <1>6 DEF UdpReceive, Vacant
  <2>2. Goes(f, UdpReceived(f, res))
    BY <2>1, UdpReceivedEffect
  <2> QED BY <1>6, <2>1, <2>2 DEF UdpReceive, Leaves
<1>7. ASSUME RetryTimer(i)
      PROVE  Leaves(i)
  <2>1. Engaged(f) /\ f.start = "off" /\ f.idle = "off" /\ f.upd = "retry"
    BY <1>1, <1>7 DEF RetryTimer, Vacant
  <2>2. Goes(f, Retry(f))
    BY <2>1, RetryEffect
  <2> QED BY <1>7, <2>1, <2>2 DEF RetryTimer, Leaves
<1> HIDE DEF f
<1>8. Leaves(i)
  BY <1>3, <1>4, <1>5, <1>6, <1>7 DEF Coroutine
<1> QED BY <1>2, <1>8 DEF Leaves, f

LEMMA InitInv ==
  ASSUME Init
  PROVE  IInv
<1>1. Vacant(NoFwd) /\ NoFwd \in Fwd
  BY NoFwdVacant DEF Vacant
<1> QED BY <1>1, ClientAssumption DEF Init, IInv

(* The steps of Next. *)
LEMMA NextCases ==
  ASSUME Next
  PROVE  \/ \E junk \in Flags, starts \in BOOLEAN : Accept(junk, starts)
         \/ AcceptError
         \/ \E i \in Ids : Coroutine(i)
<1>1. {TRUE, ~StartFails} \subseteq BOOLEAN
  BY ClientAssumption
<1> QED BY <1>1 DEF Next, Coroutine

LEMMA NextInv ==
  ASSUME IInv, [Next]_vars
  PROVE  IInv'
<1>1. CASE UNCHANGED vars
  BY <1>1 DEF vars, IInv
<1>2. CASE Next
  <2>1. AcceptError => IInv'
    BY DEF AcceptError, IInv
  <2> QED BY <1>2, <2>1, NextCases, AcceptStep, CoroutineStep
<1> QED BY <1>1, <1>2

LEMMA Invariant == Spec => []IInv
BY InitInv, NextInv, PTL DEF Spec

-----------------------------------------------------------------------------
(* isRunning_ tells the state of both sockets of a ClientSideForwarder,    *)
(* whichever of its coroutines called Stop.                                *)
THEOREM RunningTellsSockets == Spec => []RunningIsOpen
<1>1. IInv => RunningIsOpen
  <2> SUFFICES ASSUME IInv, NEW i \in Ids, fwd[i].mem = "live"
               PROVE  /\ fwd[i].udp = fwd[i].flags.running
                      /\ fwd[i].tcp = fwd[i].flags.running
    BY DEF RunningIsOpen
  <2>1. Engaged(fwd[i])
    BY DEF IInv, Vacant, Owned
  <2> QED BY <2>1 DEF Engaged
<1> QED BY <1>1, Invariant, PTL

(* The destructor of a ClientSideForwarder that was started finds          *)
(* isRunning_ cleared and a control block to release.                      *)
THEOREM DestroyedStopped == Spec => EndsStopped
<1>1. ASSUME IInv, [Next]_vars, NEW i \in started,
             fwd[i].mem = "live" /\ fwd'[i].mem = "freed"
      PROVE  failed' = "no"
  <2>1. i \in Ids /\ i <= made
    <3>1. i \in Ids /\ ~Vacant(fwd[i])
      BY <1>1 DEF IInv, Vacant
    <3> QED BY <1>1, <3>1, ClientAssumption DEF IInv, Ids
  <2>2. fwd' # fwd
    BY <1>1
  <2>3. Next
    BY <1>1, <2>2 DEF vars
  <2>4. ASSUME NEW junk \in Flags, NEW starts \in BOOLEAN, Accept(junk, starts)
        PROVE  fwd'[i] = fwd[i]
    <3>1. made' = made + 1 /\ made \in Nat /\ made' # i /\ fwd \in [Ids -> Fwd]
      BY <1>1, <2>1, <2>4, ClientAssumption DEF Accept, IInv, Ids
    <3>2. \E g : fwd' = [fwd EXCEPT ![made'] = g]
      BY <2>4 DEF Accept, Becomes
    <3> QED BY <2>1, <3>1, <3>2
  <2>5. AcceptError => fwd' = fwd
    BY DEF AcceptError
  <2>6. ASSUME NEW j \in Ids, Coroutine(j) PROVE failed' = "no"
    <3>1. i # j => fwd'[i] = fwd[i]
      BY <1>1, <2>1, <2>6, CoroutineStep
    <3>2. i = j
      BY <1>1, <3>1
    <3> QED BY <1>1, <2>1, <2>6, <3>2, CoroutineStep
  <2> QED BY <1>1, <2>3, <2>4, <2>5, <2>6, NextCases
<1>2. IInv /\ [Next]_vars
        => [\A i \in started : fwd[i].mem = "live" /\ fwd'[i].mem = "freed"
                                 => failed' = "no"]_vars
  BY <1>1
<1> QED BY <1>2, Invariant, PTL DEF Spec, EndsStopped
=============================================================================
