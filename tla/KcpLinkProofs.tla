---------------------------- MODULE KcpLinkProofs ---------------------------
(***************************************************************************)
(* Theorems about KcpLink, for every value of the constants.               *)
(***************************************************************************)
EXTENDS KcpLink, IkcpProofs

LEMMA PeersLemma ==
  /\ Client \in Peers /\ Server \in Peers /\ Client # Server
  /\ \A e \in Peers : Other(e) \in Peers /\ Other(e) # e /\ Other(Other(e)) = e
  /\ \A a, e \in Peers : e = a \/ e = Other(a)
BY LinkAssumption DEF Peers, Other

-----------------------------------------------------------------------------
(* The types, as sets of functions and records. *)
TypeInv ==
  /\ kcp \in [Peers -> Kcp]
  /\ net \in [Peers -> SUBSET Datagram]
  /\ inp \in [Peers -> SnMap(Seg)]
  /\ writing \in [Peers -> BOOLEAN]
  /\ sent \in [Peers -> Seq(Seg)]
  /\ got \in [Peers -> Seq(Seg)]

LEMMA TypeInvOK == TypeInv => TypeOK
<1> SUFFICES ASSUME TypeInv PROVE TypeOK
  OBVIOUS
<1>1. \A f \in SnMap(Seg) : IsSnMap(f, Seg)
  BY SnMapElim DEF IsSnMap
<1>2. ASSUME NEW e \in Peers
      PROVE  LET k == kcp[e]
             IN  /\ k.snd_queue \in Seq(Seg) /\ IsSnMap(k.snd_buf, Seg)
                 /\ k.rcv_queue \in Seq(Seg) /\ IsSnMap(k.rcv_buf, Seg)
                 /\ k.snd_una \in Nat /\ k.snd_nxt \in Nat /\ k.rcv_nxt \in Nat
                 /\ k.rmt_wnd \in Nat /\ k.acklist \in Seq(Nat)
                 /\ k.probe \subseteq {"ASK_TELL"} /\ k.probe_wait \in BOOLEAN
  <2>1. kcp[e] \in Kcp
    BY DEF TypeInv
  <2> QED BY <1>1, <2>1 DEF Kcp
<1>3. ASSUME NEW e \in Peers, NEW d \in net[e]
      PROVE  /\ d.una \in Nat /\ d.wnd \in Nat /\ d.acks \subseteq Nat
             /\ d.ctl \subseteq {"WASK", "WINS"} /\ IsSnMap(d.push, Seg)
  <2>1. d \in Datagram
    BY DEF TypeInv
  <2> QED BY <1>1, <2>1 DEF Datagram
<1>4. \A e \in Peers : IsSnMap(inp[e], Seg)
  BY <1>1 DEF TypeInv
<1> QED BY <1>2, <1>3, <1>4 DEF TypeOK, TypeInv

LEMMA InitType == Init => TypeInv
<1> SUFFICES ASSUME Init PROVE TypeInv
  OBVIOUS
<1> DEFINE f == <<>>
           q == <<>>
<1>1. f \in SnMap(Seg)
  <2>1. DOMAIN f = {} /\ f = [x \in DOMAIN f |-> f[x]]
    OBVIOUS
  <2> HIDE DEF f
  <2> QED BY <2>1, SnMapIntro
<1>2. q \in Seq(Seg) /\ q \in Seq(Nat) /\ WndRcv \in Nat
  BY SizesAssumption
<1>3. ikcp_create = [snd_queue |-> q, snd_buf |-> f, snd_una |-> 0, snd_nxt |-> 0,
        rcv_nxt |-> 0, rcv_buf |-> f, rcv_queue |-> q, acklist |-> q,
        rmt_wnd |-> WndRcv, probe |-> {}, probe_wait |-> FALSE]
  BY DEF ikcp_create
<1> HIDE DEF f, q
<1>4. ikcp_create \in Kcp
  BY <1>1, <1>2, <1>3 DEF Kcp
<1> QED BY <1>1, <1>2, <1>4 DEF Init, TypeInv, f, q

LEMMA WrittenType ==
  ASSUME TypeInv, NEW e \in Peers
  PROVE  Written(e) \in Nat
<1>1. sent[e] \in Seq(Seg)
  BY DEF TypeInv
<1>2. CASE sent[e] # <<>>
  <2>1. sent[e][Len(sent[e])] \in Seg
    BY <1>1, <1>2
  <2> QED BY <1>2, <2>1 DEF Written, Seg
<1> QED BY <1>2 DEF Written

(* What one round of the ikcp_recv loop does. *)
LEMMA ReadOneType ==
  ASSUME TypeInv, NEW e \in Peers, NEW k \in Kcp, ReadOne(e, k)
  PROVE  /\ kcp' \in [Peers -> Kcp]
         /\ writing' \in [Peers -> BOOLEAN]
         /\ got' \in [Peers -> Seq(Seg)]
<1>1. CASE CanRecv(k)
  <2>1. CanPeek(k)
    BY <1>1 DEF CanRecv
  <2>2. ikcp_recv(k) \in Kcp /\ RecvMessage(k) \in Seq(Seg)
    BY <2>1, RecvLemma, PeekLemma DEF Shifted
  <2>3. got[e] \o RecvMessage(k) \in Seq(Seg)
    BY <2>2 DEF TypeInv
  <2> QED BY <1>1, <2>2, <2>3 DEF ReadOne, TypeInv
<1>2. CASE ~CanRecv(k)
  BY <1>2 DEF ReadOne, TypeInv
<1> QED BY <1>1, <1>2

LEMMA NextType == TypeInv /\ [Next]_vars => TypeInv'
<1> SUFFICES ASSUME TypeInv, [Next]_vars PROVE TypeInv'
  OBVIOUS
<1> USE PeersLemma
<1>1. ASSUME NEW e \in Peers, Sends(e) PROVE TypeInv'
  <2>1. PICK n \in Reads : Send(e, n)
    BY <1>1 DEF Sends
  <2>2. n \in Nat \ {0} /\ FragCount(n) < WndRcv /\ Written(e) \in Nat /\ kcp[e] \in Kcp
    BY LinkAssumption, ReadAssumption, WrittenType DEF TypeInv
  <2>3. ikcp_send(kcp[e], Written(e), n) \in Kcp /\ Fragments(Written(e), n) \in Seq(Seg)
    BY <2>2, SendLemma, FragmentsType
  <2>4. sent[e] \o Fragments(Written(e), n) \in Seq(Seg)
    BY <2>3 DEF TypeInv
  <2> QED BY <2>1, <2>3, <2>4 DEF Send, TypeInv
<1>2. ASSUME NEW e \in Peers, Updates(e) PROVE TypeInv'
  <2>1. PICK due \in SUBSET DOMAIN kcp[e].snd_buf, probeDue \in {FALSE, CanProbe(kcp[e])} :
          Update(e, due, probeDue, TRUE)
    BY <1>2 DEF Updates
  <2> DEFINE o == Other(e)
             f == FillSndBuf(kcp[e])
             k == ikcp_flush(kcp[e], f)
             out == FlushOutput(kcp[e], f, due, probeDue)
  <2>2. kcp[e] \in Kcp /\ o \in Peers
    BY DEF TypeInv
  <2>3. PICK t \in Transit(NetCap[o], net[o], out, TRUE) : net' = [net EXCEPT ![o] = t]
    BY <2>1 DEF Update
  <2>4. ReadOne(e, k) /\ UNCHANGED <<inp, sent>>
    BY <2>1 DEF Update
  <2> HIDE DEF o
  <2>5. Filled(kcp[e], f, FlushCount(kcp[e]))
    BY <2>2, FillLemma
  <2>6. k \in Kcp
    BY <2>2, <2>5, FlushLemma DEF Filled
  <2>7. out \subseteq Datagram
    BY <2>2, <2>5, OutputLemma DEF Carries
  <2> HIDE DEF f, k, out
  <2>8. t \in SUBSET Datagram
    BY <2>2, <2>3, <2>7 DEF Transit, TypeInv
  <2>9. net' \in [Peers -> SUBSET Datagram]
    BY <2>2, <2>3, <2>8 DEF TypeInv
  <2> QED BY <2>4, <2>6, <2>9, ReadOneType DEF TypeInv
<1>3. ASSUME NEW e \in Peers, WriteDone(e) PROVE TypeInv'
  <2>1. ReadOne(e, kcp[e]) /\ kcp[e] \in Kcp /\ UNCHANGED <<net, inp, sent>>
    BY <1>3 DEF WriteDone, TypeInv
  <2> QED BY <2>1, ReadOneType DEF TypeInv
<1>4. ASSUME NEW e \in Peers, Inputs(e) PROVE TypeInv'
  <2>1. PICK d \in net[e], again \in Again : Input(e, d, again)
    BY <1>4 DEF Inputs
  <2>2. d \in Datagram /\ kcp[e] \in Kcp
    BY DEF TypeInv
  <2>3. ikcp_input(kcp[e], d) \in Kcp /\ d.push \in SnMap(Seg)
    BY <2>2, InputLemma DEF Datagram
  <2>4. net' \in [Peers -> SUBSET Datagram]
    BY <2>1 DEF Input, TypeInv
  <2> QED BY <2>1, <2>3, <2>4 DEF Input, TypeInv
<1>5. ASSUME NEW e \in Peers, InputPush(e) PROVE TypeInv'
  <2> DEFINE sn == Min(DOMAIN inp[e])
             k == ikcp_input_push(kcp[e], sn, inp[e][sn])
  <2>1. kcp[e] \in Kcp /\ inp[e] \in SnMap(Seg)
    BY DEF TypeInv
  <2>2. DOMAIN inp[e] \in SUBSET Nat /\ DOMAIN inp[e] # {}
    BY <1>5, <2>1, SnMapElim DEF InputPush
  <2>3. sn \in DOMAIN inp[e]
    BY <2>2, NatMin
  <2>4. sn \in Nat /\ inp[e][sn] \in Seg
    BY <2>1, <2>2, <2>3, SnMapElim
  <2>5. kcp' = [kcp EXCEPT ![e] = k] /\ inp' = [inp EXCEPT ![e] = Without(@, {sn})]
        /\ UNCHANGED <<net, writing, sent, got>>
    BY <1>5 DEF InputPush
  <2> HIDE DEF sn
  <2>6. k \in Kcp
    BY <2>1, <2>4, PushLemma DEF Shifted
  <2>7. Without(inp[e], {sn}) \in SnMap(Seg)
    BY <2>1, WithoutType
  <2> HIDE DEF k
  <2> QED BY <2>5, <2>6, <2>7 DEF TypeInv
<1>6. CASE UNCHANGED vars
  BY <1>6 DEF vars, TypeInv
<1> QED BY <1>1, <1>2, <1>3, <1>4, <1>5, <1>6 DEF Next

(* Type correctness: ikcp.c keeps every field of a control block within    *)
(* its type, for windows, sizes, bounds and losses of any kind; in         *)
(* particular no unsigned subtraction of the modelled functions wraps.     *)
THEOREM TypeCorrect == Spec => []TypeOK
<1>1. Init => TypeInv
  BY InitType
<1>2. TypeInv /\ [Next]_vars => TypeInv'
  BY NextType
<1>3. TypeInv => TypeOK
  BY TypeInvOK
<1> QED BY <1>1, <1>2, <1>3, PTL DEF Spec
-----------------------------------------------------------------------------
(* How each function keeps one direction of the inductive invariant.       *)
Shapes(s, r, st, g, to, at, back) ==
  /\ s \in Kcp /\ r \in Kcp /\ st \in Seq(Seg) /\ g \in Seq(Seg)
  /\ to \in SUBSET Datagram /\ at \in SnMap(Seg) /\ back \in SUBSET Datagram

LEMMA ShapesLemma ==
  ASSUME NEW s, NEW r, NEW st, NEW g, NEW to, NEW at, NEW back,
         Shapes(s, r, st, g, to, at, back)
  PROVE  /\ s.snd_nxt \in Nat /\ r.rcv_nxt \in Nat
         /\ s.snd_queue \in Seq(Seg) /\ r.rcv_queue \in Seq(Seg) /\ r.acklist \in Seq(Nat)
         /\ Len(s.snd_queue) \in Nat /\ Len(r.rcv_queue) \in Nat /\ Len(r.acklist) \in Nat
         /\ Len(st) \in Nat /\ Len(g) \in Nat
         /\ DOMAIN s.snd_buf \subseteq Nat /\ DOMAIN r.rcv_buf \subseteq Nat
         /\ DOMAIN at \subseteq Nat /\ \A d \in to : DOMAIN d.push \subseteq Nat
         /\ \A d \in back : d.una \in Nat /\ d.acks \subseteq Nat
<1>1. s.snd_nxt \in Nat /\ s.snd_queue \in Seq(Seg) /\ s.snd_buf \in SnMap(Seg)
  BY DEF Shapes, Kcp
<1>2. r.rcv_nxt \in Nat /\ r.rcv_queue \in Seq(Seg) /\ r.rcv_buf \in SnMap(Seg)
      /\ r.acklist \in Seq(Nat)
  BY DEF Shapes, Kcp
<1>3. \A d \in Datagram : d.push \in SnMap(Seg) /\ d.una \in Nat /\ d.acks \subseteq Nat
  BY DEF Datagram
<1>4. \A f \in SnMap(Seg) : DOMAIN f \subseteq Nat
  BY SnMapElim
<1>5. Len(s.snd_queue) \in Nat
  BY <1>1
<1>6. Len(r.rcv_queue) \in Nat /\ Len(r.acklist) \in Nat
  BY <1>2
<1>7. Len(st) \in Nat /\ Len(g) \in Nat
  BY DEF Shapes
<1> QED BY <1>1, <1>2, <1>3, <1>4, <1>5, <1>6, <1>7 DEF Shapes

(* ikcp_send: the stream grows at its end. *)
LEMMA SendDir ==
  ASSUME NEW s, NEW r, NEW st, NEW g, NEW to, NEW at, NEW back, NEW s2, NEW fr \in Seq(Seg),
         Shapes(s, r, st, g, to, at, back), Direction(s, r, st, g, to, at, back),
         s2.snd_queue = s.snd_queue \o fr, s2.snd_nxt = s.snd_nxt, s2.snd_buf = s.snd_buf
  PROVE  Direction(s2, r, st \o fr, g, to, at, back)
<1> DEFINE t == st \o fr
           q == s.snd_queue \o fr
<1>1. s.snd_nxt \in Nat /\ s.snd_queue \in Seq(Seg) /\ st \in Seq(Seg) /\ g \in Seq(Seg)
      /\ r.rcv_nxt \in Nat /\ Len(r.rcv_queue) \in Nat /\ Len(g) \in Nat
      /\ Len(s.snd_queue) \in Nat /\ Len(st) \in Nat /\ Len(fr) \in Nat
  <2>1. st \in Seq(Seg) /\ g \in Seq(Seg) /\ Len(fr) \in Nat
    BY DEF Shapes
  <2> QED BY <2>1, ShapesLemma, Zenon
<1>2. t \in Seq(Seg) /\ Len(t) = Len(st) + Len(fr) /\ (\A i \in 1..Len(st) : t[i] = st[i])
      /\ \A i \in 1..Len(fr) : t[Len(st) + i] = fr[i]
  BY <1>1, SMTT(60)
<1>3. Len(q) = Len(s.snd_queue) + Len(fr)
      /\ \A i \in 1..Len(q) : q[i] = IF i <= Len(s.snd_queue) THEN s.snd_queue[i]
                                     ELSE fr[i - Len(s.snd_queue)]
  <2> DEFINE u == s.snd_queue
  <2>1. u \in Seq(Seg)
    BY <1>1
  <2> HIDE DEF u
  <2>2. Len(u \o fr) = Len(u) + Len(fr)
        /\ \A i \in 1..Len(u \o fr) : (u \o fr)[i] = IF i <= Len(u) THEN u[i] ELSE fr[i - Len(u)]
    BY <2>1
  <2> QED BY <2>2 DEF u
<1>4. s.snd_nxt + Len(s.snd_queue) = Len(st)
      /\ \A i \in 1..Len(s.snd_queue) : s.snd_queue[i] = st[s.snd_nxt + i]
  BY DEF Direction, SenderHolds
<1> HIDE DEF t, q
<1>5. ASSUME NEW f, DOMAIN f \subseteq Nat, PartOf(f, s, st) PROVE PartOf(f, s2, t)
  <2> SUFFICES ASSUME NEW sn \in DOMAIN f PROVE sn < s2.snd_nxt /\ f[sn] = t[sn + 1]
    BY DEF PartOf
  <2>1. sn \in Nat /\ sn < s.snd_nxt /\ f[sn] = st[sn + 1]
    BY <1>5 DEF PartOf
  <2>2. sn + 1 \in 1..Len(st)
    BY <1>1, <1>4, <2>1, SMTT(60)
  <2> QED BY <1>2, <2>1, <2>2
<1>6. SenderHolds(s2, t)
  <2>1. s2.snd_nxt + Len(s2.snd_queue) = Len(t)
    <3>1. s2.snd_queue = q /\ s2.snd_nxt = s.snd_nxt
      BY DEF q
    <3>2. s.snd_nxt + Len(q) = Len(t)
      <4> DEFINE a == s.snd_nxt
                 b == Len(s.snd_queue)
                 c == Len(fr)
                 e == Len(st)
      <4>1. a \in Nat /\ b \in Nat /\ c \in Nat /\ e \in Nat /\ a + b = e
            /\ Len(q) = b + c /\ Len(t) = e + c
        BY <1>1, <1>2, <1>3, <1>4
      <4> HIDE DEF a, b, c, e
      <4>2. a + Len(q) = Len(t)
        BY <4>1
      <4> QED BY <4>2 DEF a
    <3> QED BY <3>1, <3>2
  <2>2. ASSUME NEW i \in 1..Len(q) PROVE q[i] = t[s.snd_nxt + i]
    <3>1. CASE i <= Len(s.snd_queue)
      <4>1. i \in 1..Len(s.snd_queue) /\ s.snd_nxt + i \in 1..Len(st)
        BY <1>1, <1>3, <1>4, <3>1, SMTT(30)
      <4> QED BY <1>2, <1>3, <1>4, <3>1, <4>1
    <3>2. CASE ~(i <= Len(s.snd_queue))
      <4>1. i - Len(s.snd_queue) \in 1..Len(fr)
            /\ s.snd_nxt + i = Len(st) + (i - Len(s.snd_queue))
        <5> DEFINE a == s.snd_nxt
                   b == Len(s.snd_queue)
                   c == Len(fr)
                   e == Len(st)
        <5>1. a \in Nat /\ b \in Nat /\ c \in Nat /\ e \in Nat /\ a + b = e
              /\ i \in 1..(b + c) /\ ~(i <= b)
          BY <1>1, <1>3, <1>4, <3>2
        <5> HIDE DEF a, b, c, e
        <5>2. i - b \in 1..c /\ a + i = e + (i - b)
          BY <5>1
        <5> QED BY <5>2 DEF a, b, c, e
      <4> QED BY <1>2, <1>3, <3>2, <4>1
    <3> QED BY <3>1, <3>2
  <2>3. PartOf(s2.snd_buf, s2, t)
    BY <1>5, ShapesLemma DEF Direction, SenderHolds
  <2> QED BY <2>1, <2>2, <2>3 DEF SenderHolds, q
<1>7. ReceiverHolds(s2, r, t, g)
  <2>1. r.rcv_nxt <= s2.snd_nxt /\ Len(g) + Len(r.rcv_queue) = r.rcv_nxt
    BY DEF Direction, ReceiverHolds
  <2>2. ASSUME NEW i \in 1..Len(g) PROVE g[i] = t[i]
    <3>1. i \in 1..Len(st)
      BY <1>1, <1>4, <2>1, SMTT(60)
    <3> QED BY <1>2, <3>1 DEF Direction, ReceiverHolds
  <2>3. ASSUME NEW i \in 1..Len(r.rcv_queue) PROVE r.rcv_queue[i] = t[Len(g) + i]
    <3>1. Len(g) + i \in 1..Len(st)
      BY <1>1, <1>4, <2>1, SMTT(30)
    <3> QED BY <1>2, <3>1 DEF Direction, ReceiverHolds
  <2>4. PartOf(r.rcv_buf, s2, t)
    BY <1>5, ShapesLemma DEF Direction, ReceiverHolds
  <2> QED BY <2>1, <2>2, <2>3, <2>4 DEF ReceiverHolds
<1>8. PushesHold(s2, t, to, at)
  BY <1>5, ShapesLemma DEF Direction, PushesHold
<1>9. AcksHold(r, back) /\ Covered(s2, r)
  BY DEF Direction, Covered
<1> QED BY <1>6, <1>7, <1>8, <1>9 DEF Direction, t
(* A direction depends on the sender's half of s and the receiver's half   *)
(* of r only.                                                              *)
LEMMA SameDir ==
  ASSUME NEW s, NEW r, NEW st, NEW g, NEW to, NEW at, NEW back,
         Shapes(s, r, st, g, to, at, back), Direction(s, r, st, g, to, at, back),
         NEW s2, NEW r2, SameSender(s, s2), SameReceiver(r, r2)
  PROVE  Direction(s2, r2, st, g, to, at, back)
<1>1. \A f : PartOf(f, s, st) => PartOf(f, s2, st)
  BY DEF PartOf, SameSender
<1>2. \A sn : Held(r, sn) => Held(r2, sn)
  BY DEF Held, SameReceiver
<1>3. SenderHolds(s2, st) /\ ReceiverHolds(s2, r2, st, g) /\ PushesHold(s2, st, to, at)
  BY <1>1 DEF Direction, SenderHolds, ReceiverHolds, PushesHold, SameSender, SameReceiver
<1>4. AcksHold(r2, back) /\ Covered(s2, r2)
  BY <1>2 DEF Direction, AcksHold, Covered, SameSender, SameReceiver
<1> QED BY <1>3, <1>4 DEF Direction

(* ikcp_flush at the sender: segments move from snd_queue to snd_buf, and  *)
(* copies of what is in snd_buf are sent.                                  *)
LEMMA FillDir ==
  ASSUME NEW s, NEW r, NEW st, NEW g, NEW to, NEW at, NEW back,
         Shapes(s, r, st, g, to, at, back), Direction(s, r, st, g, to, at, back),
         NEW f, NEW n, Filled(s, f, n), NEW s2, SameSender(f, s2), NEW to2,
         \A d \in to2 : \/ d \in to
                        \/ \A sn \in DOMAIN d.push : /\ sn \in DOMAIN f.snd_buf
                                                     /\ d.push[sn] = f.snd_buf[sn]
  PROVE  Direction(s2, r, st, g, to2, at, back)
<1> DEFINE x == s.snd_nxt
           L == Len(s.snd_queue)
<1>1. x \in Nat /\ L \in Nat /\ Len(st) \in Nat /\ r.rcv_nxt \in Nat /\ DOMAIN s.snd_buf \subseteq Nat
      /\ DOMAIN at \subseteq Nat /\ (\A d \in to : DOMAIN d.push \subseteq Nat)
      /\ DOMAIN r.rcv_buf \subseteq Nat
  BY ShapesLemma, Zenon
<1>2. n \in 0..L /\ s2.snd_nxt = x + n /\ Len(s2.snd_queue) = L - n
      /\ (\A i \in 1 .. (L - n) : s2.snd_queue[i] = s.snd_queue[n + i])
      /\ DOMAIN s2.snd_buf = DOMAIN s.snd_buf \cup x .. (x + n - 1)
      /\ (\A sn \in DOMAIN s.snd_buf : s2.snd_buf[sn] = s.snd_buf[sn])
      /\ (\A sn \in DOMAIN s2.snd_buf \ DOMAIN s.snd_buf :
            s2.snd_buf[sn] = s.snd_queue[sn - x + 1])
      /\ s2.snd_buf = f.snd_buf
  BY Zenon DEF Filled, SameSender
<1>3. x + L = Len(st) /\ \A i \in 1..L : s.snd_queue[i] = st[x + i]
  BY DEF Direction, SenderHolds
<1> HIDE DEF x, L
<1>4. ASSUME NEW h, DOMAIN h \subseteq Nat, PartOf(h, s, st) PROVE PartOf(h, s2, st)
  <2> SUFFICES ASSUME NEW sn \in DOMAIN h PROVE sn < s2.snd_nxt /\ h[sn] = st[sn + 1]
    BY DEF PartOf
  <2>1. sn \in Nat /\ sn < x /\ h[sn] = st[sn + 1]
    BY <1>4 DEF PartOf, x
  <2> QED BY <1>1, <1>2, <2>1
<1>5. PartOf(s2.snd_buf, s2, st)
  <2> SUFFICES ASSUME NEW sn \in DOMAIN s2.snd_buf
               PROVE  sn < s2.snd_nxt /\ s2.snd_buf[sn] = st[sn + 1]
    BY DEF PartOf
  <2>1. CASE sn \in DOMAIN s.snd_buf
    <3>1. PartOf(s.snd_buf, s2, st)
      BY <1>1, <1>4 DEF Direction, SenderHolds
    <3> QED BY <1>2, <2>1, <3>1 DEF PartOf
  <2>2. CASE sn \notin DOMAIN s.snd_buf
    <3>1. sn \in x .. (x + n - 1) /\ s2.snd_buf[sn] = s.snd_queue[sn - x + 1]
      BY <1>2, <2>2
    <3>2. sn - x + 1 \in 1..L /\ x + (sn - x + 1) = sn + 1 /\ sn < x + n
      BY <1>1, <1>2, <3>1, SMTT(60)
    <3> QED BY <1>2, <1>3, <3>1, <3>2
  <2> QED BY <2>1, <2>2
<1>6. SenderHolds(s2, st)
  <2>1. s2.snd_nxt + Len(s2.snd_queue) = Len(st)
    BY <1>1, <1>2, <1>3
  <2>2. ASSUME NEW i \in 1..Len(s2.snd_queue) PROVE s2.snd_queue[i] = st[s2.snd_nxt + i]
    <3>1. i \in 1 .. (L - n) /\ n + i \in 1..L /\ x + (n + i) = x + n + i
      BY <1>1, <1>2
    <3> QED BY <1>2, <1>3, <3>1
  <2> QED BY <1>5, <2>1, <2>2 DEF SenderHolds
<1>7. ReceiverHolds(s2, r, st, g)
  <2>1. r.rcv_nxt <= x
    BY DEF Direction, ReceiverHolds, x
  <2>2. r.rcv_nxt <= s2.snd_nxt
    BY <1>1, <1>2, <2>1
  <2> QED BY <1>1, <1>4, <2>2 DEF Direction, ReceiverHolds
<1>8. PushesHold(s2, st, to2, at)
  <2>1. ASSUME NEW d \in to2 PROVE PartOf(d.push, s2, st)
    <3>1. CASE d \in to
      BY <1>1, <1>4, <3>1 DEF Direction, PushesHold
    <3>2. CASE \A sn \in DOMAIN d.push : sn \in DOMAIN f.snd_buf /\ d.push[sn] = f.snd_buf[sn]
      BY <1>2, <1>5, <3>2 DEF PartOf
    <3> QED BY <3>1, <3>2
  <2> QED BY <1>1, <1>4, <2>1 DEF Direction, PushesHold
<1>9. Covered(s2, r)
  <2> SUFFICES ASSUME NEW sn \in 0 .. (s2.snd_nxt - 1)
               PROVE  sn \in DOMAIN s2.snd_buf \/ Held(r, sn)
    BY DEF Covered
  <2>1. sn \in 0 .. (x - 1) \/ sn \in x .. (x + n - 1)
    BY <1>1, <1>2
  <2> QED BY <1>2, <2>1 DEF Direction, Covered, x
<1> QED BY <1>6, <1>7, <1>8, <1>9 DEF Direction

(* ikcp_flush at the receiver: the pending acknowledgements are sent. *)
LEMMA AckDir ==
  ASSUME NEW s, NEW r, NEW st, NEW g, NEW to, NEW at, NEW back,
         Shapes(s, r, st, g, to, at, back), Direction(s, r, st, g, to, at, back),
         NEW r2, r2.acklist = <<>>, r2.rcv_nxt = r.rcv_nxt, r2.rcv_buf = r.rcv_buf,
         r2.rcv_queue = r.rcv_queue, NEW back2,
         \A d \in back2 : \/ d \in back
                          \/ /\ d.una = r.rcv_nxt
                             /\ \A sn \in d.acks : \E i \in 1..Len(r.acklist) : sn = r.acklist[i]
  PROVE  Direction(s, r2, st, g, to, at, back2)
<1>1. \A sn : Held(r, sn) => Held(r2, sn)
  BY DEF Held
<1>2. ASSUME NEW d \in back2
      PROVE  d.una <= r2.rcv_nxt /\ \A sn \in d.acks : Held(r2, sn)
  <2>1. r.rcv_nxt \in Nat
    BY ShapesLemma, Zenon
  <2>2. CASE d \in back
    BY <1>1, <2>2 DEF Direction, AcksHold
  <2>3. CASE /\ d.una = r.rcv_nxt
             /\ \A sn \in d.acks : \E i \in 1..Len(r.acklist) : sn = r.acklist[i]
    BY <1>1, <2>1, <2>3 DEF Direction, AcksHold
  <2> QED BY <2>2, <2>3
<1>3. 1..Len(r2.acklist) = {}
  BY Len(<<>>) = 0
<1>4. AcksHold(r2, back2)
  BY <1>2, <1>3 DEF AcksHold
<1>5. Covered(s, r2)
  BY <1>1 DEF Direction, Covered
<1> QED BY <1>4, <1>5 DEF Direction, ReceiverHolds
(* ikcp_recv and ikcp_parse_data: c segments leave rcv_queue for TCP, and  *)
(* n follow them from rcv_buf.                                             *)
LEMMA ShiftDir ==
  ASSUME NEW s, NEW r, NEW st, NEW g, NEW to, NEW at, NEW back,
         Shapes(s, r, st, g, to, at, back), Direction(s, r, st, g, to, at, back),
         NEW r2, NEW c \in 0..Len(r.rcv_queue), NEW n \in Nat, Shifted(r, r2, c, n),
         NEW g2, Len(g2) = Len(g) + c, \A i \in 1..Len(g) : g2[i] = g[i],
         \A i \in 1..c : g2[Len(g) + i] = r.rcv_queue[i]
  PROVE  Direction(s, r2, st, g2, to, at, back)
<1> DEFINE x == r.rcv_nxt
           L == Len(r.rcv_queue)
           G == Len(g)
<1>1. x \in Nat /\ L \in Nat /\ G \in Nat /\ s.snd_nxt \in Nat /\ DOMAIN r.rcv_buf \subseteq Nat
      /\ Len(r.acklist) \in Nat /\ (\A d \in back : d.una \in Nat /\ d.acks \subseteq Nat)
  BY ShapesLemma, Zenon
<1>2. r2.rcv_nxt = x + n /\ r2.acklist = r.acklist /\ Len(r2.rcv_queue) = L - c + n
      /\ (\A i \in 1 .. (L - c) : r2.rcv_queue[i] = r.rcv_queue[c + i])
      /\ (\A i \in 1 .. n : /\ x + i - 1 \in DOMAIN r.rcv_buf
                           /\ r2.rcv_queue[L - c + i] = r.rcv_buf[x + i - 1])
      /\ DOMAIN r2.rcv_buf = DOMAIN r.rcv_buf \ (x .. (x + n - 1))
      /\ (\A sn \in DOMAIN r2.rcv_buf : r2.rcv_buf[sn] = r.rcv_buf[sn])
  BY Zenon DEF Shifted
<1>3. x <= s.snd_nxt /\ G + L = x /\ (\A i \in 1..G : g[i] = st[i])
      /\ (\A i \in 1..L : r.rcv_queue[i] = st[G + i]) /\ PartOf(r.rcv_buf, s, st)
  BY DEF Direction, ReceiverHolds
<1>4. c \in 0..L /\ Len(g2) = G + c /\ (\A i \in 1..G : g2[i] = g[i])
      /\ \A i \in 1..c : g2[G + i] = r.rcv_queue[i]
  OBVIOUS
<1> HIDE DEF x, L, G
<1>5. ASSUME NEW sn \in Nat, Held(r, sn) PROVE Held(r2, sn)
  <2>1. sn < x \/ sn \in DOMAIN r.rcv_buf
    BY <1>5 DEF Held, x
  <2>2. CASE sn < x
    BY <1>1, <1>2, <2>2 DEF Held
  <2>3. CASE sn \in DOMAIN r2.rcv_buf
    BY <2>3 DEF Held
  <2>4. CASE sn \in x .. (x + n - 1)
    BY <1>1, <1>2, <2>4 DEF Held
  <2> QED BY <1>2, <2>1, <2>2, <2>3, <2>4
<1>6. x + n <= s.snd_nxt
  <2>1. CASE n = 0
    BY <1>1, <1>3, <2>1
  <2>2. CASE n # 0
    <3>1. n \in 1..n /\ x + n - 1 \in DOMAIN r.rcv_buf
      BY <1>2, <2>2
    <3>2. x + n - 1 < s.snd_nxt
      BY <1>3, <3>1 DEF PartOf
    <3> QED BY <1>1, <3>2
  <2> QED BY <2>1, <2>2
<1>7. ASSUME NEW i \in 1 .. (G + c) PROVE g2[i] = st[i]
  <2>1. CASE i \in 1..G
    BY <1>3, <1>4, <2>1
  <2>2. CASE i \notin 1..G
    <3>1. i - G \in 1..c /\ i - G \in 1..L /\ G + (i - G) = i
      BY <1>1, <1>4, <2>2
    <3> QED BY <1>3, <1>4, <3>1, ZenonT(90)
  <2> QED BY <2>1, <2>2
<1>8. ASSUME NEW i \in 1 .. (L - c + n) PROVE r2.rcv_queue[i] = st[(G + c) + i]
  <2>1. CASE i \in 1 .. (L - c)
    <3>1. c + i \in 1..L /\ G + (c + i) = (G + c) + i
      BY <1>1, <1>4, <2>1, SMTT(60)
    <3> QED BY <1>2, <1>3, <2>1, <3>1
  <2>2. CASE i \notin 1 .. (L - c)
    <3> DEFINE j == i - (L - c)
    <3>1. j \in 1..n /\ L - c + j = i /\ (x + j - 1) + 1 = (G + c) + i
      BY <1>1, <1>3, <1>4, <2>2
    <3> HIDE DEF j
    <3>2. x + j - 1 \in DOMAIN r.rcv_buf /\ r2.rcv_queue[i] = r.rcv_buf[x + j - 1]
      BY <1>2, <3>1
    <3>3. r.rcv_buf[x + j - 1] = st[(x + j - 1) + 1]
      BY <1>3, <3>2 DEF PartOf
    <3> QED BY <3>1, <3>2, <3>3
  <2> QED BY <2>1, <2>2
<1>9. (G + c) + (L - c + n) = x + n
  BY <1>1, <1>3, <1>4
<1>10. PartOf(r2.rcv_buf, s, st)
  BY <1>2, <1>3 DEF PartOf
<1>11. ReceiverHolds(s, r2, st, g2)
  BY <1>2, <1>4, <1>6, <1>7, <1>8, <1>9, <1>10 DEF ReceiverHolds
<1>12. AcksHold(r2, back)
  <2>1. ASSUME NEW i \in 1..Len(r2.acklist) PROVE Held(r2, r2.acklist[i])
    <3>1. r.acklist[i] \in Nat
      BY <1>2, ShapesLemma, SMTT(60)
    <3> QED BY <1>2, <1>5, <3>1 DEF Direction, AcksHold
  <2>2. ASSUME NEW d \in back PROVE d.una <= r2.rcv_nxt /\ \A sn \in d.acks : Held(r2, sn)
    <3>1. d.una <= x /\ \A sn \in d.acks : Held(r, sn)
      BY DEF Direction, AcksHold, x
    <3>2. d.una <= x + n
      BY <1>1, <3>1
    <3> QED BY <1>1, <1>2, <1>5, <3>1, <3>2
  <2> QED BY <2>1, <2>2 DEF AcksHold
<1>13. Covered(s, r2)
  BY <1>1, <1>5 DEF Direction, Covered
<1> QED BY <1>11, <1>12, <1>13 DEF Direction

(* ikcp_input at the sender: what leaves snd_buf is held at the receiver. *)
LEMMA InputDir ==
  ASSUME NEW s, NEW r, NEW st, NEW g, NEW to, NEW at, NEW back,
         Shapes(s, r, st, g, to, at, back), Direction(s, r, st, g, to, at, back),
         NEW d \in back, NEW back2 \in SUBSET back
  PROVE  Direction(ikcp_input(s, d), r, st, g, to, at, back2)
<1> DEFINE s2 == ikcp_input(s, d)
<1>1. s \in Kcp /\ d \in Datagram /\ s.snd_nxt \in Nat
  BY DEF Shapes, Kcp
<1>2. s2.snd_queue = s.snd_queue /\ s2.snd_nxt = s.snd_nxt
      /\ (\A sn \in DOMAIN s2.snd_buf : sn \in DOMAIN s.snd_buf /\ s2.snd_buf[sn] = s.snd_buf[sn])
      /\ \A sn \in DOMAIN s.snd_buf : sn \in DOMAIN s2.snd_buf \/ sn < d.una \/ sn \in d.acks
  BY <1>1, InputLemma
<1> HIDE DEF s2
<1>3. \A f : PartOf(f, s, st) => PartOf(f, s2, st)
  BY <1>2 DEF PartOf
<1>4. SenderHolds(s2, st)
  BY <1>2 DEF Direction, SenderHolds, PartOf
<1>5. ReceiverHolds(s2, r, st, g) /\ PushesHold(s2, st, to, at)
  BY <1>2, <1>3 DEF Direction, ReceiverHolds, PushesHold
<1>6. AcksHold(r, back2)
  BY DEF Direction, AcksHold
<1>7. Covered(s2, r)
  <2> SUFFICES ASSUME NEW sn \in 0 .. (s2.snd_nxt - 1), sn \notin DOMAIN s2.snd_buf
               PROVE  Held(r, sn)
    BY DEF Covered
  <2>1. sn \in DOMAIN s.snd_buf \/ Held(r, sn)
    BY <1>2 DEF Direction, Covered
  <2>2. CASE sn < d.una
    <3>1. d.una <= r.rcv_nxt /\ d.una \in Nat /\ r.rcv_nxt \in Nat /\ sn \in Nat
      BY <1>1, <1>2 DEF Direction, AcksHold, Shapes, Kcp, Datagram
    <3> QED BY <2>2, <3>1 DEF Held
  <2>3. CASE sn \in d.acks
    BY <2>3 DEF Direction, AcksHold
  <2> QED BY <1>2, <2>1, <2>2, <2>3
<1> QED BY <1>4, <1>5, <1>6, <1>7 DEF Direction, s2

(* ikcp_input at the receiver, one push: it is acknowledged only when it   *)
(* is held.                                                                *)
LEMMA KeptDir ==
  ASSUME NEW s, NEW r, NEW st, NEW g, NEW to, NEW at, NEW back,
         Shapes(s, r, st, g, to, at, back), Direction(s, r, st, g, to, at, back),
         NEW sn \in DOMAIN at, NEW j, Kept(r, j, sn, at[sn])
  PROVE  Direction(s, j, st, g, to, Without(at, {sn}), back)
<1>1. j.rcv_nxt = r.rcv_nxt /\ j.rcv_queue = r.rcv_queue /\ DOMAIN r.rcv_buf \subseteq DOMAIN j.rcv_buf
      /\ (\A x \in DOMAIN r.rcv_buf : j.rcv_buf[x] = r.rcv_buf[x])
      /\ (\A x \in DOMAIN j.rcv_buf \ DOMAIN r.rcv_buf : x = sn /\ j.rcv_buf[x] = at[sn])
  BY DEF Kept
<1>2. \A x : Held(r, x) => Held(j, x)
  BY <1>1 DEF Held
<1>3. PartOf(at, s, st) /\ PartOf(r.rcv_buf, s, st)
  BY DEF Direction, PushesHold, ReceiverHolds
<1>4. PartOf(j.rcv_buf, s, st)
  BY <1>1, <1>3 DEF PartOf
<1>5. ReceiverHolds(s, j, st, g)
  BY <1>1, <1>4 DEF Direction, ReceiverHolds
<1>6. PushesHold(s, st, to, Without(at, {sn}))
  <2>1. PartOf(Without(at, {sn}), s, st)
    BY <1>3 DEF PartOf, Without
  <2> QED BY <2>1 DEF Direction, PushesHold
<1>7. ASSUME NEW i \in 1..Len(j.acklist) PROVE Held(j, j.acklist[i])
  <2>1. CASE j.acklist = r.acklist
    BY <1>2, <2>1 DEF Direction, AcksHold
  <2>2. CASE j.acklist = Append(r.acklist, sn) /\ (sn < j.rcv_nxt \/ sn \in DOMAIN j.rcv_buf)
    <3> DEFINE a == r.acklist
    <3>1. a \in Seq(Nat) /\ sn \in Nat
      BY SnMapElim DEF Shapes, Kcp
    <3>2. \A x \in 1..Len(a) : Held(r, a[x])
      BY DEF Direction, AcksHold
    <3>3. j.acklist = Append(a, sn)
      BY <2>2
    <3> HIDE DEF a
    <3>4. (i \in 1..Len(a) /\ j.acklist[i] = a[i]) \/ j.acklist[i] = sn
      BY <3>1, <3>3
    <3> QED BY <1>2, <2>2, <3>2, <3>4 DEF Held
  <2> QED BY <2>1, <2>2 DEF Kept
<1>8. AcksHold(j, back)
  BY <1>1, <1>2, <1>7 DEF Direction, AcksHold
<1>9. Covered(s, j)
  BY <1>2 DEF Direction, Covered
<1> QED BY <1>5, <1>6, <1>8, <1>9 DEF Direction
-----------------------------------------------------------------------------
(* The inductive invariant of the whole link. *)
Dir(e) == Direction(kcp[e], kcp[Other(e)], sent[e], got[Other(e)],
                    net[Other(e)], inp[Other(e)], net[e])

LEMMA ShapesInv ==
  ASSUME TypeInv, NEW e \in Peers
  PROVE  Shapes(kcp[e], kcp[Other(e)], sent[e], got[Other(e)],
                net[Other(e)], inp[Other(e)], net[e])
<1>1. Other(e) \in Peers
  BY PeersLemma
<1> QED BY <1>1 DEF TypeInv, Shapes

LEMMA InitInv == Init => IndInv
<1> SUFFICES ASSUME Init, NEW e \in Peers PROVE Dir(e)
  BY DEF IndInv, Dir
<1> DEFINE c == ikcp_create
           f == <<>>
<1>1. Other(e) \in Peers
  BY PeersLemma
<1>2. kcp[e] = c /\ kcp[Other(e)] = c /\ sent[e] = f /\ got[Other(e)] = f
      /\ net[Other(e)] = {} /\ inp[Other(e)] = f /\ net[e] = {}
  BY <1>1 DEF Init
<1>3. c.snd_queue = f /\ c.snd_buf = f /\ c.rcv_queue = f /\ c.rcv_buf = f /\ c.acklist = f
      /\ c.snd_nxt = 0 /\ c.rcv_nxt = 0
  BY DEF ikcp_create
<1>4. DOMAIN f = {} /\ Len(f) = 0
  OBVIOUS
<1> HIDE DEF c, f
<1>5. \A x, y : PartOf(f, x, y)
  BY <1>4 DEF PartOf
<1>6. Direction(c, c, f, f, {}, f, {})
  BY <1>3, <1>4, <1>5 DEF Direction, SenderHolds, ReceiverHolds, PushesHold, AcksHold, Covered
<1> QED BY <1>2, <1>6 DEF Dir

(* One round of the ikcp_recv loop, on a control block k for which the     *)
(* direction into it holds.                                                *)
LEMMA ReadOneDir ==
  ASSUME TypeInv, NEW a \in Peers, NEW k \in Kcp, ReadOne(a, k),
         NEW s, NEW st, NEW to, NEW at, NEW back,
         Shapes(s, k, st, got[a], to, at, back),
         Direction(s, k, st, got[a], to, at, back)
  PROVE  /\ Direction(s, kcp'[a], st, got'[a], to, at, back)
         /\ SameSender(k, kcp'[a])
         /\ \A e \in Peers \ {a} : kcp'[e] = kcp[e] /\ got'[e] = got[e]
<1>1. CASE CanRecv(k)
  <2> DEFINE c == PeekCount(k)
             m == RecvMessage(k)
             g == got[a]
             g2 == g \o m
  <2>1. CanPeek(k)
    BY <1>1 DEF CanRecv
  <2>2. c \in 1..Len(k.rcv_queue) /\ m \in Seq(Seg) /\ Len(m) = c
        /\ \A i \in 1..c : m[i] = k.rcv_queue[i]
    BY <2>1, PeekLemma
  <2>3. PICK n \in Nat : Shifted(k, ikcp_recv(k), c, n)
    BY <2>1, RecvLemma
  <2>4. kcp' = [kcp EXCEPT ![a] = ikcp_recv(k)] /\ got' = [got EXCEPT ![a] = g2]
    BY <1>1 DEF ReadOne
  <2>5. kcp'[a] = ikcp_recv(k) /\ got'[a] = g2
        /\ \A e \in Peers \ {a} : kcp'[e] = kcp[e] /\ got'[e] = got[e]
    BY <2>4 DEF TypeInv
  <2> HIDE DEF c, m
  <2>6. g \in Seq(Seg)
    BY DEF TypeInv
  <2> HIDE DEF g
  <2>7. Len(g2) = Len(g) + c /\ (\A i \in 1..Len(g) : g2[i] = g[i])
        /\ \A i \in 1..c : g2[Len(g) + i] = m[i]
    BY <2>2, <2>6
  <2>8. c \in 0..Len(k.rcv_queue) /\ \A i \in 1..c : g2[Len(g) + i] = k.rcv_queue[i]
    BY <2>2, <2>7
  <2> HIDE DEF g2
  <2>9. Direction(s, ikcp_recv(k), st, g2, to, at, back)
    BY <2>3, <2>7, <2>8, ShiftDir, ZenonT(90) DEF g
  <2> QED BY <2>3, <2>5, <2>9 DEF Shifted
<1>2. CASE ~CanRecv(k)
  <2>1. kcp' = [kcp EXCEPT ![a] = k] /\ got' = got
    BY <1>2 DEF ReadOne
  <2> QED BY <2>1 DEF TypeInv, SameSender
<1> QED BY <1>1, <1>2

LEMMA NextInv == TypeInv /\ IndInv /\ [Next]_vars => IndInv'
<1> SUFFICES ASSUME TypeInv, IndInv, [Next]_vars PROVE \A e \in Peers : Dir(e)'
  BY DEF IndInv, Dir
<1>1. \A e \in Peers : Dir(e) /\ Other(e) \in Peers /\ Other(e) # e /\ Other(Other(e)) = e
  BY PeersLemma DEF IndInv, Dir
<1>2. ASSUME NEW a \in Peers, Dir(a)', Dir(Other(a))' PROVE \A e \in Peers : Dir(e)'
  BY <1>2, PeersLemma
<1>3. ASSUME NEW a \in Peers, Sends(a) PROVE Dir(a)' /\ Dir(Other(a))'
  <2>1. PICK n \in Reads : Send(a, n)
    BY <1>3 DEF Sends
  <2> DEFINE fr == Fragments(Written(a), n)
             k == kcp[a]
             k2 == ikcp_send(k, Written(a), n)
             b == Other(a)
  <2>2. n \in Nat \ {0} /\ FragCount(n) < WndRcv /\ Written(a) \in Nat /\ k \in Kcp
    BY LinkAssumption, ReadAssumption, WrittenType DEF TypeInv
  <2>3. fr \in Seq(Seg) /\ k2 = [k EXCEPT !.snd_queue = @ \o fr]
    BY <2>2, SendLemma, FragmentsType
  <2>4. kcp' = [kcp EXCEPT ![a] = k2] /\ sent' = [sent EXCEPT ![a] = @ \o fr]
        /\ UNCHANGED <<net, inp, got>>
    BY <2>1 DEF Send
  <2> HIDE DEF fr, k2, b
  <2>5. b \in Peers /\ b # a /\ Other(b) = a /\ Other(a) = b
    BY <1>1 DEF b
  <2>6. kcp'[a] = k2 /\ kcp'[b] = kcp[b] /\ sent'[a] = sent[a] \o fr /\ sent'[b] = sent[b]
    BY <2>4, <2>5 DEF TypeInv
  <2>7. k2.snd_queue = k.snd_queue \o fr /\ k2.snd_nxt = k.snd_nxt /\ k2.snd_buf = k.snd_buf
        /\ SameReceiver(k, k2)
    BY <2>2, <2>3 DEF Kcp, SameReceiver
  <2>8. Direction(k2, kcp[b], sent[a] \o fr, got[b], net[b], inp[b], net[a])
    BY <1>1, <2>3, <2>5, <2>7, SendDir, ShapesInv DEF Dir
  <2>9. Direction(kcp[b], k2, sent[b], got[a], net[a], inp[a], net[b])
    <3>1. SameSender(kcp[b], kcp[b])
      BY DEF SameSender
    <3> QED BY <1>1, <2>5, <2>7, <3>1, SameDir, ShapesInv DEF Dir
  <2> QED BY <2>4, <2>5, <2>6, <2>8, <2>9 DEF Dir, b
<1>4. ASSUME NEW a \in Peers, Updates(a) PROVE Dir(a)' /\ Dir(Other(a))'
  <2>1. PICK due \in SUBSET DOMAIN kcp[a].snd_buf, probeDue \in {FALSE, CanProbe(kcp[a])} :
          Update(a, due, probeDue, TRUE)
    BY <1>4 DEF Updates
  <2> DEFINE b == Other(a)
             k == kcp[a]
             f == FillSndBuf(k)
             m == ikcp_flush(k, f)
             out == FlushOutput(k, f, due, probeDue)
  <2>2. PICK t \in Transit(NetCap[b], net[b], out, TRUE) : net' = [net EXCEPT ![b] = t]
    BY <2>1 DEF Update
  <2>3. ReadOne(a, m) /\ inp' = inp /\ sent' = sent
    BY <2>1 DEF Update
  <2>4. k \in Kcp
    BY DEF TypeInv
  <2>5. Filled(k, f, FlushCount(k))
    BY <2>4, FillLemma
  <2> HIDE DEF f, b
  <2>6. m \in Kcp /\ SameSender(f, m) /\ m.acklist = <<>> /\ m.rcv_nxt = k.rcv_nxt
        /\ m.rcv_buf = k.rcv_buf /\ m.rcv_queue = k.rcv_queue
    BY <2>4, <2>5, FlushLemma DEF Filled, SameReceiver
  <2>7. \A d \in out : Carries(d, k, f)
    BY <2>4, <2>5, OutputLemma
  <2> HIDE DEF m, out, k
  <2>8. t \subseteq net[b] \cup out
    BY <2>2 DEF Transit
  <2>9. b \in Peers /\ b # a /\ Other(b) = a /\ Other(a) = b
    BY <1>1 DEF b
  <2>10. net'[b] = t /\ net'[a] = net[a]
    BY <2>2, <2>9 DEF TypeInv
  <2>11. Shapes(k, kcp[b], sent[a], got[b], net[b], inp[b], net[a])
         /\ Shapes(kcp[b], k, sent[b], got[a], net[a], inp[a], net[b])
         /\ Direction(k, kcp[b], sent[a], got[b], net[b], inp[b], net[a])
         /\ Direction(kcp[b], k, sent[b], got[a], net[a], inp[a], net[b])
    BY <1>1, <2>9, ShapesInv DEF Dir, k
  <2>12. Direction(kcp[b], m, sent[b], got[a], net[a], inp[a], t)
    <3>1. \A d \in t : \/ d \in net[b]
                       \/ /\ d.una = k.rcv_nxt
                          /\ \A sn \in d.acks : \E i \in 1..Len(k.acklist) : sn = k.acklist[i]
      BY <2>7, <2>8 DEF Carries
    <3> QED BY <2>6, <2>11, <3>1, AckDir
  <2>13. Shapes(kcp[b], m, sent[b], got[a], net[a], inp[a], t)
    <3>1. t \in SUBSET Datagram
      BY <2>7, <2>8, <2>11 DEF Shapes, Carries
    <3> QED BY <2>6, <2>11, <3>1 DEF Shapes
  <2>14. /\ Direction(kcp[b], kcp'[a], sent[b], got'[a], net[a], inp[a], t)
         /\ SameSender(m, kcp'[a])
         /\ kcp'[b] = kcp[b] /\ got'[b] = got[b]
    BY <2>3, <2>6, <2>9, <2>12, <2>13, ReadOneDir
  <2>15. Direction(kcp'[a], kcp[b], sent[a], got[b], t, inp[b], net[a])
    <3>1. SameSender(f, kcp'[a])
      BY <2>6, <2>14 DEF SameSender
    <3>2. \A d \in t : \/ d \in net[b]
                       \/ \A sn \in DOMAIN d.push : /\ sn \in DOMAIN f.snd_buf
                                                    /\ d.push[sn] = f.snd_buf[sn]
      BY <2>7, <2>8 DEF Carries
    <3> QED BY <2>5, <2>11, <3>1, <3>2, FillDir DEF k
  <2> QED BY <2>3, <2>9, <2>10, <2>14, <2>15 DEF Dir, b
<1>5. ASSUME NEW a \in Peers, WriteDone(a) PROVE Dir(a)' /\ Dir(Other(a))'
  <2> DEFINE b == Other(a)
  <2>1. ReadOne(a, kcp[a]) /\ kcp[a] \in Kcp /\ UNCHANGED <<net, inp, sent>>
    BY <1>5 DEF WriteDone, TypeInv
  <2>2. b \in Peers /\ b # a /\ Other(b) = a /\ Other(a) = b
    BY <1>1
  <2> HIDE DEF b
  <2>3. Shapes(kcp[b], kcp[a], sent[b], got[a], net[a], inp[a], net[b])
        /\ Direction(kcp[b], kcp[a], sent[b], got[a], net[a], inp[a], net[b])
    BY <1>1, <2>2, ShapesInv DEF Dir
  <2>4. /\ Direction(kcp[b], kcp'[a], sent[b], got'[a], net[a], inp[a], net[b])
        /\ SameSender(kcp[a], kcp'[a]) /\ kcp'[b] = kcp[b] /\ got'[b] = got[b]
    BY <2>1, <2>2, <2>3, ReadOneDir
  <2>5. Direction(kcp'[a], kcp[b], sent[a], got[b], net[b], inp[b], net[a])
    <3>1. SameReceiver(kcp[b], kcp[b])
      BY DEF SameReceiver
    <3> QED BY <1>1, <2>2, <2>4, <3>1, SameDir, ShapesInv DEF Dir
  <2> QED BY <2>1, <2>2, <2>4, <2>5 DEF Dir, b
<1>6. ASSUME NEW a \in Peers, Inputs(a) PROVE Dir(a)' /\ Dir(Other(a))'
  <2>1. PICK d \in net[a], again \in Again : Input(a, d, again)
    BY <1>6 DEF Inputs
  <2> DEFINE b == Other(a)
             k == kcp[a]
             k2 == ikcp_input(k, d)
  <2>2. b \in Peers /\ b # a /\ Other(b) = a /\ Other(a) = b
    BY <1>1
  <2>3. kcp' = [kcp EXCEPT ![a] = k2] /\ inp' = [inp EXCEPT ![a] = d.push]
        /\ net' = (IF again THEN net ELSE [net EXCEPT ![a] = @ \ {d}]) /\ UNCHANGED <<sent, got>>
    BY <2>1 DEF Input
  <2>4. d \in Datagram /\ k \in Kcp
    BY DEF TypeInv
  <2>5. SameReceiver(k, k2)
    BY <2>4, InputLemma
  <2> HIDE DEF b, k2
  <2>6. kcp'[a] = k2 /\ kcp'[b] = kcp[b] /\ inp'[a] = d.push /\ inp'[b] = inp[b]
        /\ net'[b] = net[b] /\ net'[a] \in SUBSET net[a]
    BY <2>2, <2>3 DEF TypeInv
  <2>7. Direction(k2, kcp[b], sent[a], got[b], net[b], inp[b], net'[a])
    BY <1>1, <2>2, <2>6, InputDir, ShapesInv DEF Dir, k2
  <2>8. Direction(kcp[b], k2, sent[b], got[a], net[a], inp[a], net[b])
    <3>1. SameSender(kcp[b], kcp[b])
      BY DEF SameSender
    <3> QED BY <1>1, <2>2, <2>5, <3>1, SameDir, ShapesInv DEF Dir
  <2>9. Direction(kcp[b], k2, sent[b], got[a], net'[a], d.push, net[b])
    BY <2>6, <2>8 DEF Direction, PushesHold
  <2> QED BY <2>2, <2>3, <2>6, <2>7, <2>9 DEF Dir, b
<1>7. ASSUME NEW a \in Peers, InputPush(a) PROVE Dir(a)' /\ Dir(Other(a))'
  <2> DEFINE b == Other(a)
             k == kcp[a]
             at == inp[a]
             sn == Min(DOMAIN at)
             k2 == ikcp_input_push(k, sn, at[sn])
  <2>1. b \in Peers /\ b # a /\ Other(b) = a /\ Other(a) = b
    BY <1>1
  <2>2. k \in Kcp /\ at \in SnMap(Seg)
    BY DEF TypeInv
  <2>3. DOMAIN at \in SUBSET Nat /\ DOMAIN at # {}
    BY <1>7, <2>2, SnMapElim DEF InputPush
  <2>4. sn \in DOMAIN at
    BY <2>3, NatMin
  <2>5. sn \in Nat /\ at[sn] \in Seg
    BY <2>2, <2>3, <2>4, SnMapElim
  <2>6. kcp' = [kcp EXCEPT ![a] = k2] /\ inp' = [inp EXCEPT ![a] = Without(at, {sn})]
        /\ UNCHANGED <<net, sent, got>>
    BY <1>7 DEF InputPush
  <2> HIDE DEF b, sn
  <2>7. PICK j, n : n \in Nat /\ Kept(k, j, sn, at[sn]) /\ Shifted(j, k2, 0, n)
    BY <2>2, <2>5, PushLemma
  <2> HIDE DEF k2
  <2>8. kcp'[a] = k2 /\ kcp'[b] = kcp[b] /\ inp'[a] = Without(at, {sn}) /\ inp'[b] = inp[b]
    BY <2>1, <2>6 DEF TypeInv
  <2> DEFINE at2 == Without(at, {sn})
  <2>9. at2 \in SnMap(Seg)
    BY <2>2, WithoutType
  <2>10. Shapes(kcp[b], k, sent[b], got[a], net[a], at, net[b])
         /\ Direction(kcp[b], k, sent[b], got[a], net[a], at, net[b])
    BY <1>1, <2>1, ShapesInv DEF Dir
  <2>11. Direction(kcp[b], j, sent[b], got[a], net[a], at2, net[b])
    BY <2>4, <2>7, <2>10, KeptDir
  <2> HIDE DEF at2
  <2>12. Shapes(kcp[b], j, sent[b], got[a], net[a], at2, net[b])
    BY <2>7, <2>9, <2>10 DEF Shapes, Kept
  <2>13. Direction(kcp[b], k2, sent[b], got[a], net[a], at2, net[b])
    <3> DEFINE g == got[a]
    <3>1. Len(g) = Len(g) + 0 /\ (\A i \in 1..Len(g) : g[i] = g[i]) /\ 0 \in 0..Len(j.rcv_queue)
          /\ \A i \in 1..0 : g[Len(g) + i] = j.rcv_queue[i]
      <4>1. g \in Seq(Seg) /\ j.rcv_queue \in Seq(Seg)
        BY <2>12 DEF Shapes, Kcp
      <4>2. Len(g) \in Nat /\ Len(j.rcv_queue) \in Nat
        BY <4>1
      <4> QED BY <4>2
    <3> HIDE DEF g
    <3> QED BY <2>7, <2>11, <2>12, <3>1, ShiftDir DEF g
  <2>14. Direction(k2, kcp[b], sent[a], got[b], net[b], inp[b], net[a])
    <3>1. SameSender(k, k2)
      BY <2>7 DEF Kept, Shifted, SameSender
    <3>2. SameReceiver(kcp[b], kcp[b])
      BY DEF SameReceiver
    <3> QED BY <1>1, <2>1, <3>1, <3>2, SameDir, ShapesInv DEF Dir
  <2> QED BY <2>1, <2>6, <2>8, <2>13, <2>14 DEF Dir, b, at2
<1>8. CASE UNCHANGED vars
  BY <1>1, <1>8 DEF vars, Dir
<1> QED BY <1>2, <1>3, <1>4, <1>5, <1>6, <1>7, <1>8 DEF Next

(* The inductive invariant holds: every copy of a segment agrees with the  *)
(* byte stream, what the receiver acknowledges it holds, and what it does  *)
(* not hold is still in the sender's snd_buf.                              *)
THEOREM Inductive == Spec => []IndInv
<1>1. Init => TypeInv /\ IndInv
  BY InitType, InitInv
<1>2. TypeInv /\ IndInv /\ [Next]_vars => TypeInv' /\ IndInv'
  BY NextType, NextInv
<1> QED BY <1>1, <1>2, PTL DEF Spec

(* What a TCP peer is handed is a prefix of what the other one wrote, with *)
(* any number of bytes, any windows and any loss, repetition or reordering *)
(* of datagrams.                                                           *)
THEOREM DeliveredInOrder == Spec => []InOrder
<1>1. TypeInv /\ IndInv => InOrder
  <2> SUFFICES ASSUME TypeInv, IndInv, NEW e \in Peers
               PROVE  /\ Len(got[e]) <= Len(sent[Other(e)])
                      /\ \A i \in 1..Len(got[e]) : got[e][i] = sent[Other(e)][i]
    BY DEF InOrder
  <2> DEFINE b == Other(e)
  <2>1. b \in Peers /\ Other(b) = e
    BY PeersLemma
  <2>2. Dir(b)
    BY <2>1 DEF IndInv, Dir
  <2> HIDE DEF b
  <2>3. ReceiverHolds(kcp[b], kcp[e], sent[b], got[e]) /\ SenderHolds(kcp[b], sent[b])
    BY <2>1, <2>2 DEF Dir, Direction
  <2>4. \A i \in 1..Len(got[e]) : got[e][i] = sent[b][i]
    BY <2>3 DEF ReceiverHolds
  <2>5. kcp[e].rcv_nxt <= kcp[b].snd_nxt /\ Len(got[e]) + Len(kcp[e].rcv_queue) = kcp[e].rcv_nxt
        /\ kcp[b].snd_nxt + Len(kcp[b].snd_queue) = Len(sent[b])
    BY <2>3 DEF ReceiverHolds, SenderHolds
  <2>6. Shapes(kcp[b], kcp[e], sent[b], got[e], net[e], inp[e], net[b])
    BY <2>1, ShapesInv
  <2>7. kcp[b].snd_nxt \in Nat /\ kcp[e].rcv_nxt \in Nat /\ Len(kcp[b].snd_queue) \in Nat
        /\ Len(kcp[e].rcv_queue) \in Nat /\ Len(sent[b]) \in Nat /\ Len(got[e]) \in Nat
    BY <2>6, ShapesLemma, Zenon
  <2>8. Len(got[e]) <= Len(sent[b])
    <3> DEFINE x == Len(got[e])
               q == Len(kcp[e].rcv_queue)
               y == kcp[b].snd_nxt
               t == Len(kcp[b].snd_queue)
               u == Len(sent[b])
               r == kcp[e].rcv_nxt
    <3>1. x \in Nat /\ q \in Nat /\ y \in Nat /\ t \in Nat /\ u \in Nat /\ r \in Nat
      BY <2>7
    <3>2. r <= y /\ x + q = r /\ y + t = u
      BY <2>5
    <3> HIDE DEF x, q, y, t, u, r
    <3>3. x <= u
      BY <3>1, <3>2
    <3> QED BY <3>3 DEF x, u
  <2> QED BY <2>4, <2>8 DEF b
<1>2. Spec => []TypeInv
  BY InitType, NextType, PTL DEF Spec
<1> QED BY <1>1, <1>2, Inductive, PTL

(* No segment is acknowledged and then lost: what ikcp_parse_ack or        *)
(* ikcp_parse_una deletes at the sender the receiver has.                  *)
THEOREM AcknowledgedIsHeld == Spec => []AckedIsHeld
<1>1. IndInv => AckedIsHeld
  BY DEF IndInv, Direction, Covered, Held, AckedIsHeld
<1> QED BY <1>1, Inductive, PTL
-----------------------------------------------------------------------------
(* The receive window. *)
InWindow(k) ==
  /\ Len(k.rcv_queue) <= RcvWnd
  /\ \A sn \in DOMAIN k.rcv_buf : k.rcv_nxt <= sn /\ sn < k.rcv_nxt + RcvWnd

LEMMA ShiftWindow ==
  ASSUME NEW k \in Kcp, InWindow(k), NEW r, NEW c \in 0..Len(k.rcv_queue), NEW n \in Nat,
         Shifted(k, r, c, n)
  PROVE  InWindow(r)
<1> DEFINE x == k.rcv_nxt
           L == Len(k.rcv_queue)
<1>1. x \in Nat /\ L \in Nat /\ RcvWnd \in Nat /\ DOMAIN k.rcv_buf \subseteq Nat /\ c \in 0..L
  BY RcvWndType, SnMapElim DEF Kcp
<1>2. L <= RcvWnd /\ \A sn \in DOMAIN k.rcv_buf : x <= sn /\ sn < x + RcvWnd
  BY DEF InWindow
<1>3. r.rcv_nxt = x + n /\ DOMAIN r.rcv_buf = DOMAIN k.rcv_buf \ (x .. (x + n - 1))
      /\ (L - c <= RcvWnd => Len(r.rcv_queue) <= RcvWnd)
  BY Zenon DEF Shifted
<1> HIDE DEF x, L
<1>4. Len(r.rcv_queue) <= RcvWnd
  <2>1. L - c <= RcvWnd
    BY <1>1, <1>2
  <2> QED BY <1>3, <2>1
<1>5. ASSUME NEW sn \in DOMAIN r.rcv_buf PROVE x + n <= sn /\ sn < x + n + RcvWnd
  <2>1. sn \in Nat /\ x <= sn /\ sn < x + RcvWnd /\ sn \notin x .. (x + n - 1)
    BY <1>1, <1>2, <1>3
  <2> QED BY <1>1, <2>1
<1> QED BY <1>3, <1>4, <1>5 DEF InWindow

LEMMA ReadOneWindow ==
  ASSUME TypeInv, RcvWindow, NEW a \in Peers, NEW k \in Kcp, InWindow(k), ReadOne(a, k)
  PROVE  RcvWindow'
<1>1. \A e \in Peers : InWindow(kcp[e])
  BY DEF RcvWindow, InWindow
<1>2. InWindow(kcp'[a]) /\ \A e \in Peers \ {a} : kcp'[e] = kcp[e]
  <2>1. CASE CanRecv(k)
    <3>1. CanPeek(k) /\ kcp' = [kcp EXCEPT ![a] = ikcp_recv(k)]
      BY <2>1 DEF CanRecv, ReadOne
    <3>2. PICK n \in Nat : Shifted(k, ikcp_recv(k), PeekCount(k), n)
      BY <3>1, RecvLemma
    <3>3. PeekCount(k) \in 1..Len(k.rcv_queue)
      BY <3>1, PeekLemma
    <3>4. PeekCount(k) \in 0..Len(k.rcv_queue)
      BY <3>3
    <3>5. InWindow(ikcp_recv(k))
      BY <3>2, <3>4, ShiftWindow
    <3> QED BY <3>1, <3>5 DEF TypeInv
  <2>2. CASE ~CanRecv(k)
    BY <2>2 DEF ReadOne, TypeInv
  <2> QED BY <2>1, <2>2
<1>3. \A e \in Peers : InWindow(kcp'[e])
  BY <1>1, <1>2
<1> QED BY <1>3 DEF RcvWindow, InWindow

(* The receiver's queues stay within the receive window, whatever the      *)
(* sender believes the window to be: what ikcp_input admits and            *)
(* ikcp_parse_data moves is bounded by rcv_wnd alone.                      *)
THEOREM ReceiverBounded == Spec => []RcvWindow
<1>1. Init => RcvWindow
  <2> SUFFICES ASSUME Init, NEW e \in Peers PROVE InWindow(kcp[e])
    BY DEF RcvWindow, InWindow
  <2>1. kcp[e].rcv_queue = <<>> /\ DOMAIN kcp[e].rcv_buf = {}
    BY DEF Init, ikcp_create
  <2>2. Len(<<>>) <= RcvWnd
    BY RcvWndType
  <2> QED BY <2>1, <2>2 DEF InWindow
<1>2. TypeInv /\ RcvWindow /\ [Next]_vars => RcvWindow'
  <2> SUFFICES ASSUME TypeInv, RcvWindow, [Next]_vars PROVE RcvWindow'
    OBVIOUS
  <2>1. \A e \in Peers : InWindow(kcp[e]) /\ kcp[e] \in Kcp
    BY DEF RcvWindow, InWindow, TypeInv
  <2>2. ASSUME NEW a \in Peers, NEW k, kcp' = [kcp EXCEPT ![a] = k], InWindow(k)
        PROVE  RcvWindow'
    <3>1. \A e \in Peers : InWindow(kcp'[e])
      BY <2>1, <2>2 DEF TypeInv
    <3> QED BY <3>1 DEF RcvWindow, InWindow
  <2>3. ASSUME NEW a \in Peers, Sends(a) PROVE RcvWindow'
    <3>1. PICK n \in Reads : Send(a, n)
      BY <2>3 DEF Sends
    <3> DEFINE k == ikcp_send(kcp[a], Written(a), n)
    <3>2. k.rcv_queue = kcp[a].rcv_queue /\ k.rcv_buf = kcp[a].rcv_buf
          /\ k.rcv_nxt = kcp[a].rcv_nxt
      BY <2>1 DEF ikcp_send, Kcp
    <3>3. kcp' = [kcp EXCEPT ![a] = k]
      BY <3>1 DEF Send
    <3> HIDE DEF k
    <3>4. InWindow(k)
      BY <2>1, <3>2 DEF InWindow
    <3> QED BY <2>2, <3>3, <3>4
  <2>4. ASSUME NEW a \in Peers, Updates(a) PROVE RcvWindow'
    <3> DEFINE f == FillSndBuf(kcp[a])
               k == ikcp_flush(kcp[a], f)
    <3>1. ReadOne(a, k)
      BY <2>4 DEF Updates, Update
    <3>2. Filled(kcp[a], f, FlushCount(kcp[a]))
      BY <2>1, FillLemma
    <3> HIDE DEF f
    <3>3. k \in Kcp /\ k.rcv_nxt = kcp[a].rcv_nxt /\ k.rcv_buf = kcp[a].rcv_buf
          /\ k.rcv_queue = kcp[a].rcv_queue
      BY <2>1, <3>2, FlushLemma DEF Filled, SameReceiver
    <3> HIDE DEF k
    <3>4. InWindow(k)
      BY <2>1, <3>3 DEF InWindow
    <3> QED BY <3>1, <3>3, <3>4, ReadOneWindow
  <2>5. ASSUME NEW a \in Peers, WriteDone(a) PROVE RcvWindow'
    <3>1. ReadOne(a, kcp[a])
      BY <2>5 DEF WriteDone
    <3> QED BY <2>1, <3>1, ReadOneWindow
  <2>6. ASSUME NEW a \in Peers, Inputs(a) PROVE RcvWindow'
    <3>1. PICK d \in net[a], again \in Again : Input(a, d, again)
      BY <2>6 DEF Inputs
    <3> DEFINE k == ikcp_input(kcp[a], d)
    <3>2. d \in Datagram
      BY DEF TypeInv
    <3>3. SameReceiver(kcp[a], k)
      BY <2>1, <3>2, InputLemma
    <3>4. kcp' = [kcp EXCEPT ![a] = k]
      BY <3>1 DEF Input
    <3> HIDE DEF k
    <3>5. InWindow(k)
      BY <2>1, <3>3 DEF InWindow, SameReceiver
    <3> QED BY <2>2, <3>4, <3>5
  <2>7. ASSUME NEW a \in Peers, InputPush(a) PROVE RcvWindow'
    <3> DEFINE at == inp[a]
               sn == Min(DOMAIN at)
               k == ikcp_input_push(kcp[a], sn, at[sn])
    <3>1. at \in SnMap(Seg)
      BY DEF TypeInv
    <3>2. DOMAIN at \in SUBSET Nat /\ DOMAIN at # {}
      BY <2>7, <3>1, SnMapElim DEF InputPush
    <3>3. sn \in DOMAIN at
      BY <3>2, NatMin
    <3>4. sn \in Nat /\ at[sn] \in Seg
      BY <3>1, <3>2, <3>3, SnMapElim
    <3>5. kcp' = [kcp EXCEPT ![a] = k]
      BY <2>7 DEF InputPush
    <3> HIDE DEF sn
    <3>6. PICK j, n : n \in Nat /\ Kept(kcp[a], j, sn, at[sn]) /\ Shifted(j, k, 0, n)
      BY <2>1, <3>4, PushLemma
    <3> HIDE DEF k
    <3>7. j \in Kcp /\ InWindow(j)
      BY <2>1, <3>6 DEF Kept, InWindow
    <3>8. 0 \in 0..Len(j.rcv_queue)
      <4>1. Len(j.rcv_queue) \in Nat
        BY <3>7 DEF Kcp
      <4> QED BY <4>1
    <3>9. InWindow(k)
      BY <3>6, <3>7, <3>8, ShiftWindow
    <3> QED BY <2>2, <3>5, <3>9
  <2>8. CASE UNCHANGED vars
    BY <2>8 DEF vars, RcvWindow
  <2> QED BY <2>3, <2>4, <2>5, <2>6, <2>7, <2>8 DEF Next
<1>3. Spec => []TypeInv
  BY InitType, NextType, PTL DEF Spec
<1> QED BY <1>1, <1>2, <1>3, PTL DEF Spec

-----------------------------------------------------------------------------
(***************************************************************************)
(* KcpLink implements ReliableStream: every step of the link writes or     *)
(* delivers one whole message, or is a stutter.                            *)
(***************************************************************************)
(* From each of its segments on, a stream counts down to the last fragment *)
(* of the message.                                                         *)
Framed(st) ==
  \A i \in 1..Len(st) : \A j \in 0 .. st[i].frg :
    i + j <= Len(st) /\ st[i + j].frg = st[i].frg - j

AllFramed == \A e \in Peers : Framed(sent[e])

(* Appending a message, as ikcp_send fragments it. *)
LEMMA AppendFramed ==
  ASSUME NEW st \in Seq(Seg), Framed(st), NEW m \in Seq(Seg), Len(m) > 0,
         \A i \in 1..Len(m) : m[i].frg = Len(m) - i
  PROVE  Framed(st \o m) /\ Stream!OneMore(st, st \o m)
<1> DEFINE r == st \o m
           L == Len(st)
           c == Len(m)
<1>1. L \in Nat /\ c \in Nat /\ Len(r) = L + c
  OBVIOUS
<1>2. (\A i \in 1..L : r[i] = st[i]) /\ \A i \in 1..c : r[L + i] = m[i]
  OBVIOUS
<1>3. ASSUME NEW i \in 1..L PROVE st[i].frg \in Nat
  <2>1. st[i] \in Seg
    OBVIOUS
  <2> QED BY <2>1 DEF Seg
<1>4. (\A i \in 1..c : m[i].frg = c - i) /\ c > 0
  OBVIOUS
<1>5. \A i \in 1..L : \A j \in 0 .. st[i].frg : i + j <= L /\ st[i + j].frg = st[i].frg - j
  BY DEF Framed
<1> HIDE DEF r, L, c
<1>6. ASSUME NEW i \in (L + 1)..(L + c) PROVE r[i].frg = L + c - i
  <2>1. i - L \in 1..c /\ L + (i - L) = i
    BY <1>1, <1>6
  <2>2. r[i] = m[i - L] /\ m[i - L].frg = c - (i - L)
    BY <1>2, <1>4, <2>1
  <2> QED BY <1>1, <1>6, <2>2
<1>7. ASSUME NEW i \in 1..(L + c), NEW j \in 0 .. r[i].frg
      PROVE  i + j <= L + c /\ r[i + j].frg = r[i].frg - j
  <2>1. CASE i <= L
    <3>1. i \in 1..L
      BY <1>1, <1>7, <2>1
    <3>2. r[i] = st[i]
      BY <1>2, <3>1
    <3>3. i + j <= L /\ st[i + j].frg = st[i].frg - j /\ j \in 0 .. st[i].frg
      BY <1>5, <1>7, <3>1, <3>2
    <3>4. j \in Nat
      BY <1>3, <3>1, <3>3
    <3>5. i + j \in 1..L
      BY <1>1, <3>1, <3>3, <3>4
    <3>6. r[i + j] = st[i + j]
      BY <1>2, <3>5
    <3> QED BY <1>1, <3>2, <3>3, <3>5, <3>6
  <2>2. CASE i > L
    <3>1. i \in (L + 1)..(L + c)
      BY <1>1, <1>7, <2>2
    <3>2. r[i].frg = L + c - i
      BY <1>6, <3>1
    <3>3. j \in 0..(L + c - i)
      BY <1>7, <3>2
    <3>4. i + j \in (L + 1)..(L + c)
      BY <1>1, <3>1, <3>3
    <3>5. r[i + j].frg = L + c - (i + j)
      BY <1>6, <3>4
    <3> QED BY <1>1, <3>1, <3>2, <3>3, <3>4, <3>5
  <2> QED BY <1>1, <1>7, <2>1, <2>2
<1>8. Framed(r)
  BY <1>1, <1>7 DEF Framed
<1>9. Stream!OneMore(st, r)
  <2>1. Len(r) > Len(st)
    BY <1>1, <1>4 DEF L
  <2>2. \A i \in 1..Len(st) : r[i] = st[i]
    BY <1>2 DEF L
  <2>3. \A i \in (Len(st) + 1)..Len(r) : r[i].frg = Len(r) - i
    BY <1>1, <1>6 DEF L
  <2> QED BY <2>1, <2>2, <2>3 DEF Stream!OneMore
<1> QED BY <1>8, <1>9 DEF r

-----------------------------------------------------------------------------
(* The queue holds a part of the framed stream, so the first segment       *)
(* without further fragments is as far away as the first one says.         *)
LEMMA PeekWhole ==
  ASSUME NEW k \in Kcp, CanPeek(k), NEW st \in Seq(Seg), Framed(st), NEW b \in Nat,
         b + Len(k.rcv_queue) <= Len(st),
         \A i \in 1..Len(k.rcv_queue) : k.rcv_queue[i] = st[b + i]
  PROVE  LET q == k.rcv_queue
             c == PeekCount(k)
         IN  c = q[1].frg + 1 /\ \A i \in 1..c : q[i].frg = c - i
<1> DEFINE q == k.rcv_queue
           N == Len(q)
           f == q[1].frg
           S == {i \in 1..N : q[i].frg = 0} \cup {N}
           c == PeekCount(k)
<1>1. q \in Seq(Seg) /\ q # <<>> /\ N >= f + 1
  BY DEF CanPeek, Kcp
<1>2. N \in Nat \ {0} /\ f \in Nat
  <2>1. N \in Nat \ {0}
    BY <1>1
  <2>2. q[1] \in Seg
    BY <1>1, <2>1
  <2> QED BY <2>1, <2>2 DEF Seg
<1>3. c = Min(S)
  BY DEF PeekCount
<1>4. ASSUME NEW i \in 1..(f + 1) PROVE i \in 1..N /\ q[i].frg = f + 1 - i
  <2>1. i \in 1..N /\ 1 \in 1..N
    BY <1>1, <1>2
  <2>2. b + 1 \in 1..Len(st) /\ q[1] = st[b + 1] /\ q[i] = st[b + i]
    <3>1. Len(st) \in Nat /\ b + N <= Len(st)
      OBVIOUS
    <3> HIDE DEF N
    <3>2. b + 1 \in 1..Len(st)
      BY <1>2, <3>1
    <3> QED BY <2>1, <3>2 DEF N
  <2>3. i - 1 \in 0 .. st[b + 1].frg
    BY <1>2, <2>2
  <2>4. st[(b + 1) + (i - 1)].frg = st[b + 1].frg - (i - 1)
    BY <2>2, <2>3 DEF Framed
  <2>5. (b + 1) + (i - 1) = b + i
    BY <2>1
  <2>6. q[i].frg = f - (i - 1)
    BY <2>2, <2>4, <2>5
  <2> HIDE DEF f, N
  <2>7. f - (i - 1) = f + 1 - i
    BY <1>2, <2>1
  <2> QED BY <2>1, <2>6, <2>7, Zenon
<1> HIDE DEF f, q, c
<1>5. S \in SUBSET Nat /\ S # {} /\ f + 1 \in S
  <2>1. f + 1 \in 1..(f + 1)
    BY <1>2
  <2>2. f + 1 \in 1..N /\ q[f + 1].frg = f + 1 - (f + 1)
    BY <1>4, <2>1
  <2> HIDE DEF N
  <2> QED BY <1>2, <2>2
<1>6. \A y \in S : f + 1 <= y
  <2> SUFFICES ASSUME NEW y \in S, ~(f + 1 <= y) PROVE FALSE
    OBVIOUS
  <2>1. y \in Nat /\ N \in Nat
    BY <1>2, <1>5
  <2>2. y # N
    BY <1>1, <1>2, <2>1 DEF f, q
  <2>3. y \in 1..N /\ q[y].frg = 0
    BY <2>2
  <2> HIDE DEF N, S
  <2>4. y \in 1..(f + 1) /\ f + 1 - y # 0
    BY <1>2, <2>1, <2>3
  <2> QED BY <1>4, <2>3, <2>4
<1> HIDE DEF S, N
<1>7. Min(S) \in S /\ \A y \in S : Min(S) =< y
  BY <1>5, NatMin
<1>8. c = f + 1
  <2>1. Min(S) \in Nat /\ Min(S) <= f + 1 /\ f + 1 <= Min(S)
    BY <1>5, <1>6, <1>7
  <2> QED BY <1>2, <1>3, <2>1
<1>9. ASSUME NEW i \in 1..c PROVE q[i].frg = c - i
  <2>1. i \in 1..(f + 1)
    BY <1>8
  <2>2. q[i].frg = f + 1 - i
    BY <1>4, <2>1
  <2>3. f + 1 - i = c - i
    BY <1>2, <1>8
  <2> QED BY <2>2, <2>3, Zenon
<1> QED BY <1>8, <1>9, Zenon DEF c, f, q

(* So what ikcp_recv hands out is one whole message. *)
LEMMA RecvWhole ==
  ASSUME NEW k \in Kcp, CanPeek(k), NEW st \in Seq(Seg), Framed(st), NEW b \in Nat,
         b + Len(k.rcv_queue) <= Len(st),
         \A i \in 1..Len(k.rcv_queue) : k.rcv_queue[i] = st[b + i]
  PROVE  \A i \in 1..Len(RecvMessage(k)) :
           RecvMessage(k)[i].frg = Len(RecvMessage(k)) - i
<1>1. \A i \in 1..PeekCount(k) : k.rcv_queue[i].frg = PeekCount(k) - i
  BY PeekWhole
<1>2. Len(RecvMessage(k)) = PeekCount(k)
      /\ \A i \in 1..PeekCount(k) : RecvMessage(k)[i] = k.rcv_queue[i]
  BY PeekLemma
<1> QED BY <1>1, <1>2, Zenon

(* The queue of one end is the part of what the other end sent that        *)
(* follows what has been handed out.                                       *)
LEMMA QueueIsPart ==
  ASSUME TypeInv, IndInv, NEW e \in Peers
  PROVE  LET st == sent[Other(e)]
             b  == Len(got[e])
             q  == kcp[e].rcv_queue
         IN  st \in Seq(Seg) /\ b \in Nat /\ b + Len(q) <= Len(st)
             /\ \A i \in 1..Len(q) : q[i] = st[b + i]
<1> DEFINE o == Other(e)
           s == kcp[o]
           r == kcp[e]
<1>1. o \in Peers /\ Other(o) = e
  BY PeersLemma
<1>2. Direction(s, r, sent[o], got[e], net[e], inp[e], net[o])
  BY <1>1 DEF IndInv
<1> HIDE DEF o
<1>3. s \in Kcp /\ r \in Kcp /\ sent[o] \in Seq(Seg) /\ got[e] \in Seq(Seg)
  BY <1>1 DEF TypeInv
<1> HIDE DEF s, r
<1>4. /\ s.snd_nxt \in Nat /\ Len(s.snd_queue) \in Nat /\ r.rcv_nxt \in Nat
      /\ Len(r.rcv_queue) \in Nat /\ Len(got[e]) \in Nat /\ Len(sent[o]) \in Nat
  <2>1. s.snd_nxt \in Nat /\ s.snd_queue \in Seq(Seg)
    BY <1>3 DEF Kcp
  <2>2. r.rcv_nxt \in Nat /\ r.rcv_queue \in Seq(Seg)
    BY <1>3 DEF Kcp
  <2> QED BY <1>3, <2>1, <2>2
<1>5. /\ s.snd_nxt + Len(s.snd_queue) = Len(sent[o])
      /\ r.rcv_nxt <= s.snd_nxt
      /\ Len(got[e]) + Len(r.rcv_queue) = r.rcv_nxt
      /\ \A i \in 1..Len(r.rcv_queue) : r.rcv_queue[i] = sent[o][Len(got[e]) + i]
  BY <1>2 DEF Direction, SenderHolds, ReceiverHolds
<1>6. Len(got[e]) + Len(r.rcv_queue) <= Len(sent[o])
  <2> DEFINE x == s.snd_nxt
             y == r.rcv_nxt
             z == Len(s.snd_queue)
             w == Len(sent[o])
  <2>1. x \in Nat /\ y \in Nat /\ z \in Nat /\ w \in Nat /\ x + z = w /\ y <= x
    BY <1>4, <1>5
  <2> HIDE DEF x, y, z, w
  <2>2. y <= w
    BY <2>1
  <2> QED BY <1>5, <2>2 DEF y, w
<1> QED BY <1>3, <1>4, <1>5, <1>6 DEF o, r

-----------------------------------------------------------------------------
(* The link's steps, as steps of the stream. *)
StreamStep == \E e \in Stream!Ends : Stream!Write(e) \/ Stream!Deliver(e)

LEMMA StreamPeers ==
  Stream!Ends = Peers /\ \A e \in Peers : Stream!Peer(e) = Other(e)
BY DEF Stream!Ends, Peers, Stream!Peer, Other

LEMMA SendWrites ==
  ASSUME TypeInv, AllFramed, NEW a \in Peers, Sends(a)
  PROVE  Stream!Write(a) /\ AllFramed'
<1>1. PICK n \in Reads : Send(a, n)
  BY DEF Sends
<1> DEFINE m == Fragments(Written(a), n)
<1>2. n \in Nat \ {0} /\ Written(a) \in Nat
  BY LinkAssumption, WrittenType
<1>3. m \in Seq(Seg) /\ Len(m) = FragCount(n) /\ FragCount(n) \in Nat \ {0}
      /\ \A i \in 1..FragCount(n) : m[i].frg = FragCount(n) - i
  BY <1>2, FragmentsType, FragCountType
<1>4. sent' = [sent EXCEPT ![a] = @ \o m] /\ got' = got
  BY <1>1 DEF Send
<1> HIDE DEF m
<1>5. sent[a] \in Seq(Seg) /\ Framed(sent[a])
  BY DEF TypeInv, AllFramed
<1>6. Framed(sent[a] \o m) /\ Stream!OneMore(sent[a], sent[a] \o m)
  BY <1>3, <1>5, AppendFramed
<1>7. sent'[a] = sent[a] \o m /\ \A e \in Peers : e # a => sent'[e] = sent[e]
  BY <1>4 DEF TypeInv
<1>8. AllFramed'
  BY <1>6, <1>7 DEF AllFramed
<1>9. Stream!Write(a)
  <2>1. Other(a) \in Peers /\ Other(a) # a /\ Stream!Peer(a) = Other(a)
    BY PeersLemma, StreamPeers
  <2>2. sent'[Other(a)] = sent[Other(a)]
    BY <1>7, <2>1
  <2> QED BY <1>4, <1>6, <1>7, <2>1, <2>2, Zenon DEF Stream!Write
<1> QED BY <1>8, <1>9

LEMMA ReadDelivers ==
  ASSUME TypeInv, IndInv, AllFramed, InOrder', NEW a \in Peers, NEW k \in Kcp,
         k.rcv_queue = kcp[a].rcv_queue, ReadOne(a, k), sent' = sent
  PROVE  Stream!Deliver(a) \/ got' = got
<1>1. CASE ~CanRecv(k)
  BY <1>1 DEF ReadOne
<1>2. CASE CanRecv(k)
  <2> DEFINE o == Other(a)
             m == RecvMessage(k)
  <2>1. CanPeek(k) /\ got' = [got EXCEPT ![a] = @ \o m]
    BY <1>2 DEF CanRecv, ReadOne
  <2>2. o \in Peers /\ o # a /\ Framed(sent[o]) /\ got[a] \in Seq(Seg)
    BY PeersLemma DEF AllFramed, TypeInv
  <2>3. /\ sent[o] \in Seq(Seg) /\ Len(got[a]) \in Nat
        /\ Len(got[a]) + Len(k.rcv_queue) <= Len(sent[o])
        /\ \A i \in 1..Len(k.rcv_queue) : k.rcv_queue[i] = sent[o][Len(got[a]) + i]
    BY QueueIsPart
  <2> HIDE DEF o
  <2>4. \A i \in 1..Len(m) : m[i].frg = Len(m) - i
    BY <2>1, <2>2, <2>3, RecvWhole
  <2>5. m \in Seq(Seg) /\ Len(m) > 0
    <3>1. PeekCount(k) \in 1..Len(k.rcv_queue) /\ m \in Seq(Seg) /\ Len(m) = PeekCount(k)
      BY <2>1, PeekLemma
    <3> QED BY <3>1
  <2> HIDE DEF m
  <2>6. Stream!OneMore(got[a], got[a] \o m)
    <3> DEFINE g == got[a]
               t == g \o m
    <3>1. Len(g) \in Nat /\ Len(m) \in Nat /\ Len(t) = Len(g) + Len(m)
          /\ (\A i \in 1..Len(g) : t[i] = g[i])
          /\ \A i \in 1..Len(m) : t[Len(g) + i] = m[i]
      BY <2>2, <2>5
    <3> HIDE DEF t, g
    <3>2. ASSUME NEW i \in (Len(g) + 1)..Len(t) PROVE t[i].frg = Len(t) - i
      <4>1. i - Len(g) \in 1..Len(m) /\ Len(g) + (i - Len(g)) = i
        BY <3>1, <3>2
      <4>2. t[i] = m[i - Len(g)] /\ m[i - Len(g)].frg = Len(m) - (i - Len(g))
        BY <2>4, <3>1, <4>1
      <4> QED BY <3>1, <3>2, <4>2
    <3>3. Stream!OneMore(g, t)
      BY <2>5, <3>1, <3>2 DEF Stream!OneMore
    <3> QED BY <3>3 DEF t, g
  <2>7. got'[a] = got[a] \o m /\ got'[o] = got[o]
    BY <2>1, <2>2 DEF TypeInv
  <2>8. Len(got'[a]) <= Len(sent[o]) /\ \A i \in 1..Len(got'[a]) : got'[a][i] = sent[o][i]
    BY DEF InOrder, o
  <2>9. Stream!Peer(a) = o
    BY StreamPeers DEF o
  <2> QED BY <2>6, <2>7, <2>8, <2>9 DEF Stream!Deliver
<1> QED BY <1>1, <1>2

LEMMA NextStreams ==
  ASSUME TypeInv, IndInv, AllFramed, InOrder', [Next]_vars
  PROVE  AllFramed' /\ (StreamStep \/ UNCHANGED Stream!svars)
<1>1. \A e \in Peers : kcp[e] \in Kcp
  BY DEF TypeInv
<1>2. ASSUME NEW a \in Peers, Sends(a) PROVE AllFramed' /\ StreamStep
  BY <1>2, SendWrites, StreamPeers DEF StreamStep
<1>3. ASSUME sent' = sent, NEW a \in Peers, Stream!Deliver(a) \/ got' = got
      PROVE  AllFramed' /\ (StreamStep \/ UNCHANGED Stream!svars)
  BY <1>3, StreamPeers DEF AllFramed, StreamStep, Stream!svars
<1>4. ASSUME NEW a \in Peers, Updates(a)
      PROVE  AllFramed' /\ (StreamStep \/ UNCHANGED Stream!svars)
  <2> DEFINE f == FillSndBuf(kcp[a])
             k == ikcp_flush(kcp[a], f)
  <2>1. ReadOne(a, k) /\ sent' = sent
    BY <1>4 DEF Updates, Update
  <2>2. Filled(kcp[a], f, FlushCount(kcp[a]))
    BY <1>1, FillLemma
  <2> HIDE DEF f
  <2>3. k \in Kcp /\ k.rcv_queue = kcp[a].rcv_queue
    BY <1>1, <2>2, FlushLemma DEF Filled, SameReceiver
  <2> HIDE DEF k
  <2> QED BY <1>3, <2>1, <2>3, ReadDelivers
<1>5. ASSUME NEW a \in Peers, WriteDone(a)
      PROVE  AllFramed' /\ (StreamStep \/ UNCHANGED Stream!svars)
  <2>1. ReadOne(a, kcp[a]) /\ sent' = sent
    BY <1>5 DEF WriteDone
  <2> QED BY <1>1, <1>3, <2>1, ReadDelivers
<1>6. ASSUME NEW a \in Peers, Inputs(a) \/ InputPush(a)
      PROVE  AllFramed' /\ (StreamStep \/ UNCHANGED Stream!svars)
  <2>1. sent' = sent /\ got' = got
    BY <1>6 DEF Inputs, Input, InputPush
  <2> QED BY <1>3, <1>6, <2>1
<1>7. CASE UNCHANGED vars
  BY <1>7 DEF vars, AllFramed, Stream!svars
<1> QED BY <1>2, <1>4, <1>5, <1>6, <1>7 DEF Next

LEMMA InitStreams == Init => AllFramed /\ Stream!StreamInit
<1> SUFFICES ASSUME Init PROVE AllFramed /\ Stream!StreamInit
  OBVIOUS
<1>1. sent = [e \in Peers |-> <<>>] /\ got = [e \in Peers |-> <<>>]
  BY DEF Init
<1>2. AllFramed
  BY <1>1 DEF AllFramed, Framed
<1> QED BY <1>1, <1>2, StreamPeers DEF Stream!StreamInit

(* The link implements a reliable stream: whatever the network does, a     *)
(* forwarder writes to TCP exactly the next whole message that the other   *)
(* one read from TCP, never a part of one, and what was read never         *)
(* changes.                                                                *)
THEOREM ImplementsStream == Spec => StreamSpec
<1>1. TypeInv /\ IndInv /\ InOrder' /\ AllFramed /\ [Next]_vars =>
        AllFramed' /\ [StreamStep]_(Stream!svars)
  BY NextStreams
<1>2. Init => AllFramed /\ Stream!StreamInit
  BY InitStreams
<1>3. Spec => []TypeInv
  BY InitType, NextType, PTL DEF Spec
<1>4. Spec => [](AllFramed) /\ [][StreamStep]_(Stream!svars)
  BY <1>1, <1>2, <1>3, Inductive, DeliveredInOrder, PTL DEF Spec
<1>5. StreamStep <=> \E e \in Stream!Ends : Stream!Write(e) \/ Stream!Deliver(e)
  BY DEF StreamStep
<1> QED BY <1>2, <1>4, <1>5, PTL DEF Spec, StreamSpec, Stream!Spec
=============================================================================
