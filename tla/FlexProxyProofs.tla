--------------------------- MODULE FlexProxyProofs --------------------------
(***************************************************************************)
(* Theorems about FlexProxy, for every value of the constants: what the    *)
(* TCP server and the TCP client are given while forwarders of the server  *)
(* come and go.                                                            *)
(***************************************************************************)
EXTENDS FlexProxy, IkcpProofs, ForwarderProofs

LEMMA SidesLemma ==
  /\ Client \in Sides /\ Server \in Sides /\ Client # Server
  /\ \A e \in Sides : Other(e) \in Sides /\ Other(e) # e /\ Other(Other(e)) = e
  /\ \A a, e \in Sides : e = a \/ e = Other(a)
BY ProxyAssumption DEF Sides, Other

-----------------------------------------------------------------------------
(* A stream that is written to keeps the places of its segments. *)
Extends(st, t) == Len(st) <= Len(t) /\ \A n \in 1..Len(st) : t[n] = st[n]

Grown(from, to) ==
  /\ from \in SUBSET Seq(Seg) /\ to \in SUBSET Seq(Seg)
  /\ \A st \in from : \E t \in to : Extends(st, t)

LEMMA ExtendsPlace ==
  ASSUME NEW st \in Seq(Seg), NEW t \in Seq(Seg), Extends(st, t),
         NEW n \in Nat, NEW s, AtPlace({st}, n, s)
  PROVE  AtPlace({t}, n, s)
<1>1. n < Len(st) /\ s = st[n + 1]
  BY DEF AtPlace
<1>2. n + 1 \in 1..Len(st) /\ n < Len(t)
  BY <1>1 DEF Extends
<1> QED BY <1>1, <1>2 DEF AtPlace, Extends

LEMMA GrownPlace ==
  ASSUME NEW from, NEW to, Grown(from, to), NEW n \in Nat, NEW s, AtPlace(from, n, s)
  PROVE  AtPlace(to, n, s)
<1>1. PICK st \in from : n < Len(st) /\ s = st[n + 1]
  BY DEF AtPlace
<1>2. PICK t \in to : Extends(st, t)
  BY DEF Grown
<1>3. st \in Seq(Seg) /\ t \in Seq(Seg) /\ AtPlace({st}, n, s)
  BY <1>1 DEF Grown, AtPlace
<1>4. AtPlace({t}, n, s)
  BY <1>2, <1>3, ExtendsPlace
<1> QED BY <1>4 DEF AtPlace

LEMMA GrownHanded ==
  ASSUME NEW from, NEW to, Grown(from, to), NEW g \in Seq(Seg), Handed(g, from)
  PROVE  Handed(g, to)
<1> SUFFICES ASSUME NEW i \in 1..Len(g) PROVE AtPlace(to, i - 1, g[i])
  BY DEF Handed
<1>1. i - 1 \in Nat /\ AtPlace(from, i - 1, g[i])
  BY DEF Handed
<1> QED BY <1>1, GrownPlace

LEMMA GrownReceiver ==
  ASSUME NEW from, NEW to, Grown(from, to), NEW k \in Kcp, NEW g \in Seq(Seg),
         NEW open \in BOOLEAN, NEW open2 \in BOOLEAN, open2 => open,
         Receiver(k, g, open, from)
  PROVE  Receiver(k, g, open2, to)
<1>1. ASSUME NEW sn \in DOMAIN k.rcv_buf PROVE AtPlace(to, sn, k.rcv_buf[sn])
  <2>1. k.rcv_buf \in SnMap(Seg)
    BY DEF Kcp
  <2>2. sn \in Nat
    BY <2>1, SnMapElim
  <2>3. AtPlace(from, sn, k.rcv_buf[sn])
    BY DEF Receiver
  <2> QED BY <2>2, <2>3, GrownPlace
<1>2. ASSUME open2, NEW i \in 1..Len(k.rcv_queue)
      PROVE  AtPlace(to, Len(g) + i - 1, k.rcv_queue[i])
  <2>1. Len(g) \in Nat /\ Len(k.rcv_queue) \in Nat
    BY DEF Kcp
  <2>2. Len(g) + i - 1 \in Nat
    BY <2>1
  <2>3. AtPlace(from, Len(g) + i - 1, k.rcv_queue[i])
    BY <1>2 DEF Receiver
  <2> QED BY <2>2, <2>3, GrownPlace
<1>3. open2 => k.rcv_nxt = Len(g) + Len(k.rcv_queue)
  BY DEF Receiver
<1> QED BY <1>1, <1>2, <1>3 DEF Receiver

LEMMA GrownPushes ==
  ASSUME NEW from, NEW to, Grown(from, to), NEW d \in Datagram, Pushes(d, from)
  PROVE  Pushes(d, to)
<1>1. PICK st \in from : \A sn \in DOMAIN d.push : AtPlace({st}, sn, d.push[sn])
  BY DEF Pushes
<1>2. PICK t \in to : Extends(st, t)
  BY DEF Grown
<1>3. st \in Seq(Seg) /\ t \in Seq(Seg)
  BY DEF Grown
<1>4. d.push \in SnMap(Seg)
  BY DEF Datagram
<1>5. ASSUME NEW sn \in DOMAIN d.push PROVE AtPlace({t}, sn, d.push[sn])
  <2>1. sn \in Nat
    BY <1>4, SnMapElim
  <2> QED BY <1>1, <1>2, <1>3, <2>1, ExtendsPlace
<1> QED BY <1>5 DEF Pushes

-----------------------------------------------------------------------------
(* The sender.  What was read is added to the stream and to snd_queue. *)
LEMMA SenderSends ==
  ASSUME NEW k \in Kcp, NEW st \in Seq(Seg), Sender(k, st), NEW m \in Seq(Seg),
         NEW r, r = [k EXCEPT !.snd_queue = @ \o m]
  PROVE  Extends(st, st \o m) /\ Sender(r, st \o m)
<1> DEFINE q == k.snd_queue
           a == k.snd_nxt
           t == st \o m
           p == q \o m
<1>1. /\ q \in Seq(Seg) /\ a \in Nat /\ k.snd_buf \in SnMap(Seg)
      /\ r.snd_queue = p /\ r.snd_nxt = a /\ r.snd_buf = k.snd_buf
  BY DEF Kcp
<1>2. a + Len(q) = Len(st) /\ (\A i \in 1..Len(q) : q[i] = st[a + i])
  BY DEF Sender
<1>3. \A sn \in DOMAIN k.snd_buf : AtPlace({st}, sn, k.snd_buf[sn])
  BY DEF Sender
<1> HIDE DEF q, a
<1>4. Len(q) \in Nat /\ Len(st) \in Nat /\ Len(m) \in Nat
  BY <1>1
<1>5. t \in Seq(Seg) /\ Len(t) = Len(st) + Len(m) /\ (\A i \in 1..Len(st) : t[i] = st[i])
      /\ \A i \in 1..Len(m) : t[Len(st) + i] = m[i]
  BY <1>4
<1>6. Len(p) = Len(q) + Len(m)
      /\ \A i \in 1..Len(p) : p[i] = IF i <= Len(q) THEN q[i] ELSE m[i - Len(q)]
  BY <1>1, <1>4
<1> HIDE DEF t, p
<1>7. Extends(st, t)
  BY <1>4, <1>5 DEF Extends
<1>8. a + Len(p) = Len(t)
  <2> DEFINE u == Len(q)
             v == Len(m)
  <2>1. a \in Nat /\ u \in Nat /\ v \in Nat /\ a + u = Len(st)
        /\ Len(p) = u + v /\ Len(t) = Len(st) + v
    BY <1>1, <1>2, <1>4, <1>5, <1>6
  <2> HIDE DEF u, v
  <2> QED BY <2>1
<1>9. ASSUME NEW i \in 1..Len(p) PROVE p[i] = t[a + i]
  <2>1. CASE i <= Len(q)
    <3>1. i \in 1..Len(q) /\ a + i \in 1..Len(st)
      BY <1>1, <1>2, <1>4, <1>6, <2>1
    <3> QED BY <1>2, <1>5, <1>6, <2>1, <3>1
  <2>2. CASE ~(i <= Len(q))
    <3>1. i - Len(q) \in 1..Len(m) /\ a + i = Len(st) + (i - Len(q))
      BY <1>1, <1>2, <1>4, <1>6, <2>2
    <3> QED BY <1>5, <1>6, <2>2, <3>1
  <2> QED BY <2>1, <2>2
<1>10. ASSUME NEW sn \in DOMAIN k.snd_buf PROVE AtPlace({t}, sn, k.snd_buf[sn])
  <2>1. sn \in Nat
    BY <1>1, SnMapElim
  <2> QED BY <1>3, <1>5, <1>7, <2>1, ExtendsPlace
<1>11. Sender(r, t)
  BY <1>1, <1>8, <1>9, <1>10 DEF Sender
<1> QED BY <1>7, <1>11 DEF t

(* What is acknowledged leaves snd_buf. *)
LEMMA SenderLoses ==
  ASSUME NEW k, NEW r, NEW st, Sender(k, st),
         r.snd_queue = k.snd_queue, r.snd_nxt = k.snd_nxt,
         \A sn \in DOMAIN r.snd_buf : sn \in DOMAIN k.snd_buf /\ r.snd_buf[sn] = k.snd_buf[sn]
  PROVE  Sender(r, st)
BY DEF Sender

LEMMA SenderSame ==
  ASSUME NEW k, NEW r, NEW st, Sender(k, st), SameSender(k, r)
  PROVE  Sender(r, st)
BY DEF Sender, SameSender

(* Segments move from snd_queue to snd_buf. *)
LEMMA SenderFills ==
  ASSUME NEW k \in Kcp, NEW st \in Seq(Seg), Sender(k, st), NEW f, NEW n, Filled(k, f, n)
  PROVE  Sender(f, st)
<1> DEFINE a == k.snd_nxt
           L == Len(k.snd_queue)
<1>1. a \in Nat /\ L \in Nat /\ k.snd_buf \in SnMap(Seg)
  BY DEF Kcp
<1>2. /\ n \in 0..L /\ f.snd_nxt = a + n /\ Len(f.snd_queue) = L - n
      /\ \A i \in 1 .. (L - n) : f.snd_queue[i] = k.snd_queue[n + i]
      /\ DOMAIN f.snd_buf = DOMAIN k.snd_buf \cup a .. (a + n - 1)
      /\ \A sn \in DOMAIN k.snd_buf : f.snd_buf[sn] = k.snd_buf[sn]
      /\ \A sn \in DOMAIN f.snd_buf \ DOMAIN k.snd_buf : f.snd_buf[sn] = k.snd_queue[sn - a + 1]
  BY Zenon DEF Filled
<1>3. a + L = Len(st) /\ (\A i \in 1..L : k.snd_queue[i] = st[a + i])
      /\ \A sn \in DOMAIN k.snd_buf : AtPlace({st}, sn, k.snd_buf[sn])
  BY DEF Sender
<1> HIDE DEF a, L
<1>4. f.snd_nxt + Len(f.snd_queue) = Len(st)
  <2>1. n \in 0..L /\ f.snd_nxt = a + n /\ Len(f.snd_queue) = L - n /\ a + L = Len(st)
    BY <1>2, <1>3
  <2> QED BY <1>1, <2>1
<1>5. ASSUME NEW i \in 1..Len(f.snd_queue) PROVE f.snd_queue[i] = st[f.snd_nxt + i]
  <2>1. i \in 1 .. (L - n) /\ n + i \in 1..L /\ a + (n + i) = f.snd_nxt + i
    BY <1>1, <1>2
  <2> QED BY <1>2, <1>3, <2>1
<1>6. ASSUME NEW sn \in DOMAIN f.snd_buf PROVE AtPlace({st}, sn, f.snd_buf[sn])
  <2>1. CASE sn \in DOMAIN k.snd_buf
    BY <1>2, <1>3, <2>1
  <2>2. CASE sn \notin DOMAIN k.snd_buf
    <3>1. sn \in a .. (a + n - 1) /\ f.snd_buf[sn] = k.snd_queue[sn - a + 1]
      BY <1>2, <2>2
    <3>2. sn - a + 1 \in 1..L /\ a + (sn - a + 1) = sn + 1 /\ sn < Len(st)
      <4>1. n \in 0..L /\ sn \in a .. (a + n - 1) /\ a + L = Len(st)
        BY <1>2, <1>3, <3>1
      <4> QED BY <1>1, <4>1
    <3>3. f.snd_buf[sn] = st[sn + 1]
      BY <1>3, <3>1, <3>2
    <3> QED BY <3>2, <3>3 DEF AtPlace
  <2> QED BY <2>1, <2>2
<1> QED BY <1>4, <1>5, <1>6 DEF Sender

(* A datagram carries segments of one stream. *)
LEMMA CarriesPushes ==
  ASSUME NEW f, NEW st, Sender(f, st), NEW k, NEW d, Carries(d, k, f)
  PROVE  Pushes(d, {st})
BY DEF Sender, Carries, Pushes

-----------------------------------------------------------------------------
(* The receiver. *)
LEMMA ReceiverSame ==
  ASSUME NEW k, NEW r, NEW g, NEW open, NEW from, Receiver(k, g, open, from),
         r.rcv_nxt = k.rcv_nxt, r.rcv_buf = k.rcv_buf, r.rcv_queue = k.rcv_queue
  PROVE  Receiver(r, g, open, from)
BY DEF Receiver

(* A push is kept in rcv_buf. *)
LEMMA ReceiverKeeps ==
  ASSUME NEW k, NEW j, NEW sn, NEW seg, Kept(k, j, sn, seg),
         NEW g, NEW open, NEW from, Receiver(k, g, open, from), AtPlace(from, sn, seg)
  PROVE  Receiver(j, g, open, from)
<1>1. ASSUME NEW s \in DOMAIN j.rcv_buf PROVE AtPlace(from, s, j.rcv_buf[s])
  <2>1. CASE s \in DOMAIN k.rcv_buf
    BY <2>1 DEF Kept, Receiver
  <2>2. CASE s \notin DOMAIN k.rcv_buf
    BY <2>2 DEF Kept
  <2> QED BY <2>1, <2>2
<1>2. j.rcv_nxt = k.rcv_nxt /\ j.rcv_queue = k.rcv_queue
  BY DEF Kept
<1> QED BY <1>1, <1>2 DEF Receiver

(* A message of c segments is read, and n segments move from rcv_buf to    *)
(* rcv_queue.  The message is handed out if the TCP socket is open.        *)
LEMMA ReceiverShifts ==
  ASSUME NEW k \in Kcp, NEW g \in Seq(Seg), NEW open \in BOOLEAN, NEW from,
         Receiver(k, g, open, from), Handed(g, from),
         NEW c \in 0..Len(k.rcv_queue), NEW n \in Nat, NEW r, Shifted(k, r, c, n),
         NEW m \in Seq(Seg), Len(m) = IF open THEN c ELSE 0,
         \A i \in 1..Len(m) : m[i] = k.rcv_queue[i]
  PROVE  Receiver(r, g \o m, open, from) /\ Handed(g \o m, from)
<1> DEFINE x == k.rcv_nxt
           L == Len(k.rcv_queue)
           G == Len(g)
           h == g \o m
<1>1. x \in Nat /\ L \in Nat /\ G \in Nat /\ c \in 0..L /\ Len(m) \in Nat
  BY DEF Kcp
<1>2. Len(h) = G + Len(m) /\ (\A i \in 1..G : h[i] = g[i]) /\ \A i \in 1..Len(m) : h[G + i] = m[i]
  BY <1>1
<1>3. r.rcv_nxt = x + n /\ Len(r.rcv_queue) = L - c + n
      /\ (\A i \in 1 .. (L - c) : r.rcv_queue[i] = k.rcv_queue[c + i])
      /\ (\A i \in 1 .. n : /\ x + i - 1 \in DOMAIN k.rcv_buf
                           /\ r.rcv_queue[L - c + i] = k.rcv_buf[x + i - 1])
      /\ DOMAIN r.rcv_buf = DOMAIN k.rcv_buf \ (x .. (x + n - 1))
      /\ (\A sn \in DOMAIN r.rcv_buf : r.rcv_buf[sn] = k.rcv_buf[sn])
  BY Zenon DEF Shifted
<1>4. /\ \A sn \in DOMAIN k.rcv_buf : AtPlace(from, sn, k.rcv_buf[sn])
      /\ open => x = G + L /\ \A i \in 1..L : AtPlace(from, G + i - 1, k.rcv_queue[i])
      /\ \A i \in 1..G : AtPlace(from, i - 1, g[i])
  BY DEF Receiver, Handed
<1> HIDE DEF x, L, G, h
<1>5. ASSUME NEW i \in 1..Len(h) PROVE AtPlace(from, i - 1, h[i])
  <2>1. CASE i \in 1..G
    BY <1>2, <1>4, <2>1
  <2>2. CASE i \notin 1..G
    <3> DEFINE j == i - G
    <3>1. j \in 1..Len(m) /\ G + j = i /\ G + j - 1 = i - 1
      BY <1>1, <1>2, <2>2
    <3>2. open /\ j \in 1..L
      BY <1>1, <3>1
    <3> HIDE DEF j
    <3>3. h[i] = k.rcv_queue[j]
      BY <1>2, <3>1
    <3>4. AtPlace(from, G + j - 1, k.rcv_queue[j])
      BY <1>4, <3>2
    <3> QED BY <3>1, <3>3, <3>4
  <2> QED BY <2>1, <2>2
<1>6. ASSUME NEW sn \in DOMAIN r.rcv_buf PROVE AtPlace(from, sn, r.rcv_buf[sn])
  BY <1>3, <1>4
<1>7. ASSUME open
      PROVE  /\ r.rcv_nxt = Len(h) + Len(r.rcv_queue)
             /\ \A i \in 1..Len(r.rcv_queue) : AtPlace(from, Len(h) + i - 1, r.rcv_queue[i])
  <2>1. Len(h) = G + c /\ x = G + L
    BY <1>2, <1>4, <1>7
  <2>2. r.rcv_nxt = Len(h) + Len(r.rcv_queue)
    BY <1>1, <1>3, <2>1
  <2>3. ASSUME NEW i \in 1..Len(r.rcv_queue)
        PROVE  AtPlace(from, Len(h) + i - 1, r.rcv_queue[i])
    <3>1. CASE i \in 1 .. (L - c)
      <4>1. c + i \in 1..L /\ G + (c + i) - 1 = Len(h) + i - 1
        BY <1>1, <2>1, <3>1
      <4>2. AtPlace(from, G + (c + i) - 1, k.rcv_queue[c + i])
        BY <1>4, <1>7, <4>1
      <4> QED BY <1>3, <3>1, <4>1, <4>2
    <3>2. CASE i \notin 1 .. (L - c)
      <4> DEFINE j == i - (L - c)
      <4>1. j \in 1..n /\ L - c + j = i /\ x + j - 1 = Len(h) + i - 1
        BY <1>1, <1>3, <2>1, <3>2
      <4> HIDE DEF j
      <4>2. x + j - 1 \in DOMAIN k.rcv_buf /\ r.rcv_queue[i] = k.rcv_buf[x + j - 1]
        BY <1>3, <4>1
      <4> QED BY <1>4, <4>1, <4>2
    <3> QED BY <3>1, <3>2
  <2> QED BY <2>2, <2>3
<1>8. Receiver(r, h, open, from) /\ Handed(h, from)
  BY <1>5, <1>6, <1>7 DEF Receiver, Handed
<1> QED BY <1>8 DEF h

-----------------------------------------------------------------------------
(* ikcp_input of a whole datagram. *)
Parsed(h, k, d, N) ==
  h = [n \in 0..N |->
         IF n = 0 THEN ikcp_input(k, d)
         ELSE IF n - 1 \in DOMAIN d.push
              THEN ikcp_input_push(h[n - 1], n - 1, d.push[n - 1])
              ELSE h[n - 1]]

(* The control blocks between the pushes exist, up to every place. *)
LEMMA ParsedExists ==
  ASSUME NEW k, NEW d, NEW N \in Nat
  PROVE  \E h : Parsed(h, k, d, N)
<1> DEFINE S == {n \in Nat : ~\E h : Parsed(h, k, d, n)}
<1> SUFFICES ASSUME S # {} PROVE FALSE
  OBVIOUS
<1> DEFINE m == Min(S)
<1>1. m \in S /\ \A y \in S : m =< y
  <2> S \in SUBSET Nat
    OBVIOUS
  <2> HIDE DEF S
  <2> QED BY NatMin
<1> HIDE DEF m
<1>2. m \in Nat /\ ~\E h : Parsed(h, k, d, m)
  BY <1>1
<1>3. m # 0
  <2> SUFFICES ASSUME m = 0 PROVE FALSE
    OBVIOUS
  <2> DEFINE h == [n \in 0..0 |-> ikcp_input(k, d)]
  <2>1. \A n \in 0..0 : n = 0
    OBVIOUS
  <2>2. Parsed(h, k, d, 0)
    BY <2>1 DEF Parsed
  <2> QED BY <1>2, <2>2
<1>4. m - 1 \in Nat /\ ~(m =< m - 1)
  BY <1>2, <1>3
<1>5. PICK h : Parsed(h, k, d, m - 1)
  BY <1>1, <1>4
<1> DEFINE Next1(v, n) == IF n - 1 \in DOMAIN d.push
                          THEN ikcp_input_push(v, n - 1, d.push[n - 1]) ELSE v
           g == [n \in 0..m |-> IF n = m THEN Next1(h[m - 1], m) ELSE h[n]]
<1>6. \A n \in 0 .. (m - 1) : h[n] = IF n = 0 THEN ikcp_input(k, d) ELSE Next1(h[n - 1], n)
  BY <1>5 DEF Parsed
<1> HIDE DEF Next1
<1>7. ASSUME NEW n \in 0..m
      PROVE  g[n] = IF n = 0 THEN ikcp_input(k, d) ELSE Next1(g[n - 1], n)
  <2>1. CASE n = m
    <3>1. m - 1 \in 0..m /\ m - 1 # m
      BY <1>2, <1>4
    <3> QED BY <1>3, <2>1, <3>1
  <2>2. CASE n = 0
    BY <1>2, <1>3, <1>4, <1>6, <2>2
  <2>3. CASE n # m /\ n # 0
    <3>1. n \in 0 .. (m - 1) /\ n - 1 \in 0..m /\ n - 1 # m
      BY <1>2, <2>3
    <3> QED BY <1>6, <2>3, <3>1
  <2> QED BY <2>1, <2>2, <2>3
<1> HIDE DEF g
<1>8. g = [n \in 0..m |-> IF n = 0 THEN ikcp_input(k, d) ELSE Next1(g[n - 1], n)]
  <2>1. g = [n \in 0..m |-> g[n]]
    BY DEF g
  <2> QED BY <1>7, <2>1
<1>9. Parsed(g, k, d, m)
  BY <1>8 DEF Parsed, Next1
<1> QED BY <1>2, <1>9

(* The end of a datagram: a number above those of its pushes. *)
LEMMA EndLemma ==
  ASSUME NEW D \in SUBSET Nat, NEW B \in Nat, \A sn \in D : sn < B
  PROVE  Max({0} \cup {sn + 1 : sn \in D}) \in Nat
<1> DEFINE T == {0} \cup {sn + 1 : sn \in D}
           S == {n \in Nat : \A x \in T : x <= n}
           m == Min(S)
<1>1. T \in SUBSET Nat /\ 0 \in T
  OBVIOUS
<1>2. \A x \in T : x <= B
  OBVIOUS
<1> HIDE DEF T
<1>3. B \in S
  BY <1>2
<1>4. m \in S /\ \A y \in S : m =< y
  <2> S \in SUBSET Nat /\ S # {}
    BY <1>3
  <2> HIDE DEF S
  <2> QED BY NatMin
<1> HIDE DEF m
<1>5. m \in Nat /\ \A x \in T : x <= m
  BY <1>4
<1>6. m \in T
  <2> SUFFICES ASSUME m \notin T PROVE FALSE
    OBVIOUS
  <2>1. \A x \in T : x <= m - 1
    BY <1>1, <1>5
  <2>2. m - 1 \in S
    BY <1>1, <1>5, <2>1
  <2> QED BY <1>4, <1>5, <2>2
<1>7. Max(T) \in T
  BY <1>5, <1>6 DEF Max
<1> QED BY <1>1, <1>7 DEF T

LEMMA InputAllLemma ==
  ASSUME NEW k \in Kcp, NEW d \in Datagram, NEW from \in SUBSET Seq(Seg), Pushes(d, from),
         NEW st, Sender(k, st), NEW g, NEW open, Receiver(k, g, open, from),
         NEW r, r = InputAll(k, d),
         g \in Seq(Seg), open \in BOOLEAN, Handed(g, from)
  PROVE  r \in Kcp /\ Sender(r, st) /\ Receiver(r, g, open, from)
<1> DEFINE D == DOMAIN d.push
           end == Max({0} \cup {sn + 1 : sn \in D})
           h == CHOOSE f : Parsed(f, k, d, end)
           Fine(a) == a \in Kcp /\ Sender(a, st) /\ Receiver(a, g, open, from)
           S == {n \in 0..end : ~Fine(h[n])}
<1>1. d.push \in SnMap(Seg)
  BY DEF Datagram
<1>2. D \in SUBSET Nat /\ \A sn \in D : d.push[sn] \in Seg
  BY <1>1, SnMapElim
<1>3. PICK t \in from : \A sn \in D : AtPlace({t}, sn, d.push[sn])
  BY DEF Pushes
<1>4. Len(t) \in Nat /\ \A sn \in D : sn < Len(t)
  BY <1>3 DEF AtPlace
<1>5. \A sn \in D : AtPlace(from, sn, d.push[sn])
  BY <1>3 DEF AtPlace
<1>6. end \in Nat
  <2> HIDE DEF D
  <2> QED BY <1>2, <1>4, EndLemma
<1>7. r = h[end]
  BY DEF InputAll, Parsed
<1> HIDE DEF end
<1>8. Parsed(h, k, d, end)
  BY <1>6, ParsedExists
<1> HIDE DEF h
<1>9. \A n \in 0..end :
        h[n] = IF n = 0 THEN ikcp_input(k, d)
               ELSE IF n - 1 \in D THEN ikcp_input_push(h[n - 1], n - 1, d.push[n - 1])
               ELSE h[n - 1]
  BY <1>8 DEF Parsed
<1> HIDE DEF D
<1>10. Fine(ikcp_input(k, d))
  <2> DEFINE i == ikcp_input(k, d)
  <2>1. i \in Kcp /\ SameReceiver(k, i) /\ i.snd_queue = k.snd_queue /\ i.snd_nxt = k.snd_nxt
        /\ \A sn \in DOMAIN i.snd_buf : sn \in DOMAIN k.snd_buf /\ i.snd_buf[sn] = k.snd_buf[sn]
    BY InputLemma
  <2> HIDE DEF i
  <2>2. Sender(i, st)
    BY <2>1, SenderLoses
  <2>3. Receiver(i, g, open, from)
    BY <2>1, ReceiverSame DEF SameReceiver
  <2> QED BY <2>1, <2>2, <2>3 DEF i
<1>11. ASSUME NEW a, Fine(a), NEW sn \in D PROVE Fine(ikcp_input_push(a, sn, d.push[sn]))
  <2> DEFINE b == ikcp_input_push(a, sn, d.push[sn])
  <2>1. a \in Kcp /\ Sender(a, st) /\ Receiver(a, g, open, from)
    BY <1>11
  <2>2. sn \in Nat /\ d.push[sn] \in Seg
    BY <1>2
  <2>3. PICK j, n : n \in Nat /\ Kept(a, j, sn, d.push[sn]) /\ Shifted(j, b, 0, n)
    BY <2>1, <2>2, PushLemma
  <2> HIDE DEF b
  <2>4. j \in Kcp /\ SameSender(a, j) /\ b \in Kcp /\ SameSender(j, b)
    BY <2>3 DEF Kept, Shifted
  <2>5. Sender(b, st)
    BY <2>1, <2>4, SenderSame
  <2>6. Receiver(j, g, open, from)
    BY <1>5, <2>1, <2>3, ReceiverKeeps
  <2>7. Receiver(b, g, open, from)
    <3> DEFINE m == <<>>
    <3>1. 0 \in 0..Len(j.rcv_queue)
      BY <2>4 DEF Kcp
    <3>2. /\ m \in Seq(Seg) /\ Len(m) = (IF open THEN 0 ELSE 0) /\ g \o m = g
          /\ \A i \in 1..Len(m) : m[i] = j.rcv_queue[i]
      OBVIOUS
    <3> HIDE DEF m
    <3>3. Receiver(b, g \o m, open, from)
      BY <2>3, <2>4, <2>6, <3>1, <3>2, ReceiverShifts
    <3> QED BY <3>2, <3>3
  <2> QED BY <2>4, <2>5, <2>7 DEF b
<1>12. S = {}
  <2> SUFFICES ASSUME S # {} PROVE FALSE
    OBVIOUS
  <2> DEFINE m == Min(S)
  <2>1. m \in S /\ \A y \in S : m =< y
    <3> S \in SUBSET Nat
      BY <1>6
    <3> HIDE DEF S
    <3> QED BY NatMin
  <2> HIDE DEF m
  <2>2. m \in 0..end /\ ~Fine(h[m])
    BY <2>1
  <2>3. m # 0
    <3> HIDE DEF Fine
    <3> QED BY <1>6, <1>9, <1>10, <2>2
  <2>4. m - 1 \in 0..end /\ ~(m =< m - 1)
    BY <1>6, <2>2, <2>3
  <2>5. Fine(h[m - 1])
    <3> HIDE DEF Fine
    <3> QED BY <2>1, <2>4
  <2> HIDE DEF Fine
  <2>6. Fine(h[m])
    <3>1. CASE m - 1 \in D
      <4>1. h[m] = ikcp_input_push(h[m - 1], m - 1, d.push[m - 1])
        BY <1>9, <2>2, <2>3, <3>1
      <4> QED BY <1>11, <2>5, <3>1, <4>1
    <3>2. CASE m - 1 \notin D
      BY <1>9, <2>2, <2>3, <2>5, <3>2
    <3> QED BY <3>1, <3>2
  <2> QED BY <2>2, <2>6
<1>13. Fine(h[end])
  <2> HIDE DEF Fine
  <2> QED BY <1>6, <1>12
<1> QED BY <1>7, <1>13

-----------------------------------------------------------------------------
(* The types, and the invariant. *)
TypeInv ==
  /\ fw \in [Sides -> Fwd]
  /\ kcp \in [Sides -> Kcp]
  /\ net \in [Sides -> SUBSET Datagram]
  /\ gen \in Nat
  /\ up \in Seq(Seg) /\ gotDown \in Seq(Seg)
  /\ down \in Seq(Seq(Seg)) /\ Len(down) = gen
  /\ gotUp \in Seq(Seq(Seg)) /\ Len(gotUp) = gen

Inv == TypeInv /\ PlacesInv

LEMMA StreamsType ==
  ASSUME TypeInv, NEW e \in Sides
  PROVE  /\ Streams(e) \in SUBSET Seq(Seg)
         /\ Begun(e) => Stream(e) \in Streams(e) /\ Stream(e) \in Seq(Seg) /\ Got(e) \in Seq(Seg)
<1>1. CASE e = Client
  BY <1>1 DEF TypeInv, Streams, Stream, Got
<1>2. CASE e # Client
  <2>1. \A g \in 1..gen : down[g] \in Seq(Seg) /\ gotUp[g] \in Seq(Seg)
    BY DEF TypeInv
  <2>2. Begun(e) => gen \in 1..gen
    BY <1>2 DEF Begun, TypeInv
  <2> QED BY <1>2, <2>1, <2>2 DEF Streams, Stream, Got
<1> QED BY <1>1, <1>2

(* What the invariant says of a side that has a control block. *)
LEMMA SideOf ==
  ASSUME Inv, NEW e \in Sides, Begun(e)
  PROVE  /\ kcp[e] \in Kcp /\ fw[e] \in Fwd /\ fw[e].tcp \in BOOLEAN
         /\ Stream(e) \in Streams(e) /\ Stream(e) \in Seq(Seg) /\ Got(e) \in Seq(Seg)
         /\ Streams(Other(e)) \in SUBSET Seq(Seg)
         /\ Sender(kcp[e], Stream(e))
         /\ Receiver(kcp[e], Got(e), fw[e].tcp, Streams(Other(e)))
         /\ Handed(Got(e), Streams(Other(e)))
<1>1. TypeInv /\ PlacesInv
  BY DEF Inv
<1>2. kcp[e] \in Kcp /\ fw[e] \in Fwd
  BY <1>1 DEF TypeInv
<1>3. fw[e].tcp \in BOOLEAN
  BY <1>2 DEF Fwd
<1>4. Handed(Got(e), Streams(Other(e)))
  <2>1. CASE e = Client
    BY <1>1, <2>1, SidesLemma DEF PlacesInv, Got, Other
  <2>2. CASE e # Client
    <3>1. gen \in 1..gen
      BY <1>1, <2>2 DEF Begun, TypeInv
    <3> QED BY <1>1, <2>2, <3>1, SidesLemma DEF PlacesInv, Got, Other
  <2> QED BY <2>1, <2>2
<1>5. Sender(kcp[e], Stream(e)) /\ Receiver(kcp[e], Got(e), fw[e].tcp, Streams(Other(e)))
  BY <1>1 DEF PlacesInv
<1> QED BY <1>1, <1>2, <1>3, <1>4, <1>5, StreamsType, SidesLemma

LEMMA SelfGrown ==
  ASSUME NEW X \in SUBSET Seq(Seg), NEW Y \in SUBSET Seq(Seg), X \subseteq Y
  PROVE  Grown(X, Y)
BY DEF Grown, Extends

(* Only a forwarder that exists does something. *)
LEMMA FwdBegun ==
  ASSUME Inv, NEW e \in Sides, fw[e] # NoFwd
  PROVE  Begun(e)
<1>1. e # Client => e = Server
  BY DEF Sides
<1> QED BY <1>1 DEF Inv, PlacesInv, TypeInv, Begun

-----------------------------------------------------------------------------
(* No step of a forwarder opens its TCP socket. *)
Shut(f, g) == g \in Fwd /\ (g.tcp => f.tcp)

LEMMA RecvLoopShut ==
  ASSUME NEW f \in Fwd, NEW more \in BOOLEAN
  PROVE  Shut(f, RecvLoop(f, more))
<1>1. RecvLoop(f, more).tcp = f.tcp
  BY DEF RecvLoop, Fwd
<1> QED BY <1>1, RecvLoopEffect DEF Shut

LEMMA OnUdpDataShut ==
  ASSUME NEW f \in Fwd
  PROVE  Shut(f, OnUdpData(f))
BY DEF Shut, OnUdpData, Fwd, Flags

LEMMA TcpReceivedShut ==
  ASSUME NEW f \in Fwd, NEW res \in {"ok", "error"}
  PROVE  Shut(f, TcpReceived(f, res))
<1>1. CASE res = "ok"
  BY <1>1 DEF Shut, TcpReceived, Fwd, Flags
<1>2. CASE res = "error"
  BY <1>2 DEF Shut, TcpReceived, Stop, Fwd, Flags
<1> QED BY <1>1, <1>2

LEMMA UdpReceivedShut ==
  ASSUME NEW f \in Fwd, NEW res \in {"ok", "error"}
  PROVE  Shut(f, UdpReceived(f, res))
<1>1. CASE res = "ok"
  BY <1>1 DEF Shut, UdpReceived, Fwd, Flags
<1>2. CASE res = "error"
  BY <1>2 DEF Shut, UdpReceived, Stop, Fwd, Flags
<1> QED BY <1>1, <1>2

LEMMA WroteShut ==
  ASSUME NEW f \in Fwd, NEW res \in {"ok", "error"}, NEW more \in BOOLEAN
  PROVE  Shut(f, Wrote(f, res, more))
<1>1. CASE res = "ok"
  BY <1>1, RecvLoopShut DEF Wrote
<1>2. CASE res = "error"
  BY <1>2 DEF Shut, Wrote, Stop, Fwd, Flags
<1> QED BY <1>1, <1>2

LEMMA UpdatedShut ==
  ASSUME NEW f \in Fwd, NEW more \in BOOLEAN
  PROVE  Shut(f, Updated(f, more))
<1>1. CASE f.flags.running
  BY <1>1, RecvLoopShut DEF Updated
<1>2. CASE ~f.flags.running
  BY <1>2 DEF Shut, Updated, Fwd, Flags
<1> QED BY <1>1, <1>2

LEMMA ConnectedShut ==
  ASSUME NEW f \in Fwd, NEW ok \in BOOLEAN, NEW more \in BOOLEAN
  PROVE  Shut(f, Connected(f, ok, more))
<1>1. CASE ok
  <2> DEFINE h == [f EXCEPT !.flags.running = TRUE, !.start = "done",
                            !.recv = "read", !.feed = "read", !.idle = "timer"]
  <2>1. Connected(f, ok, more) = RecvLoop(h, more)
    BY <1>1 DEF Connected
  <2>2. h \in Fwd /\ h.tcp = f.tcp
    BY DEF Fwd, Flags
  <2> HIDE DEF h
  <2> QED BY <2>1, <2>2, RecvLoopShut DEF Shut
<1>2. CASE ~ok
  BY <1>2 DEF Shut, Connected, Fwd, Flags
<1> QED BY <1>1, <1>2

LEMMA InactiveShut ==
  ASSUME NEW f \in Fwd
  PROVE  Shut(f, Inactive(f))
<1>1. CASE f.flags.alive
  BY <1>1 DEF Shut, Inactive, Fwd, Flags
<1>2. CASE ~f.flags.alive
  BY <1>2 DEF Shut, Inactive, Stop, Fwd, Flags
<1> QED BY <1>1, <1>2

LEMMA BecomesShut ==
  ASSUME fw \in [Sides -> Fwd], NEW e \in Sides, NEW f, Shut(fw[e], f), Becomes(e, f)
  PROVE  /\ fw' \in [Sides -> Fwd]
         /\ \A x \in Sides : fw'[x].tcp => fw[x].tcp
         /\ \A x \in Sides : x # e => fw'[x] = fw[x]
<1> DEFINE h == IF Unowned(f) THEN Destruct(f) ELSE f
<1>1. h \in Fwd /\ (h.tcp => fw[e].tcp)
  <2>1. Destruct(f) \in Fwd /\ ~Destruct(f).tcp
    BY DestructVacant DEF Vacant
  <2> QED BY <2>1 DEF Shut
<1>2. fw' = [fw EXCEPT ![e] = h]
  BY DEF Becomes
<1> HIDE DEF h
<1> QED BY <1>1, <1>2

-----------------------------------------------------------------------------
(* A step of the forwarder of side e that goes on with its control block,  *)
(* its stream and what it handed out keeps all places.                     *)
LEMMA Evolves ==
  ASSUME Inv, TypeInv', gen' = gen, gen = 0 => fw'[Server] = NoFwd,
         NEW e \in Sides, Begun(e),
         \A x \in Sides : Grown(Streams(x), Streams(x)'),
         \A x \in Sides : fw'[x].tcp => fw[x].tcp,
         kcp'[Other(e)] = kcp[Other(e)],
         Stream(Other(e))' = Stream(Other(e)), Got(Other(e))' = Got(Other(e)),
         \A g \in 1..gen : g # gen => gotUp'[g] = gotUp[g],
         Sender(kcp'[e], Stream(e)'),
         Receiver(kcp'[e], Got(e)', fw[e].tcp, Streams(Other(e))),
         Handed(Got(e)', Streams(Other(e))),
         \A x \in Sides : \A d \in net'[x] : Pushes(d, Streams(Other(x)))
  PROVE  PlacesInv'
<1>1. TypeInv /\ PlacesInv
  BY DEF Inv
<1>2. \A x \in Sides : Begun(x)' <=> Begun(x)
  BY DEF Begun
<1>3. ASSUME NEW x \in Sides, Begun(x)
      PROVE  /\ kcp'[x] \in Kcp /\ Got(x)' \in Seq(Seg)
             /\ fw[x].tcp \in BOOLEAN /\ fw'[x].tcp \in BOOLEAN
             /\ Sender(kcp'[x], Stream(x)')
             /\ Receiver(kcp'[x], Got(x)', fw'[x].tcp, Streams(Other(x))')
             /\ Handed(Got(x)', Streams(Other(x))')
  <2>1. kcp'[x] \in Kcp /\ fw'[x] \in Fwd /\ fw[x].tcp \in BOOLEAN
    BY <1>1, <1>3, SideOf DEF TypeInv
  <2>2. fw'[x].tcp \in BOOLEAN
    BY <2>1 DEF Fwd
  <2>3. Got(x)' \in Seq(Seg)
    <3>1. CASE x = Client
      BY <3>1 DEF Got, TypeInv
    <3>2. CASE x # Client
      <4>1. gen \in 1..gen
        BY <1>1, <1>3, <3>2 DEF Begun, TypeInv
      <4> QED BY <3>2, <4>1 DEF Got, TypeInv
    <3> QED BY <3>1, <3>2
  <2>4. /\ Sender(kcp'[x], Stream(x)') /\ Handed(Got(x)', Streams(Other(x)))
        /\ Receiver(kcp'[x], Got(x)', fw[x].tcp, Streams(Other(x)))
    <3>1. CASE x = e
      BY <3>1
    <3>2. CASE x # e
      <4>1. x = Other(e)
        BY <3>2, SidesLemma
      <4> QED BY <1>3, <4>1, SideOf
    <3> QED BY <3>1, <3>2
  <2>5. Grown(Streams(Other(x)), Streams(Other(x))')
    BY SidesLemma
  <2>6. Receiver(kcp'[x], Got(x)', fw'[x].tcp, Streams(Other(x))')
    BY <2>1, <2>2, <2>3, <2>4, <2>5, GrownReceiver
  <2>7. Handed(Got(x)', Streams(Other(x))')
    BY <2>3, <2>4, <2>5, GrownHanded
  <2> QED BY <2>1, <2>2, <2>3, <2>4, <2>6, <2>7
<1>4. Handed(gotDown', Streams(Server)')
  <2>1. Got(Client)' = gotDown' /\ Other(Client) = Server /\ Begun(Client)
    BY DEF Got, Other, Begun
  <2> QED BY <1>3, <2>1, SidesLemma
<1>5. ASSUME NEW g \in 1..gen PROVE Handed(gotUp'[g], Streams(Client)')
  <2>1. CASE g = gen
    <3>1. Got(Server)' = gotUp'[gen] /\ Other(Server) = Client /\ Begun(Server)
      BY <1>1, <2>1, SidesLemma DEF Got, Other, Begun, TypeInv
    <3> QED BY <1>3, <2>1, <3>1, SidesLemma
  <2>2. CASE g # gen
    <3>1. gotUp'[g] = gotUp[g] /\ gotUp[g] \in Seq(Seg) /\ Handed(gotUp[g], Streams(Client))
      BY <1>1, <2>2 DEF TypeInv, PlacesInv
    <3>2. Grown(Streams(Client), Streams(Client)')
      BY SidesLemma
    <3> QED BY <3>1, <3>2, GrownHanded
  <2> QED BY <2>1, <2>2
<1>6. ASSUME NEW x \in Sides, NEW d \in net'[x] PROVE Pushes(d, Streams(Other(x))')
  <2>1. d \in Datagram
    BY DEF TypeInv
  <2>2. Pushes(d, Streams(Other(x))) /\ Grown(Streams(Other(x)), Streams(Other(x))')
    BY SidesLemma
  <2> QED BY <2>1, <2>2, GrownPushes
<1> QED BY <1>2, <1>3, <1>4, <1>5, <1>6 DEF PlacesInv

(* ikcp_input, or a change of what is not about places. *)
LEMMA Inputs ==
  ASSUME Inv, NEW e \in Sides, NEW f, Shut(fw[e], f), Becomes(e, f), Begun(e),
         NEW r \in Kcp, kcp' = [kcp EXCEPT ![e] = r],
         Sender(r, Stream(e)), Receiver(r, Got(e), fw[e].tcp, Streams(Other(e))),
         UNCHANGED <<gen, hist>>,
         net' \in [Sides -> SUBSET Datagram], \A x \in Sides : net'[x] \subseteq net[x]
  PROVE  Inv'
<1>1. TypeInv /\ PlacesInv
  BY DEF Inv
<1>2. /\ fw' \in [Sides -> Fwd] /\ (\A x \in Sides : fw'[x].tcp => fw[x].tcp)
      /\ (\A x \in Sides : x # e => fw'[x] = fw[x])
  BY <1>1, BecomesShut DEF TypeInv
<1>3. TypeInv' /\ kcp'[e] = r /\ kcp'[Other(e)] = kcp[Other(e)]
  BY <1>1, <1>2, SidesLemma DEF TypeInv, hist
<1>4. gen = 0 => fw'[Server] = NoFwd
  BY <1>1, <1>2, SidesLemma DEF PlacesInv, Begun
<1>5. \A x \in Sides : /\ Stream(x)' = Stream(x) /\ Got(x)' = Got(x)
                       /\ Streams(x)' = Streams(x) /\ Grown(Streams(x), Streams(x)')
  <2>1. \A x \in Sides : Stream(x)' = Stream(x) /\ Got(x)' = Got(x) /\ Streams(x)' = Streams(x)
    BY DEF Stream, Got, Streams, hist
  <2>2. \A x \in Sides : Streams(x) \in SUBSET Seq(Seg)
    BY <1>1, StreamsType
  <2>3. \A x \in Sides : Grown(Streams(x), Streams(x))
    BY <2>2, SelfGrown
  <2> QED BY <2>1, <2>3
<1>6. \A x \in Sides : \A d \in net'[x] : Pushes(d, Streams(Other(x)))
  BY <1>1 DEF PlacesInv
<1>7. PlacesInv'
  BY <1>2, <1>3, <1>4, <1>5, <1>6, SideOf, SidesLemma, Evolves DEF hist
<1> QED BY <1>3, <1>7 DEF Inv

(* A step that leaves the control blocks alone. *)
LEMMA Rests ==
  ASSUME Inv, NEW e \in Sides, NEW f, Shut(fw[e], f), Becomes(e, f), Begun(e),
         UNCHANGED <<kcp, gen, hist>>,
         net' \in [Sides -> SUBSET Datagram], \A x \in Sides : net'[x] \subseteq net[x]
  PROVE  Inv'
<1>1. kcp' = [kcp EXCEPT ![e] = kcp[e]]
  BY DEF Inv, TypeInv
<1> QED BY <1>1, SideOf, Inputs

-----------------------------------------------------------------------------
LEMMA SendKeeps ==
  ASSUME Inv, NEW e \in Sides, Send(e)
  PROVE  Inv'
<1> DEFINE k == kcp[e]
           off == Base(e) + Len(Stream(e))
           m == Fragments(off, 1)
           r == ikcp_send(k, off, 1)
           f == TcpReceived(fw[e], "ok")
           st == Stream(e)
<1>1. TypeInv /\ PlacesInv
  BY DEF Inv
<1>2. Begun(e)
  BY FwdBegun DEF Send, NoFwd
<1>3. /\ kcp[e] \in Kcp /\ fw[e] \in Fwd /\ st \in Streams(e) /\ st \in Seq(Seg)
      /\ Sender(kcp[e], st) /\ Receiver(kcp[e], Got(e), fw[e].tcp, Streams(Other(e)))
      /\ Handed(Got(e), Streams(Other(e)))
  BY <1>2, SideOf
<1>4. off \in Nat
  <2>1. Base(e) \in Nat
    BY <1>1, ProxyAssumption DEF Base, TypeInv
  <2>2. Len(st) \in Nat
    BY <1>3
  <2> QED BY <2>1, <2>2
<1>5. m \in Seq(Seg)
  <2> HIDE DEF off
  <2> QED BY <1>4, FragmentsType
<1>6. r = [k EXCEPT !.snd_queue = @ \o m] /\ r \in Kcp
  <2> HIDE DEF off, k
  <2>1. k \in Kcp /\ 1 \in Nat \ {0} /\ FragCount(1) < WndRcv
    BY <1>3, ProxyAssumption DEF k
  <2> QED BY <1>4, <2>1, SendLemma
<1>7. /\ kcp' = [kcp EXCEPT ![e] = r] /\ Becomes(e, f)
      /\ UNCHANGED <<net, gen, gotUp, gotDown>>
  BY DEF Send
<1>8. IF e = Client THEN up' = up \o m /\ UNCHANGED down
                    ELSE down' = [down EXCEPT ![gen] = @ \o m] /\ UNCHANGED up
  BY DEF Send, Stream
<1> HIDE DEF k, st, m, r
<1>9. Extends(st, st \o m) /\ Sender(r, st \o m) /\ st \o m \in Seq(Seg)
  <2>1. k \in Kcp /\ st \in Seq(Seg) /\ Sender(k, st)
    BY <1>3 DEF k
  <2>2. st \o m \in Seq(Seg)
    BY <1>5, <2>1
  <2>3. Extends(st, st \o m) /\ Sender(r, st \o m)
    BY <1>5, <1>6, <2>1, SenderSends
  <2> QED BY <2>2, <2>3
<1>10. Stream(e)' = st \o m /\ Stream(Other(e))' = Stream(Other(e))
       /\ (\A x \in Sides : Streams(x) \in SUBSET Seq(Seg) /\ Grown(Streams(x), Streams(x)'))
       /\ up' \in Seq(Seg) /\ down' \in Seq(Seq(Seg)) /\ Len(down') = gen
  <2>1. CASE e = Client
    <3>1. up' = up \o m /\ down' = down /\ st = up /\ gen' = gen
      BY <1>7, <1>8, <2>1 DEF Stream, st
    <3>2. Streams(Client) = {up} /\ Streams(Client)' = {up \o m}
          /\ Streams(Server)' = Streams(Server)
      BY <3>1, SidesLemma DEF Streams
    <3>3. Streams(Client) \in SUBSET Seq(Seg) /\ Streams(Server) \in SUBSET Seq(Seg)
      BY <1>1, StreamsType, SidesLemma
    <3>4. Grown(Streams(Client), Streams(Client)')
      BY <1>9, <3>1, <3>2, <3>3 DEF Grown
    <3>5. Grown(Streams(Server), Streams(Server)')
      BY <3>2, <3>3, SelfGrown
    <3>6. Stream(e)' = st \o m /\ Stream(Other(e))' = Stream(Other(e))
      BY <2>1, <3>1, SidesLemma DEF Stream, Other
    <3>7. up' \in Seq(Seg) /\ down' \in Seq(Seq(Seg)) /\ Len(down') = gen
      BY <1>1, <1>9, <3>1 DEF TypeInv
    <3>8. \A x \in Sides : x = Client \/ x = Server
      BY DEF Sides
    <3> QED BY <3>3, <3>4, <3>5, <3>6, <3>7, <3>8
  <2>2. CASE e # Client
    <3>1. gen \in 1..gen /\ e = Server /\ Other(e) = Client
      BY <1>1, <1>2, <2>2 DEF Begun, TypeInv, Sides, Other
    <3>2. down' = [down EXCEPT ![gen] = st \o m] /\ up' = up /\ gen' = gen /\ st = down[gen]
      BY <1>7, <1>8, <2>2 DEF Stream, st
    <3>3. down \in Seq(Seq(Seg)) /\ Len(down) = gen /\ gen \in Nat
      BY <1>1 DEF TypeInv
    <3>4. down' \in Seq(Seq(Seg)) /\ Len(down') = gen /\ down'[gen] = st \o m
          /\ \A g \in 1..gen : down[g] \in Seq(Seg) /\ (g # gen => down'[g] = down[g])
      BY <1>9, <3>1, <3>2, <3>3
    <3>5. Streams(Client)' = Streams(Client)
      BY <3>2 DEF Streams
    <3>6. Streams(Client) \in SUBSET Seq(Seg) /\ Streams(Server) \in SUBSET Seq(Seg)
      BY <1>1, StreamsType, SidesLemma
    <3>7. Grown(Streams(Client), Streams(Client)')
      BY <3>5, <3>6, SelfGrown
    <3>8. Grown(Streams(Server), Streams(Server)')
      <4>1. Streams(Server) = {down[g] : g \in 1..gen}
            /\ Streams(Server)' = {down'[g] : g \in 1..gen}
        BY <3>2, SidesLemma DEF Streams
      <4>2. \A g \in 1..gen : down'[g] \in Seq(Seg)
        BY <1>9, <3>4
      <4>3. ASSUME NEW g \in 1..gen PROVE Extends(down[g], down'[g])
        <5>1. CASE g = gen
          BY <1>9, <3>2, <3>4, <5>1
        <5>2. CASE g # gen
          BY <3>4, <5>2 DEF Extends
        <5> QED BY <5>1, <5>2
      <4> QED BY <3>6, <4>1, <4>2, <4>3 DEF Grown
    <3>9. Stream(e)' = st \o m /\ Stream(Other(e))' = Stream(Other(e))
      BY <2>2, <3>1, <3>2, <3>4 DEF Stream
    <3>10. up' \in Seq(Seg)
      BY <1>1, <3>2 DEF TypeInv
    <3>11. \A x \in Sides : x = Client \/ x = Server
      BY DEF Sides
    <3> QED BY <3>4, <3>6, <3>7, <3>8, <3>9, <3>10, <3>11
  <2> QED BY <2>1, <2>2
<1> HIDE DEF f
<1>11. Shut(fw[e], f)
  BY <1>3, TcpReceivedShut DEF f
<1>12. /\ fw' \in [Sides -> Fwd] /\ (\A x \in Sides : fw'[x].tcp => fw[x].tcp)
       /\ (\A x \in Sides : x # e => fw'[x] = fw[x])
  BY <1>1, <1>7, <1>11, BecomesShut DEF TypeInv
<1>13. TypeInv' /\ kcp'[e] = r /\ kcp'[Other(e)] = kcp[Other(e)]
  BY <1>1, <1>6, <1>7, <1>10, <1>12, SidesLemma DEF TypeInv
<1>14. gen = 0 => fw'[Server] = NoFwd
  BY <1>1, <1>2, <1>12, SidesLemma DEF PlacesInv, Begun
<1>15. \A x \in Sides : Got(x)' = Got(x)
  BY <1>7 DEF Got
<1>16. Receiver(r, Got(e), fw[e].tcp, Streams(Other(e)))
  <2>1. r.rcv_nxt = kcp[e].rcv_nxt /\ r.rcv_buf = kcp[e].rcv_buf
        /\ r.rcv_queue = kcp[e].rcv_queue
    BY <1>3, <1>6 DEF Kcp, k
  <2> QED BY <1>3, <2>1, ReceiverSame
<1>17. \A x \in Sides : \A d \in net'[x] : Pushes(d, Streams(Other(x)))
  BY <1>1, <1>7 DEF PlacesInv
<1>18. PlacesInv'
  BY <1>2, <1>3, <1>7, <1>9, <1>10, <1>12, <1>13, <1>14, <1>15, <1>16, <1>17, SidesLemma, Evolves
<1> QED BY <1>13, <1>18 DEF Inv

-----------------------------------------------------------------------------
(* The update coroutine reads: c segments leave rcv_queue, and are handed  *)
(* out when the TCP socket is open.                                        *)
LEMMA ReadsKeeps ==
  ASSUME Inv, NEW e \in Sides, Begun(e), NEW k \in Kcp,
         Sender(k, Stream(e)), Receiver(k, Got(e), fw[e].tcp, Streams(Other(e))),
         NEW f, Shut(fw[e], f[CanPeek(k)]), Reads(e, k, f),
         net' \in [Sides -> SUBSET Datagram],
         \A x \in Sides : \A d \in net'[x] : Pushes(d, Streams(Other(x)))
  PROVE  Inv'
<1> DEFINE from == Streams(Other(e))
           g == Got(e)
           open == fw[e].tcp
           msg == IF CanPeek(k) /\ open THEN RecvMessage(k) ELSE <<>>
           r == IF CanPeek(k) THEN ikcp_recv(k) ELSE k
           st == Stream(e)
<1>1. TypeInv /\ PlacesInv
  BY DEF Inv
<1>2. /\ fw[e] \in Fwd /\ open \in BOOLEAN /\ st \in Seq(Seg)
      /\ g \in Seq(Seg) /\ Handed(g, from)
  BY SideOf
<1>3. /\ kcp' = [kcp EXCEPT ![e] = r] /\ Becomes(e, f[CanPeek(k)])
      /\ UNCHANGED <<gen, up, down>>
  BY DEF Reads
<1>4. IF e = Client THEN gotDown' = gotDown \o msg /\ UNCHANGED gotUp
                    ELSE gotUp' = [gotUp EXCEPT ![gen] = @ \o msg] /\ UNCHANGED gotDown
  BY DEF Reads
<1>5. /\ msg \in Seq(Seg) /\ r \in Kcp /\ Sender(r, st)
      /\ Receiver(r, g \o msg, open, from) /\ Handed(g \o msg, from)
  <2>1. Sender(k, st) /\ Receiver(k, g, open, from)
    OBVIOUS
  <2> HIDE DEF from, g, st
  <2>2. CASE CanPeek(k)
    <3> DEFINE c == PeekCount(k)
               q == k.rcv_queue
               p == RecvMessage(k)
    <3>1. PICK n \in Nat : Shifted(k, ikcp_recv(k), c, n)
      BY <2>2, RecvLemma
    <3>2. r = ikcp_recv(k) /\ msg = IF open THEN p ELSE <<>>
      BY <2>2
    <3>3. Shifted(k, r, c, n)
      BY <3>1, <3>2
    <3>4. c \in 1..Len(q) /\ p \in Seq(Seg) /\ Len(p) = c /\ \A i \in 1..c : p[i] = q[i]
      BY <2>2, PeekLemma
    <3> HIDE DEF open, c, q, p, r, msg
    <3>5. c \in 0..Len(q)
      BY <3>4
    <3>6. msg \in Seq(Seg) /\ (Len(msg) = IF open THEN c ELSE 0)
          /\ \A i \in 1..Len(msg) : msg[i] = q[i]
      <4>1. CASE open
        BY <3>2, <3>4, <4>1
      <4>2. CASE ~open
        BY <3>2, <4>2
      <4> QED BY <4>1, <4>2
    <3>7. c \in 0..Len(k.rcv_queue) /\ \A i \in 1..Len(msg) : msg[i] = k.rcv_queue[i]
      BY <3>5, <3>6 DEF q
    <3>8. Receiver(r, g \o msg, open, from) /\ Handed(g \o msg, from)
      BY <1>2, <2>1, <3>3, <3>6, <3>7, ReceiverShifts
    <3>9. r \in Kcp /\ SameSender(k, r)
      BY <3>3 DEF Shifted
    <3> QED BY <2>1, <3>6, <3>8, <3>9, SenderSame
  <2>3. CASE ~CanPeek(k)
    <3>1. r = k /\ msg = <<>>
      BY <2>3
    <3> HIDE DEF r, msg
    <3>2. msg \in Seq(Seg) /\ g \o msg = g
      BY <1>2, <3>1
    <3> QED BY <1>2, <2>1, <3>1, <3>2
  <2> QED BY <2>2, <2>3
<1> HIDE DEF msg, r
<1>6. g \o msg \in Seq(Seg)
  BY <1>2, <1>5
<1>7. /\ Got(e)' = g \o msg /\ Got(Other(e))' = Got(Other(e))
      /\ \A h \in 1..gen : h # gen => gotUp'[h] = gotUp[h]
      /\ gotDown' \in Seq(Seg) /\ gotUp' \in Seq(Seq(Seg)) /\ Len(gotUp') = gen
  <2>1. CASE e = Client
    <3>1. gotDown' = gotDown \o msg /\ gotUp' = gotUp /\ gen' = gen /\ g = gotDown
      BY <1>3, <1>4, <2>1 DEF Got
    <3> QED BY <1>1, <1>6, <2>1, <3>1, SidesLemma DEF Got, Other, TypeInv
  <2>2. CASE e # Client
    <3>1. gen \in 1..gen /\ e = Server /\ Other(e) = Client
      BY <1>1, <2>2 DEF Begun, TypeInv, Sides, Other
    <3>2. gotUp' = [gotUp EXCEPT ![gen] = g \o msg] /\ gotDown' = gotDown /\ gen' = gen
      BY <1>3, <1>4, <2>2 DEF Got
    <3>3. gotUp \in Seq(Seq(Seg)) /\ Len(gotUp) = gen /\ gotDown \in Seq(Seg)
      BY <1>1 DEF TypeInv
    <3>4. gotUp' \in Seq(Seq(Seg)) /\ Len(gotUp') = gen /\ gotUp'[gen] = g \o msg
          /\ \A h \in 1..gen : h # gen => gotUp'[h] = gotUp[h]
      <4> HIDE DEF g
      <4> QED BY <1>6, <3>1, <3>2, <3>3
    <3>5. Got(e)' = g \o msg /\ Got(Other(e))' = Got(Other(e))
      BY <2>2, <3>1, <3>2, <3>4 DEF Got
    <3> QED BY <3>2, <3>3, <3>4, <3>5
  <2> QED BY <2>1, <2>2
<1>8. /\ fw' \in [Sides -> Fwd] /\ (\A x \in Sides : fw'[x].tcp => fw[x].tcp)
      /\ (\A x \in Sides : x # e => fw'[x] = fw[x])
  BY <1>1, <1>3, BecomesShut DEF TypeInv
<1>9. TypeInv' /\ kcp'[e] = r /\ kcp'[Other(e)] = kcp[Other(e)]
  BY <1>1, <1>3, <1>5, <1>7, <1>8, SidesLemma DEF TypeInv
<1>10. gen = 0 => fw'[Server] = NoFwd
  BY <1>1, <1>8, SidesLemma DEF PlacesInv, Begun
<1>11. \A x \in Sides : Stream(x)' = Stream(x) /\ Grown(Streams(x), Streams(x)')
  <2> SUFFICES ASSUME NEW x \in Sides
               PROVE  Stream(x)' = Stream(x) /\ Grown(Streams(x), Streams(x)')
    OBVIOUS
  <2>1. Stream(x)' = Stream(x) /\ Streams(x)' = Streams(x)
    BY <1>3 DEF Stream, Streams
  <2>2. Streams(x) \in SUBSET Seq(Seg)
    BY <1>1, StreamsType
  <2> QED BY <2>1, <2>2, SelfGrown
<1>12. Sender(kcp'[e], Stream(e)') /\ Handed(Got(e)', Streams(Other(e)))
       /\ Receiver(kcp'[e], Got(e)', fw[e].tcp, Streams(Other(e)))
  BY <1>5, <1>7, <1>9, <1>11
<1>13. PlacesInv'
  BY <1>3, <1>7, <1>8, <1>9, <1>10, <1>11, <1>12, SidesLemma, Evolves
<1> QED BY <1>9, <1>13 DEF Inv

(* ikcp_flush, and the first ikcp_recv. *)
LEMMA FlushKeeps ==
  ASSUME Inv, NEW e \in Sides, Begun(e), NEW due \in SUBSET DOMAIN kcp[e].snd_buf,
         NEW probeDue, NEW lossy, NEW f, \A more \in BOOLEAN : Shut(fw[e], f[more]),
         Flush(e, due, probeDue, lossy, f)
  PROVE  Inv'
<1> DEFINE k == kcp[e]
           filled == FillSndBuf(k)
           r == ikcp_flush(k, filled)
           out == FlushOutput(k, filled, due, probeDue)
           all == net[Other(e)] \cup out
<1>1. TypeInv /\ PlacesInv
  BY DEF Inv
<1>2. /\ k \in Kcp /\ Stream(e) \in Streams(e) /\ Stream(e) \in Seq(Seg)
      /\ Sender(k, Stream(e)) /\ Receiver(k, Got(e), fw[e].tcp, Streams(Other(e)))
  BY SideOf
<1>3. PICK t \in SUBSET all : net' = [net EXCEPT ![Other(e)] = t]
  BY DEF Flush
<1>4. Reads(e, r, f) /\ due \in SUBSET DOMAIN k.snd_buf
  BY DEF Flush
<1> HIDE DEF k
<1>5. Filled(k, filled, FlushCount(k))
  BY <1>2, FillLemma
<1> HIDE DEF filled
<1>6. filled \in Kcp /\ SameReceiver(k, filled)
  BY <1>5 DEF Filled
<1>7. Sender(filled, Stream(e))
  BY <1>2, <1>5, SenderFills
<1>8. /\ r \in Kcp /\ SameSender(filled, r) /\ r.rcv_nxt = k.rcv_nxt
      /\ r.rcv_buf = k.rcv_buf /\ r.rcv_queue = k.rcv_queue
  BY <1>2, <1>6, FlushLemma DEF SameReceiver
<1> HIDE DEF r
<1>9. Sender(r, Stream(e)) /\ Receiver(r, Got(e), fw[e].tcp, Streams(Other(e)))
  BY <1>2, <1>7, <1>8, SenderSame, ReceiverSame
<1>10. ASSUME NEW d \in out PROVE d \in Datagram /\ Pushes(d, Streams(e))
  <2>1. Carries(d, k, filled)
    BY <1>2, <1>4, <1>5, OutputLemma
  <2>2. Pushes(d, {Stream(e)})
    BY <1>7, <2>1, CarriesPushes
  <2> QED BY <1>2, <2>1, <2>2 DEF Carries, Pushes
<1> HIDE DEF out
<1>11. net' \in [Sides -> SUBSET Datagram]
       /\ \A x \in Sides : \A d \in net'[x] : Pushes(d, Streams(Other(x)))
  <2>1. \A d \in all : d \in Datagram /\ Pushes(d, Streams(Other(Other(e))))
    BY <1>1, <1>10, SidesLemma DEF TypeInv, PlacesInv
  <2>2. net \in [Sides -> SUBSET Datagram]
    BY <1>1 DEF TypeInv
  <2> HIDE DEF all
  <2>3. net' \in [Sides -> SUBSET Datagram]
    BY <1>3, <2>1, <2>2
  <2>4. ASSUME NEW x \in Sides, NEW d \in net'[x] PROVE Pushes(d, Streams(Other(x)))
    <3>1. CASE x = Other(e)
      BY <1>3, <2>1, <2>2, <3>1
    <3>2. CASE x # Other(e)
      BY <1>1, <1>3, <2>2, <3>2 DEF PlacesInv
    <3> QED BY <3>1, <3>2
  <2> QED BY <2>3, <2>4
<1>12. CanPeek(r) \in BOOLEAN
  BY DEF CanPeek
<1> QED BY <1>4, <1>8, <1>9, <1>11, <1>12, ReadsKeeps

-----------------------------------------------------------------------------
LEMMA TakenLemma ==
  ASSUME TypeInv, NEW e \in Sides, NEW d, NEW again, Taken(e, d, again)
  PROVE  net' \in [Sides -> SUBSET Datagram] /\ \A x \in Sides : net'[x] \subseteq net[x]
<1>1. net \in [Sides -> SUBSET Datagram]
  BY DEF TypeInv
<1>2. CASE again
  BY <1>1, <1>2 DEF Taken
<1>3. CASE ~again
  BY <1>1, <1>3 DEF Taken
<1> QED BY <1>2, <1>3

(* What arrives is from a stream of the other side. *)
LEMMA ArrivesPlaced ==
  ASSUME Inv, NEW e \in Sides, NEW d \in net[e]
  PROVE  d \in Datagram /\ Pushes(d, Streams(Other(e)))
BY DEF Inv, TypeInv, PlacesInv

LEMMA InputKeeps ==
  ASSUME Inv, NEW e \in Sides, NEW d \in net[e], NEW again, Input(e, d, again)
  PROVE  Inv'
<1> DEFINE r == InputAll(kcp[e], d)
<1>1. TypeInv
  BY DEF Inv
<1>2. Begun(e)
  BY FwdBegun DEF Input, NoFwd
<1>3. kcp' = [kcp EXCEPT ![e] = r] /\ UNCHANGED <<gen, hist>>
  BY DEF Input
<1>4. r \in Kcp /\ Sender(r, Stream(e)) /\ Receiver(r, Got(e), fw[e].tcp, Streams(Other(e)))
  BY <1>2, SideOf, ArrivesPlaced, InputAllLemma
<1> HIDE DEF r
<1>5. Shut(fw[e], UdpReceived(fw[e], "ok")) /\ Becomes(e, UdpReceived(fw[e], "ok"))
  BY <1>2, SideOf, UdpReceivedShut DEF Input
<1>6. net' \in [Sides -> SUBSET Datagram] /\ \A x \in Sides : net'[x] \subseteq net[x]
  BY <1>1, TakenLemma DEF Input
<1> QED BY <1>2, <1>3, <1>4, <1>5, <1>6, Inputs

LEMMA AcceptKnownKeeps ==
  ASSUME Inv, NEW d \in net[Server], NEW again, AcceptKnown(d, again)
  PROVE  Inv'
<1> DEFINE i == InputAll(kcp[Server], d)
           r == [i EXCEPT !.acklist = IF fw[Server].udp THEN @ ELSE <<>>]
           from == Streams(Other(Server))
<1>1. TypeInv /\ Server \in Sides
  BY SidesLemma DEF Inv
<1>2. Begun(Server)
  BY <1>1, FwdBegun DEF AcceptKnown, NoFwd
<1>3. kcp' = [kcp EXCEPT ![Server] = r] /\ UNCHANGED <<gen, hist>>
  BY DEF AcceptKnown
<1>4. /\ i \in Kcp /\ Sender(i, Stream(Server))
      /\ Receiver(i, Got(Server), fw[Server].tcp, from)
  BY <1>1, <1>2, SideOf, ArrivesPlaced, InputAllLemma
<1> HIDE DEF i
<1>5. /\ r \in Kcp /\ SameSender(i, r) /\ r.rcv_nxt = i.rcv_nxt
      /\ r.rcv_buf = i.rcv_buf /\ r.rcv_queue = i.rcv_queue
  <2> DEFINE acks == IF fw[Server].udp THEN i.acklist ELSE <<>>
  <2>1. i \in Kcp /\ acks \in Seq(Nat) /\ r = [i EXCEPT !.acklist = acks]
    BY <1>4 DEF Kcp
  <2> HIDE DEF acks, r
  <2> QED BY <2>1 DEF Kcp, SameSender
<1> HIDE DEF r
<1>6. Sender(r, Stream(Server)) /\ Receiver(r, Got(Server), fw[Server].tcp, from)
  BY <1>4, <1>5, SenderSame, ReceiverSame
<1>7. Shut(fw[Server], OnUdpData(fw[Server])) /\ Becomes(Server, OnUdpData(fw[Server]))
  BY <1>1, <1>2, SideOf, OnUdpDataShut DEF AcceptKnown
<1>8. net' \in [Sides -> SUBSET Datagram] /\ \A x \in Sides : net'[x] \subseteq net[x]
  BY <1>1, TakenLemma DEF AcceptKnown
<1> QED BY <1>1, <1>2, <1>3, <1>5, <1>6, <1>7, <1>8, Inputs

(* A new control block has nothing to send and has received nothing. *)
LEMMA FreshPlaces ==
  ASSUME NEW from
  PROVE  /\ ikcp_create \in Kcp /\ Sender(ikcp_create, <<>>)
         /\ \A open \in BOOLEAN : Receiver(ikcp_create, <<>>, open, from)
         /\ Handed(<<>>, from)
<1>1. <<>> \in SnMap(Seg)
  <2>1. <<>> = [x \in {} |-> <<>>[x]] /\ DOMAIN <<>> = {}
    OBVIOUS
  <2> QED BY <2>1, SnMapIntro
<1>2. ikcp_create \in Kcp
  BY <1>1, SizesAssumption DEF ikcp_create, Kcp
<1>3. Sender(ikcp_create, <<>>)
  BY DEF ikcp_create, Sender
<1>4. \A open \in BOOLEAN : Receiver(ikcp_create, <<>>, open, from)
  BY DEF ikcp_create, Receiver
<1> QED BY <1>2, <1>3, <1>4 DEF Handed

LEMMA AppendLemma ==
  ASSUME NEW S, NEW s \in Seq(S), NEW x \in S, NEW n, Len(s) = n, NEW r, r = Append(s, x)
  PROVE  /\ r \in Seq(S) /\ Len(r) = n + 1 /\ r[n + 1] = x
         /\ \A i \in 1..n : r[i] = s[i]
OBVIOUS

LEMMA AcceptNewKeeps ==
  ASSUME Inv, NEW d \in net[Server], NEW again, AcceptNew(d, again)
  PROVE  Inv'
<1> DEFINE r == InputAll(ikcp_create, d)
           from == Streams(Client)
           f == OnUdpData(Start(Construct(Junk), TRUE))
           h == IF Unowned(f) THEN Destruct(f) ELSE f
           empty == <<>>
<1>1. TypeInv /\ PlacesInv /\ Server \in Sides /\ Client \in Sides
      /\ Other(Server) = Client /\ Other(Client) = Server
  BY SidesLemma DEF Inv, Other
<1>2. /\ gen' = gen + 1 /\ kcp' = [kcp EXCEPT ![Server] = r]
      /\ fw' = [fw EXCEPT ![Server] = h]
      /\ down' = Append(down, empty) /\ gotUp' = Append(gotUp, empty)
      /\ UNCHANGED <<up, gotDown>>
  BY DEF AcceptNew, Becomes
<1>3. net' \in [Sides -> SUBSET Datagram] /\ \A x \in Sides : net'[x] \subseteq net[x]
  BY <1>1, TakenLemma DEF AcceptNew
<1>4. h \in Fwd /\ h.tcp \in BOOLEAN
  <2>1. Junk \in Flags
    BY DEF Junk, Flags
  <2>2. f \in Fwd
    BY <2>1, StartEffect
  <2>3. h \in Fwd
    BY <2>2, DestructVacant DEF Vacant
  <2> HIDE DEF h
  <2> QED BY <2>3 DEF Fwd
<1> HIDE DEF f, h
<1>5. empty \in Seq(Seg)
  OBVIOUS
<1>6. /\ r \in Kcp /\ Sender(r, empty) /\ Receiver(r, empty, h.tcp, from)
      /\ Handed(empty, from)
  <2>1. /\ ikcp_create \in Kcp /\ Sender(ikcp_create, empty)
        /\ Receiver(ikcp_create, empty, h.tcp, from) /\ Handed(empty, from)
    BY <1>4, FreshPlaces
  <2>2. d \in Datagram /\ Pushes(d, from) /\ from \in SUBSET Seq(Seg)
    BY <1>1, ArrivesPlaced, StreamsType
  <2> HIDE DEF from, empty
  <2> QED BY <1>4, <1>5, <2>1, <2>2, InputAllLemma
<1> HIDE DEF r, empty
<1>7. gen \in Nat /\ Len(down) = gen /\ Len(gotUp) = gen
      /\ down \in Seq(Seq(Seg)) /\ gotUp \in Seq(Seq(Seg))
  BY <1>1 DEF TypeInv
<1>8. /\ down' \in Seq(Seq(Seg)) /\ Len(down') = gen + 1 /\ down'[gen + 1] = empty
      /\ \A g \in 1..gen : down'[g] = down[g]
  <2> DEFINE S == Seq(Seg)
  <2>1. down \in Seq(S) /\ empty \in S /\ down' = Append(down, empty) /\ Len(down) = gen
    BY <1>2, <1>5, <1>7
  <2> HIDE DEF S
  <2>2. /\ down' \in Seq(S) /\ Len(down') = gen + 1 /\ down'[gen + 1] = empty
        /\ \A g \in 1..gen : down'[g] = down[g]
    BY <2>1, AppendLemma
  <2> QED BY <2>2 DEF S
<1>9. /\ gotUp' \in Seq(Seq(Seg)) /\ Len(gotUp') = gen + 1 /\ gotUp'[gen + 1] = empty
      /\ \A g \in 1..gen : gotUp'[g] = gotUp[g]
  <2> DEFINE S == Seq(Seg)
  <2>1. gotUp \in Seq(S) /\ empty \in S /\ gotUp' = Append(gotUp, empty) /\ Len(gotUp) = gen
    BY <1>2, <1>5, <1>7
  <2> HIDE DEF S
  <2>2. /\ gotUp' \in Seq(S) /\ Len(gotUp') = gen + 1 /\ gotUp'[gen + 1] = empty
        /\ \A g \in 1..gen : gotUp'[g] = gotUp[g]
    BY <2>1, AppendLemma
  <2> QED BY <2>2 DEF S
<1>10. TypeInv'
  <2>1. fw' \in [Sides -> Fwd] /\ kcp' \in [Sides -> Kcp]
    BY <1>1, <1>2, <1>4, <1>6 DEF TypeInv
  <2>2. gen' \in Nat /\ Len(down') = gen' /\ Len(gotUp') = gen'
    BY <1>2, <1>7, <1>8, <1>9
  <2>3. up' \in Seq(Seg) /\ gotDown' \in Seq(Seg)
    BY <1>1, <1>2 DEF TypeInv
  <2> QED BY <1>3, <1>8, <1>9, <2>1, <2>2, <2>3 DEF TypeInv
<1>11. Streams(Client)' = Streams(Client) /\ Grown(Streams(Server), Streams(Server)')
  <2>1. Streams(Client)' = Streams(Client)
    BY <1>2 DEF Streams
  <2>2. Streams(Server) = {down[g] : g \in 1..gen}
        /\ Streams(Server)' = {down'[g] : g \in 1 .. (gen + 1)}
    BY <1>2, SidesLemma DEF Streams
  <2>3. Streams(Server) \in SUBSET Seq(Seg)
    BY <1>1, StreamsType
  <2>4. Streams(Server)' \in SUBSET Seq(Seg)
    BY <1>7, <1>8, <2>2
  <2>5. Streams(Server) \subseteq Streams(Server)'
    <3> SUFFICES ASSUME NEW g \in 1..gen PROVE \E b \in 1 .. (gen + 1) : down'[b] = down[g]
      BY <2>2
    <3>1. g \in 1 .. (gen + 1)
      BY <1>7
    <3> QED BY <1>8, <3>1
  <2> QED BY <2>1, <2>3, <2>4, <2>5, SelfGrown
<1>12. /\ Sender(kcp'[Client], Stream(Client)')
       /\ Receiver(kcp'[Client], Got(Client)', fw'[Client].tcp, Streams(Other(Client))')
       /\ Handed(gotDown', Streams(Server)')
  <2>1. Begun(Client)
    BY DEF Begun
  <2>2. /\ kcp[Client] \in Kcp /\ fw[Client].tcp \in BOOLEAN
        /\ Got(Client) \in Seq(Seg) /\ Sender(kcp[Client], Stream(Client))
        /\ Receiver(kcp[Client], Got(Client), fw[Client].tcp, Streams(Server))
        /\ Handed(Got(Client), Streams(Server))
    BY <1>1, <2>1, SideOf
  <2>3. kcp'[Client] = kcp[Client] /\ fw'[Client] = fw[Client]
    BY <1>1, <1>2, SidesLemma DEF TypeInv
  <2>4. Stream(Client)' = Stream(Client) /\ Got(Client)' = Got(Client) /\ Got(Client)' = gotDown'
    BY <1>2 DEF Stream, Got
  <2>5. Receiver(kcp[Client], Got(Client), fw[Client].tcp, Streams(Server)')
    BY <1>11, <2>2, GrownReceiver
  <2>6. Handed(Got(Client), Streams(Server)')
    BY <1>11, <2>2, GrownHanded
  <2> QED BY <1>1, <2>2, <2>3, <2>4, <2>5, <2>6
<1>13. /\ Sender(kcp'[Server], Stream(Server)')
       /\ Receiver(kcp'[Server], Got(Server)', fw'[Server].tcp, Streams(Other(Server))')
  <2>1. kcp'[Server] = r /\ fw'[Server] = h
    BY <1>1, <1>2 DEF TypeInv
  <2>2. Stream(Server)' = empty /\ Got(Server)' = empty
    BY <1>2, <1>8, <1>9, SidesLemma DEF Stream, Got
  <2> QED BY <1>1, <1>6, <1>11, <2>1, <2>2
<1>14. ASSUME NEW g \in 1..gen' PROVE Handed(gotUp'[g], Streams(Client)')
  <2>1. CASE g = gen + 1
    BY <1>6, <1>9, <1>11, <2>1
  <2>2. CASE g # gen + 1
    <3>1. g \in 1..gen
      BY <1>2, <1>7, <2>2
    <3>2. Handed(gotUp[g], Streams(Client))
      BY <1>1, <3>1 DEF PlacesInv
    <3> QED BY <1>9, <1>11, <3>1, <3>2
  <2> QED BY <2>1, <2>2
<1>15. ASSUME NEW x \in Sides, NEW b \in net'[x] PROVE Pushes(b, Streams(Other(x))')
  <2>1. b \in Datagram /\ Pushes(b, Streams(Other(x)))
    BY <1>3, ArrivesPlaced
  <2>2. Other(x) = Client \/ Other(x) = Server
    BY SidesLemma DEF Sides
  <2> QED BY <1>11, <2>1, <2>2, GrownPushes
<1>16. gen' # 0
  BY <1>2, <1>7
<1>17. \A x \in Sides : x = Client \/ x = Server
  BY DEF Sides
<1>18. PlacesInv'
  BY <1>12, <1>13, <1>14, <1>15, <1>16, <1>17 DEF PlacesInv
<1> QED BY <1>10, <1>18 DEF Inv

-----------------------------------------------------------------------------
LEMMA InitInv == Init => Inv
<1> SUFFICES ASSUME Init PROVE Inv
  OBVIOUS
<1>1. NoFwd \in Fwd
  BY NoFwdVacant DEF Vacant
<1>2. ClientStart(Construct(Junk)) \in Fwd
  BY ClientStartEffect DEF Engaged, Junk, Flags
<1>3. fw \in [Sides -> Fwd] /\ fw[Server] = NoFwd
  BY <1>1, <1>2, SidesLemma DEF Init
<1>4. ikcp_create \in Kcp
  BY FreshPlaces
<1>5. TypeInv
  BY <1>3, <1>4 DEF Init, TypeInv
<1>6. kcp[Client] = ikcp_create /\ up = <<>> /\ gotDown = <<>> /\ gen = 0
  BY SidesLemma DEF Init
<1>7. fw[Client].tcp \in BOOLEAN
  BY <1>3, SidesLemma DEF Fwd
<1>8. Sender(kcp[Client], Stream(Client))
      /\ Receiver(kcp[Client], Got(Client), fw[Client].tcp, Streams(Other(Client)))
      /\ Handed(gotDown, Streams(Server))
  BY <1>6, <1>7, FreshPlaces DEF Stream, Got
<1>9. \A e \in Sides : Begun(e) => e = Client
  BY <1>6 DEF Begun
<1>10. \A e \in Sides : net[e] = {}
  BY DEF Init
<1>11. PlacesInv
  BY <1>3, <1>6, <1>8, <1>9, <1>10 DEF PlacesInv
<1> QED BY <1>5, <1>11 DEF Inv

LEMMA StutterInv == Inv /\ UNCHANGED vars => Inv'
<1> SUFFICES ASSUME Inv, UNCHANGED vars PROVE Inv'
  OBVIOUS
<1>1. UNCHANGED <<fw, kcp, net, gen, up, down, gotUp, gotDown>>
  BY DEF vars, hist
<1> QED BY <1>1 DEF Inv, TypeInv, PlacesInv, Begun, Stream, Got, Streams

LEMMA StepsKeep ==
  ASSUME Inv, NEW e \in Sides, Steps(e)
  PROVE  Inv'
<1>1. TypeInv /\ fw[e] \in Fwd
  BY DEF Inv, TypeInv
<1>2. net' = net => net' \in [Sides -> SUBSET Datagram] /\ \A x \in Sides : net'[x] \subseteq net[x]
  BY <1>1 DEF TypeInv
<1>3. CASE Updates(e)
  <2>1. PICK due \in SUBSET DOMAIN kcp[e].snd_buf, probeDue \in {FALSE, CanProbe(kcp[e])} :
          Update(e, due, probeDue, TRUE) \/ (e = Server /\ Connect(due, probeDue, TRUE))
    BY <1>3 DEF Updates
  <2>2. CASE Update(e, due, probeDue, TRUE)
    <3> DEFINE f == [more \in BOOLEAN |-> Updated(fw[e], more)]
    <3>1. Flush(e, due, probeDue, TRUE, f)
      BY <2>2 DEF Update
    <3>2. Begun(e)
      BY <2>2, FwdBegun DEF Update, NoFwd
    <3>3. \A more \in BOOLEAN : Shut(fw[e], f[more])
      BY <1>1, UpdatedShut
    <3> HIDE DEF f
    <3> QED BY <3>1, <3>2, <3>3, FlushKeeps
  <2>3. CASE e = Server /\ Connect(due, probeDue, TRUE)
    <3> DEFINE f == [more \in BOOLEAN |-> Connected(fw[Server], TRUE, more)]
    <3>1. Flush(e, due, probeDue, TRUE, f)
      BY <2>3 DEF Connect
    <3>2. Begun(e)
      BY <2>3, FwdBegun DEF Connect, NoFwd
    <3>3. \A more \in BOOLEAN : Shut(fw[e], f[more])
      BY <1>1, <2>3, ConnectedShut
    <3> HIDE DEF f
    <3> QED BY <3>1, <3>2, <3>3, FlushKeeps
  <2> QED BY <2>1, <2>2, <2>3
<1>4. CASE UpdateEnd(e)
  <2>1. Becomes(e, Updated(fw[e], FALSE)) /\ UNCHANGED <<kcp, net, gen, hist>>
    BY <1>4 DEF UpdateEnd
  <2>2. Begun(e)
    BY <1>4, FwdBegun DEF UpdateEnd, NoFwd
  <2>3. Shut(fw[e], Updated(fw[e], FALSE))
    BY <1>1, UpdatedShut
  <2> QED BY <1>2, <2>1, <2>2, <2>3, Rests
<1>5. CASE WriteDone(e)
  <2> DEFINE f == [more \in BOOLEAN |-> Wrote(fw[e], "ok", more)]
  <2>1. Reads(e, kcp[e], f) /\ Begun(e) /\ net' = net
    BY <1>5, FwdBegun DEF WriteDone, NoFwd
  <2>2. CanPeek(kcp[e]) \in BOOLEAN
    BY DEF CanPeek
  <2>3. Shut(fw[e], f[CanPeek(kcp[e])])
    BY <1>1, <2>2, WroteShut
  <2>4. \A x \in Sides : \A d \in net'[x] : Pushes(d, Streams(Other(x)))
    BY <2>1, ArrivesPlaced
  <2> HIDE DEF f
  <2> QED BY <1>2, <2>1, <2>3, <2>4, SideOf, ReadsKeeps
<1>6. CASE WriteFails(e)
  <2>1. Becomes(e, Wrote(fw[e], "error", FALSE)) /\ UNCHANGED <<kcp, net, gen, hist>>
    BY <1>6 DEF WriteFails
  <2>2. Begun(e)
    BY <1>6, FwdBegun DEF WriteFails, NoFwd
  <2>3. Shut(fw[e], Wrote(fw[e], "error", FALSE))
    BY <1>1, WroteShut
  <2> QED BY <1>2, <2>1, <2>2, <2>3, Rests
<1>7. CASE TcpEnd(e)
  <2>1. Becomes(e, TcpReceived(fw[e], "error")) /\ UNCHANGED <<kcp, net, gen, hist>>
    BY <1>7 DEF TcpEnd
  <2>2. Begun(e)
    BY <1>7, FwdBegun DEF TcpEnd, NoFwd
  <2>3. Shut(fw[e], TcpReceived(fw[e], "error"))
    BY <1>1, TcpReceivedShut
  <2> QED BY <1>2, <2>1, <2>2, <2>3, Rests
<1>8. CASE UdpEnd(e)
  <2>1. Becomes(e, UdpReceived(fw[e], "error")) /\ UNCHANGED <<kcp, net, gen, hist>>
    BY <1>8 DEF UdpEnd
  <2>2. Begun(e)
    BY <1>8, FwdBegun DEF UdpEnd, NoFwd
  <2>3. Shut(fw[e], UdpReceived(fw[e], "error"))
    BY <1>1, UdpReceivedShut
  <2> QED BY <1>2, <2>1, <2>2, <2>3, Rests
<1> QED BY <1>3, <1>4, <1>5, <1>6, <1>7, <1>8 DEF Steps

LEMMA RefusedKeeps ==
  ASSUME Inv, NEW d \in net[Client], NEW told, Refused(d, told)
  PROVE  Inv'
<1>1. TypeInv /\ Client \in Sides /\ Server \in Sides
  BY SidesLemma DEF Inv
<1>2. net' \in [Sides -> SUBSET Datagram] /\ \A x \in Sides : net'[x] \subseteq net[x]
  BY <1>1, TakenLemma DEF Refused
<1>3. UNCHANGED <<kcp, gen, hist>>
  BY DEF Refused
<1>4. CASE told /\ fw[Server].feed = "read" /\ fw[Server].udp
  <2>1. Becomes(Server, UdpReceived(fw[Server], "error")) /\ Begun(Server)
    BY <1>1, <1>4, FwdBegun DEF Refused, NoFwd
  <2>2. Shut(fw[Server], UdpReceived(fw[Server], "error"))
    BY <1>1, UdpReceivedShut DEF TypeInv
  <2> QED BY <1>1, <1>2, <1>3, <2>1, <2>2, Rests
<1>5. CASE ~(told /\ fw[Server].feed = "read" /\ fw[Server].udp)
  <2>1. fw' = fw
    BY <1>5 DEF Refused
  <2>2. TypeInv' /\ PlacesInv
    BY <1>1, <1>2, <1>3, <2>1 DEF TypeInv, hist, Inv
  <2>3. \A x \in Sides : \A b \in net'[x] : Pushes(b, Streams(Other(x))')
    BY <1>2, <1>3, ArrivesPlaced DEF Streams, hist
  <2>4. PlacesInv'
    BY <1>3, <2>1, <2>2, <2>3 DEF PlacesInv, Begun, Stream, Got, Streams, hist
  <2> QED BY <2>2, <2>4 DEF Inv
<1> QED BY <1>4, <1>5

LEMMA NextInv == Inv /\ [Next]_vars => Inv'
<1> SUFFICES ASSUME Inv, [Next]_vars PROVE Inv'
  OBVIOUS
<1>1. TypeInv /\ Client \in Sides /\ Server \in Sides /\ fw[Server] \in Fwd
  BY SidesLemma DEF Inv, TypeInv
<1>2. net' = net => net' \in [Sides -> SUBSET Datagram] /\ \A x \in Sides : net'[x] \subseteq net[x]
  BY <1>1 DEF TypeInv
<1>3. CASE Data
  <2>1. PICK e \in Sides : Send(e) \/ Steps(e) \/ \E again \in Again : Arrives(e, again)
    BY <1>3 DEF Data
  <2>2. CASE \E again \in Again : Arrives(e, again)
    <3>1. PICK again \in Again, d \in net[e] :
            \/ Input(e, d, again)
            \/ e = Server /\ (AcceptNew(d, again) \/ AcceptKnown(d, again))
            \/ e = Client /\ \E told \in BOOLEAN : Refused(d, told)
      BY <2>2 DEF Arrives
    <3> QED BY <3>1, InputKeeps, AcceptNewKeeps, AcceptKnownKeeps, RefusedKeeps
  <2> QED BY <2>1, <2>2, SendKeeps, StepsKeep
<1>4. CASE ConnectFails
  <2>1. Becomes(Server, Connected(fw[Server], FALSE, FALSE)) /\ UNCHANGED <<kcp, net, gen, hist>>
    BY <1>4 DEF ConnectFails
  <2>2. Begun(Server)
    BY <1>1, <1>4, FwdBegun DEF ConnectFails, NoFwd
  <2>3. Shut(fw[Server], Connected(fw[Server], FALSE, FALSE))
    BY <1>1, ConnectedShut
  <2> QED BY <1>1, <1>2, <2>1, <2>2, <2>3, Rests
<1>5. CASE StillActive \/ IdleStop
  <2>1. Becomes(Server, Inactive(fw[Server]))
        /\ UNCHANGED <<kcp, net, gen, hist>> /\ Begun(Server)
    BY <1>1, <1>5, FwdBegun DEF StillActive, IdleStop, NoFwd
  <2>2. Shut(fw[Server], Inactive(fw[Server]))
    BY <1>1, InactiveShut
  <2> QED BY <1>1, <1>2, <2>1, <2>2, Rests
<1>6. CASE UNCHANGED vars
  BY <1>6, StutterInv
<1> QED BY <1>3, <1>4, <1>5, <1>6 DEF Next

-----------------------------------------------------------------------------
(* Control blocks and datagrams of one connection that meet those of       *)
(* another agree about the place that a sequence number means.             *)
THEOREM PlacesKept == Spec => []PlacesInv
<1>1. Inv => PlacesInv
  BY DEF Inv
<1> QED BY InitInv, NextInv, <1>1, PTL DEF Spec

(* Whatever forwarders the server has had for it, what the TCP client is   *)
(* given as its n-th segment was the n-th of one of their connections.     *)
THEOREM PositionsKept == Spec => []PositionKept
<1>1. Inv => PositionKept
  <2> SUFFICES ASSUME Inv, NEW n \in 1..Len(gotDown)
               PROVE  \E g \in 1..gen : n <= Len(down[g]) /\ gotDown[n] = down[g][n]
    BY DEF PositionKept
  <2>1. AtPlace(Streams(Server), n - 1, gotDown[n])
    BY DEF Inv, PlacesInv, Handed
  <2>2. PICK g \in 1..gen : n - 1 < Len(down[g]) /\ gotDown[n] = down[g][n - 1 + 1]
    BY <2>1, SidesLemma DEF AtPlace, Streams
  <2>3. Len(down[g]) \in Nat /\ n - 1 + 1 = n
    BY DEF Inv, TypeInv
  <2> QED BY <2>2, <2>3
<1> QED BY InitInv, NextInv, <1>1, PTL DEF Spec

(* The restriction of the idle timer leaves fewer behaviours. *)
LEMMA QuietIsSpec == QuietSpec => Spec
<1>1. [QuietNext]_vars => [Next]_vars
  BY DEF QuietNext, Next
<1> QED BY <1>1, PTL DEF QuietSpec, Spec

(* Every connection to the TCP server is given a prefix of what the TCP    *)
(* client wrote, also when the idle timer is restricted.                   *)
THEOREM UpInOrder == (Spec => []UpIsPrefix) /\ (QuietSpec => []UpIsPrefix)
<1>1. Inv => UpIsPrefix
  <2> SUFFICES ASSUME Inv, NEW g \in 1..gen
               PROVE  Len(gotUp[g]) <= Len(up) /\ \A n \in 1..Len(gotUp[g]) : gotUp[g][n] = up[n]
    BY DEF UpIsPrefix
  <2>1. Len(gotUp[g]) \in Nat /\ Len(up) \in Nat
    BY DEF Inv, TypeInv
  <2>2. ASSUME NEW n \in 1..Len(gotUp[g]) PROVE n <= Len(up) /\ gotUp[g][n] = up[n]
    <3>1. AtPlace({up}, n - 1, gotUp[g][n])
      BY DEF Inv, PlacesInv, Handed, Streams
    <3>2. n - 1 < Len(up) /\ gotUp[g][n] = up[n - 1 + 1]
      BY <3>1 DEF AtPlace
    <3> QED BY <2>1, <3>2
  <2>3. Len(gotUp[g]) <= Len(up)
    BY <2>1, <2>2
  <2> QED BY <2>2, <2>3
<1>2. Spec => []UpIsPrefix
  BY InitInv, NextInv, <1>1, PTL DEF Spec
<1> QED BY <1>2, QuietIsSpec
=============================================================================
