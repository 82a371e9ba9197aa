--------------------------- MODULE KcpWindowProofs --------------------------
(***************************************************************************)
(* The sender's window of KcpLink and the direction in which sequence      *)
(* numbers move, for every value of the constants.  Both rest on the same  *)
(* fact about a step of Next: it leaves every control block within its     *)
(* window, and no control block goes back.                                 *)
(***************************************************************************)
EXTENDS KcpLinkProofs

(* A control block whose snd_buf lies between snd_una and snd_nxt, where   *)
(* snd_una is in it unless it is empty, and these two are no further apart *)
(* than the window.                                                        *)
Flight(k) ==
  /\ \A sn \in DOMAIN k.snd_buf : k.snd_una <= sn /\ sn < k.snd_nxt
  /\ \/ k.snd_una \in DOMAIN k.snd_buf
     \/ DOMAIN k.snd_buf = {} /\ k.snd_una = k.snd_nxt
  /\ k.snd_nxt <= k.snd_una + SndWnd

(* The control block r comes after k: nothing is taken back. *)
Advanced(k, r) ==
  /\ k.snd_una <= r.snd_una
  /\ k.rcv_nxt <= r.rcv_nxt
  /\ \A sn \in DOMAIN r.snd_buf : sn \in DOMAIN k.snd_buf \/ k.snd_nxt <= sn

(* What both properties need of a function of ikcp.c. *)
Keeps(k, r) == Flight(k) => Flight(r) /\ Advanced(k, r)

LEMMA Sequenced ==
  ASSUME NEW k \in Kcp
  PROVE  /\ k.snd_una \in Nat /\ k.snd_nxt \in Nat /\ k.rcv_nxt \in Nat
         /\ DOMAIN k.snd_buf \subseteq Nat /\ Len(k.snd_queue) \in Nat
BY SnMapElim DEF Kcp

-----------------------------------------------------------------------------
(* A step that only concerns the receiver. *)
LEMMA SenderKeeps ==
  ASSUME NEW k \in Kcp, NEW r \in Kcp, SameSender(k, r), k.rcv_nxt <= r.rcv_nxt
  PROVE  Keeps(k, r)
BY Sequenced DEF SameSender, Keeps, Flight, Advanced

LEMMA KeepsTransitive ==
  ASSUME NEW k \in Kcp, NEW j \in Kcp, NEW r \in Kcp, Keeps(k, j), Keeps(j, r),
         k.snd_nxt <= j.snd_nxt
  PROVE  Keeps(k, r)
<1> SUFFICES ASSUME Flight(k) PROVE Flight(r) /\ Advanced(k, r)
  BY DEF Keeps
<1>1. Flight(j) /\ Advanced(k, j) /\ Flight(r) /\ Advanced(j, r)
  BY DEF Keeps
<1>2. k.snd_una <= r.snd_una /\ k.rcv_nxt <= r.rcv_nxt
  <2>1. /\ k.snd_una \in Nat /\ j.snd_una \in Nat /\ r.snd_una \in Nat
        /\ k.rcv_nxt \in Nat /\ j.rcv_nxt \in Nat /\ r.rcv_nxt \in Nat
    BY Sequenced
  <2> QED BY <1>1, <2>1 DEF Advanced
<1>3. ASSUME NEW sn \in DOMAIN r.snd_buf PROVE sn \in DOMAIN k.snd_buf \/ k.snd_nxt <= sn
  <2>1. sn \in Nat /\ k.snd_nxt \in Nat /\ j.snd_nxt \in Nat
    BY Sequenced
  <2>2. sn \in DOMAIN j.snd_buf \/ j.snd_nxt <= sn
    BY <1>1 DEF Advanced
  <2>3. sn \in DOMAIN j.snd_buf => sn \in DOMAIN k.snd_buf \/ k.snd_nxt <= sn
    BY <1>1 DEF Advanced
  <2> QED BY <2>1, <2>2, <2>3
<1> QED BY <1>1, <1>2, <1>3 DEF Advanced

(* ikcp_flush moves no more segments than the window has room for. *)
LEMMA FlushCountFits ==
  ASSUME NEW k \in Kcp, Flight(k)
  PROVE  k.snd_nxt + FlushCount(k) <= k.snd_una + SndWnd
<1> DEFINE w == IF SndWnd < k.rmt_wnd THEN SndWnd ELSE k.rmt_wnd
           u == k.snd_una
           t == k.snd_nxt
           L == Len(k.snd_queue)
           x == u + w - t
<1>1. u \in Nat /\ t \in Nat /\ L \in Nat /\ k.rmt_wnd \in Nat /\ SndWnd \in Nat
  BY Sequenced, SizesAssumption DEF Kcp, SndWnd
<1>2. FlushCount(k) = IF t < u + w THEN Min({L, x}) ELSE 0
  BY DEF FlushCount
<1>3. t <= u + SndWnd
  BY DEF Flight
<1>4. w \in Nat /\ w <= SndWnd
  BY <1>1
<1> HIDE DEF u, t, L, w
<1>5. CASE t < u + w
  <2>1. x \in Nat
    BY <1>1, <1>4, <1>5
  <2> HIDE DEF x
  <2>2. {L, x} \in SUBSET Nat /\ {L, x} # {}
    BY <1>1, <2>1
  <2>3. Min({L, x}) \in {L, x} /\ \A y \in {L, x} : Min({L, x}) =< y
    BY <2>2, NatMin
  <2>4. Min({L, x}) \in Nat /\ Min({L, x}) <= x
    BY <1>1, <2>1, <2>3
  <2>5. FlushCount(k) \in Nat /\ FlushCount(k) <= x
    BY <1>2, <1>5, <2>4
  <2>6. t + FlushCount(k) <= u + SndWnd
    BY <1>1, <1>4, <2>5 DEF x
  <2> QED BY <2>6 DEF t, u
<1>6. CASE ~(t < u + w)
  <2>1. FlushCount(k) = 0
    BY <1>2, <1>6
  <2>2. t + FlushCount(k) <= u + SndWnd
    BY <1>1, <1>3, <2>1
  <2> QED BY <2>2 DEF t, u
<1> QED BY <1>5, <1>6

LEMMA FillKeeps ==
  ASSUME NEW k \in Kcp
  PROVE  FillSndBuf(k) \in Kcp /\ Keeps(k, FillSndBuf(k)) /\ k.snd_nxt <= FillSndBuf(k).snd_nxt
<1> DEFINE f == FillSndBuf(k)
           n == FlushCount(k)
           u == k.snd_una
           t == k.snd_nxt
           D == DOMAIN k.snd_buf
           E == DOMAIN f.snd_buf
<1>1. Filled(k, f, n)
  BY FillLemma
<1>2. f \in Kcp /\ f.snd_nxt = t + n /\ E = D \cup t .. (t + n - 1)
      /\ f.rcv_nxt = k.rcv_nxt
  BY <1>1 DEF Filled, SameReceiver
<1>3. f.snd_una = u
  BY DEF FillSndBuf, Kcp
<1>4. u \in Nat /\ t \in Nat /\ n \in Nat /\ D \subseteq Nat /\ k.rcv_nxt \in Nat /\ SndWnd \in Nat
  BY FlushCountLemma, Sequenced, SizesAssumption DEF SndWnd
<1>5. ASSUME Flight(k) PROVE Flight(f) /\ Advanced(k, f)
  <2>1. t + n <= u + SndWnd
    BY <1>5, FlushCountFits
  <2>2. /\ \A sn \in D : u <= sn /\ sn < t
        /\ u \in D \/ (D = {} /\ u = t)
    BY <1>5 DEF Flight
  <2> HIDE DEF f, n, u, t, D, E
  <2>3. u <= t
    BY <1>4, <2>2
  <2>4. \A sn \in E : u <= sn /\ sn < t + n /\ (sn \in D \/ t <= sn)
    BY <1>2, <1>4, <2>2, <2>3
  <2>5. u \in E \/ (E = {} /\ u = t + n)
    <3>1. CASE u \in D
      BY <1>2, <3>1
    <3>2. CASE D = {} /\ u = t /\ n = 0
      BY <1>2, <1>4, <3>2
    <3>3. CASE D = {} /\ u = t /\ n # 0
      BY <1>2, <1>4, <3>3
    <3> QED BY <2>2, <3>1, <3>2, <3>3
  <2>6. Flight(f)
    BY <1>2, <1>3, <2>1, <2>4, <2>5 DEF Flight, E
  <2>7. u <= f.snd_una /\ k.rcv_nxt <= f.rcv_nxt
    BY <1>2, <1>3, <1>4
  <2> QED BY <2>4, <2>6, <2>7 DEF Advanced, u, t, D, E
<1>6. k.snd_nxt <= f.snd_nxt
  <2> HIDE DEF f, n
  <2> QED BY <1>2, <1>4
<1> QED BY <1>2, <1>5, <1>6 DEF Keeps

-----------------------------------------------------------------------------
(* ikcp_input deletes segments from snd_buf and then sets snd_una to the   *)
(* first that is left: never back, whatever una the datagram carries.      *)
LEMMA ShrinkUna ==
  ASSUME NEW k \in Kcp
  PROVE  LET u == ikcp_shrink_buf(k).snd_una
         IN  \/ DOMAIN k.snd_buf = {} /\ u = k.snd_nxt
             \/ u \in DOMAIN k.snd_buf /\ \A sn \in DOMAIN k.snd_buf : u <= sn
<1> DEFINE D == DOMAIN k.snd_buf
           r == ikcp_shrink_buf(k)
<1>1. r.snd_una = IF D = {} THEN k.snd_nxt ELSE Min(D)
  BY DEF ikcp_shrink_buf, Kcp
<1>2. D \in SUBSET Nat
  BY Sequenced
<1> HIDE DEF D, r
<1>3. CASE D = {}
  BY <1>1, <1>3 DEF D, r
<1>4. CASE D # {}
  BY <1>1, <1>2, <1>4, NatMin DEF D, r
<1> QED BY <1>3, <1>4

LEMMA InputUna ==
  ASSUME NEW k \in Kcp, NEW d \in Datagram
  PROVE  LET r == ikcp_input(k, d)
         IN  \/ DOMAIN r.snd_buf = {} /\ r.snd_una = r.snd_nxt
             \/ r.snd_una \in DOMAIN r.snd_buf /\ \A sn \in DOMAIN r.snd_buf : r.snd_una <= sn
<1> DEFINE k0 == [k EXCEPT !.rmt_wnd = d.wnd]
           k1 == ikcp_parse_una(k0, d.una)
           k2 == ikcp_shrink_buf(k1)
           k3 == ikcp_parse_ack(k2, d.acks)
           k4 == ikcp_shrink_buf(k3)
           k5 == [k4 EXCEPT !.probe = @ \cup {"ASK_TELL"}]
           r == ikcp_input(k, d)
           T1 == {sn \in DOMAIN k0.snd_buf : sn < d.una}
           T3 == {sn \in d.acks : k2.snd_una <= sn /\ sn < k2.snd_nxt}
<1>1. r = IF "WASK" \in d.ctl THEN k5 ELSE k4
  BY DEF ikcp_input
<1> HIDE DEF r
<1>2. k0 \in Kcp
  <2>1. d.wnd \in Nat
    BY DEF Datagram
  <2> QED BY <2>1 DEF Kcp
<1>3. k1 = Dropped(k0, T1)
  BY DEF ikcp_parse_una, Dropped
<1> HIDE DEF k0, k1, T1
<1>4. k2 \in Kcp
  BY <1>2, <1>3, DropLemma, ShrinkLemma
<1>5. k3 = Dropped(k2, T3)
  BY DEF ikcp_parse_ack, Dropped
<1> HIDE DEF k2, k3, T3
<1>6. k3 \in Kcp
  BY <1>4, <1>5, DropLemma
<1>7. k4 \in Kcp /\ k4.snd_buf = k3.snd_buf /\ k4.snd_nxt = k3.snd_nxt
  BY <1>6, ShrinkLemma
<1>8. \/ DOMAIN k3.snd_buf = {} /\ k4.snd_una = k3.snd_nxt
      \/ k4.snd_una \in DOMAIN k3.snd_buf /\ \A sn \in DOMAIN k3.snd_buf : k4.snd_una <= sn
  BY <1>6, ShrinkUna
<1> HIDE DEF k4
<1>9. r.snd_una = k4.snd_una /\ r.snd_buf = k4.snd_buf /\ r.snd_nxt = k4.snd_nxt
  BY <1>1, <1>7 DEF Kcp
<1> QED BY <1>7, <1>8, <1>9 DEF r

LEMMA InputKeeps ==
  ASSUME NEW k \in Kcp, NEW d \in Datagram
  PROVE  Keeps(k, ikcp_input(k, d))
<1> DEFINE r == ikcp_input(k, d)
           D == DOMAIN k.snd_buf
           E == DOMAIN r.snd_buf
           t == k.snd_nxt
<1> SUFFICES ASSUME Flight(k) PROVE Flight(r) /\ Advanced(k, r)
  BY DEF Keeps
<1>1. r.snd_nxt = t /\ r.rcv_nxt = k.rcv_nxt /\ E \subseteq D
  BY InputLemma DEF SameReceiver
<1>2. \/ E = {} /\ r.snd_una = r.snd_nxt
      \/ r.snd_una \in E /\ \A sn \in E : r.snd_una <= sn
  BY InputUna
<1>3. k.snd_una \in Nat /\ t \in Nat /\ k.rcv_nxt \in Nat /\ D \subseteq Nat /\ SndWnd \in Nat
  BY Sequenced, SizesAssumption DEF SndWnd
<1>4. /\ \A sn \in D : k.snd_una <= sn /\ sn < t
      /\ k.snd_una \in D \/ (D = {} /\ k.snd_una = t)
      /\ t <= k.snd_una + SndWnd
  BY DEF Flight
<1> HIDE DEF r, D, E, t
<1>5. k.snd_una <= r.snd_una /\ r.snd_una \in Nat /\ r.snd_una <= t
  <2>1. k.snd_una <= t
    BY <1>3, <1>4
  <2>2. CASE E = {} /\ r.snd_una = r.snd_nxt
    BY <1>1, <1>3, <2>1, <2>2
  <2>3. CASE r.snd_una \in E
    <3>1. r.snd_una \in D
      BY <1>1, <2>3
    <3>2. k.snd_una <= r.snd_una /\ r.snd_una < t /\ r.snd_una \in Nat
      BY <1>3, <1>4, <3>1
    <3> QED BY <1>3, <3>2
  <2> QED BY <1>2, <2>2, <2>3
<1>6. t <= r.snd_una + SndWnd
  BY <1>3, <1>4, <1>5
<1>7. \A sn \in E : r.snd_una <= sn /\ sn < t /\ sn \in D
  BY <1>1, <1>2, <1>4
<1>8. Flight(r)
  BY <1>1, <1>2, <1>6, <1>7 DEF Flight, E
<1>9. k.rcv_nxt <= r.rcv_nxt
  BY <1>1, <1>3
<1> QED BY <1>5, <1>7, <1>8, <1>9 DEF Advanced, D, E

LEMMA SendKeeps ==
  ASSUME NEW k \in Kcp, NEW off \in Nat, NEW n \in Nat \ {0}, FragCount(n) < WndRcv
  PROVE  Keeps(k, ikcp_send(k, off, n))
<1> DEFINE r == ikcp_send(k, off, n)
<1>1. r = [k EXCEPT !.snd_queue = @ \o Fragments(off, n)]
  BY SendLemma, ZenonT(60)
<1> HIDE DEF r
<1>2. r.snd_buf = k.snd_buf /\ r.snd_una = k.snd_una /\ r.snd_nxt = k.snd_nxt
      /\ r.rcv_nxt = k.rcv_nxt
  BY <1>1 DEF Kcp
<1> QED BY <1>2, Sequenced DEF Keeps, Flight, Advanced, r

(* Reading the queue and taking in a push only concern the receiver. *)
LEMMA ShiftKeeps ==
  ASSUME NEW k \in Kcp, NEW r, NEW c, NEW n \in Nat, Shifted(k, r, c, n)
  PROVE  r \in Kcp /\ Keeps(k, r)
<1>1. r \in Kcp /\ SameSender(k, r) /\ r.rcv_nxt = k.rcv_nxt + n
  BY Zenon DEF Shifted
<1>2. k.rcv_nxt <= r.rcv_nxt
  BY <1>1, Sequenced
<1> QED BY <1>1, <1>2, SenderKeeps

LEMMA PushKeeps ==
  ASSUME NEW k \in Kcp, NEW sn \in Nat, NEW seg \in Seg
  PROVE  Keeps(k, ikcp_input_push(k, sn, seg))
<1> DEFINE r == ikcp_input_push(k, sn, seg)
<1>1. PICK j, n : n \in Nat /\ Kept(k, j, sn, seg) /\ Shifted(j, r, 0, n)
  BY PushLemma
<1> HIDE DEF r
<1>2. j \in Kcp /\ SameSender(k, j) /\ j.rcv_nxt = k.rcv_nxt
  BY <1>1, Zenon DEF Kept
<1>3. r \in Kcp /\ SameSender(j, r) /\ r.rcv_nxt = j.rcv_nxt + n
  BY <1>1, Zenon DEF Shifted
<1>4. SameSender(k, r) /\ k.rcv_nxt <= r.rcv_nxt
  BY <1>1, <1>2, <1>3, Sequenced DEF SameSender
<1> QED BY <1>3, <1>4, SenderKeeps DEF r

-----------------------------------------------------------------------------
(* The steps of the two ends. *)
AllFlight == \A e \in Peers : Flight(kcp[e])
AllAdvance == \A e \in Peers : Advanced(kcp[e], kcp'[e])

LEMMA OneKeeps ==
  ASSUME TypeInv, AllFlight, NEW a \in Peers, NEW k, Keeps(kcp[a], k),
         kcp' = [kcp EXCEPT ![a] = k]
  PROVE  AllFlight' /\ AllAdvance
<1>1. ASSUME NEW e \in Peers PROVE Flight(kcp'[e]) /\ Advanced(kcp[e], kcp'[e])
  <2>1. CASE e = a
    <3>1. kcp'[e] = k
      BY <2>1 DEF TypeInv
    <3> QED BY <2>1, <3>1 DEF AllFlight, Keeps
  <2>2. CASE e # a
    <3>1. kcp'[e] = kcp[e] /\ kcp[e] \in Kcp
      BY <2>2 DEF TypeInv
    <3>2. Advanced(kcp[e], kcp[e])
      BY <3>1, Sequenced DEF Advanced
    <3> QED BY <3>1, <3>2 DEF AllFlight
  <2> QED BY <2>1, <2>2
<1> QED BY <1>1 DEF AllFlight, AllAdvance

LEMMA ReadOneKeeps ==
  ASSUME TypeInv, AllFlight, NEW a \in Peers, NEW k \in Kcp, ReadOne(a, k),
         Keeps(kcp[a], k), kcp[a].snd_nxt <= k.snd_nxt
  PROVE  AllFlight' /\ AllAdvance
<1>1. CASE CanRecv(k)
  <2>1. CanPeek(k) /\ kcp' = [kcp EXCEPT ![a] = ikcp_recv(k)]
    BY <1>1 DEF CanRecv, ReadOne
  <2>2. PICK n \in Nat : Shifted(k, ikcp_recv(k), PeekCount(k), n)
    BY <2>1, RecvLemma
  <2>3. ikcp_recv(k) \in Kcp /\ Keeps(k, ikcp_recv(k))
    BY <2>2, ShiftKeeps
  <2>4. Keeps(kcp[a], ikcp_recv(k))
    BY <2>3, KeepsTransitive DEF TypeInv
  <2> QED BY <2>1, <2>4, OneKeeps
<1>2. CASE ~CanRecv(k)
  BY <1>2, OneKeeps DEF ReadOne
<1> QED BY <1>1, <1>2

LEMMA NextKeeps ==
  ASSUME TypeInv, AllFlight, [Next]_vars
  PROVE  AllFlight' /\ AllAdvance
<1>1. \A e \in Peers : kcp[e] \in Kcp
  BY DEF TypeInv
<1>2. ASSUME NEW a \in Peers, Sends(a) PROVE AllFlight' /\ AllAdvance
  <2>1. PICK n \in Reads : Send(a, n)
    BY <1>2 DEF Sends
  <2>2. n \in Nat \ {0} /\ FragCount(n) < WndRcv /\ Written(a) \in Nat
    BY LinkAssumption, ReadAssumption, WrittenType
  <2> DEFINE k == ikcp_send(kcp[a], Written(a), n)
  <2>3. Keeps(kcp[a], k)
    BY <1>1, <2>2, SendKeeps
  <2>4. kcp' = [kcp EXCEPT ![a] = k]
    BY <2>1 DEF Send
  <2> HIDE DEF k
  <2> QED BY <2>3, <2>4, OneKeeps
<1>3. ASSUME NEW a \in Peers, Updates(a) PROVE AllFlight' /\ AllAdvance
  <2> DEFINE f == FillSndBuf(kcp[a])
             k == ikcp_flush(kcp[a], f)
  <2>1. ReadOne(a, k)
    BY <1>3 DEF Updates, Update
  <2>2. f \in Kcp /\ Keeps(kcp[a], f) /\ kcp[a].snd_nxt <= f.snd_nxt
    BY <1>1, FillKeeps
  <2> HIDE DEF f
  <2>3. k \in Kcp /\ SameSender(f, k) /\ k.rcv_nxt = f.rcv_nxt
    BY <1>1, <2>2, FlushLemma
  <2> HIDE DEF k
  <2>4. Keeps(f, k)
    BY <2>2, <2>3, SenderKeeps, Sequenced
  <2>5. Keeps(kcp[a], k) /\ kcp[a].snd_nxt <= k.snd_nxt
    BY <1>1, <2>2, <2>3, <2>4, KeepsTransitive DEF SameSender
  <2> QED BY <2>1, <2>3, <2>5, ReadOneKeeps
<1>4. ASSUME NEW a \in Peers, WriteDone(a) PROVE AllFlight' /\ AllAdvance
  <2>1. ReadOne(a, kcp[a])
    BY <1>4 DEF WriteDone
  <2>2. Keeps(kcp[a], kcp[a]) /\ kcp[a].snd_nxt <= kcp[a].snd_nxt
    BY <1>1, SenderKeeps, Sequenced DEF SameSender
  <2> QED BY <1>1, <2>1, <2>2, ReadOneKeeps
<1>5. ASSUME NEW a \in Peers, Inputs(a) PROVE AllFlight' /\ AllAdvance
  <2>1. PICK d \in net[a], again \in Again : Input(a, d, again)
    BY <1>5 DEF Inputs
  <2>2. d \in Datagram
    BY DEF TypeInv
  <2>3. Keeps(kcp[a], ikcp_input(kcp[a], d))
    BY <1>1, <2>2, InputKeeps
  <2>4. kcp' = [kcp EXCEPT ![a] = ikcp_input(kcp[a], d)]
    BY <2>1 DEF Input
  <2> QED BY <2>3, <2>4, OneKeeps
<1>6. ASSUME NEW a \in Peers, InputPush(a) PROVE AllFlight' /\ AllAdvance
  <2> DEFINE at == inp[a]
             sn == Min(DOMAIN at)
             k == ikcp_input_push(kcp[a], sn, at[sn])
  <2>1. at \in SnMap(Seg)
    BY DEF TypeInv
  <2>2. DOMAIN at \in SUBSET Nat /\ DOMAIN at # {}
    BY <1>6, <2>1, SnMapElim DEF InputPush
  <2>3. sn \in DOMAIN at
    BY <2>2, NatMin
  <2>4. sn \in Nat /\ at[sn] \in Seg
    BY <2>1, <2>2, <2>3, SnMapElim
  <2>5. kcp' = [kcp EXCEPT ![a] = k]
    BY <1>6 DEF InputPush
  <2> HIDE DEF sn
  <2>6. Keeps(kcp[a], k)
    BY <1>1, <2>4, PushKeeps
  <2> HIDE DEF k
  <2> QED BY <2>5, <2>6, OneKeeps
<1>7. CASE UNCHANGED vars
  <2>1. kcp' = kcp
    BY <1>7 DEF vars
  <2> QED BY <1>1, <2>1, Sequenced DEF AllFlight, AllAdvance, Advanced
<1> QED BY <1>2, <1>3, <1>4, <1>5, <1>6, <1>7 DEF Next

LEMMA InitFlight == Init => AllFlight
<1> SUFFICES ASSUME Init, NEW e \in Peers PROVE Flight(kcp[e])
  BY DEF AllFlight
<1>1. DOMAIN kcp[e].snd_buf = {} /\ kcp[e].snd_una = 0 /\ kcp[e].snd_nxt = 0
  BY DEF Init, ikcp_create
<1>2. 0 <= 0 + SndWnd
  BY SizesAssumption DEF SndWnd
<1> QED BY <1>1, <1>2 DEF Flight

LEMMA FlightInvariant == Spec => [](TypeInv /\ AllFlight)
<1>1. Init => TypeInv /\ AllFlight
  BY InitType, InitFlight
<1>2. TypeInv /\ AllFlight /\ [Next]_vars => (TypeInv /\ AllFlight)'
  BY NextType, NextKeeps
<1> QED BY <1>1, <1>2, PTL DEF Spec

(* The sender never has more than snd_wnd segments in flight, and snd_una  *)
(* is the oldest of them: ikcp_shrink_buf runs after every deletion of     *)
(* ikcp_input, and ikcp_flush fills from the smaller of the two windows,   *)
(* so an rmt_wnd that is too large does no harm here.                      *)
THEOREM SenderBounded == Spec => []SndWindow
<1>1. TypeInv /\ AllFlight => SndWindow
  <2> SUFFICES ASSUME TypeInv, AllFlight, NEW e \in Peers
               PROVE  /\ kcp[e].snd_una = Min(DOMAIN kcp[e].snd_buf \cup {kcp[e].snd_nxt})
                      /\ kcp[e].snd_nxt <= kcp[e].snd_una + SndWnd
    BY DEF SndWindow
  <2> DEFINE D == DOMAIN kcp[e].snd_buf
             u == kcp[e].snd_una
             t == kcp[e].snd_nxt
             S == D \cup {t}
             m == Min(S)
  <2>1. /\ \A sn \in D : u <= sn /\ sn < t
        /\ u \in D \/ (D = {} /\ u = t)
        /\ t <= u + SndWnd
    BY DEF AllFlight, Flight
  <2>2. u \in Nat /\ t \in Nat /\ D \subseteq Nat
    BY Sequenced DEF TypeInv
  <2> HIDE DEF D, u, t
  <2>3. S \in SUBSET Nat /\ S # {} /\ u \in S /\ \A y \in S : u <= y
    BY <2>1, <2>2
  <2> HIDE DEF S
  <2>4. m \in S /\ \A y \in S : m =< y
    BY <2>3, NatMin
  <2> HIDE DEF m
  <2>5. m \in Nat /\ m <= u /\ u <= m
    BY <2>2, <2>3, <2>4
  <2>6. u = m
    BY <2>2, <2>5
  <2> QED BY <2>1, <2>6 DEF u, t, D, S, m
<1> QED BY <1>1, FlightInvariant, PTL

(* Nothing goes back: an old datagram, with an una and acknowledgements    *)
(* that were overtaken, neither moves snd_una or rcv_nxt backwards nor     *)
(* puts a segment into snd_buf again.                                      *)
THEOREM NeverBack == Spec => Monotone
<1>1. TypeInv /\ AllFlight /\ [Next]_vars =>
        [\A e \in Peers :
           /\ kcp'[e].snd_una >= kcp[e].snd_una
           /\ kcp'[e].rcv_nxt >= kcp[e].rcv_nxt
           /\ \A sn \in DOMAIN kcp'[e].snd_buf :
                sn \in DOMAIN kcp[e].snd_buf \/ sn >= kcp[e].snd_nxt]_vars
  <2> SUFFICES ASSUME TypeInv, AllFlight, [Next]_vars
               PROVE  \A e \in Peers :
                        /\ kcp'[e].snd_una >= kcp[e].snd_una
                        /\ kcp'[e].rcv_nxt >= kcp[e].rcv_nxt
                        /\ \A sn \in DOMAIN kcp'[e].snd_buf :
                             sn \in DOMAIN kcp[e].snd_buf \/ sn >= kcp[e].snd_nxt
    OBVIOUS
  <2>1. AllAdvance
    BY NextKeeps
  <2> QED BY <2>1 DEF AllAdvance, Advanced
<1> QED BY <1>1, FlightInvariant, PTL DEF Spec, Monotone

-----------------------------------------------------------------------------
(***************************************************************************)
(* A full receive queue can be read: the message at its head is there as a *)
(* whole, because it has fewer fragments than the window has segments, and *)
(* fits in the buffer, because no read from TCP returns more.              *)
(***************************************************************************)
(* The segments of a stream follow each other, no message has as many      *)
(* fragments as IKCP_WND_RCV, and none is longer than the buffer given to  *)
(* ikcp_recv.                                                              *)
Fits(st, i) ==
  LET z == st[i + st[i].frg]
  IN  st[i].frg < WndRcv /\ z.off + z.len <= st[i].off + RecvBuf

Fitting(st) == Joined(st) /\ \A i \in 1..Len(st) : Fits(st, i)

AllFitting == \A e \in Peers : Fitting(sent[e])

LEMMA AppendFitting ==
  ASSUME NEW st \in Seq(Seg), Framed(st), Fitting(st), NEW m \in Seq(Seg), Len(m) > 0,
         \A i \in 1..Len(m) : m[i].frg = Len(m) - i, Len(m) < WndRcv, Joined(m),
         NEW off \in Nat, NEW n \in Nat, n <= RecvBuf,
         \A i \in 1..Len(m) : off <= m[i].off /\ m[i].off + m[i].len <= off + n,
         st # <<>> => m[1].off = st[Len(st)].off + st[Len(st)].len
  PROVE  Fitting(st \o m)
<1> DEFINE r == st \o m
           L == Len(st)
           c == Len(m)
<1>1. L \in Nat /\ c \in Nat \ {0} /\ Len(r) = L + c /\ WndRcv \in Nat /\ RecvBuf \in Nat
  BY SizesAssumption, LinkAssumption
<1>2. (\A i \in 1..L : r[i] = st[i]) /\ \A i \in 1..c : r[L + i] = m[i]
  OBVIOUS
<1>3. /\ \A i \in 1..L : st[i].frg \in Nat /\ st[i].off \in Nat /\ st[i].len \in Nat
      /\ \A i \in 1..c : m[i].frg \in Nat /\ m[i].off \in Nat /\ m[i].len \in Nat
  <2>1. (\A i \in 1..L : st[i] \in Seg) /\ \A i \in 1..c : m[i] \in Seg
    OBVIOUS
  <2> QED BY <2>1 DEF Seg
<1>4. /\ \A i \in 1..c : m[i].frg = c - i
      /\ \A i \in 1..c : off <= m[i].off /\ m[i].off + m[i].len <= off + n
      /\ c < WndRcv
      /\ \A i \in 2..c : m[i].off = m[i - 1].off + m[i - 1].len
      /\ L > 0 => m[1].off = st[L].off + st[L].len
  BY DEF Joined
<1>5. /\ \A i \in 1..L : \A j \in 0 .. st[i].frg : i + j <= L
      /\ \A i \in 2..L : st[i].off = st[i - 1].off + st[i - 1].len
      /\ \A i \in 1..L : Fits(st, i)
  BY DEF Framed, Fitting, Joined
<1> HIDE DEF r, L, c
<1>6. ASSUME NEW i \in 2..(L + c) PROVE r[i].off = r[i - 1].off + r[i - 1].len
  <2>1. CASE i <= L
    <3>1. i \in 2..L /\ i \in 1..L /\ i - 1 \in 1..L
      BY <1>1, <2>1
    <3> QED BY <1>2, <1>5, <3>1
  <2>2. CASE i = L + 1
    <3>1. L \in 1..L /\ 1 \in 1..c /\ i - 1 = L /\ L > 0
      BY <1>1, <2>2
    <3>2. r[i] = m[1] /\ r[i - 1] = st[L]
      BY <1>2, <2>2, <3>1
    <3> QED BY <1>4, <3>1, <3>2
  <2>3. CASE i > L + 1
    <3> DEFINE j == i - L
    <3>1. j \in 2..c /\ j \in 1..c /\ j - 1 \in 1..c /\ L + j = i /\ L + (j - 1) = i - 1
      BY <1>1, <2>3
    <3> HIDE DEF j
    <3>2. r[i] = m[j] /\ r[i - 1] = m[j - 1]
      BY <1>2, <3>1
    <3> QED BY <1>4, <3>1, <3>2
  <2> QED BY <1>1, <2>1, <2>2, <2>3
<1>7. ASSUME NEW i \in 1..(L + c) PROVE Fits(r, i)
  <2>1. CASE i <= L
    <3>1. i \in 1..L
      BY <1>1, <2>1
    <3>2. r[i] = st[i] /\ st[i].frg \in Nat
      BY <1>2, <1>3, <3>1
    <3>3. i + st[i].frg \in 1..L
      <4>1. st[i].frg \in 0 .. st[i].frg
        BY <3>2
      <4>2. i + st[i].frg <= L
        BY <1>5, <3>1, <4>1
      <4> QED BY <1>1, <3>1, <3>2, <4>2, SMTT(60)
    <3>4. r[i + st[i].frg] = st[i + st[i].frg]
      BY <1>2, <3>3
    <3>5. Fits(st, i)
      BY <1>5, <3>1
    <3> QED BY <3>2, <3>4, <3>5 DEF Fits
  <2>2. CASE i > L
    <3> DEFINE j == i - L
    <3>1. j \in 1..c /\ L + j = i /\ c \in 1..c
      BY <1>1, <2>2
    <3> HIDE DEF j
    <3>2. r[i] = m[j] /\ m[j].frg = c - j /\ r[L + c] = m[c]
      BY <1>2, <1>4, <3>1
    <3>3. i + r[i].frg = L + c
      BY <1>1, <3>1, <3>2
    <3>4. off <= m[j].off /\ m[c].off + m[c].len <= off + n /\ m[j].off \in Nat
          /\ m[c].off \in Nat /\ m[c].len \in Nat
      BY <1>3, <1>4, <3>1
    <3>5. m[c].off + m[c].len <= m[j].off + RecvBuf
      <4> DEFINE x == m[c].off
                 y == m[c].len
                 z == m[j].off
      <4>1. x \in Nat /\ y \in Nat /\ z \in Nat /\ off <= z /\ x + y <= off + n
            /\ n <= RecvBuf /\ RecvBuf \in Nat
        BY <1>1, <3>4
      <4> HIDE DEF x, y, z
      <4>2. x + y <= z + RecvBuf
        BY <4>1
      <4> QED BY <4>2 DEF x, y, z
    <3>6. c - j < WndRcv
      BY <1>1, <1>4, <3>1, SMTT(60)
    <3>7. r[i + r[i].frg] = m[c] /\ r[i].frg < WndRcv /\ r[i].off = m[j].off
      BY <3>2, <3>3, <3>6, Zenon
    <3> QED BY <3>5, <3>7, Zenon DEF Fits
  <2> QED BY <1>1, <2>1, <2>2
<1> QED BY <1>1, <1>6, <1>7 DEF Fitting, Joined, r

LEMMA SendFits ==
  ASSUME TypeInv, AllFramed, AllFitting, NEW a \in Peers, Sends(a)
  PROVE  AllFitting'
<1>1. PICK n \in Reads : Send(a, n)
  BY DEF Sends
<1> DEFINE m == Fragments(Written(a), n)
           st == sent[a]
<1>2. n \in Nat \ {0} /\ Written(a) \in Nat /\ FragCount(n) < WndRcv /\ n <= RecvBuf
  BY LinkAssumption, ReadAssumption, WrittenType
<1>3. m \in Seq(Seg) /\ Len(m) = FragCount(n) /\ FragCount(n) \in Nat \ {0}
      /\ \A i \in 1..FragCount(n) : m[i].frg = FragCount(n) - i
  BY <1>2, FragmentsType, FragCountType
<1>4. /\ Joined(m) /\ m[1].off = Written(a)
      /\ \A i \in 1..Len(m) : Written(a) <= m[i].off /\ m[i].off + m[i].len <= Written(a) + n
  BY <1>2, FragmentsJoined
<1>5. sent' = [sent EXCEPT ![a] = @ \o m]
  BY <1>1 DEF Send
<1> HIDE DEF m
<1>6. st \in Seq(Seg) /\ Framed(st) /\ Fitting(st)
  BY DEF TypeInv, AllFramed, AllFitting
<1>7. st # <<>> => m[1].off = st[Len(st)].off + st[Len(st)].len
  BY <1>4 DEF Written
<1>8. Len(m) > 0 /\ Len(m) < WndRcv /\ \A i \in 1..Len(m) : m[i].frg = Len(m) - i
  BY <1>2, <1>3
<1> HIDE DEF st
<1>9. Fitting(st \o m)
  BY <1>2, <1>3, <1>4, <1>6, <1>7, <1>8, AppendFitting
<1>10. sent'[a] = st \o m /\ \A e \in Peers : e # a => sent'[e] = sent[e]
  BY <1>5 DEF TypeInv, st
<1> QED BY <1>9, <1>10 DEF AllFitting

(* What can be peeked at can be received. *)
LEMMA PeekFits ==
  ASSUME NEW k \in Kcp, CanPeek(k), NEW st \in Seq(Seg), Framed(st), Fitting(st),
         NEW b \in Nat, b + Len(k.rcv_queue) <= Len(st),
         \A i \in 1..Len(k.rcv_queue) : k.rcv_queue[i] = st[b + i]
  PROVE  CanRecv(k)
<1> DEFINE q == k.rcv_queue
           N == Len(q)
           c == PeekCount(k)
           M == Len(st)
<1>1. q \in Seq(Seg) /\ c \in 1..N /\ N \in Nat /\ M \in Nat /\ b + N <= M
  BY PeekLemma DEF Kcp
<1>2. c = q[1].frg + 1
  BY PeekWhole
<1>3. \A i \in 1..N : q[i] = st[b + i] /\ q[i].off \in Nat /\ q[i].len \in Nat /\ q[i].frg \in Nat
  <2> TAKE i \in 1..N
  <2>1. q[i] \in Seg
    BY <1>1
  <2> QED BY <2>1 DEF Seg
<1>4. /\ \A i \in 2..M : st[i].off = st[i - 1].off + st[i - 1].len
      /\ \A i \in 1..M : Fits(st, i)
  BY DEF Fitting, Joined
<1>5. PeekSize(k) = q[c].off + q[c].len - q[1].off
  <2>1. ASSUME NEW i \in 2..N PROVE q[i].off = q[i - 1].off + q[i - 1].len
    <3> HIDE DEF q, N, M, c
    <3>1. b + i \in 2..M /\ i \in 1..N /\ i - 1 \in 1..N /\ (b + i) - 1 = b + (i - 1)
      BY <1>1
    <3> QED BY <1>3, <1>4, <3>1, SMTT(60)
  <2>2. Joined(q)
    BY <2>1 DEF Joined
  <2> QED BY <2>2, PeekSizeLemma
<1> HIDE DEF q, N, M, c
<1>6. 1 \in 1..N /\ b + 1 \in 1..M /\ c \in 1..N
  BY <1>1
<1>7. (b + 1) + st[b + 1].frg = b + c
  <2>1. st[b + 1].frg = q[1].frg /\ q[1].frg \in Nat
    BY <1>3, <1>6
  <2> QED BY <1>2, <2>1, SMTT(60)
<1>8. q[c].off + q[c].len <= q[1].off + RecvBuf
  <2>1. Fits(st, b + 1)
    BY <1>4, <1>6
  <2>2. st[b + c].off + st[b + c].len <= st[b + 1].off + RecvBuf
    BY <1>7, <2>1 DEF Fits
  <2> QED BY <1>3, <1>6, <2>2
<1>9. q[c].off + q[c].len - q[1].off <= RecvBuf
  <2>1. q[c].off \in Nat /\ q[c].len \in Nat /\ q[1].off \in Nat /\ RecvBuf \in Nat
    BY <1>3, <1>6, LinkAssumption
  <2> QED BY <1>8, <2>1, SMTT(60)
<1> QED BY <1>5, <1>9 DEF CanRecv

LEMMA QueueReadable ==
  ASSUME TypeInv, IndInv, AllFramed, AllFitting, NEW e \in Peers, NEW k \in Kcp,
         k.rcv_queue = kcp[e].rcv_queue
  PROVE  /\ CanPeek(k) => CanRecv(k)
         /\ Len(k.rcv_queue) >= RcvWnd => CanRecv(k)
<1> DEFINE st == sent[Other(e)]
           b == Len(got[e])
           q == k.rcv_queue
<1>1. st \in Seq(Seg) /\ b \in Nat /\ b + Len(q) <= Len(st)
      /\ \A i \in 1..Len(q) : q[i] = st[b + i]
  BY QueueIsPart
<1>2. Framed(st) /\ Fitting(st)
  BY PeersLemma DEF AllFramed, AllFitting
<1>3. CanPeek(k) => CanRecv(k)
  <2> HIDE DEF st, b
  <2> QED BY <1>1, <1>2, PeekFits
<1>4. ASSUME Len(q) >= RcvWnd PROVE CanPeek(k)
  <2> DEFINE N == Len(q)
             M == Len(st)
  <2>1. q \in Seq(Seg) /\ N \in Nat /\ M \in Nat /\ RcvWnd \in Nat /\ WndRcv \in Nat \ {0}
        /\ WndRcv <= RcvWnd
    BY <1>1, SizesAssumption, SMTT(60) DEF Kcp, RcvWnd
  <2> HIDE DEF st, b, N, M
  <2>2. N >= RcvWnd /\ b + N <= M
    BY <1>1, <1>4 DEF N, M
  <2>3. 1 \in 1..N /\ b + 1 \in 1..M /\ N # 0
    BY <1>1, <2>1, <2>2
  <2>4. q[1] = st[b + 1] /\ Fits(st, b + 1)
    BY <1>1, <1>2, <2>3 DEF N, M, Fitting
  <2>5. q[1].frg < WndRcv
    BY <2>4 DEF Fits
  <2>6. q[1].frg \in Nat
    <3>1. q[1] \in Seg
      BY <2>1, <2>3 DEF N
    <3> QED BY <3>1 DEF Seg
  <2>7. N >= q[1].frg + 1
    BY <2>1, <2>2, <2>5, <2>6
  <2>8. q # <<>> /\ Head(q) = q[1]
    BY <2>1, <2>3 DEF N
  <2> QED BY <2>7, <2>8 DEF CanPeek, N
<1> QED BY <1>3, <1>4

-----------------------------------------------------------------------------
(***************************************************************************)
(* The place u of RoomInv.                                                 *)
(***************************************************************************)
(* Where r has got to is such a place when nothing waits for it in         *)
(* rcv_buf: what has arrived neither at r nor at s is not acknowledged.    *)
LEMMA ReachFresh ==
  ASSUME NEW s, NEW r, NEW st, NEW g, NEW to, NEW at, NEW back, NEW w,
         Shapes(s, r, st, g, to, at, back), Direction(s, r, st, g, to, at, back),
         r.rcv_nxt \notin DOMAIN r.rcv_buf, s.snd_nxt <= r.rcv_nxt + RcvWnd,
         ~w /\ r.rcv_queue # <<>> => r.rcv_nxt <= Len(g) + Head(r.rcv_queue).frg
  PROVE  Reach(s, r, g, back, w, r.rcv_nxt)
<1> DEFINE u == r.rcv_nxt
<1>1. s.snd_nxt \in Nat /\ u \in Nat
  BY ShapesLemma
<1>2. ~Held(r, u)
  BY <1>1 DEF Held
<1>3. \A d \in back : d.una <= u /\ u \notin d.acks
  BY <1>2 DEF Direction, AcksHold
<1>4. Holds(s, u)
  <2>1. CASE u >= s.snd_nxt
    BY <2>1 DEF Holds
  <2>2. CASE u < s.snd_nxt
    <3>1. u \in 0 .. (s.snd_nxt - 1)
      BY <1>1, <2>2
    <3>2. u \in DOMAIN s.snd_buf
      BY <1>2, <3>1 DEF Direction, Covered
    <3> QED BY <3>2 DEF Holds
  <2> QED BY <1>1, <2>1, <2>2
<1> QED BY <1>3, <1>4 DEF Reach

(* The sender goes on, or takes in one of the datagrams. *)
LEMMA RoomSender ==
  ASSUME NEW s, NEW r, NEW g, NEW back, NEW w, Room(s, r, g, back, w),
         NEW s2, NEW back2 \in SUBSET back, s2.rmt_wnd <= RcvWnd,
         \A u \in 0 .. r.rcv_nxt : Reach(s, r, g, back, w, u) =>
           Holds(s2, u) /\ s2.snd_nxt <= u + RcvWnd
  PROVE  Room(s2, r, g, back2, w)
<1>1. PICK u \in 0 .. r.rcv_nxt : Reach(s, r, g, back, w, u)
  BY DEF Room
<1>2. Reach(s2, r, g, back2, w, u)
  BY <1>1 DEF Reach
<1> QED BY <1>2 DEF Room

(* The receiver goes on. *)
LEMMA RoomReceiver ==
  ASSUME NEW s, NEW r, NEW g, NEW back, NEW w, Room(s, r, g, back, w),
         NEW r2, NEW g2, NEW w2, Settled(r2),
         r.rcv_nxt \in Nat, r2.rcv_nxt \in Nat, r.rcv_nxt <= r2.rcv_nxt,
         \A u \in 0 .. r.rcv_nxt :
           Reach(s, r, g, back, w, u) /\ ~w2 /\ r2.rcv_queue # <<>> =>
             u <= Len(g2) + Head(r2.rcv_queue).frg
  PROVE  Room(s, r2, g2, back, w2)
<1>1. PICK u \in 0 .. r.rcv_nxt : Reach(s, r, g, back, w, u)
  BY DEF Room
<1>2. Reach(s, r2, g2, back, w2, u)
  BY <1>1 DEF Reach
<1>3. u \in 0 .. r2.rcv_nxt
  OBVIOUS
<1> QED BY <1>2, <1>3 DEF Room, Settled

-----------------------------------------------------------------------------
(* The sender's steps. *)
LEMMA FillRoom ==
  ASSUME NEW s \in Kcp, Flight(s), s.rmt_wnd <= RcvWnd, NEW u \in Nat, Holds(s, u),
         s.snd_nxt <= u + RcvWnd
  PROVE  LET f == FillSndBuf(s) IN Holds(f, u) /\ f.snd_nxt <= u + RcvWnd
<1> DEFINE f == FillSndBuf(s)
           n == FlushCount(s)
           w == IF SndWnd < s.rmt_wnd THEN SndWnd ELSE s.rmt_wnd
           a == s.snd_una
           t == s.snd_nxt
           L == Len(s.snd_queue)
           x == a + w - t
           D == DOMAIN s.snd_buf
           E == DOMAIN f.snd_buf
<1>1. a \in Nat /\ t \in Nat /\ L \in Nat /\ s.rmt_wnd \in Nat /\ SndWnd \in Nat /\ RcvWnd \in Nat
      /\ n \in Nat
  BY Sequenced, SizesAssumption, RcvWndType, FlushCountLemma DEF Kcp, SndWnd
<1>2. w \in Nat /\ w <= RcvWnd
  BY <1>1
<1>3. n = IF t < a + w THEN Min({L, x}) ELSE 0
  BY DEF FlushCount
<1>4. f.snd_nxt = t + n /\ E = D \cup t .. (t + n - 1)
  BY FillLemma, Zenon DEF Filled
<1>5. a <= u
  <2>1. /\ \A sn \in D : a <= sn /\ sn < t
        /\ a \in D \/ (D = {} /\ a = t)
    BY DEF Flight
  <2>2. a <= t
    BY <1>1, <2>1
  <2>3. u \in D \/ u >= t
    BY DEF Holds
  <2> QED BY <1>1, <2>1, <2>2, <2>3
<1>6. t <= u + RcvWnd /\ (u \in D \/ u >= t)
  BY DEF Holds
<1> HIDE DEF f, n, w, a, t, L, D, E
<1>7. t + n <= u + RcvWnd
  <2>1. CASE t < a + w
    <3>1. x \in Nat
      BY <1>1, <1>2, <2>1
    <3> HIDE DEF x
    <3>2. {L, x} \in SUBSET Nat /\ {L, x} # {}
      BY <1>1, <3>1
    <3>3. Min({L, x}) \in {L, x} /\ \A y \in {L, x} : Min({L, x}) =< y
      BY <3>2, NatMin
    <3>4. n <= x
      BY <1>3, <2>1, <3>3
    <3>5. t + n <= a + w
      BY <1>1, <1>2, <3>1, <3>4 DEF x
    <3> QED BY <1>1, <1>2, <1>5, <3>5
  <2>2. CASE ~(t < a + w)
    <3>1. n = 0
      BY <1>3, <2>2
    <3> QED BY <1>1, <1>6, <3>1
  <2> QED BY <2>1, <2>2
<1>8. u \in E \/ u >= t + n
  BY <1>1, <1>4, <1>6
<1> QED BY <1>4, <1>7, <1>8 DEF Holds, E, f

LEMMA InputRoom ==
  ASSUME NEW s \in Kcp, NEW d \in Datagram, NEW u \in Nat, Holds(s, u),
         d.una <= u, u \notin d.acks
  PROVE  Holds(ikcp_input(s, d), u)
<1> DEFINE r == ikcp_input(s, d)
<1>1. r.snd_nxt = s.snd_nxt
      /\ \A sn \in DOMAIN s.snd_buf : sn \in DOMAIN r.snd_buf \/ sn < d.una \/ sn \in d.acks
  BY InputLemma
<1>2. d.una \in Nat
  BY DEF Datagram
<1> HIDE DEF r
<1>3. u \in DOMAIN s.snd_buf \/ u >= s.snd_nxt
  BY DEF Holds
<1>4. ~(u < d.una)
  BY <1>2
<1> QED BY <1>1, <1>3, <1>4 DEF Holds, r

-----------------------------------------------------------------------------
(* The receiver's steps.  First the one that gives the window away: the    *)
(* flush acknowledges everything up to rcv_nxt, and the message that is    *)
(* read right after it makes room for all that was sent up to then.        *)
LEMMA ReadSettles ==
  ASSUME NEW k \in Kcp, CanPeek(k), Settled(k), NEW t \in Nat, NEW g \in Nat,
         NEW u \in Nat, t <= u + RcvWnd, u < g + PeekCount(k),
         g + Len(k.rcv_queue) = k.rcv_nxt, Len(k.rcv_queue) <= RcvWnd,
         \A sn \in DOMAIN k.rcv_buf : sn < t
  PROVE  LET r == ikcp_recv(k) IN r.rcv_nxt \notin DOMAIN r.rcv_buf
<1> DEFINE r == ikcp_recv(k)
           c == PeekCount(k)
           L == Len(k.rcv_queue)
           x == k.rcv_nxt
           D == DOMAIN k.rcv_buf
           E == DOMAIN r.rcv_buf
<1>1. PICK n \in Nat : Shifted(k, r, c, n)
  BY RecvLemma
<1>2. /\ r.rcv_nxt = x + n
      /\ Len(r.rcv_queue) = L - c + n
      /\ \A i \in 1..n : x + i - 1 \in D
      /\ E = D \ (x .. (x + n - 1))
  BY <1>1, Zenon DEF Shifted
<1>3. c \in 1..L /\ L \in Nat /\ x \in Nat /\ RcvWnd \in Nat
  BY PeekLemma, RcvWndType DEF Kcp
<1>4. Len(r.rcv_queue) < RcvWnd => r.rcv_nxt \notin E
  BY RecvSettles DEF Settled
<1>5. L < RcvWnd => x \notin D
  BY DEF Settled
<1>6. t <= u + RcvWnd /\ u < g + c /\ g + L = x /\ L <= RcvWnd /\ \A sn \in D : sn < t
  OBVIOUS
<1> HIDE DEF r, c, L, x, D, E
<1>7. ASSUME x + n \in E PROVE FALSE
  <2>1. x + n \in D /\ x + n < t
    BY <1>2, <1>6, <1>7
  <2>2. L - c + n >= RcvWnd
    BY <1>2, <1>3, <1>4, <1>7
  <2>3. CASE L < RcvWnd
    <3>1. 1 \in 1..n /\ x + 1 - 1 = x
      BY <1>3, <2>2, <2>3
    <3> QED BY <1>2, <1>5, <2>3, <3>1
  <2>4. CASE L = RcvWnd
    BY <1>3, <1>6, <2>1, <2>2, <2>4
  <2> QED BY <1>3, <1>6, <2>3, <2>4
<1> QED BY <1>2, <1>7 DEF r, E

-----------------------------------------------------------------------------
(* The steps of the two ends. *)
RoomOf(e) == Room(kcp[e], kcp[Other(e)], got[Other(e)], net[e], writing[Other(e)])

(* What the steps below start from. *)
LinkInv ==
  /\ TypeInv /\ IndInv /\ RcvWindow
  /\ AllFlight /\ AllFramed /\ AllFitting /\ RoomInv

LEMMA EachEnd ==
  ASSUME LinkInv, NEW a \in Peers
  PROVE  /\ kcp[a] \in Kcp /\ Flight(kcp[a]) /\ Settled(kcp[a]) /\ kcp[a].rmt_wnd <= RcvWnd
         /\ kcp[a].rcv_nxt \in Nat /\ \A n \in 0 .. kcp[a].rcv_nxt : n \in Nat
         /\ Other(a) \in Peers /\ Other(a) # a /\ Other(Other(a)) = a
         /\ RoomOf(a) /\ RoomOf(Other(a))
<1>1. Other(a) \in Peers /\ Other(a) # a /\ Other(Other(a)) = a
  BY PeersLemma
<1>2. RoomOf(a) /\ RoomOf(Other(a))
  BY <1>1 DEF LinkInv, RoomInv, RoomOf
<1>3. Settled(kcp[a]) /\ kcp[a].rmt_wnd <= RcvWnd
  BY <1>1, <1>2 DEF RoomOf, Room, Settled
<1>4. kcp[a] \in Kcp /\ Flight(kcp[a])
  BY DEF LinkInv, TypeInv, AllFlight
<1>5. kcp[a].rcv_nxt \in Nat
  BY <1>4, Sequenced
<1> QED BY <1>1, <1>2, <1>3, <1>4, <1>5

(* What a takes in or sends as the sender: the receiver's end is left      *)
(* alone.                                                                  *)
LEMMA SenderStep ==
  ASSUME LinkInv, NEW a \in Peers, NEW k,
         kcp'[a] = k, kcp'[Other(a)] = kcp[Other(a)], got'[Other(a)] = got[Other(a)],
         writing'[Other(a)] = writing[Other(a)], net'[a] \subseteq net[a],
         k.rmt_wnd <= RcvWnd,
         \A u \in Nat : /\ Holds(kcp[a], u) /\ kcp[a].snd_nxt <= u + RcvWnd
                        /\ \A d \in net[a] : d.una <= u /\ u \notin d.acks
                        => Holds(k, u) /\ k.snd_nxt <= u + RcvWnd
  PROVE  RoomOf(a)'
<1> DEFINE s == kcp[a]
           r == kcp[Other(a)]
           g == got[Other(a)]
           w == writing[Other(a)]
<1>1. Room(s, r, g, net[a], w)
  BY EachEnd DEF RoomOf
<1>2. \A u \in 0 .. r.rcv_nxt : u \in Nat
  BY EachEnd
<1>3. \A u \in 0 .. r.rcv_nxt : Reach(s, r, g, net[a], w, u) =>
        Holds(k, u) /\ k.snd_nxt <= u + RcvWnd
  BY <1>2 DEF Reach
<1>4. net'[a] \in SUBSET net[a]
  OBVIOUS
<1> HIDE DEF s, r, g, w
<1>5. Room(k, r, g, net'[a], w)
  BY <1>1, <1>3, <1>4, RoomSender
<1> QED BY <1>5 DEF RoomOf, r, g, w

(* What a takes in or reads as the receiver: the sender's end is left      *)
(* alone.                                                                  *)
LEMMA ReceiverStep ==
  ASSUME LinkInv, NEW a \in Peers, NEW k, Settled(k),
         kcp'[a] = k, kcp'[Other(a)] = kcp[Other(a)], net'[Other(a)] = net[Other(a)],
         k.rcv_nxt \in Nat, kcp[a].rcv_nxt <= k.rcv_nxt,
         \A u \in Nat :
           /\ u <= kcp[a].rcv_nxt
           /\ ~writing[a] /\ kcp[a].rcv_queue # <<>> =>
                u <= Len(got[a]) + Head(kcp[a].rcv_queue).frg
           /\ ~writing'[a] /\ k.rcv_queue # <<>>
           => u <= Len(got'[a]) + Head(k.rcv_queue).frg
  PROVE  RoomOf(Other(a))'
<1> DEFINE b == Other(a)
           s == kcp[b]
           r == kcp[a]
           g == got[a]
           w == writing[a]
           g2 == got'[a]
           w2 == writing'[a]
<1>1. Room(s, r, g, net[b], w) /\ Other(b) = a
  BY EachEnd DEF RoomOf
<1>2. \A u \in 0 .. r.rcv_nxt : u \in Nat /\ u <= r.rcv_nxt
  BY EachEnd
<1>3. \A u \in 0 .. r.rcv_nxt :
        Reach(s, r, g, net[b], w, u) /\ ~w2 /\ k.rcv_queue # <<>> =>
          u <= Len(g2) + Head(k.rcv_queue).frg
  BY <1>2 DEF Reach
<1>4. r.rcv_nxt \in Nat /\ r.rcv_nxt <= k.rcv_nxt
  BY EachEnd
<1> HIDE DEF s, r, g, w, g2, w2
<1>5. Room(s, k, g2, net[b], w2)
  BY <1>1, <1>3, <1>4, RoomReceiver
<1> HIDE DEF b
<1>6. kcp'[b] = s /\ kcp'[a] = k /\ net'[b] = net[b]
  BY DEF s, b
<1>7. Room(kcp'[b], kcp'[Other(b)], got'[Other(b)], net'[b], writing'[Other(b)])
  BY <1>1, <1>5, <1>6 DEF g2, w2
<1> QED BY <1>7 DEF RoomOf, b

(* One round of the ikcp_recv loop changes nothing but the receiver.       *)
LEMMA ReadOneShape ==
  ASSUME TypeInv, NEW a \in Peers, NEW k \in Kcp, ReadOne(a, k), Settled(k)
  PROVE  /\ SameSender(k, kcp'[a]) /\ kcp'[a].rmt_wnd = k.rmt_wnd /\ Settled(kcp'[a])
         /\ kcp'[a].rcv_nxt \in Nat /\ k.rcv_nxt <= kcp'[a].rcv_nxt
         /\ \A e \in Peers : e # a => /\ kcp'[e] = kcp[e] /\ got'[e] = got[e]
                                      /\ writing'[e] = writing[e]
         /\ (writing'[a] <=> CanRecv(k))
         /\ ~CanRecv(k) => kcp'[a] = k /\ got'[a] = got[a]
         /\ CanRecv(k) => kcp'[a] = ikcp_recv(k)
<1>1. CASE CanRecv(k)
  <2> DEFINE r == ikcp_recv(k)
             m == RecvMessage(k)
  <2>1. CanPeek(k) /\ kcp' = [kcp EXCEPT ![a] = r] /\ got' = [got EXCEPT ![a] = @ \o m]
        /\ writing' = [writing EXCEPT ![a] = TRUE]
    BY <1>1 DEF CanRecv, ReadOne
  <2>2. PICK n \in Nat : Shifted(k, r, PeekCount(k), n)
    BY <2>1, RecvLemma
  <2>3. Settled(r) /\ r.rmt_wnd = k.rmt_wnd
    BY <2>1, RecvSettles, RecvRmtWnd
  <2> HIDE DEF r, m
  <2>4. SameSender(k, r) /\ r.rcv_nxt = k.rcv_nxt + n
    BY <2>2, Zenon DEF Shifted
  <2>5. k.rcv_nxt \in Nat
    BY Sequenced
  <2>6. r.rcv_nxt \in Nat /\ k.rcv_nxt <= r.rcv_nxt
    BY <2>4, <2>5
  <2>7. kcp'[a] = r /\ writing'[a] = TRUE
        /\ \A e \in Peers : e # a => /\ kcp'[e] = kcp[e] /\ got'[e] = got[e]
                                     /\ writing'[e] = writing[e]
    BY <2>1 DEF TypeInv
  <2> QED BY <1>1, <2>3, <2>4, <2>6, <2>7, Zenon DEF r
<1>2. CASE ~CanRecv(k)
  <2> DEFINE r == kcp'[a]
  <2>1. kcp' = [kcp EXCEPT ![a] = k] /\ got' = got /\ writing' = [writing EXCEPT ![a] = FALSE]
    BY <1>2 DEF ReadOne
  <2>2. r = k /\ got'[a] = got[a] /\ ~writing'[a]
        /\ \A e \in Peers : e # a => /\ kcp'[e] = kcp[e] /\ got'[e] = got[e]
                                     /\ writing'[e] = writing[e]
    BY <2>1 DEF TypeInv
  <2>3. k.rcv_nxt \in Nat /\ k.rcv_nxt <= k.rcv_nxt
    BY Sequenced
  <2> HIDE DEF r
  <2>4. SameSender(k, r) /\ r.rmt_wnd = k.rmt_wnd /\ Settled(r)
        /\ r.rcv_nxt \in Nat /\ k.rcv_nxt <= r.rcv_nxt
    BY <2>2, <2>3 DEF SameSender
  <2> QED BY <1>2, <2>2, <2>4, Zenon DEF r
<1> QED BY <1>1, <1>2

(* The segments of the queue of e lie between got[e] and rcv_nxt. *)
LEMMA QueueEnds ==
  ASSUME LinkInv, NEW a \in Peers
  PROVE  /\ Len(got[a]) \in Nat /\ Len(kcp[a].rcv_queue) \in Nat
         /\ Len(got[a]) + Len(kcp[a].rcv_queue) = kcp[a].rcv_nxt
         /\ kcp[a].rcv_queue # <<>> => Head(kcp[a].rcv_queue).frg \in Nat
                                       /\ Head(kcp[a].rcv_queue) = kcp[a].rcv_queue[1]
<1>1. Direction(kcp[Other(a)], kcp[a], sent[Other(a)], got[a], net[a], inp[a], net[Other(a)])
  BY EachEnd DEF LinkInv, IndInv
<1>2. got[a] \in Seq(Seg) /\ kcp[a].rcv_queue \in Seq(Seg)
  BY EachEnd DEF LinkInv, TypeInv, Kcp
<1>3. kcp[a].rcv_queue # <<>> => /\ Head(kcp[a].rcv_queue).frg \in Nat
                                 /\ Head(kcp[a].rcv_queue) = kcp[a].rcv_queue[1]
  <2> DEFINE q == kcp[a].rcv_queue
  <2>1. q # <<>> => Head(q) = q[1] /\ Head(q) \in Seg
    BY <1>2
  <2>2. \A x \in Seg : x.frg \in Nat
    BY DEF Seg
  <2> HIDE DEF q
  <2>3. q # <<>> => Head(q).frg \in Nat /\ Head(q) = q[1]
    BY <2>1, <2>2
  <2> QED BY <2>3 DEF q
<1>4. Len(got[a]) + Len(kcp[a].rcv_queue) = kcp[a].rcv_nxt
  BY <1>1, Zenon DEF Direction, ReceiverHolds
<1>5. Len(got[a]) \in Nat /\ Len(kcp[a].rcv_queue) \in Nat
  BY <1>2
<1> QED BY <1>3, <1>4, <1>5, Zenon

LEMMA SendRoom ==
  ASSUME LinkInv, NEW a \in Peers, Sends(a)
  PROVE  RoomOf(a)' /\ RoomOf(Other(a))'
<1>1. PICK n \in Reads : Send(a, n)
  BY DEF Sends
<1> DEFINE k == ikcp_send(kcp[a], Written(a), n)
<1>2. n \in Nat \ {0} /\ FragCount(n) < WndRcv /\ Written(a) \in Nat
  BY LinkAssumption, ReadAssumption, WrittenType DEF LinkInv
<1>3. kcp[a] \in Kcp /\ Settled(kcp[a]) /\ kcp[a].rmt_wnd <= RcvWnd /\ kcp[a].rcv_nxt \in Nat
      /\ kcp[a].rcv_nxt <= kcp[a].rcv_nxt /\ Other(a) \in Peers /\ Other(a) # a
  BY EachEnd
<1>4. k = [kcp[a] EXCEPT !.snd_queue = @ \o Fragments(Written(a), n)]
  <2> DEFINE s == kcp[a]
             off == Written(a)
  <2>1. s \in Kcp /\ off \in Nat
    BY <1>2, <1>3
  <2> HIDE DEF s, off
  <2>2. ikcp_send(s, off, n) = [s EXCEPT !.snd_queue = @ \o Fragments(off, n)]
    BY <1>2, <2>1, SendLemma, ZenonT(60)
  <2> QED BY <2>2 DEF s, off
<1>5. kcp' = [kcp EXCEPT ![a] = k] /\ UNCHANGED <<net, writing, got>>
  BY <1>1 DEF Send
<1> HIDE DEF k
<1>6. k.snd_buf = kcp[a].snd_buf /\ k.snd_nxt = kcp[a].snd_nxt /\ k.rmt_wnd = kcp[a].rmt_wnd
      /\ k.rcv_nxt = kcp[a].rcv_nxt /\ k.rcv_buf = kcp[a].rcv_buf /\ k.rcv_queue = kcp[a].rcv_queue
  BY <1>3, <1>4 DEF Kcp
<1>7. kcp'[a] = k /\ kcp'[Other(a)] = kcp[Other(a)]
  BY <1>3, <1>5 DEF LinkInv, TypeInv
<1>8. Settled(k)
  BY <1>3, <1>6 DEF Settled
<1>9. RoomOf(a)'
  <2>1. \A u \in Nat : Holds(kcp[a], u) => Holds(k, u)
    BY <1>6 DEF Holds
  <2>2. k.rmt_wnd <= RcvWnd /\ net'[a] \subseteq net[a] /\ got'[Other(a)] = got[Other(a)]
        /\ writing'[Other(a)] = writing[Other(a)]
    BY <1>3, <1>5, <1>6
  <2> QED BY <1>6, <1>7, <2>1, <2>2, SenderStep
<1>10. RoomOf(Other(a))'
  <2>1. net'[Other(a)] = net[Other(a)] /\ got'[a] = got[a] /\ writing'[a] = writing[a]
    BY <1>5
  <2>2. k.rcv_nxt \in Nat /\ kcp[a].rcv_nxt <= k.rcv_nxt
    BY <1>3, <1>6
  <2> QED BY <1>6, <1>7, <1>8, <2>1, <2>2, ReceiverStep
<1> QED BY <1>9, <1>10

LEMMA WriteDoneRoom ==
  ASSUME LinkInv, NEW a \in Peers, WriteDone(a)
  PROVE  RoomOf(a)' /\ RoomOf(Other(a))'
<1> DEFINE k == kcp[a]
           r == kcp'[a]
           b == Other(a)
<1>1. ReadOne(a, k) /\ writing[a] /\ net' = net
  BY DEF WriteDone
<1>2. k \in Kcp /\ Settled(k) /\ k.rmt_wnd <= RcvWnd /\ b \in Peers /\ b # a
  BY EachEnd
<1>3. /\ SameSender(k, r) /\ r.rmt_wnd = k.rmt_wnd /\ Settled(r)
      /\ r.rcv_nxt \in Nat /\ k.rcv_nxt <= r.rcv_nxt
      /\ kcp'[b] = kcp[b] /\ got'[b] = got[b] /\ writing'[b] = writing[b]
      /\ (writing'[a] <=> CanRecv(k))
      /\ ~CanRecv(k) => r = k /\ got'[a] = got[a]
  BY <1>1, <1>2, ReadOneShape DEF LinkInv
<1>4. RoomOf(a)'
  <2>1. \A u \in Nat : Holds(k, u) => Holds(r, u)
    BY <1>3 DEF Holds, SameSender
  <2>2. r.snd_nxt = k.snd_nxt /\ r.rmt_wnd <= RcvWnd /\ net'[a] \subseteq net[a]
    BY <1>1, <1>2, <1>3 DEF SameSender
  <2> QED BY <1>3, <2>1, <2>2, SenderStep
<1>5. ASSUME NEW u \in Nat, u <= k.rcv_nxt, ~writing'[a], r.rcv_queue # <<>>
      PROVE  u <= Len(got'[a]) + Head(r.rcv_queue).frg
  <2> DEFINE q == k.rcv_queue
             G == Len(got[a])
             L == Len(q)
             h == Head(q).frg
  <2>1. r = k /\ got'[a] = got[a] /\ ~CanRecv(k)
    BY <1>3, <1>5
  <2>2. q # <<>>
    BY <1>5, <2>1
  <2>3. G \in Nat /\ L \in Nat /\ G + L = k.rcv_nxt /\ h \in Nat
    BY <2>2, QueueEnds
  <2>4. ~CanPeek(k)
    BY <1>2, <2>1, QueueReadable DEF LinkInv
  <2>5. ~(L >= h + 1)
    BY <2>2, <2>4 DEF CanPeek
  <2> HIDE DEF G, L, h
  <2>6. u <= G + h
    BY <1>5, <2>3, <2>5
  <2> QED BY <2>1, <2>6 DEF G, h
<1>6. RoomOf(b)'
  <2> HIDE DEF r
  <2>1. net'[b] = net[b] /\ kcp'[a] = r /\ kcp'[b] = kcp[b]
    BY <1>1, <1>3 DEF r
  <2> QED BY <1>3, <1>5, <2>1, ReceiverStep
<1> QED BY <1>4, <1>6

LEMMA InputStepRoom ==
  ASSUME LinkInv, NEW a \in Peers, Inputs(a)
  PROVE  RoomOf(a)' /\ RoomOf(Other(a))'
<1>1. PICK d \in net[a], again \in Again : Input(a, d, again)
  BY DEF Inputs
<1> DEFINE s == kcp[a]
           k == ikcp_input(s, d)
           b == Other(a)
<1>2. s \in Kcp /\ Settled(s) /\ b \in Peers /\ b # a /\ s.rcv_nxt \in Nat
      /\ s.rcv_nxt <= s.rcv_nxt
  BY EachEnd
<1>3. d \in Datagram /\ d.wnd <= RcvWnd
  <2>1. RoomOf(a)
    BY EachEnd
  <2> QED BY <2>1 DEF LinkInv, TypeInv, RoomOf, Room
<1>4. SameReceiver(s, k) /\ k.snd_nxt = s.snd_nxt /\ k.rmt_wnd = d.wnd
  BY <1>2, <1>3, InputLemma, InputRmtWnd
<1>5. \A u \in Nat : Holds(s, u) /\ d.una <= u /\ u \notin d.acks => Holds(k, u)
  BY <1>2, <1>3, InputRoom
<1>6. kcp' = [kcp EXCEPT ![a] = k] /\ writing' = writing /\ got' = got
      /\ net' = IF again THEN net ELSE [net EXCEPT ![a] = @ \ {d}]
  BY <1>1 DEF Input
<1> HIDE DEF k
<1>7. kcp'[a] = k /\ kcp'[b] = kcp[b] /\ net'[a] \subseteq net[a] /\ net'[b] = net[b]
  BY <1>2, <1>6 DEF LinkInv, TypeInv
<1>8. RoomOf(a)'
  BY <1>3, <1>4, <1>5, <1>6, <1>7, SenderStep
<1>9. RoomOf(b)'
  <2>1. Settled(k) /\ k.rcv_nxt = s.rcv_nxt /\ k.rcv_queue = s.rcv_queue
    BY <1>2, <1>4 DEF Settled, SameReceiver
  <2> QED BY <1>2, <1>6, <1>7, <2>1, ReceiverStep
<1> QED BY <1>8, <1>9

LEMMA PushRoom ==
  ASSUME LinkInv, NEW a \in Peers, InputPush(a)
  PROVE  RoomOf(a)' /\ RoomOf(Other(a))'
<1> DEFINE at == inp[a]
           sn == Min(DOMAIN at)
           s == kcp[a]
           k == ikcp_input_push(s, sn, at[sn])
           b == Other(a)
<1>1. at \in SnMap(Seg)
  BY DEF LinkInv, TypeInv
<1>2. DOMAIN at \in SUBSET Nat /\ DOMAIN at # {}
  BY <1>1, SnMapElim DEF InputPush
<1>3. sn \in DOMAIN at
  BY <1>2, NatMin
<1>4. sn \in Nat /\ at[sn] \in Seg
  BY <1>1, <1>2, <1>3, SnMapElim
<1>5. kcp' = [kcp EXCEPT ![a] = k] /\ UNCHANGED <<net, writing, got>>
  BY DEF InputPush
<1> HIDE DEF sn
<1>6. s \in Kcp /\ Settled(s) /\ b \in Peers /\ b # a /\ s.rmt_wnd <= RcvWnd
  BY EachEnd
<1>7. Settled(k) /\ k.rmt_wnd = s.rmt_wnd
  BY <1>4, <1>6, PushSettles, PushRmtWnd
<1>8. PICK j, n : n \in Nat /\ Kept(s, j, sn, at[sn]) /\ Shifted(j, k, 0, n)
  BY <1>4, <1>6, PushLemma
<1> HIDE DEF k
<1>9. kcp'[a] = k /\ kcp'[b] = kcp[b]
  BY <1>5, <1>6 DEF LinkInv, TypeInv
<1>10. j \in Kcp /\ SameSender(s, j) /\ j.rcv_nxt = s.rcv_nxt /\ j.rcv_queue = s.rcv_queue
  BY <1>8, Zenon DEF Kept
<1>11. SameSender(j, k) /\ k.rcv_nxt = s.rcv_nxt + n /\ k \in Kcp
       /\ \A i \in 1 .. (Len(s.rcv_queue) - 0) : k.rcv_queue[i] = s.rcv_queue[0 + i]
  BY <1>8, <1>10, Zenon DEF Shifted
<1>12. RoomOf(a)'
  <2>1. k.snd_buf = s.snd_buf /\ k.snd_nxt = s.snd_nxt
    BY <1>10, <1>11 DEF SameSender
  <2>2. \A u \in Nat : Holds(s, u) => Holds(k, u)
    BY <2>1 DEF Holds
  <2>3. k.rmt_wnd <= RcvWnd /\ net'[a] \subseteq net[a] /\ got'[b] = got[b]
        /\ writing'[b] = writing[b]
    BY <1>5, <1>6, <1>7
  <2> QED BY <1>9, <2>1, <2>2, <2>3, SenderStep
<1>13. ASSUME NEW u \in Nat, u <= s.rcv_nxt, ~writing'[a], k.rcv_queue # <<>>,
              ~writing[a] /\ s.rcv_queue # <<>> => u <= Len(got[a]) + Head(s.rcv_queue).frg
       PROVE  u <= Len(got'[a]) + Head(k.rcv_queue).frg
  <2> DEFINE q == s.rcv_queue
             p == k.rcv_queue
             G == Len(got[a])
  <2>1. G \in Nat /\ Len(q) \in Nat /\ G + Len(q) = s.rcv_nxt /\ q \in Seq(Seg)
    BY <1>6, QueueEnds DEF Kcp
  <2>2. p \in Seq(Seg) /\ p # <<>> /\ Head(p) = p[1] /\ Head(p).frg \in Nat
    <3>1. p \in Seq(Seg) /\ p # <<>>
      BY <1>11, <1>13 DEF Kcp
    <3>2. Head(p) = p[1] /\ Head(p) \in Seg
      BY <3>1
    <3> QED BY <3>1, <3>2 DEF Seg
  <2>3. got'[a] = got[a] /\ (~writing[a])
    BY <1>5, <1>13
  <2>4. CASE q = <<>>
    <3>1. u <= G
      BY <1>13, <2>1, <2>4
    <3> QED BY <2>1, <2>2, <2>3, <3>1
  <2>5. CASE q # <<>>
    <3>1. 1 \in 1 .. (Len(q) - 0) /\ 0 + 1 = 1 /\ Head(q) = q[1]
      BY <2>1, <2>5
    <3>2. Head(p) = Head(q)
      BY <1>11, <2>2, <3>1
    <3> QED BY <1>13, <2>3, <2>5, <3>2
  <2> QED BY <2>4, <2>5
<1>14. RoomOf(b)'
  <2>1. k.rcv_nxt \in Nat /\ s.rcv_nxt <= k.rcv_nxt
    <3>1. s.rcv_nxt \in Nat
      BY <1>6, Sequenced
    <3> QED BY <1>8, <1>11, <3>1
  <2>2. net'[b] = net[b]
    BY <1>5
  <2> QED BY <1>7, <1>9, <1>13, <2>1, <2>2, ReceiverStep
<1> QED BY <1>12, <1>14

(* The flush of a, as the sender and as the receiver. *)
LEMMA UpdateRoom ==
  ASSUME LinkInv, TypeInv', IndInv', NEW a \in Peers, Updates(a)
  PROVE  RoomOf(a)' /\ RoomOf(Other(a))'
<1>1. PICK due \in SUBSET DOMAIN kcp[a].snd_buf, probeDue \in {FALSE, CanProbe(kcp[a])} :
        Update(a, due, probeDue, TRUE)
  BY DEF Updates
<1> DEFINE b == Other(a)
           k == kcp[a]
           f == FillSndBuf(k)
           m == ikcp_flush(k, f)
           out == FlushOutput(k, f, due, probeDue)
           r == kcp'[a]
           s == kcp[b]
<1>2. PICK t \in Transit(NetCap[b], net[b], out, TRUE) : net' = [net EXCEPT ![b] = t]
  BY <1>1 DEF Update
<1>3. ReadOne(a, m)
  BY <1>1 DEF Update
<1>4. /\ k \in Kcp /\ Flight(k) /\ Settled(k) /\ k.rmt_wnd <= RcvWnd /\ k.rcv_nxt \in Nat
      /\ b \in Peers /\ b # a /\ Other(b) = a /\ RoomOf(b)
  BY EachEnd
<1>5. Filled(k, f, FlushCount(k)) /\ f \in Kcp
  BY <1>4, FillLemma DEF Filled
<1>6. \A d \in out : Carries(d, k, f)
  BY <1>4, <1>5, OutputLemma
<1>7. \A u \in Nat : Holds(k, u) /\ k.snd_nxt <= u + RcvWnd =>
        Holds(f, u) /\ f.snd_nxt <= u + RcvWnd
  BY <1>4, FillRoom
<1>8. m.rmt_wnd = k.rmt_wnd
  BY <1>4, FlushRmtWnd
<1> HIDE DEF f, out
<1>9. m \in Kcp /\ SameSender(f, m) /\ m.rcv_nxt = k.rcv_nxt /\ m.rcv_buf = k.rcv_buf
      /\ m.rcv_queue = k.rcv_queue
  BY <1>4, <1>5, FlushLemma DEF Filled, SameReceiver
<1> HIDE DEF m
<1>10. Settled(m)
  BY <1>4, <1>9 DEF Settled
<1>11. net'[b] = t /\ net'[a] = net[a] /\ t \subseteq net[b] \cup out
  BY <1>2, <1>4 DEF LinkInv, TypeInv, Transit
<1>12. /\ SameSender(m, r) /\ r.rmt_wnd = m.rmt_wnd /\ Settled(r)
       /\ r.rcv_nxt \in Nat /\ m.rcv_nxt <= r.rcv_nxt
       /\ kcp'[b] = s /\ got'[b] = got[b] /\ writing'[b] = writing[b]
       /\ (writing'[a] <=> CanRecv(m))
       /\ (~CanRecv(m) => r = m /\ got'[a] = got[a])
       /\ (CanRecv(m) => r = ikcp_recv(m))
  BY <1>3, <1>4, <1>9, <1>10, ReadOneShape DEF LinkInv
<1> HIDE DEF r
<1>13. RoomOf(a)'
  <2>1. r.snd_buf = f.snd_buf /\ r.snd_nxt = f.snd_nxt
    BY <1>9, <1>12 DEF SameSender
  <2>2. \A u \in Nat : Holds(f, u) => Holds(r, u)
    BY <2>1 DEF Holds
  <2>3. \A u \in Nat : Holds(k, u) /\ k.snd_nxt <= u + RcvWnd =>
          Holds(r, u) /\ r.snd_nxt <= u + RcvWnd
    BY <1>7, <2>1, <2>2
  <2>4. r.rmt_wnd <= RcvWnd /\ net'[a] \subseteq net[a] /\ kcp'[a] = r
    BY <1>4, <1>8, <1>11, <1>12 DEF r
  <2> QED BY <1>12, <2>3, <2>4, SenderStep
<1>14. RoomOf(b)'
  <2> DEFINE g == got[a]
             G == Len(g)
             q == k.rcv_queue
             h == Head(q).frg
             w == writing'[a]
             n == s.snd_nxt
  <2>1. PICK u \in 0 .. k.rcv_nxt : Reach(s, k, g, net[b], writing[a], u)
    BY <1>4 DEF RoomOf, Room
  <2>2. /\ ~writing[a]
        /\ s.rmt_wnd <= RcvWnd /\ \A d \in net[b] : d.wnd <= RcvWnd
    BY <1>1, <1>4 DEF Update, RoomOf, Room
  <2>3. n <= u + RcvWnd /\ (q # <<>> => u <= G + h)
    BY <2>1, <2>2 DEF Reach
  <2>4. /\ G \in Nat /\ Len(q) \in Nat /\ G + Len(q) = k.rcv_nxt
        /\ (q # <<>> => h \in Nat /\ Head(q) = q[1])
    BY QueueEnds
  <2>5. u \in Nat /\ u <= k.rcv_nxt /\ RcvWnd \in Nat /\ n \in Nat
    <3>1. s \in Kcp
      BY <1>4 DEF LinkInv, TypeInv
    <3> QED BY <1>4, <3>1, RcvWndType, Sequenced
  <2>6. n <= r.rcv_nxt + RcvWnd
    BY <1>4, <1>9, <1>12, <2>3, <2>5
  <2>7. \A sn \in DOMAIN k.rcv_buf : sn < n
    <3>1. Direction(s, k, sent[b], g, net[a], inp[a], net[b])
      BY <1>4 DEF LinkInv, IndInv
    <3> QED BY <3>1 DEF Direction, ReceiverHolds, PartOf
  <2>8. /\ CanPeek(m) => CanRecv(m)
        /\ Len(q) >= RcvWnd => CanRecv(m)
    BY <1>9, QueueReadable DEF LinkInv
  <2>9. Len(q) <= RcvWnd
    BY DEF LinkInv, RcvWindow
  <2>10. r.rcv_nxt \notin DOMAIN r.rcv_buf
    <3>1. CASE CanRecv(m)
      <4>1. CanPeek(m) /\ r = ikcp_recv(m)
        BY <1>12, <3>1 DEF CanRecv
      <4>2. q # <<>>
        BY <1>9, <4>1 DEF CanPeek
      <4>3. PeekCount(m) = h + 1
        <5> DEFINE st == sent[b]
        <5>1. Framed(st)
          BY <1>4 DEF LinkInv, AllFramed
        <5>2. st \in Seq(Seg) /\ G + Len(q) <= Len(st) /\ \A i \in 1..Len(q) : q[i] = st[G + i]
          BY QueueIsPart DEF LinkInv
        <5> HIDE DEF st
        <5>3. PeekCount(m) = m.rcv_queue[1].frg + 1
          BY <1>9, <2>4, <4>1, <5>1, <5>2, PeekWhole
        <5> QED BY <1>9, <2>4, <4>2, <5>3
      <4> DEFINE c == PeekCount(m)
      <4>4. u < G + c
        <5> HIDE DEF G, h
        <5> QED BY <2>3, <2>4, <2>5, <4>2, <4>3
      <4>5. G + Len(m.rcv_queue) = m.rcv_nxt /\ Len(m.rcv_queue) <= RcvWnd
            /\ \A sn \in DOMAIN m.rcv_buf : sn < n
        BY <1>9, <2>4, <2>7, <2>9
      <4> HIDE DEF G, c, n
      <4>6. n <= u + RcvWnd /\ n \in Nat /\ G \in Nat /\ u \in Nat /\ u < G + PeekCount(m)
        BY <2>3, <2>4, <2>5, <4>4 DEF c
      <4> QED BY <1>9, <1>10, <4>1, <4>5, <4>6, ReadSettles
    <3>2. CASE ~CanRecv(m)
      <4>1. r = m /\ ~(Len(q) >= RcvWnd)
        BY <1>12, <2>8, <3>2
      <4>2. Len(m.rcv_queue) < RcvWnd
        BY <1>9, <2>4, <2>5, <4>1
      <4> QED BY <1>10, <4>1, <4>2 DEF Settled
    <3> QED BY <3>1, <3>2
  <2>11. ASSUME ~w, r.rcv_queue # <<>>
         PROVE  r.rcv_nxt <= Len(got'[a]) + Head(r.rcv_queue).frg
    <3>1. ~CanRecv(m) /\ r = m /\ got'[a] = g
      BY <1>12, <2>11
    <3>2. q # <<>> /\ ~CanPeek(m)
      BY <1>9, <2>8, <2>11, <3>1
    <3>3. ~(Len(q) >= h + 1)
      BY <1>9, <3>2 DEF CanPeek
    <3> DEFINE L == Len(q)
    <3>4. G \in Nat /\ L \in Nat /\ h \in Nat /\ G + L = k.rcv_nxt /\ ~(L >= h + 1)
      BY <2>4, <3>2, <3>3
    <3> HIDE DEF G, L, h
    <3>5. k.rcv_nxt <= G + h
      BY <3>4
    <3> QED BY <1>9, <3>1, <3>5 DEF G, h
  <2>12. Shapes(kcp'[b], kcp'[a], sent'[b], got'[a], net'[a], inp'[a], net'[b])
         /\ Direction(kcp'[b], kcp'[a], sent'[b], got'[a], net'[a], inp'[a], net'[b])
    <3>1. \A e \in Peers : Shapes(kcp[e], kcp[Other(e)], sent[e], got[Other(e)],
                             net[Other(e)], inp[Other(e)], net[e])'
      BY PeersLemma DEF TypeInv, Shapes
    <3>2. \A e \in Peers : Direction(kcp[e], kcp[Other(e)], sent[e], got[Other(e)],
                             net[Other(e)], inp[Other(e)], net[e])'
      BY DEF IndInv
    <3> QED BY <1>4, <3>1, <3>2
  <2>13. Reach(s, r, got'[a], t, w, r.rcv_nxt)
    <3> DEFINE g2 == got'[a]
    <3>1. Shapes(s, r, sent'[b], g2, net'[a], inp'[a], t)
          /\ Direction(s, r, sent'[b], g2, net'[a], inp'[a], t)
      BY <1>11, <1>12, <2>12 DEF r
    <3> HIDE DEF s, w, g2
    <3>2. ~w /\ r.rcv_queue # <<>> => r.rcv_nxt <= Len(g2) + Head(r.rcv_queue).frg
      BY <2>11 DEF g2
    <3> QED BY <2>6, <2>10, <3>1, <3>2, ReachFresh DEF g2
  <2>14. \A d \in t : d.wnd <= RcvWnd
    BY <1>6, <1>11, <2>2 DEF Carries
  <2>15. r.rcv_nxt \in 0 .. r.rcv_nxt
    BY <1>12
  <2>16. Room(s, r, got'[a], t, w)
    BY <1>12, <2>2, <2>13, <2>14, <2>15 DEF Room, Settled
  <2> HIDE DEF s, w, b
  <2>17. Room(kcp'[b], kcp'[Other(b)], got'[Other(b)], net'[b], writing'[Other(b)])
    BY <1>4, <1>11, <1>12, <2>16 DEF r, w
  <2> QED BY <2>17 DEF RoomOf, b
<1> QED BY <1>13, <1>14

LEMMA NextFits ==
  ASSUME TypeInv, AllFramed, AllFitting, [Next]_vars
  PROVE  AllFramed' /\ AllFitting'
<1>1. ASSUME NEW a \in Peers, Sends(a) PROVE AllFramed' /\ AllFitting'
  BY <1>1, SendWrites, SendFits
<1>2. ASSUME sent' = sent PROVE AllFramed' /\ AllFitting'
  BY <1>2 DEF AllFramed, AllFitting
<1>3. ASSUME NEW a \in Peers, Updates(a) \/ WriteDone(a) \/ Inputs(a) \/ InputPush(a)
      PROVE  sent' = sent
  BY <1>3 DEF Updates, Update, WriteDone, Inputs, Input, InputPush
<1>4. CASE UNCHANGED vars
  BY <1>2, <1>4 DEF vars
<1> QED BY <1>1, <1>2, <1>3, <1>4 DEF Next

LEMMA NextRoom ==
  ASSUME LinkInv, TypeInv', IndInv', [Next]_vars
  PROVE  RoomInv'
<1>1. ASSUME NEW a \in Peers, RoomOf(a)', RoomOf(Other(a))' PROVE RoomInv'
  <2>1. \A e \in Peers : RoomOf(e)'
    BY <1>1, PeersLemma
  <2> QED BY <2>1 DEF RoomInv, RoomOf
<1>2. ASSUME NEW a \in Peers,
             Sends(a) \/ Updates(a) \/ WriteDone(a) \/ Inputs(a) \/ InputPush(a)
      PROVE  RoomOf(a)' /\ RoomOf(Other(a))'
  BY <1>2, SendRoom, UpdateRoom, WriteDoneRoom, InputStepRoom, PushRoom
<1>3. CASE UNCHANGED vars
  <2>1. RoomInv
    BY DEF LinkInv
  <2> QED BY <1>3, <2>1 DEF vars, RoomInv
<1> QED BY <1>1, <1>2, <1>3 DEF Next

LEMMA InitRoom == Init => AllFitting /\ RoomInv
<1> SUFFICES ASSUME Init PROVE AllFitting /\ RoomInv
  OBVIOUS
<1>1. AllFitting
  BY DEF Init, AllFitting, Fitting, Joined
<1>2. ASSUME NEW e \in Peers
      PROVE  Room(kcp[e], kcp[Other(e)], got[Other(e)], net[e], writing[Other(e)])
  <2> DEFINE s == kcp[e]
             r == kcp[Other(e)]
             g == got[Other(e)]
             w == writing[Other(e)]
  <2>1. /\ DOMAIN s.snd_buf = {} /\ s.snd_nxt = 0 /\ s.rmt_wnd = WndRcv
        /\ r.rcv_nxt = 0 /\ r.rcv_queue = <<>> /\ DOMAIN r.rcv_buf = {}
        /\ net[e] = {}
    BY PeersLemma DEF Init, ikcp_create
  <2>2. WndRcv <= RcvWnd /\ RcvWnd \in Nat
    BY SizesAssumption DEF RcvWnd
  <2> HIDE DEF s, r, g, w
  <2>3. Reach(s, r, g, {}, w, 0)
    BY <2>1, <2>2 DEF Reach, Holds
  <2>4. Room(s, r, g, {}, w)
    BY <2>1, <2>2, <2>3 DEF Room
  <2> QED BY <2>1, <2>4 DEF s, r, g, w
<1> QED BY <1>1, <1>2 DEF RoomInv

LEMMA LinkInvariant == Spec => []LinkInv
<1>1. Init => AllFramed /\ AllFitting /\ RoomInv
  BY InitStreams, InitRoom
<1>2. /\ TypeInv /\ IndInv /\ RcvWindow /\ AllFlight /\ AllFramed /\ AllFitting /\ RoomInv
      /\ TypeInv' /\ IndInv' /\ [Next]_vars
      => AllFramed' /\ AllFitting' /\ RoomInv'
  BY NextFits, NextRoom DEF LinkInv
<1>3. Spec => []RoomInv /\ []AllFramed /\ []AllFitting
  BY <1>1, <1>2, FlightInvariant, Inductive, ReceiverBounded, PTL DEF Spec
<1>4. TypeInv /\ IndInv /\ RcvWindow /\ AllFlight /\ AllFramed /\ AllFitting /\ RoomInv
      => LinkInv
  BY DEF LinkInv
<1> QED BY <1>3, <1>4, FlightInvariant, Inductive, ReceiverBounded, PTL

(* RoomInv: at any time there is a place the receiver has reached and the  *)
(* sender has not been told of, less than a window behind all that was     *)
(* sent, and reading the next message moves the window beyond it.          *)
THEOREM RoomForAll == Spec => []RoomInv
<1>1. LinkInv => RoomInv
  BY DEF LinkInv
<1> QED BY <1>1, LinkInvariant, PTL

(* No segment arrives from beyond the window: rmt_wnd may be out of date   *)
(* and too large, but the flush that reports a window is followed, in the  *)
(* same call of the update coroutine, by the read that makes the room.     *)
THEOREM NeverOverrun == Spec => []NoOverrun
<1>1. LinkInv => NoOverrun
  <2> SUFFICES ASSUME LinkInv, NEW e \in Peers, NEW sn \in DOMAIN inp[e]
               PROVE  sn < kcp[e].rcv_nxt + RcvWnd
    BY DEF NoOverrun
  <2> DEFINE s == kcp[Other(e)]
             r == kcp[e]
  <2>1. Other(e) \in Peers /\ Other(Other(e)) = e
    BY PeersLemma
  <2>2. Direction(s, r, sent[Other(e)], got[e], net[e], inp[e], net[Other(e)])
    BY <2>1 DEF LinkInv, IndInv
  <2>3. sn < s.snd_nxt
    BY <2>2 DEF Direction, PushesHold, PartOf
  <2>4. PICK u \in 0 .. r.rcv_nxt : s.snd_nxt <= u + RcvWnd
    BY <2>1 DEF LinkInv, RoomInv, Room, Reach
  <2>5. s.snd_nxt \in Nat /\ r.rcv_nxt \in Nat /\ RcvWnd \in Nat /\ sn \in Nat
    <3>1. s \in Kcp /\ r \in Kcp /\ inp[e] \in SnMap(Seg)
      BY <2>1 DEF LinkInv, TypeInv
    <3> QED BY <3>1, Sequenced, RcvWndType, SnMapElim
  <2> HIDE DEF s, r
  <2>6. sn < r.rcv_nxt + RcvWnd
    BY <2>3, <2>4, <2>5
  <2> QED BY <2>6 DEF r
<1> QED BY <1>1, LinkInvariant, PTL

(* A full receive queue can always be read: ikcp_recv never waits for a    *)
(* fragment that ikcp_parse_data has no room to move, whatever the sizes   *)
(* of the reads, the windows and the network.                              *)
THEOREM FullIsReadable == Spec => []FullQueueReadable
<1>1. LinkInv => FullQueueReadable
  <2> SUFFICES ASSUME LinkInv, NEW e \in Peers
               PROVE  Len(kcp[e].rcv_queue) >= RcvWnd => CanRecv(kcp[e])
    BY DEF FullQueueReadable
  <2>1. kcp[e] \in Kcp
    BY DEF LinkInv, TypeInv
  <2> QED BY <2>1, QueueReadable DEF LinkInv
<1> QED BY <1>1, LinkInvariant, PTL
=============================================================================
