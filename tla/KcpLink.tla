------------------------------- MODULE KcpLink ------------------------------
(***************************************************************************)
(* One proxied connection between its two forwarders: ClientSideForwarder  *)
(* on the client and Forwarder on the server, each with a KCP control      *)
(* block, joined by UDP.  The connection is up: starting and stopping a    *)
(* forwarder are not part of this module.                                  *)
(*                                                                         *)
(* Both ends run the same three coroutines on one thread, and a coroutine  *)
(* is interrupted only where it awaits:                                    *)
(*   tcp to kcp   awaits bytes from TCP and hands them to ikcp_send        *)
(*   kcp feed     awaits a datagram and hands it to ikcp_input             *)
(*   update       calls ikcp_update, then ikcp_recv until there is no      *)
(*                message left, awaiting the TCP write of each, then       *)
(*                awaits a 10 ms timer                                     *)
(* While the update coroutine awaits a TCP write it does not call          *)
(* ikcp_update, so nothing is sent or acknowledged.                        *)
(***************************************************************************)
EXTENDS Ikcp

CONSTANTS
  Client, Server,   \* the two ends
  Reads,            \* the numbers of bytes one read from TCP may return
  RecvBuf,          \* the size of the buffer given to ikcp_recv
  MaxSegs,          \* bound: MaxSegs[e] segments are read from e's TCP peer
  MaxAcks,          \* bound: the pending acknowledgements
  MaxDue,           \* bound: the segments one flush sends again
  NetCap,           \* bound: NetCap[e] datagrams are in transit to e
  Again             \* whether a delivered datagram may be delivered again

Peers == {Client, Server}
Other(e) == IF e = Client THEN Server ELSE Client

ASSUME LinkAssumption ==
  /\ Client # Server
  /\ Reads \subseteq Nat \ {0}
  /\ RecvBuf \in Nat
  /\ MaxSegs \in [Peers -> Nat]
  /\ MaxAcks \in Nat
  /\ MaxDue \in Nat
  /\ NetCap \in [Peers -> Nat]
  /\ Again \subseteq BOOLEAN

(* A read from TCP is never refused by ikcp_send, and a message always     *)
(* fits in the buffer of ikcp_recv: 8192 bytes are 6 fragments, the buffer *)
(* has 16384.                                                              *)
ASSUME ReadAssumption ==
  \A n \in Reads : FragCount(n) < WndRcv /\ n <= RecvBuf

VARIABLES
  kcp,       \* kcp[e]: the control block of e
  net,       \* net[e]: the datagrams in transit to e
  inp,       \* inp[e]: the pushes of the datagram that e's ikcp_input is at
  writing,   \* writing[e]: the update coroutine of e awaits a TCP write
  sent,      \* sent[e]: everything read from e's TCP peer, as segments
  got        \* got[e]: everything handed to e's TCP peer, as segments

vars == <<kcp, net, inp, writing, sent, got>>

Init ==
  /\ kcp = [e \in Peers |-> ikcp_create]
  /\ net = [e \in Peers |-> {}]
  /\ inp = [e \in Peers |-> <<>>]
  /\ writing = [e \in Peers |-> FALSE]
  /\ sent = [e \in Peers |-> <<>>]
  /\ got = [e \in Peers |-> <<>>]

-----------------------------------------------------------------------------
(* ikcp_input is one step of the program: no other coroutine of the same   *)
(* thread runs before it returns, and since it neither sends nor receives  *)
(* the other end cannot tell when it runs.                                 *)
Idle == \A e \in Peers : DOMAIN inp[e] = {}

(* The position in the stream of the next byte that e reads from TCP. *)
Written(e) == IF sent[e] = <<>> THEN 0
              ELSE LET s == sent[e][Len(sent[e])] IN s.off + s.len

(* tcp to kcp: n bytes arrive. *)
Send(e, n) ==
  /\ Idle
  /\ Len(sent[e]) + FragCount(n) <= MaxSegs[e]
  /\ kcp' = [kcp EXCEPT ![e] = ikcp_send(@, Written(e), n)]
  /\ sent' = [sent EXCEPT ![e] = @ \o Fragments(Written(e), n)]
  /\ UNCHANGED <<net, inp, writing, got>>

(* ikcp_recv finds a message and has the room for it. *)
CanRecv(k) == CanPeek(k) /\ PeekSize(k) <= RecvBuf

(* One round of the loop around ikcp_recv, on the control block k.  When   *)
(* there is no message the coroutine goes on to await its timer.           *)
ReadOne(e, k) ==
  IF CanRecv(k)
  THEN /\ kcp' = [kcp EXCEPT ![e] = ikcp_recv(k)]
       /\ got' = [got EXCEPT ![e] = @ \o RecvMessage(k)]
       /\ writing' = [writing EXCEPT ![e] = TRUE]
  ELSE /\ kcp' = [kcp EXCEPT ![e] = k]
       /\ writing' = [writing EXCEPT ![e] = FALSE]
       /\ got' = got

(* The network, after the datagrams `new' have been sent.  A datagram in   *)
(* transit may be delivered at any time, any number of times, in any order *)
(* or never; when there are more of them than `cap' some are lost here:    *)
(* any of them if `lossy', otherwise older ones.                           *)
Transit(cap, old, new, lossy) ==
  {t \in SUBSET (old \cup new) :
     /\ Cardinality(t) = Min({cap, Cardinality(old \cup new)})
     /\ lossy \/ new \subseteq t}

(* update: the timer has expired and ikcp_update flushes (it always does:  *)
(* KcpTimer!AlwaysFlushes); `due' are the segments that are due for        *)
(* another transmission.                                                   *)
Update(e, due, probeDue, lossy) ==
  /\ Idle
  /\ ~writing[e]
  /\ \E f \in {FillSndBuf(kcp[e])} :
       /\ \E out \in {FlushOutput(kcp[e], f, due, probeDue)} :
            \E t \in Transit(NetCap[Other(e)], net[Other(e)], out, lossy) :
              net' = [net EXCEPT ![Other(e)] = t]
       /\ \E k \in {ikcp_flush(kcp[e], f)} : ReadOne(e, k)
  /\ UNCHANGED <<inp, sent>>

(* update: the TCP write of a message completes. *)
WriteDone(e) ==
  /\ Idle
  /\ writing[e]
  /\ ReadOne(e, kcp[e])
  /\ UNCHANGED <<net, inp, sent>>

(* kcp feed: a datagram arrives, perhaps not for the last time. *)
Input(e, d, again) ==
  /\ Idle
  /\ Len(kcp[e].acklist) + Cardinality(DOMAIN d.push) <= MaxAcks
  /\ kcp' = [kcp EXCEPT ![e] = ikcp_input(@, d)]
  /\ inp' = [inp EXCEPT ![e] = d.push]
  /\ net' = IF again THEN net ELSE [net EXCEPT ![e] = @ \ {d}]
  /\ UNCHANGED <<writing, sent, got>>

(* kcp feed: ikcp_input reaches the next push of the datagram. *)
InputPush(e) ==
  /\ DOMAIN inp[e] # {}
  /\ LET sn == Min(DOMAIN inp[e])
     IN  /\ kcp' = [kcp EXCEPT ![e] = ikcp_input_push(@, sn, inp[e][sn])]
         /\ inp' = [inp EXCEPT ![e] = Without(@, {sn})]
  /\ UNCHANGED <<net, writing, sent, got>>

-----------------------------------------------------------------------------
Sends(e) == \E n \in Reads : Send(e, n)

Updates(e) ==
  \E due \in SUBSET DOMAIN kcp[e].snd_buf, probeDue \in {FALSE, CanProbe(kcp[e])} :
    Cardinality(due) <= MaxDue /\ Update(e, due, probeDue, TRUE)

Inputs(e) == \E d \in net[e], again \in Again : Input(e, d, again)

Next ==
  \E e \in Peers :
    \/ Sends(e)
    \/ Updates(e)
    \/ WriteDone(e)
    \/ Inputs(e)
    \/ InputPush(e)

Spec == Init /\ [][Next]_vars

-----------------------------------------------------------------------------
IsSnMap(f, S) == \A sn \in DOMAIN f : sn \in Nat /\ f[sn] \in S

(* Every field of the two control blocks, and everything in transit, has   *)
(* the type ikcp.h gives it: in particular no window, count or sequence    *)
(* number computed by a subtraction in ikcp.c goes below zero, where the   *)
(* unsigned fields of ikcpcb would wrap.                                   *)
TypeOK ==
  /\ \A e \in Peers :
       LET k == kcp[e]
       IN  /\ k.snd_queue \in Seq(Seg) /\ IsSnMap(k.snd_buf, Seg)
           /\ k.rcv_queue \in Seq(Seg) /\ IsSnMap(k.rcv_buf, Seg)
           /\ k.snd_una \in Nat /\ k.snd_nxt \in Nat /\ k.rcv_nxt \in Nat
           /\ k.rmt_wnd \in Nat /\ k.acklist \in Seq(Nat)
           /\ k.probe \subseteq {"ASK_TELL"} /\ k.probe_wait \in BOOLEAN
  /\ \A e \in Peers : \A d \in net[e] :
       /\ d.una \in Nat /\ d.wnd \in Nat /\ d.acks \subseteq Nat
       /\ d.ctl \subseteq {"WASK", "WINS"} /\ IsSnMap(d.push, Seg)
  /\ \A e \in Peers : IsSnMap(inp[e], Seg)
  /\ writing \in [Peers -> BOOLEAN]
  /\ sent \in [Peers -> Seq(Seg)]
  /\ got \in [Peers -> Seq(Seg)]

(* What the TCP peer of one end is given is a prefix of what the TCP peer  *)
(* of the other end wrote: whatever is lost, repeated or reordered on the  *)
(* way, ikcp_recv hands out every segment once and in order.               *)
InOrder ==
  \A e \in Peers :
    /\ Len(got[e]) <= Len(sent[Other(e)])
    /\ \A i \in 1..Len(got[e]) : got[e][i] = sent[Other(e)][i]

(* A segment the sender has deleted from snd_buf (by ikcp_parse_ack or     *)
(* ikcp_parse_una) has reached the other end: it has been moved to         *)
(* rcv_queue or waits in rcv_buf.  Nothing is acknowledged and then        *)
(* dropped, though the receiver's window is checked in two places.         *)
AckedIsHeld ==
  \A e \in Peers : \A sn \in 0 .. (kcp[e].snd_nxt - 1) :
    \/ sn \in DOMAIN kcp[e].snd_buf
    \/ sn < kcp[Other(e)].rcv_nxt
    \/ sn \in DOMAIN kcp[Other(e)].rcv_buf

(* The receiver's memory is bounded by its window whatever the sender does *)
(* with an old rmt_wnd: rcv_queue never exceeds rcv_wnd (ikcp_wnd_unused   *)
(* would report 0 for ever) and rcv_buf holds sequence numbers of the      *)
(* window only.                                                            *)
RcvWindow ==
  \A e \in Peers :
    /\ Len(kcp[e].rcv_queue) <= RcvWnd
    /\ \A sn \in DOMAIN kcp[e].rcv_buf :
         kcp[e].rcv_nxt <= sn /\ sn < kcp[e].rcv_nxt + RcvWnd

(* No segment arrives from beyond the window, where ikcp_input throws it   *)
(* away.  A datagram that was overtaken leaves the sender with an rmt_wnd  *)
(* that is too large (ikcp_input takes every wnd it sees), but since an    *)
(* acknowledgement is only sent right before the queue is read, the        *)
(* receiver has room again before the sender can use it.                   *)
NoOverrun ==
  \A e \in Peers : \A sn \in DOMAIN inp[e] : sn < kcp[e].rcv_nxt + RcvWnd

(* snd_una is the oldest segment in snd_buf, or snd_nxt when there is      *)
(* none, and no more than snd_wnd segments are in flight.                  *)
SndWindow ==
  \A e \in Peers :
    /\ kcp[e].snd_una = Min(DOMAIN kcp[e].snd_buf \cup {kcp[e].snd_nxt})
    /\ kcp[e].snd_nxt <= kcp[e].snd_una + SndWnd

(* A full receive queue can always be read: the fragments of its first     *)
(* message are all there.  Otherwise ikcp_peeksize would wait for a        *)
(* segment that ikcp_parse_data has no room to move, for ever.             *)
FullQueueReadable ==
  \A e \in Peers : Len(kcp[e].rcv_queue) >= RcvWnd => CanRecv(kcp[e])

(* The sender's view never goes back: an old datagram that arrives late    *)
(* (its una and acks are old) neither reopens a segment that was           *)
(* acknowledged nor moves snd_una or rcv_nxt backwards.                    *)
Monotone ==
  [][\A e \in Peers :
       /\ kcp'[e].snd_una >= kcp[e].snd_una
       /\ kcp'[e].rcv_nxt >= kcp[e].rcv_nxt
       /\ \A sn \in DOMAIN kcp'[e].snd_buf :
            sn \in DOMAIN kcp[e].snd_buf \/ sn >= kcp[e].snd_nxt]_vars

(* The link implements a reliable stream of messages in each direction:    *)
(* what ikcp_recv hands out is the next whole message of what the other    *)
(* end gave to ikcp_send, never a part of one.                             *)
Stream == INSTANCE ReliableStream
StreamSpec == Stream!Spec

-----------------------------------------------------------------------------
(***************************************************************************)
(* The inductive invariant, for one direction of the connection: s is the  *)
(* control block of the end that sends and r that of the end that          *)
(* receives, st is what was read from TCP at the first and g what was      *)
(* handed to TCP at the second.                                            *)
(***************************************************************************)
(* The segment sn has been moved to rcv_queue or waits in rcv_buf. *)
Held(r, sn) == sn < r.rcv_nxt \/ sn \in DOMAIN r.rcv_buf

(* Everything f maps to a segment has been sent, and is in the stream at   *)
(* the place its sequence number says.                                     *)
PartOf(f, s, st) == \A sn \in DOMAIN f : sn < s.snd_nxt /\ f[sn] = st[sn + 1]

(* snd_buf and then snd_queue hold the end of the stream. *)
SenderHolds(s, st) ==
  /\ s.snd_nxt + Len(s.snd_queue) = Len(st)
  /\ \A i \in 1..Len(s.snd_queue) : s.snd_queue[i] = st[s.snd_nxt + i]
  /\ PartOf(s.snd_buf, s, st)

(* got, then rcv_queue, then rcv_buf hold the beginning of it. *)
ReceiverHolds(s, r, st, g) ==
  /\ r.rcv_nxt <= s.snd_nxt
  /\ Len(g) + Len(r.rcv_queue) = r.rcv_nxt
  /\ \A i \in 1..Len(g) : g[i] = st[i]
  /\ \A i \in 1..Len(r.rcv_queue) : r.rcv_queue[i] = st[Len(g) + i]
  /\ PartOf(r.rcv_buf, s, st)

(* The datagrams on their way to r, and the one r is at. *)
PushesHold(s, st, to, at) ==
  /\ \A d \in to : PartOf(d.push, s, st)
  /\ PartOf(at, s, st)

(* An acknowledgement, pending or on its way back, is for what r has. *)
AcksHold(r, back) ==
  /\ \A i \in 1..Len(r.acklist) : Held(r, r.acklist[i])
  /\ \A d \in back : d.una <= r.rcv_nxt /\ \A sn \in d.acks : Held(r, sn)

(* Nothing that was sent is at neither end. *)
Covered(s, r) == \A sn \in 0 .. (s.snd_nxt - 1) : sn \in DOMAIN s.snd_buf \/ Held(r, sn)

Direction(s, r, st, g, to, at, back) ==
  /\ SenderHolds(s, st)
  /\ ReceiverHolds(s, r, st, g)
  /\ PushesHold(s, st, to, at)
  /\ AcksHold(r, back)
  /\ Covered(s, r)

(* In both directions all copies of a segment agree with the byte stream,  *)
(* what is acknowledged is held, and what is not held is still in snd_buf: *)
(* what makes the stream of ikcp.c in order and free of gaps.              *)
IndInv ==
  \A e \in Peers :
    Direction(kcp[e], kcp[Other(e)], sent[e], got[Other(e)],
              net[Other(e)], inp[Other(e)], net[e])

(***************************************************************************)
(* Why a segment is never beyond the window, again for one direction: back *)
(* is what is on its way from r to s, and w says that the update coroutine *)
(* of r awaits a TCP write.  There is a place u of the stream that r has   *)
(* reached, that s still has to send or to see acknowledged and that       *)
(* nothing on its way to s acknowledges.  Whatever arrives, s sends no     *)
(* further than a window from u.  Unless r is held up by a TCP write, u is *)
(* no further than the first message of its queue, so that reading this    *)
(* message after its next ikcp_update makes room for all that s has sent.  *)
(***************************************************************************)
Holds(s, u) == u \in DOMAIN s.snd_buf \/ u >= s.snd_nxt

Reach(s, r, g, back, w, u) ==
  /\ Holds(s, u)
  /\ s.snd_nxt <= u + RcvWnd
  /\ \A d \in back : d.una <= u /\ u \notin d.acks
  /\ ~w /\ r.rcv_queue # <<>> => u <= Len(g) + Head(r.rcv_queue).frg

Room(s, r, g, back, w) ==
  /\ s.rmt_wnd <= RcvWnd /\ \A d \in back : d.wnd <= RcvWnd
  /\ Len(r.rcv_queue) < RcvWnd => r.rcv_nxt \notin DOMAIN r.rcv_buf
  /\ \E u \in 0 .. r.rcv_nxt : Reach(s, r, g, back, w, u)

RoomInv ==
  \A e \in Peers :
    Room(kcp[e], kcp[Other(e)], got[Other(e)], net[e], writing[Other(e)])

-----------------------------------------------------------------------------
(***************************************************************************)
(* Liveness.  The io_context runs every coroutine that can run; the timer  *)
(* of the update coroutine expires; a retransmission or probe timer that   *)
(* has expired is seen by the next flush; and the network, however often   *)
(* it loses, does not lose everything that is sent again and again, nor    *)
(* hold it back for ever.  The TCP peers of `readers' take what is written *)
(* to them.                                                                *)
(***************************************************************************)
UpdateThrough(e) == Update(e, DOMAIN kcp[e].snd_buf, TRUE, FALSE)

Fairness(readers) ==
  /\ \A e \in Peers : /\ SF_vars(UpdateThrough(e))
                      /\ SF_vars(Inputs(e))
                      /\ WF_vars(InputPush(e))
  /\ \A e \in readers : WF_vars(WriteDone(e))

LiveSpec == Spec /\ Fairness(Peers)

(* Every segment that is read from TCP at one end is written to TCP at the *)
(* other: no loss, no closed window and no lost window update stops the    *)
(* stream for ever.                                                        *)
Delivered ==
  \A e \in Peers : \A n \in 1..MaxSegs[e] :
    Len(sent[e]) >= n ~> Len(got[Other(e)]) >= n

(* A window that was reported closed is reported open again, though the    *)
(* WINS segment that says so may be lost: the probe of ikcp_flush asks.    *)
WindowReopens == \A e \in Peers : kcp[e].rmt_wnd = 0 ~> kcp[e].rmt_wnd > 0

(* The TCP peer of the server stops reading for ever, that of the client   *)
(* reads on.                                                               *)
StalledSpec == Spec /\ Fairness({Client})

(* Even so what the TCP peer of the server writes reaches the client: the  *)
(* update coroutine calls ikcp_update again and again, as ikcp.c asks of   *)
(* its caller.                                                             *)
BackFlows ==
  \A n \in 1..MaxSegs[Server] : Len(sent[Server]) >= n ~> Len(got[Client]) >= n
=============================================================================
