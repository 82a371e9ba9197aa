-------------------------------- MODULE Ikcp --------------------------------
(***************************************************************************)
(* The KCP control block of FlexCommon/src/FlexCommon/ikcp.c and the       *)
(* functions the two forwarders call on it.  A control block is a record;  *)
(* every operator below is one function of ikcp.c, from the control block  *)
(* before the call to the one after it.                                    *)
(*                                                                         *)
(* Abstractions.  The sorted lists snd_buf and rcv_buf are functions from  *)
(* the sequence numbers in the list to the segment.  Sequence numbers are  *)
(* natural numbers: the model never gets near 2^32.  The clock is left     *)
(* out: which segments in snd_buf are due for another transmission         *)
(* (because resendts has passed or fastack has reached fastresend), and    *)
(* whether the probe timer has expired, are arguments of the flush, and    *)
(* rto, resendts, fastack and xmit are not kept.  The congestion window is *)
(* computed but not used (both ends call ikcp_nodelay with nc = 1) and is  *)
(* left out, and so is `state', which nothing reads.                       *)
(*                                                                         *)
(* An operator whose name ends in _X is its neighbour with a plausible     *)
(* slip in it.  No specification uses it: it is there to see that a        *)
(* property would notice the slip.                                         *)
(***************************************************************************)
EXTENDS Integers, Sequences, FiniteSets, FiniteSetsExt

CONSTANTS
  Overhead,     \* IKCP_OVERHEAD, the size of a segment header
  Mss,          \* kcp->mss, the largest payload of a segment
  WndRcv,       \* IKCP_WND_RCV
  CfgSndWnd,    \* the windows the forwarders ask for with ikcp_wndsize
  CfgRcvWnd

ASSUME SizesAssumption ==
  /\ Overhead \in Nat \ {0}
  /\ Mss \in Nat \ {0}
  /\ WndRcv \in Nat \ {0}
  /\ CfgSndWnd \in Nat \ {0}
  /\ CfgRcvWnd \in Nat \ {0}

-----------------------------------------------------------------------------
(* ikcp_setmtu keeps mss = mtu - IKCP_OVERHEAD. *)
Mtu == Mss + Overhead

(* ikcp_wndsize: a receive window may never be smaller than IKCP_WND_RCV,  *)
(* the bound on the fragments of one message.                              *)
SndWnd == CfgSndWnd
RcvWnd_X == CfgRcvWnd

RcvWnd == IF CfgRcvWnd > WndRcv THEN CfgRcvWnd ELSE WndRcv

(* A piece of the byte stream: `len' bytes from position `off' on, of which *)
(* `frg' more fragments of the same message follow.                         *)
Seg == [frg : Nat, off : Nat, len : Nat]

(* The functions from a set of sequence numbers to S. *)
SnMap(S) == UNION {[D -> S] : D \in SUBSET Nat}
Without(f, S) == [sn \in DOMAIN f \ S |-> f[sn]]

(* The control block, and the segments that one call of kcp->output        *)
(* carries.  A flush encodes its acknowledgements first, then the window   *)
(* commands, then the pushes in the order of their sequence numbers, all   *)
(* with the same una and wnd.                                              *)
Kcp == [snd_queue : Seq(Seg), snd_buf : SnMap(Seg), snd_una : Nat,
        snd_nxt : Nat, rcv_nxt : Nat, rcv_buf : SnMap(Seg),
        rcv_queue : Seq(Seg), acklist : Seq(Nat), rmt_wnd : Nat,
        probe : SUBSET {"ASK_TELL"}, probe_wait : BOOLEAN]

Datagram == [una : Nat, wnd : Nat, acks : SUBSET Nat,
             ctl : SUBSET {"WASK", "WINS"}, push : SnMap(Seg)]

ikcp_create ==
  [snd_queue |-> <<>>, snd_buf |-> <<>>, snd_una |-> 0, snd_nxt |-> 0,
   rcv_nxt |-> 0, rcv_buf |-> <<>>, rcv_queue |-> <<>>, acklist |-> <<>>,
   rmt_wnd |-> WndRcv, probe |-> {}, probe_wait |-> FALSE]

-----------------------------------------------------------------------------
(* ikcp_send: `n' bytes of the stream, from position `off' on, become one  *)
(* message of FragCount(n) fragments.  A message of too many fragments is  *)
(* refused (the forwarders do not look at the result).                     *)
FragCount(n) == IF n <= Mss THEN 1 ELSE (n + Mss - 1) \div Mss

Fragments(off, n) ==
  [i \in 1..FragCount(n) |->
     [frg |-> FragCount(n) - i,
      off |-> off + (i - 1) * Mss,
      len |-> IF n > i * Mss THEN Mss ELSE n - (i - 1) * Mss]]

ikcp_send(k, off, n) ==
  IF FragCount(n) >= WndRcv
  THEN k
  ELSE [k EXCEPT !.snd_queue = @ \o Fragments(off, n)]

-----------------------------------------------------------------------------
(* The loop of ikcp_parse_data and ikcp_recv that moves the segments that  *)
(* are next in order from rcv_buf to rcv_queue.  ReadyCount is the number  *)
(* of the round in which its condition fails first.                        *)
ReadyCount_X(k) ==
  Min({i \in 0..RcvWnd : k.rcv_nxt + i \notin DOMAIN k.rcv_buf \/ i = RcvWnd})

ReadyCount(k) ==
  Min({i \in 0..RcvWnd : \/ k.rcv_nxt + i \notin DOMAIN k.rcv_buf
                         \/ Len(k.rcv_queue) + i >= RcvWnd})

MoveReady_X(k) ==
  LET n == ReadyCount(k)
  IN  [k EXCEPT !.rcv_queue = @ \o [i \in 1..n |-> k.rcv_buf[k.rcv_nxt + i - 1]],
                !.rcv_buf   = Without(@, k.rcv_nxt .. (k.rcv_nxt + n - 1))]

MoveReady(k) ==
  LET n == ReadyCount(k)
  IN  [k EXCEPT !.rcv_queue = @ \o [i \in 1..n |-> k.rcv_buf[k.rcv_nxt + i - 1]],
                !.rcv_buf   = Without(@, k.rcv_nxt .. (k.rcv_nxt + n - 1)),
                !.rcv_nxt   = @ + n]

(* ikcp_peeksize: the whole message is there; PeekCount is the number of   *)
(* its fragments and PeekSize its length.                                  *)
CanPeek_X(k) == k.rcv_queue # <<>>

CanPeek(k) == k.rcv_queue # <<>> /\ Len(k.rcv_queue) >= Head(k.rcv_queue).frg + 1

PeekCount(k) ==
  Min({i \in 1..Len(k.rcv_queue) : k.rcv_queue[i].frg = 0} \cup {Len(k.rcv_queue)})

PeekSize(k) ==
  LET size[i \in 0..PeekCount(k)] ==
        IF i = 0 THEN 0 ELSE size[i - 1] + k.rcv_queue[i].len
  IN  size[PeekCount(k)]

(* What ikcp_recv copies out, and the control block it leaves: the message *)
(* is gone, the window is refilled and, when the window had been closed    *)
(* and is not any more, the peer will be told.                             *)
RecvMessage(k) == SubSeq(k.rcv_queue, 1, PeekCount(k))

ikcp_recv(k) ==
  LET popped  == [k EXCEPT !.rcv_queue = SubSeq(@, PeekCount(k) + 1, Len(@))]
      moved   == MoveReady(popped)
      recover == Len(k.rcv_queue) >= RcvWnd
  IN  IF recover /\ Len(moved.rcv_queue) < RcvWnd
      THEN [moved EXCEPT !.probe = @ \cup {"ASK_TELL"}]
      ELSE moved

-----------------------------------------------------------------------------
(* The parts of ikcp_input.  *)
ikcp_shrink_buf(k) ==
  [k EXCEPT !.snd_una = IF DOMAIN k.snd_buf = {} THEN k.snd_nxt
                                                 ELSE Min(DOMAIN k.snd_buf)]

ikcp_parse_una_X(k, una) ==
  [k EXCEPT !.snd_buf = Without(@, {sn \in DOMAIN @ : sn <= una})]

ikcp_parse_una(k, una) ==
  [k EXCEPT !.snd_buf = Without(@, {sn \in DOMAIN @ : sn < una})]

ikcp_parse_ack(k, acks) ==
  [k EXCEPT !.snd_buf =
     Without(@, {sn \in acks : k.snd_una <= sn /\ sn < k.snd_nxt})]

(* ikcp_input, all but the pushes of the datagram: the peer's window, its  *)
(* una, the acknowledgements, and the request to tell the window.          *)
ikcp_input_X(k, d) ==
  LET una  == [ikcp_parse_una([k EXCEPT !.rmt_wnd = d.wnd], d.una)
                 EXCEPT !.snd_una = d.una]
  IN  [ikcp_parse_ack(una, d.acks) EXCEPT
         !.probe = IF "WASK" \in d.ctl THEN {"ASK_TELL"} ELSE @]

ikcp_input(k, d) ==
  LET una  == ikcp_shrink_buf(ikcp_parse_una([k EXCEPT !.rmt_wnd = d.wnd], d.una))
      acks == ikcp_shrink_buf(ikcp_parse_ack(una, d.acks))
  IN  IF "WASK" \in d.ctl
      THEN [acks EXCEPT !.probe = @ \cup {"ASK_TELL"}]
      ELSE acks

(* ikcp_parse_data: outside the window and repeated segments are dropped. *)
ikcp_parse_data(k, sn, seg) ==
  IF sn >= k.rcv_nxt + RcvWnd \/ sn < k.rcv_nxt
  THEN k
  ELSE MoveReady(
         [k EXCEPT !.rcv_buf =
            [s \in DOMAIN @ \cup {sn} |-> IF s \in DOMAIN @ THEN @[s] ELSE seg]])

(* ikcp_input, one push: everything below the end of the window is         *)
(* acknowledged, only what has not been moved to rcv_queue yet is kept.    *)
ikcp_input_push(k, sn, seg) ==
  IF sn >= k.rcv_nxt + RcvWnd
  THEN k
  ELSE LET acked == [k EXCEPT !.acklist = Append(@, sn)]
       IN  IF sn >= k.rcv_nxt THEN ikcp_parse_data(acked, sn, seg) ELSE acked

-----------------------------------------------------------------------------
(* ikcp_flush, in the order of the code. *)
ikcp_wnd_unused_X(k) == RcvWnd - Len(k.rcv_queue) - 1

ikcp_wnd_unused(k) ==
  IF Len(k.rcv_queue) < RcvWnd THEN RcvWnd - Len(k.rcv_queue) ELSE 0

(* The probe timer runs while the peer's window is closed.  The window     *)
(* commands: WASK when it has expired, WINS when the peer asked or must    *)
(* know.                                                                   *)
CanProbe(k) == k.rmt_wnd = 0 /\ k.probe_wait

FlushCtl_X(k, probeDue) == IF "ASK_TELL" \in k.probe THEN {"WINS"} ELSE {}

FlushCtl(k, probeDue) ==
  (IF CanProbe(k) /\ probeDue THEN {"WASK"} ELSE {})
  \cup (IF "ASK_TELL" \in k.probe THEN {"WINS"} ELSE {})

(* From snd_queue to snd_buf as long as the window allows. *)
FlushCount_X(k) ==
  LET cwnd == IF SndWnd < k.rmt_wnd THEN SndWnd ELSE k.rmt_wnd
  IN  IF k.snd_nxt <= k.snd_una + cwnd
      THEN Min({Len(k.snd_queue), k.snd_una + cwnd - k.snd_nxt + 1})
      ELSE 0

FlushCount(k) ==
  LET cwnd == IF SndWnd < k.rmt_wnd THEN SndWnd ELSE k.rmt_wnd
  IN  IF k.snd_nxt < k.snd_una + cwnd
      THEN Min({Len(k.snd_queue), k.snd_una + cwnd - k.snd_nxt})
      ELSE 0

FillSndBuf(k) ==
  LET n == FlushCount(k)
  IN  [k EXCEPT
         !.snd_queue = SubSeq(@, n + 1, Len(@)),
         !.snd_buf   = [sn \in DOMAIN @ \cup k.snd_nxt .. (k.snd_nxt + n - 1) |->
                          IF sn \in DOMAIN @ THEN @[sn]
                          ELSE k.snd_queue[sn - k.snd_nxt + 1]],
         !.snd_nxt   = @ + n]

(* The data loop: a segment goes out for the first time, or again because  *)
(* it is due.                                                              *)
NeedSend_X(k, filled, due) == DOMAIN filled.snd_buf \ DOMAIN k.snd_buf

NeedSend(k, filled, due) == (DOMAIN filled.snd_buf \ DOMAIN k.snd_buf) \cup due

(* The calls of ikcp_output.  The segments of a flush are encoded one      *)
(* after the other: acknowledgements, window commands, pushes.  Sizes      *)
(* gives their sizes in that order and Slot the place of a push; a segment *)
(* that does not fit in what is left of the buffer starts a new datagram,  *)
(* and Fill gives each segment its datagram.                               *)
Slot(k, ctl, pushed, sn) ==
  Len(k.acklist) + Cardinality(ctl) + Cardinality({s \in pushed : s <= sn})

Sizes(k, ctl, buf, pushed) ==
  [i \in 1 .. (Len(k.acklist) + Cardinality(ctl) + Cardinality(pushed)) |->
     IF i <= Len(k.acklist) + Cardinality(ctl)
     THEN Overhead
     ELSE Overhead + buf[CHOOSE sn \in pushed : Slot(k, ctl, pushed, sn) = i].len]

Fill(size) ==
  LET f[i \in 0 .. Len(size)] ==
        IF i = 0 THEN [dg |-> 1, used |-> 0]
        ELSE IF f[i - 1].used + size[i] > Mtu
             THEN [dg |-> f[i - 1].dg + 1, used |-> size[i]]
             ELSE [dg |-> f[i - 1].dg, used |-> f[i - 1].used + size[i]]
  IN  [i \in 1 .. Len(size) |-> f[i].dg]

Datagrams(k, ctl, buf, pushed, dg) ==
  LET nack == Len(k.acklist)
      CtlSlot(c) == IF c = "WASK" THEN nack + 1 ELSE nack + Cardinality(ctl)
  IN  {[una  |-> k.rcv_nxt,
        wnd  |-> ikcp_wnd_unused(k),
        acks |-> {k.acklist[i] : i \in {j \in 1..nack : dg[j] = d}},
        ctl  |-> {c \in ctl : dg[CtlSlot(c)] = d},
        push |-> [sn \in {s \in pushed : dg[Slot(k, ctl, pushed, s)] = d} |->
                    buf[sn]]]
       : d \in {dg[i] : i \in DOMAIN dg}}

(* What ikcp_flush sends and the control block it leaves, from the control *)
(* block k and from `filled', the same with snd_buf filled.  (The          *)
(* singletons only make TLC evaluate an argument once.)                    *)
FlushOutput(k, filled, due, probeDue) ==
  LET buf    == filled.snd_buf
      ctl    == FlushCtl(k, probeDue)
      pushed == NeedSend(k, filled, due)
  IN  UNION {Datagrams(k, ctl, buf, pushed, dg) :
               dg \in {Fill(size) : size \in {Sizes(k, ctl, buf, pushed)}}}

ikcp_flush(k, filled) ==
  [filled EXCEPT !.acklist = <<>>, !.probe = {}, !.probe_wait = (k.rmt_wnd = 0)]
=============================================================================
