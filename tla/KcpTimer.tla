------------------------------ MODULE KcpTimer ------------------------------
(***************************************************************************)
(* The clock of the KCP sender of ikcp.c: ikcp_update and what ikcp_flush  *)
(* and ikcp_input do with time, driven by the update coroutine of a        *)
(* forwarder.  Every time in the control block is a word of the size of    *)
(* IUINT32 that wraps around; `clock' is the real time, which does not.    *)
(*                                                                         *)
(* Left out: what the segments hold, the windows and rcv_buf, which are in *)
(* Ikcp and KcpLink.  How many segments a flush takes from snd_queue, and  *)
(* what the peer acknowledges of the transmissions that have reached it,   *)
(* is a free choice here.  Both ends call ikcp_nodelay(kcp, 2, 10, 2, 1),  *)
(* so that rx_minrto is IKCP_RTO_NDL, rtomin is 0, a time-out adds half of *)
(* rx_rto, and cwnd is not used.                                           *)
(***************************************************************************)
EXTENDS Integers, Sequences, FiniteSets, FiniteSetsExt

CONSTANTS
  Word,                     \* 2^32
  Interval,                 \* kcp->interval, and the timer of the update coroutine
  SlapLimit,                \* the 10000 of ikcp_update
  RtoDef, RtoMin, RtoMax,   \* IKCP_RTO_DEF, IKCP_RTO_NDL and IKCP_RTO_MAX
  FastResend, FastLimit,    \* kcp->fastresend and kcp->fastlimit
  ProbeInit, ProbeLimit,    \* IKCP_PROBE_INIT and IKCP_PROBE_LIMIT
  Starts,                   \* the real times at which the first update may be
  Late,                     \* how late, in ms, an update may be
  MaxAge,                   \* how old an acknowledged transmission may be
  MaxClock,                 \* bound: the real time of the last update
  MaxSegs,                  \* bound: the segments ever sent
  MaxXmit                   \* bound: the transmissions of one segment

Half == Word \div 2

MaxLate == Max(Late \cup {0})

(* With the values of ikcp.c the words are exact for 24 days: the longest  *)
(* time an update may be late (the forwarder awaits a TCP write), the age  *)
(* of a datagram, and the rto of a segment after MaxXmit time-outs.        *)
ASSUME TimerAssumption ==
  /\ Word \in Nat /\ Half \in Nat /\ Word = 2 * Half
  /\ Interval \in Nat \ {0}
  /\ SlapLimit \in Nat /\ SlapLimit > Interval
  /\ {RtoDef, RtoMin, RtoMax} \subseteq Nat \ {0}
  /\ RtoMin <= RtoDef /\ RtoDef <= RtoMax
  /\ FastResend \in Nat \ {0} /\ FastLimit \in Nat \ {0}
  /\ ProbeInit \in Nat \ {0} /\ ProbeLimit \in Nat /\ ProbeInit <= ProbeLimit
  /\ Starts \subseteq Nat
  /\ Late \subseteq Nat /\ MaxLate \in Nat /\ \A d \in Late : d <= MaxLate
  /\ MaxAge \in Nat /\ MaxClock \in Nat /\ MaxSegs \in Nat /\ MaxXmit \in Nat
  /\ RtoMax * (MaxXmit + 1) + ProbeLimit + Interval + MaxLate + MaxAge < Half

VARIABLES
  k,         \* the control block
  clock,     \* the real time of the last update
  maxack,    \* in ikcp_input: the highest sn acknowledged, -1 for none; else Idle
  echo,      \* the transmissions the peer may acknowledge, with their real times
  lastFlush, \* history: the real time of the last flush
  out,       \* history: what that flush sent, and why
  sentAt,    \* history: when each segment of snd_buf was last sent
  fast,      \* history: how often each was sent early
  asked      \* history: when the probe timer was started or last asked

hist == <<lastFlush, out, sentAt, fast, asked>>
vars == <<k, clock, maxack, echo, hist>>

-----------------------------------------------------------------------------
(* IUINT32 addition, and _itimediff: the difference as a signed word. *)
Plus_X(a, b) == a + b

Plus(a, b) == (a + b) % Word

itimediff_X(later, earlier) == later - earlier

itimediff(later, earlier) ==
  LET d == (later - earlier) % Word IN IF d < Half THEN d ELSE d - Word

Idle == -2

(* A segment of snd_buf, and ikcp_create followed by ikcp_nodelay. *)
Seg == [ts : Nat, resendts : Nat, rto : Nat, fastack : Nat, xmit : Nat]

ikcp_create ==
  [updated |-> FALSE, current |-> 0, ts_flush |-> Interval, snd_una |-> 0,
   snd_nxt |-> 0, snd_buf |-> <<>>, rx_srtt |-> 0, rx_rttval |-> 0,
   rx_rto |-> RtoDef, rmt_open |-> TRUE, probe_wait |-> 0, ts_probe |-> 0]

Init ==
  /\ k = ikcp_create
  /\ clock \in Starts
  /\ maxack = Idle
  /\ echo = {}
  /\ lastFlush = clock
  /\ out = <<>>
  /\ sentAt = <<>>
  /\ fast = <<>>
  /\ asked = clock

-----------------------------------------------------------------------------
(* ikcp_update: ts_flush after a call at `current', and whether it flushes. *)
SlapBase(c, current) ==
  IF ~c.updated \/ itimediff(current, c.ts_flush) >= SlapLimit
                \/ itimediff(current, c.ts_flush) < -SlapLimit
  THEN current ELSE c.ts_flush

Flushes(c, current) == itimediff(current, SlapBase(c, current)) >= 0

NextFlush_X(c, current) == Plus(SlapBase(c, current), Interval + 1)

NextFlush(c, current) ==
  LET base == SlapBase(c, current)
      next == Plus(base, Interval)
  IN  IF ~Flushes(c, current) THEN base
      ELSE IF itimediff(current, next) >= 0 THEN Plus(current, Interval)
      ELSE next

(* ikcp_flush, the probe timer: it runs while the peer's window is closed. *)
Asks(c) ==
  ~c.rmt_open /\ c.probe_wait # 0 /\ itimediff(c.current, c.ts_probe) >= 0

ProbeWait_X(c) ==
  CASE c.rmt_open                       -> 0
    [] ~c.rmt_open /\ c.probe_wait = 0  -> ProbeInit
    [] ~c.rmt_open /\ c.probe_wait # 0  ->
         IF Asks(c) THEN c.probe_wait + c.probe_wait \div 2 ELSE c.probe_wait

ProbeWait(c) ==
  CASE c.rmt_open                       -> 0
    [] ~c.rmt_open /\ c.probe_wait = 0  -> ProbeInit
    [] ~c.rmt_open /\ c.probe_wait # 0  ->
         IF Asks(c)
         THEN LET more == c.probe_wait + c.probe_wait \div 2
              IN  IF more > ProbeLimit THEN ProbeLimit ELSE more
         ELSE c.probe_wait

ProbeTs(c) ==
  CASE c.rmt_open                                -> 0
    [] ~c.rmt_open /\ (c.probe_wait = 0 \/ Asks(c))  -> Plus(c.current, ProbeWait(c))
    [] ~c.rmt_open /\ c.probe_wait # 0 /\ ~Asks(c)   -> c.ts_probe

(* ikcp_flush, the data loop: whether a segment is sent, why, and what     *)
(* becomes of it.                                                          *)
Kind_X(c, s) ==
  CASE s.xmit = 0 -> "first"
    [] s.xmit # 0 /\ itimediff(c.current, s.resendts) >= 0 -> "timeout"
    [] s.xmit # 0 /\ itimediff(c.current, s.resendts) < 0
         /\ s.fastack >= FastResend -> "fast"
    [] OTHER -> "none"

Kind(c, s) ==
  CASE s.xmit = 0 -> "first"
    [] s.xmit # 0 /\ itimediff(c.current, s.resendts) >= 0 -> "timeout"
    [] s.xmit # 0 /\ itimediff(c.current, s.resendts) < 0
         /\ s.fastack >= FastResend /\ s.xmit <= FastLimit -> "fast"
    [] OTHER -> "none"

Resent_X(c, s) ==
  CASE Kind(c, s) = "first" ->
         [s EXCEPT !.xmit = 1, !.ts = c.current, !.rto = c.rx_rto,
                   !.resendts = Plus(c.current, c.rx_rto)]
    [] Kind(c, s) \in {"timeout", "fast"} ->
         [s EXCEPT !.xmit = @ + 1, !.ts = c.current, !.fastack = 0,
                   !.resendts = Plus(s.resendts, s.rto)]
    [] Kind(c, s) = "none" -> s

Resent(c, s) ==
  CASE Kind(c, s) = "first" ->
         [s EXCEPT !.xmit = 1, !.ts = c.current, !.rto = c.rx_rto,
                   !.resendts = Plus(c.current, c.rx_rto)]
    [] Kind(c, s) = "timeout" ->
         [s EXCEPT !.xmit = @ + 1, !.ts = c.current, !.rto = @ + c.rx_rto \div 2,
                   !.resendts = Plus(c.current, s.rto + c.rx_rto \div 2)]
    [] Kind(c, s) = "fast" ->
         [s EXCEPT !.xmit = @ + 1, !.ts = c.current, !.fastack = 0,
                   !.resendts = Plus(c.current, s.rto)]
    [] Kind(c, s) = "none" -> s

NewSeg(c) == [ts |-> c.current, resendts |-> c.current, rto |-> c.rx_rto,
              fastack |-> 0, xmit |-> 0]

(* snd_buf with n more segments from snd_queue. *)
Filled(c, n) ==
  [sn \in DOMAIN c.snd_buf \cup c.snd_nxt .. (c.snd_nxt + n - 1) |->
     IF sn \in DOMAIN c.snd_buf THEN c.snd_buf[sn] ELSE NewSeg(c)]

ikcp_flush(c, n) ==
  [c EXCEPT !.snd_buf    = [sn \in DOMAIN Filled(c, n) |-> Resent(c, Filled(c, n)[sn])],
            !.snd_nxt    = @ + n,
            !.probe_wait = ProbeWait(c),
            !.ts_probe   = ProbeTs(c)]

(* The segments that this flush sends. *)
Sends(c, n) == {sn \in DOMAIN Filled(c, n) : Kind(c, Filled(c, n)[sn]) # "none"}

-----------------------------------------------------------------------------
(* The update coroutine calls ikcp_update: its timer is set to Interval    *)
(* after the time it passed to the call before, and may be `late'.  Before *)
(* the first call there is no timer.                                       *)
Update(n, late) ==
  LET t == IF k.updated THEN clock + Interval + late ELSE clock
      c == [k EXCEPT !.updated = TRUE, !.current = t % Word,
                     !.ts_flush = NextFlush(k, t % Word)]
  IN  /\ maxack = Idle
      /\ t <= MaxClock
      /\ c.snd_nxt + n <= MaxSegs /\ (n > 0 => k.rmt_open)
      /\ \A sn \in DOMAIN k.snd_buf : k.snd_buf[sn].xmit < MaxXmit
      /\ clock' = t
      /\ IF Flushes(k, t % Word)
         THEN /\ k' = ikcp_flush(c, n)
              /\ lastFlush' = t
              /\ out' = [sn \in Sends(c, n) |-> Kind(c, Filled(c, n)[sn])]
              /\ sentAt' = [sn \in DOMAIN Filled(c, n) |->
                              IF sn \in Sends(c, n) THEN t ELSE sentAt[sn]]
              /\ fast' = [sn \in DOMAIN Filled(c, n) |->
                            IF sn \notin DOMAIN fast THEN 0
                            ELSE IF Kind(c, Filled(c, n)[sn]) = "fast"
                            THEN fast[sn] + 1 ELSE fast[sn]]
              /\ asked' = IF c.rmt_open \/ c.probe_wait = 0 \/ Asks(c) THEN t ELSE asked
              /\ echo' = {e \in echo : e.at + MaxAge >= t}
                           \cup [sn : Sends(c, n), at : {t}]
         ELSE /\ k' = c
              /\ echo' = {e \in echo : e.at + MaxAge >= t}
              /\ UNCHANGED hist
      /\ UNCHANGED maxack

-----------------------------------------------------------------------------
(* ikcp_shrink_buf *)
Shrunk(c, S) ==
  LET buf == [sn \in DOMAIN c.snd_buf \ S |-> c.snd_buf[sn]]
  IN  [c EXCEPT !.snd_buf = buf,
                !.snd_una = IF DOMAIN buf = {} THEN c.snd_nxt ELSE Min(DOMAIN buf)]

(* ikcp_update_ack *)
AbsDiff(a, b) == IF a < b THEN b - a ELSE a - b

Rto_X(srtt, rttval) ==
  srtt + (IF Interval >= 4 * rttval THEN Interval ELSE 4 * rttval)

Rto(srtt, rttval) ==
  LET rto == srtt + (IF Interval >= 4 * rttval THEN Interval ELSE 4 * rttval)
  IN  IF rto < RtoMin THEN RtoMin ELSE IF rto > RtoMax THEN RtoMax ELSE rto

ikcp_update_ack(c, rtt) ==
  LET rttval == IF c.rx_srtt = 0 THEN rtt \div 2
                ELSE (3 * c.rx_rttval + AbsDiff(rtt, c.rx_srtt)) \div 4
      mean   == (7 * c.rx_srtt + rtt) \div 8
      srtt   == IF c.rx_srtt = 0 THEN rtt ELSE IF mean < 1 THEN 1 ELSE mean
  IN  [c EXCEPT !.rx_srtt = srtt, !.rx_rttval = rttval, !.rx_rto = Rto(srtt, rttval)]

(* ikcp_parse_fastack.  fastack is only compared with fastresend, so that  *)
(* it need not count any further.                                          *)
ikcp_parse_fastack(c, sn) ==
  IF sn < c.snd_una \/ sn >= c.snd_nxt
  THEN c
  ELSE [c EXCEPT !.snd_buf =
          [s \in DOMAIN c.snd_buf |->
             IF s < sn
             THEN [c.snd_buf[s] EXCEPT !.fastack = Min({@ + 1, FastResend})]
             ELSE c.snd_buf[s]]]

(* ikcp_input, the header of the first segment: the window and una, which  *)
(* all segments of a datagram share.                                       *)
Input(una, open) ==
  /\ maxack = Idle
  /\ k' = Shrunk([k EXCEPT !.rmt_open = open], {sn \in DOMAIN k.snd_buf : sn < una})
  /\ maxack' = -1
  /\ UNCHANGED <<clock, echo, hist>>

(* ikcp_input, one acknowledgement: it carries the ts of the transmission  *)
(* that it answers, and may be duplicated.                                 *)
InputAck(e) ==
  /\ maxack # Idle
  /\ LET rtt == itimediff(k.current, e.at % Word)
         c   == IF rtt >= 0 THEN ikcp_update_ack(k, rtt) ELSE k
     IN  k' = Shrunk(c, {sn \in {e.sn} : c.snd_una <= sn /\ sn < c.snd_nxt})
  /\ maxack' = IF e.sn > maxack THEN e.sn ELSE maxack
  /\ UNCHANGED <<clock, echo, hist>>

(* ikcp_input, after the last segment. *)
InputEnd ==
  /\ maxack # Idle
  /\ k' = IF maxack >= 0 THEN ikcp_parse_fastack(k, maxack) ELSE k
  /\ maxack' = Idle
  /\ UNCHANGED <<clock, echo, hist>>

Next ==
  \/ \E n \in 0 .. MaxSegs, late \in Late : Update(n, late)
  \/ \E una \in k.snd_una .. k.snd_nxt, open \in BOOLEAN : Input(una, open)
  \/ \E e \in echo : InputAck(e)
  \/ InputEnd

Spec == Init /\ [][Next]_vars

-----------------------------------------------------------------------------
(* The control block and its history are well formed: snd_buf lies between *)
(* snd_una and snd_nxt, all times are words.                               *)
TypeOK ==
  /\ k.updated \in BOOLEAN /\ k.rmt_open \in BOOLEAN
  /\ {k.current, k.ts_flush, k.ts_probe} \subseteq 0 .. (Word - 1)
  /\ k.snd_nxt \in 0 .. MaxSegs /\ k.snd_una \in 0 .. k.snd_nxt
  /\ DOMAIN k.snd_buf \subseteq k.snd_una .. (k.snd_nxt - 1)
  /\ \A sn \in DOMAIN k.snd_buf : k.snd_buf[sn] \in Seg
  /\ {k.rx_srtt, k.rx_rttval, k.probe_wait, clock, lastFlush, asked} \subseteq Nat
  /\ maxack \in Idle .. (MaxSegs - 1)
  /\ DOMAIN k.snd_buf \subseteq DOMAIN sentAt \cap DOMAIN fast

(* Every call of ikcp_update flushes: the 10 ms timer of the coroutine is  *)
(* never a tick ahead of ts_flush, however late earlier calls were,        *)
(* whether or not ts_flush was reset after a long write, and across the    *)
(* wrap of the clock.  Were it ahead, everything that waits for a flush    *)
(* would wait for two periods.                                             *)
AlwaysFlushes == lastFlush = clock

(* At every call a segment that is not acknowledged has been sent less     *)
(* than its rto ago.                                                       *)
Punctual ==
  \A sn \in DOMAIN k.snd_buf : clock - sentAt[sn] < k.snd_buf[sn].rto

(* "max times to trigger fastack": no segment is sent early more often.    *)
FastLimited == \A sn \in DOMAIN fast : fast[sn] <= FastLimit

(* rx_rto stays between the minimum and the maximum, and no segment waits  *)
(* for less than the minimum or longer than its time-outs explain.         *)
RtoInRange ==
  /\ k.rx_rto \in RtoMin .. RtoMax
  /\ \A sn \in DOMAIN k.snd_buf :
       k.snd_buf[sn].rto \in RtoMin .. (RtoMax * k.snd_buf[sn].xmit)

(* While the peer's window is closed the probe timer runs, and it asks for *)
(* the window at least every IKCP_PROBE_LIMIT: a lost IKCP_CMD_WINS cannot *)
(* stop the stream for good.                                               *)
ProbePunctual == ~k.rmt_open => clock - asked < ProbeLimit

(* The words tell the time: what the control block does with its wrapping  *)
(* clock is what Retransmission does with the real time.  Before the first *)
(* call there is no earlier one to keep a distance from.                   *)
Timing == INSTANCE Retransmission WITH
  Period <- Interval,
  now    <- IF k.updated THEN clock ELSE clock - Interval,
  due    <- [sn \in DOMAIN k.snd_buf |->
               clock + itimediff(k.snd_buf[sn].resendts, k.current)],
  out    <- out

RetransmitsInTime == Timing!Spec
=============================================================================
