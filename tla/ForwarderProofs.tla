--------------------------- MODULE ForwarderProofs --------------------------
(***************************************************************************)
(* What the coroutines of module Forwarder do to a forwarder, for every    *)
(* forwarder: the lemmas that the theorems about the server and the client *)
(* rest on.                                                                *)
(***************************************************************************)
EXTENDS Forwarder, TLAPS

(* A forwarder whose data coroutines have been spawned: isRunning_ tells   *)
(* the state of both sockets, and none of the coroutines has ended while   *)
(* it is set.                                                              *)
Engaged(f) ==
  /\ f \in Fwd /\ f.mem = "live" /\ f.kcp
  /\ f.udp = f.flags.running /\ f.tcp = f.flags.running
  /\ f.recv # "off" /\ f.upd # "off" /\ f.feed # "off"
  /\ (\E c \in {f.recv, f.upd, f.feed, f.idle} : c = "done") => ~f.flags.running

(* A forwarder of the server that waits for its TCP connection. *)
Connecting(f) ==
  /\ f \in Fwd /\ f.mem = "live" /\ f.kcp
  /\ f.udp /\ f.tcp /\ f.start = "connect"
  /\ f.recv = "off" /\ f.upd = "off" /\ f.feed = "off" /\ f.idle = "off"

(* No forwarder. *)
Vacant(f) ==
  /\ f \in Fwd /\ f.mem # "live" /\ ~f.udp /\ ~f.tcp
  /\ f.start = "off" /\ f.recv = "off" /\ f.upd = "off" /\ f.feed = "off" /\ f.idle = "off"

-----------------------------------------------------------------------------
LEMMA NoFwdVacant == Vacant(NoFwd)
BY DEF Vacant, NoFwd, Fwd, Flags

LEMMA DestructVacant ==
  ASSUME NEW f
  PROVE  Vacant(Destruct(f)) /\ Destruct(f).mem = "freed"
BY DEF Vacant, Destruct, NoFwd, Fwd, Flags

LEMMA DestructorOutcome ==
  ASSUME NEW f \in Fwd
  PROVE  DestructorFails(f) \in {"running", "release", "no"}
BY DEF DestructorFails, Fwd, Flags

(* The destructor of a forwarder whose coroutines have all ended. *)
LEMMA DestructorQuiet ==
  ASSUME NEW f, Engaged(f), Unowned(f)
  PROVE  DestructorFails(f) = "no"
<1>1. f.recv = "done" /\ ~f.flags.running
  BY DEF Engaged, Unowned
<1> QED BY <1>1 DEF DestructorFails, Engaged

LEMMA ConstructType ==
  ASSUME NEW junk \in Flags, NEW f, f = Construct(junk)
  PROVE  /\ f \in Fwd /\ f.mem = "live" /\ Unowned(f)
         /\ f.start = "off" /\ f.recv = "off" /\ f.upd = "off" /\ f.feed = "off"
         /\ f.idle = "off"
BY DEF Construct, NoFwd, Fwd, Flags, Unowned

LEMMA CreateKcpEffect ==
  ASSUME NEW f \in Fwd
  PROVE  /\ CreateKcp(f) \in Fwd /\ CreateKcp(f).kcp
         /\ CreateKcp(f).mem = f.mem /\ CreateKcp(f).udp = f.udp /\ CreateKcp(f).tcp = f.tcp
         /\ CreateKcp(f).start = f.start /\ CreateKcp(f).recv = f.recv
         /\ CreateKcp(f).upd = f.upd /\ CreateKcp(f).feed = f.feed
         /\ CreateKcp(f).idle = f.idle
BY DEF CreateKcp, Fwd, Flags

(* Stop *)
LEMMA StopEffect ==
  ASSUME NEW f \in Fwd
  PROVE  /\ Stop(f) \in Fwd /\ ~Stop(f).flags.running /\ ~Stop(f).udp /\ ~Stop(f).tcp
         /\ Stop(f).mem = f.mem /\ Stop(f).kcp = f.kcp /\ Stop(f).start = f.start
         /\ Stop(f).recv = f.recv /\ Stop(f).upd = f.upd /\ Stop(f).feed = f.feed
         /\ Stop(f).idle = f.idle
BY DEF Stop, Fwd, Flags

(* The loop around ikcp_recv. *)
LEMMA RecvLoopEffect ==
  ASSUME NEW f \in Fwd, NEW more \in BOOLEAN
  PROVE  /\ RecvLoop(f, more) \in Fwd
         /\ RecvLoop(f, more) = [f EXCEPT !.upd = RecvLoop(f, more).upd]
         /\ RecvLoop(f, more).upd \in {"timer", "write", "bad"}
BY DEF RecvLoop, Fwd, Flags

-----------------------------------------------------------------------------
(* Start of the server: it waits for the connection, or nothing owns it. *)
LEMMA StartEffect ==
  ASSUME NEW junk \in Flags, NEW opens \in BOOLEAN,
         NEW g, g = OnUdpData(Start(Construct(junk), opens))
  PROVE  g \in Fwd /\ (Unowned(g) \/ Connecting(g))
<1> DEFINE f == Construct(junk)
           s == IF opens THEN "connect" ELSE "done"
           h == [f EXCEPT !.udp = TRUE, !.tcp = opens, !.start = s]
           m == CreateKcp(h)
<1>1. /\ f \in Fwd /\ f.mem = "live" /\ f.recv = "off" /\ f.upd = "off"
      /\ f.feed = "off" /\ f.idle = "off"
  BY ConstructType
<1>2. g = [m EXCEPT !.flags.alive = TRUE]
  BY DEF OnUdpData, Start
<1>3. s \in {"connect", "done"}
  OBVIOUS
<1> HIDE DEF f, s
<1>4. /\ h \in Fwd /\ h.mem = "live" /\ h.udp /\ h.tcp = opens /\ h.start = s
      /\ h.recv = "off" /\ h.upd = "off" /\ h.feed = "off" /\ h.idle = "off"
  BY <1>1, <1>3 DEF Fwd
<1> HIDE DEF h
<1>5. /\ m \in Fwd /\ m.mem = "live" /\ m.udp /\ m.tcp = opens /\ m.start = s /\ m.kcp
      /\ m.recv = "off" /\ m.upd = "off" /\ m.feed = "off" /\ m.idle = "off"
  BY <1>4, CreateKcpEffect
<1> HIDE DEF m
<1>6. /\ g \in Fwd /\ g.mem = "live" /\ g.udp /\ g.tcp = opens /\ g.start = s /\ g.kcp
      /\ g.recv = "off" /\ g.upd = "off" /\ g.feed = "off" /\ g.idle = "off"
  BY <1>2, <1>5, ZenonT(90) DEF Fwd, Flags
<1> QED BY <1>6 DEF s, Unowned, Connecting

LEMMA ConnectedEffect ==
  ASSUME NEW f, Connecting(f), NEW ok \in BOOLEAN, NEW more \in BOOLEAN,
         NEW g, g = Connected(f, ok, more)
  PROVE  /\ g \in Fwd
         /\ Unowned(g) \/ (Engaged(g) /\ g.start = "done" /\ g.idle # "off")
<1>1. CASE ok
  <2> DEFINE h == [f EXCEPT !.flags.running = TRUE, !.start = "done",
                            !.recv = "read", !.feed = "read", !.idle = "timer"]
  <2>1. /\ h \in Fwd /\ h.mem = "live" /\ h.kcp /\ h.udp /\ h.tcp /\ h.flags.running
        /\ h.start = "done" /\ h.recv = "read" /\ h.feed = "read" /\ h.idle = "timer"
    BY DEF Connecting, Fwd, Flags
  <2>2. g = RecvLoop(h, more)
    BY <1>1 DEF Connected
  <2> HIDE DEF h
  <2>3. g \in Fwd /\ g.upd \in {"timer", "write", "bad"} /\ g = [h EXCEPT !.upd = g.upd]
    BY <2>1, <2>2, RecvLoopEffect
  <2> QED BY <2>1, <2>3 DEF Engaged, Fwd, Flags
<1>2. CASE ~ok
  BY <1>2 DEF Connecting, Connected, Fwd, Flags, Unowned
<1> QED BY <1>1, <1>2

LEMMA ClientStartEffect ==
  ASSUME NEW junk \in Flags, NEW g, g = ClientStart(Construct(junk))
  PROVE  Engaged(g) /\ g.start = "off" /\ g.idle = "off"
<1> DEFINE f == Construct(junk)
           m == CreateKcp(f)
           h == [m EXCEPT !.udp = TRUE, !.tcp = TRUE, !.flags.running = TRUE,
                          !.recv = "read", !.feed = "read"]
<1>1. f \in Fwd /\ f.mem = "live" /\ f.start = "off" /\ f.idle = "off"
  BY ConstructType
<1>2. g = RecvLoop(h, FALSE)
  BY DEF ClientStart
<1> HIDE DEF f
<1>3. m \in Fwd /\ m.mem = "live" /\ m.start = "off" /\ m.idle = "off" /\ m.kcp
  BY <1>1, CreateKcpEffect
<1> HIDE DEF m
<1>4. /\ h \in Fwd /\ h.mem = "live" /\ h.kcp /\ h.udp /\ h.tcp /\ h.flags.running
      /\ h.start = "off" /\ h.recv = "read" /\ h.feed = "read" /\ h.idle = "off"
  BY <1>3 DEF Fwd, Flags
<1> HIDE DEF h
<1>5. g \in Fwd /\ g.upd \in {"timer", "write", "bad"} /\ g = [h EXCEPT !.upd = g.upd]
  BY <1>2, <1>4, RecvLoopEffect
<1> QED BY <1>4, <1>5 DEF Engaged, Fwd, Flags

(* What a coroutine leaves: a forwarder of the same kind. *)
Goes(f, g) == Engaged(g) /\ g.start = f.start /\ (g.idle = "off" <=> f.idle = "off")

LEMMA OnUdpDataEffect ==
  ASSUME NEW f
  PROVE  /\ Engaged(f) => Goes(f, OnUdpData(f))
         /\ Connecting(f) => Connecting(OnUdpData(f))
BY DEF OnUdpData, Goes, Engaged, Connecting, Fwd, Flags

LEMMA TcpReceivedEffect ==
  ASSUME NEW f, Engaged(f), f.recv = "read", NEW res \in Results
  PROVE  Goes(f, TcpReceived(f, res))
<1>1. CASE res = "error"
  BY <1>1 DEF TcpReceived, Stop, Goes, Engaged, Fwd, Flags
<1>2. CASE res = "again"
  BY <1>2 DEF TcpReceived, Goes, Engaged, Fwd, Flags
<1>3. CASE res = "ok"
  BY <1>3 DEF TcpReceived, Goes, Engaged, Fwd, Flags
<1> QED BY <1>1, <1>2, <1>3 DEF Results

LEMMA UdpReceivedEffect ==
  ASSUME NEW f, Engaged(f), f.feed = "read", NEW res \in Results
  PROVE  Goes(f, UdpReceived(f, res))
<1>1. CASE res = "error"
  BY <1>1, ZenonT(90) DEF UdpReceived, Stop, Goes, Engaged, Fwd, Flags
<1>2. CASE res = "again"
  BY <1>2 DEF UdpReceived, Goes, Engaged, Fwd, Flags
<1>3. CASE res = "ok"
  BY <1>3 DEF UdpReceived, Goes, Engaged, Fwd, Flags
<1> QED BY <1>1, <1>2, <1>3 DEF Results

LEMMA LoopEffect ==
  ASSUME NEW f, Engaged(f), f.upd # "done", NEW more \in BOOLEAN
  PROVE  Goes(f, RecvLoop(f, more))
BY DEF RecvLoop, Goes, Engaged, Fwd, Flags

LEMMA WroteEffect ==
  ASSUME NEW f, Engaged(f), f.upd \in {"write", "bad"}, NEW res \in Results,
         NEW more \in BOOLEAN
  PROVE  Goes(f, Wrote(f, res, more))
<1>1. CASE res = "ok"
  BY <1>1, LoopEffect DEF Wrote
<1>2. CASE res = "error"
  BY <1>2 DEF Wrote, Stop, Goes, Engaged, Fwd, Flags
<1>3. CASE res = "again"
  BY <1>3 DEF Wrote, Goes, Engaged, Fwd, Flags
<1> QED BY <1>1, <1>2, <1>3 DEF Results

LEMMA RetryEffect ==
  ASSUME NEW f, Engaged(f), f.upd = "retry"
  PROVE  Goes(f, Retry(f))
BY LoopEffect DEF Retry

LEMMA UpdatedEffect ==
  ASSUME NEW f, Engaged(f), f.upd = "timer", NEW more \in BOOLEAN
  PROVE  Goes(f, Updated(f, more))
<1>1. CASE f.flags.running
  BY <1>1, LoopEffect DEF Updated
<1>2. CASE ~f.flags.running
  BY <1>2 DEF Updated, Goes, Engaged, Fwd, Flags
<1> QED BY <1>1, <1>2

LEMMA InactiveEffect ==
  ASSUME NEW f, Engaged(f), f.idle = "timer"
  PROVE  Goes(f, Inactive(f))
BY DEF Inactive, Stop, Goes, Engaged, Fwd, Flags
=============================================================================
