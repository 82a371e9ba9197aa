------------------------------ MODULE Forwarder -----------------------------
(***************************************************************************)
(* The life of one Forwarder of the server (FlexServer/Forwarder.cpp) or   *)
(* of one ClientSideForwarder of the client, whose three data coroutines   *)
(* are the same and which has no start and no idle coroutine: its two      *)
(* sockets, its flags and its coroutines.  A forwarder is a record; every  *)
(* operator is what one coroutine does from the point where it is resumed  *)
(* to the point where it awaits again, and gives the record after.         *)
(*                                                                         *)
(* A coroutine is in one of these states:                                  *)
(*   "off"      not spawned                                                *)
(*   "connect"  awaits AsyncConnect                                        *)
(*   "read"     awaits async_receive                                       *)
(*   "write"    awaits AsyncWrite; "bad": the same, but the socket was     *)
(*              closed before the write began, so that it can only fail    *)
(*   "retry"    awaits the 2 ms timer before it writes again               *)
(*   "timer"    awaits the timer of its loop                               *)
(*   "done"     has completed and released its shared_ptr                  *)
(* What passes through KCP is in module KcpLink.                           *)
(***************************************************************************)
EXTENDS Naturals

Flags == [running : BOOLEAN,    \* isRunning_
          alive   : BOOLEAN,    \* isKcpAlive_
          wild    : BOOLEAN]    \* ikcp_release of this kcpCb_ would crash

Fwd == [mem : {"none", "live", "freed"}, flags : Flags,
        kcp : BOOLEAN,          \* kcpCb_ has been created
        udp : BOOLEAN,          \* udpSocket_ is open (and connected)
        tcp : BOOLEAN,          \* tcpSocket_ is open
        start : {"off", "connect", "done"},
        recv  : {"off", "read", "done"},
        upd   : {"off", "write", "bad", "retry", "timer", "done"},
        feed  : {"off", "read", "done"},
        idle  : {"off", "timer", "done"}]

NoFwd == [mem |-> "none", flags |-> [running |-> FALSE, alive |-> FALSE, wild |-> FALSE],
          kcp |-> FALSE, udp |-> FALSE, tcp |-> FALSE, start |-> "off",
          recv |-> "off", upd |-> "off", feed |-> "off", idle |-> "off"]

(* The results of an asynchronous operation. *)
Results == {"ok", "again", "error"}

(* The operation on an open socket may end in any way.  After close() it   *)
(* ends with an error, or with the success it already had.                 *)
Outcome(open) == IF open THEN Results ELSE {"ok", "error"}

-----------------------------------------------------------------------------
(* The constructor sets neither flag nor kcpCb_: `junk' is what was in the *)
(* memory.                                                                 *)
Construct(junk) == [NoFwd EXCEPT !.mem = "live", !.flags = junk]

(* Stop *)
Stop_X(f) == [f EXCEPT !.flags.running = FALSE, !.udp = FALSE]

Stop_Y(f) == [f EXCEPT !.udp = FALSE, !.tcp = FALSE]

Stop(f) == [f EXCEPT !.flags.running = FALSE, !.udp = FALSE, !.tcp = FALSE]

(* The end of Start: the control block is created. *)
CreateKcp(f) == [f EXCEPT !.kcp = TRUE, !.flags.wild = FALSE]

(* Start, once the UDP socket has been opened, bound and connected: the    *)
(* start coroutine runs until it awaits the connection or, when the TCP    *)
(* socket cannot be opened, to its end; the control block is created after *)
(* that.                                                                   *)
Start_X(f, tcpOpens) ==
  [f EXCEPT !.udp = TRUE, !.tcp = tcpOpens,
            !.start = IF tcpOpens THEN "connect" ELSE "done"]

Start(f, tcpOpens) ==
  CreateKcp([f EXCEPT !.udp = TRUE, !.tcp = tcpOpens,
                      !.start = IF tcpOpens THEN "connect" ELSE "done"])

(* OnUdpData: a datagram from the service socket. *)
OnUdpData(f) == [f EXCEPT !.flags.alive = TRUE]

-----------------------------------------------------------------------------
(* The update coroutine at the inner loop around ikcp_recv, when `more'    *)
(* says whether there is a message.                                        *)
RecvLoop(f, more) ==
  [f EXCEPT !.upd = IF ~more THEN "timer" ELSE IF f.tcp THEN "write" ELSE "bad"]

(* The start coroutine after AsyncConnect: the other four are spawned and  *)
(* run until they await.                                                   *)
Connected(f, ok, more) ==
  IF ok
  THEN RecvLoop([f EXCEPT !.flags.running = TRUE, !.start = "done",
                          !.recv = "read", !.feed = "read", !.idle = "timer"], more)
  ELSE [f EXCEPT !.start = "done"]

(* ClientSideForwarder::Start, once the UDP socket is open and connected:  *)
(* the control block is created before the three coroutines are spawned    *)
(* and run until they await.                                               *)
ClientStart(f) ==
  RecvLoop([CreateKcp(f) EXCEPT !.udp = TRUE, !.tcp = TRUE, !.flags.running = TRUE,
                                !.recv = "read", !.feed = "read"], FALSE)

(* tcp to kcp, after async_receive. *)
TcpReceived(f, res) ==
  IF res = "error"
  THEN [Stop(f) EXCEPT !.recv = "done"]
  ELSE [f EXCEPT !.recv = IF f.flags.running THEN "read" ELSE "done"]

(* kcp feed, after async_receive. *)
UdpReceived(f, res) ==
  CASE res = "error" -> [Stop(f) EXCEPT !.feed = "done"]
    [] res = "again" -> [f EXCEPT !.feed = IF f.flags.running THEN "read" ELSE "done"]
    [] res = "ok"    -> [f EXCEPT !.flags.alive = TRUE,
                                  !.feed = IF f.flags.running THEN "read" ELSE "done"]

(* kcp to tcp, after AsyncWrite, after the 2 ms and after the 10 ms timer. *)
(* isRunning_ is read at the top of the outer loop only.                   *)
Wrote(f, res, more) ==
  CASE res = "error" -> [Stop(f) EXCEPT !.upd = "done"]
    [] res = "again" -> [f EXCEPT !.upd = "retry"]
    [] res = "ok"    -> RecvLoop(f, more)

Retry(f) == RecvLoop(f, TRUE)

Updated(f, more) == IF f.flags.running THEN RecvLoop(f, more)
                                       ELSE [f EXCEPT !.upd = "done"]

(* active timer, after five seconds. *)
Inactive_X(f) ==
  IF f.flags.alive
  THEN [f EXCEPT !.idle = IF f.flags.running THEN "timer" ELSE "done"]
  ELSE [Stop(f) EXCEPT !.idle = "done"]

Inactive(f) ==
  IF f.flags.alive
  THEN [f EXCEPT !.flags.alive = FALSE,
                 !.idle = IF f.flags.running THEN "timer" ELSE "done"]
  ELSE [Stop(f) EXCEPT !.idle = "done"]

-----------------------------------------------------------------------------
(* The coroutines are the only owners of a started forwarder. *)
Unowned(f) == \A c \in {f.start, f.recv, f.upd, f.feed, f.idle} : c \in {"off", "done"}

(* The destructor: what stops the process there, if anything does (the     *)
(* assertion on isRunning_, then ikcp_release of what is no control        *)
(* block), and the memory it leaves.                                       *)
DestructorFails(f) ==
  CASE f.flags.running                               -> "running"
    [] ~f.flags.running /\ ~f.kcp /\ f.flags.wild     -> "release"
    [] ~f.flags.running /\ ~(~f.kcp /\ f.flags.wild)  -> "no"

Destruct(f) == [NoFwd EXCEPT !.mem = "freed"]
=============================================================================
