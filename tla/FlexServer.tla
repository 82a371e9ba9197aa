----------------------------- MODULE FlexServer -----------------------------
(***************************************************************************)
(* The server (FlexServer/FlexServer.cpp): the accept coroutine on the     *)
(* service socket, the map from client addresses to forwarders, and the    *)
(* forwarders with their coroutines.  One thread runs them all: a step is  *)
(* what one coroutine does between two awaits, together with the           *)
(* destruction of the forwarder when it was the last to own it.            *)
(*                                                                         *)
(* The kernel gives a datagram to the socket that is connected to its      *)
(* sender when there is one, and otherwise to the service socket, where it *)
(* is queued: the accept coroutine may read it when a forwarder for its    *)
(* sender has long been connected.                                         *)
(***************************************************************************)
EXTENDS Forwarder

CONSTANTS
  Addrs,        \* the UDP endpoints of clients
  MaxFwds,      \* bound: the forwarders ever constructed
  MaxData,      \* bound: the datagrams that arrive
  StartFails,   \* whether a UDP socket may fail to open, bind or connect
  OpenFails,    \* whether a TCP socket may fail to open
  ConnectFails, \* whether the TCP server may refuse or time out
  ReceiveFails, \* whether async_receive_from may fail for good
  None          \* no entry in the map

Ids == 1..MaxFwds

ASSUME ServerAssumption ==
  /\ MaxFwds \in Nat
  /\ MaxData \in Nat
  /\ StartFails \in BOOLEAN
  /\ OpenFails \in BOOLEAN
  /\ ConnectFails \in BOOLEAN
  /\ ReceiveFails \in BOOLEAN
  /\ None \notin Ids

VARIABLES
  accepting,      \* the accept coroutine awaits async_receive_from
  queued,         \* queued[a]: the datagrams from a on the service socket
  forwarderMap,   \* forwarderMap_, None where there is no entry
  fwd,            \* fwd[i]: the i-th forwarder that was constructed
  addr,           \* addr[i]: the remoteEndpoint it was constructed for
  made,           \* the number of forwarders constructed (gIdCounter)
  data,           \* the number of datagrams that have arrived
  failed          \* which assertion has stopped the process, or "no"

vars == <<accepting, queued, forwarderMap, fwd, addr, made, data, failed>>

Init ==
  /\ accepting = TRUE
  /\ queued = [a \in Addrs |-> 0]
  /\ forwarderMap = [a \in Addrs |-> None]
  /\ fwd = [i \in Ids |-> NoFwd]
  /\ addr = [i \in Ids |-> None]
  /\ made = 0
  /\ data = 0
  /\ failed = "no"

-----------------------------------------------------------------------------
(* forwarderMap_.find *)
Absent_X(a) ==
  forwarderMap[a] \notin {i \in Ids : fwd[i].flags.running}

Absent(a) == forwarderMap[a] = None

(* The deleter of the shared_ptr: the entry of its endpoint is erased,     *)
(* then the forwarder is destroyed.                                        *)
Erased_X(map, a) == map

Erased_Y(map, a) == [map EXCEPT ![a] = 0]

Erased(map, a) == [map EXCEPT ![a] = None]

(* Forwarder i has become f; it is destroyed when nothing owns it. *)
Becomes(i, a, map, f) ==
  IF Unowned(f)
  THEN /\ fwd' = [fwd EXCEPT ![i] = Destruct(f)]
       /\ forwarderMap' = Erased(map, a)
       /\ failed' = DestructorFails(f)
  ELSE /\ fwd' = [fwd EXCEPT ![i] = f]
       /\ forwarderMap' = map
       /\ UNCHANGED failed

(* A datagram from a arrives while no forwarder's socket is connected to   *)
(* a.                                                                      *)
ToService(a) ==
  /\ data < MaxData
  /\ \A i \in Ids : ~(fwd[i].udp /\ addr[i] = a)
  /\ data' = data + 1
  /\ queued' = [queued EXCEPT ![a] = @ + 1]
  /\ UNCHANGED <<accepting, forwarderMap, fwd, addr, made, failed>>

(* async_receive_from gives the accept coroutine a datagram from a. *)
ReceiveFrom(a) ==
  /\ accepting /\ queued[a] > 0
  /\ queued' = [queued EXCEPT ![a] = @ - 1]
  /\ UNCHANGED data

(* The accept coroutine: a datagram of an unknown address.  `starts' says  *)
(* whether Start succeeds; if not the accept coroutine returns.  Else the  *)
(* forwarder is put into the map (the assertion fails when it is there)    *)
(* and is given the datagram.                                              *)
AcceptNew(a, junk, starts, tcpOpens) ==
  /\ ReceiveFrom(a) /\ Absent(a)
  /\ made < MaxFwds
  /\ made' = made + 1
  /\ addr' = [addr EXCEPT ![made'] = a]
  /\ accepting' = starts
  /\ IF ~starts
     THEN Becomes(made', a, forwarderMap, Construct(junk))
     ELSE IF forwarderMap[a] # None
     THEN /\ failed' = "insert"
          /\ fwd' = [fwd EXCEPT ![made'] = Start(Construct(junk), tcpOpens)]
          /\ UNCHANGED forwarderMap
     ELSE Becomes(made', a, [forwarderMap EXCEPT ![a] = made'],
                  OnUdpData(Start(Construct(junk), tcpOpens)))

(* The accept coroutine: a datagram of a known address, whose forwarder    *)
(* was stopped or was connected after the datagram had arrived.  The       *)
(* weak_ptr in the map must not have expired.                              *)
AcceptKnown(a) ==
  /\ ReceiveFrom(a) /\ ~Absent(a)
  /\ LET i == forwarderMap[a]
     IN  /\ failed' = IF fwd[i].mem = "live" THEN "no" ELSE "expired"
         /\ fwd' = [fwd EXCEPT ![i] = OnUdpData(@)]
  /\ UNCHANGED <<accepting, forwarderMap, addr, made>>

(* The accept coroutine: an error other than try-again, which only loops   *)
(* (nothing cancels the operation).                                        *)
ReceiveError ==
  /\ accepting /\ ReceiveFails
  /\ failed' = "receive"
  /\ UNCHANGED <<accepting, queued, forwarderMap, fwd, addr, made, data>>

-----------------------------------------------------------------------------
(* A coroutine of forwarder i is resumed and leaves it as f. *)
Resume(i, f) ==
  /\ Becomes(i, addr[i], forwarderMap, f)
  /\ UNCHANGED <<accepting, queued, addr, made>>

Connect(i, ok, more) ==
  /\ fwd[i].start = "connect"
  /\ Resume(i, Connected(fwd[i], ok, more))
  /\ UNCHANGED data

TcpReceive(i, res) ==
  /\ fwd[i].recv = "read" /\ res \in Outcome(fwd[i].tcp)
  /\ Resume(i, TcpReceived(fwd[i], res))
  /\ UNCHANGED data

(* A datagram arrives on the connected socket or, as an error, the news    *)
(* that the client's port is closed.                                       *)
UdpReceive(i, res) ==
  /\ fwd[i].feed = "read" /\ res \in Outcome(fwd[i].udp)
  /\ IF res = "ok" THEN data < MaxData /\ data' = data + 1 ELSE data' = data
  /\ Resume(i, UdpReceived(fwd[i], res))

Write(i, res, more) ==
  /\ \/ fwd[i].upd = "write" /\ res \in Outcome(fwd[i].tcp)
     \/ fwd[i].upd = "bad" /\ res = "error"
  /\ Resume(i, Wrote(fwd[i], res, more))
  /\ UNCHANGED data

RetryTimer(i) ==
  /\ fwd[i].upd = "retry"
  /\ Resume(i, Retry(fwd[i]))
  /\ UNCHANGED data

UpdateTimer(i, more) ==
  /\ fwd[i].upd = "timer"
  /\ Resume(i, Updated(fwd[i], more))
  /\ UNCHANGED data

IdleTimer(i) ==
  /\ fwd[i].idle = "timer"
  /\ Resume(i, Inactive(fwd[i]))
  /\ UNCHANGED data

-----------------------------------------------------------------------------
Accept ==
  \/ \E a \in Addrs, junk \in Flags, starts \in {TRUE, ~StartFails},
        tcpOpens \in {TRUE, ~OpenFails} :
       AcceptNew(a, junk, starts, tcpOpens)
  \/ \E a \in Addrs : ToService(a) \/ AcceptKnown(a)
  \/ ReceiveError

Next ==
  /\ failed = "no"
  /\ \/ Accept
     \/ \E i \in Ids, more \in BOOLEAN :
          \/ \E ok \in {TRUE, ~ConnectFails} : Connect(i, ok, more)
          \/ \E res \in Results : Write(i, res, more)
          \/ UpdateTimer(i, more)
     \/ \E i \in Ids :
          \/ \E res \in Results : TcpReceive(i, res) \/ UdpReceive(i, res)
          \/ RetryTimer(i)
          \/ IdleTimer(i)

Spec == Init /\ [][Next]_vars

-----------------------------------------------------------------------------
(* Every forwarder is in a state its code can be in, and an entry of the   *)
(* map is one of the forwarders that were constructed, never a null        *)
(* weak_ptr.                                                               *)
TypeOK ==
  /\ accepting \in BOOLEAN
  /\ queued \in [Addrs -> Nat]
  /\ forwarderMap \in [Addrs -> Ids \cup {None}]
  /\ fwd \in [Ids -> Fwd]
  /\ addr \in [Ids -> Addrs \cup {None}]
  /\ made \in 0..MaxFwds
  /\ data \in 0..MaxData
  /\ failed \in {"no", "running", "release", "insert", "expired", "receive"}

(* forwarderMap_ "stores all the forwarders we have now": an entry always  *)
(* leads to a forwarder that exists and was made for that address, and     *)
(* every forwarder has its entry.  So a weak_ptr in the map never expires, *)
(* though coroutines of other forwarders release the owners, and no        *)
(* address ever has two forwarders, each eating part of its datagrams.     *)
MapExact ==
  failed = "no" =>
    \A a \in Addrs, i \in Ids :
      forwarderMap[a] = i <=> fwd[i].mem = "live" /\ addr[i] = a

(* The two assertions of the accept coroutine, on the insertion into the   *)
(* map and on the expired weak_ptr, never fail.                            *)
MapAsserts == failed \notin {"insert", "expired"}

(* isRunning_ tells the state of both sockets once the forwarder has been  *)
(* connected, whichever coroutine called Stop, and however often: a        *)
(* coroutine that goes on because isRunning_ is set never awaits a closed  *)
(* socket, and one that awaits an open socket is never forgotten.          *)
RunningIsOpen ==
  \A i \in Ids :
    fwd[i].idle # "off" /\ fwd[i].mem = "live"
      => fwd[i].udp = fwd[i].flags.running /\ fwd[i].tcp = fwd[i].flags.running

(* kcpCb_ exists before anything can call ikcp_send, ikcp_input or         *)
(* ikcp_update on it, though Start creates it after it has spawned the     *)
(* coroutine that spawns those which do.                                   *)
KcpReady ==
  \A i \in Ids :
    /\ fwd[i].recv = "read" \/ fwd[i].feed = "read" \/ fwd[i].upd # "off" => fwd[i].kcp
    /\ \A a \in Addrs : forwarderMap[a] = i => fwd[i].kcp

-----------------------------------------------------------------------------
(***************************************************************************)
(* Liveness.  The io_context resumes what can be resumed: a timer expires, *)
(* an operation on a closed socket completes, and the kernel ends every    *)
(* attempt to connect.  Nothing else is promised: the TCP server need      *)
(* neither read nor write.                                                 *)
(***************************************************************************)
Live(i) == fwd[i].mem = "live"

Timers(i) == RetryTimer(i) \/ (\E more \in BOOLEAN : UpdateTimer(i, more))

TcpClosed(i) == ~fwd[i].tcp /\ \E res \in Results : TcpReceive(i, res)
UdpClosed(i) == ~fwd[i].udp /\ \E res \in Results : UdpReceive(i, res)
WriteClosed(i) == ~fwd[i].tcp /\ \E res \in Results, more \in BOOLEAN : Write(i, res, more)

LiveSpec ==
  /\ Spec
  /\ \A i \in Ids :
       /\ WF_vars(failed = "no" /\ Timers(i))
       /\ WF_vars(failed = "no" /\ IdleTimer(i))
       /\ WF_vars(failed = "no" /\ TcpClosed(i))
       /\ WF_vars(failed = "no" /\ UdpClosed(i))
       /\ WF_vars(failed = "no" /\ WriteClosed(i))
       /\ WF_vars(failed = "no" /\ \E ok \in {TRUE, ~ConnectFails}, more \in BOOLEAN :
                                      Connect(i, ok, more))

(* A forwarder that was stopped by one of its coroutines is destroyed: the *)
(* others all notice, wherever they wait, and release it.                  *)
Reaped ==
  \A i \in Ids :
    (Live(i) /\ fwd[i].idle # "off" /\ ~fwd[i].flags.running) ~> ~Live(i) \/ failed # "no"

(* "The user is inactive for too long, close()": when no more datagrams    *)
(* come every forwarder is destroyed, even if its TCP server neither reads *)
(* nor closes and its update coroutine is stuck in a write.                *)
IdleReaped == <>[](failed # "no" \/ \A i \in Ids : ~Live(i))

-----------------------------------------------------------------------------
(* The destructor's assertion !isRunning_ never fails. *)
DestructorAssert == failed # "running"

(* A datagram of a new socket address gets a forwarder ("let's create a    *)
(* new forwarder for it"): the accept coroutine never ends.                *)
Serving == accepting
=============================================================================
