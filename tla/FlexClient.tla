----------------------------- MODULE FlexClient -----------------------------
(***************************************************************************)
(* The client (FlexClient/FlexClient.cpp): the accept coroutine on the TCP *)
(* acceptor, and a ClientSideForwarder for every connection.  One thread   *)
(* runs them all: a step is what one coroutine does between two awaits,    *)
(* together with the destruction of the forwarder when it was the last to  *)
(* own it.  There is no map: the coroutines alone own a forwarder.         *)
(***************************************************************************)
EXTENDS Forwarder

CONSTANTS
  MaxFwds,      \* bound: the connections ever accepted
  StartFails,   \* whether a UDP socket may fail to open or connect
  AcceptFails   \* whether async_accept may fail for good

Ids == 1..MaxFwds

ASSUME ClientAssumption ==
  /\ MaxFwds \in Nat
  /\ StartFails \in BOOLEAN
  /\ AcceptFails \in BOOLEAN

VARIABLES
  fwd,       \* fwd[i]: the forwarder of the i-th connection
  started,   \* the forwarders whose Start has succeeded
  made,      \* the number of forwarders constructed (gIdCounter)
  failed     \* which assertion has stopped the process, or "no"

vars == <<fwd, started, made, failed>>

Init ==
  /\ fwd = [i \in Ids |-> NoFwd]
  /\ started = {}
  /\ made = 0
  /\ failed = "no"

-----------------------------------------------------------------------------
(* Forwarder i has become f; it is destroyed when nothing owns it. *)
Becomes(i, f) ==
  IF Unowned(f)
  THEN /\ fwd' = [fwd EXCEPT ![i] = Destruct(f)]
       /\ failed' = DestructorFails(f)
  ELSE /\ fwd' = [fwd EXCEPT ![i] = f]
       /\ UNCHANGED failed

(* The accept coroutine: a connection.  What Start returns is not looked   *)
(* at: when it fails the shared_ptr of the coroutine was the only one.     *)
Accept(junk, starts) ==
  /\ made < MaxFwds
  /\ made' = made + 1
  /\ started' = IF starts THEN started \cup {made'} ELSE started
  /\ Becomes(made', IF starts THEN ClientStart(Construct(junk)) ELSE Construct(junk))

(* The accept coroutine: an error other than try-again, which only loops.  *)
AcceptError ==
  /\ AcceptFails
  /\ failed' = "accept"
  /\ UNCHANGED <<fwd, started, made>>

-----------------------------------------------------------------------------
(* A coroutine of forwarder i is resumed and leaves it as f. *)
Resume(i, f) ==
  /\ Becomes(i, f)
  /\ UNCHANGED <<started, made>>

TcpReceive(i, res) ==
  /\ fwd[i].recv = "read" /\ res \in Outcome(fwd[i].tcp)
  /\ Resume(i, TcpReceived(fwd[i], res))

UdpReceive(i, res) ==
  /\ fwd[i].feed = "read" /\ res \in Outcome(fwd[i].udp)
  /\ Resume(i, UdpReceived(fwd[i], res))

Write(i, res, more) ==
  /\ \/ fwd[i].upd = "write" /\ res \in Outcome(fwd[i].tcp)
     \/ fwd[i].upd = "bad" /\ res = "error"
  /\ Resume(i, Wrote(fwd[i], res, more))

RetryTimer(i) ==
  /\ fwd[i].upd = "retry"
  /\ Resume(i, Retry(fwd[i]))

UpdateTimer(i, more) ==
  /\ fwd[i].upd = "timer"
  /\ Resume(i, Updated(fwd[i], more))

-----------------------------------------------------------------------------
Next ==
  /\ failed = "no"
  /\ \/ \E junk \in Flags, starts \in {TRUE, ~StartFails} : Accept(junk, starts)
     \/ AcceptError
     \/ \E i \in Ids, more \in BOOLEAN :
          \/ \E res \in Results : Write(i, res, more)
          \/ UpdateTimer(i, more)
     \/ \E i \in Ids :
          \/ \E res \in Results : TcpReceive(i, res) \/ UdpReceive(i, res)
          \/ RetryTimer(i)

Spec == Init /\ [][Next]_vars

-----------------------------------------------------------------------------
(* isRunning_ tells the state of both sockets, whichever coroutine called  *)
(* Stop, and however often: a coroutine that goes on because isRunning_ is *)
(* set never awaits a closed socket.                                       *)
RunningIsOpen ==
  \A i \in Ids :
    fwd[i].mem = "live"
      => fwd[i].udp = fwd[i].flags.running /\ fwd[i].tcp = fwd[i].flags.running

(* The destructor of a forwarder that was started neither finds isRunning_ *)
(* set nor releases what is no control block: the last coroutine to let go *)
(* of it cannot have ended without somebody calling Stop.                  *)
EndsStopped ==
  [][\A i \in started : fwd[i].mem = "live" /\ fwd'[i].mem = "freed" => failed' = "no"]_vars

-----------------------------------------------------------------------------
(***************************************************************************)
(* Liveness: timers expire and operations on closed sockets complete.  The *)
(* TCP client need neither read nor write.                                 *)
(***************************************************************************)
Timers(i) == RetryTimer(i) \/ (\E more \in BOOLEAN : UpdateTimer(i, more))

TcpClosed(i) == ~fwd[i].tcp /\ \E res \in Results : TcpReceive(i, res)
UdpClosed(i) == ~fwd[i].udp /\ \E res \in Results : UdpReceive(i, res)
WriteClosed(i) == ~fwd[i].tcp /\ \E res \in Results, more \in BOOLEAN : Write(i, res, more)

LiveSpec ==
  /\ Spec
  /\ \A i \in Ids :
       /\ WF_vars(failed = "no" /\ Timers(i))
       /\ WF_vars(failed = "no" /\ TcpClosed(i))
       /\ WF_vars(failed = "no" /\ UdpClosed(i))
       /\ WF_vars(failed = "no" /\ WriteClosed(i))

(* A forwarder that was stopped by one of its coroutines is destroyed: the *)
(* others all notice, wherever they wait, and release it.                  *)
Reaped ==
  \A i \in Ids :
    (fwd[i].mem = "live" /\ ~fwd[i].flags.running) ~> fwd[i].mem # "live" \/ failed # "no"

=============================================================================
