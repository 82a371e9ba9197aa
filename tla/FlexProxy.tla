------------------------------ MODULE FlexProxy -----------------------------
(***************************************************************************)
(* One TCP client, its ClientSideForwarder, the FlexServer and the TCP     *)
(* server: the life cycles of Forwarder composed with the control blocks   *)
(* of Ikcp.  The server knows the client by its UDP address only: while    *)
(* the client has one forwarder with one control block, the server may     *)
(* stop its own (the TCP server closes, or nothing arrives for 5 s), and   *)
(* the next datagram makes a successor with a fresh control block and      *)
(* another TCP connection.  `gen' counts these connections.                *)
(*                                                                         *)
(* As in FlexServer a step runs from one await to the next, and the kernel *)
(* gives a datagram to the connected socket of the forwarder when it is    *)
(* open, otherwise to the service socket; what either has queued is still  *)
(* in net.  Sockets can be opened here, and uninitialised flags are zero:  *)
(* FlexServer has those failures.                                          *)
(***************************************************************************)
EXTENDS Ikcp, Forwarder

CONSTANTS
  Client, Server,   \* the two sides
  MaxUp, MaxDown,   \* bounds: the bytes the TCP client and each server connection write
  MaxGen,           \* bound: the server's forwarders for this client
  MaxDue,           \* bound: the segments one flush sends again
  MaxAcks,          \* bound: the pending acknowledgements
  NetCap,           \* bound: the datagrams in transit to one side
  Again,            \* whether a delivered datagram may be delivered again
  Closes            \* the sides whose TCP peer may close

Sides == {Client, Server}
Other(e) == IF e = Client THEN Server ELSE Client

ASSUME ProxyAssumption ==
  /\ Client # Server
  /\ {MaxUp, MaxDown, MaxGen, MaxDue, MaxAcks, NetCap} \subseteq Nat
  /\ Again \subseteq BOOLEAN
  /\ Closes \subseteq Sides
  /\ FragCount(1) < WndRcv   \* ikcp_send, whose result is ignored, takes a byte

VARIABLES
  fw,      \* fw[e]: the life of the forwarder of side e
  kcp,     \* kcp[e]: its control block
  net,     \* net[e]: the datagrams in transit to side e
  gen,     \* the number of the server's current (or last) forwarder
  up,      \* history: what was read from the TCP client
  down,    \* history: down[g]: what was read from the g-th server connection
  gotUp,   \* history: gotUp[g]: what was handed to the g-th server connection
  gotDown  \* history: what was handed to the TCP client

hist == <<up, down, gotUp, gotDown>>
vars == <<fw, kcp, net, gen, hist>>

-----------------------------------------------------------------------------
Junk == [running |-> FALSE, alive |-> FALSE, wild |-> FALSE]

Init ==
  /\ fw = [e \in Sides |-> IF e = Client THEN ClientStart(Construct(Junk)) ELSE NoFwd]
  /\ kcp = [e \in Sides |-> ikcp_create]
  /\ net = [e \in Sides |-> {}]
  /\ gen = 0
  /\ up = <<>> /\ down = <<>> /\ gotUp = <<>> /\ gotDown = <<>>

(* The forwarder of e has become f; when nothing owns it, it is destroyed  *)
(* (and, at the server, leaves the map).                                   *)
Becomes(e, f) == fw' = [fw EXCEPT ![e] = IF Unowned(f) THEN Destruct(f) ELSE f]

(* The streams: the bytes of server connection g are marked by g. *)
Base(e) == IF e = Client THEN 0 ELSE gen * (MaxDown + 1)
Stream(e) == IF e = Client THEN up ELSE down[gen]
Bound(e) == IF e = Client THEN MaxUp ELSE MaxDown

(* ikcp_input of a whole datagram: its pushes follow in the order of their *)
(* sequence numbers.                                                       *)
InputAll(k, d) ==
  LET end == Max({0} \cup {sn + 1 : sn \in DOMAIN d.push})
      parsed[n \in 0..end] ==
        IF n = 0 THEN ikcp_input(k, d)
        ELSE IF n - 1 \in DOMAIN d.push
             THEN ikcp_input_push(parsed[n - 1], n - 1, d.push[n - 1])
             ELSE parsed[n - 1]
  IN  parsed[end]

-----------------------------------------------------------------------------
(* tcp to kcp: one byte arrives, in a message of its own. *)
Send(e) ==
  /\ fw[e].recv = "read" /\ fw[e].tcp
  /\ Len(Stream(e)) < Bound(e)
  /\ kcp' = [kcp EXCEPT ![e] = ikcp_send(@, Base(e) + Len(Stream(e)), 1)]
  /\ IF e = Client
     THEN up' = up \o Fragments(Base(e) + Len(up), 1) /\ UNCHANGED down
     ELSE down' = [down EXCEPT ![gen] = @ \o Fragments(Base(e) + Len(@), 1)] /\ UNCHANGED up
  /\ Becomes(e, TcpReceived(fw[e], "ok"))
  /\ UNCHANGED <<net, gen, gotUp, gotDown>>

(* tcp to kcp: the TCP peer has closed, or the forwarder was stopped. *)
TcpEnd(e) ==
  /\ fw[e].recv = "read" /\ (fw[e].tcp => e \in Closes)
  /\ Becomes(e, TcpReceived(fw[e], "error"))
  /\ UNCHANGED <<kcp, net, gen, hist>>

(* kcp feed: the forwarder was stopped. *)
UdpEnd(e) ==
  /\ fw[e].feed = "read" /\ ~fw[e].udp
  /\ Becomes(e, UdpReceived(fw[e], "error"))
  /\ UNCHANGED <<kcp, net, gen, hist>>

-----------------------------------------------------------------------------
(* The update coroutine at ikcp_recv, with the control block k; f gives    *)
(* the forwarder from whether there is a message.  A message is handed to  *)
(* TCP unless the socket is closed.                                        *)
Reads(e, k, f) ==
  LET msg == IF CanPeek(k) /\ fw[e].tcp THEN RecvMessage(k) ELSE <<>>
  IN  /\ Becomes(e, f[CanPeek(k)])
      /\ kcp' = [kcp EXCEPT ![e] = IF CanPeek(k) THEN ikcp_recv(k) ELSE k]
      /\ IF e = Client
         THEN gotDown' = gotDown \o msg /\ UNCHANGED gotUp
         ELSE gotUp' = [gotUp EXCEPT ![gen] = @ \o msg] /\ UNCHANGED gotDown
      /\ UNCHANGED <<gen, up, down>>

(* ikcp_update and the first ikcp_recv.  Datagrams are lost at any time,   *)
(* but none of the new ones unless `lossy'.                                *)
Flush(e, due, probeDue, lossy, f) ==
  LET filled == FillSndBuf(kcp[e])
      out    == FlushOutput(kcp[e], filled, due, probeDue)
      all    == net[Other(e)] \cup out
  IN  /\ Cardinality(due) <= MaxDue
      /\ \E t \in SUBSET all :
           /\ Cardinality(t) <= NetCap
           /\ lossy \/ out \subseteq t
           /\ net' = [net EXCEPT ![Other(e)] = t]
      /\ Reads(e, ikcp_flush(kcp[e], filled), f)

(* The start coroutine: the connection to the TCP server is there, and the *)
(* update coroutine runs for the first time; or it has failed.             *)
Connect(due, probeDue, lossy) ==
  /\ fw[Server].start = "connect"
  /\ Flush(Server, due, probeDue, lossy, [more \in BOOLEAN |-> Connected(fw[Server], TRUE, more)])

ConnectFails ==
  /\ fw[Server].start = "connect"
  /\ Server \in Closes
  /\ Becomes(Server, Connected(fw[Server], FALSE, FALSE))
  /\ UNCHANGED <<kcp, net, gen, hist>>

(* kcp to tcp: after the 10 ms timer. *)
Update(e, due, probeDue, lossy) ==
  /\ fw[e].upd = "timer" /\ fw[e].flags.running
  /\ Flush(e, due, probeDue, lossy, [more \in BOOLEAN |-> Updated(fw[e], more)])

UpdateEnd(e) ==
  /\ fw[e].upd = "timer" /\ ~fw[e].flags.running
  /\ Becomes(e, Updated(fw[e], FALSE))
  /\ UNCHANGED <<kcp, net, gen, hist>>

(* kcp to tcp: after a write that went well, or did not. *)
WriteDone(e) ==
  /\ fw[e].upd = "write"
  /\ Reads(e, kcp[e], [more \in BOOLEAN |-> Wrote(fw[e], "ok", more)])
  /\ UNCHANGED net

WriteFails(e) ==
  /\ fw[e].upd \in {"bad", "write"} /\ (fw[e].upd = "write" /\ fw[e].tcp => e \in Closes)
  /\ Becomes(e, Wrote(fw[e], "error", FALSE))
  /\ UNCHANGED <<kcp, net, gen, hist>>

-----------------------------------------------------------------------------
(* active timer, of the server: five more seconds with a datagram, and     *)
(* without one.                                                            *)
StillActive ==
  /\ fw[Server].idle = "timer" /\ fw[Server].flags.alive
  /\ Becomes(Server, Inactive(fw[Server]))
  /\ UNCHANGED <<kcp, net, gen, hist>>

IdleStop ==
  /\ fw[Server].idle = "timer" /\ ~fw[Server].flags.alive
  /\ Becomes(Server, Inactive(fw[Server]))
  /\ UNCHANGED <<kcp, net, gen, hist>>

-----------------------------------------------------------------------------
(* A datagram leaves the network, perhaps not for the last time. *)
Taken(e, d, again) == net' = IF again THEN net ELSE [net EXCEPT ![e] = @ \ {d}]

HasRoom(e, d) == Len(kcp[e].acklist) + Cardinality(DOMAIN d.push) <= MaxAcks

(* kcp feed: a datagram on the socket of a forwarder. *)
Input(e, d, again) ==
  /\ fw[e].feed = "read" /\ fw[e].udp /\ HasRoom(e, d)
  /\ kcp' = [kcp EXCEPT ![e] = InputAll(@, d)]
  /\ Becomes(e, UdpReceived(fw[e], "ok"))
  /\ Taken(e, d, again)
  /\ UNCHANGED <<gen, hist>>

(* The accept coroutine: a datagram of a client that has no forwarder. *)
AcceptNew_X(d, again) ==
  /\ fw[Server].mem # "live" /\ gen < MaxGen
  /\ gen' = gen + 1
  /\ kcp' = [kcp EXCEPT ![Server] = InputAll(@, d)]
  /\ Becomes(Server, OnUdpData(Start(Construct(Junk), TRUE)))
  /\ down' = Append(down, <<>>) /\ gotUp' = Append(gotUp, <<>>)
  /\ Taken(Server, d, again)
  /\ UNCHANGED <<up, gotDown>>

AcceptNew(d, again) ==
  /\ fw[Server].mem # "live" /\ gen < MaxGen
  /\ gen' = gen + 1
  /\ kcp' = [kcp EXCEPT ![Server] = InputAll(ikcp_create, d)]
  /\ Becomes(Server, OnUdpData(Start(Construct(Junk), TRUE)))
  /\ down' = Append(down, <<>>) /\ gotUp' = Append(gotUp, <<>>)
  /\ Taken(Server, d, again)
  /\ UNCHANGED <<up, gotDown>>

(* The same, and the client has a forwarder: it was stopped, or is being   *)
(* connected and the datagram had come to the service socket before it had *)
(* a socket of its own (afterwards such a datagram goes the way of Input). *)
(* What is in transit does not tell which datagrams had, so that any may.  *)
(* The acklist of a stopped forwarder will not be flushed any more and is  *)
(* not kept.                                                               *)
AcceptKnown(d, again) ==
  /\ fw[Server].mem = "live"
  /\ \/ ~fw[Server].udp
     \/ fw[Server].start = "connect" /\ HasRoom(Server, d)
  /\ LET k == InputAll(kcp[Server], d)
     IN  kcp' = [kcp EXCEPT ![Server] =
                   [k EXCEPT !.acklist = IF fw[Server].udp THEN @ ELSE <<>>]]
  /\ Becomes(Server, OnUdpData(fw[Server]))
  /\ Taken(Server, d, again)
  /\ UNCHANGED <<gen, hist>>

(* The client's forwarder has closed its socket: the datagram is refused,  *)
(* and the forwarder of the server may learn of it by an error.            *)
Refused(d, told) ==
  /\ ~fw[Client].udp
  /\ Taken(Client, d, FALSE)
  /\ IF told /\ fw[Server].feed = "read" /\ fw[Server].udp
     THEN Becomes(Server, UdpReceived(fw[Server], "error"))
     ELSE UNCHANGED fw
  /\ UNCHANGED <<kcp, gen, hist>>

-----------------------------------------------------------------------------
Updates(e) ==
  \E due \in SUBSET DOMAIN kcp[e].snd_buf, probeDue \in {FALSE, CanProbe(kcp[e])} :
    Update(e, due, probeDue, TRUE) \/ (e = Server /\ Connect(due, probeDue, TRUE))

Arrives(e, again) ==
  \E d \in net[e] :
    \/ Input(e, d, again)
    \/ e = Server /\ (AcceptNew(d, again) \/ AcceptKnown(d, again))
    \/ e = Client /\ \E told \in BOOLEAN : Refused(d, told)

Steps(e) == Updates(e) \/ UpdateEnd(e) \/ WriteDone(e) \/ WriteFails(e) \/ TcpEnd(e) \/ UdpEnd(e)

Data == \E e \in Sides : Send(e) \/ Steps(e) \/ \E again \in Again : Arrives(e, again)

Next == Data \/ ConnectFails \/ StillActive \/ IdleStop

Spec == Init /\ [][Next]_vars

(* On a network that delivers, five seconds without a datagram mean that   *)
(* there was none to send.                                                 *)
Quiet ==
  /\ net[Server] = {}
  /\ fw[Client].flags.running =>
       /\ kcp[Client].snd_queue = <<>> /\ DOMAIN kcp[Client].snd_buf = {}
       /\ kcp[Client].acklist = <<>> /\ kcp[Client].probe = {}

QuietNext == Data \/ ConnectFails \/ StillActive \/ (Quiet /\ IdleStop)

QuietSpec == Init /\ [][QuietNext]_vars

-----------------------------------------------------------------------------
(* What a connection to the TCP server is given is a prefix of what the    *)
(* TCP client wrote, whichever forwarder of the server it belongs to: a    *)
(* successor starts at rcv_nxt = 0 and hands out nothing from the middle   *)
(* of the stream.                                                          *)
UpIsPrefix ==
  \A g \in 1..gen :
    Len(gotUp[g]) <= Len(up) /\ \A n \in 1..Len(gotUp[g]) : gotUp[g][n] = up[n]

(* The n-th segment the TCP client is given is the n-th that some          *)
(* connection wrote: late, repeated and mixed datagrams of several         *)
(* forwarders never shift the stream.                                      *)
PositionKept ==
  \A n \in 1..Len(gotDown) :
    \E g \in 1..gen : n <= Len(down[g]) /\ gotDown[n] = down[g][n]

(***************************************************************************)
(* Why both hold.  Control blocks and datagrams of one connection meet     *)
(* those of another, and a sequence number then means a place in another   *)
(* stream; but it is always that place.  A segment s with the number n is  *)
(* AtPlace when it is the one after the first n of a stream of `from', the *)
(* streams that one side has ever been given.  A datagram is of one        *)
(* stream, a receiver may mix several.                                     *)
(***************************************************************************)
Streams(e) == IF e = Client THEN {up} ELSE {down[g] : g \in 1..gen}

AtPlace(from, n, s) == \E st \in from : n < Len(st) /\ s = st[n + 1]

Sender(k, st) ==
  /\ k.snd_nxt + Len(k.snd_queue) = Len(st)
  /\ \A i \in 1..Len(k.snd_queue) : k.snd_queue[i] = st[k.snd_nxt + i]
  /\ \A sn \in DOMAIN k.snd_buf : AtPlace({st}, sn, k.snd_buf[sn])

Handed(g, from) == \A i \in 1..Len(g) : AtPlace(from, i - 1, g[i])

(* Once the TCP socket is closed, what is read is not handed out any more. *)
Receiver(k, g, open, from) ==
  /\ \A sn \in DOMAIN k.rcv_buf : AtPlace(from, sn, k.rcv_buf[sn])
  /\ open => /\ k.rcv_nxt = Len(g) + Len(k.rcv_queue)
             /\ \A i \in 1..Len(k.rcv_queue) :
                  AtPlace(from, Len(g) + i - 1, k.rcv_queue[i])

Pushes(d, from) ==
  \E st \in from : \A sn \in DOMAIN d.push : AtPlace({st}, sn, d.push[sn])

Got(e) == IF e = Client THEN gotDown ELSE gotUp[gen]

Begun(e) == e = Client \/ gen > 0

PlacesInv ==
  /\ gen = 0 => fw[Server] = NoFwd
  /\ \A e \in Sides : Begun(e) =>
       /\ Sender(kcp[e], Stream(e))
       /\ Receiver(kcp[e], Got(e), fw[e].tcp, Streams(Other(e)))
  /\ Handed(gotDown, Streams(Server))
  /\ \A g \in 1..gen : Handed(gotUp[g], Streams(Client))
  /\ \A e \in Sides : \A d \in net[e] : Pushes(d, Streams(Other(e)))

-----------------------------------------------------------------------------
(* The TCP client talks to one TCP connection: what it is given was not    *)
(* put together from several.                                              *)
OneConnection ==
  \E g \in 1..MaxGen : \A n \in 1..Len(gotDown) :
    gotDown[n].off \div (MaxDown + 1) = g

-----------------------------------------------------------------------------
(***************************************************************************)
(* Liveness.  Timers expire, what a closed socket still owes is completed, *)
(* TCP peers read, the TCP server answers a connection, and the network    *)
(* does not lose or hold back everything for ever.  No TCP peer need write *)
(* or close.                                                               *)
(***************************************************************************)
Through(e) ==
  LET due == DOMAIN kcp[e].snd_buf
  IN  Update(e, due, TRUE, FALSE) \/ (e = Server /\ Connect(due, TRUE, FALSE))

Ending(e) ==
  \/ UpdateEnd(e)
  \/ UdpEnd(e)
  \/ ~fw[e].tcp /\ (TcpEnd(e) \/ WriteFails(e))

LiveSpec ==
  /\ QuietSpec
  /\ \A e \in Sides : /\ SF_vars(Through(e))
                      /\ SF_vars(Arrives(e, FALSE))
                      /\ WF_vars(WriteDone(e))
                      /\ WF_vars(Ending(e))
  /\ WF_vars(StillActive \/ (Quiet /\ IdleStop))

Gone(e) == fw[e].mem # "live"

(* A forwarder of the server does not outlive its client: when the TCP     *)
(* client has closed, the server's forwarder goes too, although nobody     *)
(* tells it and late datagrams may even make another one.                  *)
ServerEnds == <>[](Gone(Client) => Gone(Server))

(* What the TCP client writes is given to the TCP server, unless a         *)
(* forwarder has been stopped.                                             *)
Stopped == gen > 1 \/ (gen = 1 /\ ~fw[Server].udp) \/ ~fw[Client].udp

FlowsUntilStopped ==
  \A n \in 1..MaxUp :
    Len(up) >= n ~> Stopped \/ \E g \in 1..gen : Len(gotUp[g]) >= n
=============================================================================
