# FlexProxy: a TLA+ verification project

FlexProxy carries TCP connections over UDP. `FlexClient` accepts TCP
connections, gives each one a `ClientSideForwarder` and a UDP socket, and sends
the bytes through KCP (`ikcp.c`, a selective-repeat protocol on datagrams) to
`FlexServer`, which keeps one `Forwarder` per client UDP address and connects
it to the real TCP server. Both programs are one thread with an asio
`io_context`; everything concurrent is a C++20 coroutine, interrupted only
where it awaits. All paths below are under `src/FlexProxy/`.

Contents: [Inventory](#inventory) - [Modules](#modules) -
[Runs](#runs-and-what-they-show) - [Fairness](#fairness) -
[Proofs](#proofs) - [Findings](#findings) - [Limits](#what-is-not-modelled) -
[Plan](#plan)

## Inventory

| Component | State | Operations | What makes it correct |
|---|---|---|---|
| KCP control block, `FlexCommon/src/FlexCommon/ikcp.c` | `snd_queue`, `snd_buf`, `rcv_buf`, `rcv_queue`, `snd_una`, `snd_nxt`, `rcv_nxt`, `rmt_wnd`, `acklist`, `probe`, `probe_wait`; the clock (`current`, `ts_flush`, `rx_rto`, per segment `resendts`, `fastack`, `xmit`); `cwnd` | `ikcp_send`, `ikcp_recv`, `ikcp_input`, `ikcp_update` / `ikcp_flush`, `ikcp_wndsize`, `ikcp_nodelay`, `ikcp_create`, `ikcp_release` | each segment handed out once, in order, in whole messages; nothing acknowledged and lost; queues bounded by the window; a closed window reopens |
| Proxied connection, the data coroutines of `ClientSideForwarder.cpp` and `Forwarder.cpp` | the two control blocks, the datagrams in transit, whether the update coroutine is in a TCP write | read TCP -> `ikcp_send`; datagram -> `ikcp_input`; `ikcp_update`, then `ikcp_recv` -> TCP write until empty, then 10 ms timer | the TCP byte stream of one end comes out at the other |
| `Forwarder` (server) | `isRunning_`, `isKcpAlive_`, `kcpCb_`, two sockets, five coroutines that own it | constructor, `Start`, `OnUdpData`, `Stop`, destructor, the coroutine steps | sockets and flag agree; all coroutines end after `Stop`; idle ones are reaped; destruction is safe |
| `FlexServer` | `forwarderMap_` (weak pointers), the accept coroutine | one datagram on the service socket; the deleter of a forwarder | the map holds exactly the forwarders that exist; the accept coroutine goes on |
| `ClientSideForwarder` (life cycle) | as `Forwarder`, without the start and idle coroutines | as `Forwarder` | as `Forwarder` |
| `FlexClient` | TCP acceptor | the accept loop | every connection gets a forwarder |
| `Asio.h` | none | `AsyncWait`, `AsyncWrite`, `AsyncConnect`, `IsTryAgain` | errors are returned, not thrown |
| `AddressParser` | none | parse `host:port` | the port is in range or the address is refused |
| `MiscUtils` | none | `Encrypt` (its own inverse), `XorCheck` (compiled out), file helpers | |
| `Log`, `Time`, configuration, `main` | none | logging, start-up | |

Interactions. The coroutines of one forwarder share its control block, flags
and sockets. `ikcp_flush` calls the forwarder's `output` callback, which sends
a datagram at once. A new socket of the server binds the *same* UDP address as
the service socket and connects it to the client, so the kernel routes later
datagrams of this client to the forwarder and all others to the accept
coroutine. Forwarders are owned only by their coroutines; the last one to end
runs the deleter, which erases the map entry and then destroys the forwarder.

What is hard to test: any loss, repetition and reordering of datagrams against
every interleaving of three coroutines per end; the window at its limits and a
lost window update; stale `una`, `wnd` and acknowledgements; `Stop` called by
one coroutine while others wait anywhere; a forwarder destroyed before it ever
ran; the same address used by successive forwarders. `PROJECT.json` lists each
of these under `hazards` with its line and the properties aimed at it.

## Modules

| Module | Models | Lines of the code |
|---|---|---|
| `Ikcp` | the control block as a record, one operator per function of `ikcp.c` | `ikcp.c` 234-1283 |
| `KcpLink` | EXTENDS `Ikcp`: two ends with their coroutines, and the network | `ClientSideForwarder.cpp` 53-199, `Forwarder.cpp` 77-200 |
| `ReliableStream` | abstract: in each direction whole messages, once, in order | (what a connection promises) |
| `MCKcpLink` | the bounds of the `KcpLink` runs | |
| `IkcpProofs` | EXTENDS `Ikcp`: what each function does to a control block | |
| `KcpLinkProofs` | EXTENDS `KcpLink`, `IkcpProofs`: types, order, acknowledgements, the receive window, and that the link implements `ReliableStream` | |
| `KcpWindowProofs` | EXTENDS `KcpLinkProofs`: the send window, that nothing goes back, that no segment is beyond the window of its receiver, and that a full queue can be read | |
| `Forwarder` | the life of a server-side forwarder as a record, one operator per stretch of a coroutine between two awaits | `Forwarder.cpp` |
| `FlexServer` | EXTENDS `Forwarder`: accept coroutine, `forwarderMap_`, any number of forwarders | `FlexServer.cpp` 53-112 |
| `FlexClient` | EXTENDS `Forwarder`: the TCP accept coroutine and the client's forwarders | `FlexClient.cpp` 57-90, `ClientSideForwarder.cpp` |
| `KcpTimer` | the clock of a KCP sender, on words that wrap | `ikcp.c` 136-139, 543-631, 931-1171 |
| `Retransmission` | abstract: in real time, what is due is sent again at the first update after that, no sooner | (what the timers promise) |
| `KcpTimerProofs` | EXTENDS `KcpTimer`: the theorems about the clock | |
| `ForwarderProofs` | EXTENDS `Forwarder`: what each stretch of a coroutine does to a forwarder | |
| `FlexServerProofs` | EXTENDS `FlexServer`, `ForwarderProofs`: the theorems about the server | |
| `FlexClientProofs` | EXTENDS `FlexClient`, `ForwarderProofs`: the theorems about the client | |
| `FlexProxy` | EXTENDS `Ikcp`, `Forwarder`: one client and the server, both life cycles with both control blocks | both forwarders, `FlexServer.cpp` 67-108 |
| `FlexProxyProofs` | EXTENDS `FlexProxy`, `IkcpProofs`, `ForwarderProofs`: the streams across restarts of the server's forwarder | |

`PROJECT.json` maps every definition to its lines.

### `Ikcp`

`snd_buf` and `rcv_buf`, sorted lists without duplicates in the code, are
functions from sequence numbers to segments. A segment is `[frg, off, len]`:
which bytes of the stream it holds, and how many fragments of its message
follow. Sizes matter (fragmentation by `mss`, filling a datagram up to `mtu`),
contents do not. A datagram is the record of what one `ikcp_output` carries;
`Sizes`, `Fill` and `Datagrams` give the cut into datagrams exactly as
`ikcp_flush` makes it (acknowledgements, then `WASK`, then `WINS`, then pushes
in order, a new datagram whenever the next segment would exceed `mtu`). All
segments of one flush carry the same `una` and `wnd`, so these are fields of the
datagram.

Left out here, and why this is sound for the properties: the clock. Which segments
of `snd_buf` are due again (`resendts`, `fastack`) and whether the probe timer
has expired is chosen freely at every flush, so the model has every behaviour
of every clock (`KcpTimer` has the clock, and shows with `AlwaysFlushes` that
every call of `ikcp_update` flushes, which is why `Update` always does). `cwnd` is computed by the code but not used: both ends call
`ikcp_nodelay(.., 2, 10, 2, 1)`. `state` (dead link) is written and never read.

Operators ending in `_X` or `_Y` are plausible slips, used only to show that a
property notices them.

### `KcpLink`

State: `kcp[e]`, `net[e]` (datagrams in transit to e), `inp[e]` (what the
current `ikcp_input` still has to parse), `writing[e]` (the update coroutine
awaits a TCP write), and the history `sent[e]`, `got[e]` of what was read from
and handed to TCP.

| Action | Code |
|---|---|
| `Send` | a TCP read completes, `ikcp_send` |
| `Update` | the 10 ms timer expires, `ikcp_update` flushes, first `ikcp_recv` |
| `WriteDone` | the TCP write completes, next `ikcp_recv` |
| `Input`, `InputPush` | a datagram arrives: window, una, acks; then its pushes one by one |

`Input` and `InputPush` split one call of `ikcp_input` for the checker's sake
only: `Idle` disables everything else until the call is over. The split is
visible to `NoOverrun`, which is about the moment a push is parsed.

Network: `net[e]` is a set of at most `NetCap[e]` datagrams. A datagram may be
delivered in any order, stay for another delivery, or be dropped when there are
too many; this covers loss, duplication and reordering.

The client reads up to 8192 bytes from TCP, the server up to 4096; `ikcp_recv`
has 16384. `ReadAssumption` states what follows from this and what the code
relies on without checking: a read is never refused by `ikcp_send` (whose
result is ignored) and a message always fits the buffer (a message that does
not would block the stream for ever).

### `Forwarder` and `FlexServer`

A forwarder is its two flags, whether `kcpCb_` was created, whether the sockets
are open, and the place where each of its coroutines waits. Members that the
constructor does not initialise (`isRunning_`, `isKcpAlive_`, `kcpCb_`) start
with any value. `co_spawn` from the `io_context`'s own thread runs the new
coroutine at once until its first await, so `Start` leaves the start coroutine
at `AsyncConnect` and `Connected` leaves the other four at their first await.
After `close()` a pending operation ends with an error or with the success it
already had; an operation begun on a closed socket fails.

| Action | Code |
|---|---|
| `ToService` | a datagram arrives on the service socket and is queued there |
| `AcceptNew`, `AcceptKnown` | one round of `UdpAcceptCoroutine`: `ReceiveFrom` takes a datagram from the queue |
| `Connect` | the start coroutine after `AsyncConnect` |
| `TcpReceive`, `UdpReceive` | the two reading coroutines |
| `Write`, `RetryTimer`, `UpdateTimer` | the update coroutine |
| `IdleTimer` | the five-second timer |

The kernel gives a datagram to the socket that is connected to its sender, and
to the service socket when there is none. What was queued on the service socket
before a forwarder connected its own comes to that forwarder through
`AcceptKnown`, while it is connecting or running; so does what arrives after
`Stop` has closed that socket. `queued` counts the datagrams by sender; their
order among senders is free. `Start` is one step, as it does not await: that it spawns
the start coroutine before it creates `kcpCb_` cannot be observed, and `KcpReady`
notices only a control block that is not created at all.

Three failures at start-up have a constant each, because they end in different
places: `StartFails` (the UDP socket; `Start` returns false), `OpenFails`
(`tcpSocket_.open`; the start coroutine ends within `Start`) and `ConnectFails`
(`AsyncConnect`; it ends later).

`Becomes` is the end of every step: if no coroutine owns the forwarder any more
the deleter erases the map entry and the destructor runs, in the same step.
A failed assertion stops everything (`failed`).

### `FlexClient`

The client's forwarder shares the operators of `Forwarder`: `ClientStart` leaves
it with the three coroutines at their first awaits, and the start and idle
coroutines are never there. `Accept` is one round of `TcpAcceptCoroutine`, which
does not look at what `Start` returns; `AcceptError` is its assertion on any
error but try-again. There is no map: `Becomes` only runs the destructor.

### `KcpTimer` and `Retransmission`

One control block, reduced to its times. All of them are words of `Word` values
(`2^32`); `clock` is the real time in milliseconds. The update coroutine passes
the time at which its timer was handled (`now`), sets the timer to `now + 10ms`
and may be late by any of `Late`, because it awaits TCP writes in between.

| Action | Code |
|---|---|
| `Update` | the 10 ms timer, then `ikcp_update`: `ts_flush`, probe timer, new segments, the data loop of `ikcp_flush` |
| `Input` | `ikcp_input`, the fields all segments of a datagram share: window and `una` |
| `InputAck` | one acknowledgement: `ikcp_update_ack`, `ikcp_parse_ack`, `maxack` |
| `InputEnd` | `ikcp_parse_fastack` after the last segment |

`echo` holds the transmissions the peer may still acknowledge, each any number
of times, in any order, up to `MaxAge` old: these are the `ts` an acknowledgement
may carry. Which of them reach the peer and what it acknowledges is free, so
the round trips are arbitrary. `TimerAssumption` states when the words are exact:
the sum of the longest `rto`, the longest probe interval, the longest delay of an update and
the age of a datagram is below half a word, 24 days in the code.

`Retransmission` knows only the real time at which each segment is due.
`RetransmitsInTime` reads that time off the control block by the signed
difference, `clock + itimediff(resendts, current)`, and shows that the code
never confuses a deadline that has passed with one that is to come, on either
side of the wrap.

### `FlexProxy`

One client, whose forwarder exists from the start, and the server. `fw[e]` is
the life of a forwarder as in `Forwarder`, `kcp[e]` its control block as in
`Ikcp`, `net[e]` the datagrams in transit. The server may stop its forwarder;
the next datagram of the client makes a successor, `gen` counts them. Bytes that
server connection g writes are marked by g, so the histories `gotUp[g]` and
`gotDown` show where each came from.

| Action | Code |
|---|---|
| `Send`, `TcpEnd` | the reading coroutine: data, or the end of the TCP stream |
| `Update`, `UpdateEnd`, `WriteDone`, `WriteFails` | the update coroutine |
| `Input`, `UdpEnd` | the feed coroutine |
| `Connect`, `ConnectFails` | the start coroutine of the server |
| `StillActive`, `IdleStop` | its idle timer |
| `AcceptNew`, `AcceptKnown` | the accept coroutine: no forwarder for the client, or one that has closed its socket or is still connecting |
| `Refused` | a datagram for the closed socket of the client; the server may see an error (`told`) |

`ikcp_input` is one step here (`InputAll`): nothing is observed inside it. What
the sockets have queued is still in `net`, so that while the server's forwarder
connects any datagram may be one that the service socket had got before
(`AcceptKnown`). Every message is one byte in one fragment (`Send`).
Failures of sockets at start-up and uninitialised members are left to
`FlexServer` and `FlexClient`.

## Runs and what they show

| Run | Expectation | Question |
|---|---|---|
| `reorder` | pass | `IndInv`, `InOrder`, `AckedIsHeld`, `FullQueueReadable`, `Monotone`, `StreamSpec`: messages of one and two fragments one way, two datagrams in transit each way, repeated, reordered and lost; `ikcp_wndsize` raises the configured window of 1 to `IKCP_WND_RCV`; the link implements `ReliableStream` |
| `window` | pass | `TypeOK`, `RcvWindow`, `SndWindow`, `NoOverrun` and its inductive invariant `RoomInv`: five small segments, several per datagram, through a window of two |
| `live` | pass | `Delivered`, `WindowReopens` on a lossy network |
| `stalled` | violation | `BackFlows`: see Findings |
| `map` | pass | `TypeOK`, `MapExact`, `MapAsserts`, `RunningIsOpen`, `KcpReady`, `Reaped`, `IdleReaped`: two addresses, three forwarders, every failure, datagrams that wait on the service socket |
| `destructor` | violation | `DestructorAssert`: see Findings |
| `accept` | violation | `Serving`: see Findings |
| `client` | pass | `RunningIsOpen`, `EndsStopped`, `Reaped`: three connections, every failure |
| `timer` | pass | `TypeOK`, `AlwaysFlushes`, `Punctual`, `FastLimited`, `RtoInRange`, `ProbePunctual`, `RetransmitsInTime`: across the wrap of the clock, with late updates and a closing window |
| `proxy` | pass | `PositionKept` and its inductive invariant `PlacesInv`: two server connections one after the other, datagrams of both in transit, repeated and late |
| `proxy_live` | pass | `UpIsPrefix`, `ServerEnds`, `FlowsUntilStopped`; either TCP peer may close |
| `splice` | violation | `OneConnection`: see Findings |

Bounds of the link runs. The windows are 2 or 3 so that a few segments close
and reopen them several times; the code's 1024 behaves the same way at its
limits. `Overhead = 1` and a small `Mss` decide how many segments share a
datagram: with `Mss = 3` and reads of 1 and 4 bytes a message has one or two
fragments, and two pushes of one byte travel together; with `Mss = 5` and reads
of 1 it is three pushes or several acknowledgements. `MaxAcks` bounds `acklist`
(unbounded in the code), `MaxDue` the retransmissions of one flush, `NetCap` the
datagrams in transit: with two each way (`reorder`) an old datagram survives
while a newer one overtakes it, which is the shortest form of every reordering
hazard. `window` has more segments and no retransmissions (`MaxDue = 0`):
repetition comes from the network there. `Again = {TRUE}` keeps every delivered
datagram for repetition (it may still be displaced by a newer one); `live` uses
`{FALSE}` since a repetition can only help. Both ends send in `stalled` and in
the `FlexProxy` runs; the theorems hold with both ends sending, and without
bounds on sizes and windows.

Bounds of the server run. Three forwarders on two addresses give an address a
successor while another forwarder lives; three datagrams start them all, or
keep one alive, or wait on the service socket until their sender's forwarder is connected.

Bounds of `timer`. The word has 7 bits and the first update is at 121 or 124, so
that every deadline lies beyond the wrap at 128 when it is set; `MaxClock` lets
the clock run on past it long enough for time-outs, a fast retransmission,
a second time-out with a longer `rto`, and two probes. One update may be late by more than
`SlapLimit`, so that `ts_flush` is reset.

Bounds of the `FlexProxy` runs. Two forwarders (`MaxGen = 2`) are the smallest
case of a successor, and one or two bytes each way let segment numbers of both
overlap. One datagram in transit each way that may be delivered again survives
the forwarder it was for. `proxy` lets each server connection write two bytes
and the client one, `proxy_live` the client two, one in flight at a time
(`CfgSndWnd = 1`). In `splice` idle stops are restricted to `Quiet`, that is, to
a time at which nobody has anything to send: the finding needs no five seconds
of loss. With `MaxAcks = 1` the datagrams that `AcceptKnown` takes for a connecting
forwarder carry windows and acknowledgements, for a stopped one also pushes; the theorems are for
any `MaxAcks`.

`CHECK_DEADLOCK FALSE` is set where a system of bounded work really stops: once
the bounded datagrams, connections or bytes are used up and all
forwarders are gone, or the clock has reached `MaxClock`, there is nothing left
to do. The link runs check deadlock: its timers always run.

## Fairness

`KcpLink!LiveSpec`:
- SF on `UpdateThrough(e)`: a flush with its timers expired whose datagrams are
  not lost. The 10 ms timer always expires again, `resendts` and `ts_probe` lie
  at a finite distance, and the network does not lose every copy of what is
  sent again and again. Strong, because a TCP write disables it in between.
- SF on `Inputs(e)`: the network does not hold back for ever what keeps
  arriving, and the feed coroutine is resumed.
- WF on `InputPush`: `ikcp_input` returns.
- WF on `WriteDone(e)`: the TCP peer reads. `StalledSpec` takes this away from
  the server's TCP peer, and only there.

Nothing makes TCP peers write: `Sends` has no fairness.

`FlexServer!LiveSpec`: timers expire, operations on closed sockets complete,
the kernel ends every connection attempt (WF on each). There is no fairness on
reads and writes of open sockets and none on datagrams. `FlexClient!LiveSpec` is
the same for the client.

`FlexProxy!LiveSpec` has, for each side, SF on `Through` (a flush whose datagrams
are not lost) and on `Arrives` (what keeps arriving is delivered, to whichever
socket it is for), WF on `WriteDone` (TCP peers read) and on `Ending` (what a
closed socket owes completes, and the timer of a stopped forwarder expires), and
WF on the idle timer. Its next-state relation is `QuietNext`: the idle timer only finds
the flag unset when nothing is left to send or in transit to the server. A
client with something unacknowledged sends it again after at most `rx_rto`, up
to 60 s but normally far below the five seconds; without this restriction a
server forwarder could be idle although the network delivers, and
`FlowsUntilStopped` would say nothing. Nothing makes TCP peers write or close.

## Proofs

`tlapm` checks the following for every value of the constants that satisfies
the named assumptions of the component's module. Several modules have a theorem of
the same name; each is about the specification of the module it extends.

| Module | Theorem | Statement |
|---|---|---|
| `KcpLinkProofs` | `TypeCorrect` | `Spec => []TypeOK` |
| | `Inductive` | `Spec => []IndInv` |
| | `DeliveredInOrder` | `Spec => []InOrder` |
| | `AcknowledgedIsHeld` | `Spec => []AckedIsHeld` |
| | `ReceiverBounded` | `Spec => []RcvWindow` |
| | `ImplementsStream` | `Spec => StreamSpec` |
| `KcpWindowProofs` | `SenderBounded` | `Spec => []SndWindow` |
| | `NeverBack` | `Spec => Monotone` |
| | `RoomForAll` | `Spec => []RoomInv` |
| | `NeverOverrun` | `Spec => []NoOverrun` |
| | `FullIsReadable` | `Spec => []FullQueueReadable` |
| `KcpTimerProofs` | `TypeCorrect` | `Spec => []TypeOK` |
| | `UpdateFlushes` | `Spec => []AlwaysFlushes` |
| | `RetransmitsPunctually` | `Spec => []Punctual` |
| | `FastRetransmitsLimited` | `Spec => []FastLimited` |
| | `RtoBounded` | `Spec => []RtoInRange` |
| | `ProbesPunctually` | `Spec => []ProbePunctual` |
| | `ImplementsTiming` | `Spec => RetransmitsInTime` |
| `FlexServerProofs` | `TypeCorrect` | `Spec => []TypeOK` |
| | `MapIsExact` | `Spec => []MapExact` |
| | `MapAssertsHold` | `Spec => []MapAsserts` |
| | `RunningTellsSockets` | `Spec => []RunningIsOpen` |
| | `KcpIsReady` | `Spec => []KcpReady` |
| `FlexClientProofs` | `RunningTellsSockets` | `Spec => []RunningIsOpen` |
| | `DestroyedStopped` | `Spec => EndsStopped` |
| `FlexProxyProofs` | `PlacesKept` | `Spec => []PlacesInv` |
| | `PositionsKept` | `Spec => []PositionKept` |
| | `UpInOrder` | `Spec => []UpIsPrefix`, and `QuietSpec => []UpIsPrefix` |

### The link

From `SizesAssumption`, `LinkAssumption` and `ReadAssumption` (sizes and windows
are positive, a read from TCP has fewer than `IKCP_WND_RCV` fragments and fits
the receive buffer). The bounds of the runs (`MaxSegs`, `NetCap`, ...) are any
numbers.

Why a stronger invariant. `InOrder` speaks of `got` only; that `got` stays a
prefix depends on `rcv_queue`, which depends on `rcv_buf`, on the pushes in
transit, on `snd_buf` and on `snd_queue`. `IndInv` (in `KcpLink`) says for each
direction that

1. `snd_buf` and `snd_queue` hold the stream at the places their sequence
   numbers say (`SenderHolds`);
2. `got`, then `rcv_queue`, are the first `rcv_nxt` segments of the stream, and
   `rcv_buf` holds later ones (`ReceiverHolds`);
3. every push in transit is a segment of the stream (`PushesHold`);
4. every acknowledgement, pending or in transit, is for something the receiver
   has, and no `una` is above `rcv_nxt` (`AcksHold`);
5. what was sent and is not in `snd_buf` any more is at the receiver (`Covered`).

`Direction` is a predicate of the two control blocks, the history and the
datagrams. Each function of `ikcp.c` has a lemma in `IkcpProofs` that says which
fields it leaves alone and how it changes the others; lemmas on `Direction` in
`KcpLinkProofs` say that each such change keeps it, once for the side that
sends and once for the side that receives; the steps of `Next` combine them.
`InOrder` and `AckedIsHeld` follow from `IndInv`, `RcvWindow` is inductive with
the type invariant. `TypeInv` in `KcpLinkProofs` is `TypeOK` in the form the
provers need (a record type for each control block and datagram).

`SndWindow` and `Monotone` need no invariant about the other end: `Flight` says
of one control block that `snd_buf` lies between `snd_una` and `snd_nxt`, with
`snd_una` in it unless it is empty, and every function of `ikcp.c` keeps
`Flight` and goes forward whatever the datagram says (`Keeps`). This is where
it matters that both deletions of `ikcp_input` are followed by
`ikcp_shrink_buf`.

`ImplementsStream` adds to `IndInv` that what was read from TCP is `Framed`: from
each segment on `frg` counts down to 0. The queue is a part of this stream, so
that the first segment with `frg = 0`, where `ikcp_recv` stops, is the end of the
message of the first one, and `ikcp_peeksize` has made sure that it is there.

`NeverOverrun` is the theorem that is least obvious from the code: `ikcp_input`
takes the window of every datagram, also of one that was overtaken, and a window
that is reported may already be partly used up. Neither end's fields bound what the
sender may do with such a window. `RoomInv` (in `KcpLink`) says what does: in each direction there is a
place u of the stream that the receiver has reached, that the sender still has to
send or to see acknowledged, and that no datagram on its way to the sender
acknowledges (`Reach`). The sender's `snd_una` is then at most u, and a window
is at most `RcvWnd`, so whatever arrives the sender goes no further than
`u + RcvWnd`. Unless the receiver is held up by a TCP write, u is no
further than the first message of a `rcv_queue` that is not empty. u stays the
same until the receiver calls `ikcp_update`, and is then `rcv_nxt`: the call and
the first `ikcp_recv` after it are one step. If a message is read in it, u was in
that message or before it, so that all the sender has sent, below `u + RcvWnd`,
fits into the room the message leaves, and nothing in `rcv_buf` waits at
`rcv_nxt`. If none can be read, the queue holds only a part of a message, and
`rcv_nxt` is one of its fragments. Either way the receiver has made room for
what the sender may do with the window the flush reported. `NoOverrun`, that a push being parsed is below
`rcv_nxt + RcvWnd`, follows from the places of the pushes in `IndInv`. That a
message is taken out whenever one is complete needs that it fits the 16384 bytes of the
buffer, that is `ReadAssumption` for what `ikcp_peeksize` adds up; the same facts
give `FullIsReadable`, that a full `rcv_queue` begins with a whole
message that fits, so that the window cannot stay closed.

`PeekSize` is a recursive function. What it computes is shown without an
induction theorem: an explicit function satisfies its equations, and the least
index at which two solutions differ (`NatMin`) leads to a contradiction
(`PeekSizeLemma`).

### The clock

From `TimerAssumption`. The words are compared by their signed difference, and
`Serial` says that this is the difference of the times themselves as long as
that is below half a word; the last conjunct of the assumption, the sum of all
deadlines and delays, gives that bound. The invariant (`IInv` in
`KcpTimerProofs`) ties each word to a real time: `ts_flush` is at most one
interval ahead of the clock (`ClockInv`), `resendts` of a segment is the time it was
last sent plus its `rto`, and that is still to come (`SegsInv`), `ts_probe` is
the time the probe timer was started or last expired plus `probe_wait`
(`ProbeInv`). None of these would be inductive alone: that deadlines lie ahead
after a flush needs `AlwaysFlushes`, and the bound on `rto` needs that on `xmit`.
`ImplementsTiming` is the refinement of `Retransmission` by the same invariant.

### Server and client

From `ServerAssumption` and `ClientAssumption`. The invariant is that every
forwarder is in one of three conditions: not there (`Vacant`), waiting for its
TCP connection (`Connecting`, server only), or `Engaged`: all its data coroutines were
spawned, its sockets are open exactly as long as `isRunning_` is set, and
while it is set none of them has ended. `RunningIsOpen` alone is not
inductive: a coroutine that ended without `Stop` would leave an open socket
nobody reads. Between two steps there is no forwarder without an owner; `Becomes`, the
end of every step, is where the deleter runs, and the lemma `BecomesStep`
that it erases the right entry of the map.

### Successive forwarders

From `SizesAssumption` and `ProxyAssumption` (the two sides differ, and
`ikcp_send` takes a byte). Control blocks of `FlexProxy` meet datagrams of other
connections, acknowledgements of segments that another control block sent, and
windows that nobody offered them. So `Direction` of `KcpLink` is false here: what left
`snd_buf` need not be at the receiver, and bytes of the stream are really lost. What is left of it,
and is inductive, is `PlacesInv`: wherever a segment is (`snd_queue`, `snd_buf`, a
datagram, `rcv_buf`, `rcv_queue`, handed out), its sequence number is its place
in a stream that its side has been given (`AtPlace`). For the sender this is the stream of its own
connection; a datagram is of one stream; a receiver may mix those of several. The
condition on `rcv_queue` holds as long as the TCP socket is open: a forwarder that was
stopped goes on to read messages, and drops them. That no step opens a
socket again (`Shut`) keeps this from being undone. A new forwarder
begins with an empty stream, an empty `got` and `rcv_nxt = 0`, which
re-establishes its part; run `proxy` shows with `AcceptNew_X` that a control block taken over from the predecessor would not.

A stream only grows, and `Grown` carries every place over to the longer one.
`InputAll` goes through the pushes of a datagram by a recursive function on sequence
numbers; `ParsedExists` shows that the function exists and `InputAllLemma` that
every control block on the way has its segments in place, again by the least counterexample. `PositionKept` and
`UpIsPrefix` are `PlacesInv` for what was handed out. Nothing is assumed of
the network and of the idle timer, so that both hold of `QuietSpec` and `LiveSpec`
too (`QuietIsSpec`).

### Checked by TLC only

Liveness (`Delivered`, `WindowReopens`, `Reaped`, `IdleReaped`, `ServerEnds`,
`FlowsUntilStopped`), which this prover does not handle. Every invariant and
every action property that a passing run checks is proved.

## Findings

1. **A TCP peer that stops reading stops both directions** (`stalled`). The
   update coroutine awaits `AsyncWrite` between two calls of `ikcp_update`
   (`Forwarder.cpp:137`, `ClientSideForwarder.cpp:135`). While the write is
   pending nothing is flushed: no acknowledgements and no data of the other
   direction. `ikcp.c:1142` asks that `ikcp_update` be called every 10-100 ms.
2. **The destructor asserts on an uninitialised flag** (`destructor`, where only
   `AsyncConnect` may fail). When the connection is refused, the start coroutine returns before `isRunning_` is
   assigned (`Forwarder.cpp:72`), and the destructor's
   `L_ASSERT(!isRunning_, "Bug!")` reads whatever the memory held. The same
   happens when `tcpSocket_.open` fails (`Forwarder.cpp:64`) or `Start` returns false.
3. **One failed `Start` ends the accept coroutine** (`accept`).
   `FlexServer.cpp:101` returns; no new client is served afterwards. (On this
   path `kcpCb_` is released uninitialised as well: `failed = "release"`.)

4. **Two TCP connections joined into one** (`splice`). The server knows a client
   by its UDP address (`FlexServer.cpp:85`, the `TODO` above it says that this
   is not enough). After the server's forwarder was reaped the client's next
   datagram makes a successor with a new TCP connection and sequence numbers
   from 0, while the client goes on with its old ones: the TCP client gets the
   first bytes of one connection followed by later bytes of another.
   `PositionKept` (run `proxy`) and `UpIsPrefix` (`proxy_live`) say what is
   still true then.

The client's destructor has the assertion of finding 2 as well
(`ClientSideForwarder.cpp:27`): it can fail when `Start` returned false. That
is why `EndsStopped` speaks of forwarders whose `Start` succeeded.

`FlowsUntilStopped` stops where a forwarder is stopped, because nothing in the
code goes further: the end of a TCP stream closes the UDP socket at once
(`Forwarder.cpp:95`), and what the client sends to a successor after that is
numbered as for its predecessor.

`ProbePunctual` speaks of the state after an update. An update may be late, so
that two questions for the window (`WASK`) may lie one update period and the
lateness further apart than the probe interval says.

One thing that looked wrong and is not: `ikcp_input` takes the `wnd` of every
datagram, also of one that was overtaken. The sender still never sends beyond the
receiver's window (`NoOverrun`; see `NeverOverrun` under [Proofs](#proofs)): a
window is only reported, and a segment only acknowledged, by a flush, and every
flush is followed by reading the queue, before the sender can use what it was
told. Code that called `ikcp_flush` without reading would break this.

## What is not modelled

- In KCP: the congestion window (both ends set `nocwnd`), `dead_link` (it sets
  `state`, which nothing reads), `ikcp_check`, `ikcp_waitsnd` and stream mode
  (nobody calls or sets them), the wrap of sequence numbers after 2^32 segments.
- `Initialize` of both programs: start-up code. Nothing closes the service
  socket or the acceptor, so their branches for a cancelled operation are
  unreachable.
- Between `bind` and `connect` of a new server socket (`Forwarder.cpp:46`) a datagram of
  another client may be queued on it; all sessions have the same conversation
  number, so it would be parsed. This needs the kernel's queues of two clients.
- `set_option` of a UDP socket throws instead of returning an error
  (`Forwarder.cpp:45`, `ClientSideForwarder.cpp:50`), and the exception would
  leave `Start` and the accept coroutine. It is taken not to throw: the socket has just
  been opened, and the kernel cuts a buffer size that is too large.
- In `FlexProxy`, messages of several fragments. Fragments of messages of two
  server connections may be spliced as their bytes are, and the TCP client may
  then be given a message put together from both; `PositionKept` says nothing of
  where messages end, and only `KcpLink`, with one connection, checks that.
- A TCP write that fails with try-again after a part was written. asio's
  `async_write` waits itself, so the branch hardly happens.
- Limits that the code does not have: `acklist`, `snd_queue`, the client's
  forwarders. The runs bound them; there is no promise to check.
- Contents and encryption of datagrams: sender and receiver apply `Encrypt` to
  the same bytes and it is its own inverse. Corrupted or foreign datagrams are
  not modelled.
- `AddressParser` (two strings, read once before the program starts), logging,
  configuration, `main`, file helpers: no state that a property could be about.
- Third-party code: asio, spdlog, rapidjson and jsonmapper are vendored under
  `src/Thirdparty` and make up nearly all lines of the repository. asio appears
  through the outcomes of its operations.

## Plan

What would come next, in this order:

1. Sequence numbers that wrap, by the argument that `KcpTimer` uses for times: at
   most a window's worth of them is alive at a time, but for old datagrams.
2. What `FlexProxy` still promises between two restarts: as long as the server has had one
   forwarder, the composed system implements `ReliableStream`.
3. Two clients of one server, with the socket queues of the kernel, for the
   window between `bind` and `connect` (`Forwarder.cpp:46`).
