# UMP, the user message protocol: formal models

UMP is a connection-oriented, message-based, reliable transport over UDP,
written in C on GLib (`src/user_message_protocol`, about 4000 lines). This
directory holds TLA+ models of it, the TLC configurations that check them on
small instances, and proofs for TLAPS.

Run a check with `tlc -config X.cfg M`, a proof with `tlapm M.tla`.

## 1. The system

| component | files | state | operations |
|---|---|---|---|
| socket thread | `ump_sock.c:46-123` | `UMPSocket` | one loop per socket: poll the user's calls, take what was received, run the timers, send |
| connection control | `ump_sock.c:125-290, 611-650, 893-1331, 1400-1560` | state, `our_ctrl_seq`, `their_ctrl_seq`, one-packet send slot, flags | connect, close, SYN/FIN/RST/ACK handlers of four states, control timeout |
| data sender | `ump_sock.c:322-475, 672-822, 867-915` | window, numbers, `cwnd`, `ssthresh`, timers | send call, acknowledgement, window notification, timeout, fast retransmit, probe |
| data receiver | `ump_sock.c:492-605, 652-670, 824-865, 931-990, 1333-1396` | list of packets with three cursors, first message, window, `ack_info` | insertion, harvest of messages, receive call, advertisement, delayed acknowledgement, heartbeat |
| core | `ump.c` | tables `umps`, `act_connect`, `backlog_umps`, `closed_umps` | bind, connect, accept, close, send and receive of messages |
| receive thread | `core_thread.c` | the same tables | dispatch, creation of a socket on SYN, RST to strays, cleaning |
| timers, round trips | `timer_list.c`, `rtocomputer.c` | list of entries, estimate | register, acknowledge, expire; refresh, double |
| events, call locks | `mevent.c`, the `*lock` state machines of `ump_sock.c` | one event and one lock per kind of call | wait, set; lock on a call, unlock at its end |
| packets | `upacket.c` | a packet | encode and decode headers |
| utilities, test program | `ump_misc.c`, `debug_out.c`, `test_ump/` | | |

How they interact. A user thread posts a call in a field of the socket
(`ctrl_para`, `snd_packets`, `receive_called`) and waits for an event. The socket
thread polls these fields once per turn and owns all protocol state. The receive
thread puts packets in two bounded queues of the socket, one place for control
and 100 for data, and drops what does not fit. Tables are shared between users
and the receive thread under `umps_lock`; a socket's state is readable by others
under `public_state_lock`.

What is hard in it: two ends and a network that loses, duplicates and reorders;
simultaneous open and close; a control packet that is a SYN, an acknowledgement
or both; one send slot for SYN and FIN; sockets that users and the receive
thread move between tables while the socket thread works; a window that closes
and the announcement that reopens it; list cursors that live across a cut of the
list; a call that must be ended on every path that gives up. PROJECT.json lists
each under "hazards" with its line.

What makes each part correct:
- connection: both ends agree on each other's first number; a successful connect
  means both SYNs have crossed; FINs take both ends down; no call is left behind
  and no unacknowledged packet is forgotten.
- sender: a success report means delivery; nothing sent is forgotten; the
  receiver's window is kept; every call ends.
- receiver: messages are whole, in order, once; the cursors match the list;
  every call with a message ends.
- core: an address is in one table, with a socket that is alive; a user's socket
  is not freed under him, no other is forgotten; a closed address comes free.
- calls: each is answered once, to its caller, whatever ends it.
- numbers: what is computed around a base is what positions in a stream would give.
- packets: what is written is read, and damage is seen.
- timeout: it covers the round trip that was measured, does not run away, and is used up by
  retransmissions until the connection is given up.

## 2. Modules

| module | models | proofs |
|---|---|---|
| `UmpHandshake` | opening and closing: both socket threads, the users' connect, accept and close, the receive thread, the cleaner, the network | `UmpHandshakeProofs`, `UmpConnectProofs` |
| `UmpReceiver` | receiving half of a socket, as operators on a record | with `UmpTransfer` |
| `UmpSender` | sending half | with `UmpTransfer` |
| `UmpTransfer` | the two halves, users and network: one direction of an open connection | `UmpTransferProofs` |
| `MessageStream` | abstract: what a connection promises its users; `UmpTransfer` refines it | the refinement, in the same |
| `SeqArith` | the comparison and conversion of 16-bit numbers | with `UmpNumbers` |
| `UmpNumbers` | the sender again, as it computes: numbers that wrap, positions relative to a call, the list of timers | `UmpNumbersProofs` |
| `SlidingWindow` | abstract: a window over a stream of positions; `UmpNumbers` refines it | the refinement, in the same |
| `UmpCalls` | users, call locks, events and the socket thread's polling, to the freeing of the socket | `UmpCallsProofs` |
| `CallService` | abstract: what a blocking call promises; `UmpCalls` refines it | the refinement, in the same |
| `UmpCore` | the four tables, connect, accept, close, core close, the receive thread and the cleaner, for several peers | `UmpCoreProofs` |
| `UPacket` | packets and datagrams, byte by byte | `UPacketProofs` |
| `UmpEstimate` | the round trip estimator and what the sender does with its timeout | `UmpEstimateProofs` |
| `Backoff` | abstract: a timeout that is so many doublings from the limit; `UmpEstimate` refines it | the refinement, in the same |
| `MC*` | instances for TLC | |

The modules cut the program along its own seams. `UmpHandshake` has the control
packets of one connection and chooses nothing about them; `UmpCore` has many
sockets and takes from each only its public state, its control call and its
users; `UmpCalls` has one socket with all its callers and takes what arrives from the
network as a choice. `UmpTransfer` has packets as positions; `UmpNumbers` shows that
the numbers in the packets stand for positions, `UPacket` that a datagram stands for
its packet, and `UmpEstimate` that the timeout may be counted in doublings, as
`UmpSender` does.

### UmpHandshake

A socket is a record whose fields carry the C names (the comment behind each
gives the exact one); a C function that changes a socket is an operator from
records to records. A turn of `ump_sock_thread_func` is one action: `TurnOf`
polls the control call (`Polled`), takes at most one control packet
(`Handled`; the shared queue holds one), runs the timer or not
(`QuietTurn`/`TimeoutTurn`), and sends what is due (`Outgoing`, `AfterSend`).
A turn is atomic because in it the thread polls once, takes from the
queue once, and sends last. `table[p]` says which table the current socket at
`p` is in; "orphan" is a socket that `ump_connect` took from the backlog in
CLOSED or CLOSING and forgot (`ump.c:175-184`): its thread still runs, but
packets do not reach it. The user's side of a call is split where the code drops
a lock: `Connect` (tables), `ConnectCall` (posting the call), `ConnectReturn`.

Sequence numbers keep a width, `SeqMod`; the instances start at the last
number so that they wrap at once. The network is a set of packets per direction,
so order is lost by itself; copies left behind and losses are counted by
`MaxFaults`. A control packet that finds the one-place queue full is lost by `Lose`.
`Refuse` is a SYN that finds the backlog full of other peers' sockets.

### UmpReceiver, UmpSender, UmpTransfer

A data packet is its position in the stream. `Ends` are the packets with
`UP_DATA_BDR`. The receive list is a set (the code keeps it sorted and free of
duplicates), `soFar` and `firstEnd` are the cursors, `msg` is `rec_msg_packets`.
Four fields are about a pointer that the code does not reset: after
`ump_harvest_messages` the new head still has a `prev` (`behind`), a search that
runs over it links a packet behind the message that was cut off (`spliced`), what is freed
with that message is still in the list (`freed`), and a thread that reads it is
not followed further (`wild`).

`SenderTurn` is a turn of the sending thread: `HandleSend`, acknowledgements
(`TakeAck`), the timer (`DataTimeout`), a probe, one packet (`SendData`).
`ReceiverTurn` is a turn of the receiving thread: `HandleReceive`, packets
(`TakeData`), the window (`RefreshRwnd`), the acknowledgement. Users
send the messages in order, one call at a time, and may retry one that failed.

Abstractions. Time: a timer may fire whenever it is set, `ACK_DELAY`,
`REQ_WND_DELAY` and a round trip may or may not have passed. The timeout is the
number of its doublings (`RtoDoublings` to reach `TIMEOUT_LIMIT`), and a measured round
trip makes it any number of them (`Rtts`), as `Backoff` allows. Windows are
small, `Window` for `REC_QUEUE_LIMIT/2`. `buffer_load` is always 0 when the window is computed:
a turn takes all of `rec_data_packets`, because `LOCAL_DATA_PACKET_LIMIT` (1024)
is larger than `REC_QUEUE_LIMIT` (100). Acknowledgements travel alone, as
data flow one way. Numbers that wrap, the raw
comparison at `ump_sock.c:813`, and `our_data_sent`, which starts at 0 whatever the first
number is, are the business of `UmpNumbers`.

### MessageStream

Offered, arrived, confirmed, received. A message arrives when it is complete
at the other end; a send may be confirmed only then; what the receiver obtains
is the next message, whole. `UmpTransfer!MessagesArrive` is the refinement, with
"arrived" (`Arrived`) read from `their_data_seq_base`. With the code's window it is false:
the stale pointer of the receiver joins messages (`messages_merged`). What is run is therefore a
second one: `StreamKept` says that the transfer
does what `MessageStream` does until a packet is linked in front of the queue (`Linked`), and
afterwards still offers, brings and confirms messages as it should; only what the user is given
may then be something else. `MessagesArrive` itself is proved of the behaviours in which
no packet is linked in front, with any window (`UnlinkedMessagesArrive`).

### SeqArith, UmpNumbers, SlidingWindow

`SeqArith` has `ump_cmp_in_sndbase` and its like over a space of `2 * Half` numbers.
`s` in `UmpNumbers` holds the fields of the sender under their C names, `tm` is
`tm_list`. A step is one function of the thread: `HandleSend`, `SendData` (with
`tm_register_packet`), `DataTimeout` (`get_next_timeout` and what follows it), and `TakeAck`,
which is all of `ump_handle_data_ack` with `tm_ack_packet`. Both windows together are
one number that changes with every step; the times of the timers are left out. Four
variables remember what the code does not: the position in the stream of the call's
first packet, of the last packet sent, which packets were sent twice, and what
was measured. The mapping to `SlidingWindow` reads positions off the numbers.

### UmpCalls and CallService

`para`, `locked`, `ok`, `done` have an entry for each kind of call, where the C code
has three sets of fields and three state machines of the same shape. The thread's turn is
`PollCtrl`, `PollSend`, `PollReceive`, one event of the network or a timer, and
the wait. What a state change ends is a list, `todo`, that `EndStep` works off one
item at a time: users run between the release of a lock and the setting of its event,
as they may in the code (`ump_sock.c:287-288`). `Wake` is `m_event_wait`: the event is
tested and reset together, under the event's mutex. `BeginFree` and
`EndFree` are the two ends of `ump_sock_free`.

There is one user of each kind. With two senders on one socket
`AnswersItsCaller` fails: the lock is free before the event is set, so a second caller's reset or
wait may take the first one's event. The code does not exclude it, and its own client never does it.

### UmpCore

Sockets are numbered in the order they are made; `table` has the four hash tables. The
calls of `ump.c` are split where they drop `umps_lock`: `ConnectNew` and
`ConnectBacklog` up to the call, `ConnectReturn` after it; `CloseCall` and
`CloseReturn`; `AcceptCall`, `AcceptWake` (the event is reset), `AcceptScan`. `earlier` is the
order of `connect_time`. `TakeCall`, `Establish` and `Turn` are what a socket's
thread does, as far as others see it; `Transitions` allows what `UmpHandshake`
does with packets. `dropped` and `crowded` only remember: sockets that `ump_connect`
found closing in the backlog, and that two connections once waited for accept together.

### UPacket

`pkt` is the `UMPPacket` of the sender, with its flag `changed` and the cached
bytes; `wire` the datagram; `got` what `u_packet_from_binary` makes of it. The
actions that make and send packets are the program's own: the same control or data packet
goes out several times with a different acknowledgement. The checksum is the code's sum.

### UmpEstimate and Backoff

`a`, `d`, `rto` are the fields of `RTOComputer`. `Measure` is the call of `rto_refresh_rtt`
in `ump_handle_data_ack`, `Timeout` and `GiveUp` are the two ends of
`ump_handle_data_timeout`, `FastRetransmit` is the fast retransmission. A timer may come
due at any time, and any sample may be measured; `trip`, `longest` and `doubled` remember what
the code does not. The code computes in `double`: here a time is a whole number of a unit,
which may be as small as one likes, and a quotient is rounded down or up by choice
(`Near`), so nothing depends on how it is rounded. The limit is compared with `rto` as in the
code, where it is cut to whole milliseconds first, which makes no difference to a whole limit.

`Backoff` counts: how many doublings are left until the limit, and how many were made
since the last sample. `Left` reads the first number off the timeout.

## 3. Runs

Every run is exhaustive. `CHECK_DEADLOCK FALSE` stands in all but `codec` because a
connection that was opened, used and closed legitimately stops.

| run | question | bounds |
|---|---|---|
| `handshake_safety` | agreement, calls, retransmission, with both users opening (simultaneous open included) and closing | 2 timeouts, 1 fault, one socket per address, 1.9M states |
| `handshake_progress` | one opener: mutual close, stop-and-wait; connect and close calls come to an end when something is lost, and no SYN or FIN stays in the slot for ever | 2 faults, 2 timeouts, a timer that gives up at once, 0.13M states |
| `transfer_safety` | messages are offered, arrive and are confirmed as `MessageStream` says, and are obtained so until a packet is linked in front of the queue; cursors of the receiver | four packets in messages {1}, {2}, {3,4}, window 3, 1 fault, a timer that gives up at once, 0.79M states |
| `transfer_progress` | nothing forgotten by the sender, the window is kept, send and receive calls end | three messages of one packet, window 1: the third finds the window closed; one doubling of the timeout, 0.20M states |
| `numbers` | the sender's arithmetic refines `SlidingWindow`, its position stays in the message, timers agree with it | 12 numbers, each but the last as first one (as the code draws it), messages up to 3, window up to 2, 13 packets: every run wraps; 58 thousand states |
| `calls` | refinement of `CallService`, nobody is forgotten, locks are given back; send and receive calls return, connect and close calls unless the handshake hangs | one user of each kind, one message waiting, 83 thousand states |
| `codec` | encoding, reading, damage | numbers 0, 256 and 65535, data of 0 to 3 bytes, one damaged byte; 43 thousand states |
| `estimate` | the timeout covers the last round trip and does not run away, refinement of `Backoff` | round trips 0, 1, 7 and 32, limit 60, ceiling 90; 5 thousand states |
| `core` | one table per address, sockets not freed in use, none lost, closed addresses come free, accept gets the connection | 2 peers, 3 sockets, backlog 1, 0.45M states |

Why these bounds. Two timeouts are one retransmission and one give-up, or two
independent retransmissions; one fault with unbounded reordering covers a lost
packet and its late copy, and faults only add to what delay and retransmission
already do. `handshake_progress` gives up at the first timeout, since what it asks is
whether calls end when nothing is repeated; of `CloseIsMutual` and `StopAndWait` it sees
packets that come late, twice or not at all, and the theorems of section 4 have
retransmissions, any number of them. One socket per address is the code's own situation until the cleaner has
run. With two, `BothEndsAgree` does not hold: a user may connect again from an address
whose peer has not noticed the end of the first connection. In the transfer the number of
timeouts is not bounded at all: the timeout's doublings make the state finite.
`transfer_safety` has none, so a timeout ends the connection, because what it asks happens in the
receiver, and a second copy of a packet is what its fault gives; `transfer_progress` has one, so a
timeout is a retransmission first. A packet that is never taken from the network is as
good as lost; the fault adds a copy that arrives a second time, or the loss after which only a timer
helps. The progress run has no faults: what closes the window for good there is an old
announcement that arrives after a newer one. Window 3 and four packets are the least with which
packets out of order run over the stale pointer; the theorems of section 4 have every window.

An acknowledgement from before the sender's base is inert (`ump_sock.c:767-771`
returns on it, and only one equal to the base is counted as a repetition), so it is taken
off the network at once (`Useful`), which keeps the state space small.

The window of `transfer_progress` is one packet because its question is the closed
window: with three packets to send the last one finds it closed, and only a heartbeat brings the
announcement. Nothing can arrive out of order there; order and wholeness are the
business of `transfer_safety`, where the window is three.

Known failures bound these runs: with a window of three and four packets
`MessagesArrive` does not hold (see `messages_merged`), and `transfer_safety` therefore
checks `StreamKept`. `SwitchesWhenComplete` is violated with one opener already.

In `numbers` half the space is 6, larger than a message and a window together, as
`MessageAssumption` asks; an acknowledgement may be late, but by less than half the
space. In `core` two peers and three sockets let one address be used again while its old
socket is in `closed_umps`; the backlog does not reach its limit there, so its bound is
proved (`CoreTypeCorrect`) rather than shown by the run. In `codec` the values have a
zero byte, a full byte and both ends of the range. A damaged byte is detected as long as
it leaves the type bit alone: `DamageIsSeen` says so, since otherwise another pair of
bytes is the checksum. In `estimate` a unit is about 250 ms: 3 s are 12, `TIMEOUT_LIMIT` is
60; the ceiling of 90 is nearer to the limit than the code's 360, so that timeouts reach it by
doubling as well as by measuring. The type invariants of `numbers`, `calls` and `estimate`
are proved and not run.

### Where the code departs from what it says

| run | what happens |
|---|---|
| `connect_stuck` | A SYN retransmitted with the ACK on it is treated as a duplicate; the return at `ump_sock.c:1195` skips the switch to ESTABLISHED, and the slot is empty: the opener stays in CONNECTING. |
| `messages_merged` | Packets out of order run over a stale `prev`, and the user is given two messages in one. |
| `accept_missed` | `ump_accept` waits first and looks afterwards, and two connections set the event once: the second call waits although a connection is in the backlog. |

Other departures that the modules contain and no run is kept for:

- In CLOSING any ACK counts for the FIN (`ump_sock.c:1486`), so a late ACK of the SYN
  closes the socket with its FIN unacknowledged. `CloseIsMutual` holds nevertheless.
- A FIN that overtakes the last ACK of the handshake is acknowledged in CONNECTING and
  forgotten (`ump_sock.c:1215`).
- `ump_connect` takes a backlog socket that the peer closes before the call is polled: a
  SYN goes over the unacknowledged FIN (`ump.c:175`). `handshake_progress` therefore
  has one user who connects.
- The guard on repeated acknowledgements is the reverse of its comment
  (`ump_sock.c:748`): heartbeats on an idle connection cause fast retransmissions, real
  duplicates do not count.
- A first round trip of 5.4 s sets the timeout to 15.075 s, beyond `TIMEOUT_LIMIT`: the
  next expiry of a timer ends the connection with nothing sent again, where the comment
  speaks of too many timeouts (`ump_sock.c:684`).
- A window probe carries no number, and the receiver schedules no acknowledgement for it
  (`ump_sock.c:660`); what reopens a window after a lost announcement is the heartbeat,
  every ten seconds.
- The README says that a round trip is not measured on retransmitted packets
  (`README:13`), and the comment at `ump_sock.c:813` that only an acknowledgement beyond the back
  point is. The test there lets the number behind the back point pass, so the last packet
  of what is sent again is measured; a message of one packet that was sent twice always is.
  After a wrap the raw comparison means nothing. `UmpNumbers` has the comparison as it stands;
  the theorem `SamplesAreBounded` says how far it goes wrong: below half the space
  it is that one packet and no other.
- `u_packet_from_binary` reads one byte beyond a datagram whose last field has a single
  byte (`upacket.c:235` and the like), and frees a datagram with a wrong checksum that
  its caller frees again (`upacket.c:221`, `core_thread.c:62`).

`ConnectProgress` therefore promises less than one would like (the call
ends, or its SYN was acknowledged), and `CloseEnds` is about connections that
both ends have open. `ControlReturns` of `UmpCalls` leaves out the two cases behind this, named
`HandshakeHangs`: an end that stays in CONNECTING (`connect_stuck`, `ump_sock.c:1195`), and one
that stays in CLOSING with its FIN acknowledged, because its peer gave up, which
says nothing to the other end (`ump_sock.c:639-647`), and its FIN never comes. A call that
meets one of them may wait for ever; every other call returns.

### Fairness

Handshake: a socket thread never blocks, so its turns and its timer are weakly
fair; the receive thread takes in what is not lost; a user who has called waits
for the answer. Nobody has to connect, accept or close. The liveness properties
allow `TimersSpent`, the point where the bound on timeouts stops the timers:
beyond it nothing is claimed.

Calls: the thread never blocks while it polls and ends calls, so these are weakly
fair, as are users who were woken. Strongly fair are the cleaner, which has to find the thread at the
end of a turn, and two things the network does: packets in flight are acknowledged or given up,
and an end in CLOSING that has the peer's FIN finishes. The second is what the timer
of the handshake does: such an end has its own FIN in the slot until it is acknowledged or given up
(`Retransmits`, `SlotEmpties`), and either one closes it. Of the rest of a handshake
nothing is assumed: the SYN and the FIN of the peer may never come. Nothing says that a closed window
opens again either, so `SendReturns` lets a sender wait for that until the socket is freed.

Core: the cleaner comes round while the core is up, and a thread in `ump_accept` goes on
when its event is set. Nobody has to connect, accept or close.

Transfer: the sending thread's turns, the retransmission timer, heartbeats
(`ump_sock.c:1561`, every ten seconds), arrival of packets and acknowledgements
that stay in the network, and returns of the users' calls are weakly fair, and
the receiving user, who can always either call or return, goes on asking. Receiving turns need no fairness of their
own, since a heartbeat turn does the same work. Where an
action is possible exactly as long as its cause is there (a packet, a timer) its
weak fairness is written out as `[]<>(no cause) \/ []<><<action>>_vars`. No `TimersSpent` is
needed here.

## 4. Proofs

Every safety invariant and action property of the runs is proved for all values of the
constants; so are the four refinements that are run. The bounds in the
constants (`MaxTimeouts`, `MaxFaults`, `MaxPackets` and so on) are any natural numbers
there. Three theorems (`EndsAgree`, `ControlIsStopAndWait`, `ClosesTogether`) have a hypothesis on a constant besides the named assumptions;
without it they are false, as explained below.

| module | theorem | property |
|---|---|---|
| `UmpHandshakeProofs` | `TypeCorrect`, `CallsHaveState`, `HandshakesRetransmit` | `TypeOK`, `CallHasState`, `Retransmits` |
| `UmpConnectProofs` | `ConnectsAfterHandshake`, `EndsAgree`, `ControlIsStopAndWait`, `ClosesTogether` | `ConnectSucceeds`, `BothEndsAgree`, `StopAndWait`, `CloseIsMutual` |
| `UmpCoreProofs` | `CoreTypeCorrect`, `AddressesAreUnique`, `UsersAreSafe`, `SocketsAreFound` | `TypeOK`, `OnePerPeer`, `UsersSocketLives`, `NoneLost` |
| `UmpCallsProofs` | `CallsTypeCorrect`, `NobodyIsForgotten`, `LocksHaveCallers`, `CloseReleases`, `CallsImplementService` | `TypeOK`, `NobodyForgotten`, `LockHasCaller`, `CloseReleasesOthers`, `AnswersItsCaller` |
| `UmpNumbersProofs` | `CompareIsDistance`, `NumbersTypeCorrect`, `PositionIsInMessage`, `TimersAreInOrder`, `NumbersImplementWindow`, `SamplesAreBounded` | –, `TypeOK`, `PositionInMessage`, `TimersInOrder`, `ImplementsWindow`, – |
| `UmpTransferProofs` | `TransferTypeCorrect`, `WindowIsKept`, `NothingIsForgotten`, `CountStaysExact`, `StreamIsKept`, `UnlinkedMessagesArrive` | `TypeOK`, `WindowKept`, `NothingForgotten`, `CountIsExact`, `StreamKept`, – |
| `UPacketProofs` | `CodecTypeCorrect`, `PacketsReadAsWritten`, `DamagedAreRejected` | `TypeOK`, `ReadsAsWritten`, `DamageIsSeen` |
| `UmpEstimateProofs` | `EstimateTypeCorrect`, `TimeoutAlwaysFits`, `EstimateImplementsBackoff` | `TypeOK`, `TimeoutFits`, `ImplementsBackoff` |

### Handshake

`UmpHandshakeProofs` holds for every `SeqMod`, `Iss`, number of sockets,
timeouts, faults and doublings, from the assumptions in `UmpHandshake` only
(two peers, a positive modulus, natural bounds, first numbers in range).

- `TypeCorrect`: `Spec => []TypeOK`. One lemma per operator says that it takes
  sockets to sockets; `TurnType` composes them for a turn, and `NextType` has one step per action.
- `CallsHaveState`: `Spec => []CallHasState`, a call that holds the lock always
  belongs to a handshake in progress.
- `HandshakesRetransmit`: `Spec => []Retransmits`, an unacknowledged SYN or FIN is in the slot.

The last two come from one inductive invariant, `ControlInv`: `TypeOK`,
`CallHasState`, `Retransmits` and `NoStrayCall` (a user who is idle, or has taken
a socket but not posted the call yet, has no `ctrl_para` in the socket).
`CallHasState` is not inductive alone: a call could be polled in a state that
cannot serve it if `ctrl_para` outlived the call, which `NoStrayCall` excludes;
and giving up in the timer must be known to leave CONNECTING or CLOSING
at once, which `Retransmits` supplies. `Keeps(s, t)` says of two sockets
that the second is as sound as the first; each handler is shown to keep, a
turn keeps by transitivity, and the actions that replace or free a socket
are treated one by one.

`UmpConnectProofs`, from the same assumptions:

- `ConnectsAfterHandshake`: `Spec => ConnectSucceeds`. The invariant (`ConnectInv`) ties
  the answer of the thread to the state: an open connection has both SYNs, and a call of
  `ump_connect` that was answered with success was answered on such a connection. It
  needs to know that the socket of a user in `ump_connect` is in `act_connect`, where
  neither `ump_accept` nor the cleaner takes it.
- `EndsAgree`: with one socket at each address, `Spec => []BothEndsAgree`, whichever
  ends open. The claim is about two sockets, and the packets between them carry it from
  one to the other, so the invariant (`AgreeInv`) says of each end what it knows of its
  peer (`Agrees`) and of each packet what it tells (`Honest`): an acknowledgement is
  sent only by an end that has the peer's SYN; a SYN that is not its sender's first
  number finds a receiver that has its own already. With a second socket at an address
  packets of the first one are taken for its own, and TLC finds `BothEndsAgree`
  violated: hence the hypothesis.
- `ControlIsStopAndWait`, `ClosesTogether`: with one socket at each address and one user
  who calls `ump_connect`. A socket uses two numbers, and `Phase` says which it has used
  in which state; `Counted` which of its peer's it has counted; `Truthful` which a
  packet on its way carries. That a number is not used twice rests on `Opens` and
  `Follows`: the end that does not open was made by its peer's SYN, so the SYN it sends
  never finds the opener untouched, and the opener's call always comes to an unused or
  broken socket. With two openers `ump_connect` may connect a closed socket of the
  backlog, whose numbers are used up (section 3).

The last three look at steps by kind (`StepKinds`): a turn of a thread, a new socket, or
a step that only moves packets, posts a call or frees a socket.

### Core

`UmpCoreProofs` holds for every finite set of peers, every backlog, any number of
sockets and of accepting threads.

- `AddressesAreUnique`: `Spec => []OnePerPeer`, an address is in one table at most, with a
  live socket of its own.
- `UsersAreSafe`: `Spec => []UsersSocketLives`. The socket of a connect or close call that is
  running is not freed, whatever the core does; one that a user merely has is freed by
  `ump_core_close` (`ump.c:125`) and by nothing else.
- `SocketsAreFound`: `Spec => []NoneLost`.
- `CoreTypeCorrect`: `Spec => []TypeOK`, with the bound on the backlog and the order of accept.

The first three come from `TableInv` (`TablesHold`): types, `OnePerPeer`, `NoneLost`, and
two facts that tie users to tables. `UsersTable`: while a connect call runs its
socket is in `act_connect`, and what a user has, or is closing, is in `umps`; without
it the cleaner, which looks at tables and states only, could not be known to spare a
user's socket, and `ConnectReturn` and `CloseReturn` could take out somebody else's
entry. `QuietWhenClosed`: no call is in progress in a closed core. The steps are of few
shapes, and there is a lemma for each: a socket changes in place (`SocketKeeps`), is
added (`AddKeeps`), goes to another table (`MoveKeeps`), or is taken out (`RemoveKeeps`).
For the type, three invariants are added: `Bounded` (only the
receive thread adds to the backlog, after it has counted), `EarlierWait` and `FlagTypes`.

### Calls

`UmpCallsProofs` holds for any users, one of each kind (`OneUserPerKind`; with two
senders the refinement fails, section 2). `CallsInv` says where a call is between its
making and its return: posted, in service, or answered with its event set or about to be
set (`CallsKept`); that what is posted in a slot belongs to a user of its kind
(`SlotsKept`); and that the list of what the thread has still to end begins with at most
one event, that of the call just ended (`TodoShape`). Without that last part the answer
of one call and the event of another could not be told apart. `OthersEnded` is for
`CloseReleases`: from the moment a close makes the state CLOSING, the ends of the send
and receive calls are in the list until they are done. `FreedLast` says that nothing
runs after `ump_sock_free`. `CallsImplementService` maps each step to one of
`CallService`: a call, its end by the thread, and the return are its actions, all others
stutter.

### Numbers

`UmpNumbersProofs` begins with `SeqArith`. It shows for every even number space that `ump_cmp_in_sndbase` orders two
numbers as their distances from the base, if both are within half the space of it
(`CompareIsDistance`), and that adding to a number and taking its remainder adds to its
position.

The rest has any space, first number, message and window with
`MessageAssumption`: a message and a window together are less than half the space. (In
the code they are below 32768 unless a single message is larger than that; see section
5.) `NumbersInv` is `TypeOK`; `Sound`: `our_data_start_seq` and `our_data_seq_base` are
the numbers of two positions in the right order, and the position of the next packet and
the last one sent are between the base and the end of the call; `Inside`: so is the
window's edge; and `TimersOf`: the list of timers holds the numbers of the last packets
before the next one, none of them acknowledged. None of the properties is inductive by
itself: that a timeout goes back to a position of this call is known from the timers,
that the timers are in order from the position, and that the numbers compare as
positions do from both. `NumbersImplementWindow` is the refinement of `SlidingWindow`,
one lemma per action. `SamplesAreBounded` needs to know of the back point that it is
behind all that was sent while anything is sent again (`BackKnown`), and as the
comparison at `ump_sock.c:813` is one of raw numbers, both speak of numbers below half
the space only.

### Transfer

`UmpTransferProofs` holds for any stream, window, batch of packets in a turn and number of faults.
`TransferInv` has four parts besides `TypeOK`:

- `SenderInv`: base, position, packets sent and window edge are in order, timers are
  those of unacknowledged packets, one for each from the base to the next one to send
  (`Serving`).
- `ReceiverInv`: `Shape` (the cursor `soFar` is the last packet without a gap, the
  advertised edge is no further than a window from the base), `Counts` (the messages
  counted are the complete ones in the list, the first of them ends at `firstEnd`) and
  `UserInv` (as long as no packet was linked in front, the list begins with the message
  after those handed out, and what the user was given is the next one).
- `Between`: packets and acknowledgements in flight are from the past of the ends: no
  packet the sender has not sent, no acknowledgement beyond the receiver's base, no
  window beyond its edge. It is what makes delay, loss, duplication and reordering
  harmless, and `WindowKept` follows from it.
- `StreamInv`: the call under way is the next message, and nothing after it was sent.

A packet is shown to keep the receiver's part whole (`HandleData`), then a batch of
them, by looking for the least packet of the batch after which it would not hold
(`LeastExists`): the library's induction theorems have an operator as parameter,
well-foundedness of the naturals has not. The same way a run of packets is cut at its
last end, which is how the code counts messages.

`StreamIsKept` is the refinement `StreamKept`. `UnlinkedMessagesArrive` adds that the
stale pointer is the only cause of merged messages: a behaviour in which no packet is
linked in front of the list implements `MessageStream`. With a window
of three `messages_merged` has one that does not.

### Packets

`UPacketProofs` holds for every set of 16-bit numbers, data of any length and content, and
any damage of one byte. The three properties come from `IInv`: the packet, if there is one, can
be encoded as it stands, which includes that its cached bytes are its encoding unless
`changed` says otherwise (`Sendable`), and the datagram under way is that encoding but for the byte
that was damaged (`WireIs`). `ReadsAsWritten` is not inductive without the first part: a
packet that goes out again is encoded from its cache.

Below that are three arguments about single datagrams. `ReadsBack`: the flag bytes are read
as the set they were made from (`CtrlBytes`, `DataBytes`), and every field begins where the
reader looks for it, whichever others are there (`BodyFacts`, `PlacesRead`).
`BodySumChanges`: a byte that changes moves the sum over the body by the difference, times 256
at an even place. `DamageShows`: so the sum moves by something other than 0 and less than 65536,
or the checksum's own bytes have changed, and either way the two no longer agree.

The sum is a recursive function over the length of the data. That it has a value at all, and that
the value is what its recursion says, is shown with tables of its first values (`SumsExist`,
`BodySumIs`); what holds of every length by looking at the least one for which
it would not (`LeastExists`).

### Round trips

`UmpEstimateProofs` holds for any samples, first deviation, limit and ceiling with
`TimesAssumption` (the ceiling is no lower than the limit or the least timeout, and the first
timeout no lower than the least one) and `DoublingsAssumption` (so many doublings lead from
the least timeout to the limit), all true of the code's numbers. `IInv` is `TypeOK`,
the two halves of `TimeoutFits` and `DoublingsAreLeft`: doublings made and doublings left together are no more than
`Doublings`, without which the count of `TypeOK` is not inductive. `RefreshFacts` is
the arithmetic of a sample: the new estimate lies between the old one and the sample, however it is
rounded, and estimate and four deviations together reach the sample, because a
quarter of the error goes into the deviation and an eighth into the estimate.
`LeftOfDouble` says that doubling takes one from the number of doublings left, the ceiling
notwithstanding. `EstimateImplementsBackoff` maps a sample to `Measure`, a timeout
to `Double` or `Stop`, and a fast retransmission to `Double`, or to a stutter beyond the limit.

### Checked by TLC only

All liveness: `SlotEmpties`, `ConnectProgress`, `CloseEnds`, `ControlReturns`,
`SendReturns`, `ReceiveReturns`, `SendEnds`, `ReceiveEnds`, `ClosedIsFreed`,
`SoleIsAccepted`. The prover has no rules for fairness and `ENABLED`.

## 5. Not modelled

- Two callers of one kind on one socket (see `UmpCalls`), and a caller who is still
  inside `m_event_wait` when `ump_sock_free` frees the event, which is undefined.
- Failures of `g_thread_create` and of UDP sockets in `ump_core_bind` and `ump_sock_new`.
- RST answered by RST between two ends without the socket: possible in
  `UmpHandshake`, without a claim on how long it goes on.
- The times at which timers come due (`timer_list.c`): any of them may come due at any
  moment, so that a timeout multiplied by a wide window (`ump_sock.c:453`), which may overflow a
  32-bit `glong`, is not seen. Floating point beyond rounding: its range and its
  special values, which times in milliseconds do not come near.
- Two directions of data at once: acknowledgements that ride on data are the same
  numbers in another packet (`UPacket` has them).
- Messages of half the number space and more, for which the comparisons are wrong.
- The vanished peer: an open connection without a send call has no timer that
  would notice.
- Logging, address helpers, memory (what is freed twice or never), the interactive test program.

## 6. Plan

Done: the modules of section 2 and the theorems of section 4.

What could follow, in this order:
1. Two sockets per address in the handshake: what the ends know of each other as long as
   no packet of the first connection is left.
2. Two directions of data in one model, with acknowledgements that ride on data.
3. One specification of a connection from opening to closing, which `UmpHandshake` and
   `UmpTransfer` together implement.
