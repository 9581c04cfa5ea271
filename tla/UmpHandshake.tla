---------------------------- MODULE UmpHandshake ----------------------------
(***************************************************************************)
(* Opening and closing one UMP connection: the control half of the         *)
(* per-socket thread of ump_sock.c at both ends, the user's connect,       *)
(* accept and close calls (ump.c), the part of the receive thread that     *)
(* creates sockets and answers strays with RST (core_thread.c), and an     *)
(* unreliable datagram network between the two.                            *)
(*                                                                         *)
(* A socket is a record, and the C functions that take a UMPSocket and     *)
(* modify it are operators from records to records, so that a handler      *)
(* reads as the calls it makes.  One turn of the loop of                   *)
(* ump_sock_thread_func is one step: the user's call, one received packet, *)
(* the retransmission timer and the send, in the code's order.  Nothing is *)
(* lost by that: within a turn the thread polls ctrl_para once, takes from *)
(* the shared queue once and only then sends, so whatever another thread   *)
(* does meanwhile could as well have come before or after the turn.        *)
(***************************************************************************)
EXTENDS Naturals, FiniteSets

CONSTANTS
  Peers,        \* the two addresses
  Openers,      \* those where the user calls ump_connect
  SeqMod,       \* control sequence numbers are in 0..SeqMod-1 (2^16 in the code)
  Iss,          \* Iss[p][k]: first sequence number of the k-th socket created at p
  RtoDoublings, \* how often ctrl_rto doubles before it reaches TIMEOUT_LIMIT
  MaxSockets,   \* bound: sockets created at one address
  MaxTimeouts,  \* bound: expirations of retransmission timers
  MaxFaults     \* bound: packets lost, dropped at a full queue, duplicated, and
                \* SYNs refused because other peers fill the backlog

ASSUME PeersAssumption == IsFiniteSet(Peers) /\ Cardinality(Peers) = 2
ASSUME OpenersAssumption == Openers \subseteq Peers
ASSUME SeqModAssumption == SeqMod \in Nat \ {0}
ASSUME BoundsAssumption ==
  /\ RtoDoublings \in Nat
  /\ MaxSockets \in Nat
  /\ MaxTimeouts \in Nat
  /\ MaxFaults \in Nat
ASSUME IssAssumption == Iss \in [Peers -> [1..MaxSockets -> 0..(SeqMod - 1)]]

Other(p) == CHOOSE q \in Peers : q # p

-----------------------------------------------------------------------------
(* Packets and sockets *)

SeqNums == 0..(SeqMod - 1)
\* With a variant that forgets the width of a sequence number.
NextSeqUnbounded(n) == n + 1
NextSeq(n) == (n + 1) % SeqMod
None == "none"

\* A control packet: its SYN, FIN or RST flag (or "ACK" when it has none), the
\* SEQ number that goes with SYN and FIN, and the ACK number when UP_CTRL_ACK
\* is set.
Packets == [kind : {"SYN", "FIN", "ACK", "RST"}, seq : SeqNums,
            hasAck : BOOLEAN, ack : SeqNums]

HasSeq(m) == m.kind \in {"SYN", "FIN"}
Reset == [kind |-> "RST", seq |-> 0, hasAck |-> FALSE, ack |-> 0]

Sockets ==
  [state       : {"CLOSED", "CONNECTING", "ESTABLISHED", "CLOSING"},
   synReced    : BOOLEAN,      \* syn_reced
   synAckReced : BOOLEAN,      \* syn_ack_reced
   finReced    : BOOLEAN,      \* fin_reced
   finAckReced : BOOLEAN,      \* fin_ack_reced
   error       : BOOLEAN,      \* error_occured
   iss         : SeqNums,      \* our_data_start_seq: the first control number too
   ourSeq      : SeqNums,      \* our_ctrl_seq
   theirSeq    : SeqNums,      \* their_ctrl_seq
   theirBase   : SeqNums,      \* their_data_seq_base
   toSend      : {None, "SYN", "FIN"},  \* ctrl_packet_to_send
   toSendSeq   : SeqNums,      \* its seq_num
   sent        : BOOLEAN,      \* ctrl_packet_sent
   rto         : 0..RtoDoublings, \* doublings of ctrl_rto since ump_init_ctrl_rto
   ackSet      : BOOLEAN,      \* ack_info.ctrl_ack_set
   ackData     : SeqNums,      \* ack_info.ctrl_ack_data
   locked      : BOOLEAN,      \* ctrl_locked
   para        : {None, "CONNECT", "CLOSE"}, \* ctrl_para
   ok          : BOOLEAN]      \* ctrl_ok

\* ump_sock_new: zeroed memory, then the fields that do not start at zero.
FreshSocket(iss) ==
  [state |-> "CLOSED", synReced |-> FALSE, synAckReced |-> FALSE,
   finReced |-> FALSE, finAckReced |-> FALSE, error |-> FALSE,
   iss |-> iss, ourSeq |-> iss, theirSeq |-> 0, theirBase |-> 0,
   toSend |-> None, toSendSeq |-> 0, sent |-> TRUE, rto |-> 0,
   ackSet |-> FALSE, ackData |-> 0,
   locked |-> FALSE, para |-> None, ok |-> FALSE]

-----------------------------------------------------------------------------
(* The functions of ump_sock.c on one socket *)

\* ctrllock_sm_end_ctrl: a call of the given methods that holds the lock ends
\* with the result; anything else is left alone.
EndCtrl(s, methods, result) ==
  IF s.locked /\ s.para \in methods
  THEN [s EXCEPT !.ok = result, !.para = None, !.locked = FALSE]
  ELSE s

AllCalls == {"CONNECT", "CLOSE"}

EnterEstablished(s) ==
  EndCtrl([s EXCEPT !.state = "ESTABLISHED"], {"CONNECT"}, TRUE)

\* With a variant that does not wake the user who closes.
EnterClosedSilently(s) == [s EXCEPT !.state = "CLOSED"]
EnterClosed(s) == EndCtrl([s EXCEPT !.state = "CLOSED"], {"CLOSE"}, TRUE)

\* With a variant that does not wake the user who connects.
ConnectionErrorSilently(s) == EnterClosed([s EXCEPT !.error = TRUE])
ConnectionError(s) ==
  EndCtrl(EnterClosed([s EXCEPT !.error = TRUE]), AllCalls, FALSE)

\* ump_closed_connect and ump_established_close: put a SYN or a FIN in
\* the one-packet send slot, whatever it holds.
Queue(s, kind) ==
  [s EXCEPT !.toSend = kind, !.toSendSeq = s.ourSeq, !.sent = FALSE,
            !.rto = 0, !.ourSeq = NextSeq(s.ourSeq)]

ClosedConnect(s) == Queue(s, "SYN")
EstablishedClose(s) == Queue(s, "FIN")

SetAck(s) == [s EXCEPT !.ackSet = TRUE, !.ackData = s.theirSeq]

\* The acknowledgement of the packet in the send slot empties it.
AckMatches(s, m) == m.hasAck /\ m.ack = s.ourSeq
ClearSlot(s) == [s EXCEPT !.toSend = None, !.sent = TRUE, !.rto = 0]
TakeAck(s, m) == IF AckMatches(s, m) THEN ClearSlot(s) ELSE s

\* A numbered packet that is not a first SYN: counted if it is the next one,
\* acknowledged in any case.
\* The variant counts a retransmission again.
CountEverySeq(s, m) == [s EXCEPT !.theirSeq = NextSeq(s.theirSeq)]
CountSeq(s, m) ==
  IF m.seq = s.theirSeq THEN [s EXCEPT !.theirSeq = NextSeq(s.theirSeq)] ELSE s
TakeSeq(s, m) == IF HasSeq(m) THEN SetAck(CountSeq(s, m)) ELSE s

\* The variant has the "+1" that the source comments out.
TakeSynPlusOne(s, m) ==
  SetAck([s EXCEPT !.theirSeq = NextSeq(m.seq), !.theirBase = NextSeq(m.seq),
                   !.synReced = TRUE])
TakeSyn(s, m) ==
  SetAck([s EXCEPT !.theirSeq = NextSeq(m.seq), !.theirBase = m.seq,
                   !.synReced = TRUE])

-----------------------------------------------------------------------------
(* The connection state machine: calls of the user *)

ClosedHandleCtrl(s) ==
  IF s.para = "CONNECT"
  THEN [ClosedConnect(s) EXCEPT !.state = "CONNECTING"]
  ELSE EndCtrl(s, {"CLOSE"}, TRUE)

ConnectingHandleCtrl(s) == EndCtrl(s, {"CLOSE"}, FALSE)

EstablishedHandleCtrl(s) ==
  IF s.para = "CLOSE"
  THEN [EstablishedClose(s) EXCEPT !.state = "CLOSING"]
  ELSE EndCtrl(s, {"CONNECT"}, TRUE)

ClosingHandleCtrl(s) == EndCtrl(s, {"CONNECT"}, FALSE)

StateHandleCtrl(s) ==
  CASE s.state = "CLOSED"      -> ClosedHandleCtrl(s)
    [] s.state = "CONNECTING"  -> ConnectingHandleCtrl(s)
    [] s.state = "ESTABLISHED" -> EstablishedHandleCtrl(s)
    [] s.state = "CLOSING"     -> ClosingHandleCtrl(s)

\* ump_ctrlunlocked_handle_ctrl, when a call is waiting.
TakeCall(s) ==
  IF s.error THEN EndCtrl([s EXCEPT !.locked = TRUE], AllCalls, FALSE)
  ELSE StateHandleCtrl([s EXCEPT !.locked = TRUE])

-----------------------------------------------------------------------------
(* The connection state machine: packets of the peer *)

ClosedHandlePacket(s, m) ==
  IF m.kind = "SYN" /\ ~s.synReced
  THEN [TakeSyn(ClosedConnect(s), m) EXCEPT !.state = "CONNECTING"]
  ELSE TakeSeq(s, m)

\* A SYN that was seen before is acknowledged and nothing else: the function
\* returns before it looks whether the connection is complete.
ConnectingTakeAck(s, m) ==
  IF m.hasAck THEN [TakeAck(s, m) EXCEPT !.synAckReced = TRUE] ELSE s

\* The variant is content with one of the two.
ConnectingHalfDone(s) ==
  IF s.synReced \/ s.synAckReced THEN EnterEstablished(s) ELSE s
ConnectingDone(s) ==
  IF s.synReced /\ s.synAckReced THEN EnterEstablished(s) ELSE s

ConnectingHandlePacket(s, m) ==
  LET t == ConnectingTakeAck(s, m) IN
  IF m.kind = "SYN" /\ t.synReced THEN SetAck(t)
  ELSE ConnectingDone(IF m.kind = "SYN" THEN TakeSyn(t, m) ELSE TakeSeq(t, m))

EstablishedTakeAck(s, m) ==
  IF AckMatches(s, m) THEN EndCtrl(ClearSlot(s), AllCalls, TRUE) ELSE s

\* With variants that send the FIN but stay, and that only take a note.
EstablishedTakeFinStays(s) == EstablishedClose([s EXCEPT !.finReced = TRUE])
EstablishedTakeFinIdle(s) == [s EXCEPT !.finReced = TRUE]
EstablishedTakeFin(s) ==
  [EstablishedClose([s EXCEPT !.finReced = TRUE]) EXCEPT !.state = "CLOSING"]

IsNextFin(s, m) == m.kind = "FIN" /\ m.seq = s.theirSeq

EstablishedHandlePacket(s, m) ==
  LET t == EstablishedTakeAck(s, m) IN
  TakeSeq(IF IsNextFin(t, m) THEN EstablishedTakeFin(t) ELSE t, m)

ClosingTakeAck(s, m) ==
  IF m.hasAck THEN [TakeAck(s, m) EXCEPT !.finAckReced = TRUE] ELSE s

ClosingTakeFin(s, m) ==
  IF IsNextFin(s, m) THEN [s EXCEPT !.finReced = TRUE] ELSE s

ClosingDone(s) == IF s.finReced /\ s.finAckReced THEN EnterClosed(s) ELSE s

ClosingHandlePacket(s, m) ==
  LET t == ClosingTakeAck(s, m) IN ClosingDone(TakeSeq(ClosingTakeFin(t, m), m))

StateHandlePacket(s, m) ==
  CASE s.state = "CLOSED"      -> ClosedHandlePacket(s, m)
    [] s.state = "CONNECTING"  -> ConnectingHandlePacket(s, m)
    [] s.state = "ESTABLISHED" -> EstablishedHandlePacket(s, m)
    [] s.state = "CLOSING"     -> ClosingHandlePacket(s, m)

TakePacket(s, m) ==
  IF m.kind = "RST" THEN ConnectionError(s) ELSE StateHandlePacket(s, m)

-----------------------------------------------------------------------------
(* The retransmission timer and the send step *)

\* ump_handle_ctrl_timeout once ctrl_resend_time has passed: send again with a
\* doubled timeout, or give up and tear the connection down (the variant does
\* not tear it down).
GiveUpHalfway(s) == EndCtrl(ClearSlot(s), AllCalls, FALSE)
GiveUp(s) == ConnectionError(EndCtrl(ClearSlot(s), AllCalls, FALSE))
TimeOut(s) ==
  IF s.rto < RtoDoublings THEN [s EXCEPT !.sent = FALSE, !.rto = s.rto + 1]
  ELSE GiveUp(s)

SlotDue(s) == ~s.sent /\ s.toSend # None

\* ump_handle_send_ctrl_packet: the packet in the slot, carrying a pending
\* acknowledgement, or else the acknowledgement alone, or nothing.
Outgoing(s) ==
  IF SlotDue(s)
  THEN {[kind |-> s.toSend, seq |-> s.toSendSeq, hasAck |-> s.ackSet,
         ack |-> IF s.ackSet THEN s.ackData ELSE 0]}
  ELSE IF s.ackSet
  THEN {[kind |-> "ACK", seq |-> 0, hasAck |-> TRUE, ack |-> s.ackData]}
  ELSE {}

AfterSend(s) ==
  [s EXCEPT !.sent = IF SlotDue(s) THEN TRUE ELSE s.sent, !.ackSet = FALSE]

-----------------------------------------------------------------------------
(* The two endpoints and the network *)

VARIABLES
  sock,     \* the socket at each address, meaningful while table[p] # "none"
  table,    \* the table of the UMPCore that holds it
  user,     \* the user's call in progress on it
  inbox,    \* rec_control_packets: at most one packet
  net,      \* net[p]: control packets on their way to p
  created,  \* sockets created so far at each address
  timeouts, faults   \* how much of MaxTimeouts and MaxFaults is used up

vars == <<sock, table, user, inbox, net, created, timeouts, faults>>

\* "orphan": the socket's thread runs, but no table holds the socket any more.
Tables == {"none", "backlog", "act_connect", "umps", "closed_umps", "orphan"}
Calls == {"idle", "connecting", "connect", "close"}

TypeOK ==
  /\ sock \in [Peers -> Sockets]
  /\ table \in [Peers -> Tables]
  /\ user \in [Peers -> Calls]
  /\ inbox \in [Peers -> SUBSET Packets]
  /\ net \in [Peers -> SUBSET Packets]
  /\ created \in [Peers -> 0..MaxSockets]
  /\ timeouts \in 0..MaxTimeouts
  /\ faults \in 0..MaxFaults

Init ==
  /\ sock = [p \in Peers |-> FreshSocket(0)]
  /\ table = [p \in Peers |-> "none"]
  /\ user = [p \in Peers |-> "idle"]
  /\ inbox = [p \in Peers |-> {}]
  /\ net = [p \in Peers |-> {}]
  /\ created = [p \in Peers |-> 0]
  /\ timeouts = 0
  /\ faults = 0

Exists(p) == table[p] # "none"
Listed(p) == table[p] \notin {"none", "orphan"}

-----------------------------------------------------------------------------
(* The socket's thread: one turn of the loop of ump_sock_thread_func *)

CallWaiting(s) == s.para # None /\ ~s.locked

\* ump_handle_ctrl
Polled(s) == IF CallWaiting(s) THEN TakeCall(s) ELSE s

\* ump_sock_fetch_received_packets and ump_handle_ctrl_packet, skipped after an
\* error.
Handled(s, packets) ==
  IF s.error \/ packets = {} THEN {s} ELSE {TakePacket(s, m) : m \in packets}

\* ump_handle_ctrl_timeout: ctrl_resend_time may have passed at any turn.
\* With a variant that looks at the packets still to be sent.
TimerNeverRuns(s) == s.toSend # None /\ ~s.sent
TimerRuns(s) == s.toSend # None /\ s.sent

TurnOf(p, timerFires) ==
  LET polled == Polled(sock[p]) IN
  /\ Exists(p)
  /\ inbox' = [inbox EXCEPT ![p] = IF polled.error THEN @ ELSE {}]
  /\ \E s \in Handled(polled, inbox[p]) :
       IF s.error
       THEN /\ ~timerFires
            /\ sock' = [sock EXCEPT ![p] = s]
            /\ UNCHANGED net
       ELSE LET t == IF timerFires THEN TimeOut(s) ELSE s IN
            /\ timerFires => TimerRuns(s)
            /\ sock' = [sock EXCEPT ![p] = AfterSend(t)]
            /\ net' = [net EXCEPT ![Other(p)] = @ \union Outgoing(t)]
  /\ UNCHANGED <<table, user, created, faults>>

QuietTurn(p) == TurnOf(p, FALSE) /\ UNCHANGED timeouts

TimeoutTurn(p) ==
  /\ timeouts < MaxTimeouts
  /\ TurnOf(p, TRUE)
  /\ timeouts' = timeouts + 1

-----------------------------------------------------------------------------
(* The user's calls *)

CanCreate(p) == created[p] < MaxSockets

AddSocket(p, t, packets) ==
  /\ sock' = [sock EXCEPT ![p] = FreshSocket(Iss[p][created[p] + 1])]
  /\ table' = [table EXCEPT ![p] = t]
  /\ created' = [created EXCEPT ![p] = @ + 1]
  /\ inbox' = [inbox EXCEPT ![p] = packets]

\* ump_sock_free
FreeSocket(p) ==
  /\ table' = [table EXCEPT ![p] = "none"]
  /\ sock' = [sock EXCEPT ![p] = FreshSocket(0)]
  /\ inbox' = [inbox EXCEPT ![p] = {}]

\* ump_connect, first half: a new socket, or the one the peer's SYN has
\* put into the backlog, goes to the table act_connect.  A socket that was
\* closing in the backlog is taken out of it, and then the call returns NULL.
Connect(p) ==
  /\ p \in Openers
  /\ user[p] = "idle"
  /\ \/ /\ ~Exists(p)
        /\ CanCreate(p)
        /\ AddSocket(p, "act_connect", {})
        /\ user' = [user EXCEPT ![p] = "connecting"]
     \/ /\ table[p] = "backlog"
        /\ sock[p].state \in {"CONNECTING", "ESTABLISHED"}
        /\ table' = [table EXCEPT ![p] = "act_connect"]
        /\ user' = [user EXCEPT ![p] = "connecting"]
        /\ UNCHANGED <<sock, created, inbox>>
     \/ /\ table[p] = "backlog"
        /\ sock[p].state \in {"CLOSED", "CLOSING"}
        /\ table' = [table EXCEPT ![p] = "orphan"]
        /\ UNCHANGED <<sock, user, created, inbox>>
  /\ UNCHANGED <<net, timeouts, faults>>

\* ump_sock_control_call with METHOD_CONNECT and with METHOD_CLOSE.
ConnectCall(p) ==
  /\ user[p] = "connecting"
  /\ sock' = [sock EXCEPT ![p].para = "CONNECT"]
  /\ user' = [user EXCEPT ![p] = "connect"]
  /\ UNCHANGED <<table, inbox, net, created, timeouts, faults>>

CloseCall(p) ==
  /\ user[p] = "idle"
  /\ table[p] = "umps"
  /\ sock' = [sock EXCEPT ![p].para = "CLOSE"]
  /\ user' = [user EXCEPT ![p] = "close"]
  /\ UNCHANGED <<table, inbox, net, created, timeouts, faults>>

\* ump_connect, second half: the socket moves to umps or is freed.
ConnectReturn(p) ==
  /\ user[p] = "connect"
  /\ sock[p].para = None
  /\ IF sock[p].ok
     THEN table' = [table EXCEPT ![p] = "umps"] /\ UNCHANGED <<sock, inbox>>
     ELSE FreeSocket(p)
  /\ user' = [user EXCEPT ![p] = "idle"]
  /\ UNCHANGED <<net, created, timeouts, faults>>

\* ump_close, after ump_sock_close, whatever its result.
CloseReturn(p) ==
  /\ user[p] = "close"
  /\ sock[p].para = None
  /\ table' = [table EXCEPT ![p] = "closed_umps"]
  /\ user' = [user EXCEPT ![p] = "idle"]
  /\ UNCHANGED <<sock, inbox, net, created, timeouts, faults>>

\* ump_accept taking this connection out of the backlog.
Accept(p) ==
  /\ user[p] = "idle"
  /\ table[p] = "backlog"
  /\ sock[p].state = "ESTABLISHED"
  /\ table' = [table EXCEPT ![p] = "umps"]
  /\ UNCHANGED <<sock, user, inbox, net, created, timeouts, faults>>

\* ump_clean_closed_sock, once UMP_CALM_MICROS have passed in CLOSED.
Clean(p) ==
  /\ table[p] \in {"closed_umps", "backlog"}
  /\ sock[p].state = "CLOSED"
  /\ FreeSocket(p)
  /\ UNCHANGED <<user, net, created, timeouts, faults>>

-----------------------------------------------------------------------------
(* The receive thread and the network *)

Fault == faults < MaxFaults /\ faults' = faults + 1

\* Packet m leaves the network for p, or a copy of it stays, and the packets in
\* replies set out in the other direction.
Consume(p, m, replies) ==
  \/ /\ net' = [net EXCEPT ![p] = @ \ {m}, ![Other(p)] = @ \union replies]
     /\ UNCHANGED faults
  \/ /\ Fault
     /\ net' = [net EXCEPT ![Other(p)] = @ \union replies]

\* receive_thread_func on a control packet for a socket with room in its queue.
Deliver(p) ==
  /\ Listed(p)
  /\ inbox[p] = {}
  /\ \E m \in net[p] :
       /\ Consume(p, m, {})
       /\ inbox' = [inbox EXCEPT ![p] = {m}]
  /\ UNCHANGED <<sock, table, user, created, timeouts>>

\* A SYN from an address without a socket makes one in the backlog.  (Bound: no
\* second socket is made next to an orphan.)
CreateOnSyn(p) ==
  /\ ~Exists(p)
  /\ CanCreate(p)
  /\ \E m \in net[p] :
       /\ m.kind = "SYN"
       /\ Consume(p, m, {})
       /\ AddSocket(p, "backlog", {m})
  /\ UNCHANGED <<user, timeouts>>

\* Any other packet is answered with a RST, even if it is itself one.
Stray(p) ==
  /\ ~Listed(p)
  /\ \E m \in net[p] : m.kind # "SYN" /\ Consume(p, m, {Reset})
  /\ UNCHANGED <<sock, table, user, inbox, created, timeouts>>

\* So is a SYN that finds the backlog full of other peers.
Refuse(p) ==
  /\ ~Listed(p)
  /\ Fault
  /\ \E m \in net[p] :
       /\ m.kind = "SYN"
       /\ net' = [net EXCEPT ![p] = @ \ {m}, ![Other(p)] = @ \union {Reset}]
  /\ UNCHANGED <<sock, table, user, inbox, created, timeouts>>

\* A packet lost on the way, or dropped because rec_control_packets holds one.
Lose(p) ==
  /\ Fault
  /\ \E m \in net[p] : net' = [net EXCEPT ![p] = @ \ {m}]
  /\ UNCHANGED <<sock, table, user, inbox, created, timeouts>>

-----------------------------------------------------------------------------
UserStep(p) ==
  \/ Connect(p) \/ ConnectCall(p) \/ ConnectReturn(p)
  \/ Accept(p) \/ CloseCall(p) \/ CloseReturn(p)
CoreStep(p) ==
  \/ Deliver(p) \/ CreateOnSyn(p) \/ Stray(p) \/ Refuse(p) \/ Clean(p)

Next == \E p \in Peers :
  QuietTurn(p) \/ TimeoutTurn(p) \/ UserStep(p) \/ CoreStep(p) \/ Lose(p)

Spec == Init /\ [][Next]_vars

\* A thread keeps running and its timer expires, the receive thread takes in what
\* is neither lost nor refused, and a user who has called waits for the answer.
\* No user has to connect, accept or close.
UserWaits(p) == ConnectCall(p) \/ ConnectReturn(p) \/ CloseReturn(p)
Receive(p) == Deliver(p) \/ CreateOnSyn(p) \/ Stray(p)

Fairness == \A p \in Peers :
  /\ WF_vars(QuietTurn(p)) /\ WF_vars(TimeoutTurn(p))
  /\ WF_vars(UserWaits(p)) /\ WF_vars(Receive(p))

FairSpec == Spec /\ Fairness

-----------------------------------------------------------------------------
(* Safety *)

Open(p) == Exists(p) /\ sock[p].state \in {"ESTABLISHED", "CLOSING"}

\* Two ends that live at the same time agree on where each other's data starts:
\* when one has left CONNECTING, the other has seen its SYN, and either's
\* their_data_seq_base is the our_data_start_seq of the other.
BothEndsAgree == \A p, q \in Peers :
  Open(p) /\ Exists(q) /\ p # q =>
    /\ sock[q].synReced
    /\ sock[p].theirBase = sock[q].iss
    /\ sock[q].theirBase = sock[p].iss

\* A call that holds ctrl_para_lock belongs to a handshake in progress, so that
\* some packet or the timer can still end it: no path through the state machines
\* leaves a caller behind in CLOSED or ESTABLISHED.
CallHasState == \A p \in Peers : sock[p].locked =>
  \/ sock[p].para = "CONNECT" /\ sock[p].state = "CONNECTING"
  \/ sock[p].para = "CLOSE" /\ sock[p].state = "CLOSING"

\* Until its acknowledgement is seen, the SYN or the FIN of a handshake stays in
\* the send slot, where the timer finds it.
Retransmits == \A p \in Peers :
  /\ sock[p].state = "CONNECTING" /\ ~sock[p].synAckReced => sock[p].toSend = "SYN"
  /\ sock[p].state = "CLOSING" /\ ~sock[p].finAckReced => sock[p].toSend = "FIN"

\* ump_connect hands a socket to the user only when both SYNs have crossed.
ConnectSucceeds == [][\A p \in Peers :
  user[p] = "connect" /\ table'[p] = "umps" =>
     sock[p].synReced /\ sock[p].synAckReced]_vars

ClosedByHandshake(p) ==
  Exists(p) /\ sock[p].state = "CLOSED" /\ sock[p].finReced /\ ~sock[p].error

\* One end does not reach CLOSED by the exchange of FINs while the other still
\* believes the connection is open.
CloseIsMutual == \A p, q \in Peers :
  ClosedByHandshake(p) /\ Exists(q) /\ p # q =>
    sock[q].state \in {"CLOSING", "CLOSED"}

\* Control packets are exchanged one at a time: a sender that has used a number
\* is at most one ahead of what its peer has counted.
StopAndWait == \A p, q \in Peers :
  Exists(p) /\ Exists(q) /\ p # q /\ sock[p].synReced =>
     sock[q].ourSeq \in {sock[p].theirSeq, NextSeq(sock[p].theirSeq)}

\* The comment at the end of the CONNECTING handler: once both the
\* acknowledgement and the SYN have been received, the state is switched.
SwitchesWhenComplete == \A p \in Peers :
  sock[p].state = "CONNECTING" => ~(sock[p].synReced /\ sock[p].synAckReced)

-----------------------------------------------------------------------------
(* Liveness: MaxTimeouts stops the timers for good, and what happens after   *)
(* that is not the program's doing.                                          *)

TimersSpent == timeouts = MaxTimeouts

\* No control packet is retransmitted for ever: the slot is emptied by an
\* acknowledgement, or the connection by an error.
SlotEmpties == \A p \in Peers :
  sock[p].toSend # None ~> sock[p].toSend = None \/ sock[p].error \/ TimersSpent

\* A call of ump_connect returns, or at least its SYN reaches the peer.
ConnectProgress == \A p \in Openers :
  user[p] = "connect" ~> user[p] = "idle" \/ sock[p].synAckReced \/ TimersSpent

\* A call of ump_close on a connection that both ends have open returns, unless
\* the peer has vanished or failed.
CloseEnds == \A p \in Peers :
  /\ user[p] = "close"
  /\ sock[p].state = "ESTABLISHED" /\ sock[Other(p)].state = "ESTABLISHED"
  ~> user[p] = "idle" \/ ~Exists(Other(p)) \/ sock[Other(p)].error \/ TimersSpent

=============================================================================
