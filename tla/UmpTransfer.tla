----------------------------- MODULE UmpTransfer ----------------------------
(***************************************************************************)
(* One direction of an established connection: the sending half of the     *)
(* socket thread at one end (UmpSender), the receiving half at the other   *)
(* (UmpReceiver), the two users, and a network that loses, duplicates and  *)
(* reorders.  The queue rec_data_packets, which hands packets from the     *)
(* receive thread to the socket thread, is the last stretch of the network:*)
(* a packet that finds it full is lost, and a turn takes several at once.  *)
(***************************************************************************)
EXTENDS UmpSender, Sequences

CONSTANTS
  MaxBatch,      \* bound: packets a turn takes from the network
  MaxFaults      \* bound: packets lost or duplicated

ASSUME BoundsAssumption == MaxBatch \in Nat /\ MaxFaults \in Nat

VARIABLES
  snd, rcv,    \* the two halves
  data, acks,  \* packets on their way
  sending,     \* the user at the sending end is in ump_send_message
  receiving,   \* the user at the other end is in ump_receive_message
  offered, confirmed,   \* messages passed to ump_send_message, and sent with success
  delivered,   \* the messages ump_receive_message has returned
  faults

vars == <<snd, rcv, data, acks, sending, receiving, offered, confirmed, delivered,
          faults>>

\* The messages of the stream, each the set of its packets.
MessageCount == Cardinality(Ends)
Messages ==
  [k \in 1..MessageCount |-> {x \in Positions : Cardinality({e \in Ends : e < x}) = k - 1}]

\* A packet with REQWND, the window probe, has neither number nor user data.
Probe == 0
Acks == [seq : 1..(Packets + 1), wnd : 0..Window]

TypeOK ==
  /\ snd \in Senders
  /\ rcv \in Receivers
  /\ data \subseteq Positions \union {Probe}
  /\ acks \subseteq Acks
  /\ sending \in BOOLEAN /\ receiving \in BOOLEAN
  /\ offered \in 0..MessageCount /\ confirmed \in 0..MessageCount
  /\ delivered \in Seq(SUBSET Positions)
  /\ faults \in 0..MaxFaults

Init ==
  /\ snd = FreshSender /\ rcv = FreshReceiver
  /\ data = {} /\ acks = {}
  /\ sending = FALSE /\ receiving = FALSE
  /\ offered = 0 /\ confirmed = 0 /\ delivered = <<>>
  /\ faults = 0

-----------------------------------------------------------------------------
(* The users *)

\* ump_send_message cuts the next message into packets and posts it.  A user
\* whose call has failed may try the same message again.
SendCall ==
  /\ ~sending /\ confirmed < MessageCount
  /\ snd' = [snd EXCEPT !.count = Cardinality(Messages[confirmed + 1])]
  /\ sending' = TRUE
  /\ offered' = confirmed + 1
  /\ UNCHANGED <<rcv, data, acks, receiving, confirmed, delivered, faults>>

SendReturn ==
  /\ sending /\ snd.count = 0
  /\ sending' = FALSE
  /\ confirmed' = IF snd.ok THEN confirmed + 1 ELSE confirmed
  /\ UNCHANGED <<snd, rcv, data, acks, receiving, offered, delivered, faults>>

ReceiveCall ==
  /\ ~receiving
  /\ receiving' = TRUE
  /\ rcv' = [rcv EXCEPT !.called = TRUE]
  /\ UNCHANGED <<snd, data, acks, sending, offered, confirmed, delivered, faults>>

ReceiveReturn ==
  /\ receiving /\ ~rcv.called
  /\ receiving' = FALSE
  /\ delivered' = Append(delivered, rcv.result)
  /\ rcv' = [rcv EXCEPT !.result = {}]
  /\ UNCHANGED <<snd, data, acks, sending, offered, confirmed, faults>>

-----------------------------------------------------------------------------
(* The threads *)

\* What a turn takes from the network: some packets, in any order.
Batches(net) ==
  {b \in UNION {[1..n -> net] : n \in 0..MaxBatch} :
     \A i, j \in DOMAIN b : b[i] = b[j] => i = j}

\* The packets taken leave the network, or copies stay.
Fault == faults < MaxFaults /\ faults' = faults + 1
Without(net, batch) == net \ {batch[i] : i \in DOMAIN batch}
Remainders(net, batch) ==
  {Without(net, batch)} \union (IF faults < MaxFaults THEN {net} ELSE {})
Counted(net, batch, left) ==
  faults' = IF left = Without(net, batch) THEN faults ELSE faults + 1

AfterAcks(s, batch, rtts) ==
  LET f[i \in 0..Len(batch)] ==
        IF i = 0 THEN s ELSE TakeAck(f[i - 1], batch[i], rtts[i])
  IN f[Len(batch)]

AfterData(r, batch) ==
  LET f[i \in 0..Len(batch)] ==
        IF i = 0 THEN r
        ELSE IF batch[i] = Probe THEN f[i - 1] ELSE TakeData(f[i - 1], batch[i])
  IN f[Len(batch)]

\* ump_act_req_wnd, which may wait for REQ_WND_DELAY to pass.
Probes(s) == IF s.theirWnd = 0 THEN {Probe} ELSE {}

\* An acknowledgement from before the base has no effect, now or later, and is
\* taken off the network at once.
Useful(s, net) == {a \in net : a.seq >= s.base}

\* A turn of the sending thread: the call, acknowledgements, the timer, a probe
\* of a closed window, and one packet.  After an error only the call is served.
SenderTurn(batch, fires) ==
  \E s \in {HandleSend(snd)} :
  /\ UNCHANGED <<rcv, sending, receiving, offered, confirmed, delivered>>
  /\ IF s.error
     THEN ~fires /\ batch = <<>> /\ snd' = s /\ UNCHANGED <<data, acks, faults>>
     ELSE \E left \in Remainders(acks, batch), rtts \in [DOMAIN batch -> Rtts] :
            LET t == AfterAcks(s, batch, rtts)
                u == IF fires THEN DataTimeout(t) ELSE t
                packet == IF Sends(u) /\ ~u.error THEN {u.pos} ELSE {}
            IN /\ fires => t.timers # {}
               /\ snd' = IF u.error THEN u ELSE SendData(u)
               /\ acks' = Useful(t, left) /\ Counted(acks, batch, left)
               /\ \E probe \in SUBSET Probes(u) : data' = data \union packet \union probe

QuietTurn == \E b \in Batches(acks) : SenderTurn(b, FALSE)
TimeoutTurn == \E b \in Batches(acks) : SenderTurn(b, TRUE)

\* A turn of the receiving thread: the call, data packets, the window and the
\* acknowledgement, and a heartbeat, which schedules the next one.
ReceiverTurn(batch, beat) ==
  /\ UNCHANGED <<snd, sending, receiving, offered, confirmed, delivered>>
  /\ ~rcv.wild
  /\ \E left \in Remainders(data, batch) : data' = left /\ Counted(data, batch, left)
  /\ LET r == AfterData(HandleReceive(rcv), batch)
         t == RefreshRwnd(r)
     IN IF r.wild THEN rcv' = r /\ UNCHANGED acks
        ELSE \E ack \in MayAck(t) :
               LET u == IF ack THEN AfterAck(t) ELSE t IN
               /\ rcv' = IF beat THEN SetAckInfo(u, FALSE) ELSE u
               /\ acks' = IF ack THEN acks \union {AckOf(t)} ELSE acks

\* A heartbeat in a turn with packets is the same as one in a turn of its own
\* right behind it.
DataTurn == \E b \in Batches(data) : ReceiverTurn(b, FALSE)
HeartbeatTurn == ReceiverTurn(<<>>, TRUE)

Lose ==
  /\ Fault
  /\ \/ \E x \in data : data' = data \ {x} /\ UNCHANGED acks
     \/ \E a \in acks : acks' = acks \ {a} /\ UNCHANGED data
  /\ UNCHANGED <<snd, rcv, sending, receiving, offered, confirmed, delivered>>

-----------------------------------------------------------------------------
Next == \/ SendCall \/ SendReturn \/ ReceiveCall \/ ReceiveReturn
        \/ QuietTurn \/ TimeoutTurn \/ DataTurn \/ HeartbeatTurn \/ Lose

Spec == Init /\ [][Next]_vars

\* The sending thread keeps running, timers and heartbeats come due, a packet that
\* is not lost arrives, and the user at the receiving end goes on asking for
\* messages.  Nobody has to send.  Weak fairness of a turn that is possible as long
\* as its cause is there is written out, which spares TLC the evaluation of ENABLED.
TakesAck == \E a \in acks : SenderTurn(<<a>>, FALSE)
TakesPacket == \E x \in data : ReceiverTurn(<<x>>, FALSE)
SenderBusy ==
  LET s == HandleSend(snd) IN
  \/ s # snd
  \/ ~s.error /\ (Sends(s) \/ (s.theirWnd = 0 /\ Probe \notin data))
ThreadFair == []<>~SenderBusy \/ []<><<SenderTurn(<<>>, FALSE)>>_vars
ArrivalsFair ==
  /\ []<>(acks = {} \/ snd.error) \/ []<><<TakesAck>>_vars
  /\ []<>(data = {} \/ rcv.wild) \/ []<><<TakesPacket>>_vars
TimersFair ==
  /\ []<>(snd.timers = {} \/ snd.error) \/ []<><<TimeoutTurn>>_vars
  /\ []<>rcv.wild \/ []<><<HeartbeatTurn>>_vars
\* The user at the receiving end, when not waiting, can either call or return.
UsersFair == WF_vars(SendReturn) /\ WF_vars(ReceiveCall \/ ReceiveReturn)

FairSpec == Spec /\ ThreadFair /\ ArrivalsFair /\ TimersFair /\ UsersFair

-----------------------------------------------------------------------------
(* Properties *)

\* The messages that are complete at the other end
Arrived == Cardinality({e \in Ends : e < rcv.base})

\* Messages arrive whole, in order and once, and a send that reports success has
\* brought its message to the other end.
Stream == INSTANCE MessageStream WITH
  Messages <- Messages,
  offered <- offered,
  confirmed <- confirmed,
  received <- delivered,
  arrived <- Arrived

MessagesArrive == Stream!StreamSpec

\* Once packets were linked between a message and the queue, only what the user obtains
\* may differ from that: what is offered, arrives and is confirmed stays as promised.
Linked == rcv.spliced # {} \/ rcv.freed
StreamKept ==
  /\ Stream!StreamInit
  /\ [][\/ Stream!StreamNext
        \/ Linked /\ UNCHANGED <<offered, Arrived, confirmed>>]_(Stream!stream)

\* Every message the user is given is one that was sent.
MessagesIntact == \A i \in DOMAIN delivered : delivered[i] = Messages[i]

\* rcv_packets_msg_num is the number of complete messages in rcv_data_packets, and
\* rcv_first_msg_end the end of the first of them, though only the last packet of
\* a run is looked at.
CountIsExact ==
  LET ends == {e \in rcv.queue \cap Ends : e < rcv.base} IN
  /\ rcv.msgs = Cardinality(ends)
  /\ rcv.firstEnd = FirstEndIn(ends)

\* The sender never goes beyond the right edge of a window that was advertised.
WindowKept == snd.error \/ snd.sentMax <= rcv.rwndPos

\* While a call is under way, what is sent and unacknowledged has a timer, or is
\* about to be sent again, or waits for the window to open.
NothingForgotten ==
  snd.locked /\ snd.base <= snd.sentMax =>
    snd.timers # {} \/ snd.pos < snd.wndPos \/ snd.theirWnd = 0

-----------------------------------------------------------------------------
(* Liveness *)

\* A send call returns, even when the window was closed and the announcement that
\* opened it again was overtaken by an older one.
SendEnds == sending ~> ~sending

\* A receive call returns once there is a message that the peer knows has arrived.
ReceiveEnds == receiving /\ Len(delivered) < confirmed ~> ~receiving
=============================================================================
