------------------------ MODULE UmpHandshakeProofs ------------------------
(***************************************************************************)
(* What holds of UmpHandshake for any width of the sequence numbers, any   *)
(* number of sockets, retransmissions and faults.                          *)
(***************************************************************************)
EXTENDS UmpHandshake, TLAPS

-----------------------------------------------------------------------------
(* Every operator that stands for a C function takes sockets to sockets.   *)

LEMMA NextSeqType == ASSUME NEW n \in SeqNums PROVE NextSeq(n) \in SeqNums
BY SeqModAssumption DEF SeqNums, NextSeq

LEMMA ZeroIsSeq == 0 \in SeqNums
BY SeqModAssumption DEF SeqNums

LEMMA FreshSocketType ==
  ASSUME NEW i \in SeqNums PROVE FreshSocket(i) \in Sockets
BY ZeroIsSeq, BoundsAssumption DEF FreshSocket, Sockets, None

LEMMA EndCtrlType ==
  ASSUME NEW s \in Sockets, NEW ms, NEW r \in BOOLEAN
  PROVE  EndCtrl(s, ms, r) \in Sockets
<1> DEFINE t == [s EXCEPT !.ok = r, !.para = None, !.locked = FALSE]
<1>1. t \in Sockets  BY DEF Sockets
<1>2. EndCtrl(s, ms, r) = t \/ EndCtrl(s, ms, r) = s  BY DEF EndCtrl
<1> QED BY <1>1, <1>2

LEMMA EnterEstablishedType ==
  ASSUME NEW s \in Sockets PROVE EnterEstablished(s) \in Sockets
<1> DEFINE t == [s EXCEPT !.state = "ESTABLISHED"]
<1>1. t \in Sockets  BY DEF Sockets
<1> QED BY <1>1, EndCtrlType DEF EnterEstablished

LEMMA EnterClosedType ==
  ASSUME NEW s \in Sockets PROVE EnterClosed(s) \in Sockets
<1> DEFINE t == [s EXCEPT !.state = "CLOSED"]
<1>1. t \in Sockets  BY DEF Sockets
<1> QED BY <1>1, EndCtrlType DEF EnterClosed

LEMMA ConnectionErrorType ==
  ASSUME NEW s \in Sockets PROVE ConnectionError(s) \in Sockets
<1> DEFINE t == [s EXCEPT !.error = TRUE]
<1>1. t \in Sockets  BY DEF Sockets
<1> QED BY <1>1, EnterClosedType, EndCtrlType DEF ConnectionError

LEMMA QueueType ==
  ASSUME NEW s \in Sockets, NEW k \in {"SYN", "FIN"} PROVE Queue(s, k) \in Sockets
<1>1. NextSeq(s.ourSeq) \in SeqNums /\ s.ourSeq \in SeqNums  BY NextSeqType DEF Sockets
<1>2. 0 \in 0..RtoDoublings  BY BoundsAssumption
<1> QED BY <1>1, <1>2 DEF Queue, Sockets

LEMMA SetAckType == ASSUME NEW s \in Sockets PROVE SetAck(s) \in Sockets
BY DEF SetAck, Sockets

LEMMA ClearSlotType == ASSUME NEW s \in Sockets PROVE ClearSlot(s) \in Sockets
<1>1. 0 \in 0..RtoDoublings  BY BoundsAssumption
<1> QED BY <1>1 DEF ClearSlot, Sockets

LEMMA TakeAckType ==
  ASSUME NEW s \in Sockets, NEW m PROVE TakeAck(s, m) \in Sockets
BY ClearSlotType DEF TakeAck

LEMMA TakeSeqType ==
  ASSUME NEW s \in Sockets, NEW m PROVE TakeSeq(s, m) \in Sockets
<1> DEFINE t == [s EXCEPT !.theirSeq = NextSeq(s.theirSeq)]
<1>1. NextSeq(s.theirSeq) \in SeqNums  BY NextSeqType DEF Sockets
<1>2. t \in Sockets  BY <1>1 DEF Sockets
<1>3. CountSeq(s, m) \in Sockets  BY <1>2 DEF CountSeq
<1> QED BY <1>3, SetAckType DEF TakeSeq

LEMMA TakeSynType ==
  ASSUME NEW s \in Sockets, NEW m \in Packets PROVE TakeSyn(s, m) \in Sockets
<1> DEFINE t == [s EXCEPT !.theirSeq = NextSeq(m.seq), !.theirBase = m.seq,
                          !.synReced = TRUE]
<1>1. m.seq \in SeqNums /\ NextSeq(m.seq) \in SeqNums  BY NextSeqType DEF Packets
<1>2. t \in Sockets  BY <1>1 DEF Sockets
<1> QED BY <1>2, SetAckType DEF TakeSyn

LEMMA WithState ==
  ASSUME NEW s \in Sockets,
         NEW st \in {"CLOSED", "CONNECTING", "ESTABLISHED", "CLOSING"}
  PROVE  [s EXCEPT !.state = st] \in Sockets
BY DEF Sockets

LEMMA WithFlags ==
  ASSUME NEW s \in Sockets
  PROVE  /\ [s EXCEPT !.synAckReced = TRUE] \in Sockets
         /\ [s EXCEPT !.finAckReced = TRUE] \in Sockets
         /\ [s EXCEPT !.finReced = TRUE] \in Sockets
<1>1. [s EXCEPT !.synAckReced = TRUE] \in Sockets  BY DEF Sockets
<1>2. [s EXCEPT !.finAckReced = TRUE] \in Sockets  BY DEF Sockets
<1>3. [s EXCEPT !.finReced = TRUE] \in Sockets  BY DEF Sockets
<1> QED BY <1>1, <1>2, <1>3

LEMMA ConnectingTakeAckType ==
  ASSUME NEW s \in Sockets, NEW m PROVE ConnectingTakeAck(s, m) \in Sockets
BY TakeAckType, WithFlags DEF ConnectingTakeAck

LEMMA EstablishedTakeAckType ==
  ASSUME NEW s \in Sockets, NEW m PROVE EstablishedTakeAck(s, m) \in Sockets
BY ClearSlotType, EndCtrlType DEF EstablishedTakeAck

LEMMA ClosingTakeAckType ==
  ASSUME NEW s \in Sockets, NEW m PROVE ClosingTakeAck(s, m) \in Sockets
BY TakeAckType, WithFlags DEF ClosingTakeAck

LEMMA ClosedConnectType ==
  ASSUME NEW s \in Sockets PROVE ClosedConnect(s) \in Sockets
BY QueueType DEF ClosedConnect

LEMMA EstablishedCloseType ==
  ASSUME NEW s \in Sockets PROVE EstablishedClose(s) \in Sockets
BY QueueType DEF EstablishedClose

LEMMA TakeCallType == ASSUME NEW s \in Sockets PROVE TakeCall(s) \in Sockets
<1> DEFINE t == [s EXCEPT !.locked = TRUE]
<1>1. t \in Sockets  BY DEF Sockets
<1>2. ClosedHandleCtrl(t) \in Sockets
  BY <1>1, ClosedConnectType, WithState, EndCtrlType DEF ClosedHandleCtrl
<1>3. ConnectingHandleCtrl(t) \in Sockets
  BY <1>1, EndCtrlType DEF ConnectingHandleCtrl
<1>4. EstablishedHandleCtrl(t) \in Sockets
  BY <1>1, EstablishedCloseType, WithState, EndCtrlType DEF EstablishedHandleCtrl
<1>5. ClosingHandleCtrl(t) \in Sockets
  BY <1>1, EndCtrlType DEF ClosingHandleCtrl
<1>6. t.state \in {"CLOSED", "CONNECTING", "ESTABLISHED", "CLOSING"}
  BY <1>1 DEF Sockets
<1>7. StateHandleCtrl(t) \in Sockets
  BY <1>2, <1>3, <1>4, <1>5, <1>6 DEF StateHandleCtrl
<1> QED BY <1>1, <1>7, EndCtrlType DEF TakeCall

LEMMA ClosedHandlePacketType ==
  ASSUME NEW s \in Sockets, NEW m \in Packets
  PROVE  ClosedHandlePacket(s, m) \in Sockets
BY ClosedConnectType, TakeSynType, TakeSeqType, WithState DEF ClosedHandlePacket

LEMMA ConnectingHandlePacketType ==
  ASSUME NEW s \in Sockets, NEW m \in Packets
  PROVE  ConnectingHandlePacket(s, m) \in Sockets
<1> DEFINE t == ConnectingTakeAck(s, m)
           u == IF m.kind = "SYN" THEN TakeSyn(t, m) ELSE TakeSeq(t, m)
<1>2. t \in Sockets  BY ConnectingTakeAckType
<1> HIDE DEF t
<1>3. u \in Sockets  BY <1>2, TakeSynType, TakeSeqType
<1> HIDE DEF u
<1>4. ConnectingDone(u) \in Sockets  BY <1>3, EnterEstablishedType DEF ConnectingDone
<1>5. SetAck(t) \in Sockets  BY <1>2, SetAckType
<1> QED BY <1>4, <1>5 DEF ConnectingHandlePacket, t, u

LEMMA EstablishedHandlePacketType ==
  ASSUME NEW s \in Sockets, NEW m \in Packets
  PROVE  EstablishedHandlePacket(s, m) \in Sockets
<1> DEFINE t == EstablishedTakeAck(s, m)
           u == IF IsNextFin(t, m) THEN EstablishedTakeFin(t) ELSE t
<1>1. t \in Sockets  BY EstablishedTakeAckType
<1> HIDE DEF t
<1>3. EstablishedTakeFin(t) \in Sockets
  BY <1>1, WithFlags, EstablishedCloseType, WithState DEF EstablishedTakeFin
<1>4. u \in Sockets  BY <1>1, <1>3
<1> HIDE DEF u
<1>5. TakeSeq(u, m) \in Sockets  BY <1>4, TakeSeqType
<1> QED BY <1>5 DEF EstablishedHandlePacket, t, u

LEMMA ClosingHandlePacketType ==
  ASSUME NEW s \in Sockets, NEW m \in Packets
  PROVE  ClosingHandlePacket(s, m) \in Sockets
<1> DEFINE t == ClosingTakeAck(s, m)
           u == ClosingTakeFin(t, m)
           v == TakeSeq(u, m)
<1>2. t \in Sockets  BY ClosingTakeAckType
<1> HIDE DEF t
<1>4. u \in Sockets  BY <1>2, WithFlags DEF ClosingTakeFin
<1> HIDE DEF u
<1>5. v \in Sockets  BY <1>4, TakeSeqType
<1> HIDE DEF v
<1>6. ClosingDone(v) \in Sockets  BY <1>5, EnterClosedType DEF ClosingDone
<1> QED BY <1>6 DEF ClosingHandlePacket, t, u, v

LEMMA TakePacketType ==
  ASSUME NEW s \in Sockets, NEW m \in Packets PROVE TakePacket(s, m) \in Sockets
<1>1. s.state \in {"CLOSED", "CONNECTING", "ESTABLISHED", "CLOSING"}  BY DEF Sockets
<1>2. StateHandlePacket(s, m) \in Sockets
  BY <1>1, ClosedHandlePacketType, ConnectingHandlePacketType,
     EstablishedHandlePacketType, ClosingHandlePacketType DEF StateHandlePacket
<1> QED BY <1>2, ConnectionErrorType DEF TakePacket

LEMMA TimeOutType == ASSUME NEW s \in Sockets PROVE TimeOut(s) \in Sockets
<1>1. GiveUp(s) \in Sockets
  BY ClearSlotType, EndCtrlType, ConnectionErrorType DEF GiveUp
<1>2. ASSUME s.rto < RtoDoublings
      PROVE  [s EXCEPT !.sent = FALSE, !.rto = s.rto + 1] \in Sockets
  <2>1. s.rto + 1 \in 0..RtoDoublings  BY <1>2, BoundsAssumption DEF Sockets
  <2> QED BY <2>1 DEF Sockets
<1> QED BY <1>1, <1>2 DEF TimeOut

LEMMA AfterSendType == ASSUME NEW s \in Sockets PROVE AfterSend(s) \in Sockets
<1>1. (IF SlotDue(s) THEN TRUE ELSE s.sent) \in BOOLEAN  BY DEF Sockets
<1> QED BY <1>1 DEF AfterSend, Sockets

LEMMA OutgoingType == ASSUME NEW s \in Sockets PROVE Outgoing(s) \subseteq Packets
<1>1. CASE SlotDue(s)
  <2>1. s.toSend \in {"SYN", "FIN"}  BY <1>1 DEF SlotDue, Sockets
  <2>2. s.toSendSeq \in SeqNums /\ s.ackSet \in BOOLEAN /\ s.ackData \in SeqNums
    BY DEF Sockets
  <2> QED BY <1>1, <2>1, <2>2, ZeroIsSeq DEF Outgoing, Packets
<1>2. CASE ~SlotDue(s)
  <2> DEFINE m == [kind |-> "ACK", seq |-> 0, hasAck |-> TRUE, ack |-> s.ackData]
  <2>1. s.ackData \in SeqNums  BY DEF Sockets
  <2>2. m \in Packets  BY <2>1, ZeroIsSeq DEF Packets
  <2>3. Outgoing(s) \in {{m}, {}}  BY <1>2 DEF Outgoing
  <2> QED BY <2>2, <2>3
<1> QED BY <1>1, <1>2

-----------------------------------------------------------------------------
(* Type correctness *)

LEMMA InitType == Init => TypeOK
<1> SUFFICES ASSUME Init PROVE TypeOK  OBVIOUS
<1>1. FreshSocket(0) \in Sockets  BY FreshSocketType, ZeroIsSeq
<1>2. 0 \in 0..MaxSockets /\ 0 \in 0..MaxTimeouts /\ 0 \in 0..MaxFaults
  BY BoundsAssumption
<1> QED BY <1>1, <1>2 DEF Init, TypeOK, Tables, Calls

LEMMA PolledType == ASSUME NEW s \in Sockets PROVE Polled(s) \in Sockets
BY TakeCallType DEF Polled

LEMMA HandledType ==
  ASSUME NEW s \in Sockets, NEW packets \in SUBSET Packets
  PROVE  Handled(s, packets) \subseteq Sockets
BY TakePacketType DEF Handled

LEMMA TurnType ==
  ASSUME TypeOK, NEW p \in Peers, NEW fires \in BOOLEAN, TurnOf(p, fires)
  PROVE  /\ sock' \in [Peers -> Sockets]
         /\ inbox' \in [Peers -> SUBSET Packets]
         /\ net' \in [Peers -> SUBSET Packets]
         /\ table' \in [Peers -> Tables]
         /\ user' \in [Peers -> Calls]
         /\ created' \in [Peers -> 0..MaxSockets]
         /\ faults' \in 0..MaxFaults
<1> DEFINE polled == Polled(sock[p])
<1>1. polled \in Sockets  BY PolledType DEF TypeOK
<1> HIDE DEF polled
<1>2. PICK s \in Handled(polled, inbox[p]) :
        IF s.error
        THEN /\ sock' = [sock EXCEPT ![p] = s]
             /\ UNCHANGED net
        ELSE LET t == IF fires THEN TimeOut(s) ELSE s IN
             /\ sock' = [sock EXCEPT ![p] = AfterSend(t)]
             /\ net' = [net EXCEPT ![Other(p)] = @ \union Outgoing(t)]
  BY DEF TurnOf, polled
<1>3. s \in Sockets  BY <1>1, <1>2, HandledType DEF TypeOK
<1> DEFINE t == IF fires THEN TimeOut(s) ELSE s
<1>4. t \in Sockets  BY <1>3, TimeOutType
<1>5. AfterSend(t) \in Sockets /\ Outgoing(t) \subseteq Packets
  BY <1>4, AfterSendType, OutgoingType
<1>6. \/ sock' = [sock EXCEPT ![p] = s] /\ net' = net
      \/ /\ sock' = [sock EXCEPT ![p] = AfterSend(t)]
         /\ net' = [net EXCEPT ![Other(p)] = @ \union Outgoing(t)]
  BY <1>2
<1> HIDE DEF t
<1>7. sock' \in [Peers -> Sockets] /\ net' \in [Peers -> SUBSET Packets]
  BY <1>3, <1>5, <1>6 DEF TypeOK
<1>8. inbox' \in [Peers -> SUBSET Packets]
  BY DEF TurnOf, TypeOK
<1> QED BY <1>7, <1>8 DEF TurnOf, TypeOK

LEMMA AddSocketType ==
  ASSUME TypeOK, NEW p \in Peers, NEW t \in Tables, NEW ms \in SUBSET Packets,
         CanCreate(p), AddSocket(p, t, ms)
  PROVE  /\ sock' \in [Peers -> Sockets]
         /\ table' \in [Peers -> Tables]
         /\ created' \in [Peers -> 0..MaxSockets]
         /\ inbox' \in [Peers -> SUBSET Packets]
<1>1. created[p] + 1 \in 1..MaxSockets
  BY BoundsAssumption DEF TypeOK, CanCreate
<1>2. Iss[p][created[p] + 1] \in SeqNums  BY <1>1, IssAssumption DEF SeqNums
<1>3. FreshSocket(Iss[p][created[p] + 1]) \in Sockets  BY <1>2, FreshSocketType
<1>4. sock' \in [Peers -> Sockets]  BY <1>3 DEF AddSocket, TypeOK
<1>5. created' \in [Peers -> 0..MaxSockets]
  BY <1>1, BoundsAssumption DEF AddSocket, TypeOK
<1> QED BY <1>4, <1>5 DEF AddSocket, TypeOK

LEMMA FreeSocketType ==
  ASSUME TypeOK, NEW p \in Peers, FreeSocket(p)
  PROVE  /\ sock' \in [Peers -> Sockets]
         /\ table' \in [Peers -> Tables]
         /\ inbox' \in [Peers -> SUBSET Packets]
<1>1. FreshSocket(0) \in Sockets  BY FreshSocketType, ZeroIsSeq
<1> QED BY <1>1 DEF FreeSocket, TypeOK, Tables

LEMMA ParaType ==
  ASSUME TypeOK, NEW p \in Peers, NEW c \in {"CONNECT", "CLOSE"}
  PROVE  [sock EXCEPT ![p].para = c] \in [Peers -> Sockets]
<1>1. [sock[p] EXCEPT !.para = c] \in Sockets  BY DEF TypeOK, Sockets
<1> QED BY <1>1 DEF TypeOK

LEMMA FaultType ==
  ASSUME TypeOK, Fault PROVE faults' \in 0..MaxFaults
BY BoundsAssumption DEF TypeOK, Fault

LEMMA ConsumeType ==
  ASSUME TypeOK, NEW p \in Peers, NEW m, NEW r \in SUBSET Packets, Consume(p, m, r)
  PROVE  net' \in [Peers -> SUBSET Packets] /\ faults' \in 0..MaxFaults
BY FaultType DEF TypeOK, Consume

LEMMA ResetType == {Reset} \subseteq Packets
BY ZeroIsSeq DEF Reset, Packets

LEMMA NextType == TypeOK /\ [Next]_vars => TypeOK'
<1> SUFFICES ASSUME TypeOK, [Next]_vars PROVE TypeOK'  OBVIOUS
<1>1. CASE UNCHANGED vars  BY <1>1 DEF TypeOK, vars
<1>2. ASSUME NEW p \in Peers, QuietTurn(p) PROVE TypeOK'
  BY <1>2, TurnType DEF QuietTurn, TypeOK
<1>3. ASSUME NEW p \in Peers, TimeoutTurn(p) PROVE TypeOK'
  <2>1. timeouts' \in 0..MaxTimeouts
    BY <1>3, BoundsAssumption DEF TimeoutTurn, TypeOK
  <2> QED BY <1>3, <2>1, TurnType DEF TimeoutTurn, TypeOK
<1>4. ASSUME NEW p \in Peers, Connect(p) PROVE TypeOK'
  <2>1. CASE CanCreate(p) /\ AddSocket(p, "act_connect", {})
    BY <1>4, <2>1, AddSocketType DEF Connect, TypeOK, Tables, Calls
  <2>2. CASE UNCHANGED <<sock, created, inbox>>
    <3>1. \A t \in {"act_connect", "orphan"} :
            table' = [table EXCEPT ![p] = t] => table' \in [Peers -> Tables]
      BY <1>4 DEF TypeOK, Tables
    <3>2. user' = [user EXCEPT ![p] = "connecting"] => user' \in [Peers -> Calls]
      BY <1>4 DEF TypeOK, Calls
    <3>3. /\ \E t \in {"act_connect", "orphan"} : table' = [table EXCEPT ![p] = t]
          /\ user' = [user EXCEPT ![p] = "connecting"] \/ user' = user
          /\ UNCHANGED <<net, timeouts, faults>>
      <4>1. CASE AddSocket(p, "act_connect", {})
        BY <1>4, <4>1 DEF Connect, AddSocket
      <4>2. CASE ~AddSocket(p, "act_connect", {})
        BY <1>4, <4>2 DEF Connect
      <4> QED BY <4>1, <4>2
    <3> QED BY <1>4, <2>2, <3>1, <3>2, <3>3 DEF TypeOK
  <2> QED BY <1>4, <2>1, <2>2 DEF Connect
<1>5. ASSUME NEW p \in Peers, ConnectCall(p) PROVE TypeOK'
  BY <1>5, ParaType DEF ConnectCall, TypeOK, Calls
<1>6. ASSUME NEW p \in Peers, ConnectReturn(p) PROVE TypeOK'
  BY <1>6, FreeSocketType DEF ConnectReturn, TypeOK, Tables, Calls
<1>7. ASSUME NEW p \in Peers, Accept(p) PROVE TypeOK'
  BY <1>7 DEF Accept, TypeOK, Tables
<1>8. ASSUME NEW p \in Peers, CloseCall(p) PROVE TypeOK'
  BY <1>8, ParaType DEF CloseCall, TypeOK, Calls
<1>9. ASSUME NEW p \in Peers, CloseReturn(p) PROVE TypeOK'
  BY <1>9 DEF CloseReturn, TypeOK, Tables, Calls
<1>10. ASSUME NEW p \in Peers, Deliver(p) PROVE TypeOK'
  <2>1. PICK m \in net[p] : Consume(p, m, {}) /\ inbox' = [inbox EXCEPT ![p] = {m}]
    BY <1>10 DEF Deliver
  <2>2. m \in Packets  BY DEF TypeOK
  <2>3. net' \in [Peers -> SUBSET Packets] /\ faults' \in 0..MaxFaults
    BY <2>1, ConsumeType
  <2> QED BY <1>10, <2>1, <2>2, <2>3 DEF Deliver, TypeOK
<1>11. ASSUME NEW p \in Peers, CreateOnSyn(p) PROVE TypeOK'
  <2>1. PICK m \in net[p] : Consume(p, m, {}) /\ AddSocket(p, "backlog", {m})
    BY <1>11 DEF CreateOnSyn
  <2>2. {m} \in SUBSET Packets  BY DEF TypeOK
  <2>3. net' \in [Peers -> SUBSET Packets] /\ faults' \in 0..MaxFaults
    BY <2>1, ConsumeType
  <2>4. "backlog" \in Tables  BY DEF Tables
  <2> QED BY <1>11, <2>1, <2>2, <2>3, <2>4, AddSocketType DEF CreateOnSyn, TypeOK
<1>12. ASSUME NEW p \in Peers, Stray(p) PROVE TypeOK'
  BY <1>12, ConsumeType, ResetType DEF Stray, TypeOK
<1>13. ASSUME NEW p \in Peers, Refuse(p) PROVE TypeOK'
  <2>0. PICK m \in net[p] : net' = [net EXCEPT ![p] = @ \ {m}, ![Other(p)] = @ \union {Reset}]
    BY <1>13 DEF Refuse
  <2>1. net' \in [Peers -> SUBSET Packets]  BY <2>0, ResetType DEF TypeOK
  <2> QED BY <1>13, <2>1, FaultType DEF Refuse, TypeOK
<1>14. ASSUME NEW p \in Peers, Clean(p) PROVE TypeOK'
  BY <1>14, FreeSocketType DEF Clean, TypeOK
<1>15. ASSUME NEW p \in Peers, Lose(p) PROVE TypeOK'
  <2>1. net' \in [Peers -> SUBSET Packets]  BY <1>15 DEF Lose, TypeOK
  <2> QED BY <1>15, <2>1, FaultType DEF Lose, TypeOK
<1> QED BY <1>1, <1>2, <1>3, <1>4, <1>5, <1>6, <1>7, <1>8, <1>9, <1>10, <1>11,
           <1>12, <1>13, <1>14, <1>15 DEF Next, UserStep, CoreStep

\* Whatever the interleaving, losses and retransmissions, every field of both
\* sockets, every queue and every packet in the network keeps its type; in
\* particular control sequence numbers wrap at their width.
THEOREM TypeCorrect == Spec => []TypeOK
<1>1. Init => TypeOK  BY InitType
<1>2. TypeOK /\ [Next]_vars => TypeOK'  BY NextType
<1> QED BY <1>1, <1>2, PTL DEF Spec

-----------------------------------------------------------------------------
(* The control lock and the send slot of one socket *)

\* CallHasState and Retransmits, for one socket.
HeldCall(s) == s.locked =>
  \/ s.para = "CONNECT" /\ s.state = "CONNECTING"
  \/ s.para = "CLOSE" /\ s.state = "CLOSING"
InSlot(s) ==
  /\ s.state = "CONNECTING" /\ ~s.synAckReced => s.toSend = "SYN"
  /\ s.state = "CLOSING" /\ ~s.finAckReced => s.toSend = "FIN"

\* A function of the socket's thread turns socket s into t: what was sound
\* stays sound, and no call appears that the user has not made.
Keeps(s, t) ==
  /\ HeldCall(s) => HeldCall(t)
  /\ InSlot(s) => InSlot(t)
  /\ t.para \in {s.para, None}

LEMMA TakeCallKeeps ==
  ASSUME NEW s \in Sockets, CallWaiting(s) PROVE Keeps(s, TakeCall(s))
<1> DEFINE t == [s EXCEPT !.locked = TRUE]
<1>1. t \in Sockets /\ t.locked /\ t.para \in AllCalls
  BY DEF CallWaiting, Sockets, AllCalls, None
<1>2. CASE s.error
  BY <1>1, <1>2 DEF TakeCall, EndCtrl, Keeps, HeldCall, InSlot, Sockets
<1>3. CASE ~s.error /\ s.state = "CLOSED"
  <2>1. CASE s.para = "CONNECT"
    BY <1>3, <2>1 DEF TakeCall, StateHandleCtrl, ClosedHandleCtrl, ClosedConnect,
       Queue, Keeps, HeldCall, InSlot, Sockets, None
  <2>2. CASE s.para = "CLOSE"
    BY <1>3, <2>2 DEF TakeCall, StateHandleCtrl, ClosedHandleCtrl, EndCtrl,
       Keeps, HeldCall, InSlot, Sockets, None
  <2> QED BY <1>1, <2>1, <2>2 DEF AllCalls
<1>4. CASE ~s.error /\ s.state = "CONNECTING"
  BY <1>1, <1>4 DEF TakeCall, StateHandleCtrl, ConnectingHandleCtrl, EndCtrl,
     Keeps, HeldCall, InSlot, Sockets, None, AllCalls
<1>5. CASE ~s.error /\ s.state = "ESTABLISHED"
  <2>1. CASE s.para = "CLOSE"
    BY <1>5, <2>1 DEF TakeCall, StateHandleCtrl, EstablishedHandleCtrl,
       EstablishedClose, Queue, Keeps, HeldCall, InSlot, Sockets, None
  <2>2. CASE s.para = "CONNECT"
    BY <1>5, <2>2 DEF TakeCall, StateHandleCtrl, EstablishedHandleCtrl, EndCtrl,
       Keeps, HeldCall, InSlot, Sockets, None
  <2> QED BY <1>1, <2>1, <2>2 DEF AllCalls
<1>6. CASE ~s.error /\ s.state = "CLOSING"
  BY <1>1, <1>6 DEF TakeCall, StateHandleCtrl, ClosingHandleCtrl, EndCtrl,
     Keeps, HeldCall, InSlot, Sockets, None, AllCalls
<1> QED BY <1>2, <1>3, <1>4, <1>5, <1>6 DEF Sockets

\* What the packet handlers do before and after they switch state leaves the
\* connection state, the lock and the call alone.
Quiet(s, t) == t.state = s.state /\ t.locked = s.locked /\ t.para = s.para

LEMMA TakeSeqQuiet ==
  ASSUME NEW s \in Sockets, NEW m
  PROVE  /\ Quiet(s, TakeSeq(s, m))
         /\ TakeSeq(s, m).toSend = s.toSend
         /\ TakeSeq(s, m).synAckReced = s.synAckReced
         /\ TakeSeq(s, m).finAckReced = s.finAckReced
         /\ TakeSeq(s, m).error = s.error
BY DEF TakeSeq, CountSeq, SetAck, Quiet, Sockets

LEMMA TakeSynQuiet ==
  ASSUME NEW s \in Sockets, NEW m
  PROVE  /\ Quiet(s, TakeSyn(s, m))
         /\ TakeSyn(s, m).toSend = s.toSend
         /\ TakeSyn(s, m).synAckReced = s.synAckReced
         /\ TakeSyn(s, m).finAckReced = s.finAckReced
BY DEF TakeSyn, SetAck, Quiet, Sockets

LEMMA TakeSeqKeeps ==
  ASSUME NEW s \in Sockets, NEW m PROVE Keeps(s, TakeSeq(s, m))
BY TakeSeqQuiet DEF Keeps, HeldCall, InSlot, Quiet

LEMMA EnterEstablishedKeeps ==
  ASSUME NEW s \in Sockets, s.state = "CONNECTING"
  PROVE  Keeps(s, EnterEstablished(s))
BY DEF EnterEstablished, EndCtrl, Keeps, HeldCall, InSlot, Sockets, None

LEMMA EnterClosedKeeps ==
  ASSUME NEW s \in Sockets, s.state = "CLOSING"
  PROVE  Keeps(s, EnterClosed(s))
BY DEF EnterClosed, EndCtrl, Keeps, HeldCall, InSlot, Sockets, None

\* The tear-down needs no assumption on the state it starts from.
LEMMA ConnectionErrorKeeps ==
  ASSUME NEW s \in Sockets
  PROVE  Keeps(s, ConnectionError(s)) /\ ConnectionError(s).state = "CLOSED"
BY DEF ConnectionError, EnterClosed, EndCtrl, AllCalls, Keeps, HeldCall, InSlot,
   Sockets, None

LEMMA ClosedHandlePacketKeeps ==
  ASSUME NEW s \in Sockets, NEW m \in Packets, s.state = "CLOSED"
  PROVE  Keeps(s, ClosedHandlePacket(s, m))
<1>1. CASE m.kind = "SYN" /\ ~s.synReced
  <2> DEFINE c == ClosedConnect(s)
             u == TakeSyn(c, m)
  <2>1. c \in Sockets /\ u \in Sockets  BY ClosedConnectType, TakeSynType
  <2>2. Quiet(s, c) /\ c.toSend = "SYN"
    BY DEF ClosedConnect, Queue, Quiet, Sockets
  <2>3. Quiet(c, u) /\ u.toSend = "SYN"  BY <2>1, <2>2, TakeSynQuiet
  <2> HIDE DEF c, u
  <2>4. Keeps(s, [u EXCEPT !.state = "CONNECTING"])
    BY <2>1, <2>2, <2>3 DEF Keeps, HeldCall, InSlot, Quiet, Sockets
  <2> QED BY <1>1, <2>4 DEF ClosedHandlePacket, c, u
<1>2. CASE ~(m.kind = "SYN" /\ ~s.synReced)
  BY <1>2, TakeSeqKeeps DEF ClosedHandlePacket
<1> QED BY <1>1, <1>2

LEMMA ConnectingHandlePacketKeeps ==
  ASSUME NEW s \in Sockets, NEW m \in Packets, s.state = "CONNECTING"
  PROVE  Keeps(s, ConnectingHandlePacket(s, m))
<1> DEFINE t == ConnectingTakeAck(s, m)
           u == IF m.kind = "SYN" THEN TakeSyn(t, m) ELSE TakeSeq(t, m)
<1>1. t \in Sockets  BY ConnectingTakeAckType
<1>2. Quiet(s, t) /\ Keeps(s, t)
  <2> DEFINE a == TakeAck(s, m)
  <2>1. a \in Sockets  BY TakeAckType
  <2>2. Quiet(s, a)  BY DEF TakeAck, ClearSlot, Quiet, Sockets
  <2> HIDE DEF a
  <2>3. CASE m.hasAck
    <3>1. t = [a EXCEPT !.synAckReced = TRUE]  BY <2>3 DEF ConnectingTakeAck, a
    <3>2. Quiet(a, t) /\ t.synAckReced  BY <2>1, <3>1 DEF Quiet, Sockets
    <3> QED BY <2>2, <3>2 DEF Quiet, Keeps, HeldCall, InSlot
  <2>4. CASE ~m.hasAck
    BY <2>4 DEF ConnectingTakeAck, Quiet, Keeps
  <2> QED BY <2>3, <2>4
<1> HIDE DEF t
<1>3. u \in Sockets  BY <1>1, TakeSynType, TakeSeqType
<1>4. Quiet(t, u) /\ Keeps(t, u)
  BY <1>1, TakeSynQuiet, TakeSeqQuiet DEF Keeps, HeldCall, InSlot, Quiet
<1> HIDE DEF u
<1>5. Keeps(u, ConnectingDone(u))
  <2>1. u.state = "CONNECTING"  BY <1>2, <1>4 DEF Quiet
  <2>2. Keeps(u, u)  BY DEF Keeps
  <2> QED BY <1>3, <2>1, <2>2, EnterEstablishedKeeps DEF ConnectingDone
<1>6. Keeps(t, SetAck(t))
  BY <1>1 DEF SetAck, Keeps, HeldCall, InSlot, Sockets
<1>7. ConnectingHandlePacket(s, m) \in {SetAck(t), ConnectingDone(u)}
  BY DEF ConnectingHandlePacket, t, u
<1> QED BY <1>2, <1>4, <1>5, <1>6, <1>7 DEF Keeps

LEMMA EstablishedHandlePacketKeeps ==
  ASSUME NEW s \in Sockets, NEW m \in Packets, s.state = "ESTABLISHED"
  PROVE  Keeps(s, EstablishedHandlePacket(s, m))
<1> DEFINE t == EstablishedTakeAck(s, m)
           u == IF IsNextFin(t, m) THEN EstablishedTakeFin(t) ELSE t
<1>1. t \in Sockets  BY EstablishedTakeAckType
<1>2. t.state = "ESTABLISHED" /\ Keeps(s, t)
  BY DEF EstablishedTakeAck, ClearSlot, EndCtrl, AllCalls, Keeps, HeldCall, InSlot,
     Sockets, None
<1> HIDE DEF t
<1>3. EstablishedTakeFin(t) \in Sockets /\ Keeps(t, EstablishedTakeFin(t))
  <2> DEFINE n == [t EXCEPT !.finReced = TRUE]
  <2>1. n \in Sockets /\ Quiet(t, n)  BY <1>1, WithFlags, ZenonT(30) DEF Sockets, Quiet
  <2> HIDE DEF n
  <2>2. EstablishedClose(n) \in Sockets  BY <2>1, EstablishedCloseType
  <2>3. Quiet(n, EstablishedClose(n)) /\ EstablishedClose(n).toSend = "FIN"
    BY <2>1 DEF EstablishedClose, Queue, Quiet, Sockets
  <2> DEFINE e == EstablishedClose(n)
  <2> HIDE DEF e
  <2>4. e \in Sockets /\ Quiet(n, e) /\ e.toSend = "FIN"  BY <2>2, <2>3 DEF e
  <2>5. [e EXCEPT !.state = "CLOSING"] \in Sockets  BY <2>4, WithState
  <2>6. Keeps(t, [e EXCEPT !.state = "CLOSING"])
    BY <1>2, <2>1, <2>4 DEF Keeps, HeldCall, InSlot, Quiet, Sockets
  <2> QED BY <2>5, <2>6 DEF EstablishedTakeFin, e, n
<1>4. u \in Sockets /\ Keeps(t, u)
  BY <1>1, <1>3 DEF Keeps
<1> HIDE DEF u
<1>5. Keeps(u, TakeSeq(u, m))  BY <1>4, TakeSeqKeeps
<1> QED BY <1>2, <1>4, <1>5 DEF EstablishedHandlePacket, Keeps, t, u

LEMMA ClosingHandlePacketKeeps ==
  ASSUME NEW s \in Sockets, NEW m \in Packets, s.state = "CLOSING"
  PROVE  Keeps(s, ClosingHandlePacket(s, m))
<1> DEFINE t == ClosingTakeAck(s, m)
           u == ClosingTakeFin(t, m)
           v == TakeSeq(u, m)
<1>1. t \in Sockets  BY ClosingTakeAckType
<1>2. Quiet(s, t) /\ Keeps(s, t)
  <2> DEFINE a == TakeAck(s, m)
  <2>1. a \in Sockets  BY TakeAckType
  <2>2. Quiet(s, a)  BY DEF TakeAck, ClearSlot, Quiet, Sockets
  <2> HIDE DEF a
  <2>3. CASE m.hasAck
    <3>1. t = [a EXCEPT !.finAckReced = TRUE]  BY <2>3 DEF ClosingTakeAck, a
    <3>2. Quiet(a, t) /\ t.finAckReced  BY <2>1, <3>1 DEF Quiet, Sockets
    <3> QED BY <2>2, <3>2 DEF Quiet, Keeps, HeldCall, InSlot
  <2>4. CASE ~m.hasAck
    BY <2>4 DEF ClosingTakeAck, Quiet, Keeps
  <2> QED BY <2>3, <2>4
<1> HIDE DEF t
<1>3. u \in Sockets /\ u.state = "CLOSING" /\ Keeps(t, u)
  <2> DEFINE n == [t EXCEPT !.finReced = TRUE]
  <2>1. /\ n \in Sockets /\ Quiet(t, n)
        /\ n.toSend = t.toSend /\ n.finAckReced = t.finAckReced
    BY <1>1 DEF Quiet, Sockets
  <2> HIDE DEF n
  <2>2. Keeps(t, n)  BY <1>2, <2>1 DEF Quiet, Keeps, HeldCall, InSlot
  <2>3. Keeps(t, t)  BY DEF Keeps
  <2>4. u = n \/ u = t  BY DEF ClosingTakeFin, n
  <2> QED BY <1>1, <1>2, <2>1, <2>2, <2>3, <2>4 DEF Quiet
<1> HIDE DEF u
<1>4. v \in Sockets /\ v.state = "CLOSING" /\ Keeps(u, v)
  BY <1>3, TakeSeqType, TakeSeqQuiet, TakeSeqKeeps DEF Quiet
<1> HIDE DEF v
<1>5. Keeps(v, ClosingDone(v))  BY <1>4, EnterClosedKeeps DEF ClosingDone, Keeps
<1> QED BY <1>2, <1>3, <1>4, <1>5 DEF ClosingHandlePacket, Keeps, t, u, v

LEMMA TakePacketKeeps ==
  ASSUME NEW s \in Sockets, NEW m \in Packets PROVE Keeps(s, TakePacket(s, m))
<1>1. s.state \in {"CLOSED", "CONNECTING", "ESTABLISHED", "CLOSING"}  BY DEF Sockets
<1>2. Keeps(s, StateHandlePacket(s, m))
  BY <1>1, ClosedHandlePacketKeeps, ConnectingHandlePacketKeeps,
     EstablishedHandlePacketKeeps, ClosingHandlePacketKeeps DEF StateHandlePacket
<1> QED BY <1>2, ConnectionErrorKeeps DEF TakePacket

LEMMA TimeOutKeeps ==
  ASSUME NEW s \in Sockets PROVE Keeps(s, TimeOut(s))
<1>1. CASE s.rto < RtoDoublings
  BY <1>1 DEF TimeOut, Keeps, HeldCall, InSlot, Sockets
<1>2. CASE ~(s.rto < RtoDoublings)
  <2> DEFINE c == ClearSlot(s)
             e == EndCtrl(c, AllCalls, FALSE)
  <2>1. c \in Sockets /\ e \in Sockets  BY ClearSlotType, EndCtrlType
  <2>2. Quiet(s, c)  BY DEF ClearSlot, Quiet, Sockets
  <2> HIDE DEF c
  <2>3. /\ e.para \in {c.para, None}
        /\ HeldCall(c) => HeldCall(e)
    BY <2>1 DEF EndCtrl, AllCalls, HeldCall, Sockets, None
  <2> HIDE DEF e
  <2>4. Keeps(e, ConnectionError(e)) /\ ConnectionError(e).state = "CLOSED"
    BY <2>1, ConnectionErrorKeeps
  <2>5. Keeps(s, ConnectionError(e))
    BY <2>2, <2>3, <2>4 DEF Keeps, HeldCall, InSlot, Quiet
  <2> QED BY <1>2, <2>5 DEF TimeOut, GiveUp, c, e
<1> QED BY <1>1, <1>2

LEMMA AfterSendKeeps ==
  ASSUME NEW s \in Sockets PROVE Keeps(s, AfterSend(s))
BY DEF AfterSend, Keeps, HeldCall, InSlot, Sockets

-----------------------------------------------------------------------------
(* The invariant behind CallHasState and Retransmits: every socket is sound,  *)
(* and no call is posted on the socket of a user who has not made one, so     *)
(* that a new call never replaces the one the lock is held for.               *)

NoStrayCall == \A p \in Peers :
  user[p] \in {"idle", "connecting"} => sock[p].para = None

ControlInv == TypeOK /\ CallHasState /\ Retransmits /\ NoStrayCall

Sound(s) == HeldCall(s) /\ InSlot(s)

LEMMA SoundForm ==
  ControlInv <=> /\ TypeOK
                 /\ NoStrayCall
                 /\ \A p \in Peers : Sound(sock[p])
BY DEF ControlInv, CallHasState, Retransmits, Sound, HeldCall, InSlot

LEMMA FreshSound == ASSUME NEW i PROVE Sound(FreshSocket(i)) /\ FreshSocket(i).para = None
BY DEF FreshSocket, Sound, HeldCall, InSlot

LEMMA KeepsSound == ASSUME NEW s, NEW t, Sound(s), Keeps(s, t) PROVE Sound(t)
BY DEF Sound, Keeps

LEMMA PolledKeeps == ASSUME NEW s \in Sockets PROVE Keeps(s, Polled(s))
<1>1. Keeps(s, s)  BY DEF Keeps
<1> QED BY <1>1, TakeCallKeeps DEF Polled

LEMMA HandledKeeps ==
  ASSUME NEW s \in Sockets, NEW packets \in SUBSET Packets, NEW t \in Handled(s, packets)
  PROVE  Keeps(s, t)
<1>1. Keeps(s, s)  BY DEF Keeps
<1> QED BY <1>1, TakePacketKeeps DEF Handled

LEMMA KeepsTrans ==
  ASSUME NEW s, NEW t, NEW u, Keeps(s, t), Keeps(t, u)
  PROVE  Keeps(s, u)
BY DEF Keeps

LEMMA TurnKeeps ==
  ASSUME TypeOK, NEW p \in Peers, NEW fires \in BOOLEAN, TurnOf(p, fires)
  PROVE  /\ Keeps(sock[p], sock'[p])
         /\ \A q \in Peers \ {p} : sock'[q] = sock[q]
         /\ user' = user
<1> DEFINE polled == Polled(sock[p])
<1>1. polled \in Sockets /\ Keeps(sock[p], polled)
  BY PolledType, PolledKeeps DEF TypeOK
<1> HIDE DEF polled
<1>2. PICK s \in Handled(polled, inbox[p]) :
        \/ sock' = [sock EXCEPT ![p] = s]
        \/ sock' = [sock EXCEPT ![p] = AfterSend(IF fires THEN TimeOut(s) ELSE s)]
  BY DEF TurnOf, polled
<1>3. s \in Sockets /\ Keeps(polled, s)
  BY <1>1, <1>2, HandledType, HandledKeeps DEF TypeOK
<1> DEFINE t == IF fires THEN TimeOut(s) ELSE s
<1>4. t \in Sockets /\ Keeps(s, t)
  <2>1. Keeps(s, s)  BY DEF Keeps
  <2> QED BY <1>3, <2>1, TimeOutType, TimeOutKeeps
<1>5. Keeps(t, AfterSend(t))  BY <1>4, AfterSendKeeps
<1>6. sock'[p] \in {s, AfterSend(t)}  BY <1>2 DEF TypeOK
<1> HIDE DEF t
<1>7. Keeps(polled, s) /\ Keeps(polled, AfterSend(t))
  BY <1>3, <1>4, <1>5, KeepsTrans
<1>8. Keeps(sock[p], sock'[p])  BY <1>1, <1>6, <1>7, KeepsTrans
<1> QED BY <1>2, <1>8 DEF TurnOf, TypeOK

LEMMA InitControl == Init => ControlInv
<1> SUFFICES ASSUME Init PROVE ControlInv  OBVIOUS
<1>1. TypeOK  BY InitType
<1>2. \A p \in Peers : sock[p] = FreshSocket(0)  BY DEF Init
<1> QED BY <1>1, <1>2, FreshSound, SoundForm DEF NoStrayCall

LEMMA TurnControl ==
  ASSUME ControlInv, NEW p \in Peers, NEW fires \in BOOLEAN, TurnOf(p, fires)
  PROVE  NoStrayCall' /\ \A q \in Peers : Sound(sock'[q])
<1>1. TypeOK /\ NoStrayCall /\ \A q \in Peers : Sound(sock[q])  BY SoundForm
<1>2. /\ Keeps(sock[p], sock'[p])
      /\ \A q \in Peers \ {p} : sock'[q] = sock[q]
      /\ user' = user
  BY <1>1, TurnKeeps
<1>3. \A q \in Peers : Sound(sock'[q])  BY <1>1, <1>2, KeepsSound
<1>4. NoStrayCall'  BY <1>1, <1>2 DEF NoStrayCall, Keeps
<1> QED BY <1>3, <1>4

LEMMA NextControl == ControlInv /\ [Next]_vars => ControlInv'
<1> SUFFICES ASSUME ControlInv, [Next]_vars PROVE ControlInv'  OBVIOUS
<1>1. TypeOK /\ NoStrayCall /\ \A q \in Peers : Sound(sock[q])  BY SoundForm
<1>2. TypeOK'  BY <1>1, NextType
<1> SUFFICES NoStrayCall' /\ \A q \in Peers : Sound(sock[q])'
  <2>1. (ControlInv <=> /\ TypeOK
                        /\ NoStrayCall
                        /\ \A p \in Peers : Sound(sock[p]))'
    BY SoundForm, PTL
  <2> QED BY <1>2, <2>1
<1>3. CASE UNCHANGED <<sock, user>>  BY <1>1, <1>3 DEF NoStrayCall
<1>4. ASSUME NEW p \in Peers, QuietTurn(p) \/ TimeoutTurn(p)
      PROVE  NoStrayCall' /\ \A q \in Peers : Sound(sock'[q])
  BY <1>4, TurnControl DEF QuietTurn, TimeoutTurn
<1>5. ASSUME NEW p \in Peers, NEW i, sock' = [sock EXCEPT ![p] = FreshSocket(i)],
             \A q \in Peers \ {p} : user'[q] = user[q]
      PROVE  NoStrayCall' /\ \A q \in Peers : Sound(sock'[q])
  BY <1>1, <1>5, FreshSound DEF NoStrayCall, TypeOK
<1>6. ASSUME NEW p \in Peers, NEW c \in {"CONNECT", "CLOSE"},
             user[p] \in {"idle", "connecting"},
             sock' = [sock EXCEPT ![p].para = c],
             user' = [user EXCEPT ![p] = IF c = "CONNECT" THEN "connect" ELSE "close"]
      PROVE  NoStrayCall' /\ \A q \in Peers : Sound(sock'[q])
  <2>1. ~sock[p].locked
    BY <1>1, <1>6 DEF NoStrayCall, Sound, HeldCall, None
  <2>2. /\ sock'[p].locked = sock[p].locked
        /\ sock'[p].state = sock[p].state /\ sock'[p].toSend = sock[p].toSend
        /\ sock'[p].synAckReced = sock[p].synAckReced
        /\ sock'[p].finAckReced = sock[p].finAckReced
    BY <1>1, <1>6 DEF TypeOK, Sockets
  <2>3. Sound(sock'[p])  BY <1>1, <2>1, <2>2 DEF Sound, HeldCall, InSlot
  <2>4. \A q \in Peers \ {p} : sock'[q] = sock[q] /\ user'[q] = user[q]
    BY <1>1, <1>6 DEF TypeOK
  <2>5. user'[p] \notin {"idle", "connecting"}  BY <1>1, <1>6 DEF TypeOK
  <2> QED BY <1>1, <2>3, <2>4, <2>5 DEF NoStrayCall
<1>7. ASSUME NEW p \in Peers, sock' = sock, sock[p].para = None,
             \A q \in Peers \ {p} : user'[q] = user[q]
      PROVE  NoStrayCall' /\ \A q \in Peers : Sound(sock'[q])
  BY <1>1, <1>7 DEF NoStrayCall
<1>8. ASSUME NEW p \in Peers, UserStep(p)
      PROVE  NoStrayCall' /\ \A q \in Peers : Sound(sock'[q])
  <2>1. CASE Connect(p)
    <3>1. CASE user' = [user EXCEPT ![p] = "connecting"]
      BY <1>1, <1>5, <1>7, <2>1, <3>1 DEF Connect, AddSocket, NoStrayCall, TypeOK
    <3>2. CASE UNCHANGED <<sock, user>>  BY <1>3, <3>2
    <3> QED BY <2>1, <3>1, <3>2 DEF Connect
  <2>2. CASE ConnectCall(p)  BY <1>6, <2>2 DEF ConnectCall
  <2>3. CASE ConnectReturn(p)
    BY <1>1, <1>5, <1>7, <2>3 DEF ConnectReturn, FreeSocket, TypeOK
  <2>4. CASE Accept(p)  BY <1>3, <2>4 DEF Accept
  <2>5. CASE CloseCall(p)  BY <1>6, <2>5 DEF CloseCall
  <2>6. CASE CloseReturn(p)  BY <1>1, <1>7, <2>6 DEF CloseReturn, TypeOK
  <2> QED BY <1>8, <2>1, <2>2, <2>3, <2>4, <2>5, <2>6 DEF UserStep
<1>9. ASSUME NEW p \in Peers, CoreStep(p) \/ Lose(p)
      PROVE  NoStrayCall' /\ \A q \in Peers : Sound(sock'[q])
  <2>1. CASE CreateOnSyn(p)  BY <1>5, <2>1 DEF CreateOnSyn, AddSocket
  <2>2. CASE Clean(p)  BY <1>5, <2>2 DEF Clean, FreeSocket
  <2>3. CASE UNCHANGED <<sock, user>>  BY <1>3, <2>3
  <2> QED BY <1>9, <2>1, <2>2, <2>3 DEF CoreStep, Deliver, Stray, Refuse, Lose
<1> QED BY <1>3, <1>4, <1>8, <1>9 DEF Next, vars

\* A user whose ump_connect or ump_close holds the control lock always has a
\* handshake in progress to wait for, in every interleaving.
THEOREM CallsHaveState == Spec => []CallHasState
<1>1. ControlInv => CallHasState  BY DEF ControlInv
<1> QED BY <1>1, InitControl, NextControl, PTL DEF Spec

\* An unacknowledged SYN or FIN is never dropped from the send slot by another
\* packet, call or error that leaves the handshake in progress.
THEOREM HandshakesRetransmit == Spec => []Retransmits
<1>1. ControlInv => Retransmits  BY DEF ControlInv
<1> QED BY <1>1, InitControl, NextControl, PTL DEF Spec

=============================================================================
