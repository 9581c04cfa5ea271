-------------------------- MODULE UmpConnectProofs -------------------------
(***************************************************************************)
(* The opening of a connection.  ump_connect succeeds only on a connection *)
(* whose SYNs have crossed: for any width of the numbers, any number of    *)
(* sockets, retransmissions and faults.  With one socket at an address the *)
(* two ends agree on each other's first numbers, and if only one of them   *)
(* opens, they use their numbers one at a time and close together.         *)
(***************************************************************************)
EXTENDS UmpHandshakeProofs, FiniteSetTheorems

-----------------------------------------------------------------------------
(* One socket and the call of ump_connect on it *)

BothSyns(s) == s.synReced /\ s.synAckReced

\* A connection that has been established has both.
Crossed(s) == s.state \in {"ESTABLISHED", "CLOSING"} => BothSyns(s)

\* A call that is no close was answered with success only on such a connection.
Answered(s) == s.para # "CLOSE" /\ (s.para = None /\ s.ok => BothSyns(s))

\* What a function of the socket's thread may do to a socket
Grants(s, t) ==
  /\ s.synReced => t.synReced
  /\ s.synAckReced => t.synAckReced
  /\ Crossed(s) => Crossed(t)
  /\ Crossed(s) /\ Answered(s) => Answered(t)

\* Most functions leave the state and the call alone.
Silent(s, t) ==
  /\ t.state = s.state /\ t.para = s.para /\ t.ok = s.ok
  /\ s.synReced => t.synReced
  /\ s.synAckReced => t.synAckReced

LEMMA SilentGrants == ASSUME NEW s, NEW t, Silent(s, t) PROVE Grants(s, t)
BY DEF Silent, Grants, Crossed, Answered, BothSyns

LEMMA SilentTrans ==
  ASSUME NEW s, NEW t, NEW u, Silent(s, t), Silent(t, u) PROVE Silent(s, u)
BY DEF Silent

LEMMA GrantsItself == ASSUME NEW s PROVE Grants(s, s) /\ Silent(s, s)
BY DEF Grants, Silent

LEMMA GrantsTrans ==
  ASSUME NEW s, NEW t, NEW u, Grants(s, t), Grants(t, u) PROVE Grants(s, u)
BY DEF Grants

LEMMA SilentSteps ==
  ASSUME NEW s \in Sockets, NEW m
  PROVE  /\ \A k \in {"SYN", "FIN"} : Silent(s, Queue(s, k))
         /\ Silent(s, SetAck(s))
         /\ Silent(s, ClearSlot(s))
         /\ Silent(s, TakeAck(s, m))
         /\ Silent(s, TakeSeq(s, m))
         /\ Silent(s, TakeSyn(s, m))
         /\ Silent(s, AfterSend(s))
<1>1. \A k \in {"SYN", "FIN"} : Silent(s, Queue(s, k))  BY DEF Silent, Queue, Sockets
<1>2. Silent(s, SetAck(s))  BY DEF Silent, SetAck, Sockets
<1>3. Silent(s, ClearSlot(s))  BY DEF Silent, ClearSlot, Sockets
<1>4. Silent(s, TakeAck(s, m))  BY <1>3, GrantsItself DEF TakeAck
<1>5. Silent(s, TakeSeq(s, m))
  BY DEF Silent, TakeSeq, CountSeq, SetAck, Sockets
<1>6. Silent(s, TakeSyn(s, m))  BY DEF Silent, TakeSyn, SetAck, Sockets
<1>7. Silent(s, AfterSend(s))  BY DEF Silent, AfterSend, Sockets
<1> QED BY <1>1, <1>2, <1>3, <1>4, <1>5, <1>6, <1>7

\* ctrllock_sm_end_ctrl with a failure, for a close, or on an open connection
LEMMA EndCtrlGrants ==
  ASSUME NEW s \in Sockets, NEW ms, NEW r \in BOOLEAN,
         ~r \/ ms = {"CLOSE"} \/ s.state = "ESTABLISHED"
  PROVE  Grants(s, EndCtrl(s, ms, r))
<1> DEFINE t == [s EXCEPT !.ok = r, !.para = None, !.locked = FALSE]
<1>1. CASE s.locked /\ s.para \in ms
  <2>1. EndCtrl(s, ms, r) = t  BY <1>1 DEF EndCtrl
  <2>2. /\ t.state = s.state /\ t.para = None /\ t.ok = r
        /\ t.synReced = s.synReced /\ t.synAckReced = s.synAckReced
    BY DEF Sockets
  <2> HIDE DEF t
  <2>3. None # "CLOSE"  BY DEF None
  <2> QED BY <1>1, <2>1, <2>2, <2>3 DEF Grants, Crossed, Answered, BothSyns
<1>2. CASE ~(s.locked /\ s.para \in ms)
  BY <1>2, GrantsItself DEF EndCtrl
<1> QED BY <1>1, <1>2

LEMMA StateGrants ==
  ASSUME NEW s \in Sockets, NEW st,
         \/ st \in {"CLOSED", "CONNECTING"}
         \/ st = "CLOSING" /\ s.state = "ESTABLISHED"
         \/ st = "ESTABLISHED" /\ BothSyns(s)
  PROVE  Grants(s, [s EXCEPT !.state = st])
<1> DEFINE t == [s EXCEPT !.state = st]
<1>1. /\ t.state = st /\ t.para = s.para /\ t.ok = s.ok
      /\ t.synReced = s.synReced /\ t.synAckReced = s.synAckReced
  BY DEF Sockets
<1> HIDE DEF t
<1>2. Grants(s, t)  BY <1>1 DEF Grants, Crossed, Answered, BothSyns
<1> QED BY <1>2 DEF t

LEMMA EnterEstablishedGrants ==
  ASSUME NEW s \in Sockets, BothSyns(s) PROVE Grants(s, EnterEstablished(s))
<1> DEFINE t == [s EXCEPT !.state = "ESTABLISHED"]
<1>1. t \in Sockets /\ t.state = "ESTABLISHED"  BY WithState DEF Sockets
<1>2. Grants(s, t)  BY StateGrants
<1> HIDE DEF t
<1>3. Grants(t, EndCtrl(t, {"CONNECT"}, TRUE))  BY <1>1, EndCtrlGrants
<1> QED BY <1>2, <1>3, GrantsTrans DEF EnterEstablished, t

LEMMA EnterClosedGrants ==
  ASSUME NEW s \in Sockets PROVE Grants(s, EnterClosed(s))
<1> DEFINE t == [s EXCEPT !.state = "CLOSED"]
<1>1. t \in Sockets  BY WithState
<1>2. Grants(s, t)  BY StateGrants
<1> HIDE DEF t
<1>3. Grants(t, EndCtrl(t, {"CLOSE"}, TRUE))  BY <1>1, EndCtrlGrants
<1> QED BY <1>2, <1>3, GrantsTrans DEF EnterClosed, t

LEMMA ConnectionErrorGrants ==
  ASSUME NEW s \in Sockets PROVE Grants(s, ConnectionError(s))
<1> DEFINE t == [s EXCEPT !.error = TRUE]
           c == EnterClosed(t)
<1>1. t \in Sockets /\ Silent(s, t)  BY DEF Sockets, Silent
<1> HIDE DEF t
<1>2. c \in Sockets /\ Grants(t, c)  BY <1>1, EnterClosedType, EnterClosedGrants
<1> HIDE DEF c
<1>3. Grants(c, EndCtrl(c, AllCalls, FALSE))  BY <1>2, EndCtrlGrants
<1> QED BY <1>1, <1>2, <1>3, SilentGrants, GrantsTrans DEF ConnectionError, c, t

-----------------------------------------------------------------------------
(* The user's calls *)

LEMMA TakeCallGrants == ASSUME NEW s \in Sockets PROVE Grants(s, TakeCall(s))
<1> DEFINE t == [s EXCEPT !.locked = TRUE]
<1>1. t \in Sockets /\ Silent(s, t)  BY DEF Sockets, Silent
<1>2. SUFFICES Grants(t, TakeCall(s))  BY <1>1, SilentGrants, GrantsTrans
<1>3. TakeCall(s) = IF s.error THEN EndCtrl(t, AllCalls, FALSE) ELSE StateHandleCtrl(t)
  BY DEF TakeCall
<1> HIDE DEF t
<1>4. t.state \in {"CLOSED", "CONNECTING", "ESTABLISHED", "CLOSING"}  BY <1>1 DEF Sockets
<1>5. Grants(t, EndCtrl(t, AllCalls, FALSE)) /\ Grants(t, EndCtrl(t, {"CLOSE"}, FALSE))
      /\ Grants(t, EndCtrl(t, {"CONNECT"}, FALSE)) /\ Grants(t, EndCtrl(t, {"CLOSE"}, TRUE))
  BY <1>1, EndCtrlGrants
<1>6. Grants(t, ClosedHandleCtrl(t))
  <2>1. CASE t.para = "CONNECT"
    <3> DEFINE c == ClosedConnect(t)
    <3>1. c \in Sockets /\ Silent(t, c)
      BY <1>1, ClosedConnectType, SilentSteps DEF ClosedConnect
    <3> HIDE DEF c
    <3>2. Grants(c, [c EXCEPT !.state = "CONNECTING"])  BY <3>1, StateGrants
    <3> QED BY <2>1, <3>1, <3>2, SilentGrants, GrantsTrans DEF ClosedHandleCtrl, c
  <2> QED BY <1>5, <2>1 DEF ClosedHandleCtrl
<1>7. ASSUME t.state = "ESTABLISHED" PROVE Grants(t, EstablishedHandleCtrl(t))
  <2>1. CASE t.para = "CLOSE"
    <3> DEFINE c == EstablishedClose(t)
    <3>1. c \in Sockets /\ Silent(t, c) /\ c.state = "ESTABLISHED"
      BY <1>1, <1>7, EstablishedCloseType, SilentSteps DEF EstablishedClose, Silent
    <3> HIDE DEF c
    <3>2. Grants(c, [c EXCEPT !.state = "CLOSING"])  BY <3>1, StateGrants
    <3> QED BY <2>1, <3>1, <3>2, SilentGrants, GrantsTrans DEF EstablishedHandleCtrl, c
  <2>2. Grants(t, EndCtrl(t, {"CONNECT"}, TRUE))  BY <1>1, <1>7, EndCtrlGrants
  <2> QED BY <2>1, <2>2 DEF EstablishedHandleCtrl
<1>8. Grants(t, StateHandleCtrl(t))
  BY <1>4, <1>5, <1>6, <1>7 DEF StateHandleCtrl, ConnectingHandleCtrl, ClosingHandleCtrl
<1> QED BY <1>3, <1>5, <1>8

-----------------------------------------------------------------------------
(* The peer's packets and the timer *)

LEMMA ClosedHandlePacketGrants ==
  ASSUME NEW s \in Sockets, NEW m \in Packets PROVE Grants(s, ClosedHandlePacket(s, m))
<1>1. CASE m.kind = "SYN" /\ ~s.synReced
  <2> DEFINE c == ClosedConnect(s)
             u == TakeSyn(c, m)
  <2>1. c \in Sockets /\ Silent(s, c)
    BY ClosedConnectType, SilentSteps DEF ClosedConnect
  <2> HIDE DEF c
  <2>2. u \in Sockets /\ Silent(c, u)  BY <2>1, TakeSynType, SilentSteps
  <2> HIDE DEF u
  <2>3. Grants(u, [u EXCEPT !.state = "CONNECTING"])  BY <2>2, StateGrants
  <2>4. Grants(s, u)  BY <2>1, <2>2, SilentTrans, SilentGrants
  <2> QED BY <1>1, <2>3, <2>4, GrantsTrans DEF ClosedHandlePacket, u, c
<1>2. Grants(s, TakeSeq(s, m))  BY SilentSteps, SilentGrants
<1> QED BY <1>1, <1>2 DEF ClosedHandlePacket

LEMMA ConnectingHandlePacketGrants ==
  ASSUME NEW s \in Sockets, NEW m \in Packets PROVE Grants(s, ConnectingHandlePacket(s, m))
<1> DEFINE a == TakeAck(s, m)
           t == ConnectingTakeAck(s, m)
           u == IF m.kind = "SYN" THEN TakeSyn(t, m) ELSE TakeSeq(t, m)
<1>1. a \in Sockets /\ Silent(s, a)  BY TakeAckType, SilentSteps
<1>2. t = [a EXCEPT !.synAckReced = TRUE] \/ t = s  BY DEF ConnectingTakeAck
<1>3. t \in Sockets  BY ConnectingTakeAckType
<1> HIDE DEF a, t
<1>4. Silent(s, t)
  <2>1. Silent(a, [a EXCEPT !.synAckReced = TRUE])  BY <1>1 DEF Silent, Sockets
  <2> QED BY <1>1, <1>2, <2>1, SilentTrans, GrantsItself
<1>5. u \in Sockets /\ Silent(t, u)  BY <1>3, TakeSynType, TakeSeqType, SilentSteps
<1>6. Silent(t, SetAck(t))  BY <1>3, SilentSteps
<1>7. ConnectingHandlePacket(s, m) \in {SetAck(t), ConnectingDone(u)}
  BY DEF ConnectingHandlePacket, t
<1> HIDE DEF u
<1>8. Grants(u, ConnectingDone(u))
  BY <1>5, EnterEstablishedGrants, GrantsItself DEF ConnectingDone, BothSyns
<1>9. Grants(s, t) /\ Grants(t, u) /\ Grants(t, SetAck(t))
  BY <1>4, <1>5, <1>6, SilentGrants
<1> QED BY <1>7, <1>8, <1>9, GrantsTrans

LEMMA EstablishedHandlePacketGrants ==
  ASSUME NEW s \in Sockets, NEW m \in Packets, s.state = "ESTABLISHED"
  PROVE  Grants(s, EstablishedHandlePacket(s, m))
<1> DEFINE c == ClearSlot(s)
           t == EstablishedTakeAck(s, m)
           n == [t EXCEPT !.finReced = TRUE]
           e == EstablishedClose(n)
           f == [e EXCEPT !.state = "CLOSING"]
           u == IF IsNextFin(t, m) THEN EstablishedTakeFin(t) ELSE t
<1>1. c \in Sockets /\ Silent(s, c) /\ c.state = "ESTABLISHED"
  BY ClearSlotType, SilentSteps DEF Silent
<1>2. t = EndCtrl(c, AllCalls, TRUE) \/ t = s  BY DEF EstablishedTakeAck
<1>3. t \in Sockets  BY EstablishedTakeAckType
<1> HIDE DEF c, t
<1>4. Grants(s, t)
  <2>1. Grants(c, EndCtrl(c, AllCalls, TRUE))  BY <1>1, EndCtrlGrants
  <2> QED BY <1>1, <1>2, <2>1, SilentGrants, GrantsItself, GrantsTrans
<1>5. t.state = "ESTABLISHED"
  BY <1>1, <1>2 DEF EndCtrl, Sockets
<1>6. n \in Sockets /\ Silent(t, n) /\ n.state = "ESTABLISHED"
  <2>1. n \in Sockets  BY <1>3, WithFlags
  <2> QED BY <1>3, <1>5, <2>1 DEF Silent, Sockets
<1> HIDE DEF n
<1>7. e \in Sockets /\ Silent(n, e) /\ e.state = "ESTABLISHED"
  BY <1>6, EstablishedCloseType, SilentSteps DEF EstablishedClose, Silent
<1> HIDE DEF e
<1>8. f \in Sockets /\ Grants(e, f)  BY <1>7, WithState, StateGrants
<1>9. EstablishedTakeFin(t) = f  BY DEF EstablishedTakeFin, f, e, n
<1> HIDE DEF f
<1>10. Grants(t, f)
  BY <1>6, <1>7, <1>8, SilentTrans, SilentGrants, GrantsTrans
<1>11. u \in Sockets /\ Grants(t, u)  BY <1>3, <1>8, <1>9, <1>10, GrantsItself
<1>12. EstablishedHandlePacket(s, m) = TakeSeq(u, m)  BY DEF EstablishedHandlePacket, t
<1> HIDE DEF u
<1>13. Grants(u, TakeSeq(u, m))  BY <1>11, SilentSteps, SilentGrants
<1> QED BY <1>4, <1>11, <1>12, <1>13, GrantsTrans

LEMMA ClosingHandlePacketGrants ==
  ASSUME NEW s \in Sockets, NEW m \in Packets PROVE Grants(s, ClosingHandlePacket(s, m))
<1> DEFINE a == TakeAck(s, m)
           t == ClosingTakeAck(s, m)
           u == ClosingTakeFin(t, m)
           v == TakeSeq(u, m)
<1>1. a \in Sockets /\ Silent(s, a)  BY TakeAckType, SilentSteps
<1>2. t = [a EXCEPT !.finAckReced = TRUE] \/ t = s  BY DEF ClosingTakeAck
<1>3. t \in Sockets  BY ClosingTakeAckType
<1> HIDE DEF a, t
<1>4. Silent(s, t)
  <2>1. Silent(a, [a EXCEPT !.finAckReced = TRUE])  BY <1>1 DEF Silent, Sockets
  <2> QED BY <1>1, <1>2, <2>1, SilentTrans, GrantsItself
<1>5. u \in Sockets /\ Silent(t, u)
  <2>1. Silent(t, [t EXCEPT !.finReced = TRUE])  BY <1>3 DEF Silent, Sockets
  <2> QED BY <1>3, <2>1, WithFlags, GrantsItself DEF ClosingTakeFin
<1> HIDE DEF u
<1>6. v \in Sockets /\ Silent(u, v)  BY <1>5, TakeSeqType, SilentSteps
<1>7. ClosingHandlePacket(s, m) = ClosingDone(v)  BY DEF ClosingHandlePacket, v, u, t
<1> HIDE DEF v
<1>8. Grants(v, ClosingDone(v))  BY <1>6, EnterClosedGrants, GrantsItself DEF ClosingDone
<1>9. Grants(s, v)  BY <1>4, <1>5, <1>6, SilentTrans, SilentGrants
<1> QED BY <1>7, <1>8, <1>9, GrantsTrans

LEMMA TakePacketGrants ==
  ASSUME NEW s \in Sockets, NEW m \in Packets PROVE Grants(s, TakePacket(s, m))
<1>1. s.state \in {"CLOSED", "CONNECTING", "ESTABLISHED", "CLOSING"}  BY DEF Sockets
<1>2. Grants(s, StateHandlePacket(s, m))
  BY <1>1, ClosedHandlePacketGrants, ConnectingHandlePacketGrants,
     EstablishedHandlePacketGrants, ClosingHandlePacketGrants DEF StateHandlePacket
<1> QED BY <1>2, ConnectionErrorGrants DEF TakePacket

LEMMA TimeOutGrants == ASSUME NEW s \in Sockets PROVE Grants(s, TimeOut(s))
<1>1. CASE s.rto < RtoDoublings
  <2>1. Silent(s, [s EXCEPT !.sent = FALSE, !.rto = s.rto + 1])  BY DEF Silent, Sockets
  <2> QED BY <1>1, <2>1, SilentGrants DEF TimeOut
<1>2. CASE ~(s.rto < RtoDoublings)
  <2> DEFINE c == ClearSlot(s)
             e == EndCtrl(c, AllCalls, FALSE)
  <2>1. c \in Sockets /\ Silent(s, c)  BY ClearSlotType, SilentSteps
  <2>2. e \in Sockets /\ Grants(c, e)  BY <2>1, EndCtrlType, EndCtrlGrants
  <2>3. TimeOut(s) = ConnectionError(e)  BY <1>2 DEF TimeOut, GiveUp
  <2> HIDE DEF c, e
  <2>4. Grants(e, ConnectionError(e))  BY <2>2, ConnectionErrorGrants
  <2> QED BY <2>1, <2>2, <2>3, <2>4, SilentGrants, GrantsTrans
<1> QED BY <1>1, <1>2

LEMMA TurnGrants ==
  ASSUME TypeOK, NEW p \in Peers, NEW fires \in BOOLEAN, TurnOf(p, fires)
  PROVE  Grants(sock[p], sock'[p])
<1> DEFINE polled == Polled(sock[p])
<1>1. polled \in Sockets /\ Grants(sock[p], polled)
  BY PolledType, TakeCallGrants, GrantsItself DEF TypeOK, Polled
<1> HIDE DEF polled
<1>2. PICK s \in Handled(polled, inbox[p]) :
        \/ sock' = [sock EXCEPT ![p] = s]
        \/ sock' = [sock EXCEPT ![p] = AfterSend(IF fires THEN TimeOut(s) ELSE s)]
  BY DEF TurnOf, polled
<1>3. s \in Sockets /\ Grants(polled, s)
  <2>1. s \in Sockets  BY <1>1, <1>2, HandledType DEF TypeOK
  <2>2. inbox[p] \subseteq Packets  BY DEF TypeOK
  <2> QED BY <1>1, <1>2, <2>1, <2>2, TakePacketGrants, GrantsItself DEF Handled
<1> DEFINE t == IF fires THEN TimeOut(s) ELSE s
<1>4. t \in Sockets /\ Grants(s, t)
  BY <1>3, TimeOutType, TimeOutGrants, GrantsItself
<1>5. sock'[p] \in {s, AfterSend(t)}  BY <1>2 DEF TypeOK
<1> HIDE DEF t
<1>6. Grants(t, AfterSend(t))  BY <1>4, SilentSteps, SilentGrants
<1>7. Grants(polled, s) /\ Grants(polled, AfterSend(t))
  BY <1>3, <1>4, <1>6, GrantsTrans
<1> QED BY <1>1, <1>5, <1>7, GrantsTrans

-----------------------------------------------------------------------------
(* The system *)

\* While ump_connect is at work the socket is in act_connect, and what the thread has
\* answered is true of the connection.
Waiting(p) ==
  /\ user[p] \in {"connecting", "connect"} => table[p] = "act_connect"
  /\ user[p] = "connect" => Answered(sock[p])

ConnectInv == TypeOK /\ \A p \in Peers : Crossed(sock[p]) /\ Waiting(p)

LEMMA FreshCrossed == ASSUME NEW i PROVE Crossed(FreshSocket(i))
BY DEF FreshSocket, Crossed

LEMMA InitConnect == Init => ConnectInv
<1> SUFFICES ASSUME Init PROVE ConnectInv  OBVIOUS
<1>1. \A p \in Peers : sock[p] = FreshSocket(0) /\ user[p] = "idle"  BY DEF Init
<1> QED BY <1>1, InitType, FreshCrossed DEF ConnectInv, Waiting

\* A step at one address: what it leaves there, and what it leaves of the other
LEMMA StepAt ==
  ASSUME ConnectInv, TypeOK', NEW p \in Peers,
         \A q \in Peers \ {p} : sock'[q] = sock[q] /\ user'[q] = user[q] /\ table'[q] = table[q],
         Crossed(sock'[p]),
         user'[p] \in {"connecting", "connect"} => table'[p] = "act_connect",
         user'[p] = "connect" => Answered(sock'[p])
  PROVE  ConnectInv'
<1>1. \A q \in Peers : Crossed(sock'[q]) /\ Waiting(q)'
  BY DEF ConnectInv, Waiting
<1> QED BY <1>1 DEF ConnectInv

LEMMA TurnConnect ==
  ASSUME ConnectInv, TypeOK', NEW p \in Peers, NEW fires \in BOOLEAN, TurnOf(p, fires)
  PROVE  ConnectInv'
<1>1. TypeOK /\ Crossed(sock[p]) /\ Waiting(p)  BY DEF ConnectInv
<1>2. Grants(sock[p], sock'[p])  BY <1>1, TurnGrants
<1>3. /\ \A q \in Peers \ {p} : sock'[q] = sock[q]
      /\ user' = user /\ table' = table
  BY <1>1, TurnKeeps DEF TurnOf
<1>4. Crossed(sock'[p])  BY <1>1, <1>2 DEF Grants
<1>5. user[p] = "connect" => Answered(sock'[p])  BY <1>1, <1>2 DEF Grants, Waiting
<1> QED BY <1>1, <1>3, <1>4, <1>5, StepAt DEF Waiting

LEMMA FreshConnect ==
  ASSUME ConnectInv, TypeOK', NEW p \in Peers, NEW i, NEW t, NEW u \in {"idle", "connecting"},
         sock' = [sock EXCEPT ![p] = FreshSocket(i)], table' = [table EXCEPT ![p] = t],
         user' = [user EXCEPT ![p] = u], u = "connecting" => t = "act_connect"
  PROVE  ConnectInv'
<1>1. TypeOK  BY DEF ConnectInv
<1>2. sock'[p] = FreshSocket(i) /\ table'[p] = t /\ user'[p] = u  BY <1>1 DEF TypeOK
<1>3. \A q \in Peers \ {p} : sock'[q] = sock[q] /\ user'[q] = user[q] /\ table'[q] = table[q]
  BY <1>1 DEF TypeOK
<1> QED BY <1>2, <1>3, FreshCrossed, StepAt

LEMMA SameSockConnect ==
  ASSUME ConnectInv, TypeOK', NEW p \in Peers, UNCHANGED sock, user'[p] # "connect",
         user'[p] = "connecting" => table'[p] = "act_connect",
         \A q \in Peers \ {p} : user'[q] = user[q] /\ table'[q] = table[q]
  PROVE  ConnectInv'
<1>1. Crossed(sock'[p])  BY DEF ConnectInv
<1> QED BY <1>1, StepAt

LEMMA CallConnect ==
  ASSUME ConnectInv, TypeOK', NEW p \in Peers, NEW c \in {"CONNECT", "CLOSE"},
         sock' = [sock EXCEPT ![p].para = c], table' = table,
         c = "CONNECT" => user[p] = "connecting",
         user' = [user EXCEPT ![p] = IF c = "CONNECT" THEN "connect" ELSE "close"]
  PROVE  ConnectInv'
<1>1. TypeOK /\ Crossed(sock[p]) /\ Waiting(p)  BY DEF ConnectInv
<1>2. /\ sock'[p].para = c /\ sock'[p].state = sock[p].state
      /\ sock'[p].synReced = sock[p].synReced /\ sock'[p].synAckReced = sock[p].synAckReced
      /\ user'[p] = IF c = "CONNECT" THEN "connect" ELSE "close"
  BY <1>1 DEF TypeOK, Sockets
<1>3. \A q \in Peers \ {p} : sock'[q] = sock[q] /\ user'[q] = user[q]
  BY <1>1 DEF TypeOK
<1>4. Crossed(sock'[p])  BY <1>1, <1>2 DEF Crossed, BothSyns
<1>5. user'[p] = "connect" => Answered(sock'[p])  BY <1>2 DEF Answered, None
<1> QED BY <1>1, <1>2, <1>3, <1>4, <1>5, StepAt DEF Waiting

LEMMA NextConnect == ConnectInv /\ [Next]_vars => ConnectInv'
<1> SUFFICES ASSUME ConnectInv, [Next]_vars PROVE ConnectInv'  OBVIOUS
<1>1. TypeOK /\ \A p \in Peers : Crossed(sock[p]) /\ Waiting(p)  BY DEF ConnectInv
<1>2. TypeOK'  BY <1>1, NextType
<1>3. CASE UNCHANGED <<sock, user, table>>
  BY <1>1, <1>2, <1>3 DEF ConnectInv, Waiting
<1>4. ASSUME NEW p \in Peers, QuietTurn(p) \/ TimeoutTurn(p) PROVE ConnectInv'
  BY <1>2, <1>4, TurnConnect DEF QuietTurn, TimeoutTurn
<1>5. ASSUME NEW p \in Peers, UserStep(p) PROVE ConnectInv'
  <2>0. user \in [Peers -> Calls] /\ table \in [Peers -> Tables]
    BY <1>1 DEF TypeOK
  <2>1. CASE Connect(p)
    <3>1. CASE AddSocket(p, "act_connect", {}) /\ user' = [user EXCEPT ![p] = "connecting"]
      BY <1>2, <3>1, FreshConnect DEF AddSocket
    <3>2. CASE /\ table' = [table EXCEPT ![p] = "act_connect"]
               /\ user' = [user EXCEPT ![p] = "connecting"] /\ UNCHANGED sock
      BY <1>2, <2>0, <3>2, SameSockConnect
    <3>3. CASE table' = [table EXCEPT ![p] = "orphan"] /\ UNCHANGED <<sock, user>>
      BY <1>2, <2>0, <2>1, <3>3, SameSockConnect DEF Connect
    <3> QED BY <2>1, <3>1, <3>2, <3>3 DEF Connect
  <2>2. CASE ConnectCall(p)  BY <1>2, <2>2, CallConnect DEF ConnectCall
  <2>3. CASE ConnectReturn(p)
    <3>1. CASE sock[p].ok
      BY <1>2, <2>0, <2>3, <3>1, SameSockConnect DEF ConnectReturn
    <3>2. CASE ~sock[p].ok
      BY <1>2, <2>3, <3>2, FreshConnect DEF ConnectReturn, FreeSocket
    <3> QED BY <3>1, <3>2
  <2>4. CASE Accept(p)  BY <1>2, <2>0, <2>4, SameSockConnect DEF Accept
  <2>5. CASE CloseCall(p)  BY <1>2, <2>5, CallConnect DEF CloseCall
  <2>6. CASE CloseReturn(p)  BY <1>2, <2>0, <2>6, SameSockConnect DEF CloseReturn
  <2> QED BY <1>5, <2>1, <2>2, <2>3, <2>4, <2>5, <2>6 DEF UserStep
<1>6. ASSUME NEW p \in Peers, CoreStep(p) \/ Lose(p) PROVE ConnectInv'
  <2>1. CASE CreateOnSyn(p) \/ Clean(p)
    <3>1. PICK i, t : /\ sock' = [sock EXCEPT ![p] = FreshSocket(i)]
                      /\ table' = [table EXCEPT ![p] = t] /\ user' = user
      BY <2>1 DEF CreateOnSyn, AddSocket, Clean, FreeSocket
    <3>2. user[p] \notin {"connecting", "connect"}
      BY <1>1, <2>1 DEF CreateOnSyn, Clean, Exists, Waiting
    <3>3. /\ sock'[p] = FreshSocket(i)
          /\ \A q \in Peers \ {p} : sock'[q] = sock[q] /\ table'[q] = table[q]
      BY <1>1, <3>1 DEF TypeOK
    <3> QED BY <1>2, <3>1, <3>2, <3>3, FreshCrossed, StepAt
  <2>2. CASE UNCHANGED <<sock, user, table>>  BY <1>3, <2>2
  <2> QED BY <1>6, <2>1, <2>2 DEF CoreStep, Deliver, Stray, Refuse, Lose
<1> QED BY <1>3, <1>4, <1>5, <1>6 DEF Next, vars

\* ump_connect moves a socket to umps only after the peer's SYN and the acknowledgement
\* of its own, whichever of them came first, through whatever losses, retransmissions
\* and stray resets, and for a socket that the peer's SYN had put into the backlog too.
THEOREM ConnectsAfterHandshake == Spec => ConnectSucceeds
<1>1. ASSUME ConnectInv, [Next]_vars, NEW p \in Peers, user[p] = "connect", table'[p] = "umps",
             ~(UNCHANGED vars)
      PROVE  sock[p].synReced /\ sock[p].synAckReced
  <2>1. table[p] = "act_connect" /\ Answered(sock[p]) /\ TypeOK
    BY <1>1 DEF ConnectInv, Waiting
  <2>2. table'[p] # table[p]  BY <1>1, <2>1
  <2>3. PICK q \in Peers :
          QuietTurn(q) \/ TimeoutTurn(q) \/ UserStep(q) \/ CoreStep(q) \/ Lose(q)
    BY <1>1 DEF Next
  <2>4. UserStep(q) \/ CreateOnSyn(q) \/ Clean(q)
    BY <2>2, <2>3 DEF QuietTurn, TimeoutTurn, TurnOf, CoreStep, Deliver, Stray, Refuse, Lose
  <2>5. q = p
    BY <2>1, <2>2, <2>4 DEF TypeOK, UserStep, Connect, ConnectCall, ConnectReturn, Accept,
       CloseCall, CloseReturn, CreateOnSyn, Clean, AddSocket, FreeSocket
  <2>6. ConnectReturn(p) /\ sock[p].ok
    BY <1>1, <2>1, <2>2, <2>4, <2>5 DEF TypeOK, UserStep, Connect, ConnectCall, ConnectReturn,
       Accept, CloseCall, CloseReturn, CreateOnSyn, Clean, FreeSocket, Exists
  <2> QED BY <2>1, <2>6 DEF ConnectReturn, Answered, BothSyns
<1>2. ConnectInv /\ [Next]_vars =>
        [\A p \in Peers : user[p] = "connect" /\ table'[p] = "umps" =>
            sock[p].synReced /\ sock[p].synAckReced]_vars
  BY <1>1
<1> QED BY <1>2, InitConnect, NextConnect, PTL DEF Spec, ConnectSucceeds

-----------------------------------------------------------------------------
(* The two addresses, and the kinds of step                                  *)

LEMMA Pair ==
  ASSUME NEW p \in Peers
  PROVE  /\ Other(p) \in Peers /\ Other(p) # p /\ Other(Other(p)) = p
         /\ \A q \in Peers : q = p \/ q = Other(p)
<1>1. IsFiniteSet(Peers \ {p}) /\ Cardinality(Peers \ {p}) = 1
  BY PeersAssumption, FS_RemoveElement
<1>2. PICK x : Peers \ {p} = {x}  BY <1>1, FS_Singleton
<1>3. x \in Peers /\ x # p /\ \A q \in Peers : q # p => q = x  BY <1>2
<1>4. Other(p) = x  BY <1>3 DEF Other
<1>5. Other(x) = p  BY <1>3 DEF Other
<1> QED BY <1>3, <1>4, <1>5

\* A user in a call has a socket, in a table where nothing else takes it out.
InCall == \A p \in Peers : user[p] # "idle" => table[p] \in {"act_connect", "umps"}

LEMMA NextInCall == TypeOK /\ InCall /\ [Next]_vars => InCall'
<1> SUFFICES ASSUME TypeOK, InCall, [Next]_vars PROVE InCall'  OBVIOUS
<1>1. user \in [Peers -> Calls] /\ table \in [Peers -> Tables]  BY DEF TypeOK
<1>2. CASE UNCHANGED <<user, table>>  BY <1>2 DEF InCall
<1>3. ASSUME NEW p \in Peers, NEW t, table' = [table EXCEPT ![p] = t], user'[p] = "idle",
             \A q \in Peers \ {p} : user'[q] = user[q]
      PROVE  InCall'
  BY <1>1, <1>3 DEF InCall
<1>4. ASSUME NEW p \in Peers,
             \A q \in Peers \ {p} : user'[q] = user[q] /\ table'[q] = table[q],
             table'[p] \in {"act_connect", "umps"}
      PROVE  InCall'
  BY <1>4 DEF InCall
<1>5. ASSUME NEW p \in Peers, UserStep(p) PROVE InCall'
  <2>1. CASE Connect(p)  BY <1>1, <1>3, <1>4, <2>1 DEF Connect, AddSocket
  <2>2. CASE ConnectCall(p)  BY <1>1, <1>4, <2>2 DEF ConnectCall, InCall
  <2>3. CASE ConnectReturn(p)
    BY <1>1, <1>3, <2>3 DEF ConnectReturn, FreeSocket
  <2>4. CASE Accept(p)  BY <1>1, <1>3, <2>4 DEF Accept
  <2>5. CASE CloseCall(p)  BY <1>1, <1>4, <2>5 DEF CloseCall
  <2>6. CASE CloseReturn(p)  BY <1>1, <1>3, <2>6 DEF CloseReturn
  <2> QED BY <1>5, <2>1, <2>2, <2>3, <2>4, <2>5, <2>6 DEF UserStep
<1>6. ASSUME NEW p \in Peers, CoreStep(p) PROVE InCall'
  <2>1. CASE CreateOnSyn(p) \/ Clean(p)
    <3>1. user[p] = "idle"  BY <1>1, <2>1 DEF CreateOnSyn, Clean, Exists, InCall
    <3> QED BY <1>3, <2>1, <3>1 DEF CreateOnSyn, AddSocket, Clean, FreeSocket
  <2> QED BY <1>2, <1>6, <2>1 DEF CoreStep, Deliver, Stray, Refuse
<1> QED BY <1>2, <1>5, <1>6 DEF Next, vars, QuietTurn, TimeoutTurn, TurnOf, Lose

\* A step is a turn of a thread, or makes a socket, for ump_connect or for a SYN that
\* has arrived, or does neither: sockets are freed or get a call, packets move, are
\* lost, or are answered with RST.
Creates(p) ==
  /\ CanCreate(p) /\ ~Exists(p)
  /\ \/ p \in Openers /\ AddSocket(p, "act_connect", {})
     \/ \E m \in net[p] : m.kind = "SYN" /\ AddSocket(p, "backlog", {m})
  /\ \A q \in Peers : net'[q] \subseteq net[q]

Moves ==
  /\ created' = created
  /\ \A q \in Peers : Exists(q)' =>
       /\ Exists(q)
       /\ \/ sock'[q] = sock[q]
          \/ sock'[q] = [sock[q] EXCEPT !.para = "CLOSE"]
          \/ user[q] = "connecting" /\ sock'[q] = [sock[q] EXCEPT !.para = "CONNECT"]
  /\ \A q \in Peers : \A m \in net'[q] \union inbox'[q] :
       m \in net[q] \union inbox[q] \/ m = Reset

LEMMA StepKinds ==
  ASSUME TypeOK, InCall, [Next]_vars
  PROVE  \/ Moves
         \/ \E p \in Peers : Creates(p) \/ \E fires \in BOOLEAN : TurnOf(p, fires)
<1> DEFINE Goal == \/ Moves
                   \/ \E p \in Peers : Creates(p) \/ \E fires \in BOOLEAN : TurnOf(p, fires)
<1>1. ASSUME UNCHANGED <<created, sock, net, inbox>>,
             \A q \in Peers : Exists(q)' => Exists(q)
      PROVE  Moves
  BY <1>1 DEF Moves
<1>2. CASE UNCHANGED vars  BY <1>1, <1>2 DEF vars, Exists
<1>3. ASSUME NEW p \in Peers, QuietTurn(p) \/ TimeoutTurn(p) PROVE Goal
  BY <1>3 DEF QuietTurn, TimeoutTurn
<1>4. ASSUME NEW p \in Peers, UNCHANGED created, FreeSocket(p), UNCHANGED net PROVE Moves
  <2>1. \A q \in Peers : Exists(q)' => Exists(q) /\ sock'[q] = sock[q]
    BY <1>4 DEF FreeSocket, Exists, TypeOK
  <2>2. \A q \in Peers : inbox'[q] \subseteq inbox[q]  BY <1>4 DEF FreeSocket, TypeOK
  <2> QED BY <1>4, <2>1, <2>2 DEF Moves
<1>5. ASSUME NEW p \in Peers, NEW t \in Tables \ {"none"}, Exists(p),
             table' = [table EXCEPT ![p] = t], UNCHANGED <<created, sock, net, inbox>>
      PROVE  Moves
  <2>1. \A q \in Peers : Exists(q)' => Exists(q)  BY <1>5 DEF Exists, TypeOK
  <2> QED BY <1>1, <1>5, <2>1
<1>6. ASSUME UNCHANGED <<created, table, sock>>,
             \A q \in Peers : \A m \in net'[q] \union inbox'[q] :
               m \in net[q] \union inbox[q] \/ m = Reset
      PROVE  Moves
  BY <1>6 DEF Moves, Exists
<1>7. ASSUME NEW p \in Peers, UserStep(p) PROVE Goal
  <2>1. CASE Connect(p)
    <3>1. CASE ~Exists(p) /\ CanCreate(p) /\ AddSocket(p, "act_connect", {})
      BY <2>1, <3>1 DEF Connect, Creates
    <3>2. CASE /\ table[p] = "backlog" /\ UNCHANGED <<sock, created, inbox>>
               /\ \E t \in {"act_connect", "orphan"} : table' = [table EXCEPT ![p] = t]
      <4>1. Exists(p) /\ net' = net /\ {"act_connect", "orphan"} \subseteq Tables \ {"none"}
        BY <2>1, <3>2 DEF Connect, Exists, Tables
      <4> QED BY <1>5, <3>2, <4>1
    <3> QED BY <2>1, <3>1, <3>2 DEF Connect
  <2>2. CASE ConnectCall(p)
    <3>1. \A q \in Peers : \/ sock'[q] = sock[q]
                           \/ user[q] = "connecting" /\ sock'[q] = [sock[q] EXCEPT !.para = "CONNECT"]
      BY <2>2 DEF ConnectCall, TypeOK
    <3> QED BY <2>2, <3>1 DEF ConnectCall, Moves, Exists
  <2>3. CASE ConnectReturn(p)
    <3>1. CASE sock[p].ok
      <4>1. Exists(p) /\ "umps" \in Tables \ {"none"}
        BY <2>3 DEF ConnectReturn, InCall, Exists, Tables
      <4> QED BY <1>5, <2>3, <3>1, <4>1 DEF ConnectReturn
    <3>2. CASE ~sock[p].ok  BY <1>4, <2>3, <3>2 DEF ConnectReturn
    <3> QED BY <3>1, <3>2
  <2>4. CASE Accept(p)
    <3>1. Exists(p) /\ "umps" \in Tables \ {"none"}  BY <2>4 DEF Accept, Exists, Tables
    <3> QED BY <1>5, <2>4, <3>1 DEF Accept
  <2>5. CASE CloseCall(p)
    <3>1. \A q \in Peers : sock'[q] = sock[q] \/ sock'[q] = [sock[q] EXCEPT !.para = "CLOSE"]
      BY <2>5 DEF CloseCall, TypeOK
    <3> QED BY <2>5, <3>1 DEF CloseCall, Moves, Exists
  <2>6. CASE CloseReturn(p)
    <3>1. Exists(p) /\ "closed_umps" \in Tables \ {"none"}
      BY <2>6 DEF CloseReturn, InCall, Exists, Tables
    <3> QED BY <1>5, <2>6, <3>1 DEF CloseReturn
  <2> QED BY <1>7, <2>1, <2>2, <2>3, <2>4, <2>5, <2>6 DEF UserStep
<1>8. ASSUME NEW p \in Peers, CoreStep(p) \/ Lose(p) PROVE Goal
  <2>0. net \in [Peers -> SUBSET Packets] /\ inbox \in [Peers -> SUBSET Packets]
    BY DEF TypeOK
  <2>1. CASE Deliver(p)
    <3>1. PICK m \in net[p] : Consume(p, m, {}) /\ inbox' = [inbox EXCEPT ![p] = {m}]
      BY <2>1 DEF Deliver
    <3>2. \A q \in Peers : /\ net'[q] \subseteq net[q]
                           /\ inbox'[q] \subseteq net[q] \union inbox[q]
      BY <2>0, <3>1, Pair DEF Consume
    <3> QED BY <1>6, <2>1, <3>2 DEF Deliver
  <2>2. CASE CreateOnSyn(p)
    <3>1. PICK m \in net[p] :
            m.kind = "SYN" /\ Consume(p, m, {}) /\ AddSocket(p, "backlog", {m})
      BY <2>2 DEF CreateOnSyn
    <3>2. \A q \in Peers : net'[q] \subseteq net[q]  BY <2>0, <3>1, Pair DEF Consume
    <3> QED BY <2>2, <3>1, <3>2 DEF CreateOnSyn, Creates
  <2>3. CASE Stray(p)
    <3>1. \A q \in Peers : net'[q] \subseteq net[q] \union {Reset}
      BY <2>0, <2>3, Pair DEF Stray, Consume
    <3> QED BY <1>6, <2>3, <3>1 DEF Stray
  <2>4. CASE Refuse(p)
    <3>1. \A q \in Peers : net'[q] \subseteq net[q] \union {Reset}
      BY <2>0, <2>4, Pair DEF Refuse
    <3> QED BY <1>6, <2>4, <3>1 DEF Refuse
  <2>5. CASE Clean(p)  BY <1>4, <2>5 DEF Clean
  <2>6. CASE Lose(p)
    <3>1. \A q \in Peers : net'[q] \subseteq net[q]  BY <2>0, <2>6 DEF Lose
    <3> QED BY <1>6, <2>6, <3>1 DEF Lose
  <2> QED BY <1>8, <2>1, <2>2, <2>3, <2>4, <2>5, <2>6 DEF CoreStep
<1> QED BY <1>2, <1>3, <1>7, <1>8 DEF Next

-----------------------------------------------------------------------------
(* What the two ends of a connection know of each other, with one socket at  *)
(* each address: packets of an earlier socket at the same address are not    *)
(* told from those of the present one.                                       *)

First(p) == Iss[p][1]

\* The socket at p has taken its peer's SYN, or is gone for good.
Known(p) == created[p] = 1 /\ (Exists(p) => sock[p].synReced)

\* What socket s, whose first number is i, knows of its peer, whose first number
\* is j: k says that the peer knows of s.
Agrees(s, i, j, k) ==
  /\ s.iss = i
  /\ s.synReced => s.theirBase = j
  /\ s.ackSet => s.synReced
  /\ s.state \in {"ESTABLISHED", "CLOSING"} => s.synReced /\ k
  /\ s.synAckReced => k
  /\ s.toSend = "FIN" => k
  /\ s.toSend = "SYN" => s.toSendSeq = i \/ k
  /\ s.state = "CLOSED" /\ ~s.error => s.ourSeq = i \/ k

\* What packet m, from an end whose first number is j, says: k that its sender
\* knows of the receiver, kn that the receiver knows of its sender.
Honest(m, j, k, kn) ==
  /\ m.hasAck => k
  /\ m.kind = "SYN" => m.seq = j \/ kn
  /\ m.kind = "FIN" => kn

Knows(p) == Agrees(sock[p], First(p), First(Other(p)), Known(Other(p)))
Heard(p, m) == Honest(m, First(Other(p)), Known(Other(p)), Known(p))

AgreeInv ==
  /\ TypeOK
  /\ \A p \in Peers : Exists(p) => created[p] = 1 /\ Knows(p)
  /\ \A p \in Peers : \A m \in net[p] \union inbox[p] : Heard(p, m)

LEMMA EndCtrlAgrees ==
  ASSUME NEW s \in Sockets, NEW ms, NEW r \in BOOLEAN, NEW i, NEW j, NEW k \in BOOLEAN,
         Agrees(s, i, j, k)
  PROVE  Agrees(EndCtrl(s, ms, r), i, j, k)
BY DEF Agrees, EndCtrl, Sockets

LEMMA AckAgrees ==
  ASSUME NEW s \in Sockets, NEW m, NEW i, NEW j, NEW k \in BOOLEAN, Agrees(s, i, j, k)
  PROVE  /\ Agrees(ClearSlot(s), i, j, k)
         /\ Agrees(TakeAck(s, m), i, j, k)
         /\ Agrees(AfterSend(s), i, j, k)
<1>1. Agrees(ClearSlot(s), i, j, k)  BY DEF Agrees, ClearSlot, Sockets, None
<1>2. Agrees(TakeAck(s, m), i, j, k)  BY <1>1 DEF TakeAck
<1>3. Agrees(AfterSend(s), i, j, k)  BY DEF Agrees, AfterSend, Sockets
<1> QED BY <1>1, <1>2, <1>3

LEMMA SeqAgrees ==
  ASSUME NEW s \in Sockets, NEW m, NEW i, NEW j, NEW k \in BOOLEAN, Agrees(s, i, j, k),
         HasSeq(m) => s.synReced
  PROVE  Agrees(TakeSeq(s, m), i, j, k)
BY DEF Agrees, TakeSeq, CountSeq, SetAck, Sockets

LEMMA SynAgrees ==
  ASSUME NEW s \in Sockets, NEW m, NEW i, NEW j, NEW k \in BOOLEAN, Agrees(s, i, j, k),
         m.seq = j
  PROVE  Agrees(TakeSyn(s, m), i, j, k)
BY DEF Agrees, TakeSyn, SetAck, Sockets

LEMMA ConnectionErrorAgrees ==
  ASSUME NEW s \in Sockets, NEW i, NEW j, NEW k \in BOOLEAN, Agrees(s, i, j, k)
  PROVE  Agrees(ConnectionError(s), i, j, k)
<1> DEFINE t == [s EXCEPT !.error = TRUE]
           u == [t EXCEPT !.state = "CLOSED"]
           c == EnterClosed(t)
<1>1. t \in Sockets  BY DEF Sockets
<1>2. u \in Sockets /\ Agrees(u, i, j, k)  BY DEF Agrees, Sockets
<1> HIDE DEF u
<1>3. c = EndCtrl(u, {"CLOSE"}, TRUE)  BY DEF EnterClosed, c, u
<1>4. c \in Sockets  BY <1>1, EnterClosedType
<1>5. Agrees(c, i, j, k)  BY <1>2, <1>3, EndCtrlAgrees
<1>6. ConnectionError(s) = EndCtrl(c, AllCalls, FALSE)  BY DEF ConnectionError
<1> HIDE DEF c
<1> QED BY <1>4, <1>5, <1>6, EndCtrlAgrees

\* ump_closed_connect, with what its callers add to it
LEMMA ConnectAgrees ==
  ASSUME NEW s \in Sockets, NEW i, NEW j, NEW k \in BOOLEAN, Agrees(s, i, j, k),
         s.state = "CLOSED", ~s.error
  PROVE  Agrees([ClosedConnect(s) EXCEPT !.state = "CONNECTING"], i, j, k)
BY DEF Agrees, ClosedConnect, Queue, Sockets

\* ump_established_close on the way to CLOSING
LEMMA CloseAgrees ==
  ASSUME NEW s \in Sockets, NEW i, NEW j, NEW k \in BOOLEAN, Agrees(s, i, j, k),
         s.state = "ESTABLISHED"
  PROVE  Agrees([EstablishedClose(s) EXCEPT !.state = "CLOSING"], i, j, k)
BY DEF Agrees, EstablishedClose, Queue, Sockets

LEMMA TakeCallAgrees ==
  ASSUME NEW s \in Sockets, NEW i, NEW j, NEW k \in BOOLEAN, Agrees(s, i, j, k)
  PROVE  Agrees(TakeCall(s), i, j, k)
<1> DEFINE t == [s EXCEPT !.locked = TRUE]
<1>1. t \in Sockets /\ Agrees(t, i, j, k) /\ t.error = s.error  BY DEF Sockets, Agrees
<1>2. TakeCall(s) = IF s.error THEN EndCtrl(t, AllCalls, FALSE) ELSE StateHandleCtrl(t)
  BY DEF TakeCall
<1> HIDE DEF t
<1>3. t.state \in {"CLOSED", "CONNECTING", "ESTABLISHED", "CLOSING"}  BY <1>1 DEF Sockets
<1>4. \A ms : \A r \in BOOLEAN : Agrees(EndCtrl(t, ms, r), i, j, k)
  BY <1>1, EndCtrlAgrees
<1>5. ASSUME ~s.error, t.state = "CLOSED" PROVE Agrees(ClosedHandleCtrl(t), i, j, k)
  BY <1>1, <1>4, <1>5, ConnectAgrees DEF ClosedHandleCtrl
<1>6. ASSUME t.state = "ESTABLISHED" PROVE Agrees(EstablishedHandleCtrl(t), i, j, k)
  BY <1>1, <1>4, <1>6, CloseAgrees DEF EstablishedHandleCtrl
<1> QED BY <1>2, <1>3, <1>4, <1>5, <1>6
        DEF StateHandleCtrl, ConnectingHandleCtrl, ClosingHandleCtrl

LEMMA ClosedPacketAgrees ==
  ASSUME NEW s \in Sockets, NEW m \in Packets, NEW i, NEW j, NEW k \in BOOLEAN,
         Agrees(s, i, j, k), Honest(m, j, k, s.synReced), s.state = "CLOSED", ~s.error
  PROVE  Agrees(ClosedHandlePacket(s, m), i, j, k)
<1>1. CASE m.kind = "SYN" /\ ~s.synReced
  <2> DEFINE c == ClosedConnect(s)
             t == [c EXCEPT !.state = "CONNECTING"]
             u == TakeSyn(c, m)
  <2>1. m.seq = j  BY <1>1 DEF Honest
  <2>2. Agrees(t, i, j, k)  BY ConnectAgrees
  <2>3. c \in Sockets /\ u \in Sockets  BY ClosedConnectType, TakeSynType
  <2> HIDE DEF c
  <2>4. t \in Sockets  BY <2>3, WithState
  <2>5. [u EXCEPT !.state = "CONNECTING"] = TakeSyn(t, m)
    BY <2>3, ZenonT(30) DEF TakeSyn, SetAck, Sockets
  <2> HIDE DEF t, u
  <2>6. Agrees(TakeSyn(t, m), i, j, k)  BY <2>1, <2>2, <2>4, SynAgrees
  <2> QED BY <1>1, <2>5, <2>6 DEF ClosedHandlePacket, u, c
<1>2. CASE ~(m.kind = "SYN" /\ ~s.synReced)
  BY <1>2, SeqAgrees DEF ClosedHandlePacket, HasSeq, Honest
<1> QED BY <1>1, <1>2

LEMMA ConnectingPacketAgrees ==
  ASSUME NEW s \in Sockets, NEW m \in Packets, NEW i, NEW j, NEW k \in BOOLEAN,
         Agrees(s, i, j, k), Honest(m, j, k, s.synReced), s.state = "CONNECTING"
  PROVE  Agrees(ConnectingHandlePacket(s, m), i, j, k)
<1> DEFINE a == TakeAck(s, m)
           t == ConnectingTakeAck(s, m)
           u == IF m.kind = "SYN" THEN TakeSyn(t, m) ELSE TakeSeq(t, m)
           e == [u EXCEPT !.state = "ESTABLISHED"]
<1>1. a \in Sockets /\ Agrees(a, i, j, k) /\ a.synReced = s.synReced
  <2>1. a.synReced = s.synReced  BY DEF TakeAck, ClearSlot, Sockets
  <2> QED BY <2>1, TakeAckType, AckAgrees
<1>2. t = IF m.hasAck THEN [a EXCEPT !.synAckReced = TRUE] ELSE s
  BY DEF ConnectingTakeAck
<1>3. t \in Sockets  BY ConnectingTakeAckType
<1> HIDE DEF a, t
<1>4. Agrees(t, i, j, k) /\ t.synReced = s.synReced
  <2>1. CASE m.hasAck
    <3>1. k  BY <2>1 DEF Honest
    <3> QED BY <1>1, <1>2, <2>1, <3>1 DEF Agrees, Sockets
  <2>2. CASE ~m.hasAck  BY <1>2, <2>2
  <2> QED BY <2>1, <2>2
<1>5. CASE m.kind = "SYN" /\ t.synReced
  <2>1. Agrees(SetAck(t), i, j, k)  BY <1>3, <1>4, <1>5 DEF SetAck, Agrees, Sockets
  <2> QED BY <1>5, <2>1 DEF ConnectingHandlePacket, t
<1>6. CASE ~(m.kind = "SYN" /\ t.synReced)
  <2>1. u \in Sockets  BY <1>3, TakeSynType, TakeSeqType
  <2>2. Agrees(u, i, j, k)
    <3>1. CASE m.kind = "SYN"
      <4>1. m.seq = j  BY <1>4, <1>6, <3>1 DEF Honest
      <4> QED BY <1>3, <1>4, <3>1, <4>1, SynAgrees
    <3>2. CASE m.kind # "SYN"
      <4>1. HasSeq(m) => t.synReced  BY <1>4, <3>2 DEF Honest, HasSeq
      <4> QED BY <1>3, <1>4, <3>2, <4>1, SeqAgrees
    <3> QED BY <3>1, <3>2
  <2>3. ConnectingHandlePacket(s, m) = ConnectingDone(u)
    BY <1>6 DEF ConnectingHandlePacket, t
  <2> HIDE DEF u
  <2>4. ASSUME u.synReced, u.synAckReced PROVE Agrees(EnterEstablished(u), i, j, k)
    <3>1. e \in Sockets  BY <2>1, WithState
    <3>2. Agrees(e, i, j, k)  BY <2>1, <2>2, <2>4 DEF Agrees, Sockets
    <3> QED BY <3>1, <3>2, EndCtrlAgrees DEF EnterEstablished
  <2> QED BY <2>2, <2>3, <2>4 DEF ConnectingDone
<1> QED BY <1>5, <1>6

LEMMA EstablishedPacketAgrees ==
  ASSUME NEW s \in Sockets, NEW m \in Packets, NEW i, NEW j, NEW k \in BOOLEAN,
         Agrees(s, i, j, k), s.state = "ESTABLISHED"
  PROVE  Agrees(EstablishedHandlePacket(s, m), i, j, k)
<1> DEFINE c == ClearSlot(s)
           t == EstablishedTakeAck(s, m)
           n == [t EXCEPT !.finReced = TRUE]
           u == IF IsNextFin(t, m) THEN EstablishedTakeFin(t) ELSE t
<1>1. c \in Sockets /\ Agrees(c, i, j, k) /\ c.state = "ESTABLISHED"
  BY ClearSlotType, AckAgrees, SilentSteps DEF Silent
<1>2. t = EndCtrl(c, AllCalls, TRUE) \/ t = s  BY DEF EstablishedTakeAck
<1>3. t \in Sockets  BY EstablishedTakeAckType
<1> HIDE DEF c, t
<1>4. t.state = "ESTABLISHED"
  <2>1. EndCtrl(c, AllCalls, TRUE).state = "ESTABLISHED"  BY <1>1 DEF EndCtrl, Sockets
  <2> QED BY <1>2, <2>1
<1>5. Agrees(t, i, j, k)  BY <1>1, <1>2, EndCtrlAgrees
<1>6. n \in Sockets /\ n.state = "ESTABLISHED" /\ Agrees(n, i, j, k)
  BY <1>3, <1>4, <1>5 DEF Agrees, Sockets
<1>7. EstablishedTakeFin(t) = [EstablishedClose(n) EXCEPT !.state = "CLOSING"]
  BY DEF EstablishedTakeFin
<1> HIDE DEF n
<1>8. EstablishedTakeFin(t) \in Sockets
  BY <1>6, <1>7, EstablishedCloseType, WithState
<1>9. Agrees(EstablishedTakeFin(t), i, j, k)  BY <1>6, <1>7, CloseAgrees
<1>10. EstablishedTakeFin(t).synReced /\ t.synReced
  <2>1. EstablishedTakeFin(t).state = "CLOSING"
    BY <1>6, <1>7, EstablishedCloseType DEF Sockets
  <2> QED BY <1>4, <1>5, <1>9, <2>1 DEF Agrees
<1>11. EstablishedHandlePacket(s, m) = TakeSeq(u, m)  BY DEF EstablishedHandlePacket, t
<1>12. u \in Sockets /\ Agrees(u, i, j, k) /\ u.synReced
  BY <1>3, <1>5, <1>8, <1>9, <1>10
<1> HIDE DEF u
<1> QED BY <1>11, <1>12, SeqAgrees

LEMMA ClosingPacketAgrees ==
  ASSUME NEW s \in Sockets, NEW m \in Packets, NEW i, NEW j, NEW k \in BOOLEAN,
         Agrees(s, i, j, k), s.state = "CLOSING"
  PROVE  Agrees(ClosingHandlePacket(s, m), i, j, k)
<1> DEFINE a == TakeAck(s, m)
           t == ClosingTakeAck(s, m)
           u == ClosingTakeFin(t, m)
           v == TakeSeq(u, m)
           e == [v EXCEPT !.state = "CLOSED"]
<1>1. a \in Sockets /\ Agrees(a, i, j, k) /\ a.state = "CLOSING"
  <2>1. a.state = s.state  BY DEF TakeAck, ClearSlot, Sockets
  <2> QED BY <2>1, TakeAckType, AckAgrees
<1>2. t = [a EXCEPT !.finAckReced = TRUE] \/ t = s  BY DEF ClosingTakeAck
<1> HIDE DEF a, t
<1>3. t \in Sockets /\ Agrees(t, i, j, k) /\ t.state = "CLOSING"
  <2> DEFINE f == [a EXCEPT !.finAckReced = TRUE]
  <2>1. f \in Sockets  BY <1>1, WithFlags
  <2>2. Agrees(f, i, j, k) /\ f.state = "CLOSING"  BY <1>1 DEF Agrees, Sockets
  <2> HIDE DEF f
  <2>3. t = f \/ t = s  BY <1>2 DEF f
  <2> QED BY <2>1, <2>2, <2>3
<1>4. u = [t EXCEPT !.finReced = TRUE] \/ u = t  BY DEF ClosingTakeFin
<1> HIDE DEF u
<1>5. u \in Sockets /\ Agrees(u, i, j, k) /\ u.state = "CLOSING"
  <2> DEFINE f == [t EXCEPT !.finReced = TRUE]
  <2>1. f \in Sockets  BY <1>3, WithFlags
  <2>2. Agrees(f, i, j, k) /\ f.state = "CLOSING"  BY <1>3 DEF Agrees, Sockets
  <2> HIDE DEF f
  <2>3. u = f \/ u = t  BY <1>4 DEF f
  <2> QED BY <1>3, <2>1, <2>2, <2>3
<1>6. v \in Sockets /\ v.state = "CLOSING"
  BY <1>5, TakeSeqType, TakeSeqQuiet DEF Quiet
<1>7. Agrees(v, i, j, k)
  <2>1. u.synReced  BY <1>5 DEF Agrees
  <2> QED BY <1>5, <2>1, SeqAgrees
<1>8. ClosingHandlePacket(s, m) = ClosingDone(v)  BY DEF ClosingHandlePacket, v, u, t
<1> HIDE DEF v
<1>9. e \in Sockets /\ Agrees(e, i, j, k)  BY <1>6, <1>7 DEF Agrees, Sockets
<1>10. Agrees(EnterClosed(v), i, j, k)  BY <1>9, EndCtrlAgrees DEF EnterClosed
<1> QED BY <1>7, <1>8, <1>10 DEF ClosingDone

LEMMA TakePacketAgrees ==
  ASSUME NEW s \in Sockets, NEW m \in Packets, NEW i, NEW j, NEW k \in BOOLEAN,
         Agrees(s, i, j, k), Honest(m, j, k, s.synReced), ~s.error
  PROVE  Agrees(TakePacket(s, m), i, j, k)
<1>1. s.state \in {"CLOSED", "CONNECTING", "ESTABLISHED", "CLOSING"}  BY DEF Sockets
<1>2. Agrees(StateHandlePacket(s, m), i, j, k)
  BY <1>1, ClosedPacketAgrees, ConnectingPacketAgrees, EstablishedPacketAgrees,
     ClosingPacketAgrees DEF StateHandlePacket
<1> QED BY <1>2, ConnectionErrorAgrees DEF TakePacket

LEMMA TimeOutAgrees ==
  ASSUME NEW s \in Sockets, NEW i, NEW j, NEW k \in BOOLEAN, Agrees(s, i, j, k)
  PROVE  Agrees(TimeOut(s), i, j, k)
<1>1. CASE s.rto < RtoDoublings
  <2>1. Agrees([s EXCEPT !.sent = FALSE, !.rto = s.rto + 1], i, j, k)
    BY DEF Agrees, Sockets
  <2> QED BY <1>1, <2>1 DEF TimeOut
<1>2. CASE ~(s.rto < RtoDoublings)
  <2> DEFINE c == ClearSlot(s)
             e == EndCtrl(c, AllCalls, FALSE)
  <2>1. c \in Sockets /\ Agrees(c, i, j, k)  BY ClearSlotType, AckAgrees
  <2>2. TimeOut(s) = ConnectionError(e)  BY <1>2 DEF TimeOut, GiveUp
  <2> HIDE DEF c
  <2>3. e \in Sockets /\ Agrees(e, i, j, k)  BY <2>1, EndCtrlType, EndCtrlAgrees
  <2> HIDE DEF e
  <2> QED BY <2>2, <2>3, ConnectionErrorAgrees
<1> QED BY <1>1, <1>2

LEMMA FreshAgrees ==
  ASSUME NEW i, NEW j, NEW k \in BOOLEAN PROVE Agrees(FreshSocket(i), i, j, k)
BY DEF Agrees, FreshSocket, None

\* What a turn leaves and what it sends
LEMMA TurnAgrees ==
  ASSUME TypeOK, NEW p \in Peers, NEW fires \in BOOLEAN, TurnOf(p, fires),
         NEW i, NEW j, NEW k \in BOOLEAN, Agrees(sock[p], i, j, k),
         \A m \in inbox[p] : Honest(m, j, k, sock[p].synReced)
  PROVE  /\ Agrees(sock'[p], i, j, k)
         /\ sock[p].synReced => sock'[p].synReced
         /\ \A m \in net'[Other(p)] \ net[Other(p)] : Honest(m, i, sock'[p].synReced, k)
         /\ net'[p] = net[p]
         /\ \A q \in Peers : inbox'[q] \subseteq inbox[q]
<1> DEFINE polled == Polled(sock[p])
<1>0. Other(p) \in Peers /\ Other(p) # p  BY Pair
<1>1. polled \in Sockets /\ Grants(sock[p], polled)
  BY PolledType, TakeCallGrants, GrantsItself DEF TypeOK, Polled
<1>2. Agrees(polled, i, j, k)  BY TakeCallAgrees DEF Polled, TypeOK
<1> HIDE DEF polled
<1>3. PICK s \in Handled(polled, inbox[p]) :
        IF s.error
        THEN /\ sock' = [sock EXCEPT ![p] = s]
             /\ UNCHANGED net
        ELSE LET t == IF fires THEN TimeOut(s) ELSE s IN
             /\ sock' = [sock EXCEPT ![p] = AfterSend(t)]
             /\ net' = [net EXCEPT ![Other(p)] = @ \union Outgoing(t)]
  BY DEF TurnOf, polled
<1>4. s \in Sockets /\ Agrees(s, i, j, k) /\ Grants(polled, s)
  <2>1. s \in Sockets  BY <1>1, <1>3, HandledType DEF TypeOK
  <2>2. CASE s = polled  BY <1>2, <2>1, <2>2, GrantsItself
  <2>3. CASE s # polled
    <3>1. PICK m \in inbox[p] : s = TakePacket(polled, m) /\ ~polled.error
      BY <1>3, <2>3 DEF Handled
    <3>2. m \in Packets  BY DEF TypeOK
    <3>3. Honest(m, j, k, polled.synReced)
      BY <1>1 DEF Honest, Grants
    <3> QED BY <1>1, <1>2, <2>1, <3>1, <3>2, <3>3, TakePacketAgrees, TakePacketGrants
  <2> QED BY <2>2, <2>3
<1> DEFINE t == IF fires THEN TimeOut(s) ELSE s
           r == AfterSend(t)
<1>5. t \in Sockets /\ Agrees(t, i, j, k) /\ Grants(s, t)
  BY <1>4, TimeOutType, TimeOutAgrees, TimeOutGrants, GrantsItself
<1>6. \/ sock' = [sock EXCEPT ![p] = s] /\ net' = net
      \/ sock' = [sock EXCEPT ![p] = r] /\ net' = [net EXCEPT ![Other(p)] = @ \union Outgoing(t)]
  BY <1>3
<1> HIDE DEF t
<1>7. r \in Sockets /\ Agrees(r, i, j, k) /\ r.synReced = t.synReced
  <2>1. r.synReced = t.synReced  BY <1>5 DEF AfterSend, Sockets
  <2> QED BY <1>5, <2>1, AfterSendType, AckAgrees
<1> HIDE DEF r
<1>8. /\ sock[p].synReced => s.synReced
      /\ s.synReced => r.synReced
  BY <1>1, <1>4, <1>5, <1>7 DEF Grants
<1>9. \A m \in Outgoing(t) : Honest(m, i, t.synReced, k)
  <2> SUFFICES ASSUME NEW m \in Outgoing(t) PROVE Honest(m, i, t.synReced, k)  OBVIOUS
  <2>1. CASE SlotDue(t)
    <3>1. m = [kind |-> t.toSend, seq |-> t.toSendSeq, hasAck |-> t.ackSet,
               ack |-> IF t.ackSet THEN t.ackData ELSE 0]
      BY <2>1 DEF Outgoing
    <3>2. m.kind = t.toSend /\ m.seq = t.toSendSeq /\ m.hasAck = t.ackSet  BY <3>1
    <3> QED BY <1>5, <3>2 DEF Honest, Agrees
  <2>2. CASE ~SlotDue(t)
    <3>1. t.ackSet /\ m = [kind |-> "ACK", seq |-> 0, hasAck |-> TRUE, ack |-> t.ackData]
      BY <2>2 DEF Outgoing
    <3>2. m.kind = "ACK"  BY <3>1
    <3> QED BY <1>5, <3>1, <3>2 DEF Honest, Agrees
  <2> QED BY <2>1, <2>2
<1>10. net'[p] = net[p]  BY <1>0, <1>6 DEF TypeOK
<1>11. \A q \in Peers : inbox'[q] \subseteq inbox[q]  BY DEF TurnOf, TypeOK
<1>12. sock'[p] \in {s, r}  BY <1>6 DEF TypeOK
<1>13. \A m \in net'[Other(p)] \ net[Other(p)] : m \in Outgoing(t) /\ sock'[p] = r
  BY <1>0, <1>6 DEF TypeOK
<1> QED BY <1>4, <1>7, <1>8, <1>9, <1>10, <1>11, <1>12, <1>13

LEMMA MoreKnown ==
  ASSUME NEW s, NEW m, NEW i, NEW j, NEW k \in BOOLEAN, NEW l \in BOOLEAN,
         NEW kn \in BOOLEAN, NEW ln \in BOOLEAN, k => l, kn => ln
  PROVE  /\ Agrees(s, i, j, k) => Agrees(s, i, j, l)
         /\ Honest(m, j, k, kn) => Honest(m, j, l, ln)
BY DEF Agrees, Honest

\* Once an end knows of its peer it does so to the end.
LEMMA StepAgrees ==
  ASSUME AgreeInv, TypeOK',
         \A p \in Peers : Known(p) => Known(p)',
         \A p \in Peers : Exists(p)' =>
           /\ created'[p] = 1
           /\ Agrees(sock'[p], First(p), First(Other(p)), Known(Other(p))),
         \A p \in Peers : \A m \in net'[p] \union inbox'[p] :
           \/ m \in net[p] \union inbox[p]
           \/ Honest(m, First(Other(p)), Known(Other(p))', Known(p)')
  PROVE  AgreeInv'
<1>1. \A p \in Peers : /\ Other(p) \in Peers
                       /\ Known(p) \in BOOLEAN /\ Known(p)' \in BOOLEAN
  BY Pair DEF Known
<1>2. \A p \in Peers : Exists(p)' => created'[p] = 1 /\ Knows(p)'
  BY <1>1, MoreKnown, ZenonT(30) DEF Knows
<1>3. \A p \in Peers : \A m \in net'[p] \union inbox'[p] : Heard(p, m)'
  <2> SUFFICES ASSUME NEW p \in Peers, NEW m \in net'[p] \union inbox'[p]
               PROVE  Heard(p, m)'
    OBVIOUS
  <2>1. ASSUME m \in net[p] \union inbox[p] PROVE Heard(p, m)'
    <3>1. Honest(m, First(Other(p)), Known(Other(p)), Known(p))
      BY <2>1 DEF AgreeInv, Heard
    <3> QED BY <1>1, <3>1, MoreKnown DEF Heard
  <2> QED BY <2>1 DEF Heard
<1> QED BY <1>2, <1>3 DEF AgreeInv

LEMMA TurnAgreeInv ==
  ASSUME AgreeInv, TypeOK', NEW p \in Peers, NEW fires \in BOOLEAN, TurnOf(p, fires)
  PROVE  AgreeInv'
<1> DEFINE o == Other(p)
<1>1. o \in Peers /\ o # p /\ Other(o) = p /\ \A q \in Peers : q = p \/ q = o  BY Pair
<1> HIDE DEF o
<1>2. TypeOK /\ Exists(p) /\ Known(o) \in BOOLEAN  BY DEF AgreeInv, TurnOf, Known
<1>3. Agrees(sock[p], First(p), First(o), Known(o)) /\ created[p] = 1
  BY <1>2 DEF AgreeInv, Knows, o
<1>4. \A m \in inbox[p] : Honest(m, First(o), Known(o), sock[p].synReced)
  <2>1. Known(p) <=> sock[p].synReced  BY <1>2, <1>3 DEF Known
  <2>2. \A m \in inbox[p] : Honest(m, First(o), Known(o), Known(p))
    BY DEF AgreeInv, Heard, o
  <2> QED BY <2>1, <2>2 DEF Honest
<1>5. /\ Agrees(sock'[p], First(p), First(o), Known(o))
      /\ sock[p].synReced => sock'[p].synReced
      /\ \A m \in net'[o] \ net[o] : Honest(m, First(p), sock'[p].synReced, Known(o))
      /\ net'[p] = net[p]
      /\ \A q \in Peers : inbox'[q] \subseteq inbox[q]
  BY <1>2, <1>3, <1>4, TurnAgrees DEF o
<1>6. /\ sock'[o] = sock[o] /\ table' = table /\ created' = created
  BY <1>1, <1>2, TurnKeeps DEF TurnOf
<1>7. (Known(o)' <=> Known(o)) /\ (Known(p) => Known(p)') /\ (Known(p)' <=> sock'[p].synReced)
  BY <1>2, <1>3, <1>5, <1>6 DEF Known, Exists
<1>8. \A q \in Peers : Known(q) => Known(q)'  BY <1>1, <1>7
<1>9. \A q \in Peers : Exists(q)' =>
        /\ created'[q] = 1
        /\ Agrees(sock'[q], First(q), First(Other(q)), Known(Other(q)))
  <2>1. Exists(o)' => created'[o] = 1 /\ Agrees(sock'[o], First(o), First(p), Known(p))
    BY <1>1, <1>6 DEF AgreeInv, Knows, Exists
  <2> QED BY <1>1, <1>3, <1>5, <1>6, <2>1 DEF o
<1>10. \A q \in Peers : \A m \in net'[q] \union inbox'[q] :
         \/ m \in net[q] \union inbox[q]
         \/ Honest(m, First(Other(q)), Known(Other(q))', Known(q)')
  <2>1. \A m \in net'[o] \ net[o] : Honest(m, First(p), Known(p)', Known(o)')
    BY <1>5, <1>7 DEF Honest
  <2> QED BY <1>1, <1>5, <2>1
<1> QED BY <1>8, <1>9, <1>10, StepAgrees

\* A new socket, the only one at its address.
LEMMA FreshAgreeInv ==
  ASSUME MaxSockets = 1, AgreeInv, TypeOK', NEW p \in Peers, Creates(p)
  PROVE  AgreeInv'
<1>1. TypeOK /\ \A q \in Peers : Other(q) \in Peers /\ Known(q) \in BOOLEAN
  BY Pair DEF AgreeInv, Known
<1>2. created[p] = 0  BY <1>1 DEF TypeOK, CanCreate, Creates
<1>3. /\ sock' = [sock EXCEPT ![p] = FreshSocket(First(p))]
      /\ \E t : table' = [table EXCEPT ![p] = t]
      /\ created' = [created EXCEPT ![p] = 1]
      /\ \E ms \in SUBSET net[p] : inbox' = [inbox EXCEPT ![p] = ms]
  BY <1>1, <1>2 DEF AddSocket, First, TypeOK, Creates
<1>4. /\ sock'[p] = FreshSocket(First(p)) /\ created'[p] = 1 /\ inbox'[p] \subseteq net[p]
      /\ \A q \in Peers \ {p} : /\ sock'[q] = sock[q] /\ created'[q] = created[q]
                              /\ inbox'[q] = inbox[q] /\ table'[q] = table[q]
  BY <1>1, <1>3 DEF TypeOK
<1>5. \A q \in Peers : Known(q) => Known(q)'
  BY <1>2, <1>4 DEF Known, Exists
<1>6. \A q \in Peers : Exists(q)' =>
        /\ created'[q] = 1
        /\ Agrees(sock'[q], First(q), First(Other(q)), Known(Other(q)))
  BY <1>1, <1>4, FreshAgrees DEF AgreeInv, Knows, Exists
<1>7. \A q \in Peers : \A m \in net'[q] \union inbox'[q] : m \in net[q] \union inbox[q]
  BY <1>4 DEF Creates
<1> QED BY <1>5, <1>6, <1>7, StepAgrees

LEMMA OtherAgreeInv ==
  ASSUME AgreeInv, TypeOK', Moves
  PROVE  AgreeInv'
<1>1. TypeOK  BY DEF AgreeInv
<1>2. ASSUME NEW s \in Sockets, NEW c, NEW i, NEW j, NEW k \in BOOLEAN, Agrees(s, i, j, k)
      PROVE  /\ Agrees([s EXCEPT !.para = c], i, j, k)
             /\ [s EXCEPT !.para = c].synReced = s.synReced
  BY <1>2 DEF Agrees, Sockets
<1>3. \A q \in Peers : /\ sock[q] \in Sockets /\ Other(q) \in Peers
                       /\ Known(q) \in BOOLEAN /\ Known(q)' \in BOOLEAN
  BY <1>1, Pair DEF TypeOK, Known
<1>4. ASSUME NEW q \in Peers, Exists(q)'
      PROVE  /\ created'[q] = 1 /\ sock'[q].synReced = sock[q].synReced
             /\ Agrees(sock'[q], First(q), First(Other(q)), Known(Other(q)))
  <2>1. created'[q] = 1 /\ Agrees(sock[q], First(q), First(Other(q)), Known(Other(q)))
    BY <1>4 DEF AgreeInv, Knows, Moves
  <2>2. CASE sock'[q] = sock[q]  BY <2>1, <2>2
  <2>3. CASE \E c \in {"CONNECT", "CLOSE"} : sock'[q] = [sock[q] EXCEPT !.para = c]
    <3>1. PICK c : sock'[q] = [sock[q] EXCEPT !.para = c]  BY <2>3
    <3> QED BY <1>2, <1>3, <2>1, <3>1
  <2> QED BY <1>4, <2>2, <2>3 DEF Moves
<1>5. \A q \in Peers : Known(q) => Known(q)'  BY <1>4 DEF Known, Moves
<1>6. \A i, j, k : Honest(Reset, i, j, k)  BY DEF Honest, Reset
<1> QED BY <1>4, <1>5, <1>6, StepAgrees DEF Moves

LEMMA InitAgree == Init => AgreeInv
<1> SUFFICES ASSUME Init PROVE AgreeInv  OBVIOUS
<1>1. \A p \in Peers : ~Exists(p) /\ net[p] = {} /\ inbox[p] = {}  BY DEF Init, Exists
<1> QED BY <1>1, InitType DEF AgreeInv

LEMMA NextAgree ==
  ASSUME MaxSockets = 1 PROVE AgreeInv /\ InCall /\ [Next]_vars => AgreeInv'
<1> SUFFICES ASSUME AgreeInv, InCall, [Next]_vars PROVE AgreeInv'  OBVIOUS
<1>1. TypeOK /\ TypeOK'  BY NextType DEF AgreeInv
<1> QED BY <1>1, StepKinds, TurnAgreeInv, FreshAgreeInv, OtherAgreeInv

\* With one socket at each address, whichever of them open it and whatever is lost,
\* repeated, delayed or refused, the ends of a connection agree on where the other's
\* numbers start: neither takes a retransmitted or crossing SYN for another one, and none
\* believes the connection open whose SYN the other has not seen.
THEOREM EndsAgree == ASSUME MaxSockets = 1 PROVE Spec => []BothEndsAgree
<1>1. AgreeInv => BothEndsAgree
  <2> SUFFICES ASSUME AgreeInv, NEW p \in Peers, NEW q \in Peers, Open(p), Exists(q), p # q
               PROVE  /\ sock[q].synReced
                      /\ sock[p].theirBase = sock[q].iss
                      /\ sock[q].theirBase = sock[p].iss
    BY DEF BothEndsAgree
  <2>1. Other(p) = q /\ Other(q) = p  BY Pair
  <2>2. Agrees(sock[p], First(p), First(q), Known(q)) /\ Agrees(sock[q], First(q), First(p), Known(p))
    BY <2>1 DEF AgreeInv, Knows, Open
  <2>3. Known(q) /\ sock[p].synReced  BY <2>2 DEF Agrees, Open
  <2> QED BY <2>2, <2>3 DEF Agrees, Known
<1>2. Init => AgreeInv /\ InCall  BY InitAgree DEF Init, InCall
<1>3. AgreeInv /\ InCall /\ [Next]_vars => AgreeInv' /\ InCall'
  BY NextAgree, NextInCall DEF AgreeInv
<1> QED BY <1>1, <1>2, <1>3, PTL DEF Spec

-----------------------------------------------------------------------------
(* The numbers a socket uses, when each address has one socket and one user  *)
(* opens: one for the SYN and one for the FIN.  i is its first number.       *)

\* Neither a call nor a packet has taken the socket out of CLOSED.
Unused(s) == s.state = "CLOSED" /\ ~s.error /\ ~s.synReced

\* The socket has queued its SYN, and its FIN.
Sent(s, i) == ~Unused(s) /\ s.ourSeq \in {NextSeq(i), NextSeq(NextSeq(i))}
Ended(s, i) ==
  ~Unused(s) /\ s.state \in {"CLOSING", "CLOSED"} /\ s.ourSeq = NextSeq(NextSeq(i))

Phase(s, i) ==
  /\ Unused(s) => s.ourSeq = i
  /\ s.state \in {"CONNECTING", "ESTABLISHED"} => s.ourSeq = NextSeq(i)
  /\ s.state = "CLOSING" => s.ourSeq = NextSeq(NextSeq(i))
  /\ s.state \in {"ESTABLISHED", "CLOSING"} => s.synReced
  /\ s.toSend = "SYN" => s.toSendSeq = i /\ Sent(s, i)
  /\ s.toSend = "FIN" => s.toSendSeq = NextSeq(i) /\ Ended(s, i)

\* A call that is in the socket has been taken.
Taken(s) == s.para = None \/ s.locked

Goes(s, t, i) ==
  /\ Phase(t, i)
  /\ Sent(s, i) => Sent(t, i)
  /\ Ended(s, i) => Ended(t, i)
  /\ Taken(s) => Taken(t)

LEMMA GoesTrans ==
  ASSUME NEW s, NEW t, NEW u, NEW i, Goes(s, t, i), Goes(t, u, i) PROVE Goes(s, u, i)
BY DEF Goes

LEMMA GoesItself == ASSUME NEW s, NEW i, Phase(s, i) PROVE Goes(s, s, i)
BY DEF Goes

LEMMA EndCtrlGoes ==
  ASSUME NEW s \in Sockets, NEW ms, NEW r \in BOOLEAN, NEW i, Phase(s, i)
  PROVE  Goes(s, EndCtrl(s, ms, r), i)
<1> DEFINE t == [s EXCEPT !.ok = r, !.para = None, !.locked = FALSE]
<1>1. CASE s.locked /\ s.para \in ms
  <2>1. EndCtrl(s, ms, r) = t  BY <1>1 DEF EndCtrl
  <2>2. /\ t.state = s.state /\ t.error = s.error /\ t.synReced = s.synReced
        /\ t.ourSeq = s.ourSeq /\ t.toSend = s.toSend /\ t.toSendSeq = s.toSendSeq
        /\ t.para = None
    BY DEF Sockets
  <2> HIDE DEF t
  <2> QED BY <2>1, <2>2 DEF Goes, Phase, Sent, Ended, Unused, Taken
<1>2. CASE ~(s.locked /\ s.para \in ms)  BY <1>2, GoesItself DEF EndCtrl
<1> QED BY <1>1, <1>2

\* What touches none of the fields that count
Same(s, t) ==
  /\ t.state = s.state /\ t.error = s.error /\ t.synReced = s.synReced
  /\ t.ourSeq = s.ourSeq /\ t.para = s.para /\ t.locked = s.locked
  /\ t.toSend = s.toSend /\ t.toSendSeq = s.toSendSeq

LEMMA SameGoes ==
  ASSUME NEW s, NEW t, NEW i, Same(s, t), Phase(s, i) PROVE Goes(s, t, i)
BY DEF Same, Goes, Phase, Sent, Ended, Unused, Taken

LEMMA SameSteps ==
  ASSUME NEW s \in Sockets, NEW m
  PROVE  /\ Same(s, TakeSeq(s, m)) /\ Same(s, SetAck(s)) /\ Same(s, AfterSend(s))
<1>1. Same(s, SetAck(s))  BY DEF Same, SetAck, Sockets
<1>2. Same(s, TakeSeq(s, m))  BY DEF Same, TakeSeq, CountSeq, SetAck, Sockets
<1>3. Same(s, AfterSend(s))  BY DEF Same, AfterSend, Sockets
<1> QED BY <1>1, <1>2, <1>3

LEMMA SlotGoes ==
  ASSUME NEW s \in Sockets, NEW m, NEW i, Phase(s, i)
  PROVE  Goes(s, ClearSlot(s), i) /\ Goes(s, TakeAck(s, m), i)
<1> DEFINE t == ClearSlot(s)
<1>1. /\ t.state = s.state /\ t.error = s.error /\ t.synReced = s.synReced
      /\ t.ourSeq = s.ourSeq /\ t.para = s.para /\ t.locked = s.locked /\ t.toSend = None
  BY DEF ClearSlot, Sockets
<1>2. None # "SYN" /\ None # "FIN"  BY DEF None
<1> HIDE DEF t
<1>3. Goes(s, t, i)  BY <1>1, <1>2 DEF Goes, Phase, Sent, Ended, Unused, Taken
<1> QED BY <1>3, GoesItself DEF TakeAck, t

\* A SYN on a socket that is in CONNECTING: only the ones in CLOSED are Unused.
LEMMA SynGoes ==
  ASSUME NEW s \in Sockets, NEW m, NEW i, Phase(s, i), s.state # "CLOSED"
  PROVE  Goes(s, TakeSyn(s, m), i)
<1> DEFINE t == TakeSyn(s, m)
<1>1. /\ t.state = s.state /\ t.error = s.error /\ t.synReced
      /\ t.ourSeq = s.ourSeq /\ t.para = s.para /\ t.locked = s.locked
      /\ t.toSend = s.toSend /\ t.toSendSeq = s.toSendSeq
  BY DEF TakeSyn, SetAck, Sockets
<1> HIDE DEF t
<1> QED BY <1>1 DEF Goes, Phase, Sent, Ended, Unused, Taken, t

LEMMA ConnectionErrorGoes ==
  ASSUME NEW s \in Sockets, NEW i, Phase(s, i) PROVE Goes(s, ConnectionError(s), i)
<1> DEFINE t == [s EXCEPT !.error = TRUE]
           u == [t EXCEPT !.state = "CLOSED"]
           c == EnterClosed(t)
<1>1. t \in Sockets  BY DEF Sockets
<1>2. /\ u.state = "CLOSED" /\ u.error /\ u.synReced = s.synReced
      /\ u.ourSeq = s.ourSeq /\ u.para = s.para /\ u.locked = s.locked
      /\ u.toSend = s.toSend /\ u.toSendSeq = s.toSendSeq
  BY DEF Sockets
<1>3. u \in Sockets  BY DEF Sockets
<1>4. c = EndCtrl(u, {"CLOSE"}, TRUE)  BY DEF EnterClosed
<1>5. ConnectionError(s) = EndCtrl(c, AllCalls, FALSE)  BY DEF ConnectionError
<1>6. c \in Sockets  BY <1>1, EnterClosedType
<1> HIDE DEF t, u, c
<1>7. Goes(s, u, i)  BY <1>2 DEF Goes, Phase, Sent, Ended, Unused, Taken
<1>8. Phase(u, i)  BY <1>7 DEF Goes
<1>9. Goes(u, c, i)  BY <1>3, <1>4, <1>8, EndCtrlGoes
<1>10. Phase(c, i)  BY <1>9 DEF Goes
<1>11. Goes(c, ConnectionError(s), i)  BY <1>5, <1>6, <1>10, EndCtrlGoes
<1> QED BY <1>7, <1>9, <1>11, GoesTrans

LEMMA ConnectGoes ==
  ASSUME NEW s \in Sockets, NEW i, Phase(s, i), Unused(s)
  PROVE  Goes(s, [ClosedConnect(s) EXCEPT !.state = "CONNECTING"], i)
<1> DEFINE t == [ClosedConnect(s) EXCEPT !.state = "CONNECTING"]
<1>1. /\ t.state = "CONNECTING" /\ t.error = s.error /\ t.synReced = s.synReced
      /\ t.ourSeq = NextSeq(s.ourSeq) /\ t.para = s.para /\ t.locked = s.locked
      /\ t.toSend = "SYN" /\ t.toSendSeq = s.ourSeq
  BY DEF ClosedConnect, Queue, Sockets
<1> HIDE DEF t
<1>2. Goes(s, t, i)  BY <1>1 DEF Goes, Phase, Sent, Ended, Unused, Taken
<1> QED BY <1>2 DEF t

LEMMA CloseGoes ==
  ASSUME NEW s \in Sockets, NEW i, Phase(s, i), s.state = "ESTABLISHED"
  PROVE  Goes(s, [EstablishedClose(s) EXCEPT !.state = "CLOSING"], i)
<1> DEFINE t == [EstablishedClose(s) EXCEPT !.state = "CLOSING"]
<1>1. /\ t.state = "CLOSING" /\ t.error = s.error /\ t.synReced = s.synReced
      /\ t.ourSeq = NextSeq(s.ourSeq) /\ t.para = s.para /\ t.locked = s.locked
      /\ t.toSend = "FIN" /\ t.toSendSeq = s.ourSeq
  BY DEF EstablishedClose, Queue, Sockets
<1> HIDE DEF t
<1>2. Goes(s, t, i)  BY <1>1 DEF Goes, Phase, Sent, Ended, Unused, Taken
<1> QED BY <1>2 DEF t

\* A call to connect waits in a socket that was never used, or is broken.
Idle(s) == s.state = "CLOSED" /\ (s.error \/ ~s.synReced)
Posted(s) == s.para = "CONNECT" => Idle(s) \/ (s.state = "CONNECTING" /\ s.locked)

LEMMA TakeCallGoes ==
  ASSUME NEW s \in Sockets, NEW i, Phase(s, i), Posted(s), CallWaiting(s)
  PROVE  Goes(s, TakeCall(s), i) /\ Taken(TakeCall(s))
<1> DEFINE t == [s EXCEPT !.locked = TRUE]
<1>1. t \in Sockets /\ t.locked /\ t.error = s.error /\ t.synReced = s.synReced
      /\ t.state = s.state /\ t.para = s.para /\ t.ourSeq = s.ourSeq
      /\ t.toSend = s.toSend /\ t.toSendSeq = s.toSendSeq
  BY DEF Sockets
<1>2. TakeCall(s) = IF s.error THEN EndCtrl(t, AllCalls, FALSE) ELSE StateHandleCtrl(t)
  BY DEF TakeCall
<1> HIDE DEF t
<1>3. Goes(s, t, i) /\ Taken(t)  BY <1>1 DEF Goes, Phase, Sent, Ended, Unused, Taken
<1>4. Phase(t, i)  BY <1>3 DEF Goes
<1>5. \A ms : \A r \in BOOLEAN : Goes(t, EndCtrl(t, ms, r), i)  BY <1>1, <1>4, EndCtrlGoes
<1>6. t.state \in {"CLOSED", "CONNECTING", "ESTABLISHED", "CLOSING"}  BY <1>1 DEF Sockets
<1>7. ASSUME ~s.error, t.state = "CLOSED" PROVE Goes(t, ClosedHandleCtrl(t), i)
  <2>1. CASE t.para = "CONNECT"
    <3>1. Unused(t)  BY <1>1, <1>7, <2>1 DEF Unused, Posted, Idle
    <3> QED BY <1>1, <1>4, <2>1, <3>1, ConnectGoes DEF ClosedHandleCtrl
  <2>2. CASE t.para # "CONNECT"  BY <1>5, <2>2 DEF ClosedHandleCtrl
  <2> QED BY <2>1, <2>2
<1>8. ASSUME t.state = "ESTABLISHED" PROVE Goes(t, EstablishedHandleCtrl(t), i)
  BY <1>1, <1>4, <1>5, <1>8, CloseGoes DEF EstablishedHandleCtrl
<1>9. Goes(t, TakeCall(s), i)
  BY <1>2, <1>5, <1>6, <1>7, <1>8 DEF StateHandleCtrl, ConnectingHandleCtrl, ClosingHandleCtrl
<1> QED BY <1>3, <1>9, GoesTrans DEF Goes

LEMMA PolledGoes ==
  ASSUME NEW s \in Sockets, NEW i, Phase(s, i), Posted(s)
  PROVE  Goes(s, Polled(s), i) /\ Taken(Polled(s))
<1>1. CASE CallWaiting(s)  BY <1>1, TakeCallGoes DEF Polled
<1>2. CASE ~CallWaiting(s)  BY <1>2, GoesItself DEF Polled, CallWaiting, Taken
<1> QED BY <1>1, <1>2

LEMMA ClosedPacketGoes ==
  ASSUME NEW s \in Sockets, NEW m \in Packets, NEW i, Phase(s, i), s.state = "CLOSED", ~s.error
  PROVE  Goes(s, ClosedHandlePacket(s, m), i)
<1>1. CASE m.kind = "SYN" /\ ~s.synReced
  <2> DEFINE c == ClosedConnect(s)
             t == [c EXCEPT !.state = "CONNECTING"]
             u == TakeSyn(c, m)
  <2>1. Goes(s, t, i)  BY <1>1, ConnectGoes DEF Unused
  <2>2. c \in Sockets /\ u \in Sockets  BY ClosedConnectType, TakeSynType
  <2> HIDE DEF c
  <2>3. t \in Sockets /\ t.state = "CONNECTING"  BY <2>2, WithState DEF Sockets
  <2>4. [u EXCEPT !.state = "CONNECTING"] = TakeSyn(t, m)
    BY <2>2, ZenonT(30) DEF TakeSyn, SetAck, Sockets
  <2> HIDE DEF t, u
  <2>5. Goes(t, TakeSyn(t, m), i)  BY <2>1, <2>3, SynGoes DEF Goes
  <2>6. Goes(s, TakeSyn(t, m), i)  BY <2>1, <2>5, GoesTrans
  <2> QED BY <1>1, <2>4, <2>6 DEF ClosedHandlePacket, u, c
<1>2. CASE ~(m.kind = "SYN" /\ ~s.synReced)
  BY <1>2, SameSteps, SameGoes DEF ClosedHandlePacket
<1> QED BY <1>1, <1>2

LEMMA EnterEstablishedGoes ==
  ASSUME NEW s \in Sockets, NEW i, Phase(s, i), s.state = "CONNECTING", s.synReced
  PROVE  Goes(s, EnterEstablished(s), i)
<1> DEFINE e == [s EXCEPT !.state = "ESTABLISHED"]
<1>1. /\ e.state = "ESTABLISHED" /\ e.error = s.error /\ e.synReced = s.synReced
      /\ e.ourSeq = s.ourSeq /\ e.para = s.para /\ e.locked = s.locked
      /\ e.toSend = s.toSend /\ e.toSendSeq = s.toSendSeq
  BY DEF Sockets
<1>2. e \in Sockets  BY WithState
<1>3. EnterEstablished(s) = EndCtrl(e, {"CONNECT"}, TRUE)  BY DEF EnterEstablished
<1> HIDE DEF e
<1>4. s.toSend # "FIN"  BY DEF Phase, Ended
<1>5. Goes(s, e, i)  BY <1>1, <1>4 DEF Goes, Phase, Sent, Ended, Unused, Taken
<1>6. Goes(e, EnterEstablished(s), i)  BY <1>2, <1>3, <1>5, EndCtrlGoes DEF Goes
<1> QED BY <1>5, <1>6, GoesTrans

LEMMA ConnectingPacketGoes ==
  ASSUME NEW s \in Sockets, NEW m \in Packets, NEW i, Phase(s, i), s.state = "CONNECTING"
  PROVE  Goes(s, ConnectingHandlePacket(s, m), i)
<1> DEFINE a == TakeAck(s, m)
           t == ConnectingTakeAck(s, m)
           u == IF m.kind = "SYN" THEN TakeSyn(t, m) ELSE TakeSeq(t, m)
<1>1. a \in Sockets /\ Goes(s, a, i) /\ a.state = "CONNECTING"
  BY TakeAckType, SlotGoes, SilentSteps DEF Silent
<1>2. t = IF m.hasAck THEN [a EXCEPT !.synAckReced = TRUE] ELSE s
  BY DEF ConnectingTakeAck
<1>3. t \in Sockets  BY ConnectingTakeAckType
<1> HIDE DEF a, t
<1>4. Goes(s, t, i) /\ t.state = "CONNECTING"
  <2>1. CASE m.hasAck
    <3>1. Same(a, t)  BY <1>1, <1>2, <2>1 DEF Same, Sockets
    <3>2. Goes(a, t, i)  BY <1>1, <3>1, SameGoes DEF Goes
    <3> QED BY <1>1, <3>1, <3>2, GoesTrans DEF Same
  <2>2. CASE ~m.hasAck  BY <1>2, <2>2, GoesItself
  <2> QED BY <2>1, <2>2
<1>5. Phase(t, i)  BY <1>4 DEF Goes
<1>6. CASE m.kind = "SYN" /\ t.synReced
  <2>1. Goes(t, SetAck(t), i)  BY <1>3, <1>5, SameSteps, SameGoes
  <2> QED BY <1>4, <1>6, <2>1, GoesTrans DEF ConnectingHandlePacket, t
<1>7. CASE ~(m.kind = "SYN" /\ t.synReced)
  <2>1. u \in Sockets  BY <1>3, TakeSynType, TakeSeqType
  <2>2. Goes(t, u, i)  BY <1>3, <1>4, <1>5, SynGoes, SameSteps, SameGoes
  <2>3. u.state = "CONNECTING"
    BY <1>3, <1>4, SilentSteps DEF Silent
  <2>4. ConnectingHandlePacket(s, m) = ConnectingDone(u)
    BY <1>7 DEF ConnectingHandlePacket, t
  <2> HIDE DEF u
  <2>5. Phase(u, i)  BY <2>2 DEF Goes
  <2>6. Goes(u, ConnectingDone(u), i)
    BY <2>1, <2>3, <2>5, EnterEstablishedGoes, GoesItself DEF ConnectingDone
  <2>7. Goes(s, u, i)  BY <1>4, <2>2, GoesTrans
  <2> QED BY <2>4, <2>6, <2>7, GoesTrans
<1> QED BY <1>6, <1>7

LEMMA EstablishedPacketGoes ==
  ASSUME NEW s \in Sockets, NEW m \in Packets, NEW i, Phase(s, i), s.state = "ESTABLISHED"
  PROVE  Goes(s, EstablishedHandlePacket(s, m), i)
<1> DEFINE c == ClearSlot(s)
           t == EstablishedTakeAck(s, m)
           n == [t EXCEPT !.finReced = TRUE]
           u == IF IsNextFin(t, m) THEN EstablishedTakeFin(t) ELSE t
<1>1. c \in Sockets /\ Goes(s, c, i) /\ c.state = "ESTABLISHED"
  BY ClearSlotType, SlotGoes, SilentSteps DEF Silent
<1>2. t = EndCtrl(c, AllCalls, TRUE) \/ t = s  BY DEF EstablishedTakeAck
<1>3. t \in Sockets  BY EstablishedTakeAckType
<1> HIDE DEF c, t
<1>4. t.state = "ESTABLISHED"
  <2>1. EndCtrl(c, AllCalls, TRUE).state = "ESTABLISHED"  BY <1>1 DEF EndCtrl, Sockets
  <2> QED BY <1>2, <2>1
<1>5. Goes(s, t, i)
  <2>1. Goes(c, EndCtrl(c, AllCalls, TRUE), i)  BY <1>1, EndCtrlGoes DEF Goes
  <2>2. Goes(s, c, i) /\ Goes(c, EndCtrl(c, AllCalls, TRUE), i)  BY <1>1, <2>1
  <2>3. Goes(s, EndCtrl(c, AllCalls, TRUE), i)  BY <2>2, GoesTrans
  <2> QED BY <1>2, <2>3, GoesItself
<1>6. Phase(t, i)  BY <1>5 DEF Goes
<1>7. n \in Sockets /\ n.state = "ESTABLISHED" /\ Same(t, n)
  BY <1>3, <1>4 DEF Same, Sockets
<1>8. EstablishedTakeFin(t) = [EstablishedClose(n) EXCEPT !.state = "CLOSING"]
  BY DEF EstablishedTakeFin
<1> HIDE DEF n
<1>9. EstablishedTakeFin(t) \in Sockets  BY <1>7, <1>8, EstablishedCloseType, WithState
<1>10. Goes(t, n, i)  BY <1>6, <1>7, SameGoes
<1>11. Goes(n, EstablishedTakeFin(t), i)  BY <1>7, <1>8, <1>10, CloseGoes DEF Goes
<1>12. u \in Sockets /\ Goes(t, u, i)
  BY <1>3, <1>6, <1>9, <1>10, <1>11, GoesTrans, GoesItself
<1>13. EstablishedHandlePacket(s, m) = TakeSeq(u, m)  BY DEF EstablishedHandlePacket, t
<1> HIDE DEF u
<1>14. Goes(u, TakeSeq(u, m), i)  BY <1>12, SameSteps, SameGoes DEF Goes
<1> QED BY <1>5, <1>12, <1>13, <1>14, GoesTrans

LEMMA ClosingPacketGoes ==
  ASSUME NEW s \in Sockets, NEW m \in Packets, NEW i, Phase(s, i), s.state = "CLOSING"
  PROVE  Goes(s, ClosingHandlePacket(s, m), i)
<1> DEFINE a == TakeAck(s, m)
           t == ClosingTakeAck(s, m)
           u == ClosingTakeFin(t, m)
           v == TakeSeq(u, m)
           e == [v EXCEPT !.state = "CLOSED"]
<1>1. a \in Sockets /\ Goes(s, a, i) /\ a.state = "CLOSING"
  BY TakeAckType, SlotGoes, SilentSteps DEF Silent
<1>2. t = [a EXCEPT !.finAckReced = TRUE] \/ t = s  BY DEF ClosingTakeAck
<1> HIDE DEF a, t
<1>3. t \in Sockets /\ Goes(s, t, i) /\ t.state = "CLOSING"
  <2> DEFINE f == [a EXCEPT !.finAckReced = TRUE]
  <2>1. f \in Sockets  BY <1>1, WithFlags
  <2>2. Same(a, f) /\ f.state = "CLOSING"  BY <1>1 DEF Same, Sockets
  <2> HIDE DEF f
  <2>3. t = f \/ t = s  BY <1>2 DEF f
  <2>4. Goes(a, f, i)  BY <1>1, <2>2, SameGoes DEF Goes
  <2> QED BY <1>1, <2>1, <2>2, <2>3, <2>4, GoesTrans, GoesItself
<1>4. u = [t EXCEPT !.finReced = TRUE] \/ u = t  BY DEF ClosingTakeFin
<1> HIDE DEF u
<1>5. u \in Sockets /\ Goes(t, u, i) /\ u.state = "CLOSING"
  <2> DEFINE f == [t EXCEPT !.finReced = TRUE]
  <2>0. Phase(t, i)  BY <1>3 DEF Goes
  <2>1. f \in Sockets  BY <1>3, WithFlags
  <2>2. Same(t, f) /\ f.state = "CLOSING"  BY <1>3 DEF Same, Sockets
  <2> HIDE DEF f
  <2>3. u = f \/ u = t  BY <1>4 DEF f
  <2> QED BY <1>3, <2>0, <2>1, <2>2, <2>3, SameGoes, GoesItself
<1>6. v \in Sockets /\ Same(u, v)  BY <1>5, TakeSeqType, SameSteps
<1>7. Goes(u, v, i)  BY <1>5, <1>6, SameGoes DEF Goes
<1>8. ClosingHandlePacket(s, m) = ClosingDone(v)  BY DEF ClosingHandlePacket, v, u, t
<1> HIDE DEF v
<1>9. v.state = "CLOSING" /\ Phase(v, i) /\ Goes(s, v, i)
  <2>1. Goes(s, u, i)  BY <1>3, <1>5, GoesTrans
  <2> QED BY <1>5, <1>6, <1>7, <2>1, GoesTrans DEF Same, Goes
<1>10. /\ e.state = "CLOSED" /\ e.error = v.error /\ e.synReced = v.synReced
       /\ e.ourSeq = v.ourSeq /\ e.para = v.para /\ e.locked = v.locked
       /\ e.toSend = v.toSend /\ e.toSendSeq = v.toSendSeq
  BY <1>6 DEF Sockets
<1>11. e \in Sockets /\ EnterClosed(v) = EndCtrl(e, {"CLOSE"}, TRUE)
  BY <1>6, WithState DEF EnterClosed
<1> HIDE DEF e
<1>12. Goes(v, e, i)  BY <1>9, <1>10 DEF Goes, Phase, Sent, Ended, Unused, Taken
<1>13. Goes(e, EnterClosed(v), i)  BY <1>11, <1>12, EndCtrlGoes DEF Goes
<1>14. Goes(v, ClosingDone(v), i)  BY <1>9, <1>12, <1>13, GoesTrans, GoesItself DEF ClosingDone
<1> QED BY <1>8, <1>9, <1>14, GoesTrans

LEMMA TakePacketGoes ==
  ASSUME NEW s \in Sockets, NEW m \in Packets, NEW i, Phase(s, i), ~s.error
  PROVE  Goes(s, TakePacket(s, m), i)
<1>1. s.state \in {"CLOSED", "CONNECTING", "ESTABLISHED", "CLOSING"}  BY DEF Sockets
<1>2. Goes(s, StateHandlePacket(s, m), i)
  BY <1>1, ClosedPacketGoes, ConnectingPacketGoes, EstablishedPacketGoes,
     ClosingPacketGoes DEF StateHandlePacket
<1> QED BY <1>2, ConnectionErrorGoes DEF TakePacket

LEMMA TimeOutGoes ==
  ASSUME NEW s \in Sockets, NEW i, Phase(s, i) PROVE Goes(s, TimeOut(s), i)
<1>1. CASE s.rto < RtoDoublings
  <2>1. Same(s, [s EXCEPT !.sent = FALSE, !.rto = s.rto + 1])  BY DEF Same, Sockets
  <2> QED BY <1>1, <2>1, SameGoes DEF TimeOut
<1>2. CASE ~(s.rto < RtoDoublings)
  <2> DEFINE c == ClearSlot(s)
             e == EndCtrl(c, AllCalls, FALSE)
  <2>1. c \in Sockets /\ Goes(s, c, i)  BY ClearSlotType, SlotGoes
  <2>2. TimeOut(s) = ConnectionError(e)  BY <1>2 DEF TimeOut, GiveUp
  <2> HIDE DEF c
  <2>3. e \in Sockets /\ Goes(c, e, i)  BY <2>1, EndCtrlType, EndCtrlGoes DEF Goes
  <2> HIDE DEF e
  <2>4. Goes(e, ConnectionError(e), i)  BY <2>3, ConnectionErrorGoes DEF Goes
  <2> QED BY <2>1, <2>2, <2>3, <2>4, GoesTrans
<1> QED BY <1>1, <1>2

-----------------------------------------------------------------------------
(* What a socket has counted of its peer's numbers.  j is the peer's first;  *)
(* syn and fin say that the peer has queued its SYN and its FIN.             *)

Counted(s, j, syn, fin) ==
  /\ s.synReced => /\ syn
                   /\ \/ s.theirSeq = NextSeq(j)
                      \/ s.theirSeq = NextSeq(NextSeq(j)) /\ fin
  /\ s.finReced => fin

Truthful(m, j, syn, fin) ==
  /\ m.kind = "SYN" => m.seq = j /\ syn
  /\ m.kind = "FIN" => m.seq = NextSeq(j) /\ fin

\* What has nothing to do with it
Deaf(s, t) == t.synReced = s.synReced /\ t.theirSeq = s.theirSeq /\ t.finReced = s.finReced

LEMMA DeafCounted ==
  ASSUME NEW s, NEW t, Deaf(s, t), NEW j, NEW syn \in BOOLEAN, NEW fin \in BOOLEAN, Counted(s, j, syn, fin)
  PROVE  Counted(t, j, syn, fin)
BY DEF Deaf, Counted

LEMMA DeafTrans == ASSUME NEW s, NEW t, NEW u, Deaf(s, t), Deaf(t, u) PROVE Deaf(s, u)
BY DEF Deaf

LEMMA DeafItself == ASSUME NEW s PROVE Deaf(s, s)
BY DEF Deaf

LEMMA DeafSteps ==
  ASSUME NEW s \in Sockets, NEW m, NEW ms, NEW r \in BOOLEAN
  PROVE  /\ Deaf(s, EndCtrl(s, ms, r))
         /\ Deaf(s, ClearSlot(s)) /\ Deaf(s, TakeAck(s, m)) /\ Deaf(s, AfterSend(s))
         /\ Deaf(s, SetAck(s)) /\ \A st : Deaf(s, [s EXCEPT !.state = st])
         /\ Deaf(s, ClosedConnect(s)) /\ Deaf(s, EstablishedClose(s))
<1>1. Deaf(s, EndCtrl(s, ms, r))  BY DEF Deaf, EndCtrl, Sockets
<1>2. Deaf(s, ClearSlot(s))  BY DEF Deaf, ClearSlot, Sockets
<1>3. Deaf(s, TakeAck(s, m))  BY <1>2, DeafItself DEF TakeAck
<1>4. Deaf(s, AfterSend(s))  BY DEF Deaf, AfterSend, Sockets
<1>5. Deaf(s, SetAck(s)) /\ \A st : Deaf(s, [s EXCEPT !.state = st])
  BY DEF Deaf, SetAck, Sockets
<1>6. Deaf(s, ClosedConnect(s)) /\ Deaf(s, EstablishedClose(s))
  BY DEF Deaf, ClosedConnect, EstablishedClose, Queue, Sockets
<1> QED BY <1>1, <1>2, <1>3, <1>4, <1>5, <1>6

LEMMA EnterDeaf ==
  ASSUME NEW s \in Sockets
  PROVE  Deaf(s, EnterEstablished(s)) /\ Deaf(s, EnterClosed(s)) /\ Deaf(s, ConnectionError(s))
<1> DEFINE e == [s EXCEPT !.state = "ESTABLISHED"]
           t == [s EXCEPT !.error = TRUE]
           d == EnterClosed(t)
<1>1. e \in Sockets /\ t \in Sockets
  <2>1. t \in Sockets  BY DEF Sockets
  <2> QED BY <2>1, WithState
<1>2. Deaf(s, e) /\ Deaf(s, t)  BY DEF Deaf, Sockets
<1>3. ASSUME NEW x \in Sockets PROVE Deaf(x, EnterClosed(x))
  <2> DEFINE y == [x EXCEPT !.state = "CLOSED"]
  <2>1. y \in Sockets /\ Deaf(x, y)  BY <1>3, WithState, DeafSteps
  <2>2. EnterClosed(x) = EndCtrl(y, {"CLOSE"}, TRUE)  BY DEF EnterClosed
  <2> HIDE DEF y
  <2> QED BY <2>1, <2>2, DeafSteps, DeafTrans
<1>4. Deaf(s, EnterEstablished(s))
  <2>1. EnterEstablished(s) = EndCtrl(e, {"CONNECT"}, TRUE)  BY DEF EnterEstablished
  <2> HIDE DEF e
  <2> QED BY <1>1, <1>2, <2>1, DeafSteps, DeafTrans
<1>5. ConnectionError(s) = EndCtrl(d, AllCalls, FALSE)  BY DEF ConnectionError
<1> HIDE DEF t
<1>6. d \in Sockets /\ Deaf(t, d)  BY <1>1, <1>3, EnterClosedType
<1> HIDE DEF d
<1>7. Deaf(d, ConnectionError(s))  BY <1>5, <1>6, DeafSteps
<1> QED BY <1>2, <1>3, <1>4, <1>6, <1>7, DeafTrans

LEMMA TakeCallDeaf == ASSUME NEW s \in Sockets PROVE Deaf(s, TakeCall(s))
<1> DEFINE t == [s EXCEPT !.locked = TRUE]
<1>1. t \in Sockets /\ Deaf(s, t)  BY DEF Sockets, Deaf
<1>2. TakeCall(s) = IF s.error THEN EndCtrl(t, AllCalls, FALSE) ELSE StateHandleCtrl(t)
  BY DEF TakeCall
<1> HIDE DEF t
<1>3. t.state \in {"CLOSED", "CONNECTING", "ESTABLISHED", "CLOSING"}  BY <1>1 DEF Sockets
<1>4. \A ms : \A r \in BOOLEAN : Deaf(t, EndCtrl(t, ms, r))  BY <1>1, DeafSteps
<1>5. Deaf(t, [ClosedConnect(t) EXCEPT !.state = "CONNECTING"])
  BY <1>1, ClosedConnectType, DeafSteps, DeafTrans
<1>6. Deaf(t, [EstablishedClose(t) EXCEPT !.state = "CLOSING"])
  BY <1>1, EstablishedCloseType, DeafSteps, DeafTrans
<1>7. Deaf(t, TakeCall(s))
  BY <1>2, <1>3, <1>4, <1>5, <1>6
     DEF StateHandleCtrl, ClosedHandleCtrl, ConnectingHandleCtrl, EstablishedHandleCtrl,
         ClosingHandleCtrl
<1> QED BY <1>1, <1>7, DeafTrans

LEMMA TimeOutDeaf == ASSUME NEW s \in Sockets PROVE Deaf(s, TimeOut(s))
<1>1. CASE s.rto < RtoDoublings  BY <1>1 DEF TimeOut, Deaf, Sockets
<1>2. CASE ~(s.rto < RtoDoublings)
  <2> DEFINE c == ClearSlot(s)
             e == EndCtrl(c, AllCalls, FALSE)
  <2>1. c \in Sockets /\ Deaf(s, c)  BY ClearSlotType, DeafSteps
  <2>2. TimeOut(s) = ConnectionError(e)  BY <1>2 DEF TimeOut, GiveUp
  <2> HIDE DEF c
  <2>3. e \in Sockets /\ Deaf(c, e)  BY <2>1, EndCtrlType, DeafSteps
  <2> HIDE DEF e
  <2> QED BY <2>1, <2>2, <2>3, EnterDeaf, DeafTrans
<1> QED BY <1>1, <1>2

\* A packet is counted if it is the next one: a first SYN, then at most a FIN.
LEMMA SeqCounted ==
  ASSUME NEW s \in Sockets, NEW m, NEW j, NEW syn \in BOOLEAN, NEW fin \in BOOLEAN,
         Counted(s, j, syn, fin), Truthful(m, j, syn, fin)
  PROVE  /\ Counted(TakeSeq(s, m), j, syn, fin)
         /\ m.kind = "SYN" => Counted(TakeSyn(s, m), j, syn, fin)
<1>1. Counted(TakeSeq(s, m), j, syn, fin)
  <2> DEFINE t == TakeSeq(s, m)
  <2>1. /\ t.synReced = s.synReced /\ t.finReced = s.finReced
        /\ \/ t.theirSeq = s.theirSeq
           \/ HasSeq(m) /\ t.theirSeq = NextSeq(m.seq)
    BY DEF TakeSeq, CountSeq, SetAck, Sockets
  <2> HIDE DEF t
  <2>2. HasSeq(m) => \/ m.seq = j
                     \/ m.seq = NextSeq(j) /\ fin
    BY DEF Truthful, HasSeq
  <2>3. HasSeq(m) => \/ NextSeq(m.seq) = NextSeq(j)
                     \/ NextSeq(m.seq) = NextSeq(NextSeq(j)) /\ fin
    BY <2>2
  <2> QED BY <2>1, <2>3 DEF Counted, t
<1>2. ASSUME m.kind = "SYN" PROVE Counted(TakeSyn(s, m), j, syn, fin)
  <2> DEFINE t == TakeSyn(s, m)
  <2>1. t.finReced = s.finReced /\ t.theirSeq = NextSeq(m.seq)
    BY DEF TakeSyn, SetAck, Sockets
  <2> HIDE DEF t
  <2> QED BY <1>2, <2>1 DEF Counted, Truthful, t
<1> QED BY <1>1, <1>2

LEMMA FinCounted ==
  ASSUME NEW s \in Sockets, NEW m, NEW j, NEW syn \in BOOLEAN, NEW fin \in BOOLEAN,
         Counted(s, j, syn, fin), Truthful(m, j, syn, fin), m.kind = "FIN"
  PROVE  Counted([s EXCEPT !.finReced = TRUE], j, syn, fin)
<1> DEFINE t == [s EXCEPT !.finReced = TRUE]
<1>1. t.synReced = s.synReced /\ t.theirSeq = s.theirSeq  BY DEF Sockets
<1> HIDE DEF t
<1> QED BY <1>1 DEF Counted, Truthful, t

LEMMA TakePacketCounted ==
  ASSUME NEW s \in Sockets, NEW m \in Packets, NEW j, NEW syn \in BOOLEAN, NEW fin \in BOOLEAN,
         Counted(s, j, syn, fin), Truthful(m, j, syn, fin)
  PROVE  Counted(TakePacket(s, m), j, syn, fin)
<1> DEFINE C(x) == Counted(x, j, syn, fin)
<1>0. \A x, y : C(x) /\ Deaf(x, y) => C(y)  BY DeafCounted
<1>1. \A x \in Sockets : C(x) => /\ C(TakeSeq(x, m))
                                 /\ m.kind = "SYN" => C(TakeSyn(x, m))
                                 /\ m.kind = "FIN" => C([x EXCEPT !.finReced = TRUE])
  BY SeqCounted, FinCounted
<1>2. C(s)  OBVIOUS
<1> HIDE DEF C
<1>3. C(ConnectionError(s))  BY <1>0, <1>2, EnterDeaf
<1>4. C(ClosedHandlePacket(s, m))
  <2> DEFINE c == ClosedConnect(s)
             u == TakeSyn(c, m)
  <2>1. c \in Sockets /\ C(c)  BY <1>0, <1>2, ClosedConnectType, DeafSteps
  <2> HIDE DEF c
  <2>2. u \in Sockets /\ (m.kind = "SYN" => C(u))  BY <1>1, <2>1, TakeSynType
  <2> HIDE DEF u
  <2>3. m.kind = "SYN" => C([u EXCEPT !.state = "CONNECTING"])
    BY <1>0, <2>2, DeafSteps
  <2> QED BY <1>1, <1>2, <2>3 DEF ClosedHandlePacket, u, c
<1>5. C(ConnectingHandlePacket(s, m))
  <2> DEFINE a == TakeAck(s, m)
             t == ConnectingTakeAck(s, m)
             u == IF m.kind = "SYN" THEN TakeSyn(t, m) ELSE TakeSeq(t, m)
  <2>1. a \in Sockets /\ C(a)  BY <1>0, <1>2, TakeAckType, DeafSteps
  <2>2. t \in Sockets  BY ConnectingTakeAckType
  <2>3. t = IF m.hasAck THEN [a EXCEPT !.synAckReced = TRUE] ELSE s  BY DEF ConnectingTakeAck
  <2> HIDE DEF a, t
  <2>4. C(t)
    <3>1. m.hasAck => Deaf(a, t)  BY <2>1, <2>3 DEF Deaf, Sockets
    <3> QED BY <1>0, <1>2, <2>1, <2>3, <3>1
  <2>5. C(SetAck(t))  BY <1>0, <2>2, <2>4, DeafSteps
  <2>6. u \in Sockets /\ C(u)  BY <1>1, <2>2, <2>4, TakeSynType, TakeSeqType
  <2>7. ConnectingHandlePacket(s, m) = SetAck(t) \/ ConnectingHandlePacket(s, m) = ConnectingDone(u)
    BY DEF ConnectingHandlePacket, t
  <2> HIDE DEF u
  <2>8. C(ConnectingDone(u))  BY <1>0, <2>6, EnterDeaf DEF ConnectingDone
  <2> QED BY <2>5, <2>7, <2>8
<1>6. C(EstablishedHandlePacket(s, m))
  <2> DEFINE c == ClearSlot(s)
             t == EstablishedTakeAck(s, m)
             n == [t EXCEPT !.finReced = TRUE]
             u == IF IsNextFin(t, m) THEN EstablishedTakeFin(t) ELSE t
  <2>1. c \in Sockets /\ C(c)  BY <1>0, <1>2, ClearSlotType, DeafSteps
  <2>2. t = EndCtrl(c, AllCalls, TRUE) \/ t = s  BY DEF EstablishedTakeAck
  <2>3. t \in Sockets  BY EstablishedTakeAckType
  <2> HIDE DEF c, t
  <2>4. C(t)  BY <1>0, <1>2, <2>1, <2>2, DeafSteps
  <2>5. n \in Sockets /\ (m.kind = "FIN" => C(n))  BY <1>1, <2>3, <2>4 DEF Sockets
  <2>6. EstablishedTakeFin(t) = [EstablishedClose(n) EXCEPT !.state = "CLOSING"]
    BY DEF EstablishedTakeFin
  <2> HIDE DEF n
  <2>7. EstablishedClose(n) \in Sockets /\ Deaf(n, EstablishedTakeFin(t))
    BY <2>5, <2>6, EstablishedCloseType, DeafSteps, DeafTrans
  <2>8. EstablishedTakeFin(t) \in Sockets  BY <2>6, <2>7, WithState
  <2>9. u \in Sockets /\ C(u)
    BY <1>0, <2>3, <2>4, <2>5, <2>7, <2>8 DEF IsNextFin
  <2>10. EstablishedHandlePacket(s, m) = TakeSeq(u, m)  BY DEF EstablishedHandlePacket, t
  <2> HIDE DEF u
  <2> QED BY <1>1, <2>9, <2>10
<1>7. C(ClosingHandlePacket(s, m))
  <2> DEFINE a == TakeAck(s, m)
             t == ClosingTakeAck(s, m)
             u == ClosingTakeFin(t, m)
             v == TakeSeq(u, m)
  <2>1. a \in Sockets /\ C(a)  BY <1>0, <1>2, TakeAckType, DeafSteps
  <2>2. t = IF m.hasAck THEN [a EXCEPT !.finAckReced = TRUE] ELSE s  BY DEF ClosingTakeAck
  <2>3. t \in Sockets  BY ClosingTakeAckType
  <2> HIDE DEF a, t
  <2>4. C(t)
    <3>1. m.hasAck => Deaf(a, t)  BY <2>1, <2>2 DEF Deaf, Sockets
    <3> QED BY <1>0, <1>2, <2>1, <2>2, <3>1
  <2>5. u = t \/ (m.kind = "FIN" /\ u = [t EXCEPT !.finReced = TRUE])
    BY DEF ClosingTakeFin, IsNextFin
  <2>6. u \in Sockets /\ C(u)  BY <1>1, <2>3, <2>4, <2>5, WithFlags
  <2> HIDE DEF u
  <2>7. v \in Sockets /\ C(v)  BY <1>1, <2>6, TakeSeqType
  <2>8. ClosingHandlePacket(s, m) = ClosingDone(v)  BY DEF ClosingHandlePacket, v, u, t
  <2> HIDE DEF v
  <2> QED BY <1>0, <2>7, <2>8, EnterDeaf DEF ClosingDone
<1>8. s.state \in {"CLOSED", "CONNECTING", "ESTABLISHED", "CLOSING"}  BY DEF Sockets
<1>9. C(TakePacket(s, m))
  BY <1>3, <1>4, <1>5, <1>6, <1>7, <1>8 DEF TakePacket, StateHandlePacket
<1> QED BY <1>9 DEF C

-----------------------------------------------------------------------------
(* One turn of a thread *)

LEMMA OutgoingTruthful ==
  ASSUME NEW s \in Sockets, NEW i, Phase(s, i), NEW m \in Outgoing(s)
  PROVE  Truthful(m, i, Sent(s, i), Ended(s, i))
<1>1. CASE SlotDue(s)
  <2>1. m = [kind |-> s.toSend, seq |-> s.toSendSeq, hasAck |-> s.ackSet,
             ack |-> IF s.ackSet THEN s.ackData ELSE 0]
    BY <1>1 DEF Outgoing
  <2>2. m.kind = s.toSend /\ m.seq = s.toSendSeq  BY <2>1
  <2> QED BY <2>2 DEF Truthful, Phase
<1>2. CASE ~SlotDue(s)
  <2>1. m = [kind |-> "ACK", seq |-> 0, hasAck |-> TRUE, ack |-> s.ackData]
    BY <1>2 DEF Outgoing
  <2>2. m.kind = "ACK"  BY <2>1
  <2> QED BY <2>2 DEF Truthful
<1> QED BY <1>1, <1>2

LEMMA TurnGoes ==
  ASSUME TypeOK, NEW p \in Peers, NEW fires \in BOOLEAN, TurnOf(p, fires),
         NEW i, NEW j, NEW syn \in BOOLEAN, NEW fin \in BOOLEAN,
         Phase(sock[p], i), Posted(sock[p]), Counted(sock[p], j, syn, fin),
         \A m \in inbox[p] : Truthful(m, j, syn, fin)
  PROVE  /\ Goes(sock[p], sock'[p], i) /\ Taken(sock'[p])
         /\ Counted(sock'[p], j, syn, fin)
         /\ \A m \in net'[Other(p)] \ net[Other(p)] :
              Truthful(m, i, Sent(sock'[p], i), Ended(sock'[p], i))
<1> DEFINE polled == Polled(sock[p])
<1>0. Other(p) \in Peers /\ Other(p) # p  BY Pair
<1>1. polled \in Sockets /\ Goes(sock[p], polled, i) /\ Taken(polled) /\ Counted(polled, j, syn, fin)
  <2>1. sock[p] \in Sockets  BY DEF TypeOK
  <2>2. Counted(polled, j, syn, fin)  BY <2>1, TakeCallDeaf, DeafCounted DEF Polled
  <2> QED BY <2>1, <2>2, PolledType, PolledGoes
<1> HIDE DEF polled
<1>2. PICK s \in Handled(polled, inbox[p]) :
        IF s.error
        THEN /\ sock' = [sock EXCEPT ![p] = s]
             /\ UNCHANGED net
        ELSE LET t == IF fires THEN TimeOut(s) ELSE s IN
             /\ sock' = [sock EXCEPT ![p] = AfterSend(t)]
             /\ net' = [net EXCEPT ![Other(p)] = @ \union Outgoing(t)]
  BY DEF TurnOf, polled
<1>3. s \in Sockets /\ Goes(polled, s, i) /\ Counted(s, j, syn, fin)
  <2>1. s \in Sockets  BY <1>1, <1>2, HandledType DEF TypeOK
  <2>2. Phase(polled, i)  BY <1>1 DEF Goes
  <2>3. CASE s = polled  BY <1>1, <2>1, <2>2, <2>3, GoesItself
  <2>4. CASE s # polled
    <3>1. PICK m \in inbox[p] : s = TakePacket(polled, m) /\ ~polled.error
      BY <1>2, <2>4 DEF Handled
    <3>2. m \in Packets  BY DEF TypeOK
    <3> QED BY <1>1, <2>1, <2>2, <3>1, <3>2, TakePacketGoes, TakePacketCounted
  <2> QED BY <2>3, <2>4
<1> DEFINE t == IF fires THEN TimeOut(s) ELSE s
           r == AfterSend(t)
<1>4. t \in Sockets /\ Goes(s, t, i) /\ Counted(t, j, syn, fin)
  <2>1. Phase(s, i)  BY <1>3 DEF Goes
  <2> QED BY <1>3, <2>1, TimeOutType, TimeOutGoes, TimeOutDeaf, DeafCounted, GoesItself
<1>5. \/ sock' = [sock EXCEPT ![p] = s] /\ net' = net
      \/ sock' = [sock EXCEPT ![p] = r] /\ net' = [net EXCEPT ![Other(p)] = @ \union Outgoing(t)]
  BY <1>2
<1> HIDE DEF t
<1>6. Goes(t, r, i) /\ Same(t, r) /\ Counted(r, j, syn, fin)
  BY <1>4, SameSteps, SameGoes, DeafSteps, DeafCounted DEF Goes
<1> HIDE DEF r
<1>7. Goes(sock[p], s, i) /\ Taken(s)  BY <1>1, <1>3, GoesTrans DEF Goes
<1>8. Goes(sock[p], r, i) /\ Taken(r)  BY <1>4, <1>6, <1>7, GoesTrans DEF Goes
<1>9. \A m \in Outgoing(t) : Truthful(m, i, Sent(r, i), Ended(r, i))
  <2>1. Phase(t, i) /\ (Sent(t, i) <=> Sent(r, i)) /\ (Ended(t, i) <=> Ended(r, i))
    BY <1>4, <1>6 DEF Goes, Same, Sent, Ended, Unused
  <2> QED BY <1>4, <2>1, OutgoingTruthful DEF Truthful
<1>10. sock'[p] \in {s, r}  BY <1>5 DEF TypeOK
<1>11. \A m \in net'[Other(p)] \ net[Other(p)] : m \in Outgoing(t) /\ sock'[p] = r
  BY <1>0, <1>5 DEF TypeOK
<1> QED BY <1>3, <1>6, <1>7, <1>8, <1>9, <1>10, <1>11

\* Until it is called, the thread of a socket that ump_connect has made stays idle: no SYN
\* for it is on the way, its slot is empty and so its timer does not run.
LEMMA TurnIdle ==
  ASSUME TypeOK, NEW p \in Peers, NEW fires \in BOOLEAN, TurnOf(p, fires),
         NEW i, Phase(sock[p], i), sock[p].para = None, Idle(sock[p]),
         ~sock[p].error => \A m \in inbox[p] : m.kind # "SYN"
  PROVE  Idle(sock'[p])
<1> DEFINE a == sock[p]
<1>1. a \in Sockets /\ Polled(sock[p]) = a  BY DEF Polled, CallWaiting, TypeOK
<1>2. PICK s \in Handled(a, inbox[p]) :
        IF s.error
        THEN sock' = [sock EXCEPT ![p] = s]
        ELSE /\ fires => TimerRuns(s)
             /\ sock' = [sock EXCEPT ![p] = AfterSend(IF fires THEN TimeOut(s) ELSE s)]
  BY <1>1 DEF TurnOf
<1>3. Phase(a, i) /\ Idle(a)  OBVIOUS
<1> HIDE DEF a
<1>4. CASE a.error
  <2>1. s = a  BY <1>2, <1>4 DEF Handled
  <2> QED BY <1>2, <1>3, <1>4, <2>1 DEF TypeOK
<1>5. CASE ~a.error
  <2>1. Unused(a)  BY <1>3, <1>5 DEF Unused, Idle
  <2>2. a.toSend = None  BY <1>1, <1>3, <2>1 DEF Phase, Sent, Ended, Sockets
  <2>3. s \in Sockets  BY <1>1, <1>2, HandledType DEF TypeOK
  <2>4. Idle(s) /\ (s.error \/ s.toSend = None)
    <3>1. CASE s = a  BY <1>3, <2>2, <3>1
    <3>2. CASE s # a
      <4>1. PICK m \in inbox[p] : s = TakePacket(a, m)  BY <1>2, <3>2 DEF Handled
      <4>2. m.kind # "SYN"  BY <1>5 DEF a
      <4>3. CASE m.kind = "RST"
        <5>1. s = ConnectionError(a)  BY <4>1, <4>3 DEF TakePacket
        <5> QED BY <1>1, <5>1
                DEF ConnectionError, EnterClosed, EndCtrl, Idle, Sockets
      <4>4. CASE m.kind # "RST"
        <5>1. s = TakeSeq(a, m)
          BY <2>1, <4>1, <4>2, <4>4 DEF TakePacket, StateHandlePacket, ClosedHandlePacket, Unused
        <5>2. Same(a, s)  BY <1>1, <5>1, SameSteps
        <5> QED BY <1>3, <2>2, <5>2 DEF Same, Idle
      <4> QED BY <4>3, <4>4
    <3> QED BY <3>1, <3>2
  <2>5. CASE s.error  BY <1>2, <2>4, <2>5 DEF TypeOK
  <2>6. CASE ~s.error
    <3>1. ~fires  BY <1>2, <2>4, <2>6 DEF TimerRuns
    <3>2. sock'[p] = AfterSend(s)  BY <1>2, <2>6, <3>1 DEF TypeOK
    <3> QED BY <2>3, <2>4, <3>2, SameSteps DEF Same, Idle
  <2> QED BY <2>5, <2>6
<1> QED BY <1>4, <1>5

-----------------------------------------------------------------------------
(* The invariant, when one user opens *)

\* The socket at p has queued its SYN or its FIN, or is gone for good.
SynSent(p) == created[p] = 1 /\ (Exists(p) => Sent(sock[p], First(p)))
FinSent(p) == created[p] = 1 /\ (Exists(p) => Ended(sock[p], First(p)))

Counts(p) ==
  /\ created[p] = 1 /\ Phase(sock[p], First(p)) /\ Posted(sock[p])
  /\ Counted(sock[p], First(Other(p)), SynSent(Other(p)), FinSent(Other(p)))

Says(p, m) == Truthful(m, First(Other(p)), SynSent(Other(p)), FinSent(Other(p)))

\* Only the one who opens is in ump_connect, and has the peer's socket come second.
Opens(p) ==
  /\ user[p] \in {"connecting", "connect"} => p \in Openers
  /\ user[p] = "connecting" => Idle(sock[p])
  /\ p \in Openers => table[p] # "backlog"

Follows(p) == p \notin Openers /\ created[p] = 1 => SynSent(Other(p))

OneInv == \A p \in Peers :
  /\ Exists(p) => Counts(p)
  /\ \A m \in net[p] \union inbox[p] : Says(p, m)
  /\ Opens(p)
  /\ Follows(p)

LEMMA StepOne ==
  ASSUME OneInv,
         \A p \in Peers : (SynSent(p) => SynSent(p)') /\ (FinSent(p) => FinSent(p)'),
         \A p \in Peers : Exists(p)' =>
           /\ created'[p] = 1 /\ Phase(sock'[p], First(p)) /\ Posted(sock'[p])
           /\ Counted(sock'[p], First(Other(p)), SynSent(Other(p)), FinSent(Other(p))),
         \A p \in Peers : \A m \in net'[p] \union inbox'[p] :
           \/ m \in net[p] \union inbox[p]
           \/ Truthful(m, First(Other(p)), SynSent(Other(p))', FinSent(Other(p))'),
         \A p \in Peers : Opens(p)',
         \A p \in Peers \ Openers : created'[p] = 1 => created[p] = 1 \/ SynSent(Other(p))
  PROVE  OneInv'
<1>0. \A p \in Peers : /\ SynSent(Other(p)) => SynSent(Other(p))'
                       /\ FinSent(Other(p)) => FinSent(Other(p))'
  BY Pair
<1>2. ASSUME NEW p \in Peers, Exists(p)' PROVE Counts(p)'
  <2>1. /\ created'[p] = 1 /\ Phase(sock'[p], First(p)) /\ Posted(sock'[p])
        /\ Counted(sock'[p], First(Other(p)), SynSent(Other(p)), FinSent(Other(p)))
    BY <1>2
  <2>2. Counted(sock'[p], First(Other(p)), SynSent(Other(p))', FinSent(Other(p))')
    BY <1>0, <2>1, ZenonT(30) DEF Counted
  <2> QED BY <2>1, <2>2 DEF Counts
<1>3. ASSUME NEW p \in Peers, NEW m \in net'[p] \union inbox'[p] PROVE Says(p, m)'
  <2>1. ASSUME m \in net[p] \union inbox[p] PROVE Says(p, m)'
    <3>1. Truthful(m, First(Other(p)), SynSent(Other(p)), FinSent(Other(p)))
      BY <2>1 DEF OneInv, Says
    <3> QED BY <1>0, <3>1, ZenonT(30) DEF Says, Truthful
  <2> QED BY <1>3, <2>1 DEF Says
<1>4. \A p \in Peers : Follows(p)'  BY <1>0 DEF OneInv, Follows
<1> QED BY <1>2, <1>3, <1>4 DEF OneInv

LEMMA TurnOne ==
  ASSUME TypeOK, OneInv, ControlInv', NEW p \in Peers, NEW fires \in BOOLEAN,
         TurnOf(p, fires), \A q \in Peers : Opens(q)'
  PROVE  OneInv'
<1> DEFINE o == Other(p)
<1>1. o \in Peers /\ o # p /\ Other(o) = p /\ \A q \in Peers : q = p \/ q = o  BY Pair
<1> HIDE DEF o
<1>2. Exists(p) /\ SynSent(o) \in BOOLEAN /\ FinSent(o) \in BOOLEAN
  BY DEF TurnOf, SynSent, FinSent
<1>3. /\ created[p] = 1 /\ Phase(sock[p], First(p)) /\ Posted(sock[p])
      /\ Counted(sock[p], First(o), SynSent(o), FinSent(o))
  BY <1>2 DEF OneInv, Counts, o
<1>4. \A m \in inbox[p] : Truthful(m, First(o), SynSent(o), FinSent(o))
  BY DEF OneInv, Says, o
<1>5. /\ Goes(sock[p], sock'[p], First(p)) /\ Taken(sock'[p])
      /\ Counted(sock'[p], First(o), SynSent(o), FinSent(o))
      /\ \A m \in net'[o] \ net[o] :
           Truthful(m, First(p), Sent(sock'[p], First(p)), Ended(sock'[p], First(p)))
  BY <1>2, <1>3, <1>4, TurnGoes DEF o
<1>6. sock'[o] = sock[o] /\ table' = table /\ created' = created
  BY <1>1, TurnKeeps DEF TurnOf
<1>7. /\ SynSent(o)' <=> SynSent(o)
      /\ FinSent(o)' <=> FinSent(o)
      /\ SynSent(p)' <=> Sent(sock'[p], First(p))
      /\ FinSent(p)' <=> Ended(sock'[p], First(p))
  BY <1>2, <1>3, <1>6 DEF SynSent, FinSent, Exists
<1>8. (SynSent(p) => SynSent(p)') /\ (FinSent(p) => FinSent(p)')
  BY <1>2, <1>5, <1>7 DEF SynSent, FinSent, Goes
<1>9. Posted(sock'[p]) /\ Phase(sock'[p], First(p))
  <2>1. sock'[p].para = "CONNECT" => sock'[p].locked  BY <1>5 DEF Taken, None
  <2>2. HeldCall(sock'[p])  BY DEF ControlInv, CallHasState, HeldCall
  <2> QED BY <1>5, <2>1, <2>2 DEF Posted, HeldCall, Goes
<1>10. \A q \in Peers : Exists(q)' =>
         /\ created'[q] = 1 /\ Phase(sock'[q], First(q)) /\ Posted(sock'[q])
         /\ Counted(sock'[q], First(Other(q)), SynSent(Other(q)), FinSent(Other(q)))
  <2>1. Exists(o)' => /\ created'[o] = 1 /\ Phase(sock'[o], First(o)) /\ Posted(sock'[o])
                      /\ Counted(sock'[o], First(p), SynSent(p), FinSent(p))
    BY <1>1, <1>6 DEF OneInv, Counts, Exists
  <2> QED BY <1>1, <1>3, <1>5, <1>6, <1>9, <2>1 DEF o
<1>11. \A q \in Peers : \A m \in net'[q] \union inbox'[q] :
         \/ m \in net[q] \union inbox[q]
         \/ Truthful(m, First(Other(q)), SynSent(Other(q))', FinSent(Other(q))')
  <2>1. net'[p] = net[p] /\ \A q \in Peers : inbox'[q] \subseteq inbox[q]
    BY <1>1, Pair DEF TurnOf, TypeOK, o
  <2>2. \A m \in net'[o] \ net[o] : Truthful(m, First(p), SynSent(p)', FinSent(p)')
    BY <1>5, <1>7 DEF Truthful
  <2> QED BY <1>1, <2>1, <2>2
<1> QED BY <1>1, <1>6, <1>7, <1>8, <1>10, <1>11, StepOne

LEMMA FreshCounts ==
  ASSUME NEW i, NEW j, NEW syn \in BOOLEAN, NEW fin \in BOOLEAN
  PROVE  LET s == FreshSocket(i) IN
         Phase(s, i) /\ Posted(s) /\ Counted(s, j, syn, fin) /\ Idle(s)
BY DEF FreshSocket, Phase, Posted, Counted, Idle, Unused, None

\* A SYN makes a socket only for a user who does not open, and it says the truth.
LEMMA FreshOne ==
  ASSUME MaxSockets = 1, TypeOK, OneInv, NEW p \in Peers, Creates(p),
         \A q \in Peers : Opens(q)'
  PROVE  OneInv'
<1>1. \A q \in Peers : /\ Other(q) \in Peers
                       /\ SynSent(q) \in BOOLEAN /\ FinSent(q) \in BOOLEAN
  BY Pair DEF SynSent, FinSent
<1>2. created[p] = 0  BY DEF TypeOK, CanCreate, Creates
<1>3. /\ sock'[p] = FreshSocket(First(p)) /\ created'[p] = 1 /\ inbox'[p] \subseteq net[p]
      /\ \A q \in Peers \ {p} : /\ sock'[q] = sock[q] /\ created'[q] = created[q]
                              /\ inbox'[q] = inbox[q] /\ table'[q] = table[q]
  BY <1>2 DEF AddSocket, First, TypeOK, Creates
<1>4. \A q \in Peers : (SynSent(q) => SynSent(q)') /\ (FinSent(q) => FinSent(q)')
  BY <1>2, <1>3 DEF SynSent, FinSent, Exists
<1>5. \A q \in Peers : Exists(q)' =>
        /\ created'[q] = 1 /\ Phase(sock'[q], First(q)) /\ Posted(sock'[q])
        /\ Counted(sock'[q], First(Other(q)), SynSent(Other(q)), FinSent(Other(q)))
  BY <1>1, <1>3, FreshCounts DEF OneInv, Counts, Exists
<1>6. \A q \in Peers : \A m \in net'[q] \union inbox'[q] : m \in net[q] \union inbox[q]
  BY <1>3 DEF Creates
<1>7. p \notin Openers => SynSent(Other(p))
  BY DEF Creates, OneInv, Says, Truthful
<1> QED BY <1>3, <1>4, <1>5, <1>6, <1>7, StepOne

LEMMA OtherOne ==
  ASSUME TypeOK, OneInv, Moves, \A q \in Peers : Opens(q)'
  PROVE  OneInv'
<1>1. \A q \in Peers : /\ Other(q) \in Peers /\ sock[q] \in Sockets
                       /\ SynSent(q) \in BOOLEAN /\ FinSent(q) \in BOOLEAN
  BY Pair DEF SynSent, FinSent, TypeOK
<1>2. ASSUME NEW q \in Peers, Exists(q)'
      PROVE  /\ created'[q] = 1
             /\ Sent(sock[q], First(q)) <=> Sent(sock'[q], First(q))
             /\ Ended(sock[q], First(q)) <=> Ended(sock'[q], First(q))
             /\ Phase(sock'[q], First(q)) /\ Posted(sock'[q])
             /\ Counted(sock'[q], First(Other(q)), SynSent(Other(q)), FinSent(Other(q)))
  <2> DEFINE s == sock[q]
             t == sock'[q]
  <2>1. /\ created'[q] = 1 /\ s \in Sockets
        /\ Phase(s, First(q)) /\ Posted(s)
        /\ Counted(s, First(Other(q)), SynSent(Other(q)), FinSent(Other(q)))
    BY <1>1, <1>2 DEF OneInv, Counts, Moves
  <2>2. /\ t.state = s.state /\ t.error = s.error /\ t.synReced = s.synReced
        /\ t.ourSeq = s.ourSeq /\ t.toSend = s.toSend /\ t.toSendSeq = s.toSendSeq
        /\ Deaf(s, t)
        /\ t.para = "CONNECT" => t = s \/ Idle(s)
    <3>1. CASE t = s  BY <3>1 DEF Deaf
    <3>2. CASE t = [s EXCEPT !.para = "CLOSE"]  BY <2>1, <3>2 DEF Sockets, Deaf
    <3>3. CASE user[q] = "connecting" /\ t = [s EXCEPT !.para = "CONNECT"]
      <4>1. Idle(s)  BY <3>3 DEF OneInv, Opens
      <4> QED BY <2>1, <3>3, <4>1 DEF Sockets, Deaf
    <3> QED BY <1>2, <3>1, <3>2, <3>3 DEF Moves
  <2> HIDE DEF s, t
  <2>3. Phase(t, First(q)) /\ Posted(t)
    BY <2>1, <2>2 DEF Phase, Posted, Idle, Unused, Sent, Ended
  <2>4. Counted(t, First(Other(q)), SynSent(Other(q)), FinSent(Other(q)))
    BY <1>1, <2>1, <2>2, DeafCounted
  <2>5. /\ Sent(s, First(q)) <=> Sent(t, First(q))
        /\ Ended(s, First(q)) <=> Ended(t, First(q))
    BY <2>2 DEF Sent, Ended, Unused
  <2> QED BY <2>1, <2>3, <2>4, <2>5 DEF s, t
<1>3. \A q \in Peers : (SynSent(q) => SynSent(q)') /\ (FinSent(q) => FinSent(q)')
  BY <1>2 DEF SynSent, FinSent, Moves
<1>4. \A i, syn, fin : Truthful(Reset, i, syn, fin)  BY DEF Truthful, Reset
<1>5. \A q \in Peers \ Openers : created'[q] = 1 => created[q] = 1  BY DEF Moves
<1>6. \A q \in Peers : \A m \in net'[q] \union inbox'[q] :
         \/ m \in net[q] \union inbox[q]
         \/ Truthful(m, First(Other(q)), SynSent(Other(q))', FinSent(Other(q))')
  BY <1>4 DEF Moves
<1> QED BY <1>2, <1>3, <1>5, <1>6, StepOne

OneOpener == \A p, q \in Openers : p = q

\* What a step does to the call, the table and the socket at one address
LEMMA OpensStep ==
  ASSUME TypeOK, InCall, [Next]_vars, NEW q \in Peers
  PROVE  /\ user'[q] \in {"connecting", "connect"} =>
              user[q] \in {"connecting", "connect"} \/ q \in Openers
         /\ table'[q] = "backlog" => table[q] = "backlog" \/ CreateOnSyn(q)
         /\ user'[q] = "connecting" =>
              \/ /\ user[q] = "connecting"
                 /\ sock'[q] = sock[q] \/ \E fires \in BOOLEAN : TurnOf(q, fires)
              \/ q \in Openers /\ (Idle(sock'[q]) \/ table[q] = "backlog")
<1> DEFINE U == user'[q] \in {"connecting", "connect"} =>
                  user[q] \in {"connecting", "connect"} \/ q \in Openers
           T == table'[q] = "backlog" => table[q] = "backlog" \/ CreateOnSyn(q)
           S == user'[q] = "connecting" =>
                  \/ /\ user[q] = "connecting"
                     /\ sock'[q] = sock[q] \/ \E fires \in BOOLEAN : TurnOf(q, fires)
                  \/ q \in Openers /\ (Idle(sock'[q]) \/ table[q] = "backlog")
           Goal == U /\ T /\ S
<1>1. /\ user \in [Peers -> Calls] /\ table \in [Peers -> Tables]
      /\ sock \in [Peers -> Sockets]
  BY DEF TypeOK
<1>2. ASSUME user'[q] = user[q], table'[q] = table[q], sock'[q] = sock[q] PROVE Goal
  BY <1>2
<1>3. ASSUME user'[q] = "idle", table'[q] # "backlog" PROVE Goal
  BY <1>3
<1>4. ASSUME NEW p \in Peers, QuietTurn(p) \/ TimeoutTurn(p) PROVE Goal
  <2>1. PICK fires \in BOOLEAN : TurnOf(p, fires)  BY <1>4 DEF QuietTurn, TimeoutTurn
  <2>2. user' = user /\ table' = table  BY <2>1 DEF TurnOf
  <2>3. sock'[q] = sock[q] \/ q = p  BY <2>1, TurnKeeps
  <2> QED BY <2>1, <2>2, <2>3
<1>5. ASSUME NEW p \in Peers, UserStep(p) PROVE Goal
  <2>1. CASE Connect(p)
    <3>1. CASE q = p
      <4>1. q \in Openers  BY <2>1, <3>1 DEF Connect
      <4>2. T  BY <1>1, <2>1, <3>1 DEF Connect, AddSocket
      <4>3. CASE AddSocket(p, "act_connect", {})
        <5>1. Idle(sock'[q])  BY <1>1, <3>1, <4>3 DEF AddSocket, Idle, FreshSocket
        <5> QED BY <4>1, <4>2, <5>1
      <4>4. CASE table[p] = "backlog"  BY <3>1, <4>1, <4>2, <4>4
      <4> QED BY <2>1, <4>3, <4>4 DEF Connect
    <3>2. CASE q # p  BY <1>1, <1>2, <2>1, <3>2 DEF Connect, AddSocket
    <3> QED BY <3>1, <3>2
  <2>2. CASE ConnectCall(p)
    <3>1. CASE q = p  BY <1>1, <2>2, <3>1 DEF ConnectCall
    <3>2. CASE q # p  BY <1>1, <1>2, <2>2, <3>2 DEF ConnectCall
    <3> QED BY <3>1, <3>2
  <2>3. CASE ConnectReturn(p)
    <3>1. CASE q = p  BY <1>1, <1>3, <2>3, <3>1 DEF ConnectReturn, FreeSocket
    <3>2. CASE q # p  BY <1>1, <1>2, <2>3, <3>2 DEF ConnectReturn, FreeSocket
    <3> QED BY <3>1, <3>2
  <2>4. CASE Accept(p)
    <3>1. CASE q = p  BY <1>1, <1>3, <2>4, <3>1 DEF Accept
    <3>2. CASE q # p  BY <1>1, <1>2, <2>4, <3>2 DEF Accept
    <3> QED BY <3>1, <3>2
  <2>5. CASE CloseCall(p)
    <3>1. CASE q = p  BY <1>1, <2>5, <3>1 DEF CloseCall
    <3>2. CASE q # p  BY <1>1, <1>2, <2>5, <3>2 DEF CloseCall
    <3> QED BY <3>1, <3>2
  <2>6. CASE CloseReturn(p)
    <3>1. CASE q = p  BY <1>1, <1>3, <2>6, <3>1 DEF CloseReturn
    <3>2. CASE q # p  BY <1>1, <1>2, <2>6, <3>2 DEF CloseReturn
    <3> QED BY <3>1, <3>2
  <2> QED BY <1>5, <2>1, <2>2, <2>3, <2>4, <2>5, <2>6 DEF UserStep
<1>6. ASSUME NEW p \in Peers, CoreStep(p) \/ Lose(p) PROVE Goal
  <2>1. CASE CreateOnSyn(p) \/ Clean(p)
    <3>1. user' = user /\ user[p] = "idle"
      BY <1>1, <2>1 DEF CreateOnSyn, Clean, Exists, InCall
    <3>2. T  BY <1>1, <2>1 DEF CreateOnSyn, AddSocket, Clean, FreeSocket
    <3>3. q # p => sock'[q] = sock[q]
      BY <1>1, <2>1 DEF CreateOnSyn, AddSocket, Clean, FreeSocket
    <3> QED BY <3>1, <3>2, <3>3
  <2>2. CASE UNCHANGED <<user, table, sock>>  BY <1>2, <2>2
  <2> QED BY <1>6, <2>1, <2>2 DEF CoreStep, Deliver, Stray, Refuse, Lose
<1>7. ASSUME UNCHANGED vars PROVE Goal  BY <1>2, <1>7 DEF vars
<1> HIDE DEF Goal
<1>8. Goal
  <2>1. CASE Next
    <3>1. PICK p \in Peers :
            QuietTurn(p) \/ TimeoutTurn(p) \/ UserStep(p) \/ CoreStep(p) \/ Lose(p)
      BY <2>1 DEF Next
    <3> QED BY <1>4, <1>5, <1>6, <3>1
  <2> QED BY <1>7, <2>1
<1> QED BY <1>8 DEF Goal

LEMMA NextOpens ==
  ASSUME MaxSockets = 1, OneOpener, ControlInv, InCall, OneInv, [Next]_vars, NEW q \in Peers
  PROVE  Opens(q)'
<1> DEFINE o == Other(q)
<1>1. TypeOK /\ o \in Peers /\ o # q /\ Other(o) = q  BY Pair DEF ControlInv
<1> HIDE DEF o
<1>2. Opens(q)  BY DEF OneInv
<1>3. \A m \in net[q] \union inbox[q] : m.kind = "SYN" => SynSent(o)
  BY DEF OneInv, Says, Truthful, o
\* A SYN for the one who opens answers its own.
<1>4. ASSUME q \in Openers, SynSent(o) PROVE SynSent(q)
  <2>1. o \notin Openers  BY <1>1, <1>4 DEF OneOpener
  <2>2. created[o] = 1  BY <1>4 DEF SynSent
  <2> QED BY <1>1, <2>1, <2>2 DEF OneInv, Follows
<1>5. ASSUME q \in Openers PROVE ~CreateOnSyn(q)
  <2> SUFFICES ASSUME CreateOnSyn(q) PROVE FALSE  OBVIOUS
  <2>1. SynSent(q)  BY <1>3, <1>4, <1>5 DEF CreateOnSyn
  <2>2. created[q] = 1 /\ created[q] < 1  BY <2>1 DEF SynSent, CreateOnSyn, CanCreate
  <2> QED BY <2>2
<1>6. ASSUME user[q] = "connecting", NEW fires \in BOOLEAN, TurnOf(q, fires)
      PROVE  Idle(sock'[q])
  <2>1. q \in Openers /\ Idle(sock[q])  BY <1>2, <1>6 DEF Opens
  <2>2. sock[q].para = None  BY <1>6 DEF ControlInv, NoStrayCall
  <2>3. Exists(q)  BY <1>6 DEF TurnOf
  <2>4. Phase(sock[q], First(q))  BY <2>3 DEF OneInv, Counts
  <2>5. ASSUME ~sock[q].error PROVE \A m \in inbox[q] : m.kind # "SYN"
    <3>1. ~SynSent(q)  BY <2>1, <2>3, <2>5 DEF SynSent, Sent, Unused, Idle
    <3> QED BY <1>3, <1>4, <2>1, <3>1
  <2> QED BY <1>1, <1>6, <2>1, <2>2, <2>4, <2>5, TurnIdle
<1>7. user'[q] = "connecting" => Idle(sock'[q])
  BY <1>1, <1>2, <1>6, OpensStep DEF Opens
<1>8. q \in Openers => table'[q] # "backlog"  BY <1>1, <1>2, <1>5, OpensStep DEF Opens
<1>9. user'[q] \in {"connecting", "connect"} => q \in Openers
  BY <1>1, <1>2, OpensStep DEF Opens
<1> QED BY <1>7, <1>8, <1>9 DEF Opens

LEMMA InitOne == Init => OneInv
<1> SUFFICES ASSUME Init PROVE OneInv  OBVIOUS
<1>1. \A p \in Peers : /\ ~Exists(p) /\ net[p] = {} /\ inbox[p] = {}
                       /\ user[p] = "idle" /\ table[p] = "none" /\ created[p] = 0
  BY DEF Init, Exists
<1> QED BY <1>1 DEF OneInv, Opens, Follows

LEMMA NextOne ==
  ASSUME MaxSockets = 1, OneOpener
  PROVE  ControlInv /\ InCall /\ OneInv /\ [Next]_vars => OneInv'
<1> SUFFICES ASSUME ControlInv, InCall, OneInv, [Next]_vars PROVE OneInv'  OBVIOUS
<1>1. TypeOK /\ ControlInv'  BY NextControl DEF ControlInv
<1>2. \A q \in Peers : Opens(q)'  BY NextOpens
<1> QED BY <1>1, <1>2, StepKinds, TurnOne, FreshOne, OtherOne

\* The three together are inductive.
LEMMA OneIsInvariant ==
  ASSUME MaxSockets = 1, OneOpener PROVE Spec => []OneInv
<1>1. Init => ControlInv /\ InCall /\ OneInv
  BY InitControl, InitOne DEF Init, InCall
<1>2. ControlInv /\ InCall /\ OneInv /\ [Next]_vars => ControlInv' /\ InCall' /\ OneInv'
  BY NextControl, NextInCall, NextOne DEF ControlInv
<1> QED BY <1>1, <1>2, PTL DEF Spec

\* With one socket at each address and one user who calls ump_connect, an end is at most one control
\* number ahead of what its peer has counted: the SYN is acknowledged before the FIN takes
\* the next number, and neither is counted twice.  (ump_connect at both ends can connect a
\* socket of the backlog that is in CLOSED already and has used its numbers.)
THEOREM ControlIsStopAndWait ==
  ASSUME MaxSockets = 1, OneOpener PROVE Spec => []StopAndWait
<1>1. OneInv => StopAndWait
  <2> SUFFICES ASSUME OneInv, NEW p \in Peers, NEW q \in Peers, Exists(p), Exists(q), p # q,
                      sock[p].synReced
               PROVE  sock[q].ourSeq \in {sock[p].theirSeq, NextSeq(sock[p].theirSeq)}
    BY DEF StopAndWait
  <2>1. Other(p) = q  BY Pair
  <2>2. Counted(sock[p], First(q), SynSent(q), FinSent(q))  BY <2>1 DEF OneInv, Counts
  <2>3. CASE sock[p].theirSeq = NextSeq(First(q))
    BY <2>2, <2>3 DEF Counted, SynSent, Sent
  <2>4. CASE sock[p].theirSeq = NextSeq(NextSeq(First(q))) /\ FinSent(q)
    BY <2>4 DEF FinSent, Ended
  <2> QED BY <2>2, <2>3, <2>4 DEF Counted
<1> QED BY <1>1, OneIsInvariant, PTL

\* Under the same conditions, an end that reached CLOSED by the exchange of FINs, and not
\* by an error, has a peer that is closing or closed too.
THEOREM ClosesTogether ==
  ASSUME MaxSockets = 1, OneOpener PROVE Spec => []CloseIsMutual
<1>1. OneInv => CloseIsMutual
  <2> SUFFICES ASSUME OneInv, NEW p \in Peers, NEW q \in Peers, ClosedByHandshake(p),
                      Exists(q), p # q
               PROVE  sock[q].state \in {"CLOSING", "CLOSED"}
    BY DEF CloseIsMutual
  <2>1. Other(p) = q  BY Pair
  <2>2. Counted(sock[p], First(q), SynSent(q), FinSent(q))
    BY <2>1 DEF OneInv, Counts, ClosedByHandshake
  <2>3. FinSent(q)  BY <2>2 DEF Counted, ClosedByHandshake
  <2> QED BY <2>3 DEF FinSent, Ended
<1> QED BY <1>1, OneIsInvariant, PTL

=============================================================================
