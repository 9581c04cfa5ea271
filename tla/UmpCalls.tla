------------------------------ MODULE UmpCalls ------------------------------
(***************************************************************************)
(* How the calls of users reach the thread of a socket and come back:      *)
(* the three call locks of ump_sock.c (ctrl_para_lock, snd_para_lock,      *)
(* rec_para_lock), the events of mevent.c, and the thread that polls the   *)
(* locks, keeps one while it serves a call, and ends calls when the        *)
(* connection changes.  What arrives from the network is a choice here;    *)
(* UmpHandshake and UmpTransfer say where it comes from.                   *)
(***************************************************************************)
EXTENDS Naturals, Sequences

CONSTANTS
  Users,     \* threads of the program that uses the socket
  KindOf     \* the kind of call each of them makes

Kinds == {"ctrl", "snd", "rec"}
MethodsOf ==
  [k \in Kinds |-> CASE k = "ctrl" -> {"CONNECT", "CLOSE"}
                     [] k = "snd" -> {"SEND"} [] k = "rec" -> {"RECEIVE"}]
Methods == UNION {MethodsOf[k] : k \in Kinds}

ASSUME KindAssumption == KindOf \in [Users -> Kinds]

\* A user who posts a call while another of its kind waits takes the other's slot:
\* the code leaves it to the program that it does not happen.
ASSUME OneUserPerKind == \A u, v \in Users : KindOf[u] = KindOf[v] => u = v

None == "none"
Ok == "ok"
Failed == "failed"
Results == {Ok, Failed}

VARIABLES
  para,     \* the posted call of each kind and who made it (ctrl_para, snd_packets,
            \* receive_called)
  locked,   \* ctrl_locked, snd_locked, rec_locked: the thread keeps the lock
  ok,       \* ctrl_ok, snd_ok, rec_ok
  done,     \* the events ctrl_done, snd_done, rec_done
  pc,       \* where each user is
  answer,   \* the result the thread decided for the user's call
  returned, \* what the user's last call returned
  made,     \* control calls the users have made
  conn,     \* state, with "FREED" when the socket is gone
  error,    \* error_occured
  finReced, \* fin_reced: the peer has closed its end
  opened,   \* the users have the socket: it was ESTABLISHED once
  ready,    \* complete messages that wait for a receive call
  flow,     \* the send call in service: packets in flight, or window closed
  phase,    \* where the thread is in its turn
  todo      \* the calls of end_ctrl, end_snd, end_rec and m_event_set ahead of it

callVars == <<para, locked, ok, done, answer>>
userVars == <<pc, returned, made>>
connVars == <<conn, error, finReced, opened, ready, flow>>
vars == <<callVars, userVars, connVars, phase, todo>>

States == {"CLOSED", "CONNECTING", "ESTABLISHED", "CLOSING", "FREED"}
NoCall == [method |-> None, by |-> None]
EndOf(k, methods, result) == [op |-> "end", kind |-> k, methods |-> methods, result |-> result]
SetOf(k) == [op |-> "set", kind |-> k, methods |-> {}, result |-> Failed]
Ends == [op : {"end", "set"}, kind : Kinds, methods : SUBSET Methods, result : Results]

TypeOK ==
  /\ para \in [Kinds -> [method : Methods, by : Users] \union {NoCall}]
  /\ locked \in [Kinds -> BOOLEAN]
  /\ ok \in [Kinds -> Results]
  /\ done \in [Kinds -> BOOLEAN]
  /\ pc \in [Users -> {"idle", "waiting", "woken"}]
  /\ answer \in [Users -> Results \union {None}]
  /\ returned \in [Users -> Results \union {None}]
  /\ made \subseteq MethodsOf["ctrl"]
  /\ conn \in States /\ error \in BOOLEAN /\ finReced \in BOOLEAN /\ opened \in BOOLEAN
  /\ ready \in 0..1 /\ flow \in {None, "flight", "blocked"}
  /\ phase \in {"ctrl", "snd", "rec", "packets", "sleep", "free"}
  /\ todo \in Seq(Ends)

Init ==
  /\ para = [k \in Kinds |-> NoCall]
  /\ locked = [k \in Kinds |-> FALSE]
  /\ ok = [k \in Kinds |-> Failed]
  /\ done = [k \in Kinds |-> FALSE]
  /\ pc = [u \in Users |-> "idle"]
  /\ answer = [u \in Users |-> None] /\ returned = [u \in Users |-> None]
  /\ made = {}
  /\ conn = "CLOSED" /\ error = FALSE /\ finReced = FALSE /\ opened = FALSE
  /\ ready = 0 /\ flow = None
  /\ phase = "ctrl" /\ todo = <<>>

-----------------------------------------------------------------------------
(* The users *)

CtrlIdle == \A u \in Users : KindOf[u] = "ctrl" => pc[u] = "idle"
CtrlReturned(r) == CtrlIdle /\ \A u \in Users : KindOf[u] = "ctrl" => returned[u] = r

\* Users have a socket that ump_accept gave them, or ump_connect did, until ump_close
\* takes it back.
InHand ==
  /\ opened
  /\ IF "CLOSE" \in made THEN ~CtrlIdle ELSE made = {} \/ CtrlReturned(Ok)

\* A socket is connected once and closed once, and used after it was open.
MayCall(m) ==
  /\ conn # "FREED" /\ phase # "free"
  /\ IF m = "CONNECT" THEN made = {} /\ ~opened ELSE InHand /\ m \notin made

\* ump_sock_control_call, ump_sock_send and ump_sock_receive up to the wait: the
\* mutex is free unless the thread serves a call.
Post(u, m) ==
  /\ para' = [para EXCEPT ![KindOf[u]] = [method |-> m, by |-> u]]
  /\ done' = [done EXCEPT ![KindOf[u]] = FALSE]

CallStep(u, m) ==
  /\ pc[u] = "idle" /\ ~locked[KindOf[u]] /\ MayCall(m)
  /\ Post(u, m)
  /\ pc' = [pc EXCEPT ![u] = "waiting"]
  /\ made' = IF KindOf[u] = "ctrl" THEN made \union {m} ELSE made
  /\ returned' = [returned EXCEPT ![u] = None]
  /\ UNCHANGED <<locked, ok, answer, connVars, phase, todo>>

\* m_event_wait: the event is reset by the thread it wakes.  The variant does not test
\* the event again when it is woken.
WakeUntested(u) ==
  /\ pc[u] = "waiting"
  /\ pc' = [pc EXCEPT ![u] = "woken"]
  /\ UNCHANGED <<para, locked, ok, done, answer, returned, made, connVars, phase, todo>>
Wake(u) ==
  /\ pc[u] = "waiting" /\ done[KindOf[u]]
  /\ done' = [done EXCEPT ![KindOf[u]] = FALSE]
  /\ pc' = [pc EXCEPT ![u] = "woken"]
  /\ UNCHANGED <<para, locked, ok, answer, returned, made, connVars, phase, todo>>

\* The result is read after the wait, without the lock.
Return(u) ==
  /\ pc[u] = "woken"
  /\ pc' = [pc EXCEPT ![u] = "idle"]
  /\ returned' = [returned EXCEPT ![u] = ok[KindOf[u]]]
  /\ answer' = [answer EXCEPT ![u] = None]
  /\ UNCHANGED <<para, locked, ok, done, made, connVars, phase, todo>>

-----------------------------------------------------------------------------
(* The thread ends calls: end_ctrl, end_snd and end_rec of the lock state machines *)

Concerns(e) == locked[e.kind] /\ para[e.kind].method \in e.methods

\* The result, the slot and the lock first, then the event: other threads may
\* run in between.  The variant sets the event and keeps the lock.
EndCallKeepsLock(e) ==
  /\ ok' = [ok EXCEPT ![e.kind] = e.result]
  /\ para' = [para EXCEPT ![e.kind] = NoCall]
  /\ UNCHANGED locked
EndCall(e) ==
  /\ ok' = [ok EXCEPT ![e.kind] = e.result]
  /\ para' = [para EXCEPT ![e.kind] = NoCall]
  /\ locked' = [locked EXCEPT ![e.kind] = FALSE]

\* The variant forgets to wake the caller.
AfterEndSilently(e) == Tail(todo)
AfterEnd(e) == <<SetOf(e.kind)>> \o Tail(todo)

EndStep ==
  /\ todo # <<>>
  /\ LET e == Head(todo) IN
     \/ /\ e.op = "end" /\ Concerns(e)
        /\ EndCall(e)
        /\ answer' = [answer EXCEPT ![para[e.kind].by] = e.result]
        /\ flow' = IF e.kind = "snd" THEN None ELSE flow
        /\ todo' = AfterEnd(e)
        /\ UNCHANGED done
     \/ /\ e.op = "end" /\ ~Concerns(e)
        /\ todo' = Tail(todo)
        /\ UNCHANGED <<callVars, flow>>
     \/ /\ e.op = "set"
        /\ done' = [done EXCEPT ![e.kind] = TRUE]
        /\ todo' = Tail(todo)
        /\ UNCHANGED <<para, locked, ok, answer, flow>>
  /\ UNCHANGED <<userVars, conn, error, finReced, opened, ready, phase>>

\* What ends the calls: a call by its method, every control call, and all there
\* are after an error.
EndAllCtrl(result) == EndOf("ctrl", MethodsOf["ctrl"], result)
EndSend(result) == EndOf("snd", {"SEND"}, result)
EndReceive(result) == EndOf("rec", {"RECEIVE"}, result)
EndClose == EndOf("ctrl", {"CLOSE"}, Ok)

\* ump_closed_enter_state.  The variants leave the receive call or the close call alone.
EnterClosedIdle == <<EndClose>>
EnterClosedAgain == IF ready = 0 THEN <<EndReceive(Failed)>> ELSE <<>>
EnterClosed == IF ready = 0 THEN <<EndReceive(Failed), EndClose>> ELSE <<EndClose>>
\* ump_connection_error_occured.  The variant leaves the send call alone.
ConnectionErrorKeepsSend == EnterClosed \o <<EndAllCtrl(Failed), EndReceive(Failed)>>
ConnectionError == EnterClosed \o <<EndAllCtrl(Failed), EndSend(Failed), EndReceive(Failed)>>

-----------------------------------------------------------------------------
(* The thread takes calls *)

Waiting(k) == para[k] # NoCall /\ ~locked[k]
Lock(k) == locked' = [locked EXCEPT ![k] = TRUE]
At(p) == phase = p /\ todo = <<>>

\* sm_handle_ctrl of the connection's state: the new state and the calls that end.
\* The variant closes without ending the other calls.
CloseOnly == <<>>
CloseEndsOthers == <<EndSend(Failed), EndReceive(Failed)>>
Served(m) ==
  CASE error -> <<conn, <<EndAllCtrl(Failed)>>>>
    [] ~error /\ conn = "CLOSED" /\ m = "CONNECT" -> <<"CONNECTING", <<>>>>
    [] ~error /\ conn = "CLOSED" /\ m = "CLOSE" -> <<conn, <<EndClose>>>>
    [] ~error /\ conn = "CONNECTING" ->
         <<conn, IF m = "CLOSE" THEN <<EndAllCtrl(Failed)>> ELSE <<>>>>
    [] ~error /\ conn = "ESTABLISHED" /\ m = "CLOSE" -> <<"CLOSING", CloseEndsOthers>>
    [] ~error /\ conn = "ESTABLISHED" /\ m = "CONNECT" ->
         <<conn, <<EndOf("ctrl", {"CONNECT"}, Ok)>>>>
    [] ~error /\ conn = "CLOSING" ->
         <<conn, IF m = "CONNECT" THEN <<EndAllCtrl(Failed)>> ELSE <<>>>>

\* ump_ctrlunlocked_handle_ctrl
PollCtrl ==
  /\ At("ctrl") /\ phase' = "snd"
  /\ IF Waiting("ctrl")
     THEN /\ Lock("ctrl")
          /\ \E s \in {Served(para["ctrl"].method)} : conn' = s[1] /\ todo' = s[2]
     ELSE UNCHANGED <<locked, conn, todo>>
  /\ UNCHANGED <<para, ok, done, answer, userVars, error, finReced, opened, ready, flow>>

\* ump_sndunlocked_handle_snd; the window may be closed already.
PollSend ==
  /\ At("snd") /\ phase' = "rec"
  /\ IF ~Waiting("snd") THEN UNCHANGED <<locked, flow, todo>>
     ELSE IF conn # "ESTABLISHED" \/ error
     THEN Lock("snd") /\ todo' = <<EndSend(Failed)>> /\ UNCHANGED flow
     ELSE Lock("snd") /\ flow' \in {"flight", "blocked"} /\ UNCHANGED todo
  /\ UNCHANGED <<para, ok, done, answer, userVars, conn, error, finReced, opened, ready>>

MessageReady == ready > 0

\* ump_recunlocked_handle_rec: a message that is there is given even after the
\* connection was closed.
PollReceive ==
  /\ At("rec") /\ phase' = "packets"
  /\ IF ~Waiting("rec") THEN UNCHANGED <<locked, ready, todo>>
     ELSE IF MessageReady
     THEN Lock("rec") /\ ready' = ready - 1 /\ todo' = <<EndReceive(Ok)>>
     ELSE IF conn # "ESTABLISHED" \/ error
     THEN Lock("rec") /\ todo' = <<EndReceive(Failed)>> /\ UNCHANGED ready
     ELSE Lock("rec") /\ UNCHANGED <<ready, todo>>
  /\ UNCHANGED <<para, ok, done, answer, userVars, conn, error, finReced, opened, flow>>

-----------------------------------------------------------------------------
(* The rest of a turn: packets, timers *)

\* sm_change_state with the calls its entry ends
GoTo(state, ends) ==
  /\ conn' = state /\ todo' = ends
  /\ opened' = (opened \/ state = "ESTABLISHED")
  /\ UNCHANGED <<error, ready, flow>>

SynArrives ==
  conn = "CLOSED" /\ ~opened /\ GoTo("CONNECTING", <<>>) /\ UNCHANGED finReced
HandshakeDone ==
  /\ conn = "CONNECTING" /\ GoTo("ESTABLISHED", <<EndOf("ctrl", {"CONNECT"}, Ok)>>)
  /\ UNCHANGED finReced
FinArrives ==
  /\ conn \in {"ESTABLISHED", "CLOSING"} /\ ~finReced /\ finReced' = TRUE
  /\ \/ GoTo("CLOSING", <<>>)
     \/ conn = "CLOSING" /\ GoTo("CLOSED", EnterClosed)
CloseDone ==
  /\ conn = "CLOSING" /\ finReced /\ GoTo("CLOSED", EnterClosed)
  /\ UNCHANGED finReced

Fail(ends) ==
  /\ conn' = "CLOSED" /\ error' = TRUE /\ todo' = ends \o ConnectionError
  /\ UNCHANGED <<finReced, opened, ready, flow>>

\* An RST, and the timers of SYN, FIN (ctrl_packet_to_send) and data that give up
ResetArrives == Fail(<<>>)
CtrlGivesUp == conn \in {"CONNECTING", "CLOSING"} /\ Fail(<<EndAllCtrl(Failed)>>)
DataGivesUp == flow = "flight" /\ Fail(<<EndSend(Failed)>>)

MessageArrives ==
  /\ conn = "ESTABLISHED"
  /\ IF locked["rec"]
     THEN todo' = <<EndReceive(Ok)>> /\ UNCHANGED ready
     ELSE ready = 0 /\ ready' = 1 /\ UNCHANGED todo
  /\ UNCHANGED <<conn, error, finReced, opened, flow>>

\* ump_handle_data_ack: the last acknowledgement, or one that closes or opens the
\* window.
AckArrives ==
  /\ conn # "CONNECTING" /\ flow # None
  /\ \/ flow = "flight" /\ todo' = <<EndSend(Ok)>> /\ UNCHANGED flow
     \/ flow = "flight" /\ flow' = "blocked" /\ UNCHANGED todo
     \/ flow = "blocked" /\ flow' = "flight" /\ UNCHANGED todo
  /\ UNCHANGED <<conn, error, finReced, opened, ready>>

PacketStep(event) ==
  /\ At("packets") /\ ~error /\ event
  /\ phase' = "sleep"
  /\ UNCHANGED <<callVars, userVars>>

\* ump_sock_thread_func with nothing to do, and its timed wait
QuietStep ==
  /\ \/ At("packets") /\ phase' = "sleep"
     \/ At("sleep") /\ phase' = "ctrl"
  /\ UNCHANGED <<callVars, userVars, connVars, todo>>

\* ump_sock_free: the thread is joined after its wait and the calls in service are
\* ended.  ump_connect frees a socket it could not connect; the cleaner frees one that
\* was closed by its user, 20 s later: what was posted or answered is done with.
ConnectFailed == made = {"CONNECT"} /\ CtrlReturned(Failed)
CleanerDue == conn = "CLOSED" /\ "CLOSE" \in made /\ CtrlIdle
BeginFree ==
  /\ At("sleep") /\ (ConnectFailed \/ CleanerDue)
  /\ \A u \in Users : pc[u] = "idle" \/ locked[KindOf[u]]
  /\ phase' = "free"
  /\ todo' = <<EndAllCtrl(Failed), EndSend(Failed), EndReceive(Failed)>>
  /\ UNCHANGED <<callVars, userVars, connVars>>

\* Locks and events are freed.  A sender that was ended here is taken to have left by
\* then; the code does not wait for it, and what it reads otherwise is undefined.
EndFree ==
  /\ At("free") /\ conn # "FREED"
  /\ \A u \in Users : pc[u] = "idle"
  /\ conn' = "FREED"
  /\ UNCHANGED <<callVars, userVars, error, finReced, opened, ready, flow, phase, todo>>

-----------------------------------------------------------------------------
UserStep(u) == (\E m \in MethodsOf[KindOf[u]] : CallStep(u, m)) \/ Wake(u) \/ Return(u)
PacketEvents ==
  \/ SynArrives \/ HandshakeDone \/ FinArrives \/ CloseDone
  \/ ResetArrives \/ CtrlGivesUp \/ DataGivesUp
  \/ MessageArrives \/ AckArrives
Poll == PollCtrl \/ PollSend \/ PollReceive \/ QuietStep

Next ==
  \/ \E u \in Users : UserStep(u)
  \/ EndStep \/ Poll
  \/ PacketStep(PacketEvents)
  \/ BeginFree \/ EndFree

Spec == Init /\ [][Next]_vars

\* The thread never blocks.  An end that has the peer's FIN still has its own in the
\* slot, or is CLOSED: it is acknowledged or given up (Retransmits and SlotEmpties of
\* UmpHandshake).  So are packets in flight.  Nothing says that another handshake ends,
\* or that a closed window opens again.  A user who has called waits for the end, and
\* the cleaner comes round and joins the thread at the end of its turn.
ThreadFair == WF_vars(EndStep) /\ WF_vars(Poll)
NetworkFair ==
  /\ SF_vars(PacketStep(conn = "CLOSING" /\ finReced /\ (CloseDone \/ CtrlGivesUp)))
  /\ SF_vars(PacketStep(flow = "flight" /\ (DataGivesUp \/ AckArrives)))
UsersFair == \A u \in Users : WF_vars(Wake(u)) /\ WF_vars(Return(u))
FairSpec == Spec /\ ThreadFair /\ NetworkFair /\ UsersFair /\ SF_vars(BeginFree)

-----------------------------------------------------------------------------
(* Properties *)

\* A call is answered once and returns with its own answer, though the lock is
\* released before the event is set and the result is read without it.
Service == INSTANCE CallService WITH
  Answers <- Results,
  NoAnswer <- None,
  calling <- [u \in Users |-> pc[u] # "idle"],
  answer <- answer,
  returned <- returned

AnswersItsCaller == Service!ServiceSpec

\* A caller who waits is never forgotten: the call is posted or in service, or the
\* event that wakes the caller is set or about to be.
NobodyForgotten ==
  \A u \in Users : pc[u] = "waiting" =>
    \/ para[KindOf[u]].by = u
    \/ done[KindOf[u]]
    \/ todo # <<>> /\ Head(todo) = SetOf(KindOf[u])

\* The thread keeps a lock only as long as somebody waits for that call.
LockHasCaller ==
  \A k \in Kinds : locked[k] => \E u \in Users :
    pc[u] = "waiting" /\ KindOf[u] = k /\ para[k].by = u

\* A close by the user has ended the other calls when the thread's next turn begins.
CloseReleasesOthers ==
  conn = "CLOSING" /\ ~finReced /\ At("packets") => ~locked["snd"] /\ ~locked["rec"]

InCall(k) == \E u \in Users : KindOf[u] = k /\ pc[u] # "idle"

\* Two handshakes may hang: an opener whose SYN was acknowledged early has an empty
\* slot and waits in CONNECTING (line 1195), and an end whose FIN was acknowledged waits
\* for the FIN of a peer that may have given up without a RST (line 639).
HandshakeHangs == <>[](conn = "CONNECTING" \/ (conn = "CLOSING" /\ ~finReced))

\* Connect and close calls return, in every behaviour in which no handshake hangs: each
\* way out of CONNECTING and of CLOSING ends the call.
ControlReturns == HandshakeHangs \/ (InCall("ctrl") ~> ~InCall("ctrl"))

\* A receive call returns once the connection closes, whoever closes it.
ReceiveReturns == InCall("rec") /\ conn # "ESTABLISHED" ~> ~InCall("rec")

\* A send call returns, unless it waits for a closed window; and even then, at last
\* with the socket, when the user has closed it.
SendReturns ==
  InCall("snd") ~> ~InCall("snd") \/ (flow = "blocked" /\ ~CleanerDue)

=============================================================================
