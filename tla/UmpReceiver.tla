---------------------------- MODULE UmpReceiver -----------------------------
(***************************************************************************)
(* The receiving half of a socket in ump_sock.c: the list of data packets  *)
(* with its three cursors, the messages cut from its front, the user's     *)
(* receive call, the advertised window and the delayed acknowledgement.    *)
(*                                                                         *)
(* A data packet is its position in the stream, 1, 2, 3 and so on: the     *)
(* 16-bit numbers of the code compare as positions do while they are less  *)
(* than half the number space apart.  A list is the set of its packets,    *)
(* since the code keeps it in ascending order, except where a pointer that *)
(* was not reset joins two lists.                                          *)
(***************************************************************************)
EXTENDS Integers, FiniteSets

CONSTANTS
  Packets,   \* packets in the stream are 1..Packets
  Ends,      \* those that end a message (UP_DATA_BDR)
  Window     \* REC_QUEUE_LIMIT / 2, the largest window that is advertised

ASSUME PacketsAssumption == Packets \in Nat \ {0}
ASSUME EndsAssumption == Ends \subseteq 1..Packets /\ Packets \in Ends
ASSUME WindowAssumption == Window \in Nat \ {0}

Positions == 1..Packets
Nothing == 0    \* a NULL cursor

Receivers ==
  [base     : 1..(Packets + 1),          \* their_data_seq_base
   queue    : SUBSET Positions,          \* rcv_data_packets
   soFar    : Positions \union {Nothing},   \* rcv_data_so_far
   firstEnd : Positions \union {Nothing},   \* rcv_first_msg_end
   msgs     : 0..Cardinality(Ends),      \* rcv_packets_msg_num
   msg      : SUBSET Positions,          \* rec_msg_packets, {} when NULL
   behind   : BOOLEAN,                   \* the head of the queue has a prev pointer
   spliced  : SUBSET Positions,          \* packets linked in between msg and queue
   freed    : BOOLEAN,                   \* rcv_data_packets points to freed nodes
   wild     : BOOLEAN,                   \* the thread has followed a pointer to one
   called   : BOOLEAN,                   \* receive_called
   waiting  : BOOLEAN,                   \* rec_locked
   result   : SUBSET Positions,          \* rec_msg, {} once the user has it
   rwnd     : 0..Window,                 \* our_rwnd
   rwndPos  : 0..(Packets + Window),     \* our_rwnd_pos_seq
   pushAck  : BOOLEAN,                   \* ack_info.push_ack
   schedAck : BOOLEAN]                   \* ack_info.schedule_ack

\* After the handshake, and the turn of the thread that ended it.
FreshReceiver ==
  [base |-> 1, queue |-> {}, soFar |-> Nothing, firstEnd |-> Nothing, msgs |-> 0,
   msg |-> {}, behind |-> FALSE, spliced |-> {}, freed |-> FALSE, wild |-> FALSE,
   called |-> FALSE, waiting |-> FALSE, result |-> {},
   rwnd |-> Window, rwndPos |-> Window, pushAck |-> FALSE, schedAck |-> FALSE]

Least(S) == CHOOSE x \in S : \A y \in S : x <= y
Smaller(x, y) == IF x <= y THEN x ELSE y
Larger(x, y) == IF x >= y THEN x ELSE y

-----------------------------------------------------------------------------
(* Messages *)

\* ump_harvest_messages: the first message leaves the queue.  The first node
\* that stays keeps its pointer to the last one that leaves.  The variant does not
\* reset the cursor when no message is left.
FirstEndIn(S) == IF S \cap Ends = {} THEN Nothing ELSE Least(S \cap Ends)
NextEndStale(r, rest) == IF r.msgs - 1 < 1 THEN r.firstEnd ELSE FirstEndIn(rest)
NextEnd(r, rest) == IF r.msgs - 1 < 1 THEN Nothing ELSE FirstEndIn(rest)

Harvest(r) ==
  LET rest == {x \in r.queue : x > r.firstEnd} IN
  [r EXCEPT !.msg = r.queue \ rest, !.queue = rest, !.behind = rest # {},
            !.msgs = r.msgs - 1,
            !.firstEnd = NextEnd(r, rest),
            !.soFar = IF r.soFar = r.firstEnd THEN Nothing ELSE r.soFar]

\* ump_set_our_ack_info: two schedules make a push.
SetAckInfo(r, push) ==
  IF push \/ r.schedAck THEN [r EXCEPT !.pushAck = TRUE]
  ELSE [r EXCEPT !.schedAck = TRUE]

\* ump_end_receive_internal: the user gets all that is linked behind
\* rec_msg_packets, and the nodes are freed.
HandOver(r) ==
  LET joined == r.spliced # {}
      t == [r EXCEPT !.result = r.msg \union r.spliced \union
                                  (IF joined THEN r.queue ELSE {}),
                     !.msg = {}, !.spliced = {}, !.freed = r.freed \/ joined]
  IN SetAckInfo(IF r.msgs >= 1 THEN Harvest(t) ELSE t, TRUE)

\* ump_end_receive with TRUE, for a call that holds the lock.  The variant lets
\* the call wait for the next message.
EndReceiveLater(r) == r
EndReceive(r) ==
  IF r.waiting THEN HandOver([r EXCEPT !.waiting = FALSE, !.called = FALSE]) ELSE r

\* ump_recunlocked_handle_rec
HandleReceive(r) ==
  IF ~r.called \/ r.waiting THEN r
  ELSE IF r.msg # {} THEN HandOver([r EXCEPT !.called = FALSE])
  ELSE [r EXCEPT !.waiting = TRUE]

\* ump_check_rcv_data_so_far looks at the last packet of the run only.
CheckSoFar(r) ==
  IF r.soFar \notin Ends THEN r
  ELSE LET t == [r EXCEPT !.msgs = r.msgs + 1,
                          !.firstEnd = IF r.msgs = 0 THEN r.soFar ELSE r.firstEnd]
       IN IF t.msg = {} THEN EndReceive(Harvest(t)) ELSE t

-----------------------------------------------------------------------------
(* Data packets *)

\* rcv_data_so_far moves to the end of the run of consecutive packets.
RunEnd(S, x) ==
  CHOOSE e \in S : e >= x /\ x..e \subseteq S /\ e + 1 \notin S

Advance(r) ==
  LET from == IF r.soFar = Nothing THEN r.base ELSE r.soFar
      to == RunEnd(r.queue, from)
      t == [r EXCEPT !.soFar = to, !.base = to + 1]
  IN IF to = r.soFar THEN t ELSE CheckSoFar(t)

\* Packet p goes to its place in the queue, and the cursors move if it fills the
\* first gap.
Insert(r, p) ==
  LET t == [r EXCEPT !.queue = @ \union {p}] IN
  IF t.soFar = Nothing /\ Least(t.queue) # t.base THEN t ELSE Advance(t)

\* The search for the place of p runs off the front of the queue, where prev is
\* not NULL.
RunsOffFront(r, p) == r.behind /\ p < Least(r.queue)

\* There it finds the nodes of a message that the user has not read yet, and p
\* is linked to those; or it finds memory that has been freed.
InsertBehind(r, p) ==
  IF r.msg # {} THEN [r EXCEPT !.spliced = @ \union {p}]
  ELSE [r EXCEPT !.wild = TRUE]

\* ump_established_handle_data_packet on a packet with a SEQ number.
HandleData(r, p) ==
  IF r.wild \/ p < r.base \/ p \in r.queue \union r.spliced THEN r
  ELSE IF r.freed THEN [r EXCEPT !.wild = TRUE]
  ELSE IF RunsOffFront(r, p) THEN InsertBehind(r, p)
  ELSE Insert(r, p)

\* ump_handle_data_packet: any numbered packet schedules an acknowledgement.
TakeData(r, p) == HandleData(SetAckInfo(r, FALSE), p)

-----------------------------------------------------------------------------
(* The advertised window and the acknowledgement *)

\* ump_refresh_our_rwnd_pos.  buffer_load is 0 here: each turn takes all of
\* rec_data_packets (LOCAL_DATA_PACKET_LIMIT is larger than REC_QUEUE_LIMIT).
\* The variant takes the distance to the right edge for the width.
OpenRwnd(r) == [r EXCEPT !.rwnd = Window, !.rwndPos = r.base + Window - 1]
RefreshRwndShort(r) ==
  IF r.msgs > 0 THEN [r EXCEPT !.rwnd = Smaller(@, r.rwndPos - r.base)]
  ELSE OpenRwnd(r)
RefreshRwnd(r) ==
  IF r.msgs > 0 THEN [r EXCEPT !.rwnd = Smaller(@, r.rwndPos - r.base) + 1]
  ELSE OpenRwnd(r)

\* ump_refresh_our_ack_info: whether this turn may acknowledge.  A scheduled
\* acknowledgement waits until ACK_DELAY has passed.
MayAck(r) ==
  IF r.pushAck THEN {TRUE} ELSE IF r.schedAck THEN BOOLEAN ELSE {FALSE}
AckOf(r) == [seq |-> r.base, wnd |-> r.rwnd]
AfterAck(r) == [r EXCEPT !.pushAck = FALSE, !.schedAck = FALSE]

=============================================================================
