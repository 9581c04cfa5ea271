----------------------------- MODULE UmpNumbers -----------------------------
(***************************************************************************)
(* The sender of ump_sock.c as it computes: 16-bit numbers, positions      *)
(* relative to the first packet of the call, and tm_list, the list of      *)
(* timers (timer_list.c).  UmpSender has the same steps with positions in  *)
(* the stream and a connection whose first number is small; here every     *)
(* first number is tried, and numbers wrap around.                         *)
(***************************************************************************)
EXTENDS SeqArith, Sequences

CONSTANTS
  Iss,          \* first sequence numbers a socket may draw
  MaxMessage,   \* packets in a message
  MaxWindow,    \* packets in flight that the windows allow
  MaxPackets    \* bound: packets of all messages together

ASSUME IssAssumption == Iss \subseteq Nums
ASSUME MessageAssumption ==
  MaxMessage \in Nat /\ MaxWindow \in Nat /\ MaxMessage + MaxWindow < Half
ASSUME PacketsAssumption == MaxPackets \in Nat

VARIABLES
  s,        \* the numbers of the sending half
  tm,       \* tm_list: the number of each packet that has a timer
  iss,      \* the number of the stream's first packet
  first,    \* position in the stream of the first packet of the call
  top,      \* position behind the last packet ever sent
  again,    \* unacknowledged positions that were sent more than once
  sample    \* position whose round trip the last step measured

vars == <<s, tm, iss, first, top, again, sample>>

NoSample == -1

Numbers ==
  [start     : Nums,   \* our_data_start_seq
   base      : Nums,   \* our_data_seq_base
   last      : Nums,   \* our_msg_last_seq
   dataSent  : Nums,   \* our_data_sent
   backPoint : Nums,   \* our_back_point
   pos       : Int,    \* our_data_pos, relative to start
   wndPos    : Int,    \* our_wnd_pos, relative to start
   count     : 0..MaxMessage,   \* snd_packets_count, 0 when there is no call
   rep       : 0..1]            \* ack_rep_count

TypeOK ==
  /\ s \in Numbers
  /\ tm \in Seq(Nums)
  /\ iss \in Iss
  /\ first \in Nat /\ top \in Nat
  /\ again \subseteq Nat
  /\ sample \in Nat \union {NoSample}

\* The number a position has in the stream
Num(n) == (iss + n) % NumMod

\* ump_sock_new draws the first number; our_data_sent and our_back_point are
\* left at zero.
Init ==
  /\ iss \in Iss
  /\ s = [start |-> iss, base |-> iss, last |-> 0, dataSent |-> 0, backPoint |-> 0,
          pos |-> 0, wndPos |-> 0, count |-> 0, rep |-> 0]
  /\ tm = <<>>
  /\ first = 0 /\ top = 0 /\ again = {} /\ sample = NoSample

-----------------------------------------------------------------------------
(* Window, data_sent and back_point *)

\* ump_refresh_snd_wnd_pos; wnd is the smaller of their_wnd and our_cwnd.
RefreshWnd(t, wnd) ==
  LET edge == Relative(t.start, Plus(t.base, wnd))
  IN [t EXCEPT !.wndPos = IF t.count < edge THEN t.count ELSE edge]

\* ump_refresh_data_sent and ump_refresh_back_point only go forward.
RefreshSent(t, n) ==
  IF Cmp(t.base, t.dataSent, n) < 0 THEN [t EXCEPT !.dataSent = n] ELSE t
RefreshBack(t, n) ==
  IF Cmp(t.base, t.backPoint, n) < 0 THEN [t EXCEPT !.backPoint = n] ELSE t

\* Timeout and fast retransmission.  The variant forgets that the position is
\* relative to the call.
GoBackToStart(t) ==
  [RefreshBack(t, Plus(t.start, t.pos)) EXCEPT !.pos = 0, !.rep = 0]
GoBack(t) ==
  [RefreshBack(t, Plus(t.start, t.pos)) EXCEPT !.pos = Relative(t.start, t.base),
                                               !.rep = 0]

-----------------------------------------------------------------------------
(* The send call *)

\* ump_sndunlocked_handle_snd
HandleSend(n, wnd) ==
  /\ s.count = 0 /\ first + n <= MaxPackets
  /\ s' = RefreshWnd([s EXCEPT !.count = n, !.last = Plus(s.start, n - 1), !.pos = 0], wnd)
  /\ sample' = NoSample
  /\ UNCHANGED <<tm, iss, first, top, again>>

\* ump_sndlocked_handle_send_data and tm_register_packet
SendData ==
  LET n == Plus(s.start, s.pos)
      p == first + s.pos
  IN /\ s.count > 0 /\ s.pos < s.wndPos
     /\ s' = [RefreshSent(s, n) EXCEPT !.pos = s.pos + 1]
     /\ tm' = Append(tm, n)
     /\ top' = IF p < top THEN top ELSE p + 1
     /\ again' = IF p < top THEN again \union {p} ELSE again
     /\ sample' = NoSample
     /\ UNCHANGED <<iss, first>>

\* get_next_timeout and ump_handle_data_timeout: every timer goes.
DataTimeout(wnd) ==
  /\ tm # <<>>
  /\ s' = RefreshWnd(GoBack(s), wnd)
  /\ tm' = <<>>
  /\ sample' = NoSample
  /\ UNCHANGED <<iss, first, top, again>>

-----------------------------------------------------------------------------
(* Acknowledgements *)

\* The range test of tm_ack_packet.  The variant does not allow for a wrap.
InTimersRaw(list, n, upper) ==
  n >= Plus(list[1], 1) /\ n <= Plus(upper, 1)
InTimers(list, n, upper) ==
  LET from == Plus(list[1], 1)
      to == Plus(upper, 1)
  IN IF from > to THEN n >= from \/ n <= to ELSE n >= from /\ n <= to

\* tm_ack_packet drops timers up to the one the acknowledgement is for; if there
\* is none it drops all.
Matches(list, n) == {i \in DOMAIN list : Plus(list[i], 1) = n}
AckTimers(list, n, upper) ==
  IF list = <<>> \/ ~InTimers(list, n, upper) THEN list
  ELSE IF Matches(list, n) = {} THEN <<>>
  ELSE LET i == CHOOSE i \in Matches(list, n) : \A j \in Matches(list, n) : i <= j
       IN SubSeq(list, i + 1, Len(list))

\* A round trip is measured when the acknowledged packet had a timer and the number is
\* not below the back point, as raw numbers compare.  A packet that was sent again may be
\* measured too, against the README (OnlyLastMeasured of UmpNumbersProofs).
Measures(t, list, n) ==
  /\ list # <<>> /\ InTimers(list, n, t.dataSent) /\ Matches(list, n) # {}
  /\ n >= t.backPoint

\* Repeated acknowledgements count when everything sent is acknowledged.
Repeats(t, n) == n = t.base /\ Cmp(t.base, t.base, t.dataSent) > 0
Retransmits(t, n) == t.rep + (IF Repeats(t, n) THEN 1 ELSE 0) > 1
TakeRepeat(t, n) ==
  IF Retransmits(t, n) THEN GoBack(t)
  ELSE [t EXCEPT !.rep = IF Repeats(t, n) THEN @ + 1 ELSE @]

\* Behind the base, or beyond what was sent
OutOfRange(t, n) == Cmp(t.base, n, t.base) < 0 \/ Cmp(t.base, n, t.dataSent) > 1

\* A new acknowledgement moves the base, and the position with it.
NewBase(t, n, wnd) ==
  LET u == [t EXCEPT !.base = n, !.rep = 0]
      v == RefreshWnd(RefreshBack(u, n), wnd)
      r == Relative(v.start, n)
  IN [v EXCEPT !.pos = IF v.pos < r THEN r ELSE v.pos]

\* ump_sndlocked_end_snd after success.  The variant misses the last packet.
CompletesEarly(t, n) == t.count > 0 /\ Cmp(t.base, n, t.last) >= 0
Completes(t, n) == t.count > 0 /\ Cmp(t.base, n, t.last) > 0
EndSend(t, n) ==
  IF Completes(t, n) THEN [t EXCEPT !.start = Plus(t.start, t.count), !.count = 0] ELSE t

\* ump_handle_data_ack for the number n
HandleDataAck(n, wnd) ==
  LET t == TakeRepeat(s, n)
      list == IF Retransmits(s, n) THEN <<>> ELSE tm
      u == NewBase(t, n, wnd)
  IN IF OutOfRange(t, n)
     THEN s' = t /\ tm' = list /\ sample' = NoSample /\ UNCHANGED first
     ELSE IF n = t.base
     THEN s' = RefreshWnd(t, wnd) /\ tm' = list /\ sample' = NoSample /\ UNCHANGED first
     ELSE /\ s' = EndSend(u, n)
          /\ tm' = AckTimers(list, n, u.dataSent)
          /\ sample' = IF Measures(u, list, n) THEN first + Relative(t.start, n) - 1
                       ELSE NoSample
          /\ first' = IF Completes(u, n) THEN first + t.count ELSE first

\* The position the base stands for
Acked == first + Relative(s.start, s.base)

\* The peer acknowledges any prefix of what was sent; an acknowledgement may be
\* late, but not by half the number space.
TakeAck(a, wnd) ==
  /\ a <= top /\ Acked - a <= Half
  /\ HandleDataAck(Num(a), wnd)
  /\ again' = {p \in again : p >= a}
  /\ UNCHANGED <<iss, top>>

-----------------------------------------------------------------------------
Next ==
  \/ \E n \in 1..MaxMessage, wnd \in 0..MaxWindow : HandleSend(n, wnd)
  \/ SendData
  \/ \E wnd \in 0..MaxWindow : DataTimeout(wnd)
  \/ \E a \in 0..MaxPackets, wnd \in 0..MaxWindow : TakeAck(a, wnd)

Spec == Init /\ [][Next]_vars

-----------------------------------------------------------------------------
(* Properties *)

\* The numbers stand for positions in the stream: whatever the first number, and
\* however often the numbers wrap, packets go out in order, from the first one
\* that is not acknowledged, and a call ends when its last packet is.
Window == INSTANCE SlidingWindow WITH
  acked <- Acked,
  next <- IF s.count = 0 THEN first ELSE first + s.pos,
  top <- top,
  limit <- first + s.count

ImplementsWindow == Window!WindowSpec

\* A call is always at one of its own packets, or behind the last: our_data_pos
\* is an index into snd_packets.
PositionInMessage ==
  s.count > 0 => /\ 0 <= Relative(s.start, s.base) /\ Relative(s.start, s.base) <= s.pos
                 /\ s.pos <= s.count /\ s.wndPos <= s.count

\* Timers are those of the last packets sent, in the order of the stream, and
\* none is left for a packet that is acknowledged.
TimersInOrder ==
  /\ s.count = 0 => tm = <<>>
  /\ Len(tm) <= first + s.pos - Acked
  /\ \A i \in DOMAIN tm : tm[i] = Num(first + s.pos - Len(tm) + i - 1)

=============================================================================
