------------------------------ MODULE UmpSender -----------------------------
(***************************************************************************)
(* The sending half of a socket in ump_sock.c: the user's send call, the   *)
(* sliding window, acknowledgements, the list of timers, and slow start,   *)
(* fast retransmit and give-up.  Packets are positions in the stream as in *)
(* UmpReceiver; positions relative to our_data_start_seq are absolute here.*)
(***************************************************************************)
EXTENDS UmpReceiver

CONSTANTS
  Ssthresh,      \* MAX_CWND, the first slow start threshold
  RtoDoublings   \* how often the timeout doubles before it reaches TIMEOUT_LIMIT

ASSUME SsthreshAssumption == Ssthresh \in Nat
ASSUME RtoAssumption == RtoDoublings \in Nat

Senders ==
  [base      : 1..(Packets + 1),   \* our_data_seq_base
   start     : 1..(Packets + 1),   \* our_data_start_seq
   count     : 0..Packets,         \* snd_packets_count, 0 when there is no call
   locked    : BOOLEAN,            \* snd_locked
   pos       : 1..(Packets + 1),   \* our_data_pos
   wndPos    : 1..(Packets + 1),   \* our_wnd_pos
   sentMax   : 0..Packets,         \* our_data_sent
   backPoint : 0..(Packets + 1),   \* our_back_point
   last      : 0..Packets,         \* our_msg_last_seq
   theirWnd  : 0..(2 * Window),    \* their_wnd
   cwnd      : Nat,                \* our_cwnd
   ssthresh  : Nat,                \* our_ssthresh
   rep       : 0..1,               \* ack_rep_count
   fast      : BOOLEAN,            \* fast_retran
   timers    : SUBSET Positions,   \* tm_list
   rto       : 0..RtoDoublings,    \* doublings of the timeout
   ok        : BOOLEAN,            \* snd_ok
   error     : BOOLEAN]            \* error_occured

\* The SYN announces REC_QUEUE_LIMIT, twice the window advertised later.  The first
\* timeout, 6 s, is two doublings from TIMEOUT_LIMIT.
FreshSender ==
  [base |-> 1, start |-> 1, count |-> 0, locked |-> FALSE, pos |-> 1, wndPos |-> 1,
   sentMax |-> 0, backPoint |-> 0, last |-> 0, theirWnd |-> 2 * Window, cwnd |-> 1,
   ssthresh |-> Ssthresh, rep |-> 0, fast |-> FALSE, timers |-> {},
   rto |-> Larger(RtoDoublings - 2, 0),
   ok |-> FALSE, error |-> FALSE]

\* What the clock tells of an acknowledgement: whether a round trip has passed since
\* the window last grew, and the timeout that rto_refresh_rtt would make of the sample
\* (UmpEstimate: it may be any), as many doublings from the shortest.
Rtts == [over : BOOLEAN, level : 0..RtoDoublings]

-----------------------------------------------------------------------------
(* The send call *)

\* ump_refresh_snd_wnd_pos.  The variant looks at the congestion window only.
RefreshWndCongestion(s) ==
  [s EXCEPT !.wndPos = Smaller(s.start + s.count, s.base + s.cwnd)]
RefreshWnd(s) ==
  [s EXCEPT !.wndPos = Smaller(s.start + s.count, s.base + Smaller(s.theirWnd, s.cwnd))]

\* ump_end_send: only a call that holds the lock ends.
EndSend(s, result) ==
  IF s.locked
  THEN [s EXCEPT !.locked = FALSE, !.ok = result, !.count = 0,
                 !.start = IF result THEN s.start + s.count ELSE s.start]
  ELSE s

\* ump_sndunlocked_handle_snd: the packets of the message are numbered and the
\* window is measured.
HandleSend(s) ==
  IF s.locked \/ s.count = 0 THEN s
  ELSE IF s.error THEN EndSend([s EXCEPT !.locked = TRUE], FALSE)
  ELSE RefreshWnd([s EXCEPT !.locked = TRUE, !.pos = s.start,
                            !.last = s.start + s.count - 1])

\* ump_sndlocked_handle_send_data: at most one packet in a turn.
Sends(s) == s.locked /\ s.pos < s.wndPos
SendData(s) ==
  IF Sends(s)
  THEN [s EXCEPT !.timers = @ \union {s.pos}, !.sentMax = Larger(@, s.pos),
                 !.pos = @ + 1]
  ELSE s

-----------------------------------------------------------------------------
(* Timeouts *)

GoBack(s) ==
  [s EXCEPT !.backPoint = Larger(@, s.pos), !.pos = s.base, !.rep = 0,
            !.timers = {}, !.rto = Smaller(@ + 1, RtoDoublings)]

\* ump_handle_data_timeout: all timers go when one expires.  A timeout that
\* reaches the limit ends the call and the connection.  The variant does not go
\* back to what is unacknowledged.
GiveUp(s) == [EndSend([s EXCEPT !.timers = {}], FALSE) EXCEPT !.error = TRUE]

SlowDown(s) == RefreshWnd([s EXCEPT !.ssthresh = Larger(s.cwnd \div 2, 2),
                                    !.cwnd = 1, !.fast = FALSE])
DataTimeoutStays(s) ==
  IF s.rto = RtoDoublings THEN GiveUp(s)
  ELSE SlowDown([GoBack(s) EXCEPT !.pos = s.pos])
DataTimeout(s) ==
  IF s.rto = RtoDoublings THEN GiveUp(s) ELSE SlowDown(GoBack(s))

-----------------------------------------------------------------------------
(* Acknowledgements *)

\* A repeated acknowledgement is counted when everything sent has been
\* acknowledged, and the second one retransmits.
CountRepeat(s, a) ==
  IF a.seq = s.base /\ s.base > s.sentMax THEN s.rep + 1 ELSE s.rep

FastRetransmit(s) ==
  [GoBack(s) EXCEPT !.cwnd = Larger(s.ssthresh + 3, 1), !.fast = TRUE]

TakeRepeat(s, a) ==
  LET n == CountRepeat(s, a) IN
  IF n > 1 THEN FastRetransmit(s) ELSE [s EXCEPT !.rep = n]

InRange(s, a) == a.seq >= s.base /\ a.seq <= s.sentMax + 1

NewBase(s, a) ==
  IF a.seq > s.base
  THEN [s EXCEPT !.base = a.seq, !.rep = 0, !.backPoint = Larger(@, a.seq)]
  ELSE s

\* ump_handle_wnd_notify
TakeWindow(s, a) == RefreshWnd([s EXCEPT !.theirWnd = a.wnd])

\* Congestion control after a new acknowledgement
Grow(s, rtt) ==
  IF s.fast THEN [s EXCEPT !.fast = FALSE, !.cwnd = Larger(s.ssthresh, 1)]
  ELSE IF s.cwnd < s.ssthresh \/ rtt.over THEN [s EXCEPT !.cwnd = @ + 1]
  ELSE s

\* tm_ack_packet and rto_refresh_rtt: a measured round trip starts the timeout anew.
AckTimers(s, a, rtt) ==
  [s EXCEPT !.timers = {t \in @ : t >= a.seq},
            !.rto = IF a.seq - 1 \in s.timers /\ a.seq >= s.backPoint THEN rtt.level ELSE @]

\* The variant is content with the last packet but one.
FinishTooSoon(s, a) == IF a.seq >= s.last THEN EndSend(s, TRUE) ELSE s
Finish(s, a) == IF a.seq > s.last THEN EndSend(s, TRUE) ELSE s

AfterNewAck(s, a, rtt) ==
  LET t == Grow(s, rtt)
  IN Finish(AckTimers([t EXCEPT !.pos = Larger(@, t.base)], a, rtt), a)

\* ump_handle_data_ack.  A repeated acknowledgement counts for the window it
\* carries; the variant ignores it.
TakeAckIfNew(s, a, rtt) ==
  LET t == TakeRepeat(s, a)
      u == TakeWindow(NewBase(t, a), a)
  IN IF ~InRange(t, a) \/ a.seq = t.base THEN t ELSE AfterNewAck(u, a, rtt)
TakeAck(s, a, rtt) ==
  LET t == TakeRepeat(s, a)
      u == TakeWindow(NewBase(t, a), a)
  IN IF ~InRange(t, a) THEN t
     ELSE IF a.seq = t.base THEN u
     ELSE AfterNewAck(u, a, rtt)

=============================================================================
