--------------------------- MODULE UmpTransferProofs ------------------------
(***************************************************************************)
(* One direction of a connection, for a stream of any length, any window   *)
(* and any faults of the network: the window is kept, nothing sent is      *)
(* forgotten, complete messages are counted exactly, a send that reported  *)
(* success has arrived, and messages are whole and in order as long as no  *)
(* packet was linked in front of the queue.                                *)
(***************************************************************************)
EXTENDS UmpTransfer, FiniteSetTheorems, SequenceTheorems, WellFoundedInduction, TLAPS

-----------------------------------------------------------------------------
(* Least elements; from them come the facts that need induction. *)

LEMMA LeastExists ==
  ASSUME NEW T, T \subseteq Nat, T # {}
  PROVE  \E x \in T : \A y \in T : x <= y
<1>1. IsWellFoundedOn(OpToRel(<, Nat), Nat)  BY NatLessThanWellFounded
<1>2. PICK x \in T : \A y \in T : ~(<<y, x>> \in OpToRel(<, Nat))
  BY <1>1, WFMin
<1>3. \A y \in T : ~(y < x)  BY <1>2 DEF OpToRel
<1> QED BY <1>3

LEMMA LeastFacts ==
  ASSUME NEW S, S \subseteq Nat, S # {}
  PROVE  Least(S) \in S /\ \A y \in S : Least(S) <= y
BY LeastExists DEF Least

LEMMA LeastIs ==
  ASSUME NEW S, S \subseteq Nat, NEW x \in S, \A y \in S : x <= y
  PROVE  Least(S) = x
<1>1. Least(S) \in S /\ \A y \in S : Least(S) <= y  BY LeastFacts
<1>2. Least(S) <= x /\ x <= Least(S) /\ Least(S) \in Nat /\ x \in Nat  BY <1>1
<1> QED BY <1>2

-----------------------------------------------------------------------------
(* The sender: its invariant *)

\* Between calls everything sent is acknowledged.  In a call the unacknowledged packets
\* up to the next one to send have their timers, and the window lets a packet
\* through unless the other end has closed it.
Serving(s) ==
  /\ s.count > 0 /\ s.last = s.start + s.count - 1
  /\ s.base <= s.last /\ s.sentMax <= s.last
  /\ s.base <= s.pos /\ s.pos <= s.sentMax + 1
  /\ s.timers = s.base..(s.pos - 1)
  /\ s.wndPos <= s.last + 1
  /\ s.theirWnd > 0 => s.wndPos > s.base

SenderInv(s) ==
  /\ s \in Senders
  /\ s.start <= s.base /\ s.base <= s.sentMax + 1
  /\ s.cwnd >= 1
  /\ s.start + s.count <= Packets + 1
  /\ s.error => ~s.locked
  /\ s.locked => Serving(s)
  /\ ~s.locked => s.timers = {}
  /\ ~s.locked /\ ~s.error => s.base = s.start /\ s.sentMax = s.start - 1

\* What was sent and what may be sent is within the right edge of the window.  The SYN
\* announces twice the window, but then the congestion window is one packet.
SenderWindow(s, edge) ==
  /\ edge >= 1
  /\ s.sentMax <= edge /\ s.wndPos <= edge + 1
  /\ \/ s.base + s.theirWnd <= edge + 1
     \/ s.base = 1 /\ s.cwnd = 1 /\ s.rep = 0 /\ ~s.fast

\* What may become of a call: it goes on, succeeds or fails.
Fate(s, t) ==
  \/ t.start = s.start /\ t.count = s.count /\ t.ok = s.ok
  \/ s.count > 0 /\ t.count = 0 /\ t.ok /\ t.start = s.start + s.count
  \/ s.count > 0 /\ t.count = 0 /\ ~t.ok /\ t.start = s.start

LEMMA FateTrans ==
  ASSUME NEW s \in Senders, NEW t \in Senders, NEW u \in Senders, Fate(s, t), Fate(t, u)
  PROVE  Fate(s, u)
<1>1. t.count \in Nat /\ s.count \in Nat  BY DEF Senders
<1> QED BY <1>1 DEF Fate

LEMMA SenderFields ==
  ASSUME NEW s \in Senders
  PROVE  /\ s.base \in Nat /\ s.base >= 1 /\ s.base <= Packets + 1
         /\ s.start \in Nat /\ s.start >= 1 /\ s.count \in Nat
         /\ s.pos \in Nat /\ s.pos >= 1 /\ s.pos <= Packets + 1
         /\ s.wndPos \in Nat /\ s.wndPos >= 1 /\ s.sentMax \in Nat /\ s.sentMax <= Packets
         /\ s.backPoint \in Nat /\ s.backPoint <= Packets + 1 /\ s.last \in Nat
         /\ s.theirWnd \in Nat /\ s.theirWnd <= 2 * Window
         /\ s.cwnd \in Nat /\ s.ssthresh \in Nat /\ s.rep \in 0..1
         /\ s.rto \in Nat /\ s.rto <= RtoDoublings
         /\ s.locked \in BOOLEAN /\ s.ok \in BOOLEAN /\ s.error \in BOOLEAN
         /\ s.fast \in BOOLEAN /\ s.timers \subseteq Positions
         /\ Packets \in Nat /\ Packets >= 1 /\ Window \in Nat /\ Window >= 1
         /\ RtoDoublings \in Nat
BY PacketsAssumption, WindowAssumption, RtoAssumption DEF Senders

LEMMA RefreshFacts ==
  ASSUME NEW s \in Senders, s.start + s.count <= Packets + 1, NEW t, t = RefreshWnd(s)
  PROVE  /\ t \in Senders
         /\ t = [s EXCEPT !.wndPos = t.wndPos]
         /\ t.wndPos <= s.start + s.count
         /\ t.wndPos <= s.base + s.theirWnd /\ t.wndPos <= s.base + s.cwnd
         /\ s.theirWnd > 0 /\ s.cwnd > 0 /\ s.base < s.start + s.count => t.wndPos > s.base
<1> DEFINE w == Smaller(s.start + s.count, s.base + Smaller(s.theirWnd, s.cwnd))
<1>1. /\ s.base \in Nat /\ s.start \in Nat /\ s.count \in Nat /\ s.theirWnd \in Nat
      /\ s.cwnd \in Nat /\ s.base >= 1 /\ s.start >= 1 /\ Packets \in Nat
  BY SenderFields
<1>2. /\ w \in Nat /\ w >= 1 /\ w <= s.start + s.count
      /\ w <= s.base + s.theirWnd /\ w <= s.base + s.cwnd
      /\ s.theirWnd > 0 /\ s.cwnd > 0 /\ s.base < s.start + s.count => w > s.base
  BY <1>1 DEF Smaller
<1>3. t = [s EXCEPT !.wndPos = w]  BY DEF RefreshWnd
<1> HIDE DEF w
<1>4. t.wndPos = w  BY <1>3 DEF Senders
<1>5. w \in 1..(Packets + 1)  BY <1>1, <1>2
<1>6. t \in Senders  BY <1>3, <1>5 DEF Senders
<1> QED BY <1>2, <1>3, <1>4, <1>6

-----------------------------------------------------------------------------
(* The sender: the call, the packets, the timer *)

LEMMA HandleSendKeeps ==
  ASSUME NEW s, SenderInv(s), NEW edge \in Nat, SenderWindow(s, edge),
         NEW t, t = HandleSend(s)
  PROVE  /\ SenderInv(t) /\ SenderWindow(t, edge) /\ Fate(s, t)
         /\ t.sentMax = s.sentMax /\ t.base = s.base /\ t.error = s.error
         /\ t.count > 0 => t.locked
<1>1. s \in Senders  BY DEF SenderInv
<1>2. CASE s.locked \/ s.count = 0
  <2>1. t = s  BY <1>2 DEF HandleSend
  <2> QED BY <1>2, <2>1, SMTT(30) DEF Fate, SenderInv, Serving, Senders
<1>3. CASE ~(s.locked \/ s.count = 0) /\ s.error
  <2> DEFINE u == [s EXCEPT !.locked = TRUE]
  <2>1. t = EndSend(u, FALSE)  BY <1>3 DEF HandleSend
  <2>2a. u \in Senders /\ u.locked
    BY <1>1 DEF Senders
  <2>2b. /\ u.start = s.start /\ u.base = s.base /\ u.sentMax = s.sentMax /\ u.cwnd = s.cwnd
         /\ u.error = s.error /\ u.timers = s.timers /\ u.wndPos = s.wndPos
         /\ u.theirWnd = s.theirWnd /\ u.rep = s.rep /\ u.fast = s.fast
    BY <1>1 DEF Senders
  <2> HIDE DEF u
  <2>2. t = [u EXCEPT !.locked = FALSE, !.ok = FALSE, !.count = 0, !.start = u.start]
    BY <2>2a, <2>1 DEF EndSend
  <2>3. t \in Senders
    <3>1. 0 \in 0..Packets /\ u.start \in 1..(Packets + 1)
      BY <2>2a, PacketsAssumption DEF Senders
    <3> QED BY <2>2, <2>2a, <3>1, ZenonT(30) DEF Senders
  <2>4. /\ t.start = s.start /\ t.count = 0 /\ t.ok = FALSE /\ t.locked = FALSE
        /\ t.base = s.base /\ t.sentMax = s.sentMax /\ t.cwnd = s.cwnd /\ t.error = s.error
        /\ t.timers = s.timers /\ t.wndPos = s.wndPos /\ t.theirWnd = s.theirWnd
        /\ t.rep = s.rep /\ t.fast = s.fast
    BY <2>2, <2>2a, <2>2b DEF Senders
  <2>5. s.count \in Nat /\ s.start \in Nat /\ Packets \in Nat  BY <1>1, SenderFields
  <2>6. SenderInv(t)  BY <1>3, <2>3, <2>4, <2>5 DEF SenderInv
  <2>7. SenderWindow(t, edge)  BY <2>4 DEF SenderWindow
  <2>8. Fate(s, t)  BY <1>3, <2>4, <2>5 DEF Fate
  <2> QED BY <2>4, <2>6, <2>7, <2>8
<1>4. CASE ~(s.locked \/ s.count = 0) /\ ~s.error
  <2> DEFINE u == [s EXCEPT !.locked = TRUE, !.pos = s.start,
                            !.last = s.start + s.count - 1]
  <2>0. /\ s.count \in Nat /\ s.count > 0 /\ s.start \in Nat /\ s.start >= 1
        /\ Packets \in Nat /\ s.start + s.count <= Packets + 1
        /\ s.base = s.start /\ s.sentMax = s.start - 1 /\ s.timers = {} /\ s.cwnd >= 1
        /\ s.cwnd \in Nat /\ s.theirWnd \in Nat
    BY <1>1, <1>4, SenderFields DEF SenderInv
  <2>1. t = RefreshWnd(u)  BY <1>4 DEF HandleSend
  <2>2. u \in Senders
    <3>1. s.start \in 1..(Packets + 1) /\ s.start + s.count - 1 \in 0..Packets
      BY <2>0
    <3> QED BY <1>1, <3>1 DEF Senders
  <2>3. /\ u.start = s.start /\ u.count = s.count /\ u.base = s.base /\ u.pos = s.start
        /\ u.last = s.start + s.count - 1 /\ u.theirWnd = s.theirWnd /\ u.cwnd = s.cwnd
        /\ u.locked /\ u.ok = s.ok /\ u.sentMax = s.sentMax /\ u.timers = {}
        /\ u.rep = s.rep /\ u.fast = s.fast /\ u.error = s.error
    BY <1>1, <2>0 DEF Senders
  <2> HIDE DEF u
  <2>4. /\ t \in Senders /\ t = [u EXCEPT !.wndPos = t.wndPos]
        /\ t.wndPos <= s.start + s.count
        /\ t.wndPos <= s.base + s.theirWnd /\ t.wndPos <= s.base + s.cwnd
        /\ s.theirWnd > 0 => t.wndPos > s.base
    BY <2>0, <2>1, <2>2, <2>3, RefreshFacts
  <2>5. /\ t.start = s.start /\ t.count = s.count /\ t.base = s.base /\ t.pos = s.start
        /\ t.last = s.start + s.count - 1 /\ t.theirWnd = s.theirWnd /\ t.cwnd = s.cwnd
        /\ t.locked /\ t.ok = s.ok /\ t.sentMax = s.sentMax /\ t.timers = {}
        /\ t.rep = s.rep /\ t.fast = s.fast /\ t.error = s.error
    BY <2>2, <2>3, <2>4 DEF Senders
  <2>6. t.wndPos \in Nat  BY <2>4, SenderFields
  <2>7. Serving(t)
    <3>1. t.timers = t.base..(t.pos - 1)  BY <2>0, <2>5
    <3> QED BY <2>0, <2>4, <2>5, <2>6, <3>1, SMTT(30) DEF Serving
  <2>8. SenderInv(t)  BY <1>4, <2>0, <2>4, <2>5, <2>7 DEF SenderInv
  <2>9. SenderWindow(t, edge)
    BY <2>0, <2>4, <2>5, <2>6 DEF SenderWindow
  <2> QED BY <2>5, <2>8, <2>9 DEF Fate
<1> QED BY <1>2, <1>3, <1>4

LEMMA SendDataKeeps ==
  ASSUME NEW s, SenderInv(s), NEW edge \in Nat, SenderWindow(s, edge), ~s.error,
         NEW t, t = SendData(s)
  PROVE  /\ SenderInv(t) /\ SenderWindow(t, edge) /\ Fate(s, t)
         /\ t.base = s.base /\ t.sentMax >= s.sentMax
         /\ t.sentMax = s.sentMax \/ (s.count > 0 /\ t.sentMax <= s.start + s.count - 1)
         /\ Sends(s) => s.pos <= t.sentMax
         /\ t.start = s.start /\ t.count = s.count
<1>1. s \in Senders  BY DEF SenderInv
<1>2. CASE ~Sends(s)
  <2>1. t = s  BY <1>2 DEF SendData
  <2> QED BY <1>1, <1>2, <2>1, SenderFields DEF Fate
<1>3. CASE Sends(s)
  <2>0. /\ s.count \in Nat /\ s.start \in Nat /\ s.start >= 1 /\ s.pos \in Nat /\ s.pos >= 1
        /\ s.sentMax \in Nat /\ s.base \in Nat /\ s.wndPos \in Nat /\ Packets \in Nat
        /\ s.timers \subseteq Positions /\ s.sentMax <= Packets /\ s.start + s.count <= Packets + 1
        /\ s.locked /\ s.pos < s.wndPos
    BY <1>1, <1>3, SenderFields DEF SenderInv, Sends
  <2>1. Serving(s)  BY <2>0 DEF SenderInv
  <2>2. /\ s.pos <= s.last /\ s.last = s.start + s.count - 1 /\ s.last <= Packets
        /\ s.base <= s.pos /\ s.pos <= s.sentMax + 1 /\ s.sentMax <= s.last
    BY <2>0, <2>1, SMTT(30) DEF Serving
  <2> DEFINE m == Larger(s.sentMax, s.pos)
  <2>3. m \in Nat /\ m >= s.sentMax /\ m >= s.pos /\ (m = s.sentMax \/ m = s.pos)
    BY <2>0 DEF Larger
  <2>4. t = [s EXCEPT !.timers = s.timers \union {s.pos}, !.sentMax = m, !.pos = s.pos + 1]
    BY <1>3 DEF SendData
  <2> HIDE DEF m
  <2>5. t \in Senders
    <3>1. s.timers \union {s.pos} \subseteq Positions /\ m \in 0..Packets
          /\ s.pos + 1 \in 1..(Packets + 1)
      BY <2>0, <2>2, <2>3 DEF Positions
    <3> QED BY <1>1, <2>4, <3>1, ZenonT(30) DEF Senders
  <2>6. /\ t.start = s.start /\ t.count = s.count /\ t.base = s.base /\ t.pos = s.pos + 1
        /\ t.last = s.last /\ t.theirWnd = s.theirWnd /\ t.cwnd = s.cwnd
        /\ t.locked = s.locked /\ t.ok = s.ok /\ t.sentMax = m
        /\ t.timers = s.timers \union {s.pos}
        /\ t.rep = s.rep /\ t.fast = s.fast /\ t.error = s.error /\ t.wndPos = s.wndPos
    BY <1>1, <2>4 DEF Senders
  <2>7. t.timers = t.base..(t.pos - 1)
    <3>1. s.timers = s.base..(s.pos - 1)  BY <2>1 DEF Serving
    <3> QED BY <2>0, <2>2, <2>6, <3>1, SMTT(30)
  <2>8. Serving(t)
    <3>1. t.count > 0 /\ t.last = t.start + t.count - 1 /\ t.base <= t.last
          /\ t.wndPos <= t.last + 1 /\ (t.theirWnd > 0 => t.wndPos > t.base)
      BY <2>1, <2>6 DEF Serving
    <3>2. t.sentMax <= t.last /\ t.base <= t.pos /\ t.pos <= t.sentMax + 1
      BY <2>0, <2>2, <2>3, <2>6
    <3> QED BY <2>7, <3>1, <3>2 DEF Serving
  <2>9. SenderInv(t)
    <3>1. t.start <= t.base /\ t.base <= t.sentMax + 1 /\ t.cwnd >= 1
          /\ t.start + t.count <= Packets + 1
      BY <2>0, <2>3, <2>6 DEF SenderInv
    <3> QED BY <2>0, <2>5, <2>6, <2>8, <3>1 DEF SenderInv
  <2>10. SenderWindow(t, edge)
    <3>1. m <= edge  BY <2>0, <2>3 DEF SenderWindow
    <3> QED BY <2>6, <3>1 DEF SenderWindow
  <2>11. s.count > 0 /\ m <= s.start + s.count - 1
    BY <2>0, <2>1, <2>2, <2>3 DEF Serving
  <2> QED BY <2>3, <2>6, <2>9, <2>10, <2>11 DEF Fate
<1> QED BY <1>2, <1>3

LEMMA DataTimeoutKeeps ==
  ASSUME NEW s, SenderInv(s), NEW edge \in Nat, SenderWindow(s, edge), s.locked,
         NEW t, t = DataTimeout(s)
  PROVE  /\ SenderInv(t) /\ SenderWindow(t, edge) /\ Fate(s, t)
         /\ t.sentMax = s.sentMax /\ t.base = s.base
<1>1. s \in Senders /\ Serving(s)  BY DEF SenderInv
<1>2. /\ s.count \in Nat /\ s.start \in Nat /\ s.start >= 1 /\ s.base \in Nat
      /\ s.base >= 1 /\ s.base <= Packets + 1 /\ s.pos \in Nat /\ s.pos >= 1
      /\ s.pos <= Packets + 1 /\ s.cwnd \in Nat /\ s.ssthresh \in Nat /\ s.theirWnd \in Nat
      /\ s.backPoint \in Nat /\ s.backPoint <= Packets + 1 /\ s.sentMax \in Nat
      /\ s.rto \in Nat /\ s.rto <= RtoDoublings /\ RtoDoublings \in Nat /\ Packets \in Nat
      /\ s.start + s.count <= Packets + 1 /\ s.count > 0 /\ ~s.error
      /\ s.last = s.start + s.count - 1 /\ s.base <= s.last /\ s.last \in Nat
  BY <1>1, SenderFields DEF SenderInv, Serving
\* Giving up
<1>3. CASE s.rto = RtoDoublings
  <2> DEFINE u == [s EXCEPT !.timers = {}]
             v == EndSend(u, FALSE)
  <2>1. t = [v EXCEPT !.error = TRUE]  BY <1>3 DEF DataTimeout, GiveUp
  <2>2. u \in Senders /\ u.locked /\ u.start = s.start /\ u.count = s.count /\ u.timers = {}
        /\ u.base = s.base /\ u.sentMax = s.sentMax /\ u.cwnd = s.cwnd
        /\ u.theirWnd = s.theirWnd /\ u.rep = s.rep /\ u.fast = s.fast /\ u.wndPos = s.wndPos
    BY <1>1 DEF Senders
  <2> HIDE DEF u
  <2>3. v = [u EXCEPT !.locked = FALSE, !.ok = FALSE, !.count = 0, !.start = u.start]
    BY <2>2 DEF EndSend
  <2> HIDE DEF v
  <2>4. v \in Senders
    <3>1. 0 \in 0..Packets /\ u.start \in 1..(Packets + 1)
      BY <1>2, <2>2 DEF Senders
    <3> QED BY <2>2, <2>3, <3>1 DEF Senders
  <2>5. /\ v.start = s.start /\ v.count = 0 /\ v.ok = FALSE /\ v.locked = FALSE
        /\ v.base = s.base /\ v.sentMax = s.sentMax /\ v.cwnd = s.cwnd
        /\ v.timers = {} /\ v.wndPos = s.wndPos /\ v.theirWnd = s.theirWnd
        /\ v.rep = s.rep /\ v.fast = s.fast
    BY <2>2, <2>3 DEF Senders
  <2>6. /\ t \in Senders /\ t.error = TRUE
        /\ t.start = s.start /\ t.count = 0 /\ t.ok = FALSE /\ t.locked = FALSE
        /\ t.base = s.base /\ t.sentMax = s.sentMax /\ t.cwnd = s.cwnd
        /\ t.timers = {} /\ t.wndPos = s.wndPos /\ t.theirWnd = s.theirWnd
        /\ t.rep = s.rep /\ t.fast = s.fast
    <3>1. t \in Senders /\ t.error = TRUE  BY <2>1, <2>4 DEF Senders
    <3>2. /\ t.start = v.start /\ t.count = v.count /\ t.ok = v.ok /\ t.locked = v.locked
          /\ t.base = v.base /\ t.sentMax = v.sentMax /\ t.cwnd = v.cwnd
          /\ t.timers = v.timers /\ t.wndPos = v.wndPos /\ t.theirWnd = v.theirWnd
          /\ t.rep = v.rep /\ t.fast = v.fast
      BY <2>1, <2>4 DEF Senders
    <3> QED BY <2>5, <3>1, <3>2
  <2>7. SenderInv(t)  BY <1>2, <2>6 DEF SenderInv
  <2>8. SenderWindow(t, edge)  BY <2>6 DEF SenderWindow
  <2> QED BY <1>2, <2>6, <2>7, <2>8 DEF Fate
\* Going back
<1>4. CASE s.rto # RtoDoublings
  <2> DEFINE b == Larger(s.backPoint, s.pos)
             r == Smaller(s.rto + 1, RtoDoublings)
             h == Larger(s.cwnd \div 2, 2)
             g == GoBack(s)
             u == [g EXCEPT !.ssthresh = h, !.cwnd = 1, !.fast = FALSE]
  <2>0. b \in 0..(Packets + 1) /\ r \in 0..RtoDoublings /\ h \in Nat
    BY <1>2 DEF Larger, Smaller
  <2>1. g = [s EXCEPT !.backPoint = b, !.pos = s.base, !.rep = 0, !.timers = {}, !.rto = r]
    BY DEF GoBack
  <2>2. g.cwnd = s.cwnd  BY <1>1, <2>1 DEF Senders
  <2>3. t = RefreshWnd(u)  BY <1>4, <2>2 DEF DataTimeout, SlowDown
  <2> HIDE DEF b, r, h, g
  <2>4. /\ g \in Senders /\ g.start = s.start /\ g.count = s.count /\ g.base = s.base
        /\ g.pos = s.base /\ g.last = s.last /\ g.theirWnd = s.theirWnd
        /\ g.locked = s.locked /\ g.ok = s.ok /\ g.sentMax = s.sentMax /\ g.timers = {}
        /\ g.rep = 0 /\ g.error = s.error
    <3>1. 0 \in 0..1 /\ s.base \in 1..(Packets + 1) /\ {} \in SUBSET Positions
      BY <1>2
    <3>2. g \in Senders  BY <1>1, <2>0, <2>1, <3>1 DEF Senders
    <3>3. /\ g.start = s.start /\ g.count = s.count /\ g.base = s.base
          /\ g.pos = s.base /\ g.last = s.last /\ g.theirWnd = s.theirWnd
          /\ g.locked = s.locked /\ g.ok = s.ok /\ g.sentMax = s.sentMax /\ g.timers = {}
          /\ g.rep = 0 /\ g.error = s.error
      BY <1>1, <2>1 DEF Senders
    <3> QED BY <3>2, <3>3
  <2>5. /\ u \in Senders /\ u.start = s.start /\ u.count = s.count /\ u.base = s.base
        /\ u.pos = s.base /\ u.last = s.last /\ u.theirWnd = s.theirWnd /\ u.cwnd = 1
        /\ u.locked = s.locked /\ u.ok = s.ok /\ u.sentMax = s.sentMax /\ u.timers = {}
        /\ u.rep = 0 /\ u.fast = FALSE /\ u.error = s.error
    <3>1. 1 \in Nat  OBVIOUS
    <3>2. u \in Senders
      <4>1. g \in Senders /\ h \in Nat  BY <2>0, <2>4
      <4> DEFINE g1 == [g EXCEPT !.ssthresh = h]
                 g2 == [g1 EXCEPT !.cwnd = 1]
      <4>2. g1 \in Senders  BY <4>1 DEF Senders
      <4>3. u = [g2 EXCEPT !.fast = FALSE]  OBVIOUS
      <4> HIDE DEF g1, u
      <4>4. g2 \in Senders  BY <3>1, <4>2 DEF Senders
      <4> HIDE DEF g2
      <4> QED BY <4>3, <4>4 DEF Senders
    <3>3. /\ u.start = g.start /\ u.count = g.count /\ u.base = g.base
          /\ u.pos = g.pos /\ u.last = g.last /\ u.theirWnd = g.theirWnd /\ u.cwnd = 1
          /\ u.locked = g.locked /\ u.ok = g.ok /\ u.sentMax = g.sentMax
          /\ u.timers = g.timers /\ u.rep = g.rep /\ u.fast = FALSE /\ u.error = g.error
      BY <2>4, ZenonT(30) DEF Senders
    <3> QED BY <2>4, <3>2, <3>3
  <2> HIDE DEF u
  <2>6. /\ t \in Senders /\ t = [u EXCEPT !.wndPos = t.wndPos]
        /\ t.wndPos <= s.start + s.count
        /\ t.wndPos <= s.base + s.theirWnd /\ t.wndPos <= s.base + 1
        /\ s.theirWnd > 0 => t.wndPos > s.base
    BY <1>2, <2>3, <2>5, RefreshFacts
  <2>7. /\ t.start = s.start /\ t.count = s.count /\ t.base = s.base
        /\ t.pos = s.base /\ t.last = s.last /\ t.theirWnd = s.theirWnd /\ t.cwnd = 1
        /\ t.locked = s.locked /\ t.ok = s.ok /\ t.sentMax = s.sentMax /\ t.timers = {}
        /\ t.rep = 0 /\ t.fast = FALSE /\ t.error = s.error
    <3>1. u \in Senders /\ t = [u EXCEPT !.wndPos = t.wndPos]  BY <2>5, <2>6
    <3>2. t.start = u.start /\ t.count = u.count /\ t.base = u.base /\ t.pos = u.pos
      BY <3>1 DEF Senders
    <3>3. /\ t.last = u.last /\ t.theirWnd = u.theirWnd /\ t.cwnd = u.cwnd
          /\ t.locked = u.locked /\ t.ok = u.ok /\ t.sentMax = u.sentMax
      BY <3>1 DEF Senders
    <3>4. t.timers = u.timers /\ t.rep = u.rep /\ t.fast = u.fast /\ t.error = u.error
      BY <3>1 DEF Senders
    <3> QED BY <2>5, <3>2, <3>3, <3>4
  <2>8. t.wndPos \in Nat  BY <2>6, SenderFields
  <2>9. Serving(t)
    <3>1. t.timers = t.base..(t.pos - 1)  BY <1>2, <2>7
    <3>2. t.sentMax <= t.last /\ t.base <= t.pos /\ t.pos <= t.sentMax + 1
      BY <1>1, <1>2, <2>7 DEF SenderInv, Serving
    <3>3. t.count > 0 /\ t.last = t.start + t.count - 1 /\ t.base <= t.last
      BY <1>2, <2>7
    <3>4. t.wndPos <= t.last + 1  BY <1>2, <2>6, <2>7, <2>8
    <3>5. t.theirWnd > 0 => t.wndPos > t.base  BY <2>6, <2>7
    <3> QED BY <3>1, <3>2, <3>3, <3>4, <3>5 DEF Serving
  <2>10. SenderInv(t)  BY <1>2, <2>6, <2>7, <2>9 DEF SenderInv
  <2>11. SenderWindow(t, edge)
    <3>1. t.wndPos <= edge + 1
      BY <1>2, <2>6, <2>8 DEF SenderWindow
    <3> QED BY <2>7, <3>1 DEF SenderWindow
  <2> QED BY <2>7, <2>10, <2>11 DEF Fate
<1> QED BY <1>3, <1>4

-----------------------------------------------------------------------------
(* The sender: acknowledgements *)

\* What a repeated acknowledgement leaves alone
Steady(s, t) ==
  /\ t.start = s.start /\ t.count = s.count /\ t.ok = s.ok /\ t.locked = s.locked
  /\ t.error = s.error /\ t.base = s.base /\ t.sentMax = s.sentMax /\ t.last = s.last
  /\ t.theirWnd = s.theirWnd /\ t.wndPos = s.wndPos

LEMMA TakeRepeatKeeps ==
  ASSUME NEW s, SenderInv(s), NEW edge \in Nat, SenderWindow(s, edge),
         NEW a \in Acks, NEW t, t = TakeRepeat(s, a)
  PROVE  /\ SenderInv(t) /\ Steady(s, t)
         /\ a.seq # s.base => SenderWindow(t, edge)
<1>1. s \in Senders  BY DEF SenderInv
<1>2. /\ s.base \in Nat /\ s.base >= 1 /\ s.base <= Packets + 1 /\ s.pos \in Nat
      /\ s.pos <= Packets + 1 /\ s.ssthresh \in Nat /\ s.rep \in 0..1
      /\ s.backPoint \in Nat /\ s.backPoint <= Packets + 1 /\ s.sentMax \in Nat
      /\ s.rto \in Nat /\ s.rto <= RtoDoublings /\ RtoDoublings \in Nat /\ Packets \in Nat
  BY <1>1, SenderFields
<1> DEFINE n == CountRepeat(s, a)
<1>3. n = s.rep \/ (n = s.rep + 1 /\ a.seq = s.base /\ s.base > s.sentMax)
  BY DEF CountRepeat
<1>4. n \in Nat  BY <1>2, <1>3
<1>5. t = IF n > 1 THEN FastRetransmit(s) ELSE [s EXCEPT !.rep = n]
  BY DEF TakeRepeat
<1> HIDE DEF n
<1>6. CASE n > 1
  <2> DEFINE b == Larger(s.backPoint, s.pos)
             r == Smaller(s.rto + 1, RtoDoublings)
             h == Larger(s.ssthresh + 3, 1)
             g == GoBack(s)
             g1 == [g EXCEPT !.cwnd = h]
  <2>0. b \in 0..(Packets + 1) /\ r \in 0..RtoDoublings /\ h \in Nat /\ h >= 1
    BY <1>2 DEF Larger, Smaller
  <2>1. g = [s EXCEPT !.backPoint = b, !.pos = s.base, !.rep = 0, !.timers = {}, !.rto = r]
    BY DEF GoBack
  <2>2. t = [g1 EXCEPT !.fast = TRUE]  BY <1>5, <1>6 DEF FastRetransmit
  <2>3. s.base = s.sentMax + 1 /\ s.rep # 0
    BY <1>2, <1>3, <1>6 DEF SenderInv
  <2> HIDE DEF b, r, h, g
  <2>4. g \in Senders
    <3>1. 0 \in 0..1 /\ s.base \in 1..(Packets + 1) /\ {} \in SUBSET Positions
      BY <1>2
    <3> QED BY <1>1, <2>0, <2>1, <3>1 DEF Senders
  <2>5. /\ Steady(s, g) /\ g.pos = s.base /\ g.timers = {} /\ g.rep = 0
    BY <1>1, <2>1 DEF Senders, Steady
  <2>6. g1 \in Senders /\ Steady(g, g1) /\ g1.cwnd = h /\ g1.pos = g.pos
        /\ g1.timers = g.timers
    BY <2>0, <2>4 DEF Senders, Steady
  <2> HIDE DEF g1
  <2>7. t \in Senders /\ Steady(g1, t) /\ t.cwnd = g1.cwnd /\ t.pos = g1.pos
        /\ t.timers = g1.timers
    BY <2>2, <2>6 DEF Senders, Steady
  <2>8. Steady(s, t)  BY <2>5, <2>6, <2>7 DEF Steady
  <2>9. t.pos = s.base /\ t.timers = {} /\ t.cwnd = h  BY <2>5, <2>6, <2>7
  <2>10. s.locked => Serving(t)
    <3> SUFFICES ASSUME s.locked PROVE Serving(t)  OBVIOUS
    <3>1. Serving(s)  BY DEF SenderInv
    <3>2. t.timers = t.base..(t.pos - 1)  BY <1>2, <2>8, <2>9 DEF Steady
    <3>3. t.base <= t.pos /\ t.pos <= t.sentMax + 1  BY <1>2, <2>3, <2>8, <2>9 DEF Steady
    <3> QED BY <2>8, <3>1, <3>2, <3>3 DEF Serving, Steady
  <2>11. SenderInv(t)  BY <2>0, <2>7, <2>8, <2>9, <2>10 DEF SenderInv, Steady
  <2>12. SenderWindow(t, edge)  BY <2>3, <2>8 DEF SenderWindow, Steady
  <2> QED BY <2>8, <2>11, <2>12
<1>7. CASE ~(n > 1)
  <2>1. t = [s EXCEPT !.rep = n] /\ n \in 0..1  BY <1>4, <1>5, <1>7
  <2>2. t \in Senders  BY <1>1, <2>1 DEF Senders
  <2>3. Steady(s, t) /\ t.pos = s.pos /\ t.timers = s.timers /\ t.cwnd = s.cwnd
        /\ t.rep = n /\ t.fast = s.fast
    BY <1>1, <2>1 DEF Senders, Steady
  <2>4. Serving(s) => Serving(t)  BY <2>3 DEF Serving, Steady
  <2>5. SenderInv(t)  BY <2>2, <2>3, <2>4 DEF SenderInv, Steady
  <2>6. a.seq # s.base => SenderWindow(t, edge)
    BY <1>3, <2>3 DEF SenderWindow, Steady
  <2> QED BY <2>3, <2>5, <2>6
<1> QED BY <1>6, <1>7

\* The base moves to the acknowledgement, and the window is what it announces.
LEMMA NewWindow ==
  ASSUME NEW s, SenderInv(s), NEW edge \in Nat, edge >= 1, s.sentMax <= edge,
         NEW a \in Acks, a.seq + a.wnd <= edge + 1, InRange(s, a),
         NEW t, t = TakeWindow(NewBase(s, a), a)
  PROVE  /\ t \in Senders
         /\ t.start = s.start /\ t.count = s.count /\ t.ok = s.ok /\ t.locked = s.locked
         /\ t.error = s.error /\ t.base = a.seq /\ t.sentMax = s.sentMax /\ t.last = s.last
         /\ t.cwnd = s.cwnd /\ t.pos = s.pos /\ t.timers = s.timers
         /\ t.theirWnd = a.wnd
         /\ t.wndPos <= s.start + s.count
         /\ t.wndPos <= edge + 1
         /\ t.theirWnd > 0 /\ a.seq < s.start + s.count => t.wndPos > a.seq
         /\ SenderWindow(t, edge)
<1>1. s \in Senders /\ s.start + s.count <= Packets + 1 /\ s.cwnd >= 1  BY DEF SenderInv
<1>2. /\ s.base \in Nat /\ s.base <= Packets + 1 /\ s.backPoint \in Nat
      /\ s.backPoint <= Packets + 1 /\ s.cwnd \in Nat /\ Packets \in Nat /\ Window \in Nat
      /\ s.start \in Nat /\ s.count \in Nat /\ s.sentMax \in Nat
  BY <1>1, SenderFields
<1>3. a.seq \in 1..(Packets + 1) /\ a.wnd \in 0..Window /\ a.seq \in Nat /\ a.wnd \in Nat
      /\ a.seq >= s.base
  BY <1>2 DEF Acks, InRange
<1> DEFINE u == NewBase(s, a)
           v == [u EXCEPT !.theirWnd = a.wnd]
<1>4. /\ u \in Senders
      /\ u.start = s.start /\ u.count = s.count /\ u.ok = s.ok /\ u.locked = s.locked
      /\ u.error = s.error /\ u.base = a.seq /\ u.sentMax = s.sentMax /\ u.last = s.last
      /\ u.cwnd = s.cwnd /\ u.pos = s.pos /\ u.timers = s.timers
  <2>1. CASE a.seq > s.base
    <3> DEFINE b == Larger(s.backPoint, a.seq)
    <3>1. b \in 0..(Packets + 1) /\ 0 \in 0..1  BY <1>2, <1>3 DEF Larger
    <3>2. u = [s EXCEPT !.base = a.seq, !.rep = 0, !.backPoint = b]
      BY <2>1 DEF NewBase
    <3> HIDE DEF b, u
    <3>3. u \in Senders  BY <1>1, <1>3, <3>1, <3>2 DEF Senders
    <3> QED BY <1>1, <3>2, <3>3 DEF Senders
  <2>2. CASE ~(a.seq > s.base)
    <3>1. u = s  BY <2>2 DEF NewBase
    <3>2. a.seq = s.base  BY <1>2, <1>3, <2>2
    <3> QED BY <1>1, <3>1, <3>2
  <2> QED BY <2>1, <2>2
<1> HIDE DEF u
<1>5. a.wnd \in 0..(2 * Window)  BY <1>2, <1>3
<1>6. /\ v \in Senders
      /\ v.start = s.start /\ v.count = s.count /\ v.ok = s.ok /\ v.locked = s.locked
      /\ v.error = s.error /\ v.base = a.seq /\ v.sentMax = s.sentMax /\ v.last = s.last
      /\ v.cwnd = s.cwnd /\ v.pos = s.pos /\ v.timers = s.timers /\ v.theirWnd = a.wnd
  <2>1. v \in Senders  BY <1>4, <1>5 DEF Senders
  <2>2. /\ v.start = u.start /\ v.count = u.count /\ v.ok = u.ok /\ v.locked = u.locked
        /\ v.error = u.error /\ v.base = u.base /\ v.sentMax = u.sentMax /\ v.last = u.last
        /\ v.cwnd = u.cwnd /\ v.pos = u.pos /\ v.timers = u.timers /\ v.theirWnd = a.wnd
    BY <1>4 DEF Senders
  <2> QED BY <1>4, <2>1, <2>2
<1>7. t = RefreshWnd(v)  BY DEF TakeWindow, u
<1> HIDE DEF v
<1>8. /\ t \in Senders /\ t = [v EXCEPT !.wndPos = t.wndPos]
      /\ t.wndPos <= s.start + s.count /\ t.wndPos <= a.seq + a.wnd
      /\ a.wnd > 0 /\ s.cwnd > 0 /\ a.seq < s.start + s.count => t.wndPos > a.seq
  BY <1>1, <1>6, <1>7, RefreshFacts
<1>9. /\ t.start = v.start /\ t.count = v.count /\ t.ok = v.ok /\ t.locked = v.locked
      /\ t.error = v.error /\ t.base = v.base /\ t.sentMax = v.sentMax /\ t.last = v.last
      /\ t.cwnd = v.cwnd /\ t.pos = v.pos /\ t.timers = v.timers /\ t.theirWnd = v.theirWnd
  BY <1>6, <1>8 DEF Senders
<1>10. t.wndPos \in Nat  BY <1>8, SenderFields
<1>11. t.wndPos <= edge + 1  BY <1>3, <1>8, <1>10
<1>12. s.cwnd > 0  BY <1>1, <1>2
<1>13. SenderWindow(t, edge)  BY <1>6, <1>9, <1>11 DEF SenderWindow
<1> QED BY <1>6, <1>8, <1>9, <1>11, <1>12, <1>13

\* What an acknowledgement inside the call leaves: the window has moved.
Moved(s, u, a) ==
  /\ u.start = s.start /\ u.count = s.count /\ u.ok = s.ok /\ u.locked = s.locked
  /\ u.error = s.error /\ u.base = a.seq /\ u.sentMax = s.sentMax /\ u.last = s.last
  /\ u.theirWnd = a.wnd
  /\ u.wndPos <= s.start + s.count
  /\ a.wnd > 0 /\ a.seq < s.start + s.count => u.wndPos > a.seq

LEMMA GrowFacts ==
  ASSUME NEW s \in Senders, s.cwnd >= 1, NEW rtt \in Rtts, NEW t, t = Grow(s, rtt)
  PROVE  /\ t \in Senders /\ t.cwnd >= 1 /\ Steady(s, t)
         /\ t.pos = s.pos /\ t.timers = s.timers
<1>1. s.cwnd \in Nat /\ s.ssthresh \in Nat  BY SenderFields
<1>2. CASE s.fast
  <2> DEFINE h == Larger(s.ssthresh, 1)
             u == [s EXCEPT !.fast = FALSE]
  <2>1. h \in Nat /\ h >= 1  BY <1>1 DEF Larger
  <2>2. u \in Senders /\ Steady(s, u) /\ u.pos = s.pos /\ u.timers = s.timers
    BY DEF Senders, Steady
  <2>3. t = [u EXCEPT !.cwnd = h]  BY <1>2 DEF Grow
  <2> HIDE DEF h, u
  <2>4. t \in Senders /\ t.cwnd = h /\ Steady(u, t) /\ t.pos = u.pos /\ t.timers = u.timers
    BY <2>1, <2>2, <2>3 DEF Senders, Steady
  <2> QED BY <2>1, <2>2, <2>4 DEF Steady
<1>3. CASE ~s.fast
  <2>1. t = s \/ t = [s EXCEPT !.cwnd = s.cwnd + 1]  BY <1>3 DEF Grow
  <2>2. s.cwnd + 1 \in Nat /\ s.cwnd + 1 >= 1  BY <1>1
  <2>3. CASE t = s  BY <2>3 DEF Steady
  <2>4. CASE t = [s EXCEPT !.cwnd = s.cwnd + 1]
    <3>1. t \in Senders  BY <2>2, <2>4 DEF Senders
    <3>2. t.cwnd = s.cwnd + 1 /\ Steady(s, t) /\ t.pos = s.pos /\ t.timers = s.timers
      BY <2>4 DEF Senders, Steady
    <3> QED BY <2>2, <3>1, <3>2
  <2> QED BY <2>1, <2>3, <2>4
<1> QED BY <1>2, <1>3

LEMMA AfterNewAckKeeps ==
  ASSUME NEW s, SenderInv(s), s.locked, NEW edge \in Nat, NEW a \in Acks,
         InRange(s, a), a.seq # s.base,
         NEW u \in Senders, Moved(s, u, a), SenderWindow(u, edge),
         u.cwnd >= 1, u.pos = s.pos, u.timers = s.timers,
         u.base + u.theirWnd <= edge + 1,
         NEW rtt \in Rtts, NEW t, t = AfterNewAck(u, a, rtt)
  PROVE  /\ SenderInv(t) /\ SenderWindow(t, edge) /\ Fate(s, t)
         /\ t.sentMax = s.sentMax /\ t.base = a.seq /\ ~t.error
         /\ t.count > 0 => t.locked
<1>1. s \in Senders /\ Serving(s) /\ ~s.error  BY DEF SenderInv
<1>2. /\ s.base \in Nat /\ s.base >= 1 /\ s.pos \in Nat /\ s.sentMax \in Nat
      /\ s.start \in Nat /\ s.start >= 1 /\ s.count \in Nat /\ s.count > 0 /\ Packets \in Nat
      /\ s.last = s.start + s.count - 1 /\ s.last \in Nat /\ s.base <= s.last
      /\ s.start + s.count <= Packets + 1 /\ s.start <= s.base /\ s.sentMax <= s.last
      /\ s.base <= s.pos /\ s.pos <= s.sentMax + 1 /\ s.timers = s.base..(s.pos - 1)
  BY <1>1, SenderFields DEF SenderInv, Serving
<1>3. a.seq \in Nat /\ a.seq > s.base /\ a.seq <= s.sentMax + 1 /\ a.seq <= Packets + 1
  BY <1>2, SMTT(30) DEF InRange, Acks
<1> DEFINE g == Grow(u, rtt)
           p == Larger(s.pos, a.seq)
           v == [g EXCEPT !.pos = Larger(g.pos, g.base)]
           w == AckTimers(v, a, rtt)
<1>4. /\ g \in Senders /\ g.cwnd >= 1 /\ Steady(u, g)
      /\ g.pos = u.pos /\ g.timers = u.timers
  BY GrowFacts
<1> HIDE DEF g
<1>5. p \in Nat /\ p >= s.pos /\ p >= a.seq /\ p <= s.sentMax + 1 /\ p >= 1
      /\ (p = s.pos \/ p = a.seq)
  <2>1. s.pos \in Nat /\ a.seq \in Nat /\ s.sentMax \in Nat /\ s.pos >= 1
        /\ s.pos <= s.sentMax + 1 /\ a.seq <= s.sentMax + 1
    BY <1>2, <1>3, SMTT(30)
  <2> HIDE DEF g, v, w
  <2> QED BY <2>1 DEF Larger
<1>6. v = [g EXCEPT !.pos = p]  BY <1>4 DEF Moved, Steady
<1> HIDE DEF p, v
<1>7. p \in 1..(Packets + 1)  BY <1>2, <1>5
<1>8. v \in Senders /\ Steady(g, v) /\ v.pos = p /\ v.cwnd = g.cwnd /\ v.timers = g.timers
  <2>1. v \in Senders  BY <1>4, <1>6, <1>7 DEF Senders
  <2>2. Steady(g, v) /\ v.pos = p /\ v.cwnd = g.cwnd /\ v.timers = g.timers
    BY <1>4, <1>6 DEF Senders, Steady
  <2> QED BY <2>1, <2>2
<1>9. /\ w \in Senders /\ Steady(v, w) /\ w.pos = v.pos /\ w.cwnd = v.cwnd
      /\ w.timers = {x \in v.timers : x >= a.seq}
  <2> DEFINE ts == {x \in v.timers : x >= a.seq}
             r == IF a.seq - 1 \in v.timers /\ a.seq >= v.backPoint THEN rtt.level ELSE v.rto
  <2>1. w = [v EXCEPT !.timers = ts, !.rto = r]  BY DEF AckTimers
  <2>2. ts \in SUBSET Positions /\ r \in 0..RtoDoublings
    BY <1>8 DEF Senders, Rtts
  <2> HIDE DEF ts, r, w
  <2>3. w \in Senders  BY <1>8, <2>1, <2>2 DEF Senders
  <2>4. Steady(v, w) /\ w.pos = v.pos /\ w.cwnd = v.cwnd /\ w.timers = ts
    BY <1>8, <2>1 DEF Senders, Steady
  <2> QED BY <2>3, <2>4 DEF ts
<1> HIDE DEF w
<1>10. /\ w.start = s.start /\ w.count = s.count /\ w.ok = s.ok /\ w.locked /\ ~w.error
       /\ w.base = a.seq /\ w.sentMax = s.sentMax /\ w.last = s.last
       /\ w.theirWnd = a.wnd /\ w.wndPos = u.wndPos /\ w.pos = p /\ w.cwnd >= 1
       /\ w.timers = {x \in s.timers : x >= a.seq}
  BY <1>1, <1>4, <1>8, <1>9 DEF Moved, Steady
<1>11. w.timers = w.base..(w.pos - 1)
  <2>1. CASE p = s.pos  BY <1>2, <1>3, <1>5, <1>10, <2>1, SMTT(30)
  <2>2. CASE p = a.seq /\ p # s.pos  BY <1>2, <1>3, <1>5, <1>10, <2>2, SMTT(30)
  <2> QED BY <1>5, <2>1, <2>2
<1>12. t = Finish(w, a)  BY DEF AfterNewAck, w, v, g
<1>13. u.wndPos <= s.start + s.count /\ u.wndPos \in Nat
       /\ (a.wnd > 0 /\ a.seq < s.start + s.count => u.wndPos > a.seq)
  BY SenderFields DEF Moved
<1>14. w.base + w.theirWnd <= edge + 1 /\ w.sentMax <= edge /\ w.wndPos <= edge + 1 /\ edge >= 1
  BY <1>10 DEF Moved, SenderWindow
\* The call goes on.
<1>15. CASE ~(a.seq > s.last)
  <2>1. t = w  BY <1>10, <1>12, <1>15 DEF Finish
  <2>2. Serving(w)
    <3>1. w.count > 0 /\ w.last = w.start + w.count - 1 /\ w.base <= w.last
          /\ w.sentMax <= w.last
      BY <1>2, <1>3, <1>10, <1>15
    <3>2. w.base <= w.pos /\ w.pos <= w.sentMax + 1  BY <1>5, <1>10
    <3>3. w.wndPos <= w.last + 1  BY <1>2, <1>10, <1>13
    <3>4. w.theirWnd > 0 => w.wndPos > w.base  BY <1>2, <1>3, <1>10, <1>13, <1>15
    <3> QED BY <1>11, <3>1, <3>2, <3>3, <3>4 DEF Serving
  <2>3. SenderInv(t)
    <3>1. w.start <= w.base /\ w.base <= w.sentMax + 1 /\ w.start + w.count <= Packets + 1
      BY <1>2, <1>3, <1>10, SMTT(30)
    <3> QED BY <1>9, <1>10, <2>1, <2>2, <3>1 DEF SenderInv
  <2>4. SenderWindow(t, edge)  BY <1>14, <2>1 DEF SenderWindow
  <2> QED BY <1>10, <2>1, <2>3, <2>4 DEF Fate
\* It was the last one.
<1>16. CASE a.seq > s.last
  <2>1. a.seq = s.last + 1 /\ s.sentMax = s.last /\ p = a.seq
    BY <1>2, <1>3, <1>5, <1>16
  <2>2. t = [w EXCEPT !.locked = FALSE, !.ok = TRUE, !.count = 0, !.start = w.start + w.count]
    BY <1>10, <1>12, <1>16 DEF Finish, EndSend
  <2>3. w.start + w.count \in 1..(Packets + 1) /\ 0 \in 0..Packets
    BY <1>2, <1>10
  <2>4. t \in Senders  BY <1>9, <2>2, <2>3, ZenonT(30) DEF Senders
  <2>5. /\ t.locked = FALSE /\ t.ok = TRUE /\ t.count = 0 /\ t.start = s.start + s.count
        /\ t.error = w.error /\ t.base = w.base /\ t.sentMax = w.sentMax
        /\ t.theirWnd = w.theirWnd /\ t.wndPos = w.wndPos /\ t.cwnd = w.cwnd
        /\ t.timers = w.timers
    BY <1>9, <1>10, <2>2 DEF Senders
  <2>6. t.timers = {}  BY <1>10, <1>11, <1>3, <2>1, <2>5
  <2>7. t.base = t.start /\ t.sentMax = t.start - 1  BY <1>2, <1>10, <2>1, <2>5
  <2>8. SenderInv(t)
    <3>1. t.start <= t.base /\ t.base <= t.sentMax + 1 /\ t.start + t.count <= Packets + 1
      BY <1>2, <2>5, <2>7, SMTT(30)
    <3>2. t.cwnd >= 1 /\ ~t.error  BY <1>10, <2>5
    <3> QED BY <2>4, <2>5, <2>6, <2>7, <3>1, <3>2 DEF SenderInv
  <2>9. SenderWindow(t, edge)  BY <1>14, <2>5 DEF SenderWindow
  <2> QED BY <1>2, <1>10, <2>5, <2>8, <2>9 DEF Fate
<1> QED BY <1>15, <1>16

LEMMA TakeAckKeeps ==
  ASSUME NEW s, SenderInv(s), ~s.error, s.count > 0 => s.locked,
         NEW edge \in Nat, SenderWindow(s, edge),
         NEW a \in Acks, a.seq + a.wnd <= edge + 1,
         NEW rtt \in Rtts, NEW t, t = TakeAck(s, a, rtt)
  PROVE  /\ SenderInv(t) /\ SenderWindow(t, edge) /\ Fate(s, t) /\ ~t.error
         /\ t.sentMax = s.sentMax /\ (t.base = s.base \/ t.base = a.seq)
         /\ t.count > 0 => t.locked
<1> DEFINE r == TakeRepeat(s, a)
           u == TakeWindow(NewBase(r, a), a)
<1>1. SenderInv(r) /\ Steady(s, r) /\ (a.seq # s.base => SenderWindow(r, edge))
  BY TakeRepeatKeeps
<1>2. t = IF ~InRange(r, a) THEN r ELSE IF a.seq = r.base THEN u ELSE AfterNewAck(u, a, rtt)
  BY DEF TakeAck
<1>3. /\ r \in Senders /\ r.base \in Nat /\ r.sentMax \in Nat /\ r.base <= r.sentMax + 1
      /\ a.seq \in Nat /\ r.base >= 1
  BY <1>1, SenderFields DEF SenderInv, Acks
<1> HIDE DEF r
<1>4. Fate(s, r)  BY <1>1 DEF Fate, Steady
<1>5. CASE ~InRange(r, a)
  <2>1. a.seq # s.base  BY <1>1, <1>3, <1>5 DEF InRange, Steady
  <2> QED BY <1>1, <1>2, <1>4, <1>5, <2>1 DEF Steady
<1>6. ASSUME InRange(r, a)
      PROVE  /\ u \in Senders /\ Moved(r, u, a) /\ u.cwnd = r.cwnd /\ u.pos = r.pos
             /\ u.timers = r.timers /\ u.wndPos <= edge + 1 /\ SenderWindow(u, edge)
  <2>1. edge >= 1 /\ r.sentMax <= edge  BY <1>1 DEF SenderWindow, Steady
  <2> QED BY <1>1, <1>6, <2>1, NewWindow DEF Moved
<1>7. CASE InRange(r, a) /\ a.seq = r.base
  <2>1. t = u  BY <1>2, <1>7
  <2> HIDE DEF u
  <2>2. /\ u \in Senders /\ Moved(r, u, a) /\ u.cwnd = r.cwnd /\ u.pos = r.pos
        /\ u.timers = r.timers /\ SenderWindow(u, edge)
    BY <1>6, <1>7
  <2>3. Serving(r) => Serving(u)
    <3> SUFFICES ASSUME Serving(r) PROVE Serving(u)  OBVIOUS
    <3>1. /\ u.start = r.start /\ u.count = r.count /\ u.last = r.last /\ u.base = r.base
          /\ u.sentMax = r.sentMax
      BY <1>7, <2>2 DEF Moved
    <3>2. r.start \in Nat /\ r.count \in Nat /\ r.last \in Nat /\ u.wndPos \in Nat
      BY <1>3, <2>2, SenderFields
    <3>3. r.last = r.start + r.count - 1 /\ r.base <= r.last  BY DEF Serving
    <3>4. u.wndPos <= u.last + 1  BY <2>2, <3>1, <3>2, <3>3 DEF Moved
    <3>5. u.theirWnd > 0 => u.wndPos > u.base
      BY <1>3, <1>7, <2>2, <3>1, <3>2, <3>3 DEF Moved
    <3> QED BY <2>2, <3>1, <3>4, <3>5 DEF Serving
  <2>4. SenderInv(u)  BY <1>1, <1>7, <2>2, <2>3 DEF SenderInv, Moved
  <2>5. Fate(s, u)  BY <1>1, <2>2 DEF Fate, Steady, Moved
  <2> QED BY <1>1, <1>7, <2>1, <2>2, <2>4, <2>5 DEF Steady, Moved
<1>8. CASE InRange(r, a) /\ a.seq # r.base
  <2>1. t = AfterNewAck(u, a, rtt)  BY <1>2, <1>8
  <2> HIDE DEF u
  <2>2. r.locked
    <3>1. ~r.error  BY <1>1 DEF Steady
    <3>2. CASE ~r.locked
      <4>1. r.base = r.start /\ r.sentMax = r.start - 1 /\ r.start \in Nat
        BY <1>1, <1>3, <3>1, <3>2, SenderFields DEF SenderInv
      <4> QED BY <1>3, <1>8, <4>1 DEF InRange
    <3> QED BY <3>2
  <2>3. u.base + u.theirWnd <= edge + 1  BY <1>6, <1>8 DEF Moved
  <2>4. r.cwnd >= 1  BY <1>1 DEF SenderInv
  <2>5. /\ SenderInv(t) /\ SenderWindow(t, edge) /\ Fate(r, t)
        /\ t.sentMax = r.sentMax /\ t.base = a.seq /\ ~t.error
        /\ t.count > 0 => t.locked
    BY <1>1, <1>6, <1>8, <2>1, <2>2, <2>3, <2>4, AfterNewAckKeeps
  <2>6. Fate(s, t)
    <3>1. s \in Senders /\ t \in Senders  BY <2>5 DEF SenderInv
    <3> QED BY <1>3, <1>4, <2>5, <3>1, FateTrans
  <2> QED BY <1>1, <2>5, <2>6 DEF Steady
<1> QED BY <1>5, <1>7, <1>8

-----------------------------------------------------------------------------
(* What a turn takes from the network: what each packet keeps, all of them keep. *)

AckRunOf(g, s, b, rtts, n) ==
  g = [i \in 0..n |-> IF i = 0 THEN s ELSE TakeAck(g[i - 1], b[i], rtts[i])]

LEMMA AckRunExists ==
  ASSUME NEW s, NEW b, NEW rtts, NEW N \in Nat
  PROVE  \E g : AckRunOf(g, s, b, rtts, N)
<1> DEFINE T == {n \in Nat : ~ \E g : AckRunOf(g, s, b, rtts, n)}
<1>1. SUFFICES ASSUME T # {} PROVE FALSE  OBVIOUS
<1>2. T \subseteq Nat  OBVIOUS
<1>3. PICK n \in T : \A y \in T : n <= y  BY <1>1, <1>2, LeastExists
<1>4. n # 0
  <2> DEFINE g == [i \in 0..0 |-> s]
  <2>1. g = [i \in 0..0 |-> IF i = 0 THEN s ELSE TakeAck(g[i - 1], b[i], rtts[i])]  OBVIOUS
  <2>2. AckRunOf(g, s, b, rtts, 0)  BY <2>1 DEF AckRunOf
  <2> QED BY <2>2
<1>5. n - 1 \in Nat /\ n - 1 \notin T  BY <1>3, <1>4
<1>6. PICK g : AckRunOf(g, s, b, rtts, n - 1)  BY <1>5
<1> DEFINE h == [i \in 0..n |-> IF i = n THEN TakeAck(g[n - 1], b[n], rtts[n]) ELSE g[i]]
<1>7. \A i \in 0..(n - 1) : g[i] = IF i = 0 THEN s ELSE TakeAck(g[i - 1], b[i], rtts[i])
  BY <1>6 DEF AckRunOf
<1>8. \A i \in 0..n : h[i] = IF i = 0 THEN s ELSE TakeAck(h[i - 1], b[i], rtts[i])
  <2> SUFFICES ASSUME NEW i \in 0..n
               PROVE  h[i] = IF i = 0 THEN s ELSE TakeAck(h[i - 1], b[i], rtts[i])
    OBVIOUS
  <2>1. CASE i = n
    <3>1. h[n] = TakeAck(g[n - 1], b[n], rtts[n])  BY <1>5
    <3>2. h[n - 1] = g[n - 1]  BY <1>4, <1>5
    <3> HIDE DEF h
    <3> QED BY <1>4, <2>1, <3>1, <3>2
  <2>2. CASE i # n
    <3>1. h[i] = g[i] /\ i \in 0..(n - 1)  BY <1>5, <2>2
    <3>2. i # 0 => h[i - 1] = g[i - 1]  BY <1>5, <2>2
    <3> HIDE DEF h
    <3> QED BY <1>7, <3>1, <3>2
  <2> QED BY <2>1, <2>2
<1>9. AckRunOf(h, s, b, rtts, n)
  <2> DEFINE k == [i \in 0..n |-> IF i = 0 THEN s ELSE TakeAck(h[i - 1], b[i], rtts[i])]
  <2>1. \A i \in 0..n : h[i] = k[i]  BY <1>8
  <2>2. h = k  BY <2>1
  <2> QED BY <2>2 DEF AckRunOf
<1> QED BY <1>9

\* A property that each acknowledgement keeps
LEMMA AckRunKeep ==
  ASSUME NEW S, NEW s \in S, NEW b, Len(b) \in Nat, NEW rtts,
         \A i \in 1..Len(b) : \A x \in S : (TakeAck(x, b[i], rtts[i])) \in S
  PROVE  AfterAcks(s, b, rtts) \in S
<1> DEFINE g == CHOOSE f : f = [i \in 0..Len(b) |-> IF i = 0 THEN s ELSE TakeAck(f[i - 1], b[i], rtts[i])]
<1>1. AckRunOf(g, s, b, rtts, Len(b))
  <2>1. \E f : AckRunOf(f, s, b, rtts, Len(b))  BY AckRunExists
  <2>2. \E f : f = [i \in 0..Len(b) |-> IF i = 0 THEN s ELSE TakeAck(f[i - 1], b[i], rtts[i])]
    BY <2>1 DEF AckRunOf
  <2>3. g = [i \in 0..Len(b) |-> IF i = 0 THEN s ELSE TakeAck(g[i - 1], b[i], rtts[i])]
    BY <2>2, Zenon
  <2> QED BY <2>3 DEF AckRunOf
<1>2. AfterAcks(s, b, rtts) = g[Len(b)]  BY DEF AfterAcks
<1> HIDE DEF g
<1>3. \A i \in 0..Len(b) : g[i] = IF i = 0 THEN s ELSE TakeAck(g[i - 1], b[i], rtts[i])
  BY <1>1 DEF AckRunOf
<1> DEFINE T == {n \in 0..Len(b) : g[n] \notin S}
<1>4. SUFFICES ASSUME T # {} PROVE FALSE  BY <1>2
<1>5. T \subseteq Nat  OBVIOUS
<1>6. PICK n \in T : \A y \in T : n <= y  BY <1>4, <1>5, LeastExists
<1>7. n # 0  BY <1>3
<1>8. n - 1 \in 0..Len(b) /\ n - 1 \notin T  BY <1>6, <1>7
<1>9. g[n - 1] \in S  BY <1>8
<1>10. g[n] = (TakeAck(g[n - 1], b[n], rtts[n]))  BY <1>3, <1>7
<1> QED BY <1>7, <1>9, <1>10

DataRunOf(g, s, b, n) ==
  g = [i \in 0..n |-> IF i = 0 THEN s ELSE IF b[i] = Probe THEN g[i - 1] ELSE TakeData(g[i - 1], b[i])]

LEMMA DataRunExists ==
  ASSUME NEW s, NEW b, NEW N \in Nat
  PROVE  \E g : DataRunOf(g, s, b, N)
<1> DEFINE T == {n \in Nat : ~ \E g : DataRunOf(g, s, b, n)}
<1>1. SUFFICES ASSUME T # {} PROVE FALSE  OBVIOUS
<1>2. T \subseteq Nat  OBVIOUS
<1>3. PICK n \in T : \A y \in T : n <= y  BY <1>1, <1>2, LeastExists
<1>4. n # 0
  <2> DEFINE g == [i \in 0..0 |-> s]
  <2>1. g = [i \in 0..0 |-> IF i = 0 THEN s ELSE IF b[i] = Probe THEN g[i - 1] ELSE TakeData(g[i - 1], b[i])]  OBVIOUS
  <2>2. DataRunOf(g, s, b, 0)  BY <2>1 DEF DataRunOf
  <2> QED BY <2>2
<1>5. n - 1 \in Nat /\ n - 1 \notin T  BY <1>3, <1>4
<1>6. PICK g : DataRunOf(g, s, b, n - 1)  BY <1>5
<1> DEFINE h == [i \in 0..n |-> IF i = n THEN IF b[n] = Probe THEN g[n - 1] ELSE TakeData(g[n - 1], b[n]) ELSE g[i]]
<1>7. \A i \in 0..(n - 1) : g[i] = IF i = 0 THEN s ELSE IF b[i] = Probe THEN g[i - 1] ELSE TakeData(g[i - 1], b[i])
  BY <1>6 DEF DataRunOf
<1>8. \A i \in 0..n : h[i] = IF i = 0 THEN s ELSE IF b[i] = Probe THEN h[i - 1] ELSE TakeData(h[i - 1], b[i])
  <2> SUFFICES ASSUME NEW i \in 0..n
               PROVE  h[i] = IF i = 0 THEN s ELSE IF b[i] = Probe THEN h[i - 1] ELSE TakeData(h[i - 1], b[i])
    OBVIOUS
  <2>1. CASE i = n
    <3>1. h[n] = IF b[n] = Probe THEN g[n - 1] ELSE TakeData(g[n - 1], b[n])  BY <1>5
    <3>2. h[n - 1] = g[n - 1]  BY <1>4, <1>5
    <3> HIDE DEF h
    <3> QED BY <1>4, <2>1, <3>1, <3>2
  <2>2. CASE i # n
    <3>1. h[i] = g[i] /\ i \in 0..(n - 1)  BY <1>5, <2>2
    <3>2. i # 0 => h[i - 1] = g[i - 1]  BY <1>5, <2>2
    <3> HIDE DEF h
    <3> QED BY <1>7, <3>1, <3>2
  <2> QED BY <2>1, <2>2
<1>9. DataRunOf(h, s, b, n)
  <2> DEFINE k == [i \in 0..n |-> IF i = 0 THEN s ELSE IF b[i] = Probe THEN h[i - 1] ELSE TakeData(h[i - 1], b[i])]
  <2>1. \A i \in 0..n : h[i] = k[i]  BY <1>8
  <2>2. h = k  BY <2>1
  <2> QED BY <2>2 DEF DataRunOf
<1> QED BY <1>9

\* A property that each data packet keeps
LEMMA DataRunKeep ==
  ASSUME NEW S, NEW s \in S, NEW b, Len(b) \in Nat,
         \A i \in 1..Len(b) : \A x \in S : (IF b[i] = Probe THEN x ELSE TakeData(x, b[i])) \in S
  PROVE  AfterData(s, b) \in S
<1> DEFINE g == CHOOSE f : f = [i \in 0..Len(b) |-> IF i = 0 THEN s ELSE IF b[i] = Probe THEN f[i - 1] ELSE TakeData(f[i - 1], b[i])]
<1>1. DataRunOf(g, s, b, Len(b))
  <2>1. \E f : DataRunOf(f, s, b, Len(b))  BY DataRunExists
  <2>2. \E f : f = [i \in 0..Len(b) |-> IF i = 0 THEN s ELSE IF b[i] = Probe THEN f[i - 1] ELSE TakeData(f[i - 1], b[i])]
    BY <2>1 DEF DataRunOf
  <2>3. g = [i \in 0..Len(b) |-> IF i = 0 THEN s ELSE IF b[i] = Probe THEN g[i - 1] ELSE TakeData(g[i - 1], b[i])]
    BY <2>2, Zenon
  <2> QED BY <2>3 DEF DataRunOf
<1>2. AfterData(s, b) = g[Len(b)]  BY DEF AfterData
<1> HIDE DEF g
<1>3. \A i \in 0..Len(b) : g[i] = IF i = 0 THEN s ELSE IF b[i] = Probe THEN g[i - 1] ELSE TakeData(g[i - 1], b[i])
  BY <1>1 DEF DataRunOf
<1> DEFINE T == {n \in 0..Len(b) : g[n] \notin S}
<1>4. SUFFICES ASSUME T # {} PROVE FALSE  BY <1>2
<1>5. T \subseteq Nat  OBVIOUS
<1>6. PICK n \in T : \A y \in T : n <= y  BY <1>4, <1>5, LeastExists
<1>7. n # 0  BY <1>3
<1>8. n - 1 \in 0..Len(b) /\ n - 1 \notin T  BY <1>6, <1>7
<1>9. g[n - 1] \in S  BY <1>8
<1>10. g[n] = (IF b[n] = Probe THEN g[n - 1] ELSE TakeData(g[n - 1], b[n]))  BY <1>3, <1>7
<1> QED BY <1>7, <1>9, <1>10

-----------------------------------------------------------------------------
(* The stream and its messages *)

EndsBefore(x) == {e \in Ends : e < x}
Before(x) == Cardinality(EndsBefore(x))

\* Position x is where the message after the first k begins.
Starts(x, k) == Before(x) = k /\ (x = 1 \/ x - 1 \in Ends)

LEMMA EndsFacts ==
  /\ Ends \subseteq Positions /\ IsFiniteSet(Ends) /\ Cardinality(Ends) \in Nat
  /\ Packets \in Nat /\ Packets >= 1 /\ Packets \in Ends /\ Positions \subseteq Nat
  /\ \A x \in Positions : x >= 1 /\ x <= Packets
  /\ 1 \in Positions /\ Packets \in Positions
  /\ \A e \in Ends : e \in Nat /\ e >= 1 /\ e <= Packets
<1>1. Packets \in Nat /\ Packets >= 1  BY PacketsAssumption
<1>2. Ends \subseteq Positions /\ Packets \in Ends  BY EndsAssumption DEF Positions
<1>3. IsFiniteSet(Positions)  BY <1>1, FS_Interval DEF Positions
<1>4. IsFiniteSet(Ends)  BY <1>2, <1>3, FS_Subset
<1>5. Cardinality(Ends) \in Nat  BY <1>4, FS_CardinalityType
<1> QED BY <1>1, <1>2, <1>4, <1>5 DEF Positions

\* Sets of ends are finite; one more end is one more message.
LEMMA EndSets ==
  ASSUME NEW S, S \subseteq Ends
  PROVE  /\ IsFiniteSet(S) /\ Cardinality(S) \in 0..Cardinality(Ends)
         /\ Cardinality(S) = 0 <=> S = {}
         /\ \A e : e \notin S => Cardinality(S \union {e}) = Cardinality(S) + 1
         /\ \A e \in S : Cardinality(S \ {e}) = Cardinality(S) - 1
<1>1. IsFiniteSet(S) /\ Cardinality(S) <= Cardinality(Ends)
  BY EndsFacts, FS_Subset
<1>2. Cardinality(S) \in Nat  BY <1>1, FS_CardinalityType
<1>3. Cardinality(S) = 0 <=> S = {}  BY <1>1, FS_EmptySet
<1>4. \A e : e \notin S => Cardinality(S \union {e}) = Cardinality(S) + 1
  BY <1>1, FS_AddElement
<1>5. \A e \in S : Cardinality(S \ {e}) = Cardinality(S) - 1
  BY <1>1, FS_RemoveElement
<1> QED BY <1>1, <1>2, <1>3, <1>4, <1>5, EndsFacts

LEMMA BeforeFacts ==
  ASSUME NEW x \in Nat, NEW y \in Nat, x <= y
  PROVE  /\ Before(x) \in 0..MessageCount /\ Before(x) <= Before(y)
         /\ (\A e \in Ends : e >= x => e >= y) => Before(x) = Before(y)
         /\ \A e \in Ends : x <= e /\ e < y => Before(x) < Before(y)
<1>0. \A e \in Ends : e \in Nat  BY EndsFacts
<1>1. EndsBefore(x) \subseteq Ends /\ EndsBefore(y) \subseteq Ends
  BY DEF EndsBefore
<1>2. Before(x) \in Nat /\ Before(y) \in Nat /\ Before(x) \in 0..MessageCount
  BY <1>1, EndSets, EndsFacts DEF Before, MessageCount
<1>3. EndsBefore(x) \subseteq EndsBefore(y)  BY <1>0 DEF EndsBefore
<1>4. IsFiniteSet(EndsBefore(y))  BY <1>1, EndSets
<1>5. Before(x) <= Before(y)  BY <1>3, <1>4, FS_Subset DEF Before
<1>6. ASSUME \A e \in Ends : e >= x => e >= y PROVE Before(x) = Before(y)
  <2>1. EndsBefore(x) = EndsBefore(y)  BY <1>0, <1>6 DEF EndsBefore
  <2> QED BY <2>1 DEF Before
<1>7. ASSUME NEW e \in Ends, x <= e, e < y PROVE Before(x) < Before(y)
  <2>1. e \in EndsBefore(y) /\ e \notin EndsBefore(x)  BY <1>7, EndsFacts DEF EndsBefore
  <2>2. EndsBefore(x) # EndsBefore(y)  BY <2>1
  <2> QED BY <1>2, <1>3, <1>4, <2>2, FS_Subset DEF Before
<1> QED BY <1>2, <1>5, <1>6, <1>7

\* A message is what lies between where it starts and the next end.
LEMMA MessageSpan ==
  ASSUME NEW f \in Nat, f >= 1, NEW k, Starts(f, k), NEW e \in Ends, e >= f,
         \A g \in Ends : g >= f => g >= e
  PROVE  /\ k \in 0..(MessageCount - 1) /\ k + 1 \in 1..MessageCount
         /\ Messages[k + 1] = f..e
         /\ Starts(e + 1, k + 1)
<1>0. /\ e \in Nat /\ e >= 1 /\ e <= Packets /\ MessageCount \in Nat /\ Packets \in Nat
      /\ \A g \in Ends : g \in Nat
  BY EndsFacts DEF MessageCount
<1>1. k = Before(f) /\ (f = 1 \/ f - 1 \in Ends)  BY DEF Starts
<1>2. EndsBefore(e + 1) = EndsBefore(f) \union {e}
  <2>1. \A g \in Ends : g < e + 1 <=> g < f \/ g = e  BY <1>0
  <2> QED BY <2>1 DEF EndsBefore
<1>3. e \notin EndsBefore(f) /\ EndsBefore(f) \subseteq Ends  BY <1>0 DEF EndsBefore
<1>4. Before(e + 1) = k + 1  BY <1>1, <1>2, <1>3, EndSets DEF Before
<1>5. Before(e + 1) \in 0..MessageCount /\ k \in 0..MessageCount
  BY <1>0, <1>1, BeforeFacts
<1>6. k \in 0..(MessageCount - 1) /\ k + 1 \in 1..MessageCount  BY <1>0, <1>4, <1>5
<1>7. Messages[k + 1] = {x \in Positions : Before(x) = k}
  BY <1>0, <1>6 DEF Messages, Before, EndsBefore
<1>8. ASSUME NEW x \in Positions PROVE Before(x) = k <=> x \in f..e
  <2>0. x \in Nat  BY EndsFacts
  <2>1. CASE x < f
    <3>1. f - 1 \in Ends /\ x <= f - 1 /\ f - 1 < f  BY <1>1, <2>0, <2>1, EndsFacts
    <3>2. Before(x) < Before(f)  BY <2>0, <2>1, <3>1, BeforeFacts
    <3>3. Before(x) \in Nat  BY <2>0, <2>1, BeforeFacts
    <3> QED BY <1>1, <1>6, <2>1, <2>0, <3>2, <3>3
  <2>2. CASE f <= x /\ x <= e
    <3>1. \A g \in Ends : g >= f => g >= x  BY <1>0, <2>0, <2>2, EndsFacts
    <3>2. Before(f) = Before(x)  BY <2>0, <2>2, <3>1, BeforeFacts
    <3> QED BY <1>0, <1>1, <2>0, <2>2, <3>2
  <2>3. CASE x > e
    <3>1. e + 1 <= x  BY <1>0, <2>0, <2>3
    <3>2. Before(e + 1) <= Before(x) /\ Before(x) \in Nat
      BY <1>0, <2>0, <3>1, BeforeFacts
    <3> QED BY <1>0, <1>4, <1>6, <2>0, <2>3, <3>2
  <2> QED BY <1>0, <2>0, <2>1, <2>2, <2>3
<1>9. f..e \subseteq Positions  BY <1>0 DEF Positions
<1>10. Messages[k + 1] = f..e  BY <1>7, <1>8, <1>9
<1>11. Starts(e + 1, k + 1)  BY <1>0, <1>4 DEF Starts
<1> QED BY <1>6, <1>10, <1>11

\* There is a next message unless all have been.
LEMMA NextMessage ==
  ASSUME NEW f \in Nat, f >= 1, NEW k, Starts(f, k), k < MessageCount
  PROVE  \E e \in Ends : e >= f /\ \A g \in Ends : g >= f => g >= e
<1> DEFINE T == {e \in Ends : e >= f}
<1>1. T \subseteq Nat  BY EndsFacts
<1>2. T # {}
  <2> SUFFICES ASSUME T = {} PROVE FALSE  OBVIOUS
  <2>0. \A e \in Ends : e \in Nat  BY EndsFacts
  <2>1. EndsBefore(f) = Ends  BY <2>0 DEF EndsBefore
  <2>2. k = MessageCount  BY <2>1 DEF Starts, Before, MessageCount
  <2> QED BY <2>2, EndsFacts DEF MessageCount
<1>3. PICK e \in T : \A y \in T : e <= y  BY <1>1, <1>2, LeastExists
<1> QED BY <1>1, <1>3

-----------------------------------------------------------------------------
(* The receiver: its invariant *)

\* Complete messages in the queue, by their ends
EndsOf(r) == {e \in r.queue \cap Ends : e < r.base}

\* The queue holds packets that were sent, top being the last of those; what is before
\* the base is there without a gap, up to soFar; and no message after the one being
\* sent has begun.
Shape(r, top) ==
  /\ r \in Receivers
  /\ r.soFar # Nothing => r.soFar \in r.queue /\ r.base = r.soFar + 1
  /\ r.soFar = Nothing => \A x \in r.queue : x >= r.base
  /\ \A x \in r.queue : x <= top
  /\ r.base <= top + 1 /\ top <= r.rwndPos /\ r.rwndPos <= r.base + Window - 1
  /\ \A e \in Ends : e >= r.base => e >= top

Counts(r) == r.msgs = Cardinality(EndsOf(r)) /\ r.firstEnd = FirstEndIn(EndsOf(r))

\* No packet was linked in front of the queue, and the queue was not freed.
Clean(r) == r.spliced = {} /\ ~r.freed

\* Without gaps, the packets before the base begin with the message after the first k.
Fronts(r, k) ==
  \E f \in 1..r.base : Starts(f, k) /\ {x \in r.queue : x < r.base} = f..(r.base - 1)

\* The user has been handed h messages.
Reading(r, h) ==
  Clean(r) => /\ r.msg # {} => r.msg = Messages[h + 1]
              /\ Fronts(r, IF r.msg = {} THEN h ELSE h + 1)

\* The user's last call has returned d messages; the one under way may be served.
HandedOver(r, d, reading) == IF reading /\ ~r.called THEN d + 1 ELSE d

UserInv(r, d, reading) ==
  /\ r.called => reading
  /\ r.waiting => r.called
  /\ Clean(r) /\ reading /\ ~r.called => r.result = Messages[d + 1]
  /\ Reading(r, HandedOver(r, d, reading))

ReceiverInv(r, top, d, reading) == Shape(r, top) /\ Counts(r) /\ UserInv(r, d, reading)

LEMMA ReceiverFields ==
  ASSUME NEW r \in Receivers
  PROVE  /\ r.base \in Nat /\ r.base >= 1 /\ r.base <= Packets + 1
         /\ r.queue \subseteq Positions /\ \A x \in r.queue : x \in Nat /\ x >= 1
         /\ r.soFar \in Nat /\ r.firstEnd \in Nat /\ r.msgs \in Nat
         /\ r.msg \subseteq Positions /\ r.spliced \subseteq Positions
         /\ r.result \subseteq Positions
         /\ r.freed \in BOOLEAN /\ r.called \in BOOLEAN /\ r.waiting \in BOOLEAN
         /\ r.wild \in BOOLEAN
         /\ r.rwnd \in Nat /\ r.rwnd <= Window /\ r.rwndPos \in Nat
         /\ r.pushAck \in BOOLEAN /\ r.schedAck \in BOOLEAN
         /\ Packets \in Nat /\ Packets >= 1 /\ Window \in Nat /\ Window >= 1
<1>1. Packets \in Nat /\ Packets >= 1 /\ Window \in Nat /\ Window >= 1
      /\ Cardinality(Ends) \in Nat
  BY EndsFacts, WindowAssumption
<1>2. /\ r.base \in 1..(Packets + 1) /\ r.queue \subseteq Positions
      /\ r.soFar \in Positions \union {0} /\ r.firstEnd \in Positions \union {0}
      /\ r.msgs \in 0..Cardinality(Ends) /\ r.rwnd \in 0..Window
      /\ r.rwndPos \in 0..(Packets + Window)
  BY DEF Receivers, Nothing
<1>3. /\ r.msg \subseteq Positions /\ r.spliced \subseteq Positions
      /\ r.result \subseteq Positions
      /\ r.freed \in BOOLEAN /\ r.called \in BOOLEAN /\ r.waiting \in BOOLEAN
      /\ r.wild \in BOOLEAN /\ r.pushAck \in BOOLEAN /\ r.schedAck \in BOOLEAN
  BY DEF Receivers
<1>4. \A x \in Positions : x \in Nat /\ x >= 1  BY EndsFacts
<1> QED BY <1>1, <1>2, <1>3, <1>4

\* The fields that the invariant of the queue looks at
Alike(r, t) ==
  /\ t.base = r.base /\ t.queue = r.queue /\ t.soFar = r.soFar /\ t.firstEnd = r.firstEnd
  /\ t.msgs = r.msgs /\ t.msg = r.msg /\ t.spliced = r.spliced /\ t.freed = r.freed
  /\ t.rwndPos = r.rwndPos

LEMMA AlikeKeeps ==
  ASSUME NEW r, NEW t \in Receivers, Alike(r, t)
  PROVE  /\ \A top : Shape(r, top) => Shape(t, top)
         /\ Counts(r) => Counts(t)
         /\ \A h : Reading(r, h) => Reading(t, h)
         /\ Clean(t) <=> Clean(r)
<1>1. \A top : Shape(r, top) => Shape(t, top)  BY DEF Alike, Shape
<1>2. Counts(r) => Counts(t)  BY DEF Alike, Counts, EndsOf
<1>3. Clean(t) <=> Clean(r)  BY DEF Alike, Clean
<1>4. \A h : Reading(r, h) => Reading(t, h)
  BY <1>3 DEF Alike, Reading, Fronts
<1> QED BY <1>1, <1>2, <1>3, <1>4

\* What is not about the queue
SameUser(r, t) == t.called = r.called /\ t.waiting = r.waiting /\ t.result = r.result

LEMMA SetAckFacts ==
  ASSUME NEW r \in Receivers, NEW push, NEW t, t = SetAckInfo(r, push)
  PROVE  t \in Receivers /\ Alike(r, t) /\ SameUser(r, t) /\ t.wild = r.wild
         /\ t.rwnd = r.rwnd
BY DEF SetAckInfo, Receivers, Alike, SameUser

LEMMA AfterAckFacts ==
  ASSUME NEW r \in Receivers, NEW t, t = AfterAck(r)
  PROVE  t \in Receivers /\ Alike(r, t) /\ SameUser(r, t)
BY DEF AfterAck, Receivers, Alike, SameUser

-----------------------------------------------------------------------------
(* The receiver: messages *)

LEMMA RunEndFacts ==
  ASSUME NEW S, S \subseteq Positions, NEW x \in S, NEW e, e = RunEnd(S, x)
  PROVE  e \in S /\ e >= x /\ x..e \subseteq S /\ e + 1 \notin S
<1> DEFINE T == {n \in Nat : n >= x /\ n + 1 \notin S}
<1>0. Packets \in Nat /\ x \in Nat /\ x >= 1 /\ x <= Packets
      /\ \A y \in S : y \in Nat /\ y >= 1 /\ y <= Packets
  BY EndsFacts
<1>1. T \subseteq Nat  OBVIOUS
<1>2. Packets \in T  BY <1>0
<1>3. PICK n \in T : \A y \in T : n <= y  BY <1>1, <1>2, LeastExists
<1>4. ASSUME NEW y \in x..n PROVE y \in S
  <2>1. y \in Nat /\ x <= y /\ y <= n  BY <1>0, <1>3
  <2>2. CASE y = x  BY <2>2
  <2>3. CASE y > x
    <3>1. y - 1 \in Nat /\ y - 1 >= x /\ y - 1 < n  BY <1>0, <1>3, <2>1, <2>3
    <3>2. y - 1 \notin T  BY <1>3, <3>1
    <3>3. (y - 1) + 1 \in S  BY <3>1, <3>2
    <3> QED BY <2>1, <3>3
  <2> QED BY <1>0, <2>1, <2>2, <2>3
<1>5. n \in x..n  BY <1>0, <1>3
<1>6. n \in S /\ n >= x /\ x..n \subseteq S /\ n + 1 \notin S  BY <1>3, <1>4, <1>5
<1> QED BY <1>6, Zenon DEF RunEnd

LEMMA FirstEndFacts ==
  ASSUME NEW S, S \subseteq Positions
  PROVE  /\ S \cap Ends = {} => FirstEndIn(S) = Nothing
         /\ S \cap Ends # {} => FirstEndIn(S) \in S \cap Ends
                                /\ \A e \in S \cap Ends : FirstEndIn(S) <= e
         /\ FirstEndIn(S) \in Positions \union {Nothing}
<1>1. S \cap Ends \subseteq Nat  BY EndsFacts
<1> QED BY <1>1, LeastFacts DEF FirstEndIn

LEMMA CountFacts ==
  ASSUME NEW r \in Receivers, Counts(r)
  PROVE  /\ EndsOf(r) \subseteq Ends /\ EndsOf(r) \subseteq r.queue
         /\ r.msgs = 0 => EndsOf(r) = {} /\ r.firstEnd = Nothing
         /\ r.msgs >= 1 => /\ r.firstEnd \in EndsOf(r)
                           /\ \A e \in EndsOf(r) : r.firstEnd <= e
<1>1. EndsOf(r) \subseteq Ends /\ EndsOf(r) \subseteq r.queue /\ EndsOf(r) \subseteq Positions
  BY ReceiverFields DEF EndsOf
<1>2. r.msgs = 0 <=> EndsOf(r) = {}  BY <1>1, EndSets DEF Counts
<1>3. EndsOf(r) \cap Ends = EndsOf(r)  BY <1>1
<1>4. r.firstEnd = FirstEndIn(EndsOf(r))  BY DEF Counts
<1>5. r.msgs \in Nat  BY ReceiverFields
<1> HIDE DEF EndsOf
<1> QED BY <1>1, <1>2, <1>3, <1>4, <1>5, FirstEndFacts

\* The first message leaves the queue.
LEMMA HarvestKeeps ==
  ASSUME NEW r, NEW top \in Nat, Shape(r, top), Counts(r), r.msgs >= 1, r.msg = {},
         NEW h, Reading(r, h), NEW t, t = Harvest(r)
  PROVE  /\ Shape(t, top) /\ Counts(t) /\ Reading(t, h) /\ t.msg # {}
         /\ SameUser(r, t) /\ t.base = r.base /\ t.rwndPos = r.rwndPos
         /\ t.spliced = r.spliced /\ t.freed = r.freed
<1> DEFINE e == r.firstEnd
           rest == {x \in r.queue : x > e}
           next == NextEnd(r, rest)
           so == IF r.soFar = e THEN Nothing ELSE r.soFar
<1>1. r \in Receivers  BY DEF Shape
<1>2. /\ EndsOf(r) \subseteq Ends /\ EndsOf(r) \subseteq r.queue
      /\ e \in EndsOf(r) /\ \A d \in EndsOf(r) : e <= d
  BY <1>1, CountFacts
<1>3. e \in r.queue /\ e \in Ends /\ e \in Nat /\ e >= 1 /\ e < r.base
  BY <1>2, EndsFacts DEF EndsOf
<1>4. /\ r.base \in Nat /\ r.queue \subseteq Positions /\ \A x \in r.queue : x \in Nat
      /\ r.msgs \in Nat /\ r.soFar \in Nat
  BY <1>1, ReceiverFields
<1>5. rest \subseteq r.queue /\ rest \subseteq Positions /\ e \notin rest
  BY <1>3, <1>4
<1>6. t = [r EXCEPT !.msg = r.queue \ rest, !.queue = rest, !.behind = rest # {},
                    !.msgs = r.msgs - 1, !.firstEnd = next, !.soFar = so]
  BY DEF Harvest
\* What remains
<1>7. {x \in rest \cap Ends : x < r.base} = EndsOf(r) \ {e}
  <2>1. \A x \in EndsOf(r) : x > e <=> x # e
    <3> SUFFICES ASSUME NEW x \in EndsOf(r) PROVE x > e <=> x # e  OBVIOUS
    <3>1. x \in Nat /\ e <= x  BY <1>2, <1>4
    <3> QED BY <1>3, <3>1
  <2> QED BY <2>1 DEF EndsOf
<1>8. Cardinality(EndsOf(r) \ {e}) = r.msgs - 1  BY <1>2, EndSets DEF Counts
<1>9. next = FirstEndIn(EndsOf(r) \ {e})
  <2>1. CASE r.msgs - 1 < 1
    <3>1. Cardinality(EndsOf(r) \ {e}) = 0  BY <1>4, <1>8, <2>1
    <3>2. EndsOf(r) \ {e} \subseteq Ends  BY <1>2
    <3>3. EndsOf(r) \ {e} = {}  BY <3>1, <3>2, EndSets
    <3>4. (EndsOf(r) \ {e}) \cap Ends = {} /\ EndsOf(r) \ {e} \subseteq Positions
      BY <3>3
    <3>5. FirstEndIn(EndsOf(r) \ {e}) = Nothing  BY <3>4, FirstEndFacts
    <3>6. next = Nothing  BY <2>1 DEF NextEnd
    <3> QED BY <3>5, <3>6
  <2>2. CASE ~(r.msgs - 1 < 1)
    <3> DEFINE M == EndsOf(r) \ {e}
               k == Least(M)
    <3>1. M \subseteq Ends /\ M \subseteq Nat  BY <1>2, EndsFacts
    <3>2. M # {}
      <4>1. Cardinality(M) # 0  BY <1>4, <1>8, <2>2
      <4> HIDE DEF M
      <4> QED BY <3>1, <4>1, EndSets
    <3>3. k \in M /\ \A x \in M : k <= x  BY <3>1, <3>2, LeastFacts
    <3>4. k \in rest \cap Ends /\ k < r.base /\ k \in Nat  BY <1>7, <3>1, <3>3
    <3>5. \A x \in rest \cap Ends : k <= x
      <4> SUFFICES ASSUME NEW x \in rest \cap Ends PROVE k <= x  OBVIOUS
      <4>1. x \in Nat  BY <1>4
      <4>2. CASE x < r.base  BY <1>7, <3>3, <4>2
      <4>3. CASE x >= r.base  BY <1>4, <3>4, <4>1, <4>3
      <4> QED BY <1>4, <4>1, <4>2, <4>3
    <3>6. rest \cap Ends \subseteq Nat  BY <1>4
    <3> HIDE DEF k
    <3>7. Least(rest \cap Ends) = k  BY <3>4, <3>5, <3>6, LeastIs
    <3>8. next = Least(rest \cap Ends)
      BY <2>2, <3>4 DEF NextEnd, FirstEndIn
    <3>9. M \cap Ends = M  BY <3>1
    <3>10. FirstEndIn(M) = k  BY <3>2, <3>9 DEF FirstEndIn, k
    <3> QED BY <3>7, <3>8, <3>10
  <2> QED BY <2>1, <2>2
<1>10. next \in Positions \union {Nothing}
  <2>1. EndsOf(r) \ {e} \subseteq Positions  BY <1>2, <1>4
  <2> QED BY <1>9, <2>1, FirstEndFacts
\* The cursor
<1>11. /\ so \in Positions \union {Nothing}
       /\ so # Nothing => so \in rest /\ r.base = so + 1
       /\ so = Nothing => \A x \in rest : x >= r.base
  <2>1. r.soFar # Nothing
    BY <1>3, <1>4 DEF Shape
  <2>2. r.soFar \in r.queue /\ r.base = r.soFar + 1  BY <2>1 DEF Shape
  <2>3. CASE r.soFar = e
    <3>1. \A x \in rest : x >= r.base  BY <1>3, <1>4, <2>2, <2>3
    <3> QED BY <2>3, <3>1
  <2>4. CASE r.soFar # e
    <3>1. r.soFar > e  BY <1>3, <1>4, <2>2, <2>4
    <3>2. so = r.soFar /\ so \in rest /\ so # Nothing  BY <2>1, <2>2, <2>4, <3>1
    <3> QED BY <1>5, <2>2, <3>2
  <2> QED BY <2>3, <2>4
<1> DEFINE m == r.queue \ rest
           r1 == [r EXCEPT !.msg = m, !.queue = rest, !.behind = rest # {}]
<1>12. m \subseteq Positions /\ m # {} /\ e \in m /\ m = {x \in r.queue : x <= e}
  BY <1>3, <1>4, <1>5
<1>13. r.msgs - 1 \in 0..Cardinality(Ends)  BY <1>1, EndsFacts DEF Receivers
<1>13a. t = [r1 EXCEPT !.msgs = r.msgs - 1, !.firstEnd = next, !.soFar = so]
  BY <1>1, <1>6 DEF Receivers
<1>14. t \in Receivers
  <2> HIDE DEF rest, next, so, m
  <2>1. r1 \in Receivers  BY <1>1, <1>5, <1>12 DEF Receivers
  <2> HIDE DEF r1
  <2> QED BY <2>1, <1>10, <1>11, <1>13, <1>13a, ZenonT(30) DEF Receivers
<1>15. /\ t.queue = rest /\ t.msg = m /\ t.msgs = r.msgs - 1 /\ t.firstEnd = next
       /\ t.soFar = so /\ t.base = r.base /\ t.rwndPos = r.rwndPos
       /\ t.spliced = r.spliced /\ t.freed = r.freed /\ t.called = r.called
       /\ t.waiting = r.waiting /\ t.result = r.result
  <2> HIDE DEF rest, next, so, m
  <2> QED BY <1>1, <1>6 DEF Receivers, m
<1>16. EndsOf(t) = EndsOf(r) \ {e}  BY <1>7, <1>15 DEF EndsOf
<1>17. Counts(t)
  <2> HIDE DEF next
  <2> QED BY <1>8, <1>9, <1>15, <1>16 DEF Counts
<1>18. Shape(t, top)
  <2>1. \A x \in rest : x <= top  BY <1>5 DEF Shape
  <2> HIDE DEF so, rest
  <2> QED BY <1>11, <1>14, <1>15, <2>1 DEF Shape
<1>19. Reading(t, h)
  <2> SUFFICES ASSUME Clean(t)
               PROVE  t.msg = Messages[h + 1] /\ Fronts(t, h + 1)
    BY <1>12, <1>15 DEF Reading
  <2>1. Clean(r)  BY <1>15 DEF Clean
  <2>2. PICK f \in 1..r.base : Starts(f, h) /\ {x \in r.queue : x < r.base} = f..(r.base - 1)
    BY <2>1 DEF Reading, Fronts
  <2>3. f \in Nat /\ f >= 1  OBVIOUS
  <2>4. e \in f..(r.base - 1)  BY <1>3, <2>2
  <2>5. e >= f /\ \A g \in Ends : g >= f => g >= e
    <3>1. e >= f  BY <1>3, <2>3, <2>4
    <3>2. ASSUME NEW g \in Ends, g >= f PROVE g >= e
      <4>1. g \in Nat  BY EndsFacts
      <4>2. CASE g < r.base
        <5>1. g \in f..(r.base - 1)  BY <1>4, <2>3, <3>2, <4>1, <4>2
        <5>2. g \in EndsOf(r)  BY <2>2, <4>2, <5>1 DEF EndsOf
        <5> QED BY <1>2, <1>3, <4>1, <5>2
      <4> QED BY <1>3, <1>4, <4>1, <4>2
    <3> QED BY <3>1, <3>2
  <2>6. Messages[h + 1] = f..e /\ Starts(e + 1, h + 1)
    BY <1>3, <2>2, <2>3, <2>5, MessageSpan
  <2>7. m = f..e
    <3>1. \A x \in r.queue : x <= e => x \in f..e
      <4> SUFFICES ASSUME NEW x \in r.queue, x <= e PROVE x \in f..e  OBVIOUS
      <4>1. x \in Nat /\ x < r.base  BY <1>3, <1>4
      <4>2. x \in f..(r.base - 1)  BY <2>2, <4>1
      <4> QED BY <1>3, <2>3, <4>1, <4>2
    <3>2. \A x \in f..e : x \in r.queue /\ x <= e
      <4> SUFFICES ASSUME NEW x \in f..e PROVE x \in r.queue /\ x <= e  OBVIOUS
      <4>1. x \in f..(r.base - 1) /\ x <= e  BY <1>3, <1>4, <2>3
      <4> QED BY <2>2, <4>1
    <3> QED BY <1>12, <3>1, <3>2
  <2>8. {x \in rest : x < r.base} = (e + 1)..(r.base - 1)
    <3>1. ASSUME NEW x PROVE x \in rest /\ x < r.base <=> x \in (e + 1)..(r.base - 1)
      <4>1. ASSUME x \in rest, x < r.base PROVE x \in (e + 1)..(r.base - 1)
        BY <1>3, <1>4, <1>5, <4>1
      <4>2. ASSUME x \in (e + 1)..(r.base - 1) PROVE x \in rest /\ x < r.base
        <5>1. x \in f..(r.base - 1) /\ x < r.base /\ x > e
          BY <1>3, <1>4, <2>3, <2>5, <4>2
        <5> QED BY <2>2, <5>1
      <4> QED BY <4>1, <4>2
    <3> HIDE DEF rest
    <3> QED BY <3>1
  <2>9. e + 1 \in 1..t.base  BY <1>3, <1>4, <1>15
  <2> HIDE DEF m, rest, e
  <2> QED BY <1>15, <2>6, <2>7, <2>8, <2>9 DEF Fronts
<1>20. t.msg # {}  BY <1>12, <1>15
<1> QED BY <1>14, <1>15, <1>17, <1>18, <1>19, <1>20 DEF SameUser

\* The user is handed the message at hand, and the next one takes its place.
LEMMA HandOverKeeps ==
  ASSUME NEW r, NEW top \in Nat, Shape(r, top), Counts(r), r.msg # {},
         NEW h, Reading(r, h), NEW t, t = HandOver(r)
  PROVE  /\ Shape(t, top) /\ Counts(t) /\ Reading(t, h + 1)
         /\ t.called = r.called /\ t.waiting = r.waiting /\ t.base = r.base
         /\ t.rwndPos = r.rwndPos
         /\ Clean(t) => Clean(r) /\ t.result = Messages[h + 1]
<1> DEFINE joined == r.spliced # {}
           all == r.msg \union r.spliced \union (IF joined THEN r.queue ELSE {})
           u == [r EXCEPT !.result = all, !.msg = {}, !.spliced = {},
                          !.freed = r.freed \/ joined]
           v == IF u.msgs >= 1 THEN Harvest(u) ELSE u
<1>1. r \in Receivers  BY DEF Shape
<1>2. all \subseteq Positions /\ (r.freed \/ joined) \in BOOLEAN
  BY <1>1, ReceiverFields
<1>3. /\ u \in Receivers /\ u.base = r.base /\ u.queue = r.queue /\ u.soFar = r.soFar
      /\ u.firstEnd = r.firstEnd /\ u.msgs = r.msgs /\ u.msg = {} /\ u.spliced = {}
      /\ u.freed = (r.freed \/ joined) /\ u.rwndPos = r.rwndPos /\ u.result = all
      /\ u.called = r.called /\ u.waiting = r.waiting
  <2> HIDE DEF all, joined
  <2> QED BY <1>1, <1>2 DEF Receivers
<1>4. t = SetAckInfo(v, TRUE)
  BY <1>1, <1>3 DEF HandOver
<1> HIDE DEF u
<1>5. Shape(u, top)  BY <1>3 DEF Shape
<1>6. Counts(u)  BY <1>3 DEF Counts, EndsOf
<1>7. Clean(u) => Clean(r) /\ u.result = Messages[h + 1]
  <2> SUFFICES ASSUME Clean(u) PROVE Clean(r) /\ u.result = Messages[h + 1]  OBVIOUS
  <2>1. Clean(r)  BY <1>3 DEF Clean
  <2>2. all = r.msg  BY <2>1 DEF Clean
  <2>3. r.msg = Messages[h + 1]  BY <2>1 DEF Reading
  <2> QED BY <1>3, <2>1, <2>2, <2>3
<1>8. Reading(u, h + 1)
  BY <1>3, <1>7 DEF Reading, Fronts
<1>9. /\ Shape(v, top) /\ Counts(v) /\ Reading(v, h + 1) /\ SameUser(u, v)
      /\ v.base = u.base /\ v.rwndPos = u.rwndPos /\ (Clean(v) => Clean(u))
  <2>1. CASE u.msgs >= 1
    <3>1. v = Harvest(u)  BY <2>1
    <3> HIDE DEF v
    <3>2. /\ Shape(v, top) /\ Counts(v) /\ Reading(v, h + 1) /\ SameUser(u, v)
          /\ v.base = u.base /\ v.rwndPos = u.rwndPos /\ v.spliced = u.spliced
          /\ v.freed = u.freed
      BY <1>3, <1>5, <1>6, <1>8, <2>1, <3>1, HarvestKeeps
    <3> QED BY <3>2 DEF Clean
  <2>2. CASE ~(u.msgs >= 1)
    <3>1. v = u  BY <2>2
    <3> HIDE DEF v
    <3> QED BY <1>5, <1>6, <1>8, <3>1 DEF SameUser
  <2> QED BY <2>1, <2>2
<1> HIDE DEF v
<1>10. v \in Receivers  BY <1>9 DEF Shape
<1>11. t \in Receivers /\ Alike(v, t) /\ SameUser(v, t)  BY <1>4, <1>10, SetAckFacts
<1>12. Shape(t, top) /\ Counts(t) /\ Reading(t, h + 1) /\ (Clean(t) <=> Clean(v))
  BY <1>9, <1>11, AlikeKeeps
<1>13. t.called = r.called /\ t.waiting = r.waiting /\ t.base = r.base
       /\ t.rwndPos = r.rwndPos /\ t.result = u.result
  BY <1>3, <1>9, <1>11 DEF Alike, SameUser
<1> QED BY <1>7, <1>9, <1>12, <1>13

\* What each operation of the receiver does with its invariant
Receives(r, t) ==
  t.base >= r.base /\ t.rwndPos = r.rwndPos /\ (Clean(t) => Clean(r))

LEMMA EndReceiveKeeps ==
  ASSUME NEW r, NEW top \in Nat, NEW d, NEW reading, ReceiverInv(r, top, d, reading),
         r.msg # {}, d \in Nat, NEW t, t = EndReceive(r)
  PROVE  ReceiverInv(t, top, d, reading) /\ Receives(r, t)
<1>1. r \in Receivers /\ r.base \in Nat  BY ReceiverFields DEF ReceiverInv, UserInv, Shape
<1>2. CASE ~r.waiting
  <2>1. t = r  BY <1>2 DEF EndReceive
  <2> QED BY <1>1, <2>1 DEF Receives
<1>3. CASE r.waiting
  <2> DEFINE u == [r EXCEPT !.waiting = FALSE, !.called = FALSE]
  <2>1. t = HandOver(u)  BY <1>3 DEF EndReceive
  <2>2. /\ u \in Receivers /\ Alike(r, u) /\ u.called = FALSE /\ u.waiting = FALSE
        /\ u.msg = r.msg
    BY <1>1 DEF Receivers, Alike
  <2> HIDE DEF u
  <2>3. r.called /\ reading /\ HandedOver(r, d, reading) = d
    BY <1>3 DEF ReceiverInv, UserInv, HandedOver
  <2>4. Shape(u, top) /\ Counts(u) /\ Reading(u, d) /\ (Clean(u) <=> Clean(r))
    BY <2>2, <2>3, AlikeKeeps DEF ReceiverInv, UserInv
  <2>5. /\ Shape(t, top) /\ Counts(t) /\ Reading(t, d + 1)
        /\ t.called = u.called /\ t.waiting = u.waiting /\ t.base = u.base
        /\ t.rwndPos = u.rwndPos
        /\ Clean(t) => Clean(u) /\ t.result = Messages[d + 1]
    BY <2>1, <2>2, <2>4, HandOverKeeps
  <2>6. HandedOver(t, d, reading) = d + 1
    BY <2>2, <2>3, <2>5 DEF HandedOver
  <2>7. ReceiverInv(t, top, d, reading)
    BY <2>2, <2>5, <2>6 DEF ReceiverInv, UserInv
  <2> QED BY <1>1, <2>2, <2>4, <2>5, <2>7 DEF Receives, Alike
<1> QED BY <1>2, <1>3

LEMMA HandleReceiveKeeps ==
  ASSUME NEW r, NEW top \in Nat, NEW d, NEW reading, ReceiverInv(r, top, d, reading),
         d \in Nat, NEW t, t = HandleReceive(r)
  PROVE  ReceiverInv(t, top, d, reading) /\ Receives(r, t)
<1>1. r \in Receivers /\ r.base \in Nat  BY ReceiverFields DEF ReceiverInv, UserInv, Shape
<1>2. CASE ~r.called \/ r.waiting
  <2>1. t = r  BY <1>2 DEF HandleReceive
  <2> QED BY <1>1, <2>1 DEF Receives
<1>3. CASE ~(~r.called \/ r.waiting)
  <2>0. r.called /\ ~r.waiting /\ reading /\ HandedOver(r, d, reading) = d
    BY <1>3 DEF ReceiverInv, UserInv, HandedOver
  <2>1. CASE r.msg # {}
    <3> DEFINE u == [r EXCEPT !.called = FALSE]
    <3>1. t = HandOver(u)  BY <1>3, <2>1 DEF HandleReceive
    <3>2. /\ u \in Receivers /\ Alike(r, u) /\ u.called = FALSE /\ u.waiting = r.waiting
          /\ u.msg = r.msg
      BY <1>1 DEF Receivers, Alike
    <3> HIDE DEF u
    <3>3. Shape(u, top) /\ Counts(u) /\ Reading(u, d) /\ (Clean(u) <=> Clean(r))
      BY <2>0, <3>2, AlikeKeeps DEF ReceiverInv, UserInv
    <3>4. /\ Shape(t, top) /\ Counts(t) /\ Reading(t, d + 1)
          /\ t.called = u.called /\ t.waiting = u.waiting /\ t.base = u.base
          /\ t.rwndPos = u.rwndPos
          /\ Clean(t) => Clean(u) /\ t.result = Messages[d + 1]
      BY <2>1, <3>1, <3>2, <3>3, HandOverKeeps
    <3>5. HandedOver(t, d, reading) = d + 1
      BY <2>0, <3>2, <3>4 DEF HandedOver
    <3>6. ReceiverInv(t, top, d, reading)
      BY <2>0, <3>2, <3>4, <3>5 DEF ReceiverInv, UserInv
    <3> QED BY <1>1, <3>2, <3>3, <3>4, <3>6 DEF Receives, Alike
  <2>2. CASE r.msg = {}
    <3>1. t = [r EXCEPT !.waiting = TRUE]  BY <1>3, <2>2 DEF HandleReceive
    <3>2. /\ t \in Receivers /\ Alike(r, t) /\ t.called = r.called /\ t.waiting = TRUE
      BY <1>1, <3>1 DEF Receivers, Alike
    <3>3. Shape(t, top) /\ Counts(t) /\ Reading(t, d) /\ (Clean(t) <=> Clean(r))
      BY <2>0, <3>2, AlikeKeeps DEF ReceiverInv, UserInv
    <3>4. HandedOver(t, d, reading) = d  BY <2>0, <3>2 DEF HandedOver
    <3>5. ReceiverInv(t, top, d, reading)
      BY <2>0, <3>2, <3>3, <3>4 DEF ReceiverInv, UserInv
    <3> QED BY <1>1, <3>2, <3>3, <3>5 DEF Receives, Alike
  <2> QED BY <2>1, <2>2
<1> QED BY <1>2, <1>3

\* A run that has grown may have completed a message, which its last packet tells.
LEMMA CheckSoFarKeeps ==
  ASSUME NEW r, NEW top \in Nat, Shape(r, top), r.soFar # Nothing,
         r.msgs = Cardinality(EndsOf(r) \ {r.soFar}),
         r.firstEnd = FirstEndIn(EndsOf(r) \ {r.soFar}),
         NEW d \in Nat, NEW reading, UserInv(r, d, reading), NEW t, t = CheckSoFar(r)
  PROVE  ReceiverInv(t, top, d, reading) /\ Receives(r, t)
<1>1. r \in Receivers  BY DEF Shape
<1>2. /\ r.base \in Nat /\ r.queue \subseteq Positions /\ r.soFar \in Nat
      /\ r.soFar \in r.queue /\ r.base = r.soFar + 1 /\ r.msgs \in Nat
      /\ EndsOf(r) \subseteq Ends
  BY <1>1, ReceiverFields DEF Shape, EndsOf
<1>3. CASE r.soFar \notin Ends
  <2>1. t = r  BY <1>3 DEF CheckSoFar
  <2>2. EndsOf(r) \ {r.soFar} = EndsOf(r)  BY <1>2, <1>3
  <2> QED BY <1>2, <2>1, <2>2 DEF ReceiverInv, Counts, Receives
<1>4. CASE r.soFar \in Ends
  <2> DEFINE M == EndsOf(r) \ {r.soFar}
             first == IF r.msgs = 0 THEN r.soFar ELSE r.firstEnd
             u == [r EXCEPT !.msgs = r.msgs + 1, !.firstEnd = first]
             v == Harvest(u)
  <2>1. t = IF u.msg = {} THEN EndReceive(v) ELSE u
    BY <1>4 DEF CheckSoFar
  <2>2. r.soFar \in EndsOf(r)  BY <1>2, <1>4 DEF EndsOf
  <2>3. M \subseteq Ends /\ M \union {r.soFar} = EndsOf(r) /\ r.soFar \notin M
    BY <1>2, <2>2
  <2>4. Cardinality(EndsOf(r)) = r.msgs + 1 /\ (r.msgs = 0 <=> M = {})
        /\ r.msgs + 1 \in 0..Cardinality(Ends)
    <3>1. Cardinality(M \union {r.soFar}) = Cardinality(M) + 1
      <4> HIDE DEF M
      <4> QED BY <2>3, EndSets
    <3>2. r.msgs = 0 <=> M = {}
      <4>1. r.msgs = Cardinality(M)  OBVIOUS
      <4> HIDE DEF M
      <4> QED BY <2>3, <4>1, EndSets
    <3>3. Cardinality(EndsOf(r)) \in 0..Cardinality(Ends)  BY <1>2, EndSets
    <3> QED BY <2>3, <3>1, <3>2, <3>3
  <2>5. first = FirstEndIn(EndsOf(r))
    <3>1. EndsOf(r) \cap Ends = EndsOf(r) /\ EndsOf(r) # {} /\ EndsOf(r) \subseteq Nat
      BY <1>2, <2>2, EndsFacts
    <3>2. FirstEndIn(EndsOf(r)) = Least(EndsOf(r))  BY <3>1 DEF FirstEndIn
    <3>3. first \in EndsOf(r) /\ \A x \in EndsOf(r) : first <= x
      <4>1. CASE r.msgs = 0
        <5>1. EndsOf(r) = {r.soFar}  BY <2>3, <2>4, <4>1
        <5> QED BY <1>2, <4>1, <5>1
      <4>2. CASE r.msgs # 0
        <5>1. M \cap Ends = M /\ M # {} /\ M \subseteq Positions
          BY <2>3, <2>4, <4>2, EndsFacts
        <5>2. r.firstEnd \in M /\ \A x \in M : r.firstEnd <= x
          <6>1. r.firstEnd = FirstEndIn(M)  OBVIOUS
          <6> HIDE DEF M
          <6> QED BY <5>1, <6>1, FirstEndFacts
        <5>3. r.firstEnd <= r.soFar
          <6>1. r.firstEnd < r.base /\ r.firstEnd \in Nat
            BY <1>2, <5>2, EndsFacts DEF EndsOf
          <6> QED BY <1>2, <6>1
        <5> QED BY <2>3, <4>2, <5>2, <5>3
      <4> QED BY <4>1, <4>2
    <3> HIDE DEF first
    <3> QED BY <3>1, <3>2, <3>3, LeastIs
  <2>6. first \in Positions \union {Nothing}
    <3>1. EndsOf(r) \subseteq Positions  BY <1>2, EndsFacts
    <3> QED BY <2>5, <3>1, FirstEndFacts
  <2> HIDE DEF first
  <2>7. /\ u \in Receivers /\ u.base = r.base /\ u.queue = r.queue /\ u.soFar = r.soFar
        /\ u.firstEnd = first /\ u.msgs = r.msgs + 1 /\ u.msg = r.msg
        /\ u.spliced = r.spliced /\ u.freed = r.freed /\ u.rwndPos = r.rwndPos
        /\ SameUser(r, u)
    BY <1>1, <2>4, <2>6 DEF Receivers, SameUser
  <2> HIDE DEF u
  <2>8. Shape(u, top)  BY <2>7 DEF Shape
  <2>9. Counts(u)  BY <2>4, <2>5, <2>7 DEF Counts, EndsOf
  <2>10. Clean(u) <=> Clean(r)  BY <2>7 DEF Clean
  <2>11. UserInv(u, d, reading)
    <3>1. HandedOver(u, d, reading) = HandedOver(r, d, reading)
      BY <2>7 DEF HandedOver, SameUser
    <3>2. Reading(u, HandedOver(r, d, reading))
      BY <2>7, <2>10 DEF UserInv, Reading, Fronts
    <3> QED BY <2>7, <2>10, <3>1, <3>2 DEF UserInv, SameUser
  <2>12. CASE u.msg = {}
    <3>1. t = EndReceive(v) /\ v = Harvest(u)  BY <2>1, <2>12
    <3> HIDE DEF v
    <3>2. u.msgs >= 1  BY <1>2, <2>7
    <3>3. Reading(u, HandedOver(u, d, reading))  BY <2>11 DEF UserInv
    <3>4. /\ Shape(v, top) /\ Counts(v) /\ Reading(v, HandedOver(u, d, reading))
          /\ v.msg # {} /\ SameUser(u, v) /\ v.base = u.base /\ v.rwndPos = u.rwndPos
          /\ v.spliced = u.spliced /\ v.freed = u.freed
      BY <2>8, <2>9, <2>12, <3>1, <3>2, <3>3, HarvestKeeps
    <3>5. HandedOver(v, d, reading) = HandedOver(u, d, reading)
      BY <3>4 DEF HandedOver, SameUser
    <3>6. ReceiverInv(v, top, d, reading)
      BY <2>11, <3>4, <3>5 DEF ReceiverInv, UserInv, SameUser, Clean
    <3>7. ReceiverInv(t, top, d, reading) /\ Receives(v, t)
      BY <3>1, <3>4, <3>6, EndReceiveKeeps
    <3> QED BY <2>7, <2>10, <3>4, <3>7 DEF Receives, Clean
  <2>13. CASE u.msg # {}
    <3>1. t = u  BY <2>1, <2>13
    <3> QED BY <1>2, <2>7, <2>8, <2>9, <2>10, <2>11, <3>1 DEF Receives, ReceiverInv
  <2> QED BY <2>12, <2>13
<1> QED BY <1>3, <1>4

-----------------------------------------------------------------------------
(* The receiver: data packets *)

\* The base moves to the end of the run of packets; only the last of them may end a
\* message, as no packet behind that one has been sent.
LEMMA AdvanceKeeps ==
  ASSUME NEW r, NEW top \in Nat, NEW d \in Nat, NEW reading, ReceiverInv(r, top, d, reading),
         r.soFar = Nothing => r.base \in r.queue, NEW t, t = Advance(r)
  PROVE  ReceiverInv(t, top, d, reading) /\ Receives(r, t)
<1> DEFINE from == IF r.soFar = Nothing THEN r.base ELSE r.soFar
           to == RunEnd(r.queue, from)
           u == [r EXCEPT !.soFar = to, !.base = to + 1]
<1>1. r \in Receivers /\ Shape(r, top)  BY DEF ReceiverInv, Shape
<1>2. /\ r.base \in Nat /\ r.base >= 1 /\ r.queue \subseteq Positions /\ r.soFar \in Nat
      /\ \A x \in r.queue : x \in Nat /\ x >= 1 /\ x <= top
      /\ Packets \in Nat /\ Window \in Nat /\ r.rwndPos \in Nat
  BY <1>1, ReceiverFields DEF Shape
<1>3. from \in r.queue /\ from \in Nat /\ r.base <= from + 1 /\ from <= r.base
      /\ (r.soFar # Nothing => r.base = from + 1)
  BY <1>1, <1>2 DEF Shape
<1>4. /\ to \in r.queue /\ to >= from /\ from..to \subseteq r.queue /\ to + 1 \notin r.queue
      /\ to \in Nat /\ to <= top /\ to >= 1 /\ to <= Packets
  <2> HIDE DEF from
  <2>1. to \in r.queue /\ to >= from /\ from..to \subseteq r.queue /\ to + 1 \notin r.queue
    <3>0. to = RunEnd(r.queue, from)  OBVIOUS
    <3> HIDE DEF to
    <3> QED BY <3>0, <1>2, <1>3, RunEndFacts
  <2> HIDE DEF to
  <2>2. to \in Positions  BY <1>2, <2>1
  <2> QED BY <1>2, <2>1, <2>2, EndsFacts
<1>5. t = IF to = r.soFar THEN u ELSE CheckSoFar(u)
  BY DEF Advance
<1> HIDE DEF from, to
<1>6. /\ u \in Receivers /\ u.base = to + 1 /\ u.queue = r.queue /\ u.soFar = to
      /\ u.firstEnd = r.firstEnd /\ u.msgs = r.msgs /\ u.msg = r.msg
      /\ u.spliced = r.spliced /\ u.freed = r.freed /\ u.rwndPos = r.rwndPos
      /\ SameUser(r, u)
  <2>1. to + 1 \in 1..(Packets + 1) /\ to \in Positions \union {Nothing}
    BY <1>2, <1>4
  <2> QED BY <1>1, <2>1 DEF Receivers, SameUser
<1> HIDE DEF u
<1>7. r.base <= to + 1  BY <1>2, <1>3, <1>4
<1>8. Shape(u, top)
  <2>1. u.soFar # Nothing => u.soFar \in u.queue /\ u.base = u.soFar + 1
    BY <1>4, <1>6
  <2>2. u.soFar # Nothing  BY <1>4, <1>6 DEF Nothing
  <2>3. u.base <= top + 1 /\ u.rwndPos <= u.base + Window - 1
    BY <1>1, <1>2, <1>4, <1>6, <1>7 DEF Shape
  <2>4. \A e \in Ends : e >= u.base => e >= top
    <3> SUFFICES ASSUME NEW e \in Ends, e >= u.base PROVE e >= top  OBVIOUS
    <3>1. e >= r.base  BY <1>2, <1>4, <1>6, <1>7, EndsFacts
    <3> QED BY <1>1, <3>1 DEF Shape
  <2>5. top <= u.rwndPos /\ \A x \in u.queue : x <= top  BY <1>1, <1>6 DEF Shape
  <2> QED BY <1>6, <2>1, <2>2, <2>3, <2>4, <2>5 DEF Shape
<1>9. Clean(u) <=> Clean(r)  BY <1>6 DEF Clean
<1>10. UserInv(u, d, reading)
  <2> DEFINE h == HandedOver(r, d, reading)
             k == IF r.msg = {} THEN h ELSE h + 1
  <2>1. HandedOver(u, d, reading) = h
    BY <1>6 DEF HandedOver, SameUser
  <2> HIDE DEF h
  <2>2. Reading(r, h)  BY DEF ReceiverInv, UserInv, h
  <2>3. ASSUME Clean(u) PROVE Fronts(u, k)
    <3>1. Fronts(r, k)  BY <1>9, <2>2, <2>3 DEF Reading
    <3>2. PICK f \in 1..r.base : Starts(f, k)
                                 /\ {x \in r.queue : x < r.base} = f..(r.base - 1)
      BY <3>1 DEF Fronts
    <3>3. ASSUME NEW x PROVE x \in r.queue /\ x < to + 1 <=> x \in f..to
      <4>1. ASSUME x \in r.queue, x < to + 1 PROVE x \in f..to
        <5>1. x \in Nat  BY <1>2, <4>1
        <5>2. CASE x < r.base
          <6>1. x \in f..(r.base - 1)  BY <3>2, <4>1, <5>2
          <6> QED BY <1>2, <1>4, <4>1, <6>1
        <5>3. CASE x >= r.base  BY <1>2, <1>4, <4>1, <5>1, <5>3
        <5> QED BY <1>2, <5>1, <5>2, <5>3
      <4>2. ASSUME x \in f..to PROVE x \in r.queue /\ x < to + 1
        <5>1. x \in Nat /\ x <= to /\ f <= x  BY <1>2, <1>4, <4>2
        <5>2. CASE x < r.base
          <6>1. x \in f..(r.base - 1)  BY <1>2, <5>1, <5>2
          <6> QED BY <1>4, <3>2, <5>1, <6>1
        <5>3. CASE x >= r.base
          <6>1. x \in from..to  BY <1>2, <1>3, <1>4, <5>1, <5>3
          <6> QED BY <1>4, <5>1, <6>1
        <5> QED BY <1>2, <5>1, <5>2, <5>3
      <4> QED BY <4>1, <4>2
    <3>4. {x \in u.queue : x < u.base} = f..(u.base - 1)
      <4>1. (to + 1) - 1 = to  BY <1>4
      <4> QED BY <1>6, <3>3, <4>1
    <3>5. f \in 1..u.base  BY <1>2, <1>4, <1>6, <1>7
    <3> QED BY <3>2, <3>4, <3>5 DEF Fronts
  <2>4. Reading(u, h)  BY <1>6, <1>9, <2>2, <2>3 DEF Reading
  <2> QED BY <1>6, <1>9, <2>1, <2>4 DEF ReceiverInv, UserInv, SameUser
<1>11. EndsOf(u) \ {to} = EndsOf(r) \ {to}
  <2>1. ASSUME NEW e \in r.queue \cap Ends, e # to PROVE e < to + 1 <=> e < r.base
    <3>0. e \in Nat /\ e <= top  BY <1>2
    <3>1. ASSUME e >= r.base, e < to + 1 PROVE FALSE
      <4>1. e >= top  BY <1>1, <3>1 DEF Shape
      <4> QED BY <1>4, <2>1, <3>0, <3>1, <4>1
    <3> QED BY <1>2, <1>4, <1>7, <3>0, <3>1
  <2> QED BY <1>6, <2>1 DEF EndsOf
<1>12. Receives(r, u)  BY <1>6, <1>7, <1>9 DEF Receives
<1>13. CASE to = r.soFar
  <2>1. r.base = to + 1  BY <1>1, <1>4, <1>13 DEF Shape, Nothing
  <2>2. Counts(u)  BY <1>6, <2>1 DEF ReceiverInv, Counts, EndsOf
  <2> QED BY <1>5, <1>8, <1>10, <1>12, <1>13, <2>2 DEF ReceiverInv
<1>14. CASE to # r.soFar
  <2>1. to \notin EndsOf(r)
    <3>1. CASE r.soFar = Nothing
      BY <1>2, <1>3, <1>4, <3>1 DEF EndsOf, from
    <3>2. CASE r.soFar # Nothing
      <4>1. to >= r.base  BY <1>2, <1>3, <1>4, <1>14, <3>2 DEF from
      <4> QED BY <1>2, <1>4, <4>1 DEF EndsOf
    <3> QED BY <3>1, <3>2
  <2>2. EndsOf(u) \ {u.soFar} = EndsOf(r)  BY <1>6, <1>11, <2>1
  <2>3. u.msgs = Cardinality(EndsOf(u) \ {u.soFar})
        /\ u.firstEnd = FirstEndIn(EndsOf(u) \ {u.soFar})
    BY <1>6, <2>2 DEF ReceiverInv, Counts
  <2>4. u.soFar # Nothing  BY <1>4, <1>6 DEF Nothing
  <2>5. t = CheckSoFar(u)  BY <1>5, <1>14
  <2>6. ReceiverInv(t, top, d, reading) /\ Receives(u, t)
    BY <1>8, <1>10, <2>3, <2>4, <2>5, CheckSoFarKeeps
  <2>7. t.base \in Nat /\ u.base \in Nat
    BY <1>6, <2>6, ReceiverFields DEF ReceiverInv, Shape
  <2> QED BY <1>2, <1>12, <2>6, <2>7 DEF Receives
<1> QED BY <1>13, <1>14

LEMMA PutInQueue ==
  ASSUME NEW r, NEW top \in Nat, NEW d \in Nat, NEW reading, ReceiverInv(r, top, d, reading),
         NEW p \in Positions, p >= r.base, p <= top,
         NEW u, u = [r EXCEPT !.queue = @ \union {p}]
  PROVE  /\ ReceiverInv(u, top, d, reading)
         /\ u.base = r.base /\ u.queue = r.queue \union {p} /\ u.soFar = r.soFar
         /\ u.firstEnd = r.firstEnd /\ u.msgs = r.msgs /\ u.msg = r.msg
         /\ u.rwndPos = r.rwndPos /\ (Clean(u) <=> Clean(r)) /\ u.behind = r.behind
<1> DEFINE q == r.queue \union {p}
<1>1. r \in Receivers /\ Shape(r, top)  BY DEF ReceiverInv, Shape
<1>2. /\ r.base \in Nat /\ r.base >= 1 /\ r.queue \subseteq Positions /\ p \in Nat
      /\ q \subseteq Positions /\ q \subseteq Nat /\ q # {}
  BY <1>1, ReceiverFields, EndsFacts
<1>4. /\ u \in Receivers /\ u.base = r.base /\ u.queue = q /\ u.soFar = r.soFar
      /\ u.firstEnd = r.firstEnd /\ u.msgs = r.msgs /\ u.msg = r.msg
      /\ u.spliced = r.spliced /\ u.freed = r.freed /\ u.rwndPos = r.rwndPos
      /\ u.behind = r.behind
      /\ SameUser(r, u)
  <2>1. u = [r EXCEPT !.queue = q]  OBVIOUS
  <2> HIDE DEF q
  <2> QED BY <1>1, <1>2, <2>1 DEF Receivers, SameUser
<1>5. {x \in q : x < r.base} = {x \in r.queue : x < r.base}
  <2>1. ~(p < r.base)  BY <1>2
  <2> QED BY <2>1
<1>6. EndsOf(u) = EndsOf(r)
  <2>1. ~(p < r.base)  BY <1>2
  <2> QED BY <1>4, <2>1 DEF EndsOf
<1>7. Shape(u, top)
  <2>1. u.soFar # Nothing => u.soFar \in u.queue /\ u.base = u.soFar + 1
    BY <1>1, <1>4 DEF Shape
  <2>2. u.soFar = Nothing => \A x \in u.queue : x >= u.base
    BY <1>1, <1>4 DEF Shape
  <2>3. \A x \in u.queue : x <= top  BY <1>1, <1>4 DEF Shape
  <2> QED BY <1>1, <1>4, <2>1, <2>2, <2>3 DEF Shape
<1>8. Clean(u) <=> Clean(r)  BY <1>4 DEF Clean
<1>9. UserInv(u, d, reading)
  <2>1. HandedOver(u, d, reading) = HandedOver(r, d, reading)
    BY <1>4 DEF HandedOver, SameUser
  <2>2. Reading(u, HandedOver(r, d, reading))
    BY <1>4, <1>5, <1>8 DEF ReceiverInv, UserInv, Reading, Fronts
  <2> QED BY <1>4, <1>8, <2>1, <2>2 DEF ReceiverInv, UserInv, SameUser
<1>10. ReceiverInv(u, top, d, reading)
  BY <1>4, <1>6, <1>7, <1>9 DEF ReceiverInv, Counts
<1> QED BY <1>4, <1>8, <1>10

LEMMA InsertKeeps ==
  ASSUME NEW r, NEW top \in Nat, NEW d \in Nat, NEW reading, ReceiverInv(r, top, d, reading),
         NEW p \in Positions, p >= r.base, p <= top, NEW t, t = Insert(r, p)
  PROVE  ReceiverInv(t, top, d, reading) /\ Receives(r, t)
<1> DEFINE u == [r EXCEPT !.queue = @ \union {p}]
<1>1. t = IF u.soFar = Nothing /\ Least(u.queue) # u.base THEN u ELSE Advance(u)
  BY DEF Insert
<1>2. /\ ReceiverInv(u, top, d, reading) /\ u.base = r.base /\ u.queue = r.queue \union {p}
      /\ u.rwndPos = r.rwndPos /\ (Clean(u) <=> Clean(r))
  BY PutInQueue
<1> HIDE DEF u
<1>3. r.base \in Nat /\ u.queue \subseteq Nat /\ u.queue # {}
  BY <1>2, ReceiverFields, EndsFacts DEF ReceiverInv, Shape
<1>4. CASE u.soFar = Nothing /\ Least(u.queue) # u.base
  BY <1>1, <1>2, <1>3, <1>4 DEF Receives
<1>5. CASE ~(u.soFar = Nothing /\ Least(u.queue) # u.base)
  <2>1. t = Advance(u)  BY <1>1, <1>5
  <2>2. u.soFar = Nothing => u.base \in u.queue  BY <1>3, <1>5, LeastFacts
  <2>3. ReceiverInv(t, top, d, reading) /\ Receives(u, t)
    BY <1>2, <2>1, <2>2, AdvanceKeeps
  <2> QED BY <1>2, <2>3 DEF Receives
<1> QED BY <1>4, <1>5

LEMMA HandleDataKeeps ==
  ASSUME NEW r, NEW top \in Nat, NEW d \in Nat, NEW reading, ReceiverInv(r, top, d, reading),
         NEW p \in Positions, p <= top, NEW t, t = HandleData(r, p)
  PROVE  ReceiverInv(t, top, d, reading) /\ Receives(r, t)
<1>1. r \in Receivers /\ r.base \in Nat /\ p \in Nat /\ r.spliced \subseteq Positions
  BY ReceiverFields, EndsFacts DEF ReceiverInv, Shape
<1>2. CASE t = r  BY <1>1, <1>2 DEF Receives
<1>3. CASE t = [r EXCEPT !.wild = TRUE]
  <2>1. t \in Receivers /\ Alike(r, t) /\ SameUser(r, t)
    BY <1>1, <1>3 DEF Receivers, Alike, SameUser
  <2>2. HandedOver(t, d, reading) = HandedOver(r, d, reading)
    BY <2>1 DEF HandedOver, SameUser
  <2>3. /\ Shape(t, top) /\ Counts(t) /\ (Clean(t) <=> Clean(r))
        /\ Reading(t, HandedOver(r, d, reading))
    BY <2>1, AlikeKeeps DEF ReceiverInv, UserInv
  <2>4. ReceiverInv(t, top, d, reading)
    BY <2>1, <2>2, <2>3 DEF ReceiverInv, UserInv, SameUser
  <2> QED BY <1>1, <2>1, <2>3, <2>4 DEF Receives, Alike
<1>4. CASE t = [r EXCEPT !.spliced = r.spliced \union {p}]
  <2> DEFINE sp == r.spliced \union {p}
  <2>1. sp \subseteq Positions /\ sp # {}  BY <1>1
  <2>2. t = [r EXCEPT !.spliced = sp]  BY <1>4
  <2> HIDE DEF sp
  <2>3. /\ t \in Receivers /\ t.base = r.base /\ t.queue = r.queue /\ t.soFar = r.soFar
        /\ t.firstEnd = r.firstEnd /\ t.msgs = r.msgs
        /\ t.spliced = sp /\ t.rwndPos = r.rwndPos /\ SameUser(r, t)
    BY <1>1, <2>1, <2>2 DEF Receivers, SameUser
  <2>4. ~Clean(t)  BY <2>1, <2>3 DEF Clean
  <2>5. Shape(t, top)  BY <2>3 DEF ReceiverInv, Shape
  <2>6. Counts(t)  BY <2>3 DEF ReceiverInv, Counts, EndsOf
  <2>7. UserInv(t, d, reading)
    BY <2>3, <2>4 DEF ReceiverInv, UserInv, SameUser, Reading
  <2> QED BY <1>1, <2>3, <2>4, <2>5, <2>6, <2>7 DEF ReceiverInv, Receives
<1>5. CASE p >= r.base /\ t = Insert(r, p)  BY <1>5, InsertKeeps
<1>6. \/ t = r \/ t = [r EXCEPT !.wild = TRUE]
      \/ t = [r EXCEPT !.spliced = r.spliced \union {p}]
      \/ p >= r.base /\ t = Insert(r, p)
  BY <1>1 DEF HandleData, InsertBehind
<1> QED BY <1>2, <1>3, <1>4, <1>5, <1>6

LEMMA TakeDataKeeps ==
  ASSUME NEW r, NEW top \in Nat, NEW d \in Nat, NEW reading, ReceiverInv(r, top, d, reading),
         NEW p \in Positions, p <= top, NEW t, t = TakeData(r, p)
  PROVE  ReceiverInv(t, top, d, reading) /\ Receives(r, t)
<1> DEFINE u == SetAckInfo(r, FALSE)
<1>1. r \in Receivers  BY DEF ReceiverInv, Shape
<1>2. u \in Receivers /\ Alike(r, u) /\ SameUser(r, u)  BY <1>1, SetAckFacts
<1>3. t = HandleData(u, p)  BY DEF TakeData
<1> HIDE DEF u
<1>4. HandedOver(u, d, reading) = HandedOver(r, d, reading)
  BY <1>2 DEF HandedOver, SameUser
<1>5. /\ Shape(u, top) /\ Counts(u) /\ (Clean(u) <=> Clean(r))
      /\ Reading(u, HandedOver(r, d, reading))
  BY <1>2, AlikeKeeps DEF ReceiverInv, UserInv
<1>6. ReceiverInv(u, top, d, reading)
  BY <1>2, <1>4, <1>5 DEF ReceiverInv, UserInv, SameUser
<1>7. ReceiverInv(t, top, d, reading) /\ Receives(u, t)  BY <1>3, <1>6, HandleDataKeeps
<1> QED BY <1>2, <1>5, <1>7 DEF Receives, Alike

-----------------------------------------------------------------------------
(* The receiver: the window and the acknowledgement *)

\* The right edge never moves back, and what is announced reaches no farther.
LEMMA RefreshRwndKeeps ==
  ASSUME NEW r, NEW top \in Nat, NEW d \in Nat, NEW reading, ReceiverInv(r, top, d, reading),
         NEW t, t = RefreshRwnd(r)
  PROVE  /\ ReceiverInv(t, top, d, reading)
         /\ t.base = r.base /\ t.rwndPos >= r.rwndPos /\ (Clean(t) => Clean(r))
         /\ AckOf(t) \in Acks /\ t.base + t.rwnd <= t.rwndPos + 1
<1>1. r \in Receivers /\ Shape(r, top)  BY DEF ReceiverInv, Shape
<1>2. /\ r.base \in Nat /\ r.base >= 1 /\ r.base <= Packets + 1 /\ r.rwnd \in Nat
      /\ r.rwnd <= Window /\ r.rwndPos \in Nat /\ Window \in Nat /\ Packets \in Nat
      /\ r.base <= top + 1 /\ top <= r.rwndPos /\ r.rwndPos <= r.base + Window - 1
      /\ Window >= 1
  BY <1>1, ReceiverFields DEF Shape
<1>3. \E w \in 0..Window, pos \in 0..(Packets + Window) :
        /\ t = [r EXCEPT !.rwnd = w, !.rwndPos = pos]
        /\ pos >= r.rwndPos /\ pos <= r.base + Window - 1 /\ r.base + w <= pos + 1
  <2>1. CASE r.msgs > 0
    <3> DEFINE w == Smaller(r.rwnd, r.rwndPos - r.base) + 1
    <3>1. w \in 0..Window /\ r.base + w <= r.rwndPos + 1  BY <1>2 DEF Smaller
    <3>2. t = [r EXCEPT !.rwnd = w]  BY <2>1 DEF RefreshRwnd
    <3> HIDE DEF w
    <3>3. t = [r EXCEPT !.rwnd = w, !.rwndPos = r.rwndPos]
      BY <1>1, <3>1, <3>2 DEF Receivers
    <3>4. r.rwndPos \in 0..(Packets + Window)  BY <1>2
    <3>5. r.rwndPos >= r.rwndPos /\ r.rwndPos <= r.base + Window - 1
          /\ r.base + w <= r.rwndPos + 1
      BY <1>2, <3>1
    <3>6. w \in 0..Window  BY <3>1
    <3> WITNESS w \in 0..Window, r.rwndPos \in 0..(Packets + Window)
    <3> QED BY <3>3, <3>5
  <2>2. CASE ~(r.msgs > 0)
    <3> DEFINE pos == r.base + Window - 1
    <3>1. t = [r EXCEPT !.rwnd = Window, !.rwndPos = pos]
      BY <2>2 DEF RefreshRwnd, OpenRwnd
    <3>2. /\ Window \in 0..Window /\ pos \in 0..(Packets + Window) /\ pos >= r.rwndPos
          /\ pos <= r.base + Window - 1 /\ r.base + Window <= pos + 1
      BY <1>2
    <3> QED BY <3>1, <3>2
  <2> QED BY <2>1, <2>2
<1>4. PICK w \in 0..Window, pos \in 0..(Packets + Window) :
        /\ t = [r EXCEPT !.rwnd = w, !.rwndPos = pos]
        /\ pos >= r.rwndPos /\ pos <= r.base + Window - 1 /\ r.base + w <= pos + 1
  BY <1>3
<1>5. /\ t \in Receivers /\ t.base = r.base /\ t.queue = r.queue /\ t.soFar = r.soFar
      /\ t.firstEnd = r.firstEnd /\ t.msgs = r.msgs /\ t.msg = r.msg
      /\ t.spliced = r.spliced /\ t.freed = r.freed /\ t.rwndPos = pos
      /\ t.rwnd = w /\ SameUser(r, t)
  BY <1>1, <1>4 DEF Receivers, SameUser
<1>6. top <= pos  BY <1>2, <1>4
<1>7. Shape(t, top)  BY <1>1, <1>4, <1>5, <1>6 DEF Shape
<1>8. Counts(t)  BY <1>5 DEF ReceiverInv, Counts, EndsOf
<1>9. UserInv(t, d, reading)
  <2>1. HandedOver(t, d, reading) = HandedOver(r, d, reading)
    BY <1>5 DEF HandedOver, SameUser
  <2>2. Clean(t) <=> Clean(r)  BY <1>5 DEF Clean
  <2>3. Reading(t, HandedOver(r, d, reading))
    BY <1>5, <2>2 DEF ReceiverInv, UserInv, Reading, Fronts
  <2> QED BY <1>5, <2>1, <2>2, <2>3 DEF ReceiverInv, UserInv, SameUser
<1>10. AckOf(t) \in Acks
  <2>1. r.base \in 1..(Packets + 1)  BY <1>2
  <2> QED BY <1>5, <2>1 DEF AckOf, Acks
<1> QED BY <1>4, <1>5, <1>7, <1>8, <1>9, <1>10 DEF ReceiverInv, Clean

-----------------------------------------------------------------------------
(* The invariant *)

\* A user whose call has succeeded and not yet returned counts it as sent.
Done == IF sending /\ snd.count = 0 /\ snd.ok THEN confirmed + 1 ELSE confirmed

\* The stream as the sending user sees it: the window starts with the next message.
StreamInv ==
  /\ Starts(snd.start, Done)
  /\ snd.count > 0 =>
       /\ sending /\ Starts(snd.start + snd.count, confirmed + 1)
       /\ \A e \in Ends : e >= snd.start => e >= snd.start + snd.count - 1
  /\ \A e \in Ends : e >= snd.start => e >= snd.sentMax
  /\ sending => confirmed < MessageCount /\ offered = confirmed + 1
  /\ confirmed <= offered /\ offered <= confirmed + 1
  /\ Before(snd.sentMax + 1) <= offered

\* What is on its way, and what one end may conclude of the other
Between ==
  /\ data \subseteq 0..snd.sentMax
  /\ snd.base <= rcv.base
  /\ SenderWindow(snd, rcv.rwndPos)
  /\ \A a \in acks : a.seq <= rcv.base /\ a.seq + a.wnd <= rcv.rwndPos + 1

TransferInv ==
  /\ TypeOK
  /\ SenderInv(snd)
  /\ ReceiverInv(rcv, snd.sentMax, Len(delivered), receiving)
  /\ Between
  /\ StreamInv

LEMMA InvFields ==
  ASSUME TransferInv
  PROVE  /\ snd \in Senders /\ rcv \in Receivers /\ Shape(rcv, snd.sentMax)
         /\ Len(delivered) \in Nat /\ DOMAIN delivered = 1..Len(delivered)
         /\ confirmed \in Nat /\ offered \in Nat /\ MessageCount \in Nat
         /\ snd.start \in Nat /\ snd.start >= 1 /\ snd.count \in Nat /\ snd.base \in Nat
         /\ snd.sentMax \in Nat /\ rcv.base \in Nat /\ rcv.rwndPos \in Nat
         /\ snd.ok \in BOOLEAN /\ sending \in BOOLEAN /\ Done \in Nat
<1>1. snd \in Senders /\ rcv \in Receivers /\ Shape(rcv, snd.sentMax)
  BY DEF TransferInv, SenderInv, ReceiverInv, Shape
<1>2. delivered \in Seq(SUBSET Positions)  BY DEF TransferInv, TypeOK
<1>3. Len(delivered) \in Nat /\ DOMAIN delivered = 1..Len(delivered)  BY <1>2
<1>4. MessageCount \in Nat  BY EndsFacts DEF MessageCount
<1>5. confirmed \in Nat /\ offered \in Nat /\ sending \in BOOLEAN
  BY <1>4 DEF TransferInv, TypeOK
<1> QED BY <1>1, <1>3, <1>4, <1>5, SenderFields, ReceiverFields DEF Done

LEMMA WidenWindow ==
  ASSUME NEW s \in Senders, NEW x \in Nat, NEW y \in Nat, x <= y, SenderWindow(s, x)
  PROVE  SenderWindow(s, y)
<1>1. s.sentMax \in Nat /\ s.wndPos \in Nat /\ s.base \in Nat /\ s.theirWnd \in Nat
  BY SenderFields
<1> QED BY <1>1 DEF SenderWindow

\* More packets are sent.
LEMMA MoreSent ==
  ASSUME NEW r, NEW top \in Nat, NEW d, NEW reading, ReceiverInv(r, top, d, reading),
         NEW more \in Nat, more >= top, more <= r.rwndPos,
         \A e \in Ends : e >= r.base => e >= more
  PROVE  ReceiverInv(r, more, d, reading)
<1>1. r \in Receivers /\ r.base \in Nat /\ \A x \in r.queue : x \in Nat
  BY ReceiverFields DEF ReceiverInv, Shape
<1>2. Shape(r, more)  BY <1>1 DEF ReceiverInv, Shape
<1> QED BY <1>2 DEF ReceiverInv

LEMMA BatchFacts ==
  ASSUME NEW net, NEW b \in Batches(net)
  PROVE  Len(b) \in Nat /\ \A i \in 1..Len(b) : b[i] \in net
<1>1. PICK n \in 0..MaxBatch : b \in [1..n -> net]  BY DEF Batches
<1>2. n \in Nat  BY BoundsAssumption
<1>3. b \in Seq(net)  BY <1>1, <1>2
<1> QED BY <1>3

-----------------------------------------------------------------------------
(* The invariant holds initially. *)

LEMMA FreshSenderInv ==
  /\ SenderInv(FreshSender) /\ SenderWindow(FreshSender, Window)
  /\ FreshSender.start = 1 /\ FreshSender.base = 1 /\ FreshSender.count = 0
  /\ FreshSender.sentMax = 0
<1>1. Packets \in Nat /\ Packets >= 1 /\ Window \in Nat /\ Window >= 1 /\ Ssthresh \in Nat
      /\ RtoDoublings \in Nat
  BY EndsFacts, WindowAssumption, SsthreshAssumption, RtoAssumption
<1>2. /\ 1 \in 1..(Packets + 1) /\ 0 \in 0..Packets /\ 0 \in 0..(Packets + 1)
      /\ 2 * Window \in 0..(2 * Window)
  BY <1>1
<1> DEFINE q == Larger(RtoDoublings - 2, 0)
<1>2a. q \in 0..RtoDoublings  BY <1>1 DEF Larger
<1> HIDE DEF q
<1>3. FreshSender \in Senders  BY <1>1, <1>2, <1>2a DEF FreshSender, Senders, q
<1>4. /\ FreshSender.start = 1 /\ FreshSender.base = 1 /\ FreshSender.count = 0
      /\ FreshSender.sentMax = 0 /\ FreshSender.cwnd = 1 /\ FreshSender.locked = FALSE
      /\ FreshSender.error = FALSE /\ FreshSender.timers = {} /\ FreshSender.wndPos = 1
      /\ FreshSender.rep = 0 /\ FreshSender.fast = FALSE
  BY DEF FreshSender
<1>5. SenderInv(FreshSender)  BY <1>1, <1>3, <1>4 DEF SenderInv
<1>6. SenderWindow(FreshSender, Window)  BY <1>1, <1>4 DEF SenderWindow
<1> QED BY <1>4, <1>5, <1>6

LEMMA FirstMessage == Starts(1, 0)
<1>0. \A e \in Ends : ~(e < 1)  BY EndsFacts
<1>1. EndsBefore(1) = {}  BY <1>0 DEF EndsBefore
<1>2. Before(1) = 0  BY <1>1, FS_EmptySet DEF Before
<1> QED BY <1>2 DEF Starts

LEMMA FreshReceiverInv ==
  /\ ReceiverInv(FreshReceiver, 0, 0, FALSE) /\ FreshReceiver.base = 1
  /\ FreshReceiver.rwndPos = Window
<1>1. Packets \in Nat /\ Packets >= 1 /\ Window \in Nat /\ Window >= 1
      /\ Cardinality(Ends) \in Nat
  BY EndsFacts, WindowAssumption
<1>2. /\ 1 \in 1..(Packets + 1) /\ 0 \in 0..Cardinality(Ends) /\ Window \in 0..Window
      /\ Window \in 0..(Packets + Window)
  BY <1>1
<1>3. FreshReceiver \in Receivers  BY <1>2 DEF FreshReceiver, Receivers
<1>4. /\ FreshReceiver.base = 1 /\ FreshReceiver.queue = {}
      /\ FreshReceiver.soFar = Nothing /\ FreshReceiver.firstEnd = Nothing
      /\ FreshReceiver.msgs = 0 /\ FreshReceiver.msg = {} /\ FreshReceiver.spliced = {}
      /\ FreshReceiver.freed = FALSE /\ FreshReceiver.called = FALSE
      /\ FreshReceiver.waiting = FALSE /\ FreshReceiver.rwndPos = Window
  BY DEF FreshReceiver
<1> DEFINE r == FreshReceiver
<1>5. Shape(r, 0)
  <2>1. \A e \in Ends : e >= 1 => e >= 0  BY EndsFacts
  <2> QED BY <1>1, <1>3, <1>4, <2>1 DEF Shape
<1>6. Counts(r)
  <2>1. EndsOf(r) = {}  BY <1>4 DEF EndsOf
  <2> QED BY <1>4, <2>1, FS_EmptySet DEF Counts, FirstEndIn
<1>7. Fronts(r, 0)
  <2>1. {x \in r.queue : x < r.base} = 1..(r.base - 1)  BY <1>4
  <2> QED BY <1>4, <2>1, FirstMessage DEF Fronts
<1>8. UserInv(r, 0, FALSE)
  <2>1. HandedOver(r, 0, FALSE) = 0  BY DEF HandedOver
  <2> QED BY <1>4, <1>7, <2>1 DEF UserInv, Reading
<1> QED BY <1>4, <1>5, <1>6, <1>8 DEF ReceiverInv

LEMMA InitHolds ==
  ASSUME Init
  PROVE  TransferInv
<1>1. /\ snd = FreshSender /\ rcv = FreshReceiver /\ data = {} /\ acks = {}
      /\ sending = FALSE /\ receiving = FALSE /\ offered = 0 /\ confirmed = 0
      /\ delivered = <<>> /\ faults = 0
  BY DEF Init
<1>2. Packets \in Nat /\ Packets >= 1 /\ Window \in Nat /\ MaxFaults \in Nat
      /\ MessageCount \in Nat
  BY EndsFacts, WindowAssumption, BoundsAssumption DEF MessageCount
<1>3. SenderInv(snd) /\ SenderWindow(snd, rcv.rwndPos)
  BY <1>1, FreshSenderInv, FreshReceiverInv
<1>4. Len(delivered) = 0 /\ delivered \in Seq(SUBSET Positions)  BY <1>1
<1>5. ReceiverInv(rcv, snd.sentMax, Len(delivered), receiving)
  BY <1>1, <1>4, FreshSenderInv, FreshReceiverInv
<1>6. TypeOK
  <2>1. snd \in Senders /\ rcv \in Receivers
    BY <1>3, <1>5 DEF SenderInv, ReceiverInv, Shape
  <2>2. offered \in 0..MessageCount /\ confirmed \in 0..MessageCount /\ faults \in 0..MaxFaults
    BY <1>1, <1>2
  <2>3. data \subseteq Positions \union {Probe} /\ acks \subseteq Acks  BY <1>1
  <2> QED BY <1>1, <1>4, <2>1, <2>2, <2>3 DEF TypeOK
<1>7. Between
  <2>1. snd.base <= rcv.base  BY <1>1, FreshSenderInv, FreshReceiverInv
  <2> QED BY <1>1, <1>3, <2>1 DEF Between
<1>8. StreamInv
  <2>1. Done = 0  BY <1>1 DEF Done
  <2>2. /\ snd.start = 1 /\ snd.count = 0 /\ snd.sentMax = 0
    BY <1>1, FreshSenderInv
  <2>3. \A e \in Ends : e >= snd.start => e >= snd.sentMax  BY <2>2, EndsFacts
  <2>4. Before(snd.sentMax + 1) = 0
    <3>1. snd.sentMax + 1 = 1  BY <2>2
    <3> QED BY <3>1, FirstMessage DEF Starts
  <2> QED BY <1>1, <2>1, <2>2, <2>3, <2>4, FirstMessage DEF StreamInv
<1> QED BY <1>3, <1>5, <1>6, <1>7, <1>8 DEF TransferInv

-----------------------------------------------------------------------------
(* The users keep the invariant. *)

LEMMA SendCallKeeps ==
  ASSUME TransferInv, SendCall
  PROVE  TransferInv'
<1> DEFINE n == Cardinality(Messages[confirmed + 1])
<1>1. /\ ~sending /\ confirmed < MessageCount /\ snd' = [snd EXCEPT !.count = n]
      /\ sending' = TRUE /\ offered' = confirmed + 1
      /\ UNCHANGED <<rcv, data, acks, receiving, confirmed, delivered, faults>>
  BY DEF SendCall
<1>2. /\ snd \in Senders /\ SenderInv(snd) /\ snd.start \in Nat /\ snd.start >= 1
      /\ snd.count \in Nat /\ confirmed \in Nat /\ MessageCount \in Nat /\ offered \in Nat
      /\ Done \in Nat /\ snd.sentMax \in Nat
  BY InvFields DEF TransferInv
<1>3. snd.count = 0 /\ Done = confirmed /\ Starts(snd.start, confirmed)
  BY <1>1, <1>2 DEF TransferInv, StreamInv, Done
<1>4. PICK e \in Ends : e >= snd.start /\ \A g \in Ends : g >= snd.start => g >= e
  BY <1>1, <1>2, <1>3, NextMessage
<1>5. Messages[confirmed + 1] = snd.start..e /\ Starts(e + 1, confirmed + 1)
  BY <1>2, <1>3, <1>4, MessageSpan
<1>6. e \in Nat /\ e >= 1 /\ e <= Packets /\ Packets \in Nat  BY EndsFacts
<1>7. n = e - snd.start + 1
  <2>1. Cardinality(snd.start..e) = IF snd.start > e THEN 0 ELSE e - snd.start + 1
    <3>1. snd.start \in Int /\ e \in Int  BY <1>2, <1>6
    <3> QED BY <3>1, FS_Interval, Zenon
  <2> QED BY <1>2, <1>4, <1>5, <1>6, <2>1
<1> HIDE DEF n
<1>8. n \in 0..Packets /\ n > 0 /\ snd.start + n = e + 1 /\ n \in Nat
  BY <1>2, <1>4, <1>6, <1>7
<1>9. /\ snd' \in Senders /\ snd'.count = n /\ snd'.start = snd.start
      /\ snd'.base = snd.base /\ snd'.sentMax = snd.sentMax /\ snd'.cwnd = snd.cwnd
      /\ snd'.error = snd.error /\ snd'.locked = snd.locked /\ snd'.timers = snd.timers
      /\ snd'.wndPos = snd.wndPos /\ snd'.theirWnd = snd.theirWnd /\ snd'.rep = snd.rep
      /\ snd'.fast = snd.fast /\ snd'.ok = snd.ok
  BY <1>1, <1>2, <1>8 DEF Senders
<1>10. ~snd.locked  BY <1>2, <1>3 DEF SenderInv, Serving
<1>11. SenderInv(snd')
  <2>1. snd'.start + snd'.count <= Packets + 1  BY <1>6, <1>8, <1>9
  <2> QED BY <1>2, <1>9, <1>10, <2>1 DEF SenderInv
<1>12. Between'
  <2>1. SenderWindow(snd', rcv.rwndPos)
    BY <1>9 DEF TransferInv, Between, SenderWindow
  <2> QED BY <1>1, <1>9, <2>1 DEF TransferInv, Between
<1>13. StreamInv'
  <2>1. Done' = confirmed
    <3>1. snd'.count # 0  BY <1>8, <1>9
    <3> QED BY <1>1, <3>1 DEF Done
  <2>2. \A g \in Ends : g >= snd.start => g >= snd.start + n - 1
    <3>1. snd.start + n - 1 = e  BY <1>2, <1>6, <1>8
    <3> QED BY <1>4, <3>1
  <2>3. Starts(snd.start + n, confirmed + 1)  BY <1>5, <1>8
  <2>4. Before(snd.sentMax + 1) <= confirmed + 1
    <3>1. Before(snd.sentMax + 1) \in Nat  BY <1>2, BeforeFacts
    <3>2. Before(snd.sentMax + 1) <= offered /\ offered <= confirmed + 1
      BY DEF TransferInv, StreamInv
    <3> QED BY <1>2, <3>1, <3>2
  <2>5. \A g \in Ends : g >= snd.start => g >= snd.sentMax
    BY DEF TransferInv, StreamInv
  <2>6. confirmed <= confirmed + 1 /\ confirmed + 1 <= confirmed + 1  BY <1>2
  <2> QED BY <1>1, <1>3, <1>9, <2>1, <2>2, <2>3, <2>4, <2>5, <2>6 DEF StreamInv
<1>14. TypeOK'
  <2>1. offered' \in 0..MessageCount  BY <1>1, <1>2
  <2> QED BY <1>1, <1>9, <2>1 DEF TransferInv, TypeOK
<1>15. ReceiverInv(rcv, snd.sentMax, Len(delivered), receiving)'
  BY <1>1, <1>9 DEF TransferInv
<1> QED BY <1>11, <1>12, <1>13, <1>14, <1>15 DEF TransferInv

LEMMA SendReturnKeeps ==
  ASSUME TransferInv, SendReturn
  PROVE  TransferInv'
<1>1. /\ sending /\ snd.count = 0 /\ sending' = FALSE
      /\ confirmed' = IF snd.ok THEN confirmed + 1 ELSE confirmed
      /\ UNCHANGED <<snd, rcv, data, acks, receiving, offered, delivered, faults>>
  BY DEF SendReturn
<1>2. /\ confirmed \in Nat /\ MessageCount \in Nat /\ offered \in Nat /\ Done \in Nat
  BY InvFields
<1>3. confirmed' = Done /\ Done' = confirmed'  BY <1>1 DEF Done
<1>4. confirmed < MessageCount /\ offered = confirmed + 1
  BY <1>1 DEF TransferInv, StreamInv
<1>5. TypeOK'
  <2>1. confirmed' \in 0..MessageCount  BY <1>1, <1>2, <1>4
  <2> QED BY <1>1, <2>1 DEF TransferInv, TypeOK
<1>6. Between'  BY <1>1 DEF TransferInv, Between
<1>7. StreamInv'
  <2>1. confirmed' <= offered /\ offered <= confirmed' + 1  BY <1>1, <1>2, <1>4
  <2> QED BY <1>1, <1>3, <2>1 DEF TransferInv, StreamInv
<1> QED BY <1>1, <1>5, <1>6, <1>7 DEF TransferInv

LEMMA ReceiveCallKeeps ==
  ASSUME TransferInv, ReceiveCall
  PROVE  TransferInv'
<1>1. /\ ~receiving /\ receiving' = TRUE /\ rcv' = [rcv EXCEPT !.called = TRUE]
      /\ UNCHANGED <<snd, data, acks, sending, offered, confirmed, delivered, faults>>
  BY DEF ReceiveCall
<1>2. rcv \in Receivers  BY InvFields
<1>3. /\ rcv' \in Receivers /\ Alike(rcv, rcv') /\ rcv'.called = TRUE
      /\ rcv'.waiting = rcv.waiting
  BY <1>1, <1>2 DEF Receivers, Alike
<1>4. HandedOver(rcv, Len(delivered), receiving) = Len(delivered)
      /\ HandedOver(rcv', Len(delivered), TRUE) = Len(delivered)
  BY <1>1, <1>3 DEF HandedOver
<1>5. ReceiverInv(rcv', snd.sentMax, Len(delivered), TRUE)
  <2>1. /\ Shape(rcv', snd.sentMax) /\ Counts(rcv') /\ (Clean(rcv') <=> Clean(rcv))
        /\ Reading(rcv', Len(delivered))
    BY <1>3, <1>4, AlikeKeeps DEF TransferInv, ReceiverInv, UserInv
  <2> QED BY <1>3, <1>4, <2>1 DEF ReceiverInv, UserInv
<1>6. TypeOK'  BY <1>1, <1>3 DEF TransferInv, TypeOK
<1>7. Between'  BY <1>1, <1>3 DEF TransferInv, Between, Alike
<1>8. StreamInv'  BY <1>1 DEF TransferInv, StreamInv, Done
<1> QED BY <1>1, <1>5, <1>6, <1>7, <1>8 DEF TransferInv

LEMMA ReceiveReturnKeeps ==
  ASSUME TransferInv, ReceiveReturn
  PROVE  TransferInv'
<1>1. /\ receiving /\ ~rcv.called /\ receiving' = FALSE
      /\ delivered' = Append(delivered, rcv.result) /\ rcv' = [rcv EXCEPT !.result = {}]
      /\ UNCHANGED <<snd, data, acks, sending, offered, confirmed, faults>>
  BY DEF ReceiveReturn
<1>2. rcv \in Receivers  BY InvFields
<1>3. /\ rcv' \in Receivers /\ Alike(rcv, rcv') /\ rcv'.called = rcv.called
      /\ rcv'.waiting = rcv.waiting /\ rcv.result \subseteq Positions
  BY <1>1, <1>2 DEF Receivers, Alike
<1>4. delivered \in Seq(SUBSET Positions)  BY DEF TransferInv, TypeOK
<1>5. delivered' \in Seq(SUBSET Positions) /\ Len(delivered') = Len(delivered) + 1
  BY <1>1, <1>3, <1>4
<1>6. HandedOver(rcv, Len(delivered), receiving) = Len(delivered) + 1
      /\ HandedOver(rcv', Len(delivered'), FALSE) = Len(delivered) + 1
  BY <1>1, <1>3, <1>5 DEF HandedOver
<1>7. ReceiverInv(rcv', snd.sentMax, Len(delivered'), FALSE)
  <2>1. /\ Shape(rcv', snd.sentMax) /\ Counts(rcv') /\ (Clean(rcv') <=> Clean(rcv))
        /\ Reading(rcv', Len(delivered) + 1)
    BY <1>3, <1>6, AlikeKeeps DEF TransferInv, ReceiverInv, UserInv
  <2>2. rcv'.waiting => rcv'.called
    BY <1>3 DEF TransferInv, ReceiverInv, UserInv
  <2> QED BY <1>1, <1>3, <1>6, <2>1, <2>2 DEF ReceiverInv, UserInv
<1>8. TypeOK'  BY <1>1, <1>3, <1>5 DEF TransferInv, TypeOK
<1>9. Between'  BY <1>1, <1>3 DEF TransferInv, Between, Alike
<1>10. StreamInv'  BY <1>1 DEF TransferInv, StreamInv, Done
<1> QED BY <1>1, <1>7, <1>8, <1>9, <1>10 DEF TransferInv

LEMMA LoseKeeps ==
  ASSUME TransferInv, Lose
  PROVE  TransferInv'
<1>1. /\ faults < MaxFaults /\ faults' = faults + 1
      /\ data' \subseteq data /\ acks' \subseteq acks
      /\ UNCHANGED <<snd, rcv, sending, receiving, offered, confirmed, delivered>>
  BY DEF Lose, Fault
<1>2. TypeOK'
  <2>1. faults' \in 0..MaxFaults  BY <1>1, BoundsAssumption DEF TransferInv, TypeOK
  <2> QED BY <1>1, <2>1 DEF TransferInv, TypeOK
<1>3. Between'  BY <1>1 DEF TransferInv, Between
<1>4. StreamInv'  BY <1>1 DEF TransferInv, StreamInv, Done
<1> QED BY <1>1, <1>2, <1>3, <1>4 DEF TransferInv

-----------------------------------------------------------------------------
(* The threads keep the invariant. *)

LEMMA SenderChange ==
  ASSUME TransferInv, SenderInv(snd'), SenderWindow(snd', rcv.rwndPos), Fate(snd, snd'),
         snd'.base <= rcv.base, snd'.sentMax >= snd.sentMax,
         \/ snd'.sentMax = snd.sentMax
         \/ snd'.count > 0 /\ snd'.sentMax <= snd'.start + snd'.count - 1,
         data' \subseteq 0..snd'.sentMax, acks' \subseteq acks, faults' \in 0..MaxFaults,
         UNCHANGED <<rcv, sending, receiving, offered, confirmed, delivered>>
  PROVE  TransferInv'
<1>1. /\ snd.start \in Nat /\ snd.start >= 1 /\ snd.count \in Nat /\ snd.sentMax \in Nat
      /\ rcv.base \in Nat /\ rcv.rwndPos \in Nat /\ confirmed \in Nat /\ offered \in Nat
      /\ MessageCount \in Nat /\ Len(delivered) \in Nat /\ Done \in Nat
  BY InvFields
<1>2. /\ snd' \in Senders /\ snd'.start \in Nat /\ snd'.count \in Nat /\ snd'.base \in Nat
      /\ snd'.sentMax \in Nat /\ snd'.sentMax <= Packets /\ Packets \in Nat
      /\ snd'.start <= snd'.base
  BY SenderFields DEF SenderInv
<1>3. \A g \in Ends : g \in Nat  BY EndsFacts
<1>4. /\ Starts(snd.start, Done)
      /\ snd.count > 0 =>
           /\ sending /\ Starts(snd.start + snd.count, confirmed + 1)
           /\ \A e \in Ends : e >= snd.start => e >= snd.start + snd.count - 1
      /\ \A e \in Ends : e >= snd.start => e >= snd.sentMax
      /\ sending => confirmed < MessageCount /\ offered = confirmed + 1
      /\ confirmed <= offered /\ offered <= confirmed + 1
      /\ Before(snd.sentMax + 1) <= offered
  BY DEF TransferInv, StreamInv
\* The call and the start of the window
<1>5. /\ Starts(snd'.start, Done')
      /\ snd'.count > 0 => snd'.count = snd.count /\ snd'.start = snd.start
      /\ snd'.start >= snd.start
  <2>1. CASE snd'.start = snd.start /\ snd'.count = snd.count /\ snd'.ok = snd.ok
    <3>1. Done' = Done  BY <2>1 DEF Done
    <3> QED BY <1>1, <1>4, <2>1, <3>1
  <2>2. CASE snd.count > 0 /\ snd'.count = 0 /\ snd'.ok /\ snd'.start = snd.start + snd.count
    <3>1. Done' = confirmed + 1  BY <1>4, <2>2 DEF Done
    <3> QED BY <1>1, <1>4, <2>2, <3>1
  <2>3. CASE snd.count > 0 /\ snd'.count = 0 /\ ~snd'.ok /\ snd'.start = snd.start
    <3>1. snd.count # 0  BY <1>1, <2>3
    <3>2. Done' = confirmed /\ Done = confirmed  BY <2>3, <3>1 DEF Done
    <3> QED BY <1>1, <1>4, <2>3, <3>2
  <2> QED BY <2>1, <2>2, <2>3 DEF Fate
<1>6. \A e \in Ends : e >= snd'.start => e >= snd'.sentMax
  <2> SUFFICES ASSUME NEW e \in Ends, e >= snd'.start PROVE e >= snd'.sentMax  OBVIOUS
  <2>1. e \in Nat /\ e >= snd.start  BY <1>1, <1>2, <1>3, <1>5
  <2>2. CASE snd'.sentMax = snd.sentMax  BY <1>4, <2>1, <2>2
  <2>3. CASE snd'.count > 0 /\ snd'.sentMax <= snd'.start + snd'.count - 1
    <3>1. e >= snd.start + snd.count - 1 /\ snd'.count = snd.count /\ snd'.start = snd.start
      BY <1>4, <1>5, <2>1, <2>3
    <3> QED BY <1>1, <1>2, <2>1, <2>3, <3>1
  <2> QED BY <2>2, <2>3
<1>7. Before(snd'.sentMax + 1) <= offered
  <2>1. CASE snd'.sentMax = snd.sentMax  BY <1>4, <2>1
  <2>2. CASE snd'.count > 0 /\ snd'.sentMax <= snd'.start + snd'.count - 1
    <3>1. snd'.count = snd.count /\ snd'.start = snd.start /\ snd.count > 0
      BY <1>5, <2>2
    <3>2. Starts(snd.start + snd.count, confirmed + 1) /\ offered = confirmed + 1
      BY <1>4, <3>1
    <3>3. Before(snd.start + snd.count) = offered  BY <3>2 DEF Starts
    <3>4. snd'.sentMax + 1 <= snd.start + snd.count /\ snd'.sentMax + 1 \in Nat
          /\ snd.start + snd.count \in Nat
      <4>1. snd'.sentMax <= snd.start + snd.count - 1  BY <2>2, <3>1
      <4>2. \A x, y, z \in Nat : x <= y + z - 1 => x + 1 <= y + z  OBVIOUS
      <4>3. snd'.sentMax \in Nat /\ snd.start \in Nat /\ snd.count \in Nat
        BY <1>1, <1>2
      <4>4. snd'.sentMax + 1 <= snd.start + snd.count  BY <4>1, <4>2, <4>3, Zenon
      <4> QED BY <4>3, <4>4
    <3> HIDE DEF Before
    <3>5. Before(snd'.sentMax + 1) <= Before(snd.start + snd.count)  BY <3>4, BeforeFacts
    <3> QED BY <3>3, <3>5
  <2> QED BY <2>1, <2>2
<1>8. StreamInv'
  <2>1. snd'.count > 0 =>
           /\ sending /\ Starts(snd'.start + snd'.count, confirmed + 1)
           /\ \A e \in Ends : e >= snd'.start => e >= snd'.start + snd'.count - 1
    BY <1>4, <1>5
  <2> QED BY <1>4, <1>5, <1>6, <1>7, <2>1 DEF StreamInv
<1>9. ReceiverInv(rcv, snd'.sentMax, Len(delivered), receiving)
  <2>1. \A e \in Ends : e >= rcv.base => e >= snd'.sentMax
    <3> SUFFICES ASSUME NEW e \in Ends, e >= rcv.base PROVE e >= snd'.sentMax  OBVIOUS
    <3>1. e >= snd'.start  BY <1>1, <1>2, <1>3
    <3> QED BY <1>6, <3>1
  <2>2. snd'.sentMax <= rcv.rwndPos  BY DEF SenderWindow
  <2> QED BY <1>1, <1>2, <2>1, <2>2, MoreSent DEF TransferInv
<1>10. Between'
  <2>1. \A a \in acks' : a.seq <= rcv.base /\ a.seq + a.wnd <= rcv.rwndPos + 1
    BY DEF TransferInv, Between
  <2> QED BY <2>1 DEF Between
<1>11. TypeOK'
  <2>1. data' \subseteq Positions \union {Probe}
    BY <1>2 DEF Positions, Probe
  <2> QED BY <1>2, <2>1 DEF TransferInv, TypeOK
<1> QED BY <1>8, <1>9, <1>10, <1>11 DEF TransferInv

LEMMA CountedKeeps ==
  ASSUME TypeOK, NEW net, NEW b, NEW left \in Remainders(net, b), Counted(net, b, left)
  PROVE  left \subseteq net /\ faults' \in 0..MaxFaults
<1>1. faults \in 0..MaxFaults /\ MaxFaults \in Nat  BY BoundsAssumption DEF TypeOK
<1>2. Without(net, b) \subseteq net  BY DEF Without
<1>3. CASE left = Without(net, b)  BY <1>1, <1>2, <1>3 DEF Counted
<1>4. CASE left # Without(net, b)
  <2>1. faults < MaxFaults /\ left = net  BY <1>4 DEF Remainders
  <2> QED BY <1>1, <1>4, <2>1 DEF Counted
<1> QED BY <1>3, <1>4

\* The sender's turn after it has looked at the user's call, with socket s
TurnFrom(s, b, fires) ==
  IF s.error
  THEN ~fires /\ b = <<>> /\ snd' = s /\ UNCHANGED <<data, acks, faults>>
  ELSE \E left \in Remainders(acks, b), rtts \in [DOMAIN b -> Rtts] :
         LET t == AfterAcks(s, b, rtts)
             u == IF fires THEN DataTimeout(t) ELSE t
             packet == IF Sends(u) /\ ~u.error THEN {u.pos} ELSE {}
         IN /\ fires => t.timers # {}
            /\ snd' = IF u.error THEN u ELSE SendData(u)
            /\ acks' = Useful(t, left) /\ Counted(acks, b, left)
            /\ \E probe \in SUBSET Probes(u) : data' = data \union packet \union probe

LEMMA SenderTurnKeeps ==
  ASSUME TransferInv, NEW b \in Batches(acks), NEW fires \in BOOLEAN, SenderTurn(b, fires)
  PROVE  TransferInv'
<1> DEFINE s == HandleSend(snd)
           edge == rcv.rwndPos
<1>1. UNCHANGED <<rcv, sending, receiving, offered, confirmed, delivered>>
  BY DEF SenderTurn
<1>2. /\ snd \in Senders /\ snd.sentMax \in Nat /\ edge \in Nat /\ rcv.base \in Nat
      /\ SenderInv(snd) /\ SenderWindow(snd, edge) /\ snd.base <= rcv.base /\ snd.base \in Nat
      /\ data \subseteq 0..snd.sentMax /\ TypeOK
  BY InvFields DEF TransferInv, Between
<1>3. /\ SenderInv(s) /\ SenderWindow(s, edge) /\ Fate(snd, s)
      /\ s.sentMax = snd.sentMax /\ s.base = snd.base /\ s.error = snd.error
      /\ s.count > 0 => s.locked
  BY <1>2, HandleSendKeeps
<1>4. \/ s.error /\ snd' = s /\ UNCHANGED <<data, acks, faults>>
      \/ /\ ~s.error
         /\ \E left \in Remainders(acks, b), rtts \in [DOMAIN b -> Rtts] :
            LET t == AfterAcks(s, b, rtts)
                u == IF fires THEN DataTimeout(t) ELSE t
                packet == IF Sends(u) /\ ~u.error THEN {u.pos} ELSE {}
            IN /\ fires => t.timers # {}
               /\ snd' = IF u.error THEN u ELSE SendData(u)
               /\ acks' = Useful(t, left) /\ Counted(acks, b, left)
               /\ \E probe \in SUBSET Probes(u) : data' = data \union packet \union probe
  <2>1. \E x \in {s} : TurnFrom(x, b, fires)  BY Zenon DEF SenderTurn, TurnFrom
  <2> HIDE DEF s
  <2>2. TurnFrom(s, b, fires)  BY <2>1
  <2> QED BY <2>2 DEF TurnFrom
<1>5. s \in Senders  BY <1>3 DEF SenderInv
<1> HIDE DEF s
<1>6. CASE s.error /\ snd' = s /\ UNCHANGED <<data, acks, faults>>
  <2>1. faults' \in 0..MaxFaults  BY <1>2, <1>6 DEF TypeOK
  <2> QED BY <1>1, <1>2, <1>3, <1>6, <2>1, SenderChange
<1>7. ASSUME ~s.error, NEW left \in Remainders(acks, b), NEW rtts \in [DOMAIN b -> Rtts],
             NEW t, t = AfterAcks(s, b, rtts),
             NEW u, u = IF fires THEN DataTimeout(t) ELSE t,
             fires => t.timers # {},
             snd' = IF u.error THEN u ELSE SendData(u),
             acks' = Useful(t, left), Counted(acks, b, left),
             NEW probe \in SUBSET Probes(u),
             data' = data \union (IF Sends(u) /\ ~u.error THEN {u.pos} ELSE {}) \union probe
      PROVE  TransferInv'
  <2> DEFINE S == {x \in Senders : /\ SenderInv(x) /\ ~x.error /\ (x.count > 0 => x.locked)
                                   /\ SenderWindow(x, edge) /\ Fate(snd, x)
                                   /\ x.sentMax = snd.sentMax /\ x.base <= rcv.base}
  <2>1. s \in S  BY <1>2, <1>3, <1>5, <1>7
  <2>2. Len(b) \in Nat /\ \A i \in 1..Len(b) : b[i] \in acks  BY BatchFacts
  <2>3. ASSUME NEW i \in 1..Len(b), NEW x \in S PROVE TakeAck(x, b[i], rtts[i]) \in S
    <3> DEFINE a == b[i]
               rtt == rtts[i]
               y == TakeAck(x, a, rtt)
    <3>1. a \in Acks /\ a.seq <= rcv.base /\ a.seq + a.wnd <= edge + 1
      BY <1>2, <2>2 DEF TransferInv, Between, TypeOK
    <3>2. /\ x \in Senders /\ SenderInv(x) /\ ~x.error /\ (x.count > 0 => x.locked)
          /\ SenderWindow(x, edge) /\ Fate(snd, x) /\ x.sentMax = snd.sentMax
          /\ x.base <= rcv.base
      OBVIOUS
    <3>2a. rtt \in Rtts  BY <1>7, <2>2
    <3> HIDE DEF a, rtt, y
    <3>3. y = TakeAck(x, a, rtt)  BY DEF y
    <3>4. /\ SenderInv(y) /\ SenderWindow(y, edge) /\ Fate(x, y) /\ ~y.error
          /\ y.sentMax = x.sentMax /\ (y.base = x.base \/ y.base = a.seq)
          /\ y.count > 0 => y.locked
      BY <1>2, <1>7, <3>1, <3>2, <3>2a, <3>3, TakeAckKeeps
    <3>5. y \in Senders  BY <3>4 DEF SenderInv
    <3>6. Fate(snd, y)  BY <1>2, <3>2, <3>4, <3>5, FateTrans
    <3>7. y \in S  BY <3>1, <3>2, <3>4, <3>5, <3>6
    <3> QED BY <3>7 DEF y, a, rtt
  <2>4. t \in S
    <3> HIDE DEF S
    <3> QED BY <1>7, <2>1, <2>2, <2>3, AckRunKeep
  <2>5. /\ t \in Senders /\ SenderInv(t) /\ ~t.error /\ SenderWindow(t, edge)
        /\ Fate(snd, t) /\ t.sentMax = snd.sentMax /\ t.base <= rcv.base
    BY <2>4
  <2> HIDE DEF S
  <2>6. /\ SenderInv(u) /\ SenderWindow(u, edge) /\ Fate(t, u)
        /\ u.sentMax = t.sentMax /\ u.base = t.base
    <3>1. CASE fires
      <4>1. t.locked  BY <1>7, <2>5, <3>1 DEF SenderInv
      <4> QED BY <1>2, <1>7, <2>5, <3>1, <4>1, DataTimeoutKeeps
    <3>2. CASE ~fires  BY <1>7, <2>5, <3>2 DEF Fate
    <3> QED BY <3>1, <3>2
  <2>7. u \in Senders  BY <2>6 DEF SenderInv
  <2>8. Fate(snd, u)  BY <1>2, <2>5, <2>6, <2>7, FateTrans
  <2>9. acks' \subseteq acks /\ faults' \in 0..MaxFaults
    <3>1. left \subseteq acks /\ faults' \in 0..MaxFaults  BY <1>2, <1>7, CountedKeeps
    <3> QED BY <1>7, <3>1 DEF Useful
  <2>10. probe \subseteq {0}  BY <1>7 DEF Probes, Probe
  <2>11. CASE u.error
    <3>1. snd' = u /\ data' = data \union probe  BY <1>7, <2>11
    <3>2. data' \subseteq 0..snd'.sentMax
      BY <1>2, <2>5, <2>6, <2>10, <3>1
    <3>3. snd'.sentMax = snd.sentMax /\ snd'.base <= rcv.base /\ snd'.sentMax >= snd.sentMax
      BY <1>2, <2>5, <2>6, <3>1
    <3> QED BY <1>1, <2>6, <2>8, <2>9, <3>1, <3>2, <3>3, SenderChange
  <2>12. CASE ~u.error
    <3>1. snd' = SendData(u)  BY <1>7, <2>12
    <3>2. /\ SenderInv(snd') /\ SenderWindow(snd', edge) /\ Fate(u, snd')
          /\ snd'.base = u.base /\ snd'.sentMax >= u.sentMax
          /\ snd'.sentMax = u.sentMax \/ (u.count > 0 /\ snd'.sentMax <= u.start + u.count - 1)
          /\ Sends(u) => u.pos <= snd'.sentMax
          /\ snd'.start = u.start /\ snd'.count = u.count
      BY <1>2, <2>6, <2>12, <3>1, SendDataKeeps
    <3>3. snd' \in Senders  BY <3>2 DEF SenderInv
    <3>4. Fate(snd, snd')  BY <1>2, <2>7, <2>8, <3>2, <3>3, FateTrans
    <3>5. data' \subseteq 0..snd'.sentMax
      <4>1. u.pos \in Nat /\ snd'.sentMax \in Nat  BY <2>7, <3>3, SenderFields
      <4>2. data \subseteq 0..snd'.sentMax  BY <1>2, <2>5, <2>6, <3>2, <4>1
      <4>3. Sends(u) => u.pos \in 0..snd'.sentMax  BY <3>2, <4>1
      <4>4. 0 \in 0..snd'.sentMax  BY <4>1
      <4> QED BY <1>7, <2>10, <4>2, <4>3, <4>4
    <3>6. /\ snd'.base <= rcv.base /\ snd'.sentMax >= snd.sentMax
          /\ \/ snd'.sentMax = snd.sentMax
             \/ snd'.count > 0 /\ snd'.sentMax <= snd'.start + snd'.count - 1
      BY <2>5, <2>6, <3>2
    <3> QED BY <1>1, <2>9, <3>2, <3>4, <3>5, <3>6, SenderChange
  <2> QED BY <2>11, <2>12
<1>8. CASE ~s.error /\ \E left \in Remainders(acks, b),
                          rtts \in [DOMAIN b -> Rtts] :
            LET t == AfterAcks(s, b, rtts)
                u == IF fires THEN DataTimeout(t) ELSE t
                packet == IF Sends(u) /\ ~u.error THEN {u.pos} ELSE {}
            IN /\ fires => t.timers # {}
               /\ snd' = IF u.error THEN u ELSE SendData(u)
               /\ acks' = Useful(t, left) /\ Counted(acks, b, left)
               /\ \E probe \in SUBSET Probes(u) : data' = data \union packet \union probe
  BY <1>7, <1>8, ZenonT(30)
<1> QED BY <1>4, <1>6, <1>8

LEMMA ReceiverChange ==
  ASSUME TransferInv, ReceiverInv(rcv', snd.sentMax, Len(delivered), receiving),
         rcv'.base >= rcv.base, rcv'.rwndPos >= rcv.rwndPos,
         \A a \in acks' : \/ a \in acks
                          \/ /\ a \in Acks /\ a.seq <= rcv'.base
                             /\ a.seq + a.wnd <= rcv'.rwndPos + 1,
         data' \subseteq data, faults' \in 0..MaxFaults,
         UNCHANGED <<snd, sending, receiving, offered, confirmed, delivered>>
  PROVE  TransferInv'
<1>1. /\ snd \in Senders /\ snd.base \in Nat /\ rcv.base \in Nat /\ rcv.rwndPos \in Nat
  BY InvFields
<1>2. rcv' \in Receivers /\ rcv'.base \in Nat /\ rcv'.rwndPos \in Nat
  BY ReceiverFields DEF ReceiverInv, Shape
<1>3. /\ data \subseteq 0..snd.sentMax /\ snd.base <= rcv.base
      /\ SenderWindow(snd, rcv.rwndPos)
      /\ \A a \in acks : a.seq <= rcv.base /\ a.seq + a.wnd <= rcv.rwndPos + 1
      /\ acks \subseteq Acks
  BY DEF TransferInv, Between, TypeOK
<1>4. acks' \subseteq Acks  BY <1>3
<1>5. \A a \in acks' : a.seq <= rcv'.base /\ a.seq + a.wnd <= rcv'.rwndPos + 1
  <2> SUFFICES ASSUME NEW a \in acks, a.seq \in Nat, a.wnd \in Nat
               PROVE  a.seq <= rcv'.base /\ a.seq + a.wnd <= rcv'.rwndPos + 1
    BY <1>3 DEF Acks
  <2>1. a.seq <= rcv.base /\ a.seq + a.wnd <= rcv.rwndPos + 1  BY <1>3
  <2>2. \A x, y, z \in Nat : x <= y /\ z >= y => x <= z  OBVIOUS
  <2>3. \A x, y, z \in Nat : x <= y + 1 /\ z >= y => x <= z + 1  OBVIOUS
  <2>4. a.seq + a.wnd \in Nat  OBVIOUS
  <2> QED BY <1>1, <1>2, <2>1, <2>2, <2>3, <2>4, Zenon
<1>6. Between'
  <2>1. snd.base <= rcv'.base
    <3>1. \A x, y, z \in Nat : x <= y /\ z >= y => x <= z  OBVIOUS
    <3> QED BY <1>1, <1>2, <1>3, <3>1, Zenon
  <2>2. SenderWindow(snd, rcv'.rwndPos)  BY <1>1, <1>2, <1>3, WidenWindow
  <2> QED BY <1>3, <1>5, <2>1, <2>2 DEF Between
<1>7. StreamInv'  BY DEF TransferInv, StreamInv, Done
<1>8. TypeOK'  BY <1>2, <1>4 DEF TransferInv, TypeOK
<1> QED BY <1>6, <1>7, <1>8 DEF TransferInv

LEMMA ReceiverTurnMoves ==
  ASSUME TransferInv, NEW b, Len(b) \in Nat, \A i \in 1..Len(b) : b[i] \in data,
         NEW beat \in BOOLEAN, ReceiverTurn(b, beat)
  PROVE  TransferInv' /\ rcv'.base >= rcv.base
<1> DEFINE top == snd.sentMax
           d == Len(delivered)
           r == AfterData(HandleReceive(rcv), b)
           t == RefreshRwnd(r)
<1>1. /\ UNCHANGED <<snd, sending, receiving, offered, confirmed, delivered>>
      /\ \E left \in Remainders(data, b) : data' = left /\ Counted(data, b, left)
      /\ IF r.wild THEN rcv' = r /\ UNCHANGED acks
         ELSE \E ack \in MayAck(t) :
                LET u == IF ack THEN AfterAck(t) ELSE t IN
                /\ rcv' = IF beat THEN SetAckInfo(u, FALSE) ELSE u
                /\ acks' = IF ack THEN acks \union {AckOf(t)} ELSE acks
  BY Zenon DEF ReceiverTurn
<1>2. /\ rcv \in Receivers /\ top \in Nat /\ d \in Nat /\ rcv.base \in Nat
      /\ rcv.rwndPos \in Nat
      /\ ReceiverInv(rcv, top, d, receiving) /\ data \subseteq 0..top /\ TypeOK
      /\ data \subseteq Positions \union {Probe}
  BY InvFields DEF TransferInv, Between, TypeOK
<1>3. data' \subseteq data /\ faults' \in 0..MaxFaults
  BY <1>1, <1>2, CountedKeeps
<1> DEFINE S == {x \in Receivers : /\ ReceiverInv(x, top, d, receiving)
                                   /\ x.base >= rcv.base /\ x.rwndPos = rcv.rwndPos}
<1>4. HandleReceive(rcv) \in S
  <2> DEFINE h == HandleReceive(rcv)
  <2>1. ReceiverInv(h, top, d, receiving) /\ Receives(rcv, h)
    <3> HIDE DEF top, d
    <3> QED BY <1>2, HandleReceiveKeeps
  <2> HIDE DEF h
  <2>2. h \in S  BY <2>1 DEF ReceiverInv, Shape, Receives
  <2> QED BY <2>2 DEF h
<1>5. ASSUME NEW i \in 1..Len(b), NEW x \in S
      PROVE  (IF b[i] = Probe THEN x ELSE TakeData(x, b[i])) \in S
  <2>1. CASE b[i] = Probe  BY <2>1
  <2>2. CASE b[i] # Probe
    <3> DEFINE y == TakeData(x, b[i])
    <3>1. b[i] \in Positions /\ b[i] <= top
      <4> HIDE DEF S, top
      <4>1. b[i] \in data  OBVIOUS
      <4>2. b[i] \in 0..top /\ b[i] \in Positions \union {Probe}  BY <1>2, <4>1
      <4> QED BY <1>2, <2>2, <4>2
    <3>2. x \in Receivers /\ ReceiverInv(x, top, d, receiving) /\ x.base >= rcv.base
          /\ x.rwndPos = rcv.rwndPos
      OBVIOUS
    <3>3. ReceiverInv(y, top, d, receiving) /\ Receives(x, y)
      <4> HIDE DEF top, d, S
      <4> QED BY <1>2, <3>1, <3>2, TakeDataKeeps
    <3> HIDE DEF y
    <3>4. y \in Receivers /\ y.base \in Nat /\ x.base \in Nat
      BY <3>2, <3>3, ReceiverFields DEF ReceiverInv, Shape
    <3>5. y.base >= rcv.base /\ y.rwndPos = rcv.rwndPos
      BY <1>2, <3>2, <3>3, <3>4 DEF Receives
    <3>6. y \in S  BY <3>3, <3>4, <3>5
    <3> QED BY <2>2, <3>6 DEF y
  <2> QED BY <2>1, <2>2
<1>6. r \in S
  <2> HIDE DEF S
  <2> QED BY <1>4, <1>5, DataRunKeep
<1>7. /\ ReceiverInv(r, top, d, receiving) /\ r.base >= rcv.base /\ r.rwndPos = rcv.rwndPos
      /\ r \in Receivers
  BY <1>6
<1> HIDE DEF S, r, top, d
<1>8. CASE r.wild
  <2>1. rcv' = r /\ acks' = acks  BY <1>1, <1>8
  <2>2. rcv'.base >= rcv.base /\ rcv'.rwndPos >= rcv.rwndPos  BY <1>2, <1>7, <2>1
  <2>3. ReceiverInv(rcv', snd.sentMax, Len(delivered), receiving)
    BY <1>7, <2>1 DEF top, d
  <2> QED BY <1>1, <1>3, <2>1, <2>2, <2>3, ReceiverChange
<1>9. CASE ~r.wild
  <2>1. /\ ReceiverInv(t, top, d, receiving)
        /\ t.base = r.base /\ t.rwndPos >= r.rwndPos
        /\ AckOf(t) \in Acks /\ t.base + t.rwnd <= t.rwndPos + 1
    BY <1>2, <1>7, RefreshRwndKeeps
  <2>2. PICK ack \in MayAck(t) :
          /\ rcv' = IF beat THEN SetAckInfo(IF ack THEN AfterAck(t) ELSE t, FALSE)
                    ELSE IF ack THEN AfterAck(t) ELSE t
          /\ acks' = IF ack THEN acks \union {AckOf(t)} ELSE acks
    BY <1>1, <1>9
  <2> HIDE DEF t
  <2>3. t \in Receivers  BY <2>1 DEF ReceiverInv, Shape
  <2> DEFINE u == IF ack THEN AfterAck(t) ELSE t
  <2>4. u \in Receivers /\ Alike(t, u) /\ SameUser(t, u)
    BY <2>3, AfterAckFacts DEF Alike, SameUser
  <2>5. rcv' = IF beat THEN SetAckInfo(u, FALSE) ELSE u  BY <2>2
  <2> HIDE DEF u
  <2>6. rcv' \in Receivers /\ Alike(u, rcv') /\ SameUser(u, rcv')
    <3>1. CASE beat
      <4>1. rcv' = SetAckInfo(u, FALSE)  BY <2>5, <3>1
      <4> QED BY <2>4, <4>1, SetAckFacts
    <3>2. CASE ~beat
      <4>1. rcv' = u  BY <2>5, <3>2
      <4> QED BY <2>4, <4>1 DEF Alike, SameUser
    <3> QED BY <3>1, <3>2
  <2>7. Alike(t, rcv') /\ SameUser(t, rcv')  BY <2>4, <2>6 DEF Alike, SameUser
  <2>8. ReceiverInv(rcv', top, d, receiving)
    <3>1. HandedOver(rcv', d, receiving) = HandedOver(t, d, receiving)
      BY <2>7 DEF HandedOver, SameUser
    <3>2. /\ Shape(rcv', top) /\ Counts(rcv') /\ (Clean(rcv') <=> Clean(t))
          /\ Reading(rcv', HandedOver(t, d, receiving))
      BY <2>1, <2>6, <2>7, AlikeKeeps DEF ReceiverInv, UserInv
    <3> QED BY <2>1, <2>7, <3>1, <3>2 DEF ReceiverInv, UserInv, SameUser
  <2>9. rcv'.base = t.base /\ rcv'.rwndPos = t.rwndPos  BY <2>7 DEF Alike
  <2>10. rcv'.base >= rcv.base /\ rcv'.rwndPos >= rcv.rwndPos
    BY <1>7, <2>1, <2>9
  <2>11. \A a \in acks' : \/ a \in acks
                          \/ /\ a \in Acks /\ a.seq <= rcv'.base
                             /\ a.seq + a.wnd <= rcv'.rwndPos + 1
    <3>1. /\ AckOf(t).seq = t.base /\ AckOf(t).wnd = t.rwnd  BY DEF AckOf
    <3>2. t.base \in Nat  BY <2>3, ReceiverFields
    <3>3. AckOf(t).seq <= rcv'.base /\ AckOf(t).seq + AckOf(t).wnd <= rcv'.rwndPos + 1
      BY <2>1, <2>9, <3>1, <3>2
    <3> QED BY <2>1, <2>2, <3>3
  <2>12. ReceiverInv(rcv', snd.sentMax, Len(delivered), receiving)  BY <2>8 DEF top, d
  <2> QED BY <1>1, <1>3, <2>10, <2>11, <2>12, ReceiverChange
<1> QED BY <1>8, <1>9

LEMMA EmptyBatch == Len(<<>>) \in Nat /\ \A i \in 1..Len(<<>>) : <<>>[i] \in data
OBVIOUS

LEMMA NextHolds ==
  ASSUME TransferInv, [Next]_vars
  PROVE  TransferInv'
<1>1. CASE SendCall  BY <1>1, SendCallKeeps
<1>2. CASE SendReturn  BY <1>2, SendReturnKeeps
<1>3. CASE ReceiveCall  BY <1>3, ReceiveCallKeeps
<1>4. CASE ReceiveReturn  BY <1>4, ReceiveReturnKeeps
<1>5. CASE QuietTurn  BY <1>5, SenderTurnKeeps DEF QuietTurn
<1>6. CASE TimeoutTurn  BY <1>6, SenderTurnKeeps DEF TimeoutTurn
<1>7. CASE DataTurn  BY <1>7, BatchFacts, ReceiverTurnMoves DEF DataTurn
<1>8. CASE HeartbeatTurn  BY <1>8, EmptyBatch, ReceiverTurnMoves DEF HeartbeatTurn
<1>9. CASE Lose  BY <1>9, LoseKeeps
<1>10. CASE UNCHANGED vars
  BY <1>10 DEF vars, TransferInv, TypeOK, Between, StreamInv, Done
<1> QED BY <1>1, <1>2, <1>3, <1>4, <1>5, <1>6, <1>7, <1>8, <1>9, <1>10 DEF Next

\* The invariant behind all that follows holds after any turns of the two threads and
\* whatever the network does with their packets.
THEOREM TransferInvariant == Spec => []TransferInv
<1>1. Init => TransferInv  BY InitHolds
<1>2. TransferInv /\ [Next]_vars => TransferInv'  BY NextHolds
<1> QED BY <1>1, <1>2, PTL DEF Spec

-----------------------------------------------------------------------------
(* What follows from the invariant *)

\* Every cursor, counter and packet stays in its range, whatever is lost, duplicated
\* or reordered and however long the stream is.
THEOREM TransferTypeCorrect == Spec => []TypeOK
<1>1. TransferInv => TypeOK  BY DEF TransferInv
<1> QED BY <1>1, TransferInvariant, PTL

\* The sending thread never sends past the right edge of a window it was given.
THEOREM WindowIsKept == Spec => []WindowKept
<1>1. TransferInv => WindowKept  BY DEF TransferInv, Between, SenderWindow, WindowKept
<1> QED BY <1>1, TransferInvariant, PTL

\* While a send call is under way, what is sent and unacknowledged has a timer, or is
\* about to be sent again, or waits for the window to open.
THEOREM NothingIsForgotten == Spec => []NothingForgotten
<1>1. ASSUME TransferInv PROVE NothingForgotten
  <2> SUFFICES ASSUME snd.locked, snd.timers = {}, ~(snd.pos < snd.wndPos)
               PROVE  snd.theirWnd = 0
    BY DEF NothingForgotten
  <2>1. /\ snd.pos \in Nat /\ snd.wndPos \in Nat /\ snd.base \in Nat
        /\ snd.theirWnd \in Nat
    BY <1>1, InvFields, SenderFields
  <2>2. /\ snd.base <= snd.pos /\ snd.timers = snd.base..(snd.pos - 1)
        /\ snd.theirWnd > 0 => snd.wndPos > snd.base
    BY <1>1 DEF TransferInv, SenderInv, Serving
  <2>3. ~(snd.base < snd.pos)
    <3> SUFFICES ASSUME snd.base < snd.pos PROVE FALSE  OBVIOUS
    <3>1. snd.base \in snd.base..(snd.pos - 1)  BY <2>1
    <3> QED BY <2>2, <3>1
  <2> QED BY <2>1, <2>2, <2>3
<1> QED BY <1>1, TransferInvariant, PTL

\* The receiver counts its complete messages exactly, and knows the end of the first,
\* though it looks at the last packet of a run only.
THEOREM CountStaysExact == Spec => []CountIsExact
<1>1. ASSUME TransferInv PROVE CountIsExact
  BY <1>1 DEF TransferInv, ReceiverInv, Counts, EndsOf, CountIsExact
<1> QED BY <1>1, TransferInvariant, PTL

-----------------------------------------------------------------------------
(* The stream *)

LEMMA ArrivedFacts ==
  /\ Arrived = Before(rcv.base) /\ Arrived' = Before(rcv'.base)
  /\ Len(Messages) = MessageCount
<1>1. Arrived = Before(rcv.base) /\ Arrived' = Before(rcv'.base)
  BY DEF Arrived, Before, EndsBefore
<1>2. MessageCount \in Nat  BY EndsFacts DEF MessageCount
<1>3. Messages \in [1..MessageCount -> SUBSET Positions]  BY DEF Messages
<1>4. Messages \in Seq(SUBSET Positions)  BY <1>2, <1>3
<1>5. Len(Messages) \in Nat /\ DOMAIN Messages = 1..Len(Messages)  BY <1>4
<1>6. DOMAIN Messages = 1..MessageCount  BY <1>3
<1>7. 1..Len(Messages) = 1..MessageCount  BY <1>5, <1>6
<1>8. \A x, y \in Nat : 1..x = 1..y => x = y
  <2> SUFFICES ASSUME NEW x \in Nat, NEW y \in Nat, 1..x = 1..y PROVE x = y  OBVIOUS
  <2>1. ~(x < y)
    <3> SUFFICES ASSUME x < y PROVE FALSE  OBVIOUS
    <3>1. y \in 1..y /\ y \notin 1..x  OBVIOUS
    <3> QED BY <3>1
  <2>2. ~(y < x)
    <3> SUFFICES ASSUME y < x PROVE FALSE  OBVIOUS
    <3>1. x \in 1..x /\ x \notin 1..y  OBVIOUS
    <3> QED BY <3>1
  <2> QED BY <2>1, <2>2
<1>9. Len(Messages) = MessageCount  BY <1>2, <1>5, <1>7, <1>8, Zenon
<1> QED BY <1>1, <1>9

\* No more than the message being sent arrives in a turn.
LEMMA ArrivesOne ==
  ASSUME TransferInv, TransferInv', rcv'.base >= rcv.base, snd' = snd, offered' = offered
  PROVE  /\ Arrived' = Arrived \/ Arrived' = Arrived + 1
         /\ Arrived \in Nat /\ Arrived' \in Nat /\ Arrived' <= offered
<1> DEFINE x == rcv.base
           y == rcv'.base
           top == snd.sentMax
<1>1. x \in Nat /\ top \in Nat /\ rcv \in Receivers /\ Shape(rcv, top) /\ offered \in Nat
  BY InvFields
<1>2. rcv' \in Receivers /\ Shape(rcv', top)
  BY DEF TransferInv, ReceiverInv, Shape
<1>3. y \in Nat /\ y <= top + 1 /\ x <= y
  BY <1>2, ReceiverFields DEF Shape
<1>4. /\ Before(x) \in Nat /\ Before(y) \in Nat /\ Before(x) <= Before(y)
      /\ Before(y) <= Before(top + 1)
  BY <1>1, <1>3, BeforeFacts
<1>5. Before(y) <= Before(x) + 1
  <2>1. EndsBefore(y) \subseteq EndsBefore(x) \union {top}
    <3> SUFFICES ASSUME NEW e \in Ends, e < y, ~(e < x) PROVE e = top  BY DEF EndsBefore
    <3>1. e \in Nat  BY EndsFacts
    <3>2. e >= x  BY <1>1, <3>1
    <3>3. e >= top  BY <1>1, <3>2 DEF Shape
    <3> QED BY <1>1, <1>3, <3>1, <3>3
  <2>2. EndsBefore(x) \subseteq Ends  BY DEF EndsBefore
  <2>3. IsFiniteSet(EndsBefore(x))  BY <2>2, EndSets
  <2>4. /\ IsFiniteSet(EndsBefore(x) \union {top})
        /\ Cardinality(EndsBefore(x) \union {top}) = Before(x)
           \/ Cardinality(EndsBefore(x) \union {top}) = Before(x) + 1
    BY <2>3, FS_AddElement DEF Before
  <2>5. Before(y) <= Cardinality(EndsBefore(x) \union {top})
    BY <2>1, <2>4, FS_Subset DEF Before
  <2> HIDE DEF x, y, top
  <2> QED BY <1>4, <2>4, <2>5
<1>6. Before(top + 1) <= offered /\ Before(top + 1) \in Nat
  BY <1>1, BeforeFacts, SMTT(30) DEF TransferInv, StreamInv
<1>7. Arrived = Before(x) /\ Arrived' = Before(y)  BY ArrivedFacts
<1> HIDE DEF x, y, top
<1> QED BY <1>1, <1>4, <1>5, <1>6, <1>7

LEMMA StreamStep ==
  ASSUME TransferInv, TransferInv', [Next]_vars
  PROVE  [\/ Stream!StreamNext
          \/ Linked /\ UNCHANGED <<offered, Arrived, confirmed>>]_(Stream!stream)
<1>1. /\ confirmed \in Nat /\ offered \in Nat /\ MessageCount \in Nat
      /\ Len(delivered) \in Nat /\ snd.start \in Nat /\ snd.base \in Nat
      /\ rcv.base \in Nat /\ snd.sentMax \in Nat /\ rcv \in Receivers
  BY InvFields
<1>2. Arrived = Before(rcv.base) /\ Arrived' = Before(rcv'.base)
      /\ Len(Messages) = MessageCount
  BY ArrivedFacts
<1>3. /\ sending => confirmed < MessageCount /\ offered = confirmed + 1
      /\ confirmed <= offered /\ offered <= confirmed + 1 /\ Starts(snd.start, Done)
  BY DEF TransferInv, StreamInv
<1>4. Before(snd.start) <= Before(rcv.base) /\ Before(rcv.base) \in Nat
  <2>1. snd.start <= rcv.base
    BY <1>1 DEF TransferInv, Between, SenderInv
  <2> QED BY <1>1, <2>1, BeforeFacts, SMTT(30)
<1>5. ASSUME UNCHANGED <<offered, confirmed, delivered>>, rcv'.base = rcv.base
      PROVE  UNCHANGED Stream!stream
  BY <1>2, <1>5 DEF Stream!stream
<1>6. CASE SendCall
  <2>1. /\ confirmed < MessageCount /\ offered' = confirmed + 1
        /\ UNCHANGED <<rcv, confirmed, delivered>>
    BY <1>6 DEF SendCall
  <2>2. Arrived' = Arrived  BY <1>2, <2>1
  <2>3. CASE offered = confirmed + 1
    BY <2>1, <2>3, <1>5
  <2>4. CASE offered = confirmed
    <3>1. Stream!Offer  BY <1>2, <2>1, <2>2, <2>4 DEF Stream!Offer
    <3> QED BY <3>1 DEF Stream!StreamNext
  <2> QED BY <1>1, <1>3, <2>3, <2>4
<1>7. CASE SendReturn
  <2>1. /\ sending /\ snd.count = 0
        /\ confirmed' = IF snd.ok THEN confirmed + 1 ELSE confirmed
        /\ UNCHANGED <<rcv, offered, delivered>>
    BY <1>7 DEF SendReturn
  <2>2. Arrived' = Arrived  BY <1>2, <2>1
  <2>3. CASE ~snd.ok  BY <1>5, <2>1, <2>3
  <2>4. CASE snd.ok
    <3>1. Done = confirmed + 1  BY <2>1, <2>4 DEF Done
    <3>2. confirmed + 1 <= Arrived  BY <1>2, <1>3, <1>4, <3>1 DEF Starts
    <3>3. confirmed < Arrived  BY <1>1, <1>2, <1>4, <3>2
    <3>4. Stream!Confirm  BY <2>1, <2>2, <2>4, <3>3 DEF Stream!Confirm
    <3> QED BY <3>4 DEF Stream!StreamNext
  <2> QED BY <2>3, <2>4
<1>8. CASE ReceiveCall
  <2>1. rcv' = [rcv EXCEPT !.called = TRUE] /\ UNCHANGED <<offered, confirmed, delivered>>
    BY <1>8 DEF ReceiveCall
  <2>2. rcv'.base = rcv.base  BY <1>1, <2>1 DEF Receivers
  <2> QED BY <1>5, <2>1, <2>2
<1>9. CASE ReceiveReturn
  <2>1. /\ receiving /\ ~rcv.called /\ delivered' = Append(delivered, rcv.result)
        /\ rcv' = [rcv EXCEPT !.result = {}] /\ UNCHANGED <<offered, confirmed>>
    BY <1>9 DEF ReceiveReturn
  <2>2. rcv'.base = rcv.base  BY <1>1, <2>1 DEF Receivers
  <2>3. Arrived' = Arrived  BY <1>2, <2>2
  <2>4. CASE Linked  BY <2>1, <2>3, <2>4
  <2>5. CASE ~Linked
    <3>1. Clean(rcv)  BY <2>5 DEF Linked, Clean
    <3>2. HandedOver(rcv, Len(delivered), receiving) = Len(delivered) + 1
      BY <2>1 DEF HandedOver
    <3>3. /\ rcv.result = Messages[Len(delivered) + 1]
          /\ Reading(rcv, Len(delivered) + 1)
      BY <2>1, <3>1, <3>2 DEF TransferInv, ReceiverInv, UserInv
    <3>4. \E k \in {Len(delivered) + 1, (Len(delivered) + 1) + 1} : Fronts(rcv, k)
      BY <3>1, <3>3 DEF Reading
    <3>5. PICK k \in {Len(delivered) + 1, (Len(delivered) + 1) + 1}, f \in 1..rcv.base :
            Starts(f, k)
      BY <3>4 DEF Fronts
    <3>6. k = Before(f) /\ Before(f) <= Before(rcv.base)
      <4>1. f \in Nat /\ f <= rcv.base  BY <1>1
      <4> QED BY <1>1, <3>5, <4>1, BeforeFacts DEF Starts
    <3>7. Len(delivered) < Arrived
      <4>1. k <= Arrived  BY <1>2, <3>6
      <4>2. Arrived \in Nat  BY <1>2, <1>4
      <4> QED BY <1>1, <4>1, <4>2
    <3>8. Stream!Obtain  BY <2>1, <2>3, <3>3, <3>7 DEF Stream!Obtain
    <3> QED BY <3>8 DEF Stream!StreamNext
  <2> QED BY <2>4, <2>5
<1>10. ASSUME NEW b, NEW fires, SenderTurn(b, fires) PROVE UNCHANGED Stream!stream
  <2>1. UNCHANGED <<rcv, offered, confirmed, delivered>>  BY <1>10 DEF SenderTurn
  <2> QED BY <1>5, <2>1
<1>11. ASSUME NEW b, Len(b) \in Nat, \A i \in 1..Len(b) : b[i] \in data, NEW beat \in BOOLEAN,
              ReceiverTurn(b, beat)
       PROVE  UNCHANGED Stream!stream \/ Stream!StreamNext
  <2>1. rcv'.base >= rcv.base  BY <1>11, ReceiverTurnMoves
  <2>2. UNCHANGED <<snd, offered, confirmed, delivered>>  BY <1>11 DEF ReceiverTurn
  <2>3. /\ Arrived' = Arrived \/ Arrived' = Arrived + 1
        /\ Arrived \in Nat /\ Arrived' \in Nat /\ Arrived' <= offered
    BY <2>1, <2>2, ArrivesOne
  <2>4. CASE Arrived' = Arrived  BY <2>2, <2>4 DEF Stream!stream
  <2>5. CASE Arrived' = Arrived + 1
    <3>1. Arrived < offered  BY <1>1, <2>3, <2>5
    <3>2. Stream!Arrive  BY <2>2, <2>5, <3>1 DEF Stream!Arrive
    <3> QED BY <3>2 DEF Stream!StreamNext
  <2> QED BY <2>3, <2>4, <2>5
<1>12. CASE QuietTurn  BY <1>10, <1>12 DEF QuietTurn
<1>13. CASE TimeoutTurn  BY <1>10, <1>13 DEF TimeoutTurn
<1>14. CASE DataTurn
  <2>1. PICK b \in Batches(data) : ReceiverTurn(b, FALSE)  BY <1>14 DEF DataTurn
  <2> QED BY <1>11, <2>1, BatchFacts
<1>15. CASE HeartbeatTurn  BY <1>11, <1>15, EmptyBatch DEF HeartbeatTurn
<1>16. CASE Lose
  <2>1. UNCHANGED <<rcv, offered, confirmed, delivered>>  BY <1>16 DEF Lose
  <2> QED BY <1>5, <2>1
<1>17. CASE UNCHANGED vars
  <2>1. UNCHANGED <<rcv, offered, confirmed, delivered>>  BY <1>17 DEF vars
  <2> QED BY <1>5, <2>1
<1> QED BY <1>6, <1>7, <1>8, <1>9, <1>12, <1>13, <1>14, <1>15, <1>16, <1>17 DEF Next

\* Messages arrive whole, in order and once, and a send that reports success has brought
\* its message to the other end, for every stream, window and behaviour of the network,
\* until the receiver links a packet in front of its queue; and after that only what
\* the user obtains may differ.
THEOREM StreamIsKept == Spec => StreamKept
<1>1. Init => Stream!StreamInit
  <2> SUFFICES ASSUME Init PROVE Stream!StreamInit  OBVIOUS
  <2>1. /\ offered = 0 /\ confirmed = 0 /\ delivered = <<>> /\ rcv.base = 1
    BY FreshReceiverInv DEF Init
  <2>2. Arrived = 0  BY <2>1, ArrivedFacts, FirstMessage DEF Starts
  <2> QED BY <2>1, <2>2 DEF Stream!StreamInit
<1>2. TransferInv /\ TransferInv' /\ [Next]_vars
        => [\/ Stream!StreamNext
            \/ Linked /\ UNCHANGED <<offered, Arrived, confirmed>>]_(Stream!stream)
  BY StreamStep
<1> QED BY <1>1, <1>2, TransferInvariant, PTL DEF Spec, StreamKept

\* In a behaviour in which the receiver links no packet in front of its queue, messages
\* arrive whole, in order and once, and a send that reports success has brought its
\* message to the other end, for every stream and window.
THEOREM UnlinkedMessagesArrive == Spec /\ []~Linked => MessagesArrive
<1>1. /\ ~Linked
      /\ [\/ Stream!StreamNext
          \/ Linked /\ UNCHANGED <<offered, Arrived, confirmed>>]_(Stream!stream)
      => [Stream!StreamNext]_(Stream!stream)
  OBVIOUS
<1> QED BY <1>1, StreamIsKept, PTL DEF StreamKept, MessagesArrive, Stream!StreamSpec

=============================================================================
