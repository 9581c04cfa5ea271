------------------------------ MODULE UmpEstimate -----------------------------
(***************************************************************************)
(* The round trip estimator of a socket (rtocomputer.c) and the            *)
(* retransmission timeout that the sender of ump_sock.c takes from it.     *)
(* The code computes in floating point; here every time is a whole number  *)
(* of some unit, as fine as one likes, and every quotient is rounded       *)
(* either way.                                                             *)
(***************************************************************************)
EXTENDS Integers

CONSTANTS
  Samples,    \* the round trips that tm_ack_packet may report
  RttMin,     \* RTT_MIN_MS, which stands for a round trip of zero
  FirstDev,   \* the deviation to begin with, 3000 ms
  LeastRto,   \* the shortest timeout, 16 ms
  Limit,      \* TIMEOUT_LIMIT, 15000 ms
  Ceiling,    \* where doubling ends, 90000 ms
  Doublings   \* doublings from LeastRto to Limit: 10

\* Powers of two
Power[n \in Nat] == IF n = 0 THEN 1 ELSE 2 * Power[n - 1]

ASSUME SamplesAssumption == Samples \subseteq Nat
ASSUME TimesAssumption ==
  /\ RttMin \in Nat /\ FirstDev \in Nat /\ LeastRto \in Nat \ {0}
  /\ Limit \in Nat /\ Ceiling \in Nat /\ Limit <= Ceiling
  /\ LeastRto <= Ceiling /\ LeastRto <= 2 * FirstDev
ASSUME DoublingsAssumption == Doublings \in Nat /\ LeastRto * Power[Doublings] >= Limit

VARIABLES
  a,         \* the estimated round trip
  d,         \* its estimated deviation
  rto,       \* the timeout
  trip,      \* the last round trip measured, 0 if there was none
  longest,   \* the longest of them
  doubled,   \* doublings below the limit since the last one
  over       \* ump_handle_data_timeout has given up the connection

vars == <<a, d, rto, trip, longest, doubled, over>>

Smaller(m, n) == IF m < n THEN m ELSE n
Larger(m, n) == IF m < n THEN n ELSE m
Abs(n) == IF n < 0 THEN 0 - n ELSE n

\* A quotient in floating point lies between these two.
Near(m, n) == {m \div n, (m + n - 1) \div n}

-----------------------------------------------------------------------------
Init ==
  /\ a = 0 /\ d = FirstDev /\ rto = 2 * FirstDev
  /\ trip = 0 /\ longest = 0 /\ doubled = 0 /\ over = FALSE

\* a + (m - a) / 8.  The deviation is taken from the estimate before it moved.
NewEstimate(m) == Near(7 * a + m, 8)
NewDeviation(m) == Near(3 * d + Abs(m - a), 4)

\* The variant gives the deviation half its weight, as at the beginning.
TimeoutTight(x, y) == Larger(x + 2 * y, LeastRto)
TimeoutOf(x, y) == Larger(x + 4 * y, LeastRto)

\* rto_refresh_rtt, as ump_handle_data_ack calls it
Refresh(m) ==
  /\ ~over
  /\ a' \in NewEstimate(m) /\ d' \in NewDeviation(m) /\ rto' = TimeoutOf(a', d')
  /\ trip' = m /\ longest' = Larger(longest, m) /\ doubled' = 0
  /\ UNCHANGED over
Measure == \E m \in Samples : Refresh(IF m = 0 THEN RttMin ELSE m)

\* rto_timeout_occur
Doubled == Smaller(2 * rto, Ceiling)
TimeoutOccur ==
  /\ rto' = Doubled /\ doubled' = IF rto < Limit THEN doubled + 1 ELSE doubled
  /\ UNCHANGED <<a, d, trip, longest, over>>

\* ump_handle_data_timeout looks at the limit before it doubles the timeout, the variant
\* after.
Timeout == ~over /\ rto < Limit /\ TimeoutOccur
GiveUpDoubled ==
  /\ ~over /\ Doubled >= Limit
  /\ over' = TRUE
  /\ UNCHANGED <<a, d, rto, trip, longest, doubled>>
GiveUp ==
  /\ ~over /\ rto >= Limit
  /\ over' = TRUE
  /\ UNCHANGED <<a, d, rto, trip, longest, doubled>>

\* The fast retransmission of ump_handle_data_ack doubles the timeout whatever it is.
FastRetransmit == ~over /\ TimeoutOccur

Next == Measure \/ Timeout \/ GiveUp \/ FastRetransmit
Spec == Init /\ [][Next]_vars

-----------------------------------------------------------------------------
(* Properties *)

TypeOK ==
  /\ a \in Nat /\ d \in Nat /\ rto \in Nat /\ rto >= LeastRto
  /\ trip \in Nat /\ longest \in Nat /\ doubled \in 0..Doublings /\ over \in BOOLEAN

Bound == Larger(FirstDev, longest)
StaysInRange ==
  /\ a <= longest /\ d <= Bound
  /\ rto <= Larger(Ceiling, Larger(LeastRto, longest + 4 * Bound))

CoversLastTrip == rto + 3 >= Smaller(trip, Ceiling)

\* rto_refresh_rtt and rto_timeout_occur: the timeout covers the round trip measured
\* last, but for the rounding and the ceiling, so that nothing is sent twice while the
\* network stays as it is.  Nor can it run away: the estimate never leaves the range of
\* what was measured, and no timeout is longer than the slowest round trip and the
\* ceiling explain.
TimeoutFits == CoversLastTrip /\ StaysInRange

\* The timeout is Backoff's: each retransmission brings it one doubling closer to the
\* limit, the connection is given up there and nowhere else, and from any estimate
\* there are at most Doublings of them.
Left(r) ==
  CHOOSE n \in 0..Doublings :
    r * Power[n] >= Limit /\ \A m \in 0..(n - 1) : r * Power[m] < Limit
B == INSTANCE Backoff WITH left <- Left(rto)
ImplementsBackoff == B!Spec

=============================================================================
