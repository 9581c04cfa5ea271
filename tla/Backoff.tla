-------------------------------- MODULE Backoff -------------------------------
(***************************************************************************)
(* What the sender may count on from its retransmission timeout: a timeout *)
(* is so many doublings away from the limit, each retransmission uses up   *)
(* one of them, and the connection is given up when none is left.          *)
(***************************************************************************)
EXTENDS Naturals

CONSTANT Doublings   \* how many doublings there are at most

VARIABLES
  left,      \* doublings until the limit is reached
  doubled,   \* doublings since the last measured round trip
  over       \* the connection was given up

vars == <<left, doubled, over>>

Init == left \in 0..Doublings /\ doubled = 0 /\ over = FALSE

\* A round trip was measured: the timeout starts again anywhere below the limit or
\* beyond it.
Measure == ~over /\ left' \in 0..Doublings /\ doubled' = 0 /\ UNCHANGED over

\* Something is sent again; beyond the limit there is nothing to count.
Double ==
  /\ ~over /\ left > 0
  /\ left' = left - 1 /\ doubled' = doubled + 1
  /\ UNCHANGED over

Stop == ~over /\ left = 0 /\ over' = TRUE /\ UNCHANGED <<left, doubled>>

Next == Measure \/ Double \/ Stop
Spec == Init /\ [][Next]_vars

=============================================================================
