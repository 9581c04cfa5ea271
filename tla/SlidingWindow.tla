---------------------------- MODULE SlidingWindow ---------------------------
(***************************************************************************)
(* What the sequence numbers of a sender stand for: positions in a stream  *)
(* without end.  A message adds packets, they are sent in order, and going *)
(* back starts again from the first that is not acknowledged.              *)
(***************************************************************************)
EXTENDS Integers

VARIABLES
  acked,   \* position of the first packet not acknowledged
  next,    \* position of the next packet to send
  top,     \* position behind the last packet ever sent
  limit    \* position behind the last packet of the message

Init == acked = 0 /\ next = 0 /\ top = 0 /\ limit = 0

\* The next message is taken when the one before is acknowledged.
Offer == /\ acked = limit
         /\ limit' \in Nat /\ limit' > limit
         /\ next' = acked
         /\ UNCHANGED <<acked, top>>

Send == /\ next < limit
        /\ next' = next + 1
        /\ top' = IF next < top THEN top ELSE next + 1
        /\ UNCHANGED <<acked, limit>>

GoBack == next' = acked /\ UNCHANGED <<acked, top, limit>>

Ack == /\ acked' \in Nat /\ acked' > acked /\ acked' <= top
       /\ next' = IF next < acked' THEN acked' ELSE next
       /\ UNCHANGED <<top, limit>>

Next == Offer \/ Send \/ GoBack \/ Ack

WindowSpec == Init /\ [][Next]_<<acked, next, top, limit>>

=============================================================================
