---------------------------- MODULE MessageStream ---------------------------
(***************************************************************************)
(* What a connection promises for one direction: messages arrive whole, in *)
(* order and once, and a send call that reports success has brought its    *)
(* message to the other end.                                               *)
(***************************************************************************)
EXTENDS Naturals, Sequences

CONSTANT Messages   \* the messages the user sends, in order

VARIABLES
  offered,    \* how many have been passed to ump_send_message
  arrived,    \* how many are complete at the other end
  confirmed,  \* for how many ump_send_message has returned success
  received    \* what ump_receive_message has returned

stream == <<offered, arrived, confirmed, received>>

StreamInit == offered = 0 /\ arrived = 0 /\ confirmed = 0 /\ received = <<>>

\* A user may offer a message while the last ones are under way: the
\* implementation offers the next one when the last call has returned.
Offer ==
  /\ offered < Len(Messages)
  /\ offered' = offered + 1
  /\ UNCHANGED <<arrived, confirmed, received>>

Arrive ==
  /\ arrived < offered
  /\ arrived' = arrived + 1
  /\ UNCHANGED <<offered, confirmed, received>>

Confirm ==
  /\ confirmed < arrived
  /\ confirmed' = confirmed + 1
  /\ UNCHANGED <<offered, arrived, received>>

Obtain ==
  /\ Len(received) < arrived
  /\ received' = Append(received, Messages[Len(received) + 1])
  /\ UNCHANGED <<offered, arrived, confirmed>>

StreamNext == Offer \/ Arrive \/ Confirm \/ Obtain

StreamSpec == StreamInit /\ [][StreamNext]_stream
=============================================================================
