----------------------------- MODULE CallService ----------------------------
(***************************************************************************)
(* What a user may expect of a blocking call: it is answered once, after   *)
(* it was made, and it returns with its own answer and no other.           *)
(***************************************************************************)
CONSTANTS Users, Answers, NoAnswer

VARIABLES
  calling,   \* whether a user is in a call
  answer,    \* the answer to it
  returned   \* what the user's last call returned, until the next

Init ==
  /\ calling = [u \in Users |-> FALSE]
  /\ answer = [u \in Users |-> NoAnswer]
  /\ returned = [u \in Users |-> NoAnswer]

Call(u) ==
  /\ ~calling[u]
  /\ calling' = [calling EXCEPT ![u] = TRUE]
  /\ returned' = [returned EXCEPT ![u] = NoAnswer]
  /\ UNCHANGED answer

Answer(u) ==
  /\ calling[u] /\ answer[u] = NoAnswer
  /\ \E r \in Answers : answer' = [answer EXCEPT ![u] = r]
  /\ UNCHANGED <<calling, returned>>

Return(u) ==
  /\ answer[u] # NoAnswer
  /\ returned' = [returned EXCEPT ![u] = answer[u]]
  /\ answer' = [answer EXCEPT ![u] = NoAnswer]
  /\ calling' = [calling EXCEPT ![u] = FALSE]

Next == \E u \in Users : Call(u) \/ Answer(u) \/ Return(u)

ServiceSpec == Init /\ [][Next]_<<calling, answer, returned>>

=============================================================================
