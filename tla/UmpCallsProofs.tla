---------------------------- MODULE UmpCallsProofs --------------------------
(***************************************************************************)
(* The calls of users and the thread that serves them: for any users, each *)
(* of a kind of its own, no caller is forgotten, a lock is never kept for  *)
(* nobody, and every call returns with its own answer, once.               *)
(***************************************************************************)
EXTENDS UmpCalls, SequenceTheorems, TLAPS

-----------------------------------------------------------------------------
(* The inductive invariant *)

EndOps == {e \in Ends : e.op = "end"}

\* The event of a kind is the next thing the thread sets.
SetAhead(k) == todo # <<>> /\ Head(todo) = SetOf(k)

\* An event is set right after the call was ended, before anything else.
TodoShape ==
  \/ todo \in Seq(EndOps)
  \/ /\ todo # <<>> /\ Tail(todo) \in Seq(EndOps)
     /\ \E k \in Kinds : Head(todo) = SetOf(k)

\* A call is posted until it is answered; from then on until its caller wakes its event
\* is set or about to be, never both.  Until the caller has returned, the result of
\* its kind stays the answer.
CallOf(u) ==
  /\ para[KindOf[u]] # NoCall <=> pc[u] = "waiting" /\ answer[u] = None
  /\ done[KindOf[u]] \/ SetAhead(KindOf[u]) <=> pc[u] = "waiting" /\ answer[u] # None
  /\ ~(done[KindOf[u]] /\ SetAhead(KindOf[u]))
  /\ pc[u] = "idle" => answer[u] = None
  /\ pc[u] = "woken" => answer[u] # None
  /\ answer[u] # None => answer[u] = ok[KindOf[u]]
CallsKept == \A u \in Users : CallOf(u)

SlotOf(k) ==
  /\ locked[k] => para[k] # NoCall
  /\ para[k] # NoCall =>
       para[k].method \in MethodsOf[k] /\ para[k].by \in Users /\ KindOf[para[k].by] = k
SlotsKept == \A k \in Kinds : SlotOf(k)

\* The thread is about to end whatever call of a kind it serves.
Ended(k) ==
  \E i \in 1..Len(todo) :
    todo[i].op = "end" /\ todo[i].kind = k /\ MethodsOf[k] \subseteq todo[i].methods
OthersEnded ==
  conn = "CLOSING" /\ ~finReced => \A k \in {"snd", "rec"} : locked[k] => Ended(k)

FreedLast == conn = "FREED" => phase = "free"

CallsInv ==
  TypeOK /\ TodoShape /\ CallsKept /\ SlotsKept /\ OthersEnded /\ FreedLast

-----------------------------------------------------------------------------
(* The calls that end calls *)

LEMMA KindFacts ==
  /\ Kinds = {"ctrl", "snd", "rec"}
  /\ MethodsOf["ctrl"] = {"CONNECT", "CLOSE"}
  /\ MethodsOf["snd"] = {"SEND"} /\ MethodsOf["rec"] = {"RECEIVE"}
  /\ \A k \in Kinds : MethodsOf[k] \subseteq Methods
  /\ Methods = {"CONNECT", "CLOSE", "SEND", "RECEIVE"}
<1>1. Kinds = {"ctrl", "snd", "rec"}  BY DEF Kinds
<1>2. MethodsOf["ctrl"] = {"CONNECT", "CLOSE"}  BY DEF MethodsOf, Kinds
<1>3. MethodsOf["snd"] = {"SEND"}  BY DEF MethodsOf, Kinds
<1>4. MethodsOf["rec"] = {"RECEIVE"}  BY DEF MethodsOf, Kinds
<1>5. \A k \in Kinds : MethodsOf[k] \subseteq Methods  BY DEF Methods
<1>6. Methods \subseteq {"CONNECT", "CLOSE", "SEND", "RECEIVE"}
  BY <1>1, <1>2, <1>3, <1>4 DEF Methods
<1>7. {"CONNECT", "CLOSE", "SEND", "RECEIVE"} \subseteq Methods
  BY <1>1, <1>2, <1>3, <1>4, <1>5
<1> QED BY <1>1, <1>2, <1>3, <1>4, <1>5, <1>6, <1>7

LEMMA ResultFacts == Ok \in Results /\ Failed \in Results /\ None \notin Results
BY DEF Ok, Failed, None, Results

\* The user of a kind is the one who posted its call.
LEMMA NoCallApart == \A m \in Methods, u \in Users : [method |-> m, by |-> u] # NoCall
BY KindFacts DEF NoCall, None

LEMMA EndOfType ==
  ASSUME NEW k \in Kinds, NEW ms \in SUBSET Methods, NEW r \in Results
  PROVE  EndOf(k, ms, r) \in EndOps
BY DEF EndOf, EndOps, Ends

LEMMA EndTypes ==
  /\ \A r \in Results :
       EndAllCtrl(r) \in EndOps /\ EndSend(r) \in EndOps /\ EndReceive(r) \in EndOps
  /\ EndClose \in EndOps
  /\ EndOf("ctrl", {"CONNECT"}, Ok) \in EndOps
<1>1. "ctrl" \in Kinds /\ "snd" \in Kinds /\ "rec" \in Kinds  BY KindFacts
<1>2. /\ MethodsOf["ctrl"] \in SUBSET Methods /\ {"SEND"} \in SUBSET Methods
      /\ {"RECEIVE"} \in SUBSET Methods /\ {"CLOSE"} \in SUBSET Methods
      /\ {"CONNECT"} \in SUBSET Methods
  BY KindFacts
<1> QED BY <1>1, <1>2, ResultFacts, EndOfType DEF EndAllCtrl, EndSend, EndReceive, EndClose

LEMMA EndLists ==
  /\ <<>> \in Seq(EndOps)
  /\ EnterClosed \in Seq(EndOps) /\ ConnectionError \in Seq(EndOps)
  /\ CloseEndsOthers \in Seq(EndOps)
  /\ \A e \in EndOps : <<e>> \in Seq(EndOps)
  /\ <<EndAllCtrl(Failed), EndSend(Failed), EndReceive(Failed)>> \in Seq(EndOps)
<1> DEFINE a == EndAllCtrl(Failed)  b == EndSend(Failed)  c == EndReceive(Failed)
           x == EndClose
<1>1. a \in EndOps /\ b \in EndOps /\ c \in EndOps /\ x \in EndOps
  BY EndTypes, ResultFacts
<1> HIDE DEF a, b, c, x
<1>2. <<>> \in Seq(EndOps) /\ (\A e \in EndOps : <<e>> \in Seq(EndOps))  OBVIOUS
<1>3. <<c, x>> \in Seq(EndOps) /\ <<x>> \in Seq(EndOps) /\ <<a, b, c>> \in Seq(EndOps)
      /\ <<b, c>> \in Seq(EndOps)
  BY <1>1
<1>4. EnterClosed \in Seq(EndOps)  BY <1>3 DEF EnterClosed, c, x
<1>5. ConnectionError \in Seq(EndOps)
  BY <1>3, <1>4, ConcatProperties DEF ConnectionError, a, b, c
<1>6. CloseEndsOthers \in Seq(EndOps)  BY <1>3 DEF CloseEndsOthers, b, c
<1> QED BY <1>2, <1>3, <1>4, <1>5, <1>6 DEF a, b, c

LEMMA ServedTypes ==
  ASSUME CallsInv, phase # "free", NEW m \in MethodsOf["ctrl"]
  PROVE  Served(m)[1] \in States \ {"FREED"} /\ Served(m)[2] \in Seq(EndOps)
<1>1. m \in {"CONNECT", "CLOSE"}  BY KindFacts
<1>2. conn \in {"CLOSED", "CONNECTING", "ESTABLISHED", "CLOSING"} /\ error \in BOOLEAN
  BY DEF CallsInv, FreedLast, TypeOK, States
<1>3. /\ <<EndAllCtrl(Failed)>> \in Seq(EndOps) /\ <<EndClose>> \in Seq(EndOps)
      /\ <<EndOf("ctrl", {"CONNECT"}, Ok)>> \in Seq(EndOps) /\ <<>> \in Seq(EndOps)
      /\ CloseEndsOthers \in Seq(EndOps)
  BY EndTypes, EndLists, ResultFacts
<1>4. CASE error  BY <1>2, <1>3, <1>4 DEF Served, States
<1>5. CASE ~error /\ conn = "CLOSED"  BY <1>1, <1>3, <1>5 DEF Served, States
<1>6. CASE ~error /\ conn = "CONNECTING"  BY <1>1, <1>3, <1>6 DEF Served, States
<1>7. CASE ~error /\ conn = "ESTABLISHED"  BY <1>1, <1>3, <1>7 DEF Served, States
<1>8. CASE ~error /\ conn = "CLOSING"  BY <1>1, <1>3, <1>8 DEF Served, States
<1> QED BY <1>2, <1>4, <1>5, <1>6, <1>7, <1>8

\* A list of calls that end calls sets no event.
LEMMA EndsAreTodos == \A q \in Seq(EndOps) : q \in Seq(Ends)
BY DEF EndOps

-----------------------------------------------------------------------------
(* Steps of the thread that end no call: they leave calls and users alone, but may   *)
(* take a posted call and may decide what to end.                                    *)

LEMMA QuietKeeps ==
  ASSUME CallsInv, todo = <<>>, todo' \in Seq(EndOps),
         UNCHANGED <<para, ok, done, answer, pc>>,
         \A k \in Kinds : locked'[k] => locked[k] \/ para[k] # NoCall
  PROVE  TodoShape' /\ CallsKept' /\ SlotsKept'
<1>1. TodoShape'  BY DEF TodoShape
<1>2. \A k \in Kinds : ~SetAhead(k)  BY DEF SetAhead
<1>3. \A k \in Kinds : ~SetAhead(k)'
  <2>1. ASSUME todo' # <<>> PROVE Head(todo').op = "end"
    BY <2>1, HeadTailProperties DEF EndOps
  <2> QED BY <2>1 DEF SetAhead, SetOf
<1>4. CallsKept'
  <2> SUFFICES ASSUME NEW u \in Users PROVE CallOf(u)'
    BY DEF CallsKept
  <2>1. KindOf[u] \in Kinds  BY KindAssumption
  <2>2. CallOf(u)  BY DEF CallsInv, CallsKept
  <2> QED BY <1>2, <1>3, <2>1, <2>2 DEF CallOf
<1>5. SlotsKept'  BY DEF CallsInv, SlotsKept, SlotOf
<1> QED BY <1>1, <1>4, <1>5

LEMMA PollCtrlKeeps == ASSUME CallsInv, PollCtrl PROVE CallsInv'
<1> USE DEF PollCtrl, At, userVars
<1>1. CASE Waiting("ctrl")
  <2> DEFINE s == Served(para["ctrl"].method)
  <2>1. para["ctrl"].method \in MethodsOf["ctrl"]
    BY <1>1, KindFacts DEF CallsInv, SlotsKept, SlotOf, Waiting
  <2>2. s[1] \in States \ {"FREED"} /\ s[2] \in Seq(EndOps)  BY <2>1, ServedTypes
  <2>3. conn' = s[1] /\ todo' = s[2] /\ locked' = [locked EXCEPT !["ctrl"] = TRUE]
        /\ phase' = "snd"
    BY <1>1 DEF Lock
  <2>4. conn' = "CLOSING" => conn = "CLOSING" \/ todo' = <<EndSend(Failed), EndReceive(Failed)>>
    <3>1. \A st : st # "CLOSING" => <<st, <<>>>>[1] # "CLOSING"  OBVIOUS
    <3>2. conn \in {"CLOSED", "CONNECTING", "ESTABLISHED", "CLOSING"} /\ error \in BOOLEAN
      BY DEF CallsInv, FreedLast, TypeOK, States
    <3>3. para["ctrl"].method \in {"CONNECT", "CLOSE"}  BY <2>1, KindFacts
    <3>4. CASE error  BY <2>3, <3>4 DEF Served
    <3>5. CASE ~error /\ conn = "CLOSED"  BY <2>3, <3>3, <3>5 DEF Served
    <3>6. CASE ~error /\ conn = "CONNECTING"  BY <2>3, <3>6 DEF Served
    <3>7. CASE ~error /\ conn = "ESTABLISHED"
      BY <2>3, <3>3, <3>7 DEF Served, CloseEndsOthers
    <3> QED BY <3>2, <3>4, <3>5, <3>6, <3>7
  <2> HIDE DEF s
  <2>5. TodoShape' /\ CallsKept' /\ SlotsKept'
    <3>1. \A k \in Kinds : locked'[k] => locked[k] \/ para[k] # NoCall
      BY <1>1, <2>3 DEF Waiting, CallsInv, TypeOK
    <3> QED BY <2>2, <2>3, <3>1, QuietKeeps
  <2>6. TypeOK'
    BY <2>2, <2>3, EndsAreTodos DEF CallsInv, TypeOK
  <2>7. FreedLast'  BY <2>2, <2>3 DEF FreedLast
  <2>8. OthersEnded'
    <3> SUFFICES ASSUME conn' = "CLOSING", ~finReced', NEW k \in {"snd", "rec"}, locked'[k]
                 PROVE  Ended(k)'
      BY DEF OthersEnded
    <3>1. k \in Kinds /\ locked[k] /\ ~finReced  BY <2>3, KindFacts DEF CallsInv, TypeOK
    <3>2. ~Ended(k)  BY DEF Ended
    <3>3. conn # "CLOSING"  BY <3>1, <3>2 DEF CallsInv, OthersEnded
    <3>4. todo' = <<EndSend(Failed), EndReceive(Failed)>>  BY <2>4, <3>3
    <3>5. Len(todo') = 2 /\ todo'[1] = EndSend(Failed) /\ todo'[2] = EndReceive(Failed)
      BY <3>4
    <3>6. 1 \in 1..2 /\ 2 \in 1..2  OBVIOUS
    <3>7. /\ EndSend(Failed).op = "end" /\ EndSend(Failed).kind = "snd"
          /\ EndSend(Failed).methods = {"SEND"}
          /\ EndReceive(Failed).op = "end" /\ EndReceive(Failed).kind = "rec"
          /\ EndReceive(Failed).methods = {"RECEIVE"}
      BY DEF EndSend, EndReceive, EndOf
    <3> QED BY <3>5, <3>6, <3>7, KindFacts DEF Ended
  <2> QED BY <2>5, <2>6, <2>7, <2>8 DEF CallsInv
<1>2. CASE ~Waiting("ctrl")
  <2>1. todo' \in Seq(EndOps)  BY <1>2, EndLists
  <2>2. TodoShape' /\ CallsKept' /\ SlotsKept'  BY <1>2, <2>1, QuietKeeps
  <2>3. TypeOK'  BY <1>2 DEF CallsInv, TypeOK
  <2>4. FreedLast'  BY <1>2 DEF CallsInv, FreedLast
  <2>5. OthersEnded'  BY <1>2 DEF CallsInv, OthersEnded, Ended
  <2> QED BY <2>2, <2>3, <2>4, <2>5 DEF CallsInv
<1> QED BY <1>1, <1>2

\* While no call is about to be ended, a closing by the user leaves no call in service.
LEMMA NothingServed ==
  ASSUME CallsInv, todo = <<>>, conn = "CLOSING", ~finReced
  PROVE  ~locked["snd"] /\ ~locked["rec"]
BY DEF CallsInv, OthersEnded, Ended

\* A list of one call ends the calls of its kind.
LEMMA OneEnded ==
  /\ \A r \in Results : todo' = <<EndSend(r)>> => Ended("snd")'
  /\ \A r \in Results : todo' = <<EndReceive(r)>> => Ended("rec")'
<1>1. 1 \in 1..1  OBVIOUS
<1>2. ASSUME NEW r \in Results, todo' = <<EndSend(r)>> PROVE Ended("snd")'
  <2>1. Len(todo') = 1 /\ todo'[1] = EndSend(r)  BY <1>2
  <2>2. EndSend(r).op = "end" /\ EndSend(r).kind = "snd" /\ EndSend(r).methods = {"SEND"}
    BY DEF EndSend, EndOf
  <2> QED BY <1>1, <2>1, <2>2, KindFacts DEF Ended
<1>3. ASSUME NEW r \in Results, todo' = <<EndReceive(r)>> PROVE Ended("rec")'
  <2>1. Len(todo') = 1 /\ todo'[1] = EndReceive(r)  BY <1>3
  <2>2. EndReceive(r).op = "end" /\ EndReceive(r).kind = "rec"
        /\ EndReceive(r).methods = {"RECEIVE"}
    BY DEF EndReceive, EndOf
  <2> QED BY <1>1, <2>1, <2>2, KindFacts DEF Ended
<1> QED BY <1>2, <1>3

LEMMA PollSendKeeps == ASSUME CallsInv, PollSend PROVE CallsInv'
<1> USE DEF PollSend, At, userVars
<1>1. todo' = <<>> \/ todo' = <<EndSend(Failed)>>  OBVIOUS
<1>2. todo' \in Seq(EndOps)  BY <1>1, EndLists, EndTypes, ResultFacts
<1>3. locked' = locked \/ (locked' = [locked EXCEPT !["snd"] = TRUE] /\ Waiting("snd"))
  BY DEF Lock
<1>4. \A k \in Kinds : locked'[k] => locked[k] \/ para[k] # NoCall
  BY <1>3 DEF Waiting, CallsInv, TypeOK
<1>5. TodoShape' /\ CallsKept' /\ SlotsKept'  BY <1>2, <1>4, QuietKeeps
<1>6. flow' \in {None, "flight", "blocked"} /\ phase' = "rec"
  BY DEF CallsInv, TypeOK
<1>7. locked' \in [Kinds -> BOOLEAN]  BY <1>3 DEF CallsInv, TypeOK
<1>8. TypeOK'  BY <1>2, <1>6, <1>7, EndsAreTodos DEF CallsInv, TypeOK
<1>9. FreedLast'  BY DEF CallsInv, FreedLast
<1>10. OthersEnded'
  <2> SUFFICES ASSUME conn' = "CLOSING", ~finReced', NEW k \in {"snd", "rec"}, locked'[k]
               PROVE  Ended(k)'
    BY DEF OthersEnded
  <2>1. ~locked["snd"] /\ ~locked["rec"]  BY NothingServed
  <2>2. k = "snd" /\ Waiting("snd")  BY <1>3, <2>1, KindFacts DEF CallsInv, TypeOK
  <2>3. todo' = <<EndSend(Failed)>>  BY <2>2
  <2> QED BY <2>2, <2>3, OneEnded, ResultFacts
<1> QED BY <1>5, <1>8, <1>9, <1>10 DEF CallsInv

LEMMA PollReceiveKeeps == ASSUME CallsInv, PollReceive PROVE CallsInv'
<1> USE DEF PollReceive, At, userVars
<1>1. todo' = <<>> \/ todo' = <<EndReceive(Failed)>> \/ todo' = <<EndReceive(Ok)>>
  OBVIOUS
<1>2. todo' \in Seq(EndOps)  BY <1>1, EndLists, EndTypes, ResultFacts
<1>3. locked' = locked \/ (locked' = [locked EXCEPT !["rec"] = TRUE] /\ Waiting("rec"))
  BY DEF Lock
<1>4. \A k \in Kinds : locked'[k] => locked[k] \/ para[k] # NoCall
  BY <1>3 DEF Waiting, CallsInv, TypeOK
<1>5. TodoShape' /\ CallsKept' /\ SlotsKept'  BY <1>2, <1>4, QuietKeeps
<1>6. ready' \in 0..1 /\ phase' = "packets"
  BY DEF CallsInv, TypeOK, MessageReady
<1>7. locked' \in [Kinds -> BOOLEAN]  BY <1>3 DEF CallsInv, TypeOK
<1>8. TypeOK'  BY <1>2, <1>6, <1>7, EndsAreTodos DEF CallsInv, TypeOK
<1>9. FreedLast'  BY DEF CallsInv, FreedLast
<1>10. OthersEnded'
  <2> SUFFICES ASSUME conn' = "CLOSING", ~finReced', NEW k \in {"snd", "rec"}, locked'[k]
               PROVE  Ended(k)'
    BY DEF OthersEnded
  <2>1. ~locked["snd"] /\ ~locked["rec"]  BY NothingServed
  <2>2. k = "rec" /\ Waiting("rec")  BY <1>3, <2>1, KindFacts DEF CallsInv, TypeOK
  <2>3. todo' = <<EndReceive(Failed)>> \/ todo' = <<EndReceive(Ok)>>  BY <2>2
  <2> QED BY <2>2, <2>3, OneEnded, ResultFacts
<1> QED BY <1>5, <1>8, <1>9, <1>10 DEF CallsInv

LEMMA QuietStepKeeps == ASSUME CallsInv, QuietStep PROVE CallsInv'
<1> USE DEF QuietStep, At, callVars, userVars, connVars
<1>1. todo' \in Seq(EndOps) /\ todo = <<>>  BY EndLists
<1>2. TodoShape' /\ CallsKept' /\ SlotsKept'  BY <1>1, QuietKeeps
<1>3. TypeOK'  BY DEF CallsInv, TypeOK
<1>4. FreedLast'  BY DEF CallsInv, FreedLast
<1>5. OthersEnded'  BY DEF CallsInv, OthersEnded, Ended
<1> QED BY <1>2, <1>3, <1>4, <1>5 DEF CallsInv

-----------------------------------------------------------------------------
(* What arrives, and the end of the socket *)

LEMMA PacketTypes ==
  ASSUME CallsInv, todo = <<>>, PacketEvents
  PROVE  /\ todo' \in Seq(EndOps)
         /\ conn' \in States /\ error' \in BOOLEAN /\ finReced' \in BOOLEAN
         /\ opened' \in BOOLEAN /\ ready' \in 0..1
         /\ flow' \in {None, "flight", "blocked"}
         /\ conn' = "FREED" => conn = "FREED"
         /\ conn' = "CLOSING" /\ ~finReced' => conn = "CLOSING" /\ ~finReced
<1>1. /\ conn \in States /\ error \in BOOLEAN /\ finReced \in BOOLEAN /\ opened \in BOOLEAN
      /\ ready \in 0..1 /\ flow \in {None, "flight", "blocked"}
  BY DEF CallsInv, TypeOK
<1>2. {"CLOSED", "CONNECTING", "ESTABLISHED", "CLOSING", "FREED"} = States  BY DEF States
<1>3. /\ <<>> \in Seq(EndOps) /\ EnterClosed \in Seq(EndOps)
      /\ \A q \in Seq(EndOps) : q \o ConnectionError \in Seq(EndOps)
  BY EndLists, ConcatProperties
<1>4. /\ <<EndOf("ctrl", {"CONNECT"}, Ok)>> \in Seq(EndOps)
      /\ <<EndAllCtrl(Failed)>> \in Seq(EndOps) /\ <<EndSend(Failed)>> \in Seq(EndOps)
      /\ <<EndSend(Ok)>> \in Seq(EndOps) /\ <<EndReceive(Ok)>> \in Seq(EndOps)
  BY EndTypes, EndLists, ResultFacts
<1>5. CASE SynArrives  BY <1>1, <1>2, <1>3, <1>5 DEF SynArrives, GoTo
<1>6. CASE HandshakeDone  BY <1>1, <1>2, <1>4, <1>6 DEF HandshakeDone, GoTo
<1>7. CASE FinArrives  BY <1>1, <1>2, <1>3, <1>7 DEF FinArrives, GoTo
<1>8. CASE CloseDone  BY <1>1, <1>2, <1>3, <1>8 DEF CloseDone, GoTo
<1>9. CASE ResetArrives  BY <1>1, <1>2, <1>3, <1>9 DEF ResetArrives, Fail
<1>10. CASE CtrlGivesUp  BY <1>1, <1>2, <1>3, <1>4, <1>10 DEF CtrlGivesUp, Fail
<1>11. CASE DataGivesUp  BY <1>1, <1>2, <1>3, <1>4, <1>11 DEF DataGivesUp, Fail
<1>12. CASE MessageArrives
  <2>1. \/ todo' = <<EndReceive(Ok)>> /\ ready' = ready
        \/ todo' = <<>> /\ ready' = 1
    BY <1>12 DEF MessageArrives
  <2>2. conn' = conn /\ error' = error /\ finReced' = finReced /\ opened' = opened
        /\ flow' = flow
    BY <1>12 DEF MessageArrives
  <2>3. todo' \in Seq(EndOps)  BY <1>3, <1>4, <2>1
  <2>4. ready' \in 0..1  BY <1>1, <2>1
  <2> QED BY <1>1, <2>2, <2>3, <2>4
<1>13. CASE AckArrives  BY <1>1, <1>2, <1>3, <1>4, <1>13 DEF AckArrives
<1> QED BY <1>5, <1>6, <1>7, <1>8, <1>9, <1>10, <1>11, <1>12, <1>13 DEF PacketEvents

LEMMA PacketKeeps == ASSUME CallsInv, PacketStep(PacketEvents) PROVE CallsInv'
<1>1. todo = <<>> /\ PacketEvents /\ phase = "packets" /\ phase' = "sleep"
      /\ UNCHANGED <<para, locked, ok, done, answer, pc, returned, made>>
  BY DEF PacketStep, At, callVars, userVars
<1>2. /\ todo' \in Seq(EndOps)
      /\ conn' \in States /\ error' \in BOOLEAN /\ finReced' \in BOOLEAN
      /\ opened' \in BOOLEAN /\ ready' \in 0..1
      /\ flow' \in {None, "flight", "blocked"}
      /\ conn' = "FREED" => conn = "FREED"
      /\ conn' = "CLOSING" /\ ~finReced' => conn = "CLOSING" /\ ~finReced
  BY <1>1, PacketTypes
<1>3. TodoShape' /\ CallsKept' /\ SlotsKept'  BY <1>1, <1>2, QuietKeeps
<1>4. TypeOK'  BY <1>1, <1>2, EndsAreTodos DEF CallsInv, TypeOK
<1>5. FreedLast'  BY <1>1, <1>2 DEF CallsInv, FreedLast
<1>6. OthersEnded'  BY <1>1, <1>2, NothingServed DEF OthersEnded
<1> QED BY <1>3, <1>4, <1>5, <1>6 DEF CallsInv

LEMMA FreeKeeps == ASSUME CallsInv, BeginFree \/ EndFree PROVE CallsInv'
<1> USE DEF At, callVars, userVars, connVars
<1>1. CASE BeginFree
  <2>1. todo = <<>> /\ todo' \in Seq(EndOps)  BY <1>1, EndLists DEF BeginFree
  <2>2. TodoShape' /\ CallsKept' /\ SlotsKept'  BY <1>1, <2>1, QuietKeeps DEF BeginFree
  <2>3. TypeOK'  BY <1>1, <2>1, EndsAreTodos DEF BeginFree, CallsInv, TypeOK
  <2>4. FreedLast'  BY <1>1 DEF BeginFree, CallsInv, FreedLast
  <2>5. OthersEnded'  BY <1>1, NothingServed DEF BeginFree, OthersEnded
  <2> QED BY <2>2, <2>3, <2>4, <2>5 DEF CallsInv
<1>2. CASE EndFree
  <2>1. todo = <<>> /\ todo' \in Seq(EndOps)  BY <1>2, EndLists DEF EndFree
  <2>2. TodoShape' /\ CallsKept' /\ SlotsKept'  BY <1>2, <2>1, QuietKeeps DEF EndFree
  <2>3. TypeOK'  BY <1>2 DEF EndFree, CallsInv, TypeOK, States
  <2>4. FreedLast'  BY <1>2 DEF EndFree, FreedLast
  <2>5. OthersEnded'  BY <1>2 DEF EndFree, OthersEnded
  <2> QED BY <2>2, <2>3, <2>4, <2>5 DEF CallsInv
<1> QED BY <1>1, <1>2

-----------------------------------------------------------------------------
(* The thread ends a call and sets its event *)

\* What is ahead of the thread, when it is not an event to set
LEMMA TodoHead ==
  ASSUME CallsInv, todo # <<>>
  PROVE  /\ Tail(todo) \in Seq(EndOps)
         /\ Head(todo) \in Ends
         /\ Head(todo).op = "end" => Head(todo) \in EndOps /\ \A k \in Kinds : ~SetAhead(k)
         /\ Head(todo).op = "set" => Head(todo) = SetOf(Head(todo).kind)
<1>1. \A k \in Kinds : SetOf(k).op = "set" /\ SetOf(k).kind = k /\ SetOf(k) \in Ends
  BY ResultFacts DEF SetOf, Ends
<1>2. CASE todo \in Seq(EndOps)
  <2>1. Head(todo) \in EndOps /\ Tail(todo) \in Seq(EndOps)
    BY <1>2, HeadTailProperties
  <2>2. Head(todo).op = "end" /\ Head(todo) \in Ends  BY <2>1 DEF EndOps
  <2> QED BY <1>1, <2>1, <2>2 DEF SetAhead
<1>3. ASSUME Tail(todo) \in Seq(EndOps), NEW k \in Kinds, Head(todo) = SetOf(k)
      PROVE  /\ Head(todo) \in Ends /\ Head(todo).op = "set"
             /\ Head(todo) = SetOf(Head(todo).kind)
  BY <1>1, <1>3
<1> QED BY <1>2, <1>3 DEF CallsInv, TodoShape

\* Calls of the rest of the list stay ahead of the thread.
LEMMA StillEnded ==
  ASSUME CallsInv, todo # <<>>, NEW k \in Kinds, Ended(k), locked[k],
         NEW q, todo' = q \o Tail(todo), q \in Seq(Ends),
         ~(Head(todo).op = "end" /\ Head(todo).kind = k /\ Concerns(Head(todo)))
  PROVE  Ended(k)'
<1>1. PICK i \in 1..Len(todo) :
        todo[i].op = "end" /\ todo[i].kind = k /\ MethodsOf[k] \subseteq todo[i].methods
  BY DEF Ended
<1>2. todo \in Seq(Ends) /\ Tail(todo) \in Seq(Ends) /\ Len(todo) \in Nat
      /\ Len(Tail(todo)) = Len(todo) - 1 /\ Len(q) \in Nat /\ Head(todo) = todo[1]
  BY HeadTailProperties, LenProperties DEF CallsInv, TypeOK
<1>3. i # 1
  <2>1. para[k].method \in MethodsOf[k]  BY DEF CallsInv, SlotsKept, SlotOf
  <2> QED BY <1>1, <1>2, <2>1 DEF Concerns
<1>4. i - 1 \in 1..Len(Tail(todo)) /\ Tail(todo)[i - 1] = todo[i]
  BY <1>1, <1>2, <1>3
<1>5. Len(todo') = Len(q) + Len(Tail(todo))
      /\ Len(q) + (i - 1) \in 1..Len(todo')
      /\ todo'[Len(q) + (i - 1)] = todo[i]
  BY <1>2, <1>4, ConcatProperties
<1> QED BY <1>1, <1>5 DEF Ended

LEMMA Prepended ==
  ASSUME NEW S, NEW x \in S, NEW q \in Seq(S)
  PROVE  /\ <<x>> \in Seq(S) /\ <<x>> \o q \in Seq(S)
         /\ <<x>> \o q # <<>> /\ Head(<<x>> \o q) = x /\ Tail(<<x>> \o q) = q
<1>1. <<x>> \in Seq(S) /\ Len(<<x>>) = 1 /\ <<x>>[1] = x  OBVIOUS
<1>2. Len(q) \in Nat  BY LenProperties
<1>3. /\ <<x>> \o q \in Seq(S) /\ Len(<<x>> \o q) = 1 + Len(q)
      /\ \A i \in 1..(1 + Len(q)) :
           (<<x>> \o q)[i] = IF i <= 1 THEN <<x>>[i] ELSE q[i - 1]
  BY <1>1, ConcatProperties
<1> DEFINE p == <<x>> \o q
<1> HIDE DEF p
<1>4. p \in Seq(S) /\ Len(p) = 1 + Len(q) /\ p[1] = x
      /\ \A i \in 1..Len(q) : p[i + 1] = q[i]
  BY <1>1, <1>2, <1>3 DEF p
<1>5. p # <<>>  BY <1>2, <1>4
<1>6. /\ Head(p) = p[1] /\ Tail(p) \in Seq(S) /\ Len(Tail(p)) = Len(p) - 1
      /\ \A i \in 1..Len(Tail(p)) : Tail(p)[i] = p[i + 1]
  BY <1>4, <1>5, HeadTailProperties
<1>7. Len(Tail(p)) = Len(q) /\ \A i \in 1..Len(q) : Tail(p)[i] = q[i]
  BY <1>2, <1>4, <1>6
<1>8. Tail(p) = q  BY <1>6, <1>7, SeqEqual
<1> QED BY <1>1, <1>4, <1>5, <1>6, <1>8 DEF p

LEMMA EndStepKeeps == ASSUME CallsInv, EndStep PROVE CallsInv'
<1> DEFINE e == Head(todo)
<1>1. todo # <<>> /\ UNCHANGED <<pc, returned, made, conn, error, finReced, opened, ready, phase>>
  BY DEF EndStep, userVars
<1>2. /\ Tail(todo) \in Seq(EndOps) /\ e \in Ends
      /\ e.op = "end" => e \in EndOps /\ \A k \in Kinds : ~SetAhead(k)
      /\ e.op = "set" => e = SetOf(e.kind)
  BY <1>1, TodoHead
<1>3. e.kind \in Kinds /\ e.result \in Results /\ e.op \in {"end", "set"}
  BY <1>2 DEF Ends
<1>4. \A k \in Kinds : SetOf(k) \in Ends /\ SetOf(k).op = "set" /\ SetOf(k).kind = k
  BY ResultFacts DEF SetOf, Ends
<1>5. Tail(todo) \in Seq(Ends)  BY <1>2, EndsAreTodos
<1>6. FreedLast'  BY <1>1 DEF CallsInv, FreedLast
\* The call is answered.
<1>7. CASE e.op = "end" /\ Concerns(e)
  <2> DEFINE k == e.kind
             u == para[k].by
  <2>1. /\ ok' = [ok EXCEPT ![k] = e.result]
        /\ para' = [para EXCEPT ![k] = NoCall]
        /\ locked' = [locked EXCEPT ![k] = FALSE]
        /\ answer' = [answer EXCEPT ![u] = e.result]
        /\ flow' = IF k = "snd" THEN None ELSE flow
        /\ todo' = <<SetOf(k)>> \o Tail(todo)
        /\ done' = done
    BY <1>7 DEF EndStep, EndCall, AfterEnd, SetOf
  <2>2. k \in Kinds /\ locked[k] /\ para[k] # NoCall /\ u \in Users /\ KindOf[u] = k
    BY <1>3, <1>7 DEF Concerns, CallsInv, SlotsKept, SlotOf
  <2>3. pc[u] = "waiting" /\ answer[u] = None
    BY <2>2 DEF CallsInv, CallsKept, CallOf
  <2>4. todo' # <<>> /\ Head(todo') = SetOf(k) /\ Tail(todo') \in Seq(EndOps)
        /\ todo' \in Seq(Ends) /\ <<SetOf(k)>> \in Seq(Ends)
    <3>1. SetOf(k) \in Ends  BY <1>4, <2>2
    <3> HIDE DEF k
    <3> DEFINE x == SetOf(k)  q == Tail(todo)
    <3>2. x \in Ends /\ q \in Seq(Ends) /\ q \in Seq(EndOps)  BY <1>2, <1>5, <3>1
    <3>3. todo' = <<x>> \o q  BY <2>1
    <3> HIDE DEF x, q
    <3>4. <<x>> \in Seq(Ends) /\ todo' \in Seq(Ends) /\ todo' # <<>> /\ Head(todo') = x
          /\ Tail(todo') = q
      BY <3>2, <3>3, Prepended
    <3> QED BY <3>2, <3>4 DEF x
  <2>5. \A j \in Kinds : SetAhead(j)' <=> j = k
    BY <1>4, <2>2, <2>4 DEF SetAhead
  <2>6. \A j \in Kinds : ~SetAhead(j)  BY <1>2, <1>7
  <2> HIDE DEF k, u
  <2>7. TodoShape'  BY <2>2, <2>4 DEF TodoShape
  <2>8. NoCall \in [method : Methods, by : Users] \union {NoCall}
        /\ e.result \in Results \union {None}
        /\ flow' \in {None, "flight", "blocked"}
    BY <1>3, <2>1 DEF CallsInv, TypeOK
  <2>9. TypeOK'
    BY <1>1, <1>3, <2>1, <2>2, <2>4, <2>8 DEF CallsInv, TypeOK
  <2>10. CallsKept'
    <3> SUFFICES ASSUME NEW v \in Users PROVE CallOf(v)'
      BY DEF CallsKept
    <3>1. KindOf[v] \in Kinds /\ CallOf(v)
      BY KindAssumption DEF CallsInv, CallsKept
    <3>2. /\ para \in [Kinds -> [method : Methods, by : Users] \union {NoCall}]
          /\ ok \in [Kinds -> Results] /\ answer \in [Users -> Results \union {None}]
      BY DEF CallsInv, TypeOK
    <3>3. CASE v = u
      <4>1. KindOf[v] = k /\ answer'[v] = e.result /\ ok'[k] = e.result
            /\ para'[k] = NoCall /\ pc'[v] = "waiting"
        BY <1>1, <2>1, <2>2, <2>3, <3>2, <3>3
      <4>2. e.result # None  BY <1>3, ResultFacts
      <4>3. ~done[k]  BY <2>2, <2>3, <3>1, <3>3 DEF CallOf
      <4>4. SetAhead(KindOf[v])' /\ ~done'[KindOf[v]]  BY <2>1, <2>2, <2>5, <4>1, <4>3
      <4>5. /\ answer'[v] = ok'[KindOf[v]] /\ answer'[v] # None
            /\ para'[KindOf[v]] = NoCall
        BY <4>1, <4>2
      <4> QED BY <4>1, <4>4, <4>5 DEF CallOf
    <3>4. CASE v # u
      <4>1. KindOf[v] # k  BY <2>2, <3>4, OneUserPerKind
      <4>2. answer'[v] = answer[v] /\ ok'[KindOf[v]] = ok[KindOf[v]]
            /\ para'[KindOf[v]] = para[KindOf[v]] /\ done'[KindOf[v]] = done[KindOf[v]]
            /\ pc'[v] = pc[v]
        BY <1>1, <2>1, <3>1, <3>2, <3>4, <4>1
      <4>3. ~SetAhead(KindOf[v])' /\ ~SetAhead(KindOf[v])
        BY <2>5, <2>6, <3>1, <4>1
      <4> QED BY <3>1, <4>2, <4>3 DEF CallOf
    <3> QED BY <3>3, <3>4
  <2>11. SlotsKept'
    <3> SUFFICES ASSUME NEW j \in Kinds PROVE SlotOf(j)'
      BY DEF SlotsKept
    <3>1. SlotOf(j)  BY DEF CallsInv, SlotsKept
    <3>2. CASE j = k
      <4>1. ~locked'[j] /\ para'[j] = NoCall
        BY <2>1, <2>2, <3>2 DEF CallsInv, TypeOK
      <4> QED BY <4>1 DEF SlotOf
    <3>3. CASE j # k
      <4>1. locked'[j] = locked[j] /\ para'[j] = para[j]
        BY <2>1, <3>3 DEF CallsInv, TypeOK
      <4> QED BY <3>1, <4>1 DEF SlotOf
    <3> QED BY <3>2, <3>3
  <2>12. OthersEnded'
    <3> SUFFICES ASSUME conn' = "CLOSING", ~finReced', NEW j \in {"snd", "rec"}, locked'[j]
                 PROVE  Ended(j)'
      BY DEF OthersEnded
    <3>1. j \in Kinds /\ j # k /\ locked[j]
      BY <2>1, <2>2, KindFacts DEF CallsInv, TypeOK
    <3>2. Ended(j)  BY <1>1, <3>1 DEF CallsInv, OthersEnded
    <3> QED BY <1>1, <2>1, <2>4, <3>1, <3>2, StillEnded DEF k
  <2> QED BY <1>6, <2>7, <2>9, <2>10, <2>11, <2>12 DEF CallsInv
\* Nobody has made the call.
<1>8. CASE e.op = "end" /\ ~Concerns(e)
  <2>1. todo' = Tail(todo) /\ UNCHANGED <<para, locked, ok, done, answer, flow>>
    BY <1>8 DEF EndStep, callVars
  <2>2. TodoShape' /\ todo' \in Seq(EndOps)  BY <1>2, <2>1 DEF TodoShape
  <2>3. TypeOK'  BY <1>1, <1>5, <2>1 DEF CallsInv, TypeOK
  <2>4. \A k \in Kinds : ~SetAhead(k)  BY <1>2, <1>8
  <2>5. \A k \in Kinds : ~SetAhead(k)'
    <3>1. ASSUME todo' # <<>> PROVE Head(todo').op = "end"
      BY <2>2, <3>1, HeadTailProperties DEF EndOps
    <3> QED BY <3>1 DEF SetAhead, SetOf
  <2>6. CallsKept'
    <3> SUFFICES ASSUME NEW u \in Users PROVE CallOf(u)'
      BY DEF CallsKept
    <3>1. KindOf[u] \in Kinds /\ CallOf(u)
      BY KindAssumption DEF CallsInv, CallsKept
    <3> QED BY <1>1, <2>1, <2>4, <2>5, <3>1 DEF CallOf
  <2>7. SlotsKept'  BY <2>1 DEF CallsInv, SlotsKept, SlotOf
  <2>8. OthersEnded'
    <3> SUFFICES ASSUME conn' = "CLOSING", ~finReced', NEW j \in {"snd", "rec"}, locked'[j]
                 PROVE  Ended(j)'
      BY DEF OthersEnded
    <3>1. j \in Kinds /\ locked[j]  BY <2>1, KindFacts
    <3>2. Ended(j)  BY <1>1, <3>1 DEF CallsInv, OthersEnded
    <3>3. todo' = <<>> \o Tail(todo) /\ <<>> \in Seq(Ends)
      BY <1>5, <2>1, ConcatEmptySeq
    <3> QED BY <1>1, <1>8, <3>1, <3>2, <3>3, StillEnded
  <2> QED BY <1>6, <2>2, <2>3, <2>6, <2>7, <2>8 DEF CallsInv
\* The event is set.
<1>9. CASE e.op = "set"
  <2> DEFINE k == e.kind
  <2>1. done' = [done EXCEPT ![k] = TRUE] /\ todo' = Tail(todo)
        /\ UNCHANGED <<para, locked, ok, answer, flow>>
    BY <1>9 DEF EndStep
  <2>2. k \in Kinds /\ e = SetOf(k)  BY <1>2, <1>3, <1>9
  <2>3. \A j \in Kinds : SetAhead(j) <=> j = k
    BY <1>1, <1>4, <2>2 DEF SetAhead
  <2> HIDE DEF k
  <2>4. TodoShape' /\ todo' \in Seq(EndOps)  BY <1>2, <2>1 DEF TodoShape
  <2>5. TypeOK'  BY <1>1, <1>5, <2>1, <2>2 DEF CallsInv, TypeOK
  <2>6. \A j \in Kinds : ~SetAhead(j)'
    <3>1. ASSUME todo' # <<>> PROVE Head(todo').op = "end"
      BY <2>4, <3>1, HeadTailProperties DEF EndOps
    <3> QED BY <3>1 DEF SetAhead, SetOf
  <2>7. CallsKept'
    <3> SUFFICES ASSUME NEW u \in Users PROVE CallOf(u)'
      BY DEF CallsKept
    <3>1. KindOf[u] \in Kinds /\ CallOf(u)
      BY KindAssumption DEF CallsInv, CallsKept
    <3>2. done' \in [Kinds -> BOOLEAN] /\ done'[KindOf[u]] = (KindOf[u] = k \/ done[KindOf[u]])
      BY <2>1, <2>2, <3>1 DEF CallsInv, TypeOK
    <3>3. (KindOf[u] = k \/ done[KindOf[u]]) <=> (SetAhead(KindOf[u]) \/ done[KindOf[u]])
      BY <2>3, <3>1
    <3>4. ~SetAhead(KindOf[u])'  BY <2>6, <3>1
    <3> QED BY <1>1, <2>1, <3>1, <3>2, <3>3, <3>4 DEF CallOf
  <2>8. SlotsKept'  BY <2>1 DEF CallsInv, SlotsKept, SlotOf
  <2>9. OthersEnded'
    <3> SUFFICES ASSUME conn' = "CLOSING", ~finReced', NEW j \in {"snd", "rec"}, locked'[j]
                 PROVE  Ended(j)'
      BY DEF OthersEnded
    <3>1. j \in Kinds /\ locked[j]  BY <2>1, KindFacts
    <3>2. Ended(j)  BY <1>1, <3>1 DEF CallsInv, OthersEnded
    <3>3. todo' = <<>> \o Tail(todo) /\ <<>> \in Seq(Ends)
      BY <1>5, <2>1, ConcatEmptySeq
    <3> QED BY <1>1, <1>9, <3>1, <3>2, <3>3, StillEnded
  <2> QED BY <1>6, <2>4, <2>5, <2>7, <2>8, <2>9 DEF CallsInv
<1> QED BY <1>3, <1>7, <1>8, <1>9

-----------------------------------------------------------------------------
(* The users *)

\* What a step of one user leaves of the calls of the others
LEMMA OthersKept ==
  ASSUME CallsInv, NEW u \in Users, CallOf(u)',
         UNCHANGED <<ok, todo>>,
         \A v \in Users \ {u} : pc'[v] = pc[v] /\ answer'[v] = answer[v],
         \A k \in Kinds \ {KindOf[u]} : para'[k] = para[k] /\ done'[k] = done[k]
  PROVE  CallsKept'
<1> SUFFICES ASSUME NEW v \in Users, v # u PROVE CallOf(v)'
  BY DEF CallsKept
<1>1. KindOf[v] \in Kinds /\ KindOf[v] # KindOf[u] /\ CallOf(v)
  BY KindAssumption, OneUserPerKind DEF CallsInv, CallsKept
<1>2. /\ para'[KindOf[v]] = para[KindOf[v]] /\ done'[KindOf[v]] = done[KindOf[v]]
      /\ pc'[v] = pc[v] /\ answer'[v] = answer[v]
  BY <1>1
<1>3. SetAhead(KindOf[v])' <=> SetAhead(KindOf[v])  BY DEF SetAhead
<1> QED BY <1>1, <1>2, <1>3 DEF CallOf

LEMMA CallKeeps ==
  ASSUME CallsInv, NEW u \in Users, NEW m \in MethodsOf[KindOf[u]], CallStep(u, m)
  PROVE  CallsInv'
<1>1. KindOf[u] \in Kinds /\ m \in Methods /\ CallOf(u)
  BY KindAssumption, KindFacts DEF CallsInv, CallsKept
<1>2. /\ para' = [para EXCEPT ![KindOf[u]] = [method |-> m, by |-> u]]
      /\ done' = [done EXCEPT ![KindOf[u]] = FALSE]
      /\ pc' = [pc EXCEPT ![u] = "waiting"]
      /\ returned' = [returned EXCEPT ![u] = None]
      /\ made' = IF KindOf[u] = "ctrl" THEN made \union {m} ELSE made
      /\ pc[u] = "idle" /\ ~locked[KindOf[u]]
      /\ UNCHANGED <<locked, ok, answer, conn, error, finReced, opened, ready, flow, phase, todo>>
  BY DEF CallStep, Post, connVars
<1>3. [method |-> m, by |-> u] \in [method : Methods, by : Users]
      /\ [method |-> m, by |-> u] # NoCall
  BY <1>1, NoCallApart
<1>4. made' \subseteq MethodsOf["ctrl"]  BY <1>2 DEF CallsInv, TypeOK
<1>5. TypeOK'
  <2>1. para' \in [Kinds -> [method : Methods, by : Users] \union {NoCall}]
    BY <1>1, <1>2, <1>3 DEF CallsInv, TypeOK
  <2>2. done' \in [Kinds -> BOOLEAN] /\ pc' \in [Users -> {"idle", "waiting", "woken"}]
        /\ returned' \in [Users -> Results \union {None}]
    BY <1>1, <1>2 DEF CallsInv, TypeOK
  <2> QED BY <1>2, <1>4, <2>1, <2>2 DEF CallsInv, TypeOK
<1>6. TodoShape'  BY <1>2 DEF CallsInv, TodoShape
<1>7. FreedLast'  BY <1>2 DEF CallsInv, FreedLast
<1>8. OthersEnded'  BY <1>2 DEF CallsInv, OthersEnded, Ended
<1>9. /\ para'[KindOf[u]] = [method |-> m, by |-> u]
      /\ ~done'[KindOf[u]] /\ pc'[u] = "waiting"
      /\ \A k \in Kinds \ {KindOf[u]} : para'[k] = para[k] /\ done'[k] = done[k]
      /\ \A v \in Users \ {u} : pc'[v] = pc[v]
  BY <1>1, <1>2 DEF CallsInv, TypeOK
<1>10. CallOf(u)'
  <2>1. answer[u] = None /\ ~SetAhead(KindOf[u])  BY <1>1, <1>2 DEF CallOf
  <2>2. ~SetAhead(KindOf[u])'  BY <1>2, <2>1 DEF SetAhead
  <2> QED BY <1>2, <1>3, <1>9, <2>1, <2>2 DEF CallOf
<1>11. CallsKept'  BY <1>2, <1>9, <1>10, OthersKept
<1>12. SlotsKept'
  <2> SUFFICES ASSUME NEW k \in Kinds PROVE SlotOf(k)'
    BY DEF SlotsKept
  <2>1. SlotOf(k)  BY DEF CallsInv, SlotsKept
  <2>2. CASE k = KindOf[u]
    <3>1. para'[k].method = m /\ para'[k].by = u  BY <1>9, <2>2
    <3> QED BY <1>2, <2>2, <3>1 DEF SlotOf
  <2>3. CASE k # KindOf[u]  BY <1>2, <1>9, <2>1, <2>3 DEF SlotOf
  <2> QED BY <2>2, <2>3
<1> QED BY <1>5, <1>6, <1>7, <1>8, <1>11, <1>12 DEF CallsInv

LEMMA WakeKeeps == ASSUME CallsInv, NEW u \in Users, Wake(u) PROVE CallsInv'
<1>1. KindOf[u] \in Kinds /\ CallOf(u)
  BY KindAssumption DEF CallsInv, CallsKept
<1>2. /\ pc[u] = "waiting" /\ done[KindOf[u]]
      /\ done' = [done EXCEPT ![KindOf[u]] = FALSE]
      /\ pc' = [pc EXCEPT ![u] = "woken"]
      /\ UNCHANGED <<para, locked, ok, answer, returned, made, conn, error, finReced, opened,
                     ready, flow, phase, todo>>
  BY DEF Wake, connVars
<1>3. TypeOK'  BY <1>1, <1>2 DEF CallsInv, TypeOK
<1>4. TodoShape' /\ FreedLast'  BY <1>2 DEF CallsInv, TodoShape, FreedLast
<1>5. OthersEnded'  BY <1>2 DEF CallsInv, OthersEnded, Ended
<1>6. SlotsKept'  BY <1>2 DEF CallsInv, SlotsKept, SlotOf
<1>7. /\ ~done'[KindOf[u]] /\ pc'[u] = "woken"
      /\ \A k \in Kinds \ {KindOf[u]} : para'[k] = para[k] /\ done'[k] = done[k]
      /\ \A v \in Users \ {u} : pc'[v] = pc[v]
  BY <1>1, <1>2 DEF CallsInv, TypeOK
<1>8. CallOf(u)'
  <2>1. answer[u] # None /\ ~SetAhead(KindOf[u]) /\ para[KindOf[u]] = NoCall
        /\ answer[u] = ok[KindOf[u]]
    BY <1>1, <1>2 DEF CallOf
  <2>2. ~SetAhead(KindOf[u])'  BY <1>2, <2>1 DEF SetAhead
  <2> QED BY <1>2, <1>7, <2>1, <2>2 DEF CallOf
<1>9. CallsKept'  BY <1>2, <1>7, <1>8, OthersKept
<1> QED BY <1>3, <1>4, <1>5, <1>6, <1>9 DEF CallsInv

LEMMA ReturnKeeps == ASSUME CallsInv, NEW u \in Users, Return(u) PROVE CallsInv'
<1>1. KindOf[u] \in Kinds /\ CallOf(u)
  BY KindAssumption DEF CallsInv, CallsKept
<1>2. /\ pc[u] = "woken"
      /\ pc' = [pc EXCEPT ![u] = "idle"]
      /\ returned' = [returned EXCEPT ![u] = ok[KindOf[u]]]
      /\ answer' = [answer EXCEPT ![u] = None]
      /\ UNCHANGED <<para, locked, ok, done, made, conn, error, finReced, opened,
                     ready, flow, phase, todo>>
  BY DEF Return, connVars
<1>3. TypeOK'  BY <1>1, <1>2 DEF CallsInv, TypeOK
<1>4. TodoShape' /\ FreedLast'  BY <1>2 DEF CallsInv, TodoShape, FreedLast
<1>5. OthersEnded'  BY <1>2 DEF CallsInv, OthersEnded, Ended
<1>6. SlotsKept'  BY <1>2 DEF CallsInv, SlotsKept, SlotOf
<1>7. /\ pc'[u] = "idle" /\ answer'[u] = None
      /\ \A v \in Users \ {u} : pc'[v] = pc[v] /\ answer'[v] = answer[v]
  BY <1>1, <1>2 DEF CallsInv, TypeOK
<1>8. CallOf(u)'
  <2>1. ~done[KindOf[u]] /\ ~SetAhead(KindOf[u]) /\ para[KindOf[u]] = NoCall
    BY <1>1, <1>2 DEF CallOf
  <2>2. ~SetAhead(KindOf[u])'  BY <1>2, <2>1 DEF SetAhead
  <2> QED BY <1>2, <1>7, <2>1, <2>2 DEF CallOf
<1>9. CallsKept'  BY <1>2, <1>7, <1>8, OthersKept
<1> QED BY <1>3, <1>4, <1>5, <1>6, <1>9 DEF CallsInv

-----------------------------------------------------------------------------
(* Every behaviour *)

LEMMA CallsInit == ASSUME Init PROVE CallsInv
<1> USE DEF Init
<1>1. todo \in Seq(EndOps)  BY EndLists
<1>2. TodoShape /\ ~(\E k \in Kinds : SetAhead(k))  BY <1>1 DEF TodoShape, SetAhead
<1>3. TypeOK
  <2>1. todo \in Seq(Ends)  BY <1>1, EndsAreTodos
  <2>2. Ok \in Results /\ Failed \in Results  BY ResultFacts
  <2>3. para \in [Kinds -> [method : Methods, by : Users] \union {NoCall}]
        /\ locked \in [Kinds -> BOOLEAN] /\ ok \in [Kinds -> Results]
        /\ done \in [Kinds -> BOOLEAN]
    BY <2>2
  <2>4. /\ pc \in [Users -> {"idle", "waiting", "woken"}]
        /\ answer \in [Users -> Results \union {None}]
        /\ returned \in [Users -> Results \union {None}]
        /\ made \subseteq MethodsOf["ctrl"]
    OBVIOUS
  <2>5. ready \in 0..1 /\ flow \in {None, "flight", "blocked"}
    OBVIOUS
  <2>6. /\ conn \in States /\ error \in BOOLEAN /\ finReced \in BOOLEAN /\ opened \in BOOLEAN
        /\ phase \in {"ctrl", "snd", "rec", "packets", "sleep", "free"}
    BY DEF States
  <2> QED BY <2>1, <2>3, <2>4, <2>5, <2>6 DEF TypeOK
<1>4. CallsKept
  <2> SUFFICES ASSUME NEW u \in Users PROVE CallOf(u)
    BY DEF CallsKept
  <2>1. KindOf[u] \in Kinds  BY KindAssumption
  <2>2. para[KindOf[u]] = NoCall /\ ~done[KindOf[u]] /\ pc[u] = "idle" /\ answer[u] = None
        /\ ~SetAhead(KindOf[u])
    BY <1>2, <2>1
  <2> QED BY <2>2 DEF CallOf
<1>5. SlotsKept  BY DEF SlotsKept, SlotOf
<1>6. OthersEnded /\ FreedLast  BY DEF OthersEnded, FreedLast
<1> QED BY <1>2, <1>3, <1>4, <1>5, <1>6 DEF CallsInv

LEMMA CallsStutter == ASSUME CallsInv, UNCHANGED vars PROVE CallsInv'
<1> USE DEF vars, callVars, userVars, connVars
<1>1. TypeOK' /\ TodoShape' /\ FreedLast'  BY DEF CallsInv, TypeOK, TodoShape, FreedLast
<1>2. CallsKept'  BY DEF CallsInv, CallsKept, CallOf, SetAhead
<1>3. SlotsKept'  BY DEF CallsInv, SlotsKept, SlotOf
<1>4. OthersEnded'  BY DEF CallsInv, OthersEnded, Ended
<1> QED BY <1>1, <1>2, <1>3, <1>4 DEF CallsInv

LEMMA CallsNext == ASSUME CallsInv, [Next]_vars PROVE CallsInv'
<1>1. CASE \E u \in Users : UserStep(u)
  BY <1>1, CallKeeps, WakeKeeps, ReturnKeeps DEF UserStep
<1>2. CASE EndStep  BY <1>2, EndStepKeeps
<1>3. CASE Poll  BY <1>3, PollCtrlKeeps, PollSendKeeps, PollReceiveKeeps, QuietStepKeeps DEF Poll
<1>4. CASE PacketStep(PacketEvents)  BY <1>4, PacketKeeps
<1>5. CASE BeginFree \/ EndFree  BY <1>5, FreeKeeps
<1>6. CASE UNCHANGED vars  BY <1>6, CallsStutter
<1> QED BY <1>1, <1>2, <1>3, <1>4, <1>5, <1>6 DEF Next

\* The slots, locks, results and events of the calls fit together in every behaviour.
THEOREM CallsInvariant == Spec => []CallsInv
BY CallsInit, CallsNext, PTL DEF Spec

\* The variables stay in their domains.
THEOREM CallsTypeCorrect == Spec => []TypeOK
BY CallsInvariant, PTL DEF CallsInv

\* A caller who waits is posted or in service, or its event is set or about to be.
THEOREM NobodyIsForgotten == Spec => []NobodyForgotten
<1>1. CallsInv => NobodyForgotten
  <2> SUFFICES ASSUME CallsInv, NEW u \in Users, pc[u] = "waiting",
                      ~done[KindOf[u]], ~SetAhead(KindOf[u])
               PROVE  para[KindOf[u]].by = u
    BY DEF NobodyForgotten, SetAhead
  <2>1. KindOf[u] \in Kinds /\ CallOf(u)
    BY KindAssumption DEF CallsInv, CallsKept
  <2>2. para[KindOf[u]] # NoCall  BY <2>1 DEF CallOf
  <2>3. para[KindOf[u]].by \in Users /\ KindOf[para[KindOf[u]].by] = KindOf[u]
    BY <2>1, <2>2 DEF CallsInv, SlotsKept, SlotOf
  <2> QED BY <2>3, OneUserPerKind
<1> QED BY <1>1, CallsInvariant, PTL

\* The thread keeps a call's lock only while the caller waits for that call.
THEOREM LocksHaveCallers == Spec => []LockHasCaller
<1>1. CallsInv => LockHasCaller
  <2> SUFFICES ASSUME CallsInv, NEW k \in Kinds, locked[k]
               PROVE  \E u \in Users : pc[u] = "waiting" /\ KindOf[u] = k /\ para[k].by = u
    BY DEF LockHasCaller
  <2>1. para[k] # NoCall /\ para[k].by \in Users /\ KindOf[para[k].by] = k
    BY DEF CallsInv, SlotsKept, SlotOf
  <2>2. CallOf(para[k].by)  BY <2>1 DEF CallsInv, CallsKept
  <2> QED BY <2>1, <2>2 DEF CallOf
<1> QED BY <1>1, CallsInvariant, PTL

\* A close by the user has ended the send and the receive call before the thread handles
\* the next packet.
THEOREM CloseReleases == Spec => []CloseReleasesOthers
<1>1. CallsInv => CloseReleasesOthers  BY NothingServed DEF CloseReleasesOthers, At
<1> QED BY <1>1, CallsInvariant, PTL

-----------------------------------------------------------------------------
(* The service it implements *)

Calling == [u \in Users |-> pc[u] # "idle"]
ServiceStep == [Service!Next]_<<Calling, answer, returned>>

LEMMA ServiceInit == ASSUME Init PROVE Service!Init
<1>1. \A u \in Users : pc[u] = "idle"  BY DEF Init
<1>2. [u \in Users |-> pc[u] # "idle"] = [u \in Users |-> FALSE]  BY <1>1
<1> QED BY <1>2 DEF Init, Service!Init

LEMMA ServiceNext == ASSUME CallsInv, [Next]_vars PROVE ServiceStep
<1>0. /\ pc \in [Users -> {"idle", "waiting", "woken"}]
      /\ answer \in [Users -> Results \union {None}]
      /\ \A u \in Users : CallOf(u)
  BY DEF CallsInv, TypeOK, CallsKept
<1>1. ASSUME NEW u \in Users, NEW m \in MethodsOf[KindOf[u]], CallStep(u, m)
      PROVE  Service!Call(u)
  <2>1. pc' = [pc EXCEPT ![u] = "waiting"] /\ pc[u] = "idle"
        /\ returned' = [returned EXCEPT ![u] = None] /\ answer' = answer
    BY <1>1 DEF CallStep
  <2>2. Calling' = [Calling EXCEPT ![u] = TRUE] /\ ~Calling[u]
    BY <1>0, <2>1 DEF Calling
  <2> QED BY <2>1, <2>2 DEF Service!Call, Calling
<1>2. ASSUME NEW u \in Users, Wake(u) PROVE UNCHANGED <<Calling, answer, returned>>
  <2>1. pc' = [pc EXCEPT ![u] = "woken"] /\ pc[u] = "waiting"
        /\ returned' = returned /\ answer' = answer
    BY <1>2 DEF Wake
  <2>2. Calling' = Calling  BY <1>0, <2>1 DEF Calling
  <2> QED BY <2>1, <2>2
<1>3. ASSUME NEW u \in Users, Return(u) PROVE Service!Return(u)
  <2>1. pc' = [pc EXCEPT ![u] = "idle"] /\ pc[u] = "woken"
        /\ returned' = [returned EXCEPT ![u] = ok[KindOf[u]]]
        /\ answer' = [answer EXCEPT ![u] = None]
    BY <1>3 DEF Return
  <2>2. answer[u] # None /\ answer[u] = ok[KindOf[u]]  BY <1>0, <2>1 DEF CallOf
  <2>3. Calling' = [Calling EXCEPT ![u] = FALSE]  BY <1>0, <2>1 DEF Calling
  <2> QED BY <2>1, <2>2, <2>3 DEF Service!Return, Calling
<1>4. ASSUME EndStep
      PROVE  (\E u \in Users : Service!Answer(u)) \/ UNCHANGED <<Calling, answer, returned>>
  <2> DEFINE e == Head(todo)
             u == para[e.kind].by
  <2>1. UNCHANGED <<Calling, returned>>  BY <1>4 DEF EndStep, userVars, Calling
  <2>2. CASE e.op = "end" /\ Concerns(e)
    <3>1. e.kind \in Kinds /\ e.result \in Results
      BY <1>4, TodoHead DEF EndStep, Ends
    <3>2. para[e.kind] # NoCall /\ u \in Users /\ KindOf[u] = e.kind
      BY <2>2, <3>1 DEF Concerns, CallsInv, SlotsKept, SlotOf
    <3>3. pc[u] = "waiting" /\ answer[u] = None  BY <1>0, <3>2 DEF CallOf
    <3>4. answer' = [answer EXCEPT ![u] = e.result]  BY <1>4, <2>2 DEF EndStep
    <3>5. Calling[u]  BY <3>2, <3>3 DEF Calling
    <3>6. Service!Answer(u)
      BY <2>1, <3>1, <3>3, <3>4, <3>5 DEF Service!Answer, Calling
    <3> QED BY <3>2, <3>6
  <2>3. CASE ~(e.op = "end" /\ Concerns(e))
    <3>1. answer' = answer  BY <1>4, <2>3 DEF EndStep, callVars
    <3> QED BY <2>1, <3>1
  <2> QED BY <2>2, <2>3
<1>5. ASSUME Poll \/ PacketStep(PacketEvents) \/ BeginFree \/ EndFree \/ UNCHANGED vars
      PROVE  UNCHANGED <<Calling, answer, returned>>
  BY <1>5 DEF Poll, PollCtrl, PollSend, PollReceive, QuietStep, PacketStep, BeginFree,
              EndFree, vars, callVars, userVars, Calling
<1> QED BY <1>1, <1>2, <1>3, <1>4, <1>5 DEF Next, UserStep, Service!Next, ServiceStep

\* Whatever the thread, the network and the other users do, a call is answered once and
\* returns with that answer.
THEOREM CallsImplementService == Spec => AnswersItsCaller
BY ServiceInit, ServiceNext, CallsInvariant, PTL
   DEF Spec, AnswersItsCaller, Service!ServiceSpec, ServiceStep, Calling

=============================================================================
