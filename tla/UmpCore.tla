-------------------------------- MODULE UmpCore -------------------------------
(***************************************************************************)
(* One UMPCore with several peers: its four tables of sockets, the calls   *)
(* of ump.c that move sockets between them (connect, accept, close, core   *)
(* close), the receive thread that makes sockets for strangers, and the    *)
(* cleaner (core_thread.c).  Of a socket only what the core sees is kept:  *)
(* its public state, its control call and its users.  UmpHandshake has the *)
(* packets behind these steps, for one peer.                               *)
(***************************************************************************)
EXTENDS Naturals, FiniteSets

CONSTANTS
  Peers,          \* addresses of other cores
  Acceptors,      \* threads that call ump_accept
  BacklogLimit,   \* the backlog of ump_core_bind
  MaxSockets      \* bound: sockets made in a run

ASSUME PeersAssumption == IsFiniteSet(Peers) /\ Peers # {}
ASSUME LimitAssumption == BacklogLimit \in Nat \ {0}
ASSUME SocketsAssumption == MaxSockets \in Nat

VARIABLES
  sock,      \* the sockets, by the order they were made in
  table,     \* umps, backlog_umps, act_connect, closed_umps, by address
  acceptOk,  \* the event accept_ok
  acceptor,  \* where each accepting thread is
  earlier,   \* pairs of connections that wait in the backlog: connect_time is earlier
  dropped,   \* sockets that ump_connect took out of the backlog and gave up
  crowded,   \* two connections waited for accept at the same time
  core       \* "up", "closed"

vars == <<sock, table, acceptOk, acceptor, earlier, dropped, crowded, core>>

Ids == 1..MaxSockets
None == 0
TableNames == {"umps", "backlog", "act_connect", "closed"}
States == {"UNUSED", "FREED", "CLOSED", "CONNECTING", "ESTABLISHED", "CLOSING"}

\* used: the socket has been past CLOSED; user: what the socket's user does with it.
Sockets ==
  [peer : Peers, state : States, used : BOOLEAN, error : BOOLEAN,
   call : {"none", "CONNECT", "CLOSE"}, taken : BOOLEAN, ok : BOOLEAN,
   user : {"none", "connect", "held", "close", "done"}]

Unused == [peer |-> CHOOSE p \in Peers : TRUE, state |-> "UNUSED", used |-> FALSE,
           error |-> FALSE, call |-> "none", taken |-> FALSE, ok |-> FALSE,
           user |-> "none"]
NewSocket(p) == [Unused EXCEPT !.peer = p, !.state = "CLOSED"]

Entries(t) == {p \in Peers : table[t][p] # None}
Live(x) == sock[x].state \notin {"UNUSED", "FREED"}
Tabled(x) == \E t \in TableNames, p \in Peers : table[t][p] = x
AcceptReady(x) == table["backlog"][sock[x].peer] = x /\ sock[x].state = "ESTABLISHED"
Ready == {x \in Ids : AcceptReady(x)}

\* The backlog is full when it holds more than its limit.
TypeOK ==
  /\ sock \in [Ids -> Sockets]
  /\ table \in [TableNames -> [Peers -> Ids \union {None}]]
  /\ Cardinality(Entries("backlog")) <= BacklogLimit + 1
  /\ acceptOk \in BOOLEAN
  /\ acceptor \in [Acceptors -> {"idle", "waiting", "scanning"}]
  /\ earlier \subseteq Ids \X Ids
  /\ \A e \in earlier : AcceptReady(e[1]) /\ AcceptReady(e[2])
  /\ dropped \subseteq Ids
  /\ crowded \in BOOLEAN
  /\ core \in {"up", "closed"}

Init ==
  /\ sock = [x \in Ids |-> Unused]
  /\ table = [t \in TableNames |-> [p \in Peers |-> None]]
  /\ acceptOk = FALSE
  /\ acceptor = [a \in Acceptors |-> "idle"]
  /\ earlier = {} /\ dropped = {} /\ crowded = FALSE
  /\ core = "up"

-----------------------------------------------------------------------------
(* Helpers *)

\* The next socket to be made is x.
NextId(x) ==
  sock[x].state = "UNUSED" /\ \A y \in 1..(x - 1) : sock[y].state # "UNUSED"

PutIn(t, p, x) == [table EXCEPT ![t][p] = x]
TakeOut(p, names) ==
  [t \in TableNames |-> IF t \in names THEN [table[t] EXCEPT ![p] = None] ELSE table[t]]
Move(from, to, p) == [TakeOut(p, {from}) EXCEPT ![to][p] = table[from][p]]

\* ump_sock_free; a user who is not done with the socket goes on with it.
Free(s) == [Unused EXCEPT !.state = "FREED",
                          !.user = IF s.user = "done" THEN "none" ELSE s.user]
Freed(xs) == [x \in Ids |-> IF x \in xs THEN Free(sock[x]) ELSE sock[x]]
\* The variant is an accept that does not look at the state of what it finds.
WithoutNothing(x) == earlier
Without(x) == {e \in earlier : e[1] # x /\ e[2] # x}

Answer(s, ok) == [s EXCEPT !.call = "none", !.taken = FALSE, !.ok = ok]

-----------------------------------------------------------------------------
(* A socket's thread, as the core sees it *)

\* The thread takes the user's call: what the state machine answers at once, and
\* what it starts.
Taken(s) ==
  CASE s.error -> Answer(s, FALSE)
    [] ~s.error /\ s.call = "CONNECT" /\ s.state = "CLOSED" ->
         [s EXCEPT !.taken = TRUE, !.state = "CONNECTING", !.used = TRUE]
    [] ~s.error /\ s.call = "CONNECT" /\ s.state = "CONNECTING" -> [s EXCEPT !.taken = TRUE]
    [] ~s.error /\ s.call = "CONNECT" /\ s.state = "ESTABLISHED" -> Answer(s, TRUE)
    [] ~s.error /\ s.call = "CONNECT" /\ s.state = "CLOSING" -> Answer(s, FALSE)
    [] ~s.error /\ s.call = "CLOSE" /\ s.state = "CLOSED" -> Answer(s, TRUE)
    [] ~s.error /\ s.call = "CLOSE" /\ s.state = "CONNECTING" -> Answer(s, FALSE)
    [] ~s.error /\ s.call = "CLOSE" /\ s.state \in {"ESTABLISHED", "CLOSING"} ->
         [s EXCEPT !.taken = TRUE, !.state = "CLOSING"]

TakeCall(x) ==
  /\ Live(x) /\ sock[x].call # "none" /\ ~sock[x].taken
  /\ sock' = [sock EXCEPT ![x] = Taken(@)]
  /\ earlier' = IF Taken(sock[x]).state = "ESTABLISHED" THEN earlier ELSE Without(x)
  /\ UNCHANGED <<table, acceptOk, acceptor, dropped, crowded, core>>

\* ump_established_enter_state: the connect call ends, or, when no call is being
\* served, accept is told.  The variant tells nobody.
TellNobody(x) == acceptOk
TellAccept(x) == IF sock[x].taken THEN acceptOk ELSE TRUE

Establish(x) ==
  /\ Live(x) /\ sock[x].state = "CONNECTING"
  /\ LET s == [sock[x] EXCEPT !.state = "ESTABLISHED"]
     IN sock' = [sock EXCEPT ![x] = IF s.taken THEN Answer(s, TRUE) ELSE s]
  /\ acceptOk' = TellAccept(x)
  /\ IF table["backlog"][sock[x].peer] = x
     THEN /\ earlier' = earlier \union {<<y, x>> : y \in Ready \ {x}}
          /\ crowded' = (crowded \/ Ready \ {x} # {})
     ELSE UNCHANGED <<earlier, crowded>>
  /\ UNCHANGED <<table, acceptor, dropped, core>>

\* Packets and timers: a SYN for a socket that was never open, the peer's FIN, the end
\* of the exchange of FINs, an RST or a timer that gives up.  (An RST to a closed socket
\* matters only to a connect call.)
Transitions(x) ==
  LET s == sock[x]
      closed == IF s.call = "CLOSE" /\ s.taken THEN Answer(s, TRUE) ELSE s
      broken == IF s.taken THEN Answer(s, FALSE) ELSE s
  IN UNION
     {IF s.state = "CLOSED" /\ ~s.used /\ ~s.error /\ Tabled(x)
      THEN {[s EXCEPT !.state = "CONNECTING", !.used = TRUE]} ELSE {},
      IF s.state = "ESTABLISHED" THEN {[s EXCEPT !.state = "CLOSING"]} ELSE {},
      IF s.state = "CLOSING" THEN {[closed EXCEPT !.state = "CLOSED"]} ELSE {},
      IF ~s.error /\ (s.state # "CLOSED" \/ s.user = "connect")
      THEN {[broken EXCEPT !.state = "CLOSED", !.used = TRUE, !.error = TRUE]} ELSE {}}

Turn(x) ==
  /\ Live(x)
  /\ \E s \in Transitions(x) : sock' = [sock EXCEPT ![x] = s]
  /\ earlier' = Without(x)
  /\ UNCHANGED <<table, acceptOk, acceptor, dropped, crowded, core>>

-----------------------------------------------------------------------------
(* ump_connect *)

\* ump_sock_connect posts the call without umps_lock; the socket's thread may take it
\* much later.
WithConnect(s) == [s EXCEPT !.user = "connect", !.call = "CONNECT"]

\* An address that is in use elsewhere gets no socket.
Occupied(p) ==
  \/ table["act_connect"][p] # None
  \/ table["umps"][p] # None
  \/ table["closed"][p] # None

ConnectNew(p) ==
  /\ core = "up" /\ ~Occupied(p) /\ table["backlog"][p] = None
  /\ \E x \in Ids : /\ NextId(x)
                    /\ sock' = [sock EXCEPT ![x] = WithConnect(NewSocket(p))]
                    /\ table' = PutIn("act_connect", p, x)
  /\ UNCHANGED <<acceptOk, acceptor, earlier, dropped, crowded, core>>

\* A socket that the peer's SYN put into the backlog is used, unless it is closing:
\* then it is in no table any more.
ConnectBacklog(p) ==
  LET x == table["backlog"][p] IN
  /\ core = "up" /\ ~Occupied(p) /\ x # None
  /\ IF sock[x].state \in {"CLOSED", "CLOSING"}
     THEN /\ table' = TakeOut(p, {"backlog"})
          /\ dropped' = dropped \union {x}
          /\ UNCHANGED sock
     ELSE /\ table' = Move("backlog", "act_connect", p)
          /\ sock' = [sock EXCEPT ![x] = WithConnect(@)]
          /\ UNCHANGED dropped
  /\ earlier' = Without(x)
  /\ UNCHANGED <<acceptOk, acceptor, crowded, core>>

\* The socket moves to umps, or it is freed.
ConnectReturn(x) ==
  LET s == sock[x] IN
  /\ s.user = "connect" /\ s.call = "none"
  /\ IF s.ok
     THEN /\ table' = [TakeOut(s.peer, {"act_connect"}) EXCEPT !.umps[s.peer] = x]
          /\ sock' = [sock EXCEPT ![x].user = "held", ![x].ok = FALSE]
     ELSE /\ table' = TakeOut(s.peer, {"act_connect"})
          /\ sock' = [sock EXCEPT ![x] = [Free(@) EXCEPT !.user = "none"]]
  /\ UNCHANGED <<acceptOk, acceptor, earlier, dropped, crowded, core>>

-----------------------------------------------------------------------------
(* ump_accept *)

AcceptCall(a) ==
  /\ core = "up" /\ acceptor[a] = "idle"
  /\ acceptor' = [acceptor EXCEPT ![a] = "waiting"]
  /\ UNCHANGED <<sock, table, acceptOk, earlier, dropped, crowded, core>>

\* The event is reset by the thread it wakes, before the backlog is searched.
AcceptWake(a) ==
  /\ acceptor[a] = "waiting" /\ acceptOk
  /\ acceptOk' = FALSE
  /\ acceptor' = [acceptor EXCEPT ![a] = "scanning"]
  /\ UNCHANGED <<sock, table, earlier, dropped, crowded, core>>

\* One connection moves to umps, the one established first.  The variant forgets to
\* put it there.
AcceptedOut(x) == TakeOut(sock[x].peer, {"backlog"})
Accepted(x) == Move("backlog", "umps", sock[x].peer)

AcceptScan(a) ==
  /\ acceptor[a] = "scanning"
  /\ \/ /\ Ready = {}
        /\ acceptor' = [acceptor EXCEPT ![a] = "waiting"]
        /\ UNCHANGED <<sock, table, earlier>>
     \/ \E x \in Ready :
          /\ \A y \in Ids : <<y, x>> \notin earlier
          /\ acceptor' = [acceptor EXCEPT ![a] = "idle"]
          /\ table' = Accepted(x)
          /\ sock' = [sock EXCEPT ![x].user = "held"]
          /\ earlier' = Without(x)
  /\ UNCHANGED <<acceptOk, dropped, crowded, core>>

-----------------------------------------------------------------------------
(* ump_close and ump_core_close *)

CloseCall(x) ==
  /\ core = "up" /\ sock[x].user = "held"
  /\ sock' = [sock EXCEPT ![x].user = "close", ![x].call = "CLOSE"]
  /\ UNCHANGED <<table, acceptOk, acceptor, earlier, dropped, crowded, core>>

\* After the call, whatever its result, the entries of the address are taken out of
\* the other tables; an older closed socket is looked for in umps, where the entry has
\* just been taken out, so the socket always goes to closed_umps.
CloseReturn(x) ==
  LET s == sock[x] IN
  /\ s.user = "close" /\ s.call = "none"
  /\ table' = [TakeOut(s.peer, {"act_connect", "backlog", "umps"}) EXCEPT !.closed[s.peer] = x]
  /\ sock' = [sock EXCEPT ![x].user = "done", ![x].ok = FALSE]
  /\ UNCHANGED <<acceptOk, acceptor, earlier, dropped, crowded, core>>

\* The program closes the core when none of its threads is in a call.  The threads of
\* the core are joined and every socket in a table is freed.
CoreClose ==
  /\ core = "up"
  /\ \A a \in Acceptors : acceptor[a] = "idle"
  /\ \A x \in Ids : sock[x].user \in {"none", "held", "done"}
  /\ core' = "closed"
  /\ sock' = Freed({x \in Ids : Tabled(x)})
  /\ earlier' = {}
  /\ table' = [t \in TableNames |-> [p \in Peers |-> None]]
  /\ UNCHANGED <<acceptOk, acceptor, dropped, crowded>>

-----------------------------------------------------------------------------
(* The receive thread and the cleaner *)

\* A SYN from an address in no table.  The variant does not look in act_connect.
KnownUnlessConnecting(p) == \E t \in TableNames \ {"act_connect"} : table[t][p] # None
Known(p) == \E t \in TableNames : table[t][p] # None

ReceiveSyn(p) ==
  /\ core = "up" /\ ~Known(p)
  /\ Cardinality(Entries("backlog")) <= BacklogLimit
  /\ \E x \in Ids : /\ NextId(x)
                    /\ sock' = [sock EXCEPT ![x] = NewSocket(p)]
                    /\ table' = PutIn("backlog", p, x)
  /\ UNCHANGED <<acceptOk, acceptor, earlier, dropped, crowded, core>>

\* A round of the cleaner, at least 20 s after the socket was closed.  The variants
\* clean act_connect too, or leave closed_umps alone.
CleanedAlsoConnecting == {"closed", "backlog", "act_connect"}
CleanedBacklogOnly == {"backlog"}
CleanedTables == {"closed", "backlog"}
Clean(t, p) ==
  LET x == table[t][p] IN
  /\ core = "up" /\ t \in CleanedTables
  /\ x # None /\ sock[x].state = "CLOSED"
  /\ sock' = [sock EXCEPT ![x] = Free(@)]
  /\ table' = TakeOut(p, {t})
  /\ earlier' = Without(x)
  /\ UNCHANGED <<acceptOk, acceptor, dropped, crowded, core>>

-----------------------------------------------------------------------------
SocketStep(x) == TakeCall(x) \/ Establish(x) \/ Turn(x)
UserStep(x) == ConnectReturn(x) \/ CloseCall(x) \/ CloseReturn(x)
AcceptStep(a) == AcceptCall(a) \/ AcceptWake(a) \/ AcceptScan(a)

Next ==
  \/ \E x \in Ids : SocketStep(x) \/ UserStep(x)
  \/ \E p \in Peers : ConnectNew(p) \/ ConnectBacklog(p) \/ ReceiveSyn(p)
  \/ \E a \in Acceptors : AcceptStep(a)
  \/ \E t \in TableNames, p \in Peers : Clean(t, p)
  \/ CoreClose

Spec == Init /\ [][Next]_vars

\* The cleaner comes round as long as the core is up, threads that were woken or have
\* their answer go on, and a socket's thread takes calls.
Fairness ==
  /\ \A p \in Peers : WF_vars(\E t \in TableNames : Clean(t, p))
  /\ \A a \in Acceptors : WF_vars(AcceptWake(a) \/ AcceptScan(a))
FairSpec == Spec /\ Fairness

-----------------------------------------------------------------------------
(* Properties *)

\* An address is in one table at most, with a socket of its own that is not freed: so
\* packets reach the socket the user has, and no socket replaces another.
OnePerPeer ==
  \A t \in TableNames, p \in Peers : table[t][p] # None =>
    /\ Live(table[t][p]) /\ sock[table[t][p]].peer = p
    /\ \A u \in TableNames \ {t} : table[u][p] = None

\* A socket is not freed while its user is in a call on it.  Only ump_core_close, which
\* no call is taken to overlap, frees sockets that users still hold.
UsersSocketLives == \A x \in Ids :
  /\ sock[x].user \in {"connect", "close"} => Live(x)
  /\ sock[x].user = "held" => Live(x) \/ core = "closed"

\* Every socket can be found in a table, and is freed with the core, except those that
\* ump_connect finds closing in the backlog.
NoneLost == \A x \in Ids : Live(x) => Tabled(x) \/ x \in dropped

\* An address whose socket the user has closed can be connected to again: the cleaner
\* frees the socket, or the core does.
ClosedIsFreed == \A p \in Peers : table["closed"][p] # None ~> table["closed"][p] = None

WaitsForAccept == Ready # {}

\* While connections come one at a time, a thread that waits in ump_accept gets the
\* one that is established.
SoleIsAccepted == \A a \in Acceptors :
  acceptor[a] = "waiting" /\ WaitsForAccept ~>
    \/ acceptor[a] = "idle" \/ ~WaitsForAccept \/ crowded

\* ump.c: ump_accept looks for a connection in the backlog and waits only if there is
\* none.
AcceptSeesBacklog ==
  (\E a \in Acceptors : acceptor[a] = "waiting") /\ WaitsForAccept =>
    acceptOk \/ \E a \in Acceptors : acceptor[a] = "scanning"

=============================================================================
