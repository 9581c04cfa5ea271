---------------------------- MODULE UmpCoreProofs ---------------------------
(***************************************************************************)
(* What holds of the tables of a core for any number of peers, of sockets  *)
(* and of accepting threads, and any backlog.                              *)
(***************************************************************************)
EXTENDS UmpCore, FiniteSetTheorems, TLAPS

-----------------------------------------------------------------------------
(* The inductive invariant *)

\* Tables and sockets
Types ==
  /\ sock \in [Ids -> Sockets]
  /\ table \in [TableNames -> [Peers -> Ids \union {None}]]
  /\ dropped \subseteq Ids
  /\ core \in {"up", "closed"}

Bounded == Cardinality(Entries("backlog")) <= BacklogLimit + 1

EarlierWait ==
  /\ earlier \subseteq Ids \X Ids
  /\ \A e \in earlier : AcceptReady(e[1]) /\ AcceptReady(e[2])

\* What a user does with a socket decides the table it is in: a call of ump_connect
\* keeps it in act_connect, a user who has it in umps.
UsersTable == core = "up" => \A x \in Ids :
  /\ sock[x].user = "connect" => table["act_connect"][sock[x].peer] = x
  /\ sock[x].user \in {"held", "close"} => table["umps"][sock[x].peer] = x

\* A core is closed when no user is in a call.
QuietWhenClosed == core = "closed" => \A x \in Ids :
  sock[x].user \notin {"connect", "close"}

TableInv == Types /\ OnePerPeer /\ NoneLost /\ UsersTable /\ QuietWhenClosed

-----------------------------------------------------------------------------
(* Tables and sockets, one step at a time *)

\* What the thread of a socket does to it is nothing to the tables.
Same(s, t) ==
  /\ t \in Sockets
  /\ t.peer = s.peer /\ t.user = s.user
  /\ s.state \notin {"UNUSED", "FREED"} /\ t.state \notin {"UNUSED", "FREED"}

\* A socket's answer to a control call leaves the rest of it alone.
LEMMA AnswerSame ==
  ASSUME NEW s \in Sockets, NEW r \in BOOLEAN, s.state \notin {"UNUSED", "FREED"}
  PROVE  Same(s, Answer(s, r))
BY DEF Same, Answer, Sockets

\* ump_ctrlunlocked_handle_ctrl takes a live socket to a live one.
LEMMA TakenSame ==
  ASSUME NEW s \in Sockets, s.state \notin {"UNUSED", "FREED"}, s.call # "none"
  PROVE  Same(s, Taken(s))
<1>1. CASE s.error  BY <1>1, AnswerSame DEF Taken
<1>2. CASE ~s.error
  <2>1. s.call \in {"CONNECT", "CLOSE"}
        /\ s.state \in {"CLOSED", "CONNECTING", "ESTABLISHED", "CLOSING"}
    BY DEF Sockets, States
  <2>2. CASE s.call = "CONNECT"
    <3>1. CASE s.state = "CLOSED"
      BY <1>2, <2>2, <3>1 DEF Taken, Same, Sockets, States
    <3>2. CASE s.state = "CONNECTING"
      BY <1>2, <2>2, <3>2 DEF Taken, Same, Sockets, States
    <3>3. CASE s.state = "ESTABLISHED"
      BY <1>2, <2>2, <3>3, AnswerSame DEF Taken
    <3>4. CASE s.state = "CLOSING"
      BY <1>2, <2>2, <3>4, AnswerSame DEF Taken
    <3> QED BY <2>1, <3>1, <3>2, <3>3, <3>4
  <2>3. CASE s.call = "CLOSE"
    <3>1. CASE s.state = "CLOSED"
      BY <1>2, <2>3, <3>1, AnswerSame DEF Taken
    <3>2. CASE s.state = "CONNECTING"
      BY <1>2, <2>3, <3>2, AnswerSame DEF Taken
    <3>3. CASE s.state \in {"ESTABLISHED", "CLOSING"}
      BY <1>2, <2>3, <3>3 DEF Taken, Same, Sockets, States
    <3> QED BY <2>1, <3>1, <3>2, <3>3
  <2> QED BY <2>1, <2>2, <2>3
<1> QED BY <1>1, <1>2 DEF Sockets

\* Packets and timers take a live socket to a live one.
LEMMA TransitionSame ==
  ASSUME Types, NEW x \in Ids, Live(x), NEW s \in Transitions(x)
  PROVE  Same(sock[x], s)
<1> DEFINE old == sock[x]
           closed == IF old.call = "CLOSE" /\ old.taken THEN Answer(old, TRUE) ELSE old
           broken == IF old.taken THEN Answer(old, FALSE) ELSE old
<1>1. old \in Sockets /\ old.state \notin {"UNUSED", "FREED"}  BY DEF Types, Live
<1>2. Same(old, closed) /\ Same(old, broken)
  BY <1>1, AnswerSame DEF Same
<1>3. \/ s = [old EXCEPT !.state = "CONNECTING", !.used = TRUE]
      \/ s = [old EXCEPT !.state = "CLOSING"]
      \/ s = [closed EXCEPT !.state = "CLOSED"]
      \/ s = [broken EXCEPT !.state = "CLOSED", !.used = TRUE, !.error = TRUE]
  BY DEF Transitions
<1> HIDE DEF closed, broken
<1>4. ASSUME NEW t, Same(old, t)
      PROVE  /\ Same(old, [t EXCEPT !.state = "CLOSING"])
             /\ Same(old, [t EXCEPT !.state = "CLOSED"])
             /\ Same(old, [t EXCEPT !.state = "CONNECTING", !.used = TRUE])
             /\ Same(old, [t EXCEPT !.state = "CLOSED", !.used = TRUE, !.error = TRUE])
  BY <1>4 DEF Same, Sockets, States
<1>5. Same(old, old)  BY <1>1 DEF Same
<1> QED BY <1>2, <1>3, <1>4, <1>5

\* The entries of a table after a socket is put in or taken out
LEMMA PutInEntries ==
  ASSUME Types, NEW n \in TableNames, NEW p \in Peers, NEW x \in Ids
  PROVE  /\ PutIn(n, p, x) \in [TableNames -> [Peers -> Ids \union {None}]]
         /\ \A m \in TableNames, q \in Peers :
              PutIn(n, p, x)[m][q] = IF m = n /\ q = p THEN x ELSE table[m][q]
BY DEF Types, PutIn

LEMMA TakeOutEntries ==
  ASSUME Types, NEW p \in Peers, NEW names
  PROVE  /\ TakeOut(p, names) \in [TableNames -> [Peers -> Ids \union {None}]]
         /\ \A m \in TableNames, q \in Peers :
              TakeOut(p, names)[m][q] = IF m \in names /\ q = p THEN None ELSE table[m][q]
BY DEF Types, TakeOut

LEMMA ReplaceEntries ==
  ASSUME Types, NEW p \in Peers, NEW names, NEW n \in TableNames, NEW x \in Ids
  PROVE  LET new == [TakeOut(p, names) EXCEPT ![n][p] = x] IN
         /\ new \in [TableNames -> [Peers -> Ids \union {None}]]
         /\ \A m \in TableNames, q \in Peers :
              new[m][q] = IF m = n /\ q = p THEN x
                          ELSE IF m \in names /\ q = p THEN None ELSE table[m][q]
BY TakeOutEntries

-----------------------------------------------------------------------------
(* Each step keeps the invariant. *)

\* The socket's own thread
LEMMA SocketKeeps ==
  ASSUME TableInv, NEW x \in Ids, NEW s, Same(sock[x], s),
         sock' = [sock EXCEPT ![x] = s], UNCHANGED <<table, dropped, core>>
  PROVE  TableInv'
<1>1. Types'  BY DEF TableInv, Types, Same
<1>2. \A y \in Ids : /\ sock'[y].peer = sock[y].peer /\ sock'[y].user = sock[y].user
                     /\ Live(y)' <=> Live(y)
  BY DEF TableInv, Types, Same, Live
<1>3. OnePerPeer'  BY <1>2 DEF TableInv, Types, OnePerPeer
<1>4. NoneLost'  BY <1>2 DEF TableInv, NoneLost, Tabled
<1>5. UsersTable' /\ QuietWhenClosed'
  BY <1>2 DEF TableInv, UsersTable, QuietWhenClosed
<1> QED BY <1>1, <1>3, <1>4, <1>5 DEF TableInv

LEMMA SocketStepKeeps ==
  ASSUME TableInv, NEW x \in Ids, SocketStep(x) PROVE TableInv'
<1>1. CASE TakeCall(x)
  BY <1>1, TakenSame, SocketKeeps DEF TakeCall, Live, TableInv, Types
<1>2. CASE Establish(x)
  <2> DEFINE s == [sock[x] EXCEPT !.state = "ESTABLISHED"]
  <2>1. Same(sock[x], s) /\ s \in Sockets
    BY <1>2 DEF Establish, Live, TableInv, Types, Same, Sockets, States
  <2>2. Same(sock[x], IF s.taken THEN Answer(s, TRUE) ELSE s)
    BY <2>1, AnswerSame DEF Same
  <2> QED BY <1>2, <2>2, SocketKeeps DEF Establish
<1>3. CASE Turn(x)
  BY <1>3, TransitionSame, SocketKeeps DEF Turn, TableInv
<1> QED BY <1>1, <1>2, <1>3 DEF SocketStep

\* A new socket for an address that is in no table, for ump_connect or for the backlog
LEMMA AddKeeps ==
  ASSUME TableInv, core = "up", NEW p \in Peers, NEW x \in Ids, NEW n \in TableNames,
         sock[x].state = "UNUSED", ~Known(p), NEW s \in Sockets, s.peer = p,
         s.state = "CLOSED",
         \/ n = "act_connect" /\ s.user = "connect"
         \/ n = "backlog" /\ s.user = "none",
         sock' = [sock EXCEPT ![x] = s], table' = PutIn(n, p, x), UNCHANGED <<dropped, core>>
  PROVE  TableInv'
<1>1. Types'  BY PutInEntries DEF TableInv, Types
<1>2. \A m \in TableNames, q \in Peers :
        table'[m][q] = IF m = n /\ q = p THEN x ELSE table[m][q]
  BY PutInEntries DEF TableInv
<1>3. \A m \in TableNames : table[m][p] = None  BY DEF Known
<1>4. \A m \in TableNames, q \in Peers : table[m][q] # x
  BY DEF TableInv, OnePerPeer, Live, None, Ids
<1>5. sock'[x] = s /\ \A y \in Ids \ {x} : sock'[y] = sock[y]  BY DEF TableInv, Types
<1>6. Live(x)' /\ \A y \in Ids \ {x} : Live(y)' <=> Live(y)  BY <1>5 DEF Live
<1>7. OnePerPeer'
  <2> SUFFICES ASSUME NEW m \in TableNames, NEW q \in Peers, table'[m][q] # None
               PROVE  /\ Live(table[m][q])' /\ sock'[table'[m][q]].peer = q
                      /\ \A u \in TableNames \ {m} : table'[u][q] = None
    BY DEF OnePerPeer
  <2>1. CASE q = p
    BY <1>2, <1>3, <1>5, <1>6, <2>1
  <2>2. CASE q # p
    <3>1. table'[m][q] = table[m][q] /\ table[m][q] \in Ids \ {x}
      BY <1>2, <1>4, <2>2 DEF TableInv, Types
    <3> QED BY <1>2, <1>5, <1>6, <2>2, <3>1 DEF TableInv, OnePerPeer
  <2> QED BY <2>1, <2>2
<1>8. NoneLost'
  BY <1>2, <1>3, <1>5, <1>6 DEF TableInv, NoneLost, Tabled, Types, None, Ids
<1>9. UsersTable'
  <2> SUFFICES ASSUME NEW y \in Ids
               PROVE  /\ sock'[y].user = "connect"
                           => table'["act_connect"][sock'[y].peer] = y
                      /\ sock'[y].user \in {"held", "close"}
                           => table'["umps"][sock'[y].peer] = y
    BY DEF UsersTable
  <2>1. CASE y = x
    BY <1>2, <1>5, <2>1 DEF TableNames
  <2>2. CASE y # x
    <3>1. sock'[y] = sock[y] /\ sock[y].peer \in Peers /\ y # None
      BY <1>5, <2>2 DEF TableInv, Types, Sockets, None, Ids
    <3>2. sock[y].user \in {"connect", "held", "close"} => sock[y].peer # p
      BY <1>3, <3>1 DEF TableInv, UsersTable, TableNames
    <3> QED BY <1>2, <3>1, <3>2 DEF TableInv, UsersTable, TableNames
  <2> QED BY <2>1, <2>2
<1>10. QuietWhenClosed'  BY DEF QuietWhenClosed
<1> QED BY <1>1, <1>7, <1>8, <1>9, <1>10 DEF TableInv

\* An address is in one table, so whatever tables a step takes it out of, the others
\* are the same.
LEMMA OthersEmpty ==
  ASSUME TableInv, NEW n \in TableNames, NEW p \in Peers, NEW x \in Ids, table[n][p] = x
  PROVE  /\ Live(x) /\ sock[x].peer = p
         /\ \A m \in TableNames, q \in Peers : table[m][q] = x => m = n /\ q = p
         /\ \A m \in TableNames \ {n} : table[m][p] = None
<1>1. x # None  BY DEF None, Ids
<1>2. Live(x) /\ sock[x].peer = p /\ \A m \in TableNames \ {n} : table[m][p] = None
  BY <1>1 DEF TableInv, OnePerPeer
<1>3. ASSUME NEW m \in TableNames, NEW q \in Peers, table[m][q] = x PROVE m = n /\ q = p
  <2>1. q = p  BY <1>1, <1>2, <1>3 DEF TableInv, OnePerPeer
  <2> QED BY <1>1, <1>2, <1>3, <2>1
<1> QED BY <1>2, <1>3

\* After the step the address is in one table only, with socket x, or nowhere.
OnlyIn(n, p, x) ==
  /\ table' \in [TableNames -> [Peers -> Ids \union {None}]]
  /\ \A m \in TableNames, q \in Peers :
       table'[m][q] = IF q # p THEN table[m][q] ELSE IF m = n THEN x ELSE None

LEMMA TakenOut ==
  ASSUME TableInv, NEW n \in TableNames, NEW p \in Peers, NEW x \in Ids, table[n][p] = x,
         NEW names, n \in names, table' = TakeOut(p, names)
  PROVE  OnlyIn("umps", p, None)
<1>1. \A m \in TableNames \ {n} : table[m][p] = None  BY OthersEmpty
<1>2. /\ table' \in [TableNames -> [Peers -> Ids \union {None}]]
      /\ \A m \in TableNames, q \in Peers :
           table'[m][q] = IF m \in names /\ q = p THEN None ELSE table[m][q]
  BY TakeOutEntries DEF TableInv
<1> QED BY <1>1, <1>2 DEF OnlyIn

LEMMA Replaced ==
  ASSUME TableInv, NEW n \in TableNames, NEW p \in Peers, NEW x \in Ids, table[n][p] = x,
         NEW names, n \in names, NEW to \in TableNames,
         table' = [TakeOut(p, names) EXCEPT ![to][p] = x]
  PROVE  OnlyIn(to, p, x)
<1>1. \A m \in TableNames \ {n} : table[m][p] = None  BY OthersEmpty
<1>2. /\ table' \in [TableNames -> [Peers -> Ids \union {None}]]
      /\ \A m \in TableNames, q \in Peers :
           table'[m][q] = IF m = to /\ q = p THEN x
                          ELSE IF m \in names /\ q = p THEN None ELSE table[m][q]
  BY ReplaceEntries DEF TableInv
<1> QED BY <1>1, <1>2 DEF OnlyIn

LEMMA Moved ==
  ASSUME TableInv, NEW n \in TableNames, NEW to \in TableNames, NEW p \in Peers,
         NEW x \in Ids, table[n][p] = x, table' = Move(n, to, p)
  PROVE  OnlyIn(to, p, x)
BY Replaced DEF Move

\* What waits in the backlog or in closed_umps has no user.
LEMMA NoUser ==
  ASSUME TableInv, core = "up", NEW n \in {"backlog", "closed"}, NEW p \in Peers,
         NEW x \in Ids, table[n][p] = x
  PROVE  sock[x].user \in {"none", "done"}
<1>1. n \in TableNames /\ x # None  BY DEF TableNames, None, Ids
<1>2. sock[x].peer = p /\ table["act_connect"][p] = None /\ table["umps"][p] = None
  BY <1>1, OthersEmpty DEF TableNames
<1>3. sock[x].user \in {"none", "connect", "held", "close", "done"}
  BY DEF TableInv, Types, Sockets
<1> QED BY <1>1, <1>2, <1>3 DEF TableInv, UsersTable

\* A socket goes to another table, and its user with it.
LEMMA MoveKeeps ==
  ASSUME TableInv, NEW from \in TableNames, NEW to \in TableNames,
         NEW p \in Peers, NEW x \in Ids, table[from][p] = x,
         NEW s \in Sockets, s.peer = p, s.state = sock[x].state,
         \/ to = "act_connect" /\ s.user = "connect"
         \/ to = "umps" /\ s.user = "held"
         \/ to = "closed" /\ s.user = "done",
         core = "up" \/ s.user = "held",
         sock' = [sock EXCEPT ![x] = s],
         OnlyIn(to, p, x), UNCHANGED <<dropped, core>>
  PROVE  TableInv'
<1> USE DEF OnlyIn
<1>1. Types'  BY DEF TableInv, Types
<1>2. sock'[x] = s /\ \A y \in Ids \ {x} : sock'[y] = sock[y]  BY DEF TableInv, Types
<1>3. \A y \in Ids : Live(y)' <=> Live(y)  BY <1>2 DEF Live
<1>4. /\ Live(x) /\ sock[x].peer = p
      /\ \A m \in TableNames, q \in Peers : table[m][q] = x => m = from /\ q = p
      /\ \A m \in TableNames \ {from} : table[m][p] = None
  BY OthersEmpty
<1>5. OnePerPeer'
  <2> SUFFICES ASSUME NEW m \in TableNames, NEW q \in Peers, table'[m][q] # None
               PROVE  /\ Live(table[m][q])' /\ sock'[table'[m][q]].peer = q
                      /\ \A u \in TableNames \ {m} : table'[u][q] = None
    BY DEF OnePerPeer
  <2>1. CASE q = p
    BY <1>2, <1>3, <1>4, <2>1
  <2>2. CASE q # p
    <3>1. table'[m][q] = table[m][q] /\ table[m][q] \in Ids \ {x}
      BY <1>4, <2>2 DEF TableInv, Types
    <3> QED BY <1>2, <1>3, <2>2, <3>1 DEF TableInv, OnePerPeer
  <2> QED BY <2>1, <2>2
<1>6. NoneLost'
  <2> SUFFICES ASSUME NEW y \in Ids, Live(y)', y \notin dropped'
               PROVE  \E m \in TableNames, q \in Peers : table'[m][q] = y
    BY DEF NoneLost, Tabled
  <2>1. CASE y = x  BY <2>1
  <2>2. CASE y # x
    <3>1. PICK m \in TableNames, q \in Peers : table[m][q] = y
      BY <1>3 DEF TableInv, NoneLost, Tabled
    <3>2. q # p  BY <1>4, <2>2, <3>1 DEF None, Ids
    <3> QED BY <3>1, <3>2
  <2> QED BY <2>1, <2>2
<1>7. UsersTable'
  <2> SUFFICES ASSUME core = "up", NEW y \in Ids
               PROVE  /\ sock'[y].user = "connect"
                           => table'["act_connect"][sock'[y].peer] = y
                      /\ sock'[y].user \in {"held", "close"}
                           => table'["umps"][sock'[y].peer] = y
    BY DEF UsersTable
  <2>1. CASE y = x
    BY <1>2, <2>1 DEF TableNames
  <2>2. CASE y # x
    <3>1. sock'[y] = sock[y] /\ sock[y].peer \in Peers /\ y # None
      BY <1>2, <2>2 DEF TableInv, Types, Sockets, None, Ids
    <3>2. \A m \in TableNames : table[m][p] # y
      BY <1>4, <2>2, <3>1
    <3>3. sock[y].user \in {"connect", "held", "close"} => sock[y].peer # p
      BY <3>1, <3>2 DEF TableInv, UsersTable, TableNames
    <3> QED BY <3>1, <3>3 DEF TableInv, UsersTable, TableNames
  <2> QED BY <2>1, <2>2
<1>8. QuietWhenClosed'  BY <1>2 DEF TableInv, QuietWhenClosed
<1> QED BY <1>1, <1>5, <1>6, <1>7, <1>8 DEF TableInv

\* A socket without a user goes out of the tables: it is freed, or it is dropped.
LEMMA RemoveKeeps ==
  ASSUME TableInv, core = "up", NEW from \in TableNames, NEW p \in Peers,
         NEW x \in Ids, table[from][p] = x,
         NEW s \in Sockets, s.user \in {"none", "done"},
         s.state = "FREED" \/ x \in dropped',
         sock' = [sock EXCEPT ![x] = s],
         OnlyIn("umps", p, None),
         dropped \subseteq dropped', dropped' \subseteq Ids, UNCHANGED core
  PROVE  TableInv'
<1> USE DEF OnlyIn
<1>1. Types'  BY DEF TableInv, Types
<1>2. sock'[x] = s /\ \A y \in Ids \ {x} : sock'[y] = sock[y]  BY DEF TableInv, Types
<1>3. \A y \in Ids \ {x} : Live(y)' <=> Live(y)  BY <1>2 DEF Live
<1>4. /\ \A m \in TableNames, q \in Peers : table[m][q] = x => m = from /\ q = p
      /\ \A m \in TableNames \ {from} : table[m][p] = None
  BY OthersEmpty
<1>5. OnePerPeer'
  <2> SUFFICES ASSUME NEW m \in TableNames, NEW q \in Peers, table'[m][q] # None
               PROVE  /\ Live(table[m][q])' /\ sock'[table'[m][q]].peer = q
                      /\ \A u \in TableNames \ {m} : table'[u][q] = None
    BY DEF OnePerPeer
  <2>1. q # p  OBVIOUS
  <2>2. table'[m][q] = table[m][q] /\ table[m][q] \in Ids \ {x}
    BY <1>4, <2>1 DEF TableInv, Types
  <2> QED BY <1>2, <1>3, <2>1, <2>2 DEF TableInv, OnePerPeer
<1>6. NoneLost'
  <2> SUFFICES ASSUME NEW y \in Ids, Live(y)', y \notin dropped'
               PROVE  \E m \in TableNames, q \in Peers : table'[m][q] = y
    BY DEF NoneLost, Tabled
  <2>1. y # x  BY <1>2 DEF Live
  <2>2. PICK m \in TableNames, q \in Peers : table[m][q] = y
    BY <1>3, <2>1 DEF TableInv, NoneLost, Tabled
  <2>3. q # p  BY <1>4, <2>1, <2>2 DEF None, Ids
  <2> QED BY <2>2, <2>3
<1>7. UsersTable'
  <2> SUFFICES ASSUME NEW y \in Ids
               PROVE  /\ sock'[y].user = "connect"
                           => table'["act_connect"][sock'[y].peer] = y
                      /\ sock'[y].user \in {"held", "close"}
                           => table'["umps"][sock'[y].peer] = y
    BY DEF UsersTable
  <2>1. CASE y = x
    BY <1>2, <2>1
  <2>2. CASE y # x
    <3>1. sock'[y] = sock[y] /\ sock[y].peer \in Peers /\ y # None
      BY <1>2, <2>2 DEF TableInv, Types, Sockets, None, Ids
    <3>2. \A m \in TableNames : table[m][p] # y
      BY <1>4, <2>2, <3>1
    <3>3. sock[y].user \in {"connect", "held", "close"} => sock[y].peer # p
      BY <3>1, <3>2 DEF TableInv, UsersTable, TableNames
    <3> QED BY <3>1, <3>3 DEF TableInv, UsersTable, TableNames
  <2> QED BY <2>1, <2>2
<1>8. QuietWhenClosed'  BY DEF QuietWhenClosed
<1> QED BY <1>1, <1>5, <1>6, <1>7, <1>8 DEF TableInv

-----------------------------------------------------------------------------
(* The operations *)

LEMMA NewSocketType ==
  ASSUME NEW p \in Peers
  PROVE  /\ NewSocket(p) \in Sockets /\ WithConnect(NewSocket(p)) \in Sockets
         /\ NewSocket(p).peer = p /\ NewSocket(p).state = "CLOSED"
         /\ NewSocket(p).user = "none"
         /\ WithConnect(NewSocket(p)).peer = p /\ WithConnect(NewSocket(p)).state = "CLOSED"
         /\ WithConnect(NewSocket(p)).user = "connect"
<1>1. Unused \in Sockets
  BY PeersAssumption DEF Unused, Sockets, States
<1>2. NewSocket(p) \in Sockets /\ NewSocket(p).peer = p /\ NewSocket(p).state = "CLOSED"
      /\ NewSocket(p).user = "none"
  BY <1>1 DEF NewSocket, Sockets, States, Unused
<1> QED BY <1>2 DEF WithConnect, Sockets

LEMMA FreeType ==
  ASSUME NEW s \in Sockets
  PROVE  /\ Free(s) \in Sockets /\ Free(s).state = "FREED"
         /\ Free(s).user = IF s.user = "done" THEN "none" ELSE s.user
         /\ [Free(s) EXCEPT !.user = "none"] \in Sockets
         /\ [Free(s) EXCEPT !.user = "none"].state = "FREED"
         /\ [Free(s) EXCEPT !.user = "none"].user = "none"
<1>1. Unused \in Sockets
  BY PeersAssumption DEF Unused, Sockets, States
<1>2. (IF s.user = "done" THEN "none" ELSE s.user)
        \in {"none", "connect", "held", "close", "done"}
  BY DEF Sockets
<1>3. Free(s) \in Sockets /\ Free(s).state = "FREED"
      /\ Free(s).user = IF s.user = "done" THEN "none" ELSE s.user
  BY <1>1, <1>2 DEF Free, Sockets, States
<1> QED BY <1>3 DEF Sockets

\* ump_connect and the receive thread make sockets only for unknown addresses.
LEMMA NewKeeps ==
  ASSUME TableInv, NEW p \in Peers, ConnectNew(p) \/ ReceiveSyn(p) PROVE TableInv'
<1>1. CASE ConnectNew(p)
  <2>1. core = "up" /\ ~Known(p) /\ UNCHANGED <<dropped, core>>
    BY <1>1 DEF ConnectNew, Occupied, Known, TableNames
  <2>2. PICK x \in Ids : /\ NextId(x)
                         /\ sock' = [sock EXCEPT ![x] = WithConnect(NewSocket(p))]
                         /\ table' = PutIn("act_connect", p, x)
    BY <1>1 DEF ConnectNew
  <2> QED BY <2>1, <2>2, NewSocketType, AddKeeps DEF NextId, TableNames
<1>2. CASE ReceiveSyn(p)
  <2>1. core = "up" /\ ~Known(p) /\ UNCHANGED <<dropped, core>>
    BY <1>2 DEF ReceiveSyn
  <2>2. PICK x \in Ids : /\ NextId(x)
                         /\ sock' = [sock EXCEPT ![x] = NewSocket(p)]
                         /\ table' = PutIn("backlog", p, x)
    BY <1>2 DEF ReceiveSyn
  <2> QED BY <2>1, <2>2, NewSocketType, AddKeeps DEF NextId, TableNames
<1> QED BY <1>1, <1>2

\* ump_connect on a socket of the backlog takes it over or drops it.
LEMMA ConnectBacklogKeeps ==
  ASSUME TableInv, NEW p \in Peers, ConnectBacklog(p) PROVE TableInv'
<1>0. {"backlog", "act_connect"} \subseteq TableNames  BY DEF TableNames
<1> PICK x \in Ids : table["backlog"][p] = x
  BY <1>0 DEF ConnectBacklog, TableInv, Types
<1>1. core = "up" /\ core' = core /\ sock[x] \in Sockets
  BY DEF ConnectBacklog, TableInv, Types
<1>2. sock[x].peer = p /\ sock[x].user \in {"none", "done"}
  BY <1>0, <1>1, OthersEmpty, NoUser
<1>3. CASE sock[x].state \in {"CLOSED", "CLOSING"}
  <2>1. table' = TakeOut(p, {"backlog"}) /\ dropped' = dropped \union {x} /\ sock' = sock
    BY <1>3 DEF ConnectBacklog
  <2>2. OnlyIn("umps", p, None)  BY <1>0, <2>1, TakenOut
  <2>3. sock' = [sock EXCEPT ![x] = sock[x]]  BY <2>1 DEF TableInv, Types
  <2>4. x \in dropped' /\ dropped \subseteq dropped' /\ dropped' \subseteq Ids
    BY <2>1 DEF TableInv, Types
  <2> QED BY <1>0, <1>1, <1>2, <2>2, <2>3, <2>4, RemoveKeeps
<1>4. CASE sock[x].state \notin {"CLOSED", "CLOSING"}
  <2>1. table' = Move("backlog", "act_connect", p) /\ dropped' = dropped
    BY <1>4 DEF ConnectBacklog
  <2>2. OnlyIn("act_connect", p, x)  BY <1>0, <2>1, Moved
  <2>3. PICK s \in Sockets : /\ s.peer = p /\ s.state = sock[x].state /\ s.user = "connect"
                             /\ sock' = [sock EXCEPT ![x] = s]
    <3>1. WithConnect(sock[x]) \in Sockets  BY <1>1 DEF WithConnect, Sockets
    <3> QED BY <1>1, <1>2, <1>4, <3>1 DEF ConnectBacklog, WithConnect, Sockets
  <2> QED BY <1>0, <1>1, <2>1, <2>2, <2>3, MoveKeeps
<1> QED BY <1>3, <1>4

\* ump_connect gives the user the socket, or frees it.
LEMMA ConnectReturnKeeps ==
  ASSUME TableInv, NEW x \in Ids, ConnectReturn(x) PROVE TableInv'
<1>0. {"umps", "act_connect"} \subseteq TableNames  BY DEF TableNames
<1>1. sock[x] \in Sockets /\ sock[x].user = "connect" /\ core = "up"
  BY DEF ConnectReturn, TableInv, Types, QuietWhenClosed
<1> PICK p \in Peers : p = sock[x].peer  BY <1>1 DEF Sockets
<1>2. table["act_connect"][p] = x  BY <1>1 DEF TableInv, UsersTable
<1>3. UNCHANGED <<dropped, core>>  BY DEF ConnectReturn
<1>4. CASE sock[x].ok
  <2>1. table' = [TakeOut(p, {"act_connect"}) EXCEPT !["umps"][p] = x]
    BY <1>4 DEF ConnectReturn
  <2>2. OnlyIn("umps", p, x)  BY <1>0, <1>2, <2>1, Replaced
  <2>3. PICK s \in Sockets : /\ s.peer = p /\ s.state = sock[x].state /\ s.user = "held"
                             /\ sock' = [sock EXCEPT ![x] = s]
    <3>1. [sock[x] EXCEPT !.user = "held", !.ok = FALSE] \in Sockets  BY <1>1 DEF Sockets
    <3>2. sock' = [sock EXCEPT ![x] = [sock[x] EXCEPT !.user = "held", !.ok = FALSE]]
      BY <1>4 DEF ConnectReturn, TableInv, Types
    <3> QED BY <1>1, <3>1, <3>2 DEF Sockets
  <2> QED BY <1>0, <1>1, <1>2, <1>3, <2>2, <2>3, MoveKeeps
<1>5. CASE ~sock[x].ok
  <2>1. OnlyIn("umps", p, None)
    BY <1>0, <1>2, <1>5, TakenOut DEF ConnectReturn
  <2>2. PICK s \in Sockets : /\ s.state = "FREED" /\ s.user = "none"
                             /\ sock' = [sock EXCEPT ![x] = s]
    BY <1>1, <1>5, FreeType DEF ConnectReturn
  <2>3. dropped \subseteq dropped' /\ dropped' \subseteq Ids  BY <1>3 DEF TableInv, Types
  <2> QED BY <1>0, <1>1, <1>2, <1>3, <2>1, <2>2, <2>3, RemoveKeeps
<1> QED BY <1>4, <1>5

\* ump_accept takes one connection out of the backlog.
LEMMA AcceptKeeps ==
  ASSUME TableInv, NEW a \in Acceptors, AcceptStep(a) PROVE TableInv'
<1>0. {"umps", "backlog"} \subseteq TableNames  BY DEF TableNames
<1>1. CASE UNCHANGED <<sock, table, dropped, core>>
  BY <1>1 DEF TableInv, Types, OnePerPeer, NoneLost, Tabled, Live, UsersTable, QuietWhenClosed
<1>2. ASSUME NEW x \in Ready, table' = Accepted(x), UNCHANGED <<dropped, core>>,
             sock' = [sock EXCEPT ![x].user = "held"]
      PROVE  TableInv'
  <2>1. x \in Ids /\ sock[x] \in Sockets  BY <1>2 DEF Ready, TableInv, Types
  <2> PICK p \in Peers : p = sock[x].peer  BY <2>1 DEF Sockets
  <2>2. table["backlog"][p] = x  BY <1>2 DEF Ready, AcceptReady
  <2>3. OnlyIn("umps", p, x)  BY <1>0, <1>2, <2>1, <2>2, Moved DEF Accepted
  <2>4. PICK s \in Sockets : /\ s.peer = p /\ s.state = sock[x].state /\ s.user = "held"
                             /\ sock' = [sock EXCEPT ![x] = s]
    <3>1. [sock[x] EXCEPT !.user = "held"] \in Sockets  BY <2>1 DEF Sockets
    <3>2. sock' = [sock EXCEPT ![x] = [sock[x] EXCEPT !.user = "held"]]
      BY <1>2, <2>1 DEF TableInv, Types
    <3> QED BY <2>1, <3>1, <3>2 DEF Sockets
  <2> QED BY <1>0, <1>2, <2>1, <2>2, <2>3, <2>4, MoveKeeps
<1> QED BY <1>1, <1>2 DEF AcceptStep, AcceptCall, AcceptWake, AcceptScan

\* ump_close leaves the socket in umps until the call has ended, then it goes to
\* closed_umps.
LEMMA CloseKeeps ==
  ASSUME TableInv, NEW x \in Ids, CloseCall(x) \/ CloseReturn(x) PROVE TableInv'
<1>0. {"umps", "closed"} \subseteq TableNames  BY DEF TableNames
<1>1. sock[x] \in Sockets  BY DEF TableInv, Types
<1>2. CASE CloseCall(x)
  <2>1. /\ core = "up" /\ sock[x].user = "held" /\ UNCHANGED <<table, dropped, core>>
        /\ sock' = [sock EXCEPT ![x].user = "close", ![x].call = "CLOSE"]
    BY <1>2 DEF CloseCall
  <2>2. Types'  BY <1>1, <2>1 DEF TableInv, Types, Sockets
  <2>3. \A y \in Ids : /\ sock'[y].peer = sock[y].peer
                       /\ Live(y)' <=> Live(y)
                       /\ y # x => sock'[y].user = sock[y].user
                       /\ sock'[x].user = "close"
    BY <1>1, <2>1 DEF TableInv, Types, Sockets, Live
  <2>4. OnePerPeer'  BY <2>1, <2>3 DEF TableInv, Types, OnePerPeer
  <2>5. NoneLost'
    <3>1. \A y \in Ids : Tabled(y)' <=> Tabled(y)  BY <2>1 DEF Tabled
    <3> QED BY <2>1, <2>3, <3>1 DEF TableInv, NoneLost
  <2>6. UsersTable'
    <3>1. table["umps"][sock[x].peer] = x  BY <2>1 DEF TableInv, UsersTable
    <3>2. \A y \in Ids : y # x => sock'[y].user = sock[y].user  BY <2>3
    <3>3. \A y \in Ids : sock'[y].peer = sock[y].peer  BY <2>3
    <3>4. sock'[x].user = "close" /\ table' = table  BY <2>1, <2>3
    <3> QED BY <2>1, <3>1, <3>2, <3>3, <3>4 DEF TableInv, UsersTable
  <2>7. QuietWhenClosed'  BY <2>1 DEF QuietWhenClosed
  <2> QED BY <2>2, <2>4, <2>5, <2>6, <2>7 DEF TableInv
<1>3. CASE CloseReturn(x)
  <2>1. core = "up" /\ UNCHANGED <<dropped, core>>
    BY <1>3 DEF CloseReturn, TableInv, Types, QuietWhenClosed
  <2> PICK p \in Peers : p = sock[x].peer  BY <1>1 DEF Sockets
  <2>2. table["umps"][p] = x  BY <1>3, <2>1 DEF CloseReturn, TableInv, UsersTable
  <2>3. OnlyIn("closed", p, x)
    <3> PICK names : names = {"act_connect", "backlog", "umps"}  OBVIOUS
    <3>1. table' = [TakeOut(p, names) EXCEPT !["closed"][p] = x]
      BY <1>3 DEF CloseReturn
    <3> QED BY <1>0, <2>2, <3>1, Replaced
  <2>4. PICK s \in Sockets : /\ s.peer = p /\ s.state = sock[x].state /\ s.user = "done"
                             /\ sock' = [sock EXCEPT ![x] = s]
    <3>1. [sock[x] EXCEPT !.user = "done", !.ok = FALSE] \in Sockets  BY <1>1 DEF Sockets
    <3>2. sock' = [sock EXCEPT ![x] = [sock[x] EXCEPT !.user = "done", !.ok = FALSE]]
      BY <1>3 DEF CloseReturn, TableInv, Types
    <3> QED BY <1>1, <3>1, <3>2 DEF Sockets
  <2> QED BY <1>0, <2>1, <2>2, <2>3, <2>4, MoveKeeps
<1> QED BY <1>2, <1>3

\* ump_core_close empties the tables and frees what was in them.
LEMMA CoreCloseKeeps == ASSUME TableInv, CoreClose PROVE TableInv'
<1>1. \A x \in Ids : Free(sock[x]) \in Sockets /\ Free(sock[x]).state = "FREED"
                     /\ Free(sock[x]).user \in {"none", sock[x].user}
  BY FreeType DEF TableInv, Types
<1>2. \A x \in Ids : sock'[x] = IF Tabled(x) THEN Free(sock[x]) ELSE sock[x]
  BY DEF CoreClose, Freed
<1>3. /\ sock' \in [Ids -> Sockets]
      /\ \A x \in Ids : sock'[x].user \in {"none", sock[x].user}
      /\ \A x \in Ids : Tabled(x) => sock'[x].state = "FREED"
      /\ \A x \in Ids : ~Tabled(x) => sock'[x] = sock[x]
  BY <1>1, <1>2 DEF CoreClose, Freed, TableInv, Types
<1>4. /\ table' \in [TableNames -> [Peers -> Ids \union {None}]]
      /\ \A m \in TableNames, q \in Peers : table'[m][q] = None
      /\ UNCHANGED dropped /\ core' = "closed"
  BY DEF CoreClose
<1>5. Types'  BY <1>3, <1>4 DEF TableInv, Types
<1>6. OnePerPeer'  BY <1>4 DEF OnePerPeer
<1>7. NoneLost'
  BY <1>3, <1>4 DEF TableInv, NoneLost, Live
<1>8. UsersTable'  BY <1>4 DEF UsersTable
<1>9. QuietWhenClosed'  BY <1>3 DEF CoreClose, QuietWhenClosed
<1> QED BY <1>5, <1>6, <1>7, <1>8, <1>9 DEF TableInv

\* The cleaner frees sockets that nobody has.
LEMMA CleanKeeps ==
  ASSUME TableInv, NEW n \in TableNames, NEW p \in Peers, Clean(n, p) PROVE TableInv'
<1>0. "umps" \in TableNames  BY DEF TableNames
<1> PICK x \in Ids : table[n][p] = x  BY DEF Clean, TableInv, Types
<1>1. core = "up" /\ UNCHANGED <<dropped, core>> /\ sock[x] \in Sockets
  BY DEF Clean, TableInv, Types
<1>2. sock[x].user \in {"none", "done"}
  BY <1>1, NoUser DEF Clean, CleanedTables
<1>3. PICK s \in Sockets : /\ s.state = "FREED" /\ s.user \in {"none", "done"}
                           /\ sock' = [sock EXCEPT ![x] = s]
  BY <1>1, <1>2, FreeType DEF Clean, TableInv, Types
<1>4. OnlyIn("umps", p, None)  BY TakenOut DEF Clean
<1>5. dropped \subseteq dropped' /\ dropped' \subseteq Ids  BY <1>1 DEF TableInv, Types
<1> QED BY <1>0, <1>1, <1>2, <1>3, <1>4, <1>5, RemoveKeeps

-----------------------------------------------------------------------------
(* The tables *)

LEMMA TablesInit == ASSUME Init PROVE TableInv
<1>1. Unused \in Sockets /\ Unused.state = "UNUSED" /\ Unused.user = "none"
  BY PeersAssumption DEF Unused, Sockets, States
<1>2. Types  BY <1>1 DEF Init, Types
<1>3. OnePerPeer  BY DEF Init, OnePerPeer
<1>4. NoneLost  BY <1>1 DEF Init, NoneLost, Live
<1>5. UsersTable  BY <1>1 DEF Init, UsersTable
<1>6. QuietWhenClosed  BY DEF Init, QuietWhenClosed
<1> QED BY <1>2, <1>3, <1>4, <1>5, <1>6 DEF TableInv

LEMMA TablesStep == ASSUME TableInv, [Next]_vars PROVE TableInv'
<1>1. ASSUME NEW x \in Ids, SocketStep(x) PROVE TableInv'
  BY <1>1, SocketStepKeeps
<1>2. ASSUME NEW x \in Ids, UserStep(x) PROVE TableInv'
  BY <1>2, ConnectReturnKeeps, CloseKeeps DEF UserStep
<1>3. ASSUME NEW p \in Peers, ConnectNew(p) \/ ConnectBacklog(p) \/ ReceiveSyn(p)
      PROVE  TableInv'
  BY <1>3, NewKeeps, ConnectBacklogKeeps
<1>4. ASSUME NEW a \in Acceptors, AcceptStep(a) PROVE TableInv'
  BY <1>4, AcceptKeeps
<1>5. ASSUME NEW t \in TableNames, NEW p \in Peers, Clean(t, p) PROVE TableInv'
  BY <1>5, CleanKeeps
<1>6. CASE CoreClose  BY <1>6, CoreCloseKeeps
<1>7. CASE UNCHANGED vars
  BY <1>7 DEF vars, TableInv, Types, OnePerPeer, NoneLost, Tabled, Live, UsersTable,
              QuietWhenClosed
<1> QED BY <1>1, <1>2, <1>3, <1>4, <1>5, <1>6, <1>7 DEF Next

\* Users, tables and sockets agree, whatever the threads of the core and of its users do.
THEOREM TablesHold == Spec => []TableInv
<1>1. Init => TableInv  BY TablesInit
<1>2. TableInv /\ [Next]_vars => TableInv'  BY TablesStep
<1> QED BY <1>1, <1>2, PTL DEF Spec

\* An address is in one table at most, with a live socket of its own, whatever users,
\* peers, the cleaner and the receive thread do to the tables at once.
THEOREM AddressesAreUnique == Spec => []OnePerPeer
<1>1. TableInv => OnePerPeer  BY DEF TableInv
<1> QED BY <1>1, TablesHold, PTL

\* No socket is forgotten while its thread runs, but for those that ump_connect drops.
THEOREM SocketsAreFound == Spec => []NoneLost
<1>1. TableInv => NoneLost  BY DEF TableInv
<1> QED BY <1>1, TablesHold, PTL

\* No socket is freed that a user is in a call on; one that a user holds outlives the
\* cleaner and the calls of others, and goes only with the core.
THEOREM UsersAreSafe == Spec => []UsersSocketLives
<1>1. ASSUME TableInv, core = "up", NEW x \in Ids,
             sock[x].user \in {"connect", "held", "close"}
      PROVE  Live(x)
  <2>1. sock[x].peer \in Peers /\ x # None  BY <1>1 DEF TableInv, Types, Sockets, None, Ids
  <2>2. \E t \in TableNames : table[t][sock[x].peer] = x
    BY <1>1 DEF TableInv, UsersTable, TableNames
  <2> QED BY <1>1, <2>1, <2>2 DEF TableInv, OnePerPeer
<1>2. TableInv => UsersSocketLives
  <2> SUFFICES ASSUME TableInv PROVE UsersSocketLives
    OBVIOUS
  <2>1. core \in {"up", "closed"}  BY DEF TableInv, Types
  <2>2. CASE core = "up"  BY <1>1, <2>2 DEF UsersSocketLives
  <2>3. CASE core = "closed"  BY <2>3 DEF UsersSocketLives, TableInv, QuietWhenClosed
  <2> QED BY <2>1, <2>2, <2>3
<1> QED BY <1>2, TablesHold, PTL

-----------------------------------------------------------------------------
(* The backlog and the order of accept *)

\* One entry more, or none
LEMMA AddedEntry ==
  ASSUME NEW S, NEW T, IsFiniteSet(S), NEW p, T \subseteq S \union {p},
         Cardinality(S) <= BacklogLimit
  PROVE  Cardinality(T) <= BacklogLimit + 1
<1>1. IsFiniteSet(S \union {p}) /\ Cardinality(S \union {p}) <= Cardinality(S) + 1
  BY FS_AddElement, FS_CardinalityType
<1>2. Cardinality(T) <= Cardinality(S \union {p}) /\ IsFiniteSet(T)  BY <1>1, FS_Subset
<1>3. Cardinality(S) \in Nat /\ Cardinality(T) \in Nat /\ Cardinality(S \union {p}) \in Nat
  BY <1>1, <1>2, FS_CardinalityType
<1> QED BY <1>1, <1>2, <1>3, LimitAssumption

LEMMA FewerEntries ==
  ASSUME NEW S, NEW T, IsFiniteSet(S), T \subseteq S, Cardinality(S) <= BacklogLimit + 1
  PROVE  Cardinality(T) <= BacklogLimit + 1
<1>1. Cardinality(T) <= Cardinality(S) /\ IsFiniteSet(T)  BY FS_Subset
<1>2. Cardinality(S) \in Nat /\ Cardinality(T) \in Nat  BY <1>1, FS_CardinalityType
<1> QED BY <1>1, <1>2, LimitAssumption

\* Only the receive thread puts sockets into the backlog.
LEMMA BacklogStep ==
  ASSUME TableInv, Bounded, [Next]_vars PROVE Bounded'
<1> DEFINE S == Entries("backlog")
<1>0. "backlog" \in TableNames  BY DEF TableNames
<1>1. IsFiniteSet(S)  BY PeersAssumption, FS_Subset DEF Entries
<1>2. ASSUME \A q \in Peers : table'["backlog"][q] \in {table["backlog"][q], None}
      PROVE  Bounded'
  <2>1. S' \subseteq S  BY <1>2 DEF Entries
  <2> QED BY <1>1, <2>1, FewerEntries DEF Bounded
<1>3. ASSUME NEW p \in Peers, NEW names, table' = TakeOut(p, names) PROVE Bounded'
  BY <1>0, <1>2, <1>3, TakeOutEntries DEF TableInv
<1>4. ASSUME NEW p \in Peers, NEW names, NEW to \in TableNames \ {"backlog"}, NEW x \in Ids,
             table' = [TakeOut(p, names) EXCEPT ![to][p] = x]
      PROVE  Bounded'
  BY <1>0, <1>2, <1>4, ReplaceEntries DEF TableInv
<1>5. ASSUME NEW p \in Peers, NEW from \in TableNames, NEW to \in TableNames \ {"backlog"},
             table[from][p] \in Ids, table' = Move(from, to, p)
      PROVE  Bounded'
  BY <1>4, <1>5 DEF Move
<1>6. CASE table' = table  BY <1>2, <1>6
<1>7. ASSUME NEW p \in Peers, ReceiveSyn(p) PROVE Bounded'
  <2>1. PICK x \in Ids : table' = PutIn("backlog", p, x)  BY <1>7 DEF ReceiveSyn
  <2>2. S' \subseteq S \union {p}
    BY <1>0, <2>1, PutInEntries DEF Entries, TableInv
  <2>3. Cardinality(S) <= BacklogLimit  BY <1>7 DEF ReceiveSyn
  <2> QED BY <1>1, <2>2, <2>3, AddedEntry DEF Bounded
<1>8. ASSUME NEW p \in Peers, ConnectNew(p) PROVE Bounded'
  <2>1. PICK x \in Ids : table' = PutIn("act_connect", p, x)  BY <1>8 DEF ConnectNew
  <2> QED BY <1>0, <1>2, <2>1, PutInEntries DEF TableInv, TableNames
<1>9. ASSUME NEW p \in Peers, ConnectBacklog(p) PROVE Bounded'
  <2>1. table["backlog"][p] \in Ids  BY <1>0, <1>9 DEF ConnectBacklog, TableInv, Types
  <2> QED BY <1>0, <1>3, <1>5, <1>9, <2>1 DEF ConnectBacklog, TableNames
<1>10. ASSUME NEW x \in Ids, SocketStep(x) \/ CloseCall(x) PROVE Bounded'
  BY <1>6, <1>10 DEF SocketStep, TakeCall, Establish, Turn, CloseCall
<1>11. ASSUME NEW x \in Ids, ConnectReturn(x) \/ CloseReturn(x) PROVE Bounded'
  <2>1. sock[x].peer \in Peers  BY DEF TableInv, Types, Sockets
  <2> QED BY <1>3, <1>4, <1>11, <2>1 DEF ConnectReturn, CloseReturn, TableNames
<1>12. ASSUME NEW a \in Acceptors, AcceptStep(a) PROVE Bounded'
  <2>1. ASSUME NEW x \in Ready, table' = Accepted(x) PROVE Bounded'
    <3>1. sock[x].peer \in Peers /\ table["backlog"][sock[x].peer] \in Ids
      BY DEF Ready, AcceptReady, TableInv, Types, Sockets
    <3> QED BY <1>5, <2>1, <3>1 DEF Accepted, TableNames
  <2> QED BY <1>6, <1>12, <2>1 DEF AcceptStep, AcceptCall, AcceptWake, AcceptScan
<1>13. ASSUME NEW t \in TableNames, NEW p \in Peers, Clean(t, p) PROVE Bounded'
  BY <1>3, <1>13 DEF Clean
<1>14. CASE CoreClose
  BY <1>0, <1>2, <1>14 DEF CoreClose
<1>15. CASE UNCHANGED vars  BY <1>6, <1>15 DEF vars
<1> QED BY <1>7, <1>8, <1>9, <1>10, <1>11, <1>12, <1>13, <1>14, <1>15 DEF Next, UserStep

\* A step takes a socket from the order of accept only when it is not ready any more.
LEMMA OrderKept ==
  ASSUME EarlierWait, NEW x \in Ids,
         \A y \in Ids \ {x} : sock'[y] = sock[y],
         \A q \in Peers, y \in Ids \ {x} :
           table["backlog"][q] = y => table'["backlog"][q] = y,
         sock \in [Ids -> Sockets],
         \/ earlier' = Without(x)
         \/ earlier' = earlier /\ (AcceptReady(x) => AcceptReady(x)')
  PROVE  EarlierWait'
<1>1. ASSUME NEW y \in Ids \ {x}, AcceptReady(y) PROVE AcceptReady(y)'
  <2>1. sock[y].peer \in Peers  BY DEF Sockets
  <2> QED BY <1>1, <2>1 DEF AcceptReady
<1>2. earlier' \subseteq earlier  BY DEF Without
<1>3. CASE earlier' = Without(x)
  BY <1>1, <1>2, <1>3 DEF EarlierWait, Without
<1>4. CASE earlier' = earlier /\ (AcceptReady(x) => AcceptReady(x)')
  BY <1>1, <1>4 DEF EarlierWait
<1> QED BY <1>3, <1>4

\* The steps of a socket's thread
LEMMA SocketOrder ==
  ASSUME TableInv, EarlierWait, NEW x \in Ids, SocketStep(x) PROVE EarlierWait'
<1>0. sock \in [Ids -> Sockets] /\ sock[x] \in Sockets  BY DEF TableInv, Types
<1>1. table' = table /\ \A y \in Ids \ {x} : sock'[y] = sock[y]
  BY <1>0 DEF SocketStep, TakeCall, Establish, Turn
<1>2. CASE TakeCall(x)
  <2>1. sock'[x] = Taken(sock[x]) /\ Same(sock[x], Taken(sock[x]))
    BY <1>0, <1>2, TakenSame DEF TakeCall, Live
  <2>2. CASE Taken(sock[x]).state = "ESTABLISHED"
    <3>1. earlier' = earlier  BY <1>2, <2>2 DEF TakeCall
    <3>2. AcceptReady(x) => AcceptReady(x)'  BY <1>1, <2>1, <2>2 DEF AcceptReady, Same
    <3> QED BY <1>0, <1>1, <3>1, <3>2, OrderKept
  <2>3. CASE Taken(sock[x]).state # "ESTABLISHED"
    <3>1. earlier' = Without(x)  BY <1>2, <2>3 DEF TakeCall
    <3> QED BY <1>0, <1>1, <3>1, OrderKept
  <2> QED BY <2>2, <2>3
<1>3. CASE Establish(x)
  <2>1. sock'[x].state = "ESTABLISHED" /\ sock'[x].peer = sock[x].peer
    BY <1>0, <1>3 DEF Establish, Answer, Sockets
  <2>2. ~AcceptReady(x)  BY <1>3 DEF Establish, AcceptReady
  <2>3. CASE table["backlog"][sock[x].peer] = x
    <3>1. AcceptReady(x)'  BY <1>1, <2>1, <2>3 DEF AcceptReady
    <3>2. \A y \in Ids : AcceptReady(y) => AcceptReady(y)'
      BY <1>1, <2>2 DEF AcceptReady
    <3>3. earlier' = earlier \union {<<y, x>> : y \in Ready \ {x}}
      BY <1>3, <2>3 DEF Establish
    <3> QED BY <3>1, <3>2, <3>3 DEF EarlierWait, Ready
  <2>4. CASE table["backlog"][sock[x].peer] # x
    <3>1. earlier' = earlier  BY <1>3, <2>4 DEF Establish
    <3> QED BY <1>0, <1>1, <2>2, <3>1, OrderKept
  <2> QED BY <2>3, <2>4
<1>4. CASE Turn(x)
  BY <1>0, <1>1, <1>4, OrderKept DEF Turn
<1> QED BY <1>2, <1>3, <1>4 DEF SocketStep

\* The steps of users
LEMMA UserOrder ==
  ASSUME TableInv, EarlierWait, NEW x \in Ids, UserStep(x) PROVE EarlierWait'
<1>0. /\ sock \in [Ids -> Sockets] /\ sock[x] \in Sockets
      /\ {"act_connect", "backlog", "umps", "closed"} \subseteq TableNames
  BY DEF TableInv, Types, TableNames
<1> PICK p \in Peers : p = sock[x].peer  BY <1>0 DEF Sockets
<1>1. CASE CloseCall(x)
  <2>1. table' = table /\ earlier' = earlier /\ \A y \in Ids \ {x} : sock'[y] = sock[y]
    BY <1>0, <1>1 DEF CloseCall
  <2>2. sock'[x].state = sock[x].state /\ sock'[x].peer = sock[x].peer
    BY <1>0, <1>1 DEF CloseCall, Sockets
  <2>3. AcceptReady(x) => AcceptReady(x)'  BY <2>1, <2>2 DEF AcceptReady
  <2> QED BY <1>0, <2>1, <2>3, OrderKept
<1>2. ASSUME NEW n \in {"act_connect", "umps"}, table[n][p] = x,
             \A q \in Peers : \/ table'["backlog"][q] = table["backlog"][q]
                              \/ (q = p /\ table'["backlog"][q] = None),
             \A y \in Ids \ {x} : sock'[y] = sock[y], earlier' = earlier
      PROVE  EarlierWait'
  <2>1. table["backlog"][p] = None  BY <1>0, <1>2, OthersEmpty
  <2>2. ~AcceptReady(x)  BY <2>1 DEF AcceptReady, None, Ids
  <2>3. \A q \in Peers, y \in Ids \ {x} :
          table["backlog"][q] = y => table'["backlog"][q] = y
    BY <1>2, <2>1 DEF None, Ids
  <2> QED BY <1>0, <1>2, <2>2, <2>3, OrderKept
<1>3. CASE ConnectReturn(x)
  <2>1. table["act_connect"][p] = x
    BY <1>3 DEF ConnectReturn, TableInv, Types, UsersTable, QuietWhenClosed
  <2>2. \A q \in Peers : table'["backlog"][q] = table["backlog"][q]
    <3> PICK names : names = {"act_connect"}  OBVIOUS
    <3>1. \/ table' = TakeOut(p, names)
          \/ table' = [TakeOut(p, names) EXCEPT !["umps"][p] = x]
      BY <1>3 DEF ConnectReturn
    <3> QED BY <1>0, <3>1, TakeOutEntries, ReplaceEntries DEF TableInv
  <2>3. earlier' = earlier /\ \A y \in Ids \ {x} : sock'[y] = sock[y]
    BY <1>0, <1>3 DEF ConnectReturn
  <2> QED BY <1>2, <2>1, <2>2, <2>3
<1>4. CASE CloseReturn(x)
  <2>1. table["umps"][p] = x
    BY <1>4 DEF CloseReturn, TableInv, Types, UsersTable, QuietWhenClosed
  <2>2. \A q \in Peers : \/ table'["backlog"][q] = table["backlog"][q]
                         \/ (q = p /\ table'["backlog"][q] = None)
    <3> PICK names : names = {"act_connect", "backlog", "umps"}  OBVIOUS
    <3>1. table' = [TakeOut(p, names) EXCEPT !["closed"][p] = x]
      BY <1>4 DEF CloseReturn
    <3> QED BY <1>0, <3>1, ReplaceEntries DEF TableInv
  <2>3. earlier' = earlier /\ \A y \in Ids \ {x} : sock'[y] = sock[y]
    BY <1>0, <1>4 DEF CloseReturn
  <2> QED BY <1>2, <2>1, <2>2, <2>3
<1> QED BY <1>1, <1>3, <1>4 DEF UserStep


\* The steps on an address: a new socket is not ready, and one that leaves the backlog
\* leaves the order with it.
LEMMA AddressOrder ==
  ASSUME TableInv, EarlierWait, NEW p \in Peers,
         \/ ConnectNew(p) \/ ConnectBacklog(p) \/ ReceiveSyn(p)
         \/ \E t \in TableNames : Clean(t, p)
  PROVE  EarlierWait'
<1>0. sock \in [Ids -> Sockets] /\ {"act_connect", "backlog"} \subseteq TableNames
  BY DEF TableInv, Types, TableNames
<1>1. ASSUME NEW x \in Ids, NextId(x), NEW n \in {"act_connect", "backlog"},
             table[n][p] = None, table' = PutIn(n, p, x), earlier' = earlier,
             \A y \in Ids \ {x} : sock'[y] = sock[y]
      PROVE  EarlierWait'
  <2>1. ~AcceptReady(x)  BY <1>1 DEF NextId, AcceptReady
  <2>2. \A q \in Peers, y \in Ids \ {x} :
          table["backlog"][q] = y => table'["backlog"][q] = y
    <3>1. n \in TableNames /\ Types  BY <1>0 DEF TableInv
    <3>2. \A q \in Peers : table'["backlog"][q]
                             = IF "backlog" = n /\ q = p THEN x ELSE table["backlog"][q]
      BY <1>0, <1>1, <3>1, PutInEntries
    <3> QED BY <1>1, <3>2 DEF None, Ids
  <2> QED BY <1>0, <1>1, <2>1, <2>2, OrderKept
<1>2. CASE ConnectNew(p)
  <2>1. PICK x \in Ids : NextId(x) /\ table' = PutIn("act_connect", p, x) /\ earlier' = earlier
                         /\ \A y \in Ids \ {x} : sock'[y] = sock[y]
    BY <1>0, <1>2 DEF ConnectNew
  <2> QED BY <1>1, <1>2, <2>1 DEF ConnectNew, Occupied
<1>3. CASE ReceiveSyn(p)
  <2>1. PICK x \in Ids : NextId(x) /\ table' = PutIn("backlog", p, x) /\ earlier' = earlier
                         /\ \A y \in Ids \ {x} : sock'[y] = sock[y]
    BY <1>0, <1>3 DEF ReceiveSyn
  <2> QED BY <1>0, <1>1, <1>3, <2>1 DEF ReceiveSyn, Known
<1>4. ASSUME NEW n \in TableNames, NEW x \in Ids, table[n][p] = x,
             \A y \in Ids \ {x} : sock'[y] = sock[y], earlier' = Without(x),
             OnlyIn("umps", p, None) \/ OnlyIn("act_connect", p, x)
      PROVE  EarlierWait'
  <2>1. \A q \in Peers, y \in Ids \ {x} :
          table["backlog"][q] = y => table'["backlog"][q] = y
    <3> SUFFICES ASSUME NEW q \in Peers, NEW y \in Ids \ {x}, table["backlog"][q] = y
                 PROVE  table'["backlog"][q] = y
      OBVIOUS
    <3>1. q # p
      <4>1. n # "backlog" => table["backlog"][p] = None  BY <1>0, <1>4, OthersEmpty
      <4> QED BY <1>4, <4>1 DEF None, Ids
    <3> QED BY <1>0, <1>4, <3>1 DEF OnlyIn
  <2> QED BY <1>0, <1>4, <2>1, OrderKept
<1>5. CASE ConnectBacklog(p)
  <2> PICK x \in Ids : table["backlog"][p] = x
    BY <1>0, <1>5 DEF ConnectBacklog, TableInv, Types
  <2>1. OnlyIn("umps", p, None) \/ OnlyIn("act_connect", p, x)
    <3> PICK names : names = {"backlog"}  OBVIOUS
    <3>1. table' = TakeOut(p, names) \/ table' = Move("backlog", "act_connect", p)
      BY <1>5 DEF ConnectBacklog
    <3> QED BY <1>0, <3>1, TakenOut, Moved
  <2>2. earlier' = Without(x) /\ \A y \in Ids \ {x} : sock'[y] = sock[y]
    BY <1>0, <1>5 DEF ConnectBacklog
  <2> QED BY <1>0, <1>4, <2>1, <2>2
<1>6. ASSUME NEW t \in TableNames, Clean(t, p) PROVE EarlierWait'
  <2> PICK x \in Ids : table[t][p] = x  BY <1>6 DEF Clean, TableInv, Types
  <2>1. OnlyIn("umps", p, None)  BY <1>6, TakenOut DEF Clean
  <2>2. earlier' = Without(x) /\ \A y \in Ids \ {x} : sock'[y] = sock[y]
    BY <1>0, <1>6 DEF Clean
  <2> QED BY <1>4, <2>1, <2>2
<1> QED BY <1>2, <1>3, <1>5, <1>6

\* The steps of accepting threads
LEMMA AcceptOrder ==
  ASSUME TableInv, EarlierWait, NEW a \in Acceptors, AcceptStep(a) PROVE EarlierWait'
<1>0. sock \in [Ids -> Sockets] /\ {"umps", "backlog"} \subseteq TableNames
  BY DEF TableInv, Types, TableNames
<1>1. CASE UNCHANGED <<sock, table, earlier>>
  BY <1>1 DEF EarlierWait, AcceptReady
<1>2. ASSUME NEW x \in Ready, table' = Accepted(x), earlier' = Without(x),
             sock' = [sock EXCEPT ![x].user = "held"]
      PROVE  EarlierWait'
  <2>1. x \in Ids /\ sock[x] \in Sockets  BY <1>0 DEF Ready
  <2> PICK p \in Peers : p = sock[x].peer  BY <2>1 DEF Sockets
  <2>2. table["backlog"][p] = x  BY DEF Ready, AcceptReady
  <2>3. OnlyIn("umps", p, x)  BY <1>0, <1>2, <2>1, <2>2, Moved DEF Accepted
  <2>4. \A q \in Peers, y \in Ids \ {x} :
          table["backlog"][q] = y => table'["backlog"][q] = y
    BY <1>0, <2>2, <2>3 DEF OnlyIn
  <2>5. \A y \in Ids \ {x} : sock'[y] = sock[y]  BY <1>0, <1>2
  <2> QED BY <1>0, <1>2, <2>1, <2>4, <2>5, OrderKept
<1> QED BY <1>1, <1>2 DEF AcceptStep, AcceptCall, AcceptWake, AcceptScan

LEMMA OrderStep == ASSUME TableInv, EarlierWait, [Next]_vars PROVE EarlierWait'
<1>1. CASE CoreClose  BY <1>1 DEF CoreClose, EarlierWait
<1>2. CASE UNCHANGED vars  BY <1>2 DEF vars, EarlierWait, AcceptReady
<1> QED BY <1>1, <1>2, SocketOrder, UserOrder, AddressOrder, AcceptOrder DEF Next

-----------------------------------------------------------------------------
(* Type correctness *)

\* The parts of the state that no other invariant speaks of
FlagTypes ==
  /\ acceptOk \in BOOLEAN /\ crowded \in BOOLEAN
  /\ acceptor \in [Acceptors -> {"idle", "waiting", "scanning"}]

LEMMA FlagStep == ASSUME TableInv, FlagTypes, [Next]_vars PROVE FlagTypes'
<1>1. ASSUME NEW x \in Ids, SocketStep(x) PROVE FlagTypes'
  <2>1. sock[x].taken \in BOOLEAN  BY DEF TableInv, Types, Sockets
  <2> QED BY <1>1, <2>1
      DEF FlagTypes, SocketStep, TakeCall, Establish, Turn, TellAccept
<1>2. ASSUME NEW x \in Ids, UserStep(x) PROVE FlagTypes'
  BY <1>2 DEF FlagTypes, UserStep, ConnectReturn, CloseCall, CloseReturn
<1>3. ASSUME NEW p \in Peers, ConnectNew(p) \/ ConnectBacklog(p) \/ ReceiveSyn(p)
      PROVE  FlagTypes'
  BY <1>3 DEF FlagTypes, ConnectNew, ConnectBacklog, ReceiveSyn
<1>4. ASSUME NEW a \in Acceptors, AcceptStep(a) PROVE FlagTypes'
  BY <1>4 DEF FlagTypes, AcceptStep, AcceptCall, AcceptWake, AcceptScan
<1>5. ASSUME NEW t \in TableNames, NEW p \in Peers, Clean(t, p) PROVE FlagTypes'
  BY <1>5 DEF FlagTypes, Clean
<1>6. CASE CoreClose  BY <1>6 DEF FlagTypes, CoreClose
<1>7. CASE UNCHANGED vars  BY <1>7 DEF FlagTypes, vars
<1> QED BY <1>1, <1>2, <1>3, <1>4, <1>5, <1>6, <1>7 DEF Next

\* The state of the core has its type; in particular the backlog never holds more than
\* one socket above its limit, and the order of accept is an order of sockets that are
\* established in the backlog.
THEOREM CoreTypeCorrect == Spec => []TypeOK
<1> DEFINE CoreInv == TableInv /\ Bounded /\ EarlierWait /\ FlagTypes
<1>1. Init => CoreInv
  <2> SUFFICES ASSUME Init PROVE CoreInv
    OBVIOUS
  <2>1. TableInv  BY TablesInit
  <2>2. Bounded
    <3>1. Entries("backlog") = {}  BY DEF Init, Entries, TableNames
    <3> QED BY <3>1, FS_EmptySet, LimitAssumption DEF Bounded
  <2>3. EarlierWait /\ FlagTypes  BY DEF Init, EarlierWait, FlagTypes
  <2> QED BY <2>1, <2>2, <2>3
<1>2. CoreInv /\ [Next]_vars => CoreInv'
  BY TablesStep, BacklogStep, OrderStep, FlagStep
<1>3. CoreInv => TypeOK
  BY DEF TableInv, Types, Bounded, EarlierWait, FlagTypes, TypeOK
<1> HIDE DEF CoreInv
<1> QED BY <1>1, <1>2, <1>3, PTL DEF Spec

=============================================================================
