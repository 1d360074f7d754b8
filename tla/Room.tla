-------------------------------- MODULE Room --------------------------------
(***************************************************************************)
(* The room (texas/room_server.go): the goroutines of the connections       *)
(* handle the messages of their users, with the tables and with the map of  *)
(* which user is at which table.  A user may have two connections: the one  *)
(* before goes on being read after it was replaced.                         *)
(*                                                                         *)
(* A call to a table is a step of the table's goroutine; the handler waits  *)
(* for its answer.  The map is a sync.Map: each of its operations is a step.*)
(***************************************************************************)
EXTENDS Table

CONSTANTS Conns,
          UserOfConn,
          MaxMsgs          \* bound: the messages of a connection

ASSUME RoomAssumption ==
  /\ UserOfConn \in [Conns -> Users]
  /\ IsFiniteSet(Tables) /\ Tables # {} /\ Tables = 1..Cardinality(Tables)
  /\ MaxMsgs \in Nat

VARIABLES users,           \* RoomServer.users: the table of each user, or 0
          pc,              \* where the handler of each connection is
          at,              \* the table it calls
          sent             \* the messages of the connection so far

roomVars == <<tvars, users, pc, at, sent>>

RoomInit ==
  /\ TableInit
  /\ users = [u \in Users |-> 0]
  /\ pc = [c \in Conns |-> "idle"] /\ at = [c \in Conns |-> 0]
  /\ sent = [c \in Conns |-> 0]

Goto(c, from, to) == pc[c] = from /\ pc' = [pc EXCEPT ![c] = to]

\* Handle: a message comes, and the table of its user is looked up.
Receive(c, to) ==
  /\ sent[c] < MaxMsgs
  /\ Goto(c, "idle", to)
  /\ sent' = [sent EXCEPT ![c] = @ + 1]
  /\ UNCHANGED <<tvars, users>>

-----------------------------------------------------------------------------
(* quickStart                                                               *)

\* A user who is at a table is sent its scene; another tries the tables in turn.
QuickStart(c) ==
  LET t == users[UserOfConn[c]]
  IN  /\ Receive(c, IF t # 0 THEN "scene" ELSE "enter")
      /\ at' = [at EXCEPT ![c] = IF t # 0 THEN t ELSE 1]

EnterSeated(c) ==
  /\ Goto(c, "enter", "store")
  /\ Sit(at[c], UserOfConn[c])
  /\ UNCHANGED <<users, at, sent>>

\* (an error to look for: it tries one table too many)
EnterNextPastTheEnd(c) ==
  /\ pc[c] = "enter" /\ NoMoreSeat(at[c])
  /\ IF at[c] \in Tables
     THEN Goto(c, "enter", "enter") /\ at' = [at EXCEPT ![c] = @ + 1]
     ELSE Goto(c, "enter", "idle") /\ UNCHANGED at
  /\ UNCHANGED <<users, sent>>

EnterNext(c) ==
  /\ pc[c] = "enter" /\ NoMoreSeat(at[c])
  /\ IF at[c] + 1 \in Tables
     THEN Goto(c, "enter", "enter") /\ at' = [at EXCEPT ![c] = @ + 1]
     ELSE Goto(c, "enter", "idle") /\ UNCHANGED at
  /\ UNCHANGED <<users, sent>>

\* (an error to look for: only the first table a user is at is kept)
StoreIfFirstTable(c) ==
  /\ Goto(c, "store", "scene")
  /\ users' = [users EXCEPT ![UserOfConn[c]] = IF at[c] = 1 THEN at[c] ELSE @]
  /\ UNCHANGED <<tvars, at, sent>>

Store(c) ==
  /\ Goto(c, "store", "scene")
  /\ users' = [users EXCEPT ![UserOfConn[c]] = at[c]]
  /\ UNCHANGED <<tvars, at, sent>>

Scene(c) ==
  /\ Goto(c, "scene", "idle")
  /\ DoGetScene
  /\ UNCHANGED <<users, at, sent>>

-----------------------------------------------------------------------------
(* ready, leave and gameMsg: for a user who is at no table an error         *)

AtTable(c, to) ==
  LET t == users[UserOfConn[c]]
  IN  /\ Receive(c, IF t # 0 THEN to ELSE "idle")
      /\ at' = [at EXCEPT ![c] = t]

ReadyMsg(c) == AtTable(c, "ready")
LeaveMsg(c) == AtTable(c, "leave")
GameMsg(c)  == AtTable(c, "do")

TableReady(c) ==
  /\ Goto(c, "ready", "idle")
  /\ DoReady(at[c], UserOfConn[c])
  /\ UNCHANGED <<users, at, sent>>

\* The table refuses both, and the map keeps the user.
TableRefuses(c) ==
  /\ \E from \in {"leave", "do"} : Goto(c, from, "idle")
  /\ DoLeaveOrAct
  /\ UNCHANGED <<users, at, sent>>

-----------------------------------------------------------------------------
Handler(c) == \/ EnterSeated(c) \/ EnterNext(c) \/ Store(c) \/ Scene(c)
              \/ TableReady(c) \/ TableRefuses(c)

Client(c) == QuickStart(c) \/ ReadyMsg(c) \/ LeaveMsg(c) \/ GameMsg(c)

TableTimer == /\ \E t \in Tables : Fire(t) \/ StartGameCheck(t)
              /\ UNCHANGED <<users, pc, at, sent>>

RoomNext == ~crashed /\ ((\E c \in Conns : Handler(c) \/ Client(c)) \/ TableTimer)

RoomSpec == RoomInit /\ [][RoomNext]_roomVars

-----------------------------------------------------------------------------
\* Every variable has its type.
RoomTypeOK ==
  /\ TableTypeOK
  /\ users \in [Users -> Tables \cup {0}]
  /\ pc \in [Conns -> {"idle", "enter", "store", "scene", "ready", "leave", "do"}]
  /\ at \in [Conns -> Tables \cup {0}]
  /\ sent \in [Conns -> 0..MaxMsgs]
  /\ \A c \in Conns : pc[c] # "idle" => at[c] \in Tables

SeatedAt(u, t) == \E i \in Seats : seats[t][i] = u

\* Nobody sits at a table without the room knowing, or being about to: a user at
\* a table is in the map or a handler of his has still to store him.
SeatsKnown ==
  \A u \in Users : (\E t \in Tables : SeatedAt(u, t)) =>
    users[u] # 0 \/ \E c \in Conns : UserOfConn[c] = u /\ pc[c] = "store"

-----------------------------------------------------------------------------
\* What the comments of the code say, and the code does not do.

\* "If he is at a table already he is just sent its scene" (comment of
\* quickStart): nobody has two seats.
SeatedOnce ==
  \A t, s \in Tables, i, j \in Seats :
    seats[t][i] # None /\ seats[t][i] = seats[s][j] => t = s /\ i = j

\* "He is sent the scene of the table" (comment of quickStart): asking for it
\* does not end the process.
SceneSent == [][\A c \in Conns : pc[c] = "scene" /\ pc'[c] = "idle" => ~crashed']_roomVars
=============================================================================
