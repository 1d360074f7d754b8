------------------------------- MODULE Table --------------------------------
(***************************************************************************)
(* A table between two games (texas/core/table.go): users sit down, are     *)
(* asked to say that they are ready, and two seconds later whoever is not   *)
(* loses the seat and the others start a game.                              *)
(*                                                                         *)
(* The goroutine of Table.loop handles one message or one tick of the timer *)
(* at a time, so that each is a step.  A room has several tables; those of  *)
(* their variables that differ are functions of the table.                  *)
(***************************************************************************)
EXTENDS Integers, FiniteSets

CONSTANTS Tables,
          Users,
          Able,            \* the users with TableLevel.MinHave chips or more
          SeatCount,
          None

ASSUME TableAssumption ==
  /\ Able \subseteq Users /\ None \notin Users
  /\ SeatCount \in Nat \ {0}

VARIABLES seats,           \* Table.seats
          prepared,        \* Table.preparedUsers: nil (None) or who is ready
          timer,           \* prepareStartTimer: idle or set
          tick,            \* its channel: none, due, or stale: sent before the last Reset
          crashed          \* a panic in the goroutine of a table: the process is gone

table == <<seats, prepared, timer, tick>>
tvars == <<table, crashed>>

Seats == 0..(SeatCount - 1)

TableInit ==
  /\ seats = [t \in Tables |-> [i \in Seats |-> None]]
  /\ prepared = [t \in Tables |-> None]
  /\ timer = [t \in Tables |-> "idle"] /\ tick = [t \in Tables |-> "none"]
  /\ crashed = FALSE

Taken(s) == {i \in Seats : s[i] # None}

Full(t) == Taken(seats[t]) = Seats

-----------------------------------------------------------------------------
(* doEnter                                                                  *)

\* Everyone is asked again, and has two seconds.  Reset leaves in the channel a
\* tick that is already there.
Prepare(t) ==
  /\ prepared' = [prepared EXCEPT ![t] = {}]
  /\ timer' = [timer EXCEPT ![t] = "set"]
  /\ tick' = [tick EXCEPT ![t] = IF @ = "none" THEN "none" ELSE "stale"]

PrepareIfTwo(t, s) ==
  IF Cardinality(Taken(s)) > 1 THEN Prepare(t) ELSE UNCHANGED <<prepared, timer, tick>>

\* A copy of the user takes the first free seat, whether one of his is seated or not.
Sit(t, u) ==
  /\ ~Full(t)
  /\ LET i == CHOOSE i \in Seats \ Taken(seats[t]) :
                \A j \in Seats \ Taken(seats[t]) : i <= j
         s == [seats[t] EXCEPT ![i] = u]
     IN  seats' = [seats EXCEPT ![t] = s] /\ PrepareIfTwo(t, s)
  /\ UNCHANGED crashed

\* A full table refuses him, and prepares all the same.
NoMoreSeat(t) ==
  /\ Full(t)
  /\ PrepareIfTwo(t, seats[t])
  /\ UNCHANGED <<seats, crashed>>

-----------------------------------------------------------------------------
\* (an error to look for: who is ready before a prepare is kept for it)
DoReadyUnasked(t, u) ==
  /\ prepared' = [prepared EXCEPT ![t] = IF @ = None THEN {u} ELSE @ \cup {u}]
  /\ UNCHANGED <<seats, timer, tick, crashed>>

\* doReady; it is refused when no prepare is on.
DoReady(t, u) ==
  /\ prepared' = IF prepared[t] = None THEN prepared ELSE [prepared EXCEPT ![t] = @ \cup {u}]
  /\ UNCHANGED <<seats, timer, tick, crashed>>

\* doGetScene calls GetScene of curGame, which is nil until a game starts.
DoGetScene == crashed' = TRUE /\ UNCHANGED table

\* doLeave and doActionChan: "game not started".
DoLeaveOrAct == UNCHANGED tvars

-----------------------------------------------------------------------------
(* The timer and startGameCheck                                             *)

\* Two seconds after the last Reset; a tick that is still there takes its place.
Fire(t) ==
  /\ timer[t] = "set"
  /\ timer' = [timer EXCEPT ![t] = "idle"] /\ tick' = [tick EXCEPT ![t] = "due"]
  /\ UNCHANGED <<seats, prepared, crashed>>

Ready(t, u) == prepared[t] # None /\ u \in prepared[t]

\* Seats of users without the chips or not ready become free.
KeepReady(t) ==
  [i \in Seats |-> IF seats[t][i] \in Able /\ Ready(t, seats[t][i]) THEN seats[t][i] ELSE None]

\* Who is counted: a user who has just lost the seat for want of chips is, too.
ReadySeats(t) == {i \in Taken(seats[t]) : Ready(t, seats[t][i])}

\* nextUser: the next seat with a user after seat cur, or -1.
NextUser(s, cur) ==
  LET others  == Taken(s) \ {cur}
      dist(i) == (i - cur) % SeatCount
  IN  IF others = {} THEN -1 ELSE CHOOSE i \in others : \A j \in others : dist(i) <= dist(j)

\* getPlayersFromSeats: the dealer is the next user after seat 0 (curD stays 0
\* until a game starts), then nextUser of the dealer is called again and again,
\* until it is the dealer, or it panics; so it does without a dealer.
PlayersFound(s) == LET d == NextUser(s, 0) IN d # -1 /\ NextUser(s, d) = d

\* (an error to look for: the prepare is over only when a game starts)
StartGameCheckOnly(t) ==
  /\ tick[t] # "none"
  /\ tick' = [tick EXCEPT ![t] = "none"]
  /\ seats' = [seats EXCEPT ![t] = KeepReady(t)]
  /\ IF Cardinality(ReadySeats(t)) > 1
     THEN prepared' = [prepared EXCEPT ![t] = None] /\ crashed' = ~PlayersFound(KeepReady(t))
     ELSE UNCHANGED <<prepared, crashed>>
  /\ UNCHANGED timer

StartGameCheck(t) ==
  /\ tick[t] # "none"
  /\ tick' = [tick EXCEPT ![t] = "none"]
  /\ seats' = [seats EXCEPT ![t] = KeepReady(t)]
  /\ prepared' = [prepared EXCEPT ![t] = None]
  /\ crashed' = (Cardinality(ReadySeats(t)) > 1 /\ ~PlayersFound(KeepReady(t)))
  /\ UNCHANGED timer

-----------------------------------------------------------------------------
\* Every variable has its type, and a prepare is one of two seats or more.
TableTypeOK ==
  /\ seats \in [Tables -> [Seats -> Users \cup {None}]]
  /\ prepared \in [Tables -> (SUBSET Users) \cup {None}]
  /\ \A t \in Tables : prepared[t] # None => Cardinality(Taken(seats[t])) > 1
  /\ timer \in [Tables -> {"idle", "set"}]
  /\ tick \in [Tables -> {"none", "due", "stale"}]
  /\ crashed \in BOOLEAN

\* A prepare always has its check to come: the timer is set or its tick waits,
\* whatever resets and old ticks came in between.
PrepareTimed == \A t \in Tables :
  prepared[t] # None => timer[t] = "set" \/ tick[t] # "none"

-----------------------------------------------------------------------------
\* What the comments of the code say, and the code does not do.

\* "If he does not send it he is taken to have lost his connection" (comment of
\* abstracts.Table.Ready): who loses the seat was asked to be ready, and the two
\* seconds he had for it are over.
AskedInTime ==
  [][\A t \in Tables : (\E i \in Seats : seats[t][i] # None /\ seats'[t][i] = None) =>
       prepared[t] # None /\ tick[t] = "due"]_tvars

\* "Check that the user has the chips, and if not kick him from the table"
\* (comment of startGameCheck): the users a game starts with have them.
StartsWithTwo ==
  [][\A t \in Tables : tick[t] # "none" /\ tick'[t] = "none" /\ Cardinality(ReadySeats(t)) > 1
       => Cardinality(Taken(seats'[t])) > 1]_tvars

\* "Map the seats to the game, initialise it, and start it" (comment of
\* startGame): two users with chips who are ready start a game.
GameStarts ==
  [][\A t \in Tables : tick[t] # "none" /\ tick'[t] = "none"
       /\ Cardinality(Taken(seats'[t])) > 1 => ~crashed']_tvars
=============================================================================
