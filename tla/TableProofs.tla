----------------------------- MODULE TableProofs -----------------------------
(***************************************************************************)
(* The tables of a room, for any number of tables, users, callers and       *)
(* connections: first under the goroutines of TableLoop, then under the     *)
(* handlers of Room, which takes a call for one step of a table.            *)
(*                                                                         *)
(* What makes a call one step is the last part of TableLoop's TypeOK: a     *)
(* caller whose message lies in a channel waits for just that message, so   *)
(* that no two channels hold the same caller.                               *)
(*                                                                         *)
(* SeatsKnown needs little to be inductive: a handler that is about to      *)
(* store its user has a real table to store, and no handler ever stores 0.  *)
(* RoomTypeOK is inductive as it stands.                                    *)
(***************************************************************************)
EXTENDS TableLoop, Room, FiniteSetTheorems, WellFoundedInduction, TLAPS

Asked == [table : Tables, method : Methods, sent : BOOLEAN]

\* The channels and the calls that wait for what is in them.
ChannelsOK ==
  /\ call \in [Callers -> {None} \cup Asked]
  /\ queue \in [Tables -> [Methods -> {<<>>} \cup {<<c>> : c \in Callers}]]
  /\ \A t \in Tables, m \in Methods, c \in Callers :
       queue[t][m] = <<c>> => call[c] = [table |-> t, method |-> m, sent |-> TRUE]

LoopsOK ==
  /\ loop \in [Tables -> {"off", "new", "watch", "deaf", "ended"}]
  /\ stopChan \in [Tables -> {"nil", "set"}] /\ closed \in [Tables -> BOOLEAN]
  /\ main[1] \in {"start", "serve", "up", "close", "forget", "sleep", "gone"}
  /\ main[2] \in Tables

LEMMA TypeParts == TypeOK <=> TableTypeOK /\ ChannelsOK /\ LoopsOK
BY DEF TypeOK, ChannelsOK, LoopsOK, Asked

-----------------------------------------------------------------------------
(* The channels                                                             *)

LEMMA CallKeepsChannels ==
  ASSUME ChannelsOK, NEW c \in Callers, NEW t \in Tables, NEW m \in Methods, Call(c, t, m)
  PROVE  ChannelsOK'
<1> DEFINE new == [table |-> t, method |-> m, sent |-> FALSE]
<1>1. new \in Asked
  BY DEF Asked
<1>2. call' = [call EXCEPT ![c] = new] /\ queue' = queue /\ call[c] = None
  BY DEF Call
<1>3. None \notin Asked
  BY LoopAssumption DEF Asked
<1>4. \A s \in Tables, n \in Methods : [table |-> s, method |-> n, sent |-> TRUE] \in Asked
  BY DEF Asked
<1> HIDE DEF new
<1> QED
  BY <1>1, <1>2, <1>3, <1>4 DEF ChannelsOK

LEMMA SendKeepsChannels ==
  ASSUME ChannelsOK, NEW c \in Callers, Send(c)
  PROVE  ChannelsOK'
<1> DEFINE t == call[c].table
           m == call[c].method
<1>1. call[c] \in Asked /\ call[c].sent = FALSE
  BY DEF Send, ChannelsOK, Asked
<1>2. t \in Tables /\ m \in Methods
  BY <1>1 DEF Asked
<1>3. call' = [call EXCEPT ![c] = [table |-> t, method |-> m, sent |-> TRUE]]
  BY DEF Send
<1>4. queue' = [queue EXCEPT ![t] = [queue[t] EXCEPT ![m] = <<c>>]]
  BY DEF Send
<1>5. [table |-> t, method |-> m, sent |-> TRUE] \in Asked
  BY <1>2 DEF Asked
<1>6. \A s \in Tables, n \in Methods : queue[s][n] # <<c>>
  BY <1>1 DEF ChannelsOK
<1>7. \A x, y : <<x>> = <<y>> => x = y
  OBVIOUS
<1> HIDE DEF t, m
<1>8. call' \in [Callers -> {None} \cup Asked]
  BY <1>3, <1>5 DEF ChannelsOK
<1>9. queue' \in [Tables -> [Methods -> {<<>>} \cup {<<d>> : d \in Callers}]]
  BY <1>4, <1>2 DEF ChannelsOK
<1>10. ASSUME NEW s \in Tables, NEW n \in Methods, NEW d \in Callers, queue'[s][n] = <<d>>
       PROVE  call'[d] = [table |-> s, method |-> n, sent |-> TRUE]
  <2>1. CASE s = t /\ n = m
    <3>1. queue'[s][n] = <<c>>
      BY <1>4, <1>2, <2>1 DEF ChannelsOK
    <3>2. d = c
      BY <3>1, <1>10, <1>7
    <3> QED
      BY <3>2, <2>1, <1>3 DEF ChannelsOK
  <2>2. CASE ~(s = t /\ n = m)
    <3>1. queue'[s][n] = queue[s][n]
      BY <1>4, <1>2, <2>2 DEF ChannelsOK
    <3>2. d # c
      BY <3>1, <1>10, <1>6
    <3> QED
      BY <3>1, <3>2, <1>3, <1>10 DEF ChannelsOK
  <2> QED
    BY <2>1, <2>2
<1> QED
  BY <1>8, <1>9, <1>10 DEF ChannelsOK

\* Who is answered waited for this message, and for no other.
LEMMA TakeAnswers ==
  ASSUME ChannelsOK, NEW t \in Tables, NEW m \in Methods, Take(t, m)
  PROVE  \E c \in Callers :
           /\ queue[t][m] = <<c>> /\ call[c] = [table |-> t, method |-> m, sent |-> TRUE]
           /\ Handled(t, m, UserOf[c])
           /\ call' = [call EXCEPT ![c] = None]
           /\ queue' = [queue EXCEPT ![t] = [queue[t] EXCEPT ![m] = <<>>]]
<1>1. PICK c \in Callers : queue[t][m] = <<c>>
  BY DEF Take, ChannelsOK
<1>2. Head(queue[t][m]) = c
  BY <1>1
<1>3. /\ Handled(t, m, UserOf[Head(queue[t][m])])
      /\ call' = [call EXCEPT ![Head(queue[t][m])] = None]
      /\ queue' = [queue EXCEPT ![t] = [queue[t] EXCEPT ![m] = <<>>]]
  BY DEF Take
<1>4. call[c] = [table |-> t, method |-> m, sent |-> TRUE]
  BY <1>1 DEF ChannelsOK
<1>5. Handled(t, m, UserOf[c]) /\ call' = [call EXCEPT ![c] = None]
  BY <1>2, <1>3
<1> QED
  BY <1>1, <1>3, <1>4, <1>5

LEMMA TakeKeepsChannels ==
  ASSUME ChannelsOK, NEW t \in Tables, NEW m \in Methods, Take(t, m)
  PROVE  ChannelsOK'
<1>1. PICK c \in Callers :
         /\ queue[t][m] = <<c>> /\ call[c] = [table |-> t, method |-> m, sent |-> TRUE]
         /\ call' = [call EXCEPT ![c] = None]
         /\ queue' = [queue EXCEPT ![t] = [queue[t] EXCEPT ![m] = <<>>]]
  BY TakeAnswers
<1>2. call' \in [Callers -> {None} \cup Asked]
  BY <1>1 DEF ChannelsOK
<1>3. queue' \in [Tables -> [Methods -> {<<>>} \cup {<<d>> : d \in Callers}]]
  BY <1>1 DEF ChannelsOK
<1>4. ASSUME NEW s \in Tables, NEW n \in Methods, NEW d \in Callers, queue'[s][n] = <<d>>
      PROVE  call'[d] = [table |-> s, method |-> n, sent |-> TRUE]
  <2>1. ~(s = t /\ n = m)
    <3> SUFFICES ASSUME s = t, n = m PROVE FALSE
      OBVIOUS
    <3>1. queue'[s][n] = <<>>
      BY <1>1 DEF ChannelsOK
    <3>2. \A x : <<x>> # <<>>
      OBVIOUS
    <3> QED
      BY <3>1, <3>2, <1>4
  <2>2. queue'[s][n] = queue[s][n]
    BY <1>1, <2>1 DEF ChannelsOK
  <2>3. call[d] = [table |-> s, method |-> n, sent |-> TRUE]
    BY <2>2, <1>4 DEF ChannelsOK
  <2>4. d # c
    BY <2>3, <2>1, <1>1
  <2> QED
    BY <2>3, <2>4, <1>1 DEF ChannelsOK
<1> QED
  BY <1>2, <1>3, <1>4 DEF ChannelsOK

-----------------------------------------------------------------------------
(* The tables                                                               *)

\* A table that another user sits at has at least as many seats taken.
LEMMA SitTakesSeat ==
  ASSUME TableTypeOK, NEW t \in Tables, NEW u \in Users, Sit(t, u)
  PROVE  /\ seats' \in [Tables -> [Seats -> Users \cup {None}]]
         /\ \A s \in Tables : Taken(seats[s]) \subseteq Taken(seats'[s])
         /\ prepared' = prepared \/ (/\ Cardinality(Taken(seats'[t])) > 1
                                     /\ prepared' = [prepared EXCEPT ![t] = {}])
         /\ \/ UNCHANGED <<timer, tick>>
            \/ Prepare(t)
         /\ crashed' = crashed
<1> DEFINE i == CHOOSE i \in Seats \ Taken(seats[t]) :
                  \A j \in Seats \ Taken(seats[t]) : i <= j
           s == [seats[t] EXCEPT ![i] = u]
<1>1. seats' = [seats EXCEPT ![t] = s] /\ PrepareIfTwo(t, s) /\ crashed' = crashed
  BY DEF Sit
<1>2. s \in [Seats -> Users \cup {None}]
  BY DEF TableTypeOK
<1>3. Taken(seats[t]) \subseteq Taken(s)
  BY TableAssumption DEF Taken, TableTypeOK
<1> HIDE DEF s
<1>4. seats' \in [Tables -> [Seats -> Users \cup {None}]] /\ seats'[t] = s
  BY <1>1, <1>2 DEF TableTypeOK
<1>5. \A r \in Tables : Taken(seats[r]) \subseteq Taken(seats'[r])
  BY <1>1, <1>3 DEF TableTypeOK
<1>6. CASE Cardinality(Taken(s)) > 1
  BY <1>1, <1>4, <1>5, <1>6 DEF PrepareIfTwo, Prepare
<1>7. CASE ~(Cardinality(Taken(s)) > 1)
  BY <1>1, <1>4, <1>5, <1>7 DEF PrepareIfTwo
<1> QED
  BY <1>6, <1>7

LEMMA MessageKeepsType ==
  ASSUME TableTypeOK, NEW t \in Tables, NEW u \in Users,
         \/ Sit(t, u) \/ NoMoreSeat(t) \/ DoReady(t, u) \/ DoLeaveOrAct \/ DoGetScene
  PROVE  TableTypeOK'
<1>1. CASE Sit(t, u)
  <2>1. /\ seats' \in [Tables -> [Seats -> Users \cup {None}]]
        /\ \A s \in Tables : Taken(seats[s]) \subseteq Taken(seats'[s])
        /\ prepared' = prepared \/ (/\ Cardinality(Taken(seats'[t])) > 1
                                    /\ prepared' = [prepared EXCEPT ![t] = {}])
        /\ \/ UNCHANGED <<timer, tick>>
           \/ Prepare(t)
        /\ crashed' = crashed
    BY <1>1, SitTakesSeat
  <2>2. timer' \in [Tables -> {"idle", "set"}] /\ tick' \in [Tables -> {"none", "due", "stale"}]
    BY <2>1 DEF Prepare, TableTypeOK
  <2>3. ASSUME NEW s \in Tables, prepared'[s] # None
        PROVE  Cardinality(Taken(seats'[s])) > 1
    <3>1. CASE prepared'[s] = prepared[s]
      <4>1. Cardinality(Taken(seats[s])) > 1
        BY <2>3, <3>1 DEF TableTypeOK
      <4>2. IsFiniteSet(Taken(seats'[s]))
        <5>1. IsFiniteSet(Seats)
          BY FS_Interval, TableAssumption DEF Seats
        <5> QED
          BY <5>1, FS_Subset DEF Taken
      <4>3. Cardinality(Taken(seats[s])) <= Cardinality(Taken(seats'[s]))
        BY <4>2, <2>1, FS_Subset
      <4>4. Cardinality(Taken(seats[s])) \in Nat /\ Cardinality(Taken(seats'[s])) \in Nat
        BY <4>2, <2>1, FS_Subset, FS_CardinalityType
      <4> QED
        BY <4>1, <4>3, <4>4
    <3>2. CASE prepared'[s] # prepared[s]
      <4>1. s = t /\ Cardinality(Taken(seats'[t])) > 1
        BY <2>1, <3>2 DEF TableTypeOK
      <4> QED
        BY <4>1
    <3> QED
      BY <3>1, <3>2
  <2>4. prepared' \in [Tables -> (SUBSET Users) \cup {None}]
    BY <2>1 DEF TableTypeOK
  <2>5. crashed' \in BOOLEAN
    BY <2>1 DEF TableTypeOK
  <2> QED
    BY <2>1, <2>2, <2>3, <2>4, <2>5 DEF TableTypeOK
<1>2. CASE NoMoreSeat(t)
  <2>1. seats' = seats /\ crashed' = crashed /\ PrepareIfTwo(t, seats[t])
    BY <1>2 DEF NoMoreSeat
  <2>2. CASE Cardinality(Taken(seats[t])) > 1
    BY <2>1, <2>2 DEF PrepareIfTwo, Prepare, TableTypeOK
  <2>3. CASE ~(Cardinality(Taken(seats[t])) > 1)
    BY <2>1, <2>3 DEF PrepareIfTwo, TableTypeOK
  <2> QED
    BY <2>2, <2>3
<1>3. CASE DoReady(t, u)
  BY <1>3 DEF DoReady, TableTypeOK
<1>4. CASE DoLeaveOrAct
  BY <1>4 DEF DoLeaveOrAct, tvars, table, TableTypeOK
<1>5. CASE DoGetScene
  BY <1>5 DEF DoGetScene, table, TableTypeOK
<1> QED
  BY <1>1, <1>2, <1>3, <1>4, <1>5

LEMMA CheckKeepsType ==
  ASSUME TableTypeOK, NEW t \in Tables, Fire(t) \/ StartGameCheck(t)
  PROVE  TableTypeOK'
<1>1. CASE Fire(t)
  BY <1>1 DEF Fire, TableTypeOK
<1>2. CASE StartGameCheck(t)
  <2>1. KeepReady(t) \in [Seats -> Users \cup {None}]
    BY DEF KeepReady, TableTypeOK
  <2>2. /\ tick' = [tick EXCEPT ![t] = "none"] /\ timer' = timer
        /\ seats' = [seats EXCEPT ![t] = KeepReady(t)]
        /\ prepared' = [prepared EXCEPT ![t] = None]
        /\ crashed' \in BOOLEAN
    BY <1>2 DEF StartGameCheck
  <2>3. /\ seats' \in [Tables -> [Seats -> Users \cup {None}]]
        /\ tick' \in [Tables -> {"none", "due", "stale"}]
    BY <2>1, <2>2 DEF TableTypeOK
  <2>4. /\ prepared' \in [Tables -> (SUBSET Users) \cup {None}]
        /\ \A s \in Tables : prepared'[s] # None => Cardinality(Taken(seats'[s])) > 1
    BY <2>2 DEF TableTypeOK
  <2> QED
    BY <2>2, <2>3, <2>4 DEF TableTypeOK
<1> QED
  BY <1>1, <1>2

-----------------------------------------------------------------------------
(* The loops and the main goroutine                                         *)

LEMMA TablesStartAtOne == 1 \in Tables /\ \A t \in Tables : t \in Nat
<1>1. Tables = 1..Cardinality(Tables) /\ Tables # {} /\ Cardinality(Tables) \in Nat
  BY LoopAssumption, FS_CardinalityType
<1> QED
  BY <1>1

LEMMA LookKeepsLoops ==
  ASSUME LoopsOK, NEW t \in Tables, Look(t), UNCHANGED <<stopChan, closed, main>>
  PROVE  LoopsOK'
BY DEF Look, LoopsOK

LEMMA MainKeepsLoops ==
  ASSUME LoopsOK, Main \/ Signal
  PROVE  LoopsOK'
<1> USE TablesStartAtOne
<1>1. CASE StartTable
  <2>1. \/ main' = <<"start", main[2] + 1>> /\ main[2] + 1 \in Tables
        \/ main' = <<"serve", 1>>
    BY <1>1 DEF StartTable, Then
  <2>2. main'[1] \in {"start", "serve"} /\ main'[2] \in Tables
    BY <2>1
  <2> QED
    BY <1>1, <2>2 DEF StartTable, LoopsOK
<1>2. CASE StartServer
  BY <1>2 DEF StartServer, lvars, LoopsOK
<1>3. CASE Signal
  BY <1>3 DEF Signal, lvars, LoopsOK
<1>4. CASE CloseStop
  BY <1>4 DEF CloseStop, LoopsOK
<1>5. CASE ForgetStop
  <2>1. \/ main' = <<"close", main[2] + 1>> /\ main[2] + 1 \in Tables
        \/ main' = <<"sleep", 1>>
    BY <1>5 DEF ForgetStop, Then
  <2>2. main'[1] \in {"close", "sleep"} /\ main'[2] \in Tables
    BY <2>1
  <2> QED
    BY <1>5, <2>2 DEF ForgetStop, LoopsOK
<1>6. CASE Exit
  BY <1>6 DEF Exit, lvars, LoopsOK
<1> QED
  BY <1>1, <1>2, <1>3, <1>4, <1>5, <1>6 DEF Main

\* What a message changes at its table.
LEMMA HandledIsTableStep ==
  ASSUME NEW t \in Tables, NEW m, NEW u, Handled(t, m, u)
  PROVE  Sit(t, u) \/ NoMoreSeat(t) \/ DoReady(t, u) \/ DoLeaveOrAct \/ DoGetScene
BY DEF Handled

\* Every variable has its type, and who waits for an answer waits for one message
\* (the loops, channels and stops of table.go, room_server.go and main.go).
THEOREM LoopTypes == Spec => []TypeOK
<1>1. Init => TypeOK
  <2> SUFFICES ASSUME Init PROVE TypeOK
    OBVIOUS
  <2>1. TableTypeOK
    BY DEF Init, TableInit, TableTypeOK
  <2>2. ChannelsOK
    <3>1. \A x : <<x>> # <<>>
      OBVIOUS
    <3> QED
      BY <3>1 DEF Init, ChannelsOK
  <2>3. LoopsOK
    BY TablesStartAtOne DEF Init, LoopsOK
  <2> QED
    BY <2>1, <2>2, <2>3, TypeParts
<1>2. TypeOK /\ [Next]_vars => TypeOK'
  <2> SUFFICES ASSUME TypeOK, [Next]_vars PROVE TypeOK'
    OBVIOUS
  <2>0. TableTypeOK /\ ChannelsOK /\ LoopsOK
    BY TypeParts
  <2> SUFFICES TableTypeOK' /\ ChannelsOK' /\ LoopsOK'
    BY DEF TypeOK, ChannelsOK, LoopsOK, Asked
  <2>1. CASE Main \/ Signal
    <3>1. LoopsOK'
      BY <2>0, <2>1, MainKeepsLoops
    <3>2. UNCHANGED <<tvars, queue, call>>
      BY <2>1 DEF Main, Signal, StartTable, StartServer, CloseStop, ForgetStop, Exit
    <3> QED
      BY <2>0, <3>1, <3>2 DEF tvars, table, TableTypeOK, ChannelsOK, Taken
  <2>2. ASSUME NEW c \in Callers, Send(c) PROVE TableTypeOK' /\ ChannelsOK' /\ LoopsOK'
    <3>1. ChannelsOK'
      BY <2>0, <2>2, SendKeepsChannels
    <3>2. UNCHANGED <<tvars, lvars, main>>
      BY <2>2 DEF Send
    <3> QED
      BY <2>0, <3>1, <3>2 DEF tvars, table, lvars, TableTypeOK, LoopsOK, Taken
  <2>3. ASSUME NEW c \in Callers, NEW t \in Tables, NEW m \in Methods, Call(c, t, m)
        PROVE  TableTypeOK' /\ ChannelsOK' /\ LoopsOK'
    <3>1. ChannelsOK'
      BY <2>0, <2>3, CallKeepsChannels
    <3>2. UNCHANGED <<tvars, lvars, main>>
      BY <2>3 DEF Call
    <3> QED
      BY <2>0, <3>1, <3>2 DEF tvars, table, lvars, TableTypeOK, LoopsOK, Taken
  <2>4. ASSUME NEW t \in Tables, NEW m \in Methods, Take(t, m)
        PROVE  TableTypeOK' /\ ChannelsOK' /\ LoopsOK'
    <3>1. ChannelsOK'
      BY <2>0, <2>4, TakeKeepsChannels
    <3>2. Look(t) /\ UNCHANGED <<stopChan, closed, main>>
      BY <2>4 DEF Take
    <3>3. LoopsOK'
      BY <2>0, <3>2, LookKeepsLoops
    <3>4. PICK c \in Callers : Handled(t, m, UserOf[c])
      BY <2>0, <2>4, TakeAnswers
    <3>5. UserOf[c] \in Users
      BY LoopAssumption
    <3>6. TableTypeOK'
      BY <2>0, <3>4, <3>5, HandledIsTableStep, MessageKeepsType
    <3> QED
      BY <3>1, <3>3, <3>6
  <2>5. ASSUME NEW t \in Tables, FirstLook(t) \/ TakeTick(t) \/ TakeStop(t) \/ Timer(t)
        PROVE  TableTypeOK' /\ ChannelsOK' /\ LoopsOK'
    <3>1. UNCHANGED <<queue, call>>
      BY <2>5 DEF FirstLook, TakeTick, TakeStop, Timer
    <3>2. ChannelsOK'
      BY <2>0, <3>1 DEF ChannelsOK
    <3>3. CASE FirstLook(t)
      <4>1. Look(t) /\ UNCHANGED <<tvars, stopChan, closed, main>>
        BY <3>3 DEF FirstLook
      <4> QED
        BY <2>0, <3>2, <4>1, LookKeepsLoops DEF tvars, table, TableTypeOK, Taken
    <3>4. CASE TakeTick(t)
      <4>1. Look(t) /\ StartGameCheck(t) /\ UNCHANGED <<stopChan, closed, main>>
        BY <3>4 DEF TakeTick
      <4>2. TableTypeOK'
        BY <2>0, <4>1, CheckKeepsType
      <4> QED
        BY <2>0, <3>2, <4>1, <4>2, LookKeepsLoops
    <3>5. CASE TakeStop(t)
      BY <2>0, <3>2, <3>5 DEF TakeStop, tvars, table, TableTypeOK, Taken, LoopsOK
    <3>6. CASE Timer(t)
      <4>1. Fire(t) /\ UNCHANGED <<lvars, main>>
        BY <3>6 DEF Timer
      <4>2. TableTypeOK'
        BY <2>0, <4>1, CheckKeepsType
      <4> QED
        BY <2>0, <3>2, <4>1, <4>2 DEF lvars, LoopsOK
    <3> QED
      BY <2>5, <3>3, <3>4, <3>5, <3>6
  <2>6. CASE UNCHANGED vars
    BY <2>0, <2>6 DEF vars, lvars, tvars, table, TableTypeOK, ChannelsOK, LoopsOK, Taken
  <2> QED
    BY <2>1, <2>2, <2>3, <2>4, <2>5, <2>6 DEF Next
<1> QED
  BY <1>1, <1>2, PTL DEF Spec

-----------------------------------------------------------------------------
(* A call is one step                                                       *)

Asking == [c \in Callers |->
             IF call[c] = None THEN None ELSE <<call[c].table, call[c].method>>]

LEMMA SameCardinality == \A S : Cardinality(S) = Calls!Cardinality(S)
BY DEF Cardinality, Calls!Cardinality

\* What the loop does with a message is what TableCalls says a call does.
LEMMA SameHandling ==
  ASSUME NEW t, NEW m, NEW u
  PROVE  Handled(t, m, u) <=> Calls!Handled(t, m, u)
<1>1. Seats = Calls!Seats
  BY DEF Seats, Calls!Seats
<1>2. \A s : Taken(s) = Calls!Taken(s)
  BY <1>1 DEF Taken, Calls!Taken
<1>3. Full(t) <=> Calls!Full(t)
  BY <1>1, <1>2 DEF Full, Calls!Full
<1>4. Prepare(t) <=> Calls!Prepare(t)
  BY DEF Prepare, Calls!Prepare
<1>5. \A s : PrepareIfTwo(t, s) <=> Calls!PrepareIfTwo(t, s)
  BY <1>2, SameCardinality DEF PrepareIfTwo, Calls!PrepareIfTwo, Prepare, Calls!Prepare
<1>6. Sit(t, u) <=> Calls!Sit(t, u)
  <2> DEFINE free == Seats \ Taken(seats[t])
             first == CHOOSE i \in free : \A j \in free : i <= j
             s == [seats[t] EXCEPT ![first] = u]
             theirs == Calls!Seats \ Calls!Taken(seats[t])
             other == CHOOSE i \in theirs : \A j \in theirs : i <= j
             r == [seats[t] EXCEPT ![other] = u]
  <2>1. free = theirs
    BY <1>1, <1>2
  <2>2. r = s
    <3> HIDE DEF free, theirs
    <3> QED
      BY <2>1
  <2>3. Sit(t, u) <=> /\ ~Full(t) /\ seats' = [seats EXCEPT ![t] = s]
                      /\ PrepareIfTwo(t, s) /\ crashed' = crashed
    BY DEF Sit
  <2>4. Calls!Sit(t, u) <=> /\ ~Calls!Full(t) /\ seats' = [seats EXCEPT ![t] = r]
                            /\ Calls!PrepareIfTwo(t, r) /\ crashed' = crashed
    BY DEF Calls!Sit
  <2> HIDE DEF s, r
  <2> QED
    BY <2>2, <2>3, <2>4, <1>3, <1>5
<1>7. NoMoreSeat(t) <=> Calls!NoMoreSeat(t)
  BY <1>3, <1>5 DEF NoMoreSeat, Calls!NoMoreSeat
<1>8. DoReady(t, u) <=> Calls!DoReady(t, u)
  BY DEF DoReady, Calls!DoReady
<1>9. (DoLeaveOrAct <=> Calls!DoLeaveOrAct) /\ (DoGetScene <=> Calls!DoGetScene)
  BY DEF DoLeaveOrAct, Calls!DoLeaveOrAct, DoGetScene, Calls!DoGetScene,
         tvars, Calls!tvars, table, Calls!table
<1> QED
  BY <1>6, <1>7, <1>8, <1>9 DEF Handled, Calls!Handled

LEMMA SameTicks ==
  ASSUME NEW t
  PROVE  /\ Fire(t) <=> Calls!Fire(t)
         /\ StartGameCheck(t) <=> Calls!StartGameCheck(t)
<1>1. Seats = Calls!Seats /\ \A s : Taken(s) = Calls!Taken(s)
  BY DEF Seats, Calls!Seats, Taken, Calls!Taken
<1>2. \A u : Ready(t, u) <=> Calls!Ready(t, u)
  BY DEF Ready, Calls!Ready
<1>3. KeepReady(t) = Calls!KeepReady(t)
  BY <1>1, <1>2 DEF KeepReady, Calls!KeepReady
<1>4. ReadySeats(t) = Calls!ReadySeats(t)
  BY <1>1, <1>2 DEF ReadySeats, Calls!ReadySeats
<1>5. \A s, cur : NextUser(s, cur) = Calls!NextUser(s, cur)
  BY DEF NextUser, Calls!NextUser, Taken, Calls!Taken, Seats, Calls!Seats
<1>6. \A s : PlayersFound(s) = Calls!PlayersFound(s)
  BY <1>5 DEF PlayersFound, Calls!PlayersFound
<1>7. Fire(t) <=> Calls!Fire(t)
  BY DEF Fire, Calls!Fire
<1>8. StartGameCheck(t) <=> Calls!StartGameCheck(t)
  BY <1>3, <1>4, <1>6, SameCardinality DEF StartGameCheck, Calls!StartGameCheck
<1> QED
  BY <1>7, <1>8

LEMMA NoneIsNoCall ==
  ASSUME NEW t \in Tables, NEW m \in Methods
  PROVE  /\ \A b \in BOOLEAN : [table |-> t, method |-> m, sent |-> b] # None
         /\ <<t, m>> # None
<1>1. \A b \in BOOLEAN : [table |-> t, method |-> m, sent |-> b] \in
                            [table : Tables, method : Methods, sent : BOOLEAN]
  OBVIOUS
<1>2. <<t, m>> \in Tables \X Methods
  OBVIOUS
<1> QED
  BY <1>1, <1>2, LoopAssumption

\* A step of the loop, of a handler or of main is a call, a return, a tick, or
\* nothing to those who only see the tables and the calls.
LEMMA StepIsCallStep ==
  ASSUME TypeOK, [Next]_vars
  PROVE  [Calls!CallsNext]_(Calls!cvars)
<1> USE DEF Calls!cvars, Calls!tvars, Calls!table
<1>0. ChannelsOK
  BY TypeParts
<1>1. CASE Main \/ Signal
  BY <1>1 DEF Main, Signal, StartTable, StartServer, CloseStop, ForgetStop, Exit, tvars, table
<1>2. ASSUME NEW c \in Callers, Send(c) PROVE UNCHANGED Calls!cvars
  <2>1. PICK t \in Tables, m \in Methods :
          /\ call[c].table = t /\ call[c].method = m
          /\ call' = [call EXCEPT ![c] = [table |-> t, method |-> m, sent |-> TRUE]]
    BY <1>0, <1>2 DEF Send, ChannelsOK, Asked
  <2>2. call[c] # None /\ call'[c] # None
    <3>1. call[c] # None
      BY <1>2 DEF Send
    <3>2. call'[c] = [table |-> t, method |-> m, sent |-> TRUE]
      BY <2>1, <1>0 DEF ChannelsOK
    <3> QED
      BY <3>1, <3>2, NoneIsNoCall
  <2>3. Asking' = Asking
    BY <2>1, <2>2, <1>0 DEF Asking, ChannelsOK
  <2>4. UNCHANGED tvars
    BY <1>2 DEF Send
  <2> QED
    BY <2>3, <2>4 DEF Asking, tvars, table
<1>3. ASSUME NEW c \in Callers, NEW t \in Tables, NEW m \in Methods, Call(c, t, m)
      PROVE  Calls!Call(c, t, m)
  <2>1. /\ call' = [call EXCEPT ![c] = [table |-> t, method |-> m, sent |-> FALSE]]
        /\ call[c] = None
    BY <1>3 DEF Call
  <2>2. call'[c] # None
    BY <2>1, <1>0, NoneIsNoCall DEF ChannelsOK
  <2>3. Asking[c] = None /\ Asking' = [Asking EXCEPT ![c] = <<t, m>>]
    BY <2>1, <2>2, <1>0 DEF Asking, ChannelsOK
  <2>4. UNCHANGED tvars
    BY <1>3 DEF Call
  <2> QED
    BY <2>3, <2>4 DEF Asking, Calls!Call, tvars, table
<1>4. ASSUME NEW t \in Tables, NEW m \in Methods, Take(t, m)
      PROVE  \E c \in Callers : Calls!Return(c)
  <2>1. PICK c \in Callers :
          /\ call[c] = [table |-> t, method |-> m, sent |-> TRUE]
          /\ Handled(t, m, UserOf[c])
          /\ call' = [call EXCEPT ![c] = None]
    BY <1>0, <1>4, TakeAnswers
  <2>2. call[c] # None /\ <<t, m>> # None
    BY <2>1, NoneIsNoCall
  <2>3. Asking[c] = <<t, m>> /\ Asking' = [Asking EXCEPT ![c] = None]
    <3>1. Asking[c] = <<t, m>>
      BY <2>1, <2>2 DEF Asking
    <3>2. \A d \in Callers : call'[d] = IF d = c THEN None ELSE call[d]
      BY <2>1, <1>0 DEF ChannelsOK
    <3>3. Asking' = [Asking EXCEPT ![c] = None]
      BY <3>2 DEF Asking
    <3> QED
      BY <3>1, <3>3
  <2>4. Calls!Handled(Asking[c][1], Asking[c][2], UserOf[c])
    BY <2>1, <2>3, SameHandling
  <2>5. Calls!Return(c)
    BY <2>2, <2>3, <2>4 DEF Asking, Calls!Return
  <2> QED
    BY <2>5
<1>5. ASSUME NEW t \in Tables, FirstLook(t) \/ TakeStop(t) PROVE UNCHANGED Calls!cvars
  BY <1>5 DEF FirstLook, TakeStop, tvars, table
<1>6. ASSUME NEW t \in Tables, TakeTick(t) \/ Timer(t) PROVE Calls!Tick
  <2>1. (Fire(t) \/ StartGameCheck(t)) /\ call' = call
    BY <1>6 DEF TakeTick, Timer
  <2> QED
    BY <2>1, SameTicks DEF Calls!Tick
<1>7. CASE UNCHANGED vars
  BY <1>7 DEF vars, tvars, table
<1> QED
  BY <1>1, <1>2, <1>3, <1>4, <1>5, <1>6, <1>7 DEF Next, Calls!CallsNext

\* The channels, the loops and the answers of the tables implement the calls of
\* TableCalls, which is what Room takes them for (table.go).
THEOREM LoopImplementsCalls == Spec => CallsAreSteps
<1>1. Init => Calls!CallsInit
  <2> SUFFICES ASSUME Init PROVE Calls!CallsInit
    OBVIOUS
  <2>1. Seats = Calls!Seats
    BY DEF Seats, Calls!Seats
  <2>2. Calls!TableInit
    BY <2>1 DEF Init, TableInit, Calls!TableInit
  <2>3. Asking = [c \in Callers |-> None]
    BY DEF Init, Asking
  <2> QED
    BY <2>2, <2>3 DEF Asking, Calls!CallsInit
<1>2. TypeOK /\ [Next]_vars => [Calls!CallsNext]_(Calls!cvars)
  BY StepIsCallStep
<1> QED
  BY <1>1, <1>2, LoopTypes, PTL DEF Spec, CallsAreSteps, Calls!CallsSpec

-----------------------------------------------------------------------------
(* The prepares                                                             *)

TimerTypes == /\ DOMAIN prepared = Tables
              /\ timer \in [Tables -> {"idle", "set"}]
              /\ tick \in [Tables -> {"none", "due", "stale"}]

TimerInv == TimerTypes /\ PrepareTimed

\* Sitting down or being refused a seat leaves the prepare as it was or starts one.
LEMMA EnterKeepsTimed ==
  ASSUME TimerInv, NEW t \in Tables, NEW u, Sit(t, u) \/ NoMoreSeat(t)
  PROVE  TimerInv'
<1>1. Prepare(t) \/ UNCHANGED <<prepared, timer, tick>>
  BY DEF Sit, NoMoreSeat, PrepareIfTwo
<1>2. CASE Prepare(t)
  <2>1. TimerTypes'
    BY <1>2 DEF Prepare, TimerInv, TimerTypes
  <2>2. PrepareTimed'
    BY <1>2 DEF Prepare, TimerInv, TimerTypes, PrepareTimed
  <2> QED
    BY <2>1, <2>2 DEF TimerInv
<1>3. CASE UNCHANGED <<prepared, timer, tick>>
  BY <1>3 DEF TimerInv, TimerTypes, PrepareTimed
<1> QED
  BY <1>1, <1>2, <1>3

\* The timer hands over to its tick, and the check that takes it ends the prepare.
LEMMA TickKeepsTimed ==
  ASSUME TimerInv, NEW t \in Tables, Fire(t) \/ StartGameCheck(t)
  PROVE  TimerInv'
<1>1. CASE Fire(t)
  BY <1>1 DEF Fire, TimerInv, TimerTypes, PrepareTimed
<1>2. CASE StartGameCheck(t)
  BY <1>2 DEF StartGameCheck, TimerInv, TimerTypes, PrepareTimed
<1> QED
  BY <1>1, <1>2

\* Saying to be ready starts no prepare.
LEMMA ReadyKeepsTimed ==
  ASSUME TimerInv, NEW t \in Tables, NEW u \in Users, DoReady(t, u)
  PROVE  TimerInv'
<1>1. UNCHANGED <<timer, tick>>
  BY DEF DoReady
<1>2. DOMAIN prepared' = Tables
  BY DEF DoReady, TimerInv, TimerTypes
<1>3. \A s \in Tables : prepared'[s] # None => prepared[s] # None
  BY DEF DoReady, TimerInv, TimerTypes
<1> QED
  BY <1>1, <1>2, <1>3 DEF TimerInv, TimerTypes, PrepareTimed

\* A prepare has its check to come, whatever the room, its signal and the callers
\* do (doEnter and startGameCheck of table.go).
THEOREM LoopPrepareTimed == Spec => []PrepareTimed
<1>1. Init => TimerInv
  BY DEF Init, TableInit, TimerInv, TimerTypes, PrepareTimed
<1>2. TypeOK /\ TimerInv /\ [Next]_vars => TimerInv'
  <2> SUFFICES ASSUME TypeOK, TimerInv, [Next]_vars PROVE TimerInv'
    OBVIOUS
  <2>0. ChannelsOK
    BY TypeParts
  <2>1. ASSUME UNCHANGED tvars PROVE TimerInv'
    BY <2>1 DEF tvars, table, TimerInv, TimerTypes, PrepareTimed
  <2>2. CASE Main \/ Signal
    BY <2>1, <2>2 DEF Main, Signal, StartTable, StartServer, CloseStop, ForgetStop, Exit
  <2>3. ASSUME NEW c \in Callers, Send(c) PROVE TimerInv'
    BY <2>1, <2>3 DEF Send
  <2>4. ASSUME NEW c \in Callers, NEW t \in Tables, NEW m \in Methods, Call(c, t, m)
        PROVE  TimerInv'
    BY <2>1, <2>4 DEF Call
  <2>5. ASSUME NEW t \in Tables, NEW m \in Methods, Take(t, m) PROVE TimerInv'
    <3>1. PICK c \in Callers : Handled(t, m, UserOf[c])
      BY <2>0, <2>5, TakeAnswers
    <3>2. UserOf[c] \in Users
      BY LoopAssumption
    <3>3. CASE Sit(t, UserOf[c]) \/ NoMoreSeat(t)
      BY <3>3, EnterKeepsTimed
    <3>4. CASE DoReady(t, UserOf[c])
      BY <3>2, <3>4, ReadyKeepsTimed
    <3>5. CASE DoLeaveOrAct
      BY <3>5, <2>1 DEF DoLeaveOrAct
    <3>6. CASE DoGetScene
      BY <3>6 DEF DoGetScene, table, TimerInv, TimerTypes, PrepareTimed
    <3> QED
      BY <3>1, <3>3, <3>4, <3>5, <3>6, HandledIsTableStep
  <2>6. ASSUME NEW t \in Tables, FirstLook(t) \/ TakeStop(t) PROVE TimerInv'
    BY <2>1, <2>6 DEF FirstLook, TakeStop
  <2>7. ASSUME NEW t \in Tables, TakeTick(t) \/ Timer(t) PROVE TimerInv'
    BY <2>7, TickKeepsTimed DEF TakeTick, Timer
  <2>8. CASE UNCHANGED vars
    BY <2>1, <2>8 DEF vars
  <2> QED
    BY <2>2, <2>3, <2>4, <2>5, <2>6, <2>7, <2>8 DEF Next
<1>3. TimerInv => PrepareTimed
  BY DEF TimerInv
<1> QED
  BY <1>1, <1>2, <1>3, LoopTypes, PTL DEF Spec

-----------------------------------------------------------------------------
(* The players of a game                                                    *)

\* The next user after a seat sits on another one, if there is another user.
LEMMA NextUserIsAnother ==
  ASSUME NEW s, NEW cur \in Int
  PROVE  NextUser(s, cur) = -1 \/ (NextUser(s, cur) \in Seats /\ NextUser(s, cur) # cur)
<1> DEFINE others  == Taken(s) \ {cur}
           dist(i) == (i - cur) % SeatCount
           far     == {dist(i) : i \in others}
<1>1. others \subseteq Seats /\ cur \notin others
  BY DEF Taken
<1>2. CASE others = {}
  BY <1>2 DEF NextUser
<1>3. CASE others # {}
  <2>1. \A i \in others : dist(i) \in Nat
    BY <1>1, TableAssumption DEF Seats
  <2>2. far \subseteq Nat /\ far # {}
    BY <1>3, <2>1
  <2>3. PICK n \in far : \A m \in far : n <= m
    <3> DEFINE R == OpToRel(<, Nat)
    <3>1. \E n \in far : \A m \in far : ~(<<m, n>> \in R)
      <4> HIDE DEF far
      <4> QED BY <2>2, NatLessThanWellFounded, WFMin
    <3>2. \A n, m \in Nat : <<m, n>> \in R <=> m < n
      BY DEF OpToRel
    <3> HIDE DEF R, far
    <3>3. PICK n \in far : \A m \in far : ~(<<m, n>> \in R)
      BY <3>1
    <3>4. ASSUME NEW m \in far PROVE n <= m
      <4>1. n \in Nat /\ m \in Nat /\ ~(m < n)
        BY <2>2, <3>2, <3>3
      <4> QED BY <4>1
    <3> QED BY <3>3, <3>4
  <2>4. \E i \in others : \A j \in others : dist(i) <= dist(j)
    BY <2>3
  <2>5. (CHOOSE i \in others : \A j \in others : dist(i) <= dist(j)) \in others
    <3> HIDE DEF others, dist
    <3> QED BY <2>4
  <2>6. NextUser(s, cur) \in others
    BY <1>3, <2>5 DEF NextUser
  <2> QED BY <1>1, <2>6
<1> QED BY <1>2, <1>3

\* So getPlayersFromSeats, which asks for the user after the dealer until it gets
\* the dealer, never gets him.
LEMMA PlayersNeverFound == ASSUME NEW s PROVE ~PlayersFound(s)
<1> DEFINE d == NextUser(s, 0)
<1>1. CASE d = -1
  BY <1>1 DEF PlayersFound
<1>2. CASE d # -1
  <2>1. d \in Int
    BY <1>2, NextUserIsAnother, TableAssumption DEF Seats
  <2>2. NextUser(s, d) # d
    <3> HIDE DEF d
    <3> QED BY <1>2, <2>1, NextUserIsAnother
  <2> QED BY <2>2 DEF PlayersFound
<1> QED BY <1>1, <1>2

\* No table of any size gets a game started: whenever two users are ready when
\* their prepare ends, the check of it ends the process (startGameCheck and
\* getPlayersFromSeats of table.go).
THEOREM TwoReadyEndIt ==
  Spec => [][\A t \in Tables :
               StartGameCheck(t) /\ Cardinality(ReadySeats(t)) > 1 => crashed']_vars
<1> DEFINE Ends == \A t \in Tables :
                     StartGameCheck(t) /\ Cardinality(ReadySeats(t)) > 1 => crashed'
<1>1. [Next]_vars => [Ends]_vars
  BY PlayersNeverFound DEF StartGameCheck
<1> HIDE DEF Ends
<1>2. Spec => [][Ends]_vars
  BY <1>1, PTL DEF Spec
<1> QED BY <1>2 DEF Ends

-----------------------------------------------------------------------------
(* The room                                                                 *)

RoomTypes ==
  /\ seats \in [Tables -> [Seats -> Users \cup {None}]]
  /\ users \in [Users -> Tables \cup {0}]
  /\ pc \in [Conns -> {"idle", "enter", "store", "scene", "ready", "leave", "do"}]
  /\ at \in [Conns -> Tables \cup {0}]
  /\ \A c \in Conns : pc[c] \in {"enter", "store"} => at[c] \in Tables

SeatsInv == RoomTypes /\ SeatsKnown

LEMMA TablesFromOne == 1 \in Tables /\ 0 \notin Tables
<1>1. Tables = 1..Cardinality(Tables) /\ Tables # {} /\ Cardinality(Tables) \in Nat
  BY RoomAssumption, FS_CardinalityType
<1> QED
  BY <1>1

-----------------------------------------------------------------------------
(* What a step of a table does to its seats                                 *)

\* Whoever has a seat afterwards had one, or has just sat down.
LEMMA SitSeats ==
  ASSUME RoomTypes, NEW t \in Tables, NEW u \in Users, Sit(t, u)
  PROVE  /\ seats' \in [Tables -> [Seats -> Users \cup {None}]]
         /\ \A v \in Users, s \in Tables : SeatedAt(v, s)' => SeatedAt(v, s) \/ v = u
<1>1. PICK i : seats' = [seats EXCEPT ![t] = [seats[t] EXCEPT ![i] = u]]
  BY DEF Sit
<1>2. seats' \in [Tables -> [Seats -> Users \cup {None}]]
  BY <1>1 DEF RoomTypes
<1>3. \A s \in Tables, j \in Seats : seats'[s][j] = seats[s][j] \/ seats'[s][j] = u
  BY <1>1 DEF RoomTypes
<1> QED
  BY <1>2, <1>3 DEF SeatedAt

\* A check, a tick or a refusal gives nobody a seat.
LEMMA OthersSeats ==
  ASSUME RoomTypes, NEW t \in Tables,
         \/ StartGameCheck(t) \/ Fire(t) \/ NoMoreSeat(t)
         \/ (\E u \in Users : DoReady(t, u)) \/ DoLeaveOrAct \/ DoGetScene
  PROVE  /\ seats' \in [Tables -> [Seats -> Users \cup {None}]]
         /\ \A v \in Users, s \in Tables : SeatedAt(v, s)' => SeatedAt(v, s)
<1>1. CASE StartGameCheck(t)
  <2>1. seats' = [seats EXCEPT ![t] = KeepReady(t)]
    BY <1>1 DEF StartGameCheck
  <2>2. KeepReady(t) \in [Seats -> Users \cup {None}]
        /\ \A i \in Seats : KeepReady(t)[i] \in {seats[t][i], None}
    BY DEF KeepReady, RoomTypes
  <2>3. seats' \in [Tables -> [Seats -> Users \cup {None}]]
        /\ \A s \in Tables, i \in Seats : seats'[s][i] \in {seats[s][i], None}
    BY <2>1, <2>2 DEF RoomTypes
  <2>4. None \notin Users
    BY TableAssumption
  <2> QED
    BY <2>3, <2>4 DEF SeatedAt
<1>2. CASE ~StartGameCheck(t)
  <2>1. seats' = seats
    BY <1>2 DEF Fire, NoMoreSeat, DoReady, DoLeaveOrAct, DoGetScene, tvars, table
  <2> QED
    BY <2>1 DEF RoomTypes, SeatedAt
<1> QED
  BY <1>1, <1>2

-----------------------------------------------------------------------------
(* The handlers                                                             *)

\* A handler that stores nobody keeps the seats known if it gives nobody one.
LEMMA NoSeatGiven ==
  ASSUME SeatsInv, NEW c \in Conns, NEW from, NEW to, Goto(c, from, to),
         from # "store", to \in {"idle", "enter", "scene", "ready", "leave", "do"},
         at' \in [Conns -> Tables \cup {0}], to = "enter" => at'[c] \in Tables,
         \A d \in Conns \ {c} : at'[d] = at[d],
         users' = users,
         seats' \in [Tables -> [Seats -> Users \cup {None}]],
         \A v \in Users, s \in Tables : SeatedAt(v, s)' => SeatedAt(v, s)
  PROVE  SeatsInv'
<1>1. pc' = [pc EXCEPT ![c] = to] /\ pc[c] = from
  BY DEF Goto
<1>2. RoomTypes'
  BY <1>1 DEF SeatsInv, RoomTypes
<1>3. \A d \in Conns : pc[d] = "store" => pc'[d] = "store"
  BY <1>1 DEF SeatsInv, RoomTypes
<1>4. SeatsKnown'
  BY <1>3 DEF SeatsInv, SeatsKnown
<1> QED
  BY <1>2, <1>4 DEF SeatsInv

LEMMA EnterSeatedKeeps ==
  ASSUME SeatsInv, NEW c \in Conns, EnterSeated(c)
  PROVE  SeatsInv'
<1>1. pc' = [pc EXCEPT ![c] = "store"] /\ pc[c] = "enter" /\ users' = users /\ at' = at
  BY DEF EnterSeated, Goto
<1>2. Sit(at[c], UserOfConn[c]) /\ at[c] \in Tables /\ UserOfConn[c] \in Users
  BY <1>1, RoomAssumption DEF EnterSeated, SeatsInv, RoomTypes
<1>3. /\ seats' \in [Tables -> [Seats -> Users \cup {None}]]
      /\ \A v \in Users, s \in Tables : SeatedAt(v, s)' => SeatedAt(v, s) \/ v = UserOfConn[c]
  BY <1>2, SitSeats DEF SeatsInv
<1>4. RoomTypes'
  BY <1>1, <1>2, <1>3 DEF SeatsInv, RoomTypes
<1>5. pc'[c] = "store" /\ \A d \in Conns : pc[d] = "store" => pc'[d] = "store"
  BY <1>1 DEF SeatsInv, RoomTypes
<1>6. SeatsKnown'
  BY <1>1, <1>3, <1>5 DEF SeatsInv, SeatsKnown
<1> QED
  BY <1>4, <1>6 DEF SeatsInv

LEMMA StoreKeeps ==
  ASSUME SeatsInv, NEW c \in Conns, Store(c)
  PROVE  SeatsInv'
<1>1. /\ pc' = [pc EXCEPT ![c] = "scene"] /\ pc[c] = "store"
      /\ users' = [users EXCEPT ![UserOfConn[c]] = at[c]] /\ seats' = seats /\ at' = at
  BY DEF Store, Goto, tvars, table
<1>2. at[c] \in Tables /\ at[c] # 0 /\ UserOfConn[c] \in Users
  BY <1>1, TablesFromOne, RoomAssumption DEF SeatsInv, RoomTypes
<1>3. RoomTypes'
  BY <1>1, <1>2 DEF SeatsInv, RoomTypes
<1>4. \A v \in Users : users'[v] = users[v] \/ users'[v] # 0
  BY <1>1, <1>2 DEF SeatsInv, RoomTypes
<1>5. users'[UserOfConn[c]] # 0
  BY <1>1, <1>2 DEF SeatsInv, RoomTypes
<1>6. \A d \in Conns : pc[d] = "store" => pc'[d] = "store" \/ UserOfConn[d] = UserOfConn[c]
  BY <1>1 DEF SeatsInv, RoomTypes
<1>7. SeatsKnown'
  BY <1>1, <1>4, <1>5, <1>6 DEF SeatsInv, SeatsKnown, SeatedAt
<1> QED
  BY <1>3, <1>7 DEF SeatsInv

LEMMA ClientKeeps ==
  ASSUME SeatsInv, NEW c \in Conns, Client(c)
  PROVE  SeatsInv'
<1> DEFINE t == users[UserOfConn[c]]
<1>1. UserOfConn[c] \in Users /\ t \in Tables \cup {0}
  BY RoomAssumption DEF SeatsInv, RoomTypes
<1>2. PICK to \in {"idle", "enter", "scene", "ready", "leave", "do"} :
        /\ Goto(c, "idle", to) /\ UNCHANGED <<tvars, users>>
        /\ \/ at' = [at EXCEPT ![c] = t] /\ to # "enter"
           \/ at' = [at EXCEPT ![c] = 1]
  BY DEF Client, QuickStart, ReadyMsg, LeaveMsg, GameMsg, AtTable, Receive
<1>3. seats' = seats
  BY <1>2 DEF tvars, table
<1>4. seats' \in [Tables -> [Seats -> Users \cup {None}]]
      /\ \A v \in Users, s \in Tables : SeatedAt(v, s)' => SeatedAt(v, s)
  BY <1>3 DEF SeatsInv, RoomTypes, SeatedAt
<1> HIDE DEF t
<1>5. /\ at' \in [Conns -> Tables \cup {0}] /\ (to = "enter" => at'[c] \in Tables)
      /\ \A d \in Conns \ {c} : at'[d] = at[d]
  BY <1>1, <1>2, TablesFromOne DEF SeatsInv, RoomTypes
<1> QED
  BY <1>2, <1>4, <1>5, NoSeatGiven

LEMMA HandlerKeeps ==
  ASSUME SeatsInv, NEW c \in Conns, Handler(c)
  PROVE  SeatsInv'
<1>0. UserOfConn[c] \in Users
  BY RoomAssumption
<1>1. CASE EnterSeated(c)
  BY <1>1, EnterSeatedKeeps
<1>2. CASE Store(c)
  BY <1>2, StoreKeeps
<1>3. CASE EnterNext(c)
  <2>1. pc[c] = "enter" /\ at[c] \in Tables /\ NoMoreSeat(at[c]) /\ users' = users
    BY <1>3 DEF EnterNext, SeatsInv, RoomTypes
  <2>2. /\ seats' \in [Tables -> [Seats -> Users \cup {None}]]
        /\ \A v \in Users, s \in Tables : SeatedAt(v, s)' => SeatedAt(v, s)
    BY <2>1, OthersSeats DEF SeatsInv
  <2>3. PICK to \in {"enter", "idle"} :
          /\ Goto(c, "enter", to)
          /\ \/ to = "enter" /\ at[c] + 1 \in Tables /\ at' = [at EXCEPT ![c] = at[c] + 1]
             \/ to = "idle" /\ at' = at
    BY <1>3 DEF EnterNext
  <2>4. /\ at' \in [Conns -> Tables \cup {0}] /\ (to = "enter" => at'[c] \in Tables)
        /\ \A d \in Conns \ {c} : at'[d] = at[d]
    BY <2>3 DEF SeatsInv, RoomTypes
  <2> QED
    BY <2>1, <2>2, <2>3, <2>4, NoSeatGiven
<1>4. CASE Scene(c) \/ TableReady(c) \/ TableRefuses(c)
  <2>1. PICK from \in {"scene", "ready", "leave", "do"} : Goto(c, from, "idle")
    BY <1>4 DEF Scene, TableReady, TableRefuses
  <2>2. users' = users /\ at' = at
    BY <1>4 DEF Scene, TableReady, TableRefuses
  <2>3. seats' = seats
    BY <1>4 DEF Scene, TableReady, TableRefuses, DoGetScene, DoReady, DoLeaveOrAct, tvars, table
  <2>4. seats' \in [Tables -> [Seats -> Users \cup {None}]]
        /\ \A v \in Users, s \in Tables : SeatedAt(v, s)' => SeatedAt(v, s)
    BY <2>3 DEF SeatsInv, RoomTypes, SeatedAt
  <2>5. at' \in [Conns -> Tables \cup {0}] /\ \A d \in Conns \ {c} : at'[d] = at[d]
    BY <2>2 DEF SeatsInv, RoomTypes
  <2> QED
    BY <2>1, <2>2, <2>4, <2>5, NoSeatGiven
<1> QED
  BY <1>1, <1>2, <1>3, <1>4 DEF Handler

\* A user who sits at a table is in the room's map, or a handler of his has still
\* to put him there: whatever connections he has, in whatever order their handlers
\* and the tables work (quickStart of room_server.go, doEnter and startGameCheck of
\* table.go).
THEOREM SeatsAreKnown == RoomSpec => []SeatsKnown
<1>1. RoomInit => SeatsInv
  <2>1. RoomInit => RoomTypes
    BY DEF RoomInit, TableInit, RoomTypes
  <2>2. RoomInit => \A u \in Users, t \in Tables : ~SeatedAt(u, t)
    BY TableAssumption DEF RoomInit, TableInit, SeatedAt
  <2> QED
    BY <2>1, <2>2 DEF SeatsInv, SeatsKnown
<1>2. SeatsInv /\ [RoomNext]_roomVars => SeatsInv'
  <2> SUFFICES ASSUME SeatsInv, [RoomNext]_roomVars PROVE SeatsInv'
    OBVIOUS
  <2>1. ASSUME NEW c \in Conns, Handler(c) \/ Client(c) PROVE SeatsInv'
    BY <2>1, HandlerKeeps, ClientKeeps
  <2>2. CASE TableTimer
    <3>1. PICK t \in Tables : Fire(t) \/ StartGameCheck(t)
      BY <2>2 DEF TableTimer
    <3>2. /\ seats' \in [Tables -> [Seats -> Users \cup {None}]]
          /\ \A v \in Users, s \in Tables : SeatedAt(v, s)' => SeatedAt(v, s)
      BY <3>1, OthersSeats DEF SeatsInv
    <3>3. users' = users /\ pc' = pc /\ at' = at
      BY <2>2 DEF TableTimer
    <3> QED
      BY <3>2, <3>3 DEF SeatsInv, RoomTypes, SeatsKnown
  <2>3. CASE UNCHANGED roomVars
    BY <2>3 DEF roomVars, tvars, table, SeatsInv, RoomTypes, SeatsKnown, SeatedAt
  <2> QED
    BY <2>1, <2>2, <2>3 DEF RoomNext
<1>3. SeatsInv => SeatsKnown
  BY DEF SeatsInv
<1> QED
  BY <1>1, <1>2, <1>3, PTL DEF RoomSpec

-----------------------------------------------------------------------------
(* Types.  A prepare is one of two seats or more: that a table's steps keep *)
(* so needs that sitting down frees no seat.                                *)

\* The variables of the room around its tables.
RoomOnly ==
  /\ users \in [Users -> Tables \cup {0}]
  /\ pc \in [Conns -> {"idle", "enter", "store", "scene", "ready", "leave", "do"}]
  /\ at \in [Conns -> Tables \cup {0}]
  /\ sent \in [Conns -> 0..MaxMsgs]
  /\ \A c \in Conns : pc[c] # "idle" => at[c] \in Tables

LEMMA RoomTypeParts == RoomTypeOK <=> TableTypeOK /\ RoomOnly
BY DEF RoomTypeOK, RoomOnly

\* A handler goes on with a table it has, or is done.
LEMMA GotoKeepsRoom ==
  ASSUME RoomOnly, NEW c \in Conns, NEW from,
         NEW to \in {"idle", "enter", "store", "scene", "ready", "leave", "do"},
         Goto(c, from, to), users' \in [Users -> Tables \cup {0}],
         sent' \in [Conns -> 0..MaxMsgs],
         NEW t \in Tables \cup {0}, at' = [at EXCEPT ![c] = t], to # "idle" => t \in Tables
  PROVE  RoomOnly'
BY DEF RoomOnly, Goto

\* A message of a client.
LEMMA ClientKeepsRoom ==
  ASSUME RoomOnly, NEW c \in Conns, Client(c)
  PROVE  RoomOnly' /\ UNCHANGED tvars
<1> DEFINE t == users[UserOfConn[c]]
<1>1. t \in Tables \cup {0}
  BY RoomAssumption DEF RoomOnly
<1>2. PICK to \in {"idle", "enter", "scene", "ready", "leave", "do"} :
        /\ Receive(c, to)
        /\ \/ at' = [at EXCEPT ![c] = t] /\ (to # "idle" => t # 0)
           \/ at' = [at EXCEPT ![c] = 1]
  BY DEF Client, QuickStart, ReadyMsg, LeaveMsg, GameMsg, AtTable
<1>3. Goto(c, "idle", to) /\ UNCHANGED <<tvars, users>>
  BY <1>2 DEF Receive
<1>4. sent' \in [Conns -> 0..MaxMsgs]
  BY <1>2, RoomAssumption DEF Receive, RoomOnly
<1>5. users' \in [Users -> Tables \cup {0}]
  BY <1>3 DEF RoomOnly
<1> HIDE DEF t
<1>6. PICK s \in Tables \cup {0} : at' = [at EXCEPT ![c] = s] /\ (to # "idle" => s \in Tables)
  BY <1>1, <1>2, TablesFromOne
<1> QED
  BY <1>3, <1>4, <1>5, <1>6, GotoKeepsRoom

\* A step of a handler.
LEMMA HandlerKeepsTypes ==
  ASSUME TableTypeOK, RoomOnly, NEW c \in Conns, Handler(c)
  PROVE  TableTypeOK' /\ RoomOnly'
<1>1. UserOfConn[c] \in Users /\ at[c] \in Tables \cup {0} /\ at = [at EXCEPT ![c] = at[c]]
  BY RoomAssumption DEF RoomOnly
<1>2. sent' = sent /\ sent' \in [Conns -> 0..MaxMsgs]
  BY DEF Handler, EnterSeated, EnterNext, Store, Scene, TableReady, TableRefuses, RoomOnly
<1>3. ASSUME pc[c] # "idle" PROVE at[c] \in Tables
  BY <1>3 DEF RoomOnly
<1>4. CASE EnterSeated(c)
  <2>1. Goto(c, "enter", "store") /\ Sit(at[c], UserOfConn[c]) /\ users' = users /\ at' = at
    BY <1>4 DEF EnterSeated
  <2>2. at[c] \in Tables
    BY <1>3, <2>1 DEF Goto
  <2>3. TableTypeOK'
    BY <1>1, <2>1, <2>2, MessageKeepsType
  <2>4. users' \in [Users -> Tables \cup {0}]
    BY <2>1 DEF RoomOnly
  <2>5. RoomOnly'
    BY <1>1, <1>2, <2>1, <2>2, <2>4, GotoKeepsRoom
  <2> QED BY <2>3, <2>5
<1>5. CASE EnterNext(c)
  <2>1. pc[c] = "enter" /\ NoMoreSeat(at[c]) /\ users' = users
    BY <1>5 DEF EnterNext
  <2>2. at[c] \in Tables
    BY <1>3, <2>1
  <2>3. TableTypeOK'
    BY <1>1, <2>1, <2>2, MessageKeepsType
  <2>4. users' \in [Users -> Tables \cup {0}]
    BY <2>1 DEF RoomOnly
  <2>5. PICK to \in {"enter", "idle"}, t \in Tables :
          Goto(c, "enter", to) /\ at' = [at EXCEPT ![c] = t]
    BY <1>1, <1>5, <2>2 DEF EnterNext
  <2>6. RoomOnly'
    BY <1>2, <2>4, <2>5, GotoKeepsRoom
  <2> QED BY <2>3, <2>6
<1>6. CASE Store(c)
  <2>1. /\ Goto(c, "store", "scene") /\ UNCHANGED tvars /\ at' = at
        /\ users' = [users EXCEPT ![UserOfConn[c]] = at[c]]
    BY <1>6 DEF Store
  <2>2. at[c] \in Tables
    BY <1>3, <2>1 DEF Goto
  <2>3. users' \in [Users -> Tables \cup {0}]
    BY <1>1, <2>1 DEF RoomOnly
  <2>4. RoomOnly'
    BY <1>1, <1>2, <2>1, <2>2, <2>3, GotoKeepsRoom
  <2>5. TableTypeOK'
    BY <2>1 DEF tvars, table, TableTypeOK, Taken
  <2> QED BY <2>4, <2>5
<1>7. CASE Scene(c) \/ TableReady(c) \/ TableRefuses(c)
  <2>1. PICK from \in {"scene", "ready", "leave", "do"} : Goto(c, from, "idle")
    BY <1>7 DEF Scene, TableReady, TableRefuses
  <2>2. users' = users /\ at' = at
    BY <1>7 DEF Scene, TableReady, TableRefuses
  <2>3. at[c] \in Tables
    BY <1>3, <2>1 DEF Goto
  <2>4. DoGetScene \/ DoReady(at[c], UserOfConn[c]) \/ DoLeaveOrAct
    BY <1>7 DEF Scene, TableReady, TableRefuses
  <2>5. TableTypeOK'
    BY <1>1, <2>3, <2>4, MessageKeepsType
  <2>6. users' \in [Users -> Tables \cup {0}]
    BY <2>2 DEF RoomOnly
  <2>7. RoomOnly'
    BY <1>1, <1>2, <2>1, <2>2, <2>6, GotoKeepsRoom
  <2> QED BY <2>5, <2>7
<1> QED
  BY <1>4, <1>5, <1>6, <1>7 DEF Handler

\* Every variable has its type, a handler that is at work has a table, and no
\* prepare is on at a table of fewer than two users, whatever users and timers do in
\* whatever order (room_server.go, table.go).
THEOREM RoomHasTypes == RoomSpec => []RoomTypeOK
<1>1. RoomInit => RoomTypeOK
  <2> SUFFICES ASSUME RoomInit PROVE RoomTypeOK
    OBVIOUS
  <2>1. TableTypeOK
    BY DEF RoomInit, TableInit, TableTypeOK
  <2>2. RoomOnly
    BY RoomAssumption DEF RoomInit, RoomOnly
  <2> QED BY <2>1, <2>2, RoomTypeParts
<1>2. RoomTypeOK /\ [RoomNext]_roomVars => RoomTypeOK'
  <2> SUFFICES ASSUME RoomTypeOK, [RoomNext]_roomVars PROVE TableTypeOK' /\ RoomOnly'
    BY DEF RoomTypeOK, RoomOnly
  <2>0. TableTypeOK /\ RoomOnly
    BY RoomTypeParts
  <2>1. ASSUME NEW c \in Conns, Handler(c) PROVE TableTypeOK' /\ RoomOnly'
    BY <2>0, <2>1, HandlerKeepsTypes
  <2>2. ASSUME NEW c \in Conns, Client(c) PROVE TableTypeOK' /\ RoomOnly'
    <3>1. RoomOnly' /\ UNCHANGED tvars
      BY <2>0, <2>2, ClientKeepsRoom
    <3> QED
      BY <2>0, <3>1 DEF tvars, table, TableTypeOK, Taken
  <2>3. CASE TableTimer
    <3>1. PICK t \in Tables : Fire(t) \/ StartGameCheck(t)
      BY <2>3 DEF TableTimer
    <3>2. TableTypeOK'
      BY <2>0, <3>1, CheckKeepsType
    <3>3. UNCHANGED <<users, pc, at, sent>>
      BY <2>3 DEF TableTimer
    <3> QED
      BY <2>0, <3>2, <3>3 DEF RoomOnly
  <2>4. CASE UNCHANGED roomVars
    BY <2>0, <2>4 DEF roomVars, tvars, table, TableTypeOK, RoomOnly, Taken
  <2> QED
    BY <2>1, <2>2, <2>3, <2>4 DEF RoomNext
<1> QED
  BY <1>1, <1>2, PTL DEF RoomSpec
=============================================================================
