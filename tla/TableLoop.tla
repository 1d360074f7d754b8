------------------------------ MODULE TableLoop ------------------------------
(***************************************************************************)
(* The goroutines around the tables of a room, from its start to its end:   *)
(* the loop of each table with its channels (Table.loop and the methods     *)
(* that send to it, texas/core/table.go), the handlers that call them, and  *)
(* the main goroutine that starts the room, stops it at a signal and ends a *)
(* second later (RoomServer.Start and Stop, cmd/texas_room/main.go).        *)
(*                                                                         *)
(* stopServer does nothing, so the handlers go on until the process ends.   *)
(* The loop reads Table.stopChan whenever it comes to its select: it hears  *)
(* a close in the select it waits in, but if it is busy then, or takes a    *)
(* message that is there too, it finds nil the next time and is deaf.       *)
(***************************************************************************)
EXTENDS Table, Sequences

CONSTANTS Callers,   \* the goroutines that handle messages
          UserOf,    \* and their users
          Methods    \* what they may call; Leave and Do differ only in their channels

ASSUME LoopAssumption ==
  /\ Methods \subseteq {"enter", "ready", "leave", "do", "scene"}
  /\ UserOf \in [Callers -> Users]
  /\ None \notin [table : Tables, method : Methods, sent : BOOLEAN]
  /\ None \notin Tables \X Methods
  /\ IsFiniteSet(Tables) /\ Tables # {} /\ Tables = 1..Cardinality(Tables)

VARIABLES loop,      \* of each table: off, new (not yet run), in the select with a
                     \* stopChan (watch) or with nil (deaf), or ended
          stopChan,  \* Table.stopChan: nil, or a channel
          closed,    \* whether that channel is closed
          queue,     \* getSceneChan, readyChan, ...: one place each
          call,      \* of each caller: what it calls and how far it is, or None
          main       \* the main goroutine and the table it is at

lvars == <<loop, stopChan, closed>>
vars  == <<tvars, lvars, queue, call, main>>

Init ==
  /\ TableInit
  /\ loop = [t \in Tables |-> "off"]
  /\ stopChan = [t \in Tables |-> "nil"] /\ closed = [t \in Tables |-> FALSE]
  /\ queue = [t \in Tables |-> [m \in Methods |-> <<>>]]
  /\ call = [c \in Callers |-> None]
  /\ main = <<"start", 1>>

Alive == ~crashed /\ main[1] # "gone"

-----------------------------------------------------------------------------
(* The main goroutine                                                       *)

\* What main does next: the same to the next table, or something else.
Then(same, other) ==
  main' = IF main[2] + 1 \in Tables THEN <<same, main[2] + 1>> ELSE <<other, 1>>

\* Table.Start
StartTable ==
  /\ main[1] = "start"
  /\ stopChan' = [stopChan EXCEPT ![main[2]] = "set"]
  /\ loop' = [loop EXCEPT ![main[2]] = "new"]
  /\ Then("start", "serve")
  /\ UNCHANGED <<tvars, closed, queue, call>>

\* startServer
StartServer ==
  /\ main[1] = "serve" /\ main' = <<"up", 1>>
  /\ UNCHANGED <<tvars, lvars, queue, call>>

\* A signal comes.
Signal ==
  /\ main[1] = "up" /\ main' = <<"close", 1>>
  /\ UNCHANGED <<tvars, lvars, queue, call>>

\* Table.Stop: it closes the channel, and then forgets it.
CloseStop ==
  /\ main[1] = "close" /\ main' = <<"forget", main[2]>>
  /\ closed' = [closed EXCEPT ![main[2]] = TRUE]
  /\ UNCHANGED <<tvars, loop, stopChan, queue, call>>

ForgetStop ==
  /\ main[1] = "forget" /\ Then("close", "sleep")
  /\ stopChan' = [stopChan EXCEPT ![main[2]] = "nil"]
  /\ UNCHANGED <<tvars, loop, closed, queue, call>>

\* (an error to look for: it waits for the calls to return instead of for a second)
ExitAfterCalls ==
  /\ main[1] = "sleep" /\ main' = <<"gone", 1>>
  /\ \A c \in Callers : call[c] = None
  /\ UNCHANGED <<tvars, lvars, queue, call>>

\* After a second the process ends, with all its goroutines.
Exit ==
  /\ main[1] = "sleep" /\ main' = <<"gone", 1>>
  /\ UNCHANGED <<tvars, lvars, queue, call>>

Main == StartTable \/ StartServer \/ CloseStop \/ ForgetStop \/ Exit

-----------------------------------------------------------------------------
(* The callers                                                              *)

\* The handler of a connection calls a table: once the server runs, and until the end.
Call(c, t, m) ==
  /\ main[1] \notin {"start", "serve"} /\ call[c] = None
  /\ call' = [call EXCEPT ![c] = [table |-> t, method |-> m, sent |-> FALSE]]
  /\ UNCHANGED <<tvars, lvars, queue, main>>

\* Its message goes to the channel of the method when there is a place.
Send(c) ==
  /\ call[c] # None
  /\ LET t == call[c].table
         m == call[c].method
     IN  /\ ~call[c].sent /\ queue[t][m] = <<>>
         /\ queue' = [queue EXCEPT ![t][m] = <<c>>]
         /\ call' = [call EXCEPT ![c] = [table |-> t, method |-> m, sent |-> TRUE]]
  /\ UNCHANGED <<tvars, lvars, main>>

-----------------------------------------------------------------------------
(* Table.loop                                                               *)

\* The select takes the stopChan that is there now.
Look(t) == loop' = [loop EXCEPT ![t] = IF stopChan[t] = "set" THEN "watch" ELSE "deaf"]

FirstLook(t) ==
  /\ loop[t] = "new" /\ Look(t)
  /\ UNCHANGED <<tvars, stopChan, closed, queue, call, main>>

Selecting(t) == loop[t] \in {"watch", "deaf"}

Handled(t, m, u) ==
  \/ m = "enter" /\ (Sit(t, u) \/ NoMoreSeat(t))
  \/ m = "ready" /\ DoReady(t, u)
  \/ m \in {"leave", "do"} /\ DoLeaveOrAct
  \/ m = "scene" /\ DoGetScene

\* (an error to look for: the message is answered and stays in its channel)
TakeAgain(t, m) ==
  /\ Selecting(t) /\ queue[t][m] # <<>>
  /\ Handled(t, m, UserOf[Head(queue[t][m])])
  /\ call' = [call EXCEPT ![Head(queue[t][m])] = None]
  /\ Look(t)
  /\ UNCHANGED <<stopChan, closed, queue, main>>

\* A message is handled, its caller, who waits for that, is answered, and the
\* loop comes back to the select.  (doEnter answers before it prepares, which
\* nobody can see: the next call is answered by the same loop.)
Take(t, m) ==
  /\ Selecting(t) /\ queue[t][m] # <<>>
  /\ Handled(t, m, UserOf[Head(queue[t][m])])
  /\ call' = [call EXCEPT ![Head(queue[t][m])] = None]
  /\ queue' = [queue EXCEPT ![t][m] = <<>>]
  /\ Look(t)
  /\ UNCHANGED <<stopChan, closed, main>>

TakeTick(t) ==
  /\ Selecting(t) /\ StartGameCheck(t)
  /\ Look(t)
  /\ UNCHANGED <<stopChan, closed, queue, call, main>>

TakeStop(t) ==
  /\ loop[t] = "watch" /\ closed[t]
  /\ loop' = [loop EXCEPT ![t] = "ended"]
  /\ UNCHANGED <<tvars, stopChan, closed, queue, call, main>>

Timer(t) == Fire(t) /\ UNCHANGED <<lvars, queue, call, main>>

-----------------------------------------------------------------------------
Next ==
  /\ Alive
  /\ \/ Main \/ Signal
     \/ \E c \in Callers : Send(c) \/ \E t \in Tables, m \in Methods : Call(c, t, m)
     \/ \E t \in Tables : \/ FirstLook(t) \/ TakeTick(t) \/ TakeStop(t) \/ Timer(t)
                          \/ \E m \in Methods : Take(t, m)

Spec == Init /\ [][Next]_vars

\* The scheduler runs every goroutine that can run and the runtime every timer;
\* select chooses among what is ready at random, and those who wait to send are
\* served in turn.  No signal need come, and nobody need call.
FairSpec ==
  /\ Spec
  /\ WF_vars(Alive /\ Main)
  /\ \A c \in Callers : SF_vars(Alive /\ Send(c))
  /\ \A t \in Tables :
       /\ WF_vars(Alive /\ FirstLook(t)) /\ WF_vars(Alive /\ Timer(t))
       /\ WF_vars(Alive /\ TakeTick(t))
       /\ \A m \in Methods : WF_vars(Alive /\ Take(t, m))

-----------------------------------------------------------------------------
\* Every variable has its type; a loop runs as often as its table was started;
\* the caller of a message in a channel waits for its answer.
TypeOK ==
  /\ TableTypeOK
  /\ loop \in [Tables -> {"off", "new", "watch", "deaf", "ended"}]
  /\ stopChan \in [Tables -> {"nil", "set"}] /\ closed \in [Tables -> BOOLEAN]
  /\ call \in [Callers -> {None} \cup [table : Tables, method : Methods, sent : BOOLEAN]]
  /\ queue \in [Tables -> [Methods -> {<<>>} \cup {<<c>> : c \in Callers}]]
  /\ \A t \in Tables, m \in Methods, c \in Callers :
       queue[t][m] = <<c>> => call[c] = [table |-> t, method |-> m, sent |-> TRUE]
  /\ main[1] \in {"start", "serve", "up", "close", "forget", "sleep", "gone"}
  /\ main[2] \in Tables

\* Whoever calls a table is answered, or the process ends: while the room is up by
\* the loop, and once it is stopped by the end of the process, whether or not the
\* loop has heard of it ("if the table stops the program has to end, or goroutines
\* may leak", comment of GetScene).
CallReturns == \A c \in Callers : call[c] # None ~> (call[c] = None \/ ~Alive)

\* A step in which the loop takes the message of somebody who enters.
EntersAt(t) == queue[t]["enter"] # <<>> /\ queue'[t]["enter"] = <<>>

\* A prepare of a table comes to its end once nobody enters there any more, who
\* would start it again; unless the process ends.
PreparesEnd ==
  \A t \in Tables :
    <>[][~EntersAt(t)]_vars => (prepared[t] # None ~> (prepared[t] = None \/ ~Alive))

\* A call is one step of the table between its begin and its return, made for
\* the user who called, and nothing but the timer changes a table otherwise.
Calls == INSTANCE TableCalls WITH
  asking <- [c \in Callers |->
               IF call[c] = None THEN None ELSE <<call[c].table, call[c].method>>]

CallsAreSteps == Calls!CallsSpec
=============================================================================
