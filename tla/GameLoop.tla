------------------------------ MODULE GameLoop ------------------------------
(***************************************************************************)
(* The goroutines round one hand (texas/core/game.go): Game.Run with its    *)
(* select loop, the goroutine of gameTimer with the runtime timer it wraps, *)
(* and the goroutine of the table (texas/core/table.go, Table.loop), which  *)
(* calls OnMsg, CanLeave and GetScene and waits for the result.             *)
(*                                                                         *)
(* A step is what one goroutine does between two points at which another    *)
(* can interfere: a channel operation, a select, or an access to a field    *)
(* that two goroutines use (Game.stopChan, gameTimer.info and stopChan).    *)
(* A send and a receive on an unbuffered channel are one step of both.      *)
(*                                                                         *)
(* The game itself is reduced to its turns: Key[n] is the (player, round)   *)
(* of turn n, and two turns of one player in one round have the same key.   *)
(* Game.tla has the rules.                                                  *)
(***************************************************************************)
EXTENDS Naturals, Sequences

CONSTANTS Key,              \* the (player, round) of each turn
          MaxCalls          \* bound: calls of the table during the hand

ASSUME GameLoopAssumption == Len(Key) \in Nat \ {0} /\ MaxCalls \in Nat

Turns == 1..Len(Key)

\* What an expiry can be of: a turn, or the timer of length 0 that Start makes.
NoTurn == Len(Key) + 1

VARIABLES loop,     \* where Run is
          cause,    \* what the handler in progress was started by
          turn,     \* whose turn it is (curBetPlayer, curRound)
          folded,   \* the player who asks to leave has discarded
          gStop,    \* Game.stopChan: nil, open or closed
          armed,    \* the turn the runtime timer runs for, 0 if it does not run
          fired,    \* what the expiry in the channel t.C is of, 0 for none
          info,     \* gameTimer.info, as a turn
          tStop,    \* gameTimer.stopChan: nil, open or closed
          timer,    \* the goroutine of gameTimer
          table,    \* the call the table's goroutine is in
          calls,    \* how many calls it has made
          granted,  \* a player of the hand has been told that he can leave
          result    \* resultChan: none, ready, or taken by doGameFinished

game  == <<loop, cause, turn, folded, gStop>>
clock == <<armed, fired, info, tStop, timer>>
desk  == <<table, calls, granted, result>>
vars  == <<game, clock, desk>>

Kinds == {"action", "leave", "scene"}
NoCall == [pc |-> "idle", kind |-> "none"]

Init ==
  /\ loop = "started" /\ cause = [kind |-> "none", for |-> 0]
  /\ turn = 1 /\ folded = FALSE /\ gStop = "nil"
  /\ armed = 0 /\ fired = 0 /\ info = 0 /\ tStop = "nil"
  /\ timer = [pc |-> "none", watch |-> FALSE, for |-> 0, info |-> 0]
  /\ table = NoCall /\ calls = 0 /\ granted = FALSE /\ result = "none"

-----------------------------------------------------------------------------
(* Game.Run                                                                 *)

\* Run up to doStart's timer.Set: stopChan is made, the timer goroutine starts.
\* NewTimer(0) may expire before Stop, which leaves the expiry in t.C.
Start ==
  /\ loop = "started"
  /\ loop' = "reset"
  /\ gStop' = "open"
  /\ tStop' = "open"
  /\ timer' = [timer EXCEPT !.pc = "enter"]
  /\ fired' \in {0, NoTurn}
  /\ UNCHANGED <<cause, turn, folded, armed, info, desk>>

\* (an error to look for: a timer that has expired is not started again)
ResetUnlessFired ==
  /\ loop = "reset"
  /\ loop' = "info"
  /\ armed' = IF fired = 0 /\ timer.pc # "sending" THEN turn ELSE armed
  /\ UNCHANGED <<cause, turn, folded, gStop, fired, info, tStop, timer, desk>>

\* gameTimer.Set, first half: t.t.Reset leaves an expiry in t.C where it is.
Reset ==
  /\ loop = "reset"
  /\ loop' = "info"
  /\ armed' = turn
  /\ UNCHANGED <<cause, turn, folded, gStop, fired, info, tStop, timer, desk>>

\* gameTimer.Set, second half.
SetInfo ==
  /\ loop = "info"
  /\ loop' = "select"
  /\ info' = turn
  /\ UNCHANGED <<cause, turn, folded, gStop, armed, fired, tStop, timer, desk>>

\* The timeout names the player and the round of the turn.  An info not yet set
\* names round 0, which no turn has.
ForThisTurn(n) == n # 0 /\ Key[n] = Key[turn]

\* The loop receives a timeout; onTimeout drops one for another turn.
TakeTimeout ==
  /\ loop = "select" /\ timer.pc = "sending"
  /\ timer' = [timer EXCEPT !.pc = "enter"]
  /\ IF ForThisTurn(timer.info)
     THEN loop' = "act" /\ cause' = [kind |-> "timeout", for |-> timer.for]
     ELSE UNCHANGED <<loop, cause>>
  /\ UNCHANGED <<turn, folded, gStop, armed, fired, info, tStop, desk>>

\* The loop receives a message, for the current turn or (ignored) another one.
TakeAction ==
  /\ loop = "select" /\ table = [pc |-> "send", kind |-> "action"]
  /\ table' = NoCall
  /\ \/ loop' = "act" /\ cause' = [kind |-> "action", for |-> turn]
     \/ UNCHANGED <<loop, cause>>
  /\ UNCHANGED <<turn, folded, gStop, clock, calls, granted, result>>

\* onMsg or onTimeout acts: the next turn begins, or stop closes stopChan, after
\* which only dealingCardsToEnd still sets the timer.  A late action for the
\* turn the hand ended in sets the timer again or closes stopChan twice.
Act ==
  /\ loop = "act"
  /\ folded' \in {folded, TRUE}
  /\ \/ /\ gStop = "open" /\ turn < Len(Key)
        /\ turn' = turn + 1 /\ loop' = "reset" /\ UNCHANGED gStop
     \/ /\ gStop = "open"
        /\ gStop' = "closed" /\ loop' \in {"reset", "select"} /\ UNCHANGED turn
     \/ /\ gStop = "closed"
        /\ loop' \in {"reset", "panicked"} /\ UNCHANGED <<turn, gStop>>
  /\ UNCHANGED <<cause, clock, desk>>

\* The loop receives a question of CanLeave or GetScene and answers it.
TakeQuery ==
  /\ loop = "select" /\ table.pc = "send" /\ table.kind # "action"
  /\ loop' = "answer"
  /\ table' = [table EXCEPT !.pc = "wait"]
  /\ UNCHANGED <<cause, turn, folded, gStop, clock, calls, granted, result>>

\* (an error to look for: only a yes is answered)
AnswerYes ==
  /\ loop = "answer"
  /\ loop' = "select"
  /\ granted' = (granted \/ (table.kind = "leave" /\ folded))
  /\ table' = IF table.kind = "leave" /\ ~folded THEN table ELSE NoCall
  /\ UNCHANGED <<cause, turn, folded, gStop, clock, calls, result>>

Answer ==
  /\ loop = "answer"
  /\ loop' = "select"
  /\ granted' = (granted \/ (table.kind = "leave" /\ folded))
  /\ table' = NoCall
  /\ UNCHANGED <<cause, turn, folded, gStop, clock, calls, result>>

\* The loop receives from the closed stopChan: timer.Stop, the deferred
\* assignment, and the result into the buffered channel.
TakeStop ==
  /\ loop = "select" /\ gStop = "closed"
  /\ loop' = "stopping"
  /\ tStop' = "closed"
  /\ UNCHANGED <<cause, turn, folded, gStop, armed, fired, info, timer, desk>>

ForgetTimerStop ==
  /\ loop = "stopping"
  /\ loop' = "deferred"
  /\ tStop' = "nil"
  /\ UNCHANGED <<cause, turn, folded, gStop, armed, fired, info, timer, desk>>

Deferred ==
  /\ loop = "deferred"
  /\ loop' = "result"
  /\ gStop' = "nil"
  /\ UNCHANGED <<cause, turn, folded, clock, desk>>

SendResult ==
  /\ loop = "result"
  /\ loop' = "done"
  /\ result' = "ready"
  /\ UNCHANGED <<cause, turn, folded, gStop, clock, table, calls, granted>>

-----------------------------------------------------------------------------
(* gameTimer                                                                *)

\* The runtime timer expires: t.C has room for one expiry, more are dropped.  It
\* runs for seconds, so not between the two assignments of the Set that started
\* it; an expiry from before may be taken there.
Expire ==
  /\ armed # 0 /\ loop # "info"
  /\ armed' = 0
  /\ fired' = IF fired = 0 THEN armed ELSE fired
  /\ UNCHANGED <<game, info, tStop, timer, desk>>

\* Entering the select evaluates t.stopChan, which Stop sets to nil.
Enter ==
  /\ timer.pc = "enter"
  /\ timer' = [timer EXCEPT !.pc = "select", !.watch = tStop # "nil"]
  /\ UNCHANGED <<game, armed, fired, info, tStop, desk>>

TakeExpiry ==
  /\ timer.pc = "select" /\ fired # 0
  /\ timer' = [timer EXCEPT !.pc = "taken", !.for = fired]
  /\ fired' = 0
  /\ UNCHANGED <<game, armed, info, tStop, desk>>

\* timeoutChan <- t.info evaluates t.info, then waits for the loop.
ReadInfo ==
  /\ timer.pc = "taken"
  /\ timer' = [timer EXCEPT !.pc = "sending", !.info = info]
  /\ UNCHANGED <<game, armed, fired, info, tStop, desk>>

Quit ==
  /\ timer.pc = "select" /\ timer.watch /\ tStop # "open"
  /\ timer' = [timer EXCEPT !.pc = "done"]
  /\ armed' = 0
  /\ UNCHANGED <<game, fired, info, tStop, desk>>

-----------------------------------------------------------------------------
(* The table                                                                *)

\* OnMsg, CanLeave and GetScene return at once if stopChan is nil, before Run
\* has made it and after the loop has gone; CanLeave then says yes.  Otherwise
\* they wait for the loop to receive.
CallGame(kind) ==
  /\ table = NoCall /\ result # "taken" /\ calls < MaxCalls
  /\ calls' = calls + 1
  /\ IF gStop = "nil"
     THEN granted' = (granted \/ kind = "leave") /\ UNCHANGED table
     ELSE table' = [pc |-> "send", kind |-> kind] /\ UNCHANGED granted
  /\ UNCHANGED <<game, clock, result>>

\* doGameFinished
GameFinished ==
  /\ table = NoCall /\ result = "ready"
  /\ result' = "taken"
  /\ UNCHANGED <<game, clock, table, calls, granted>>

-----------------------------------------------------------------------------
LoopStep == \/ Start \/ Reset \/ SetInfo \/ Act \/ Answer
            \/ TakeTimeout \/ TakeAction \/ TakeQuery
            \/ TakeStop \/ ForgetTimerStop \/ Deferred \/ SendResult

TimerStep == Enter \/ TakeExpiry \/ ReadInfo \/ Quit

\* A panic in the loop ends the process, and with it every goroutine.
Alive == loop # "panicked"

Next == /\ Alive
        /\ \/ LoopStep \/ TimerStep \/ Expire
           \/ \E kind \in Kinds : CallGame(kind)
           \/ GameFinished

Spec == Init /\ [][Next]_vars

\* The Go scheduler runs every goroutine that can run, a running timer expires,
\* and a select with several ready cases picks one at random, so a case that is
\* ready again and again is taken (SF).  Nobody has to call the table.
FairSpec ==
  /\ Spec
  /\ WF_vars(LoopStep) /\ SF_vars(TakeStop) /\ SF_vars(TakeTimeout)
  /\ WF_vars(Alive /\ TimerStep) /\ WF_vars(Alive /\ Expire)
  /\ WF_vars(Alive /\ GameFinished)

-----------------------------------------------------------------------------
\* Every variable has its type.
TypeOK ==
  /\ loop \in {"started", "reset", "info", "select", "act", "answer", "stopping",
               "deferred", "result", "done", "panicked"}
  /\ cause \in [kind : {"none", "timeout", "action"}, for : 0..NoTurn]
  /\ turn \in Turns
  /\ gStop \in {"nil", "open", "closed"} /\ tStop \in {"nil", "open", "closed"}
  /\ armed \in 0..Len(Key) /\ fired \in 0..NoTurn /\ info \in 0..Len(Key)
  /\ timer \in [pc : {"none", "enter", "select", "taken", "sending", "done"},
                watch : BOOLEAN, for : 0..NoTurn, info : 0..Len(Key)]
  /\ table \in [pc : {"idle", "send", "wait"}, kind : Kinds \cup {"none"}]
  /\ calls \in 0..MaxCalls
  /\ folded \in BOOLEAN /\ granted \in BOOLEAN
  /\ result \in {"none", "ready", "taken"}

\* The player whose turn it is always has a deadline: while the loop waits the
\* timer runs for this turn, or an expiry is on its way that onTimeout will take
\* for this turn, whatever was in t.C when Set was called and whatever the timer
\* goroutine was doing (gameTimer.Set, gameTimer.loop).
DeadlinePending ==
  loop = "select" /\ gStop = "open" =>
    \/ armed = turn
    \/ fired # 0
    \/ timer.pc = "taken"
    \/ timer.pc = "sending" /\ ForThisTurn(timer.info)

\* Every turn comes to an end, by a message or by a timeout, though the timer
\* goroutine may be blocked with an old timeout when the turn begins.
TurnsGoOn ==
  \A n \in Turns :
    (turn = n /\ gStop = "open") ~> (turn # n \/ gStop # "open")

\* A call that was let through before stopChan was closed to it waits for a loop
\* that no longer receives.
CallLost == table.pc = "send" /\ loop \in {"stopping", "deferred", "result", "done"}

\* If no call is lost that way, the table gets the result and goes on.
ReportedUnlessCallLost ==
  []~CallLost => <>(result = "taken" \/ loop = "panicked")

-----------------------------------------------------------------------------
\* What the comments of the code say, and the code does not do.

\* "Get the result after the game logic ... submit the result and check again
\* whether to start a game" (comment of Table): the table gets every result.
ResultReported == <>(result = "taken" \/ loop = "panicked")

\* "A timeout must carry its state", because one may be triggered while a message
\* is processed (comment of Game.loop): a turn is only timed out by the expiry
\* of its own time.
OwnTimeOnly ==
  loop = "act" /\ cause.kind = "timeout" => cause.for = turn

\* "Whether the player can leave: he can once he has discarded" (comment of
\* canLeave): nobody leaves a hand that has not ended without discarding.
LeavesDiscarded == granted /\ gStop # "nil" => folded
=============================================================================
