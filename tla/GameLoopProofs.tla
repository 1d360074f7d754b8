--------------------------- MODULE GameLoopProofs ---------------------------
(***************************************************************************)
(* Theorems about GameLoop, for any sequence of turns and any number of     *)
(* calls: a turn is never left without a deadline, whatever the timer and   *)
(* its goroutine were doing when the turn began.                            *)
(***************************************************************************)
EXTENDS GameLoop, TLAPS

\* An expiry that onTimeout will take for the current turn is on its way.
OnItsWay == \/ armed = turn
            \/ fired # 0
            \/ timer.pc = "taken"
            \/ timer.pc = "sending" /\ ForThisTurn(timer.info)

\* Why DeadlinePending survives every step.  The timer goroutine quits only after
\* the stop of the hand; the time does not run out inside Set; while the loop
\* waits or answers a question, info is that of the current turn.
DeadlineInv ==
  /\ TypeOK
  /\ gStop = "open" => tStop = "open"
  /\ tStop # "open" => loop \in {"started", "stopping", "deferred", "result", "done"}
  /\ loop = "stopping" => gStop = "closed"
  /\ loop = "info" => armed = turn
  /\ loop \in {"select", "answer"} /\ gStop = "open" => info = turn /\ OnItsWay

-----------------------------------------------------------------------------
\* The variables keep their types through every step of the three goroutines.
LEMMA StepKeepsTypes == TypeOK /\ [Next]_vars => TypeOK'
<1> SUFFICES ASSUME TypeOK, [Next]_vars PROVE TypeOK'
  OBVIOUS
<1> USE GameLoopAssumption DEF NoTurn
<1> DEFINE T == [pc : {"none", "enter", "select", "taken", "sending", "done"},
                 watch : BOOLEAN, for : 0..NoTurn, info : 0..Len(Key)]
<1>0. timer \in T
  BY DEF TypeOK
<1>1. CASE Start
  BY <1>1 DEF Start, TypeOK, desk
<1>2. CASE Reset
  BY <1>2 DEF Reset, TypeOK, desk, Turns
<1>3. CASE SetInfo
  BY <1>3 DEF SetInfo, TypeOK, desk, Turns
<1>4. CASE Act
  <2>1. folded' \in BOOLEAN
    BY <1>4, Zenon DEF Act, TypeOK
  <2>2. /\ loop' \in {"reset", "select", "panicked"}
        /\ turn' \in Turns /\ gStop' \in {"nil", "open", "closed"}
    BY <1>4 DEF Act, TypeOK, Turns
  <2>3. UNCHANGED <<cause, clock, desk>>
    BY <1>4 DEF Act
  <2> QED BY <2>1, <2>2, <2>3 DEF TypeOK, clock, desk
<1>5. CASE Answer
  BY <1>5 DEF Answer, TypeOK, clock, NoCall, Kinds
<1>6. CASE TakeTimeout
  BY <1>6 DEF TakeTimeout, TypeOK, desk, Turns
<1>7. CASE TakeAction
  BY <1>7 DEF TakeAction, TypeOK, clock, NoCall, Turns, Kinds
<1>8. CASE TakeQuery
  BY <1>8 DEF TakeQuery, TypeOK, clock
<1>9. CASE TakeStop
  BY <1>9 DEF TakeStop, TypeOK, desk
<1>10. CASE ForgetTimerStop
  BY <1>10 DEF ForgetTimerStop, TypeOK, desk
<1>11. CASE Deferred
  BY <1>11 DEF Deferred, TypeOK, clock, desk
<1>12. CASE SendResult
  BY <1>12 DEF SendResult, TypeOK, clock
<1>13. CASE Enter
  <2>1. timer' = [timer EXCEPT !.pc = "select", !.watch = tStop # "nil"]
    BY <1>13 DEF Enter
  <2>2. timer' \in T
    BY <1>0, <2>1 DEF TypeOK
  <2> QED BY <1>13, <2>2 DEF Enter, TypeOK, game, desk
<1>14. CASE TakeExpiry
  <2>1. timer' = [timer EXCEPT !.pc = "taken", !.for = fired]
    BY <1>14 DEF TakeExpiry
  <2>2. timer' \in T
    BY <1>0, <2>1 DEF TypeOK
  <2> QED BY <1>14, <2>2 DEF TakeExpiry, TypeOK, game, desk
<1>15. CASE ReadInfo
  <2>1. timer' = [timer EXCEPT !.pc = "sending", !.info = info]
    BY <1>15 DEF ReadInfo
  <2>2. timer' \in T
    BY <1>0, <2>1 DEF TypeOK
  <2> QED BY <1>15, <2>2 DEF ReadInfo, TypeOK, game, desk
<1>16. CASE Quit
  BY <1>16 DEF Quit, TypeOK, game, desk
<1>17. CASE Expire
  BY <1>17 DEF Expire, TypeOK, game, desk
<1>18. ASSUME NEW kind \in Kinds, CallGame(kind) PROVE TypeOK'
  <2>1. CASE gStop = "nil"
    <3>1. granted' \in BOOLEAN
      BY <1>18, <2>1, Zenon DEF CallGame
    <3>2. /\ UNCHANGED <<table, game, clock, result>> /\ calls < MaxCalls
          /\ calls' = calls + 1
      BY <1>18, <2>1 DEF CallGame
    <3> QED BY <3>1, <3>2 DEF TypeOK, game, clock
  <2>2. CASE gStop # "nil"
    <3>1. /\ UNCHANGED <<granted, game, clock, result>> /\ calls < MaxCalls
          /\ calls' = calls + 1 /\ table' = [pc |-> "send", kind |-> kind]
      BY <1>18, <2>2 DEF CallGame
    <3> QED BY <3>1 DEF TypeOK, game, clock
  <2> QED BY <2>1, <2>2
<1>19. CASE GameFinished
  BY <1>19 DEF GameFinished, TypeOK, game, clock
<1>20. CASE UNCHANGED vars
  BY <1>20 DEF vars, game, clock, desk, TypeOK
<1> QED
  BY <1>1, <1>2, <1>3, <1>4, <1>5, <1>6, <1>7, <1>8, <1>9, <1>10, <1>11, <1>12, <1>13,
     <1>14, <1>15, <1>16, <1>17, <1>18, <1>19, <1>20 DEF Next, LoopStep, TimerStep

\* Every step of the loop keeps the invariant: Set starts a time for the turn it
\* names, and a timeout that is dropped was not the one the turn waits for.
LEMMA LoopKeepsDeadline == DeadlineInv /\ LoopStep /\ TypeOK' => DeadlineInv'
<1> SUFFICES ASSUME DeadlineInv, LoopStep, TypeOK' PROVE DeadlineInv'
  OBVIOUS
<1>1. CASE Start
  BY <1>1 DEF Start, DeadlineInv
<1>2. CASE Reset
  BY <1>2 DEF Reset, DeadlineInv
<1>3. CASE SetInfo
  BY <1>3 DEF SetInfo, DeadlineInv, OnItsWay, ForThisTurn
<1>4. CASE Act
  BY <1>4 DEF Act, DeadlineInv, clock
<1>5. CASE Answer
  BY <1>5 DEF Answer, DeadlineInv, OnItsWay, ForThisTurn, clock
<1>6. CASE TakeTimeout
  <2>1. timer.pc = "sending" /\ UNCHANGED <<armed, fired, info, tStop, turn, gStop>>
    BY <1>6 DEF TakeTimeout
  <2>2. CASE ForThisTurn(timer.info)
    BY <1>6, <2>1, <2>2 DEF TakeTimeout, DeadlineInv
  <2>3. CASE ~ForThisTurn(timer.info)
    <3>1. loop' = loop /\ loop = "select"
      BY <1>6, <2>3 DEF TakeTimeout
    <3> QED BY <2>1, <2>3, <3>1 DEF DeadlineInv, OnItsWay, ForThisTurn
  <2> QED BY <2>2, <2>3
<1>7. CASE TakeAction
  BY <1>7 DEF TakeAction, DeadlineInv, OnItsWay, ForThisTurn, clock
<1>8. CASE TakeQuery
  BY <1>8 DEF TakeQuery, DeadlineInv, OnItsWay, ForThisTurn, clock
<1>9. CASE TakeStop
  BY <1>9 DEF TakeStop, DeadlineInv
<1>10. CASE ForgetTimerStop
  BY <1>10 DEF ForgetTimerStop, DeadlineInv
<1>11. CASE Deferred
  BY <1>11 DEF Deferred, DeadlineInv, clock
<1>12. CASE SendResult
  BY <1>12 DEF SendResult, DeadlineInv, clock
<1> QED
  BY <1>1, <1>2, <1>3, <1>4, <1>5, <1>6, <1>7, <1>8, <1>9, <1>10, <1>11, <1>12
  DEF LoopStep

\* So does every step of the timer: an expiry moves on towards the loop, and t.C
\* drops one only while it holds another.
LEMMA TimerKeepsDeadline == DeadlineInv /\ (TimerStep \/ Expire) /\ TypeOK' => DeadlineInv'
<1> SUFFICES ASSUME DeadlineInv, TimerStep \/ Expire, TypeOK' PROVE DeadlineInv'
  OBVIOUS
<1>1. CASE Enter
  BY <1>1 DEF Enter, DeadlineInv, OnItsWay, ForThisTurn, TypeOK, game
<1>2. CASE TakeExpiry
  BY <1>2 DEF TakeExpiry, DeadlineInv, OnItsWay, ForThisTurn, TypeOK, game
<1>3. CASE ReadInfo
  <2>1. /\ timer.pc = "taken" /\ timer'.pc = "sending" /\ timer'.info = info
        /\ UNCHANGED <<game, armed, fired, info, tStop>>
    BY <1>3 DEF ReadInfo, DeadlineInv, TypeOK
  <2>2. loop \in {"select", "answer"} /\ gStop = "open" => ForThisTurn(info)
    BY GameLoopAssumption DEF DeadlineInv, TypeOK, Turns, ForThisTurn
  <2> QED BY <2>1, <2>2 DEF DeadlineInv, OnItsWay, ForThisTurn, game
<1>4. CASE Quit
  <2>1. gStop # "open" /\ loop # "info" /\ UNCHANGED <<game, tStop>>
    BY <1>4 DEF Quit, DeadlineInv
  <2> QED BY <2>1 DEF DeadlineInv, game
<1>5. CASE Expire
  BY <1>5 DEF Expire, DeadlineInv, OnItsWay, ForThisTurn, TypeOK, game
<1> QED BY <1>1, <1>2, <1>3, <1>4, <1>5 DEF TimerStep

\* The invariant holds of every behaviour: the table's calls do not touch it.
LEMMA DeadlineInductive ==
  /\ Init => DeadlineInv
  /\ DeadlineInv /\ [Next]_vars => DeadlineInv'
<1>1. Init => DeadlineInv
  <2> SUFFICES ASSUME Init PROVE DeadlineInv
    OBVIOUS
  <2>1. TypeOK
    <3>1. 1 \in Turns /\ 0 \in 0..Len(Key) /\ 0 \in 0..NoTurn /\ 0 \in 0..MaxCalls
      BY GameLoopAssumption DEF Turns, NoTurn
    <3>2. cause \in [kind : {"none", "timeout", "action"}, for : 0..NoTurn]
      BY <3>1 DEF Init
    <3>3. timer \in [pc : {"none", "enter", "select", "taken", "sending", "done"},
                     watch : BOOLEAN, for : 0..NoTurn, info : 0..Len(Key)]
      BY <3>1 DEF Init
    <3>4. table \in [pc : {"idle", "send", "wait"}, kind : Kinds \cup {"none"}]
      BY DEF Init, NoCall
    <3>5. folded \in BOOLEAN /\ granted \in BOOLEAN
      BY DEF Init
    <3> QED BY <3>1, <3>2, <3>3, <3>4, <3>5 DEF Init, TypeOK
  <2> QED BY <2>1 DEF Init, DeadlineInv
<1>2. ASSUME DeadlineInv, [Next]_vars PROVE DeadlineInv'
  <2>1. TypeOK'
    BY <1>2, StepKeepsTypes DEF DeadlineInv
  <2>2. CASE LoopStep
    BY <1>2, <2>1, <2>2, LoopKeepsDeadline
  <2>3. CASE TimerStep \/ Expire
    BY <1>2, <2>1, <2>3, TimerKeepsDeadline
  <2>4. CASE (\E kind \in Kinds : CallGame(kind)) \/ GameFinished \/ UNCHANGED vars
    BY <1>2, <2>1, <2>4
    DEF CallGame, GameFinished, vars, game, clock, DeadlineInv, OnItsWay, ForThisTurn
  <2> QED BY <1>2, <2>2, <2>3, <2>4 DEF Next
<1> QED BY <1>1, <1>2

-----------------------------------------------------------------------------
\* Type correctness of the three goroutines.
THEOREM LoopTypes == Spec => []TypeOK
<1>1. DeadlineInv => TypeOK
  BY DEF DeadlineInv
<1> QED BY <1>1, DeadlineInductive, PTL DEF Spec

\* While the loop waits the player whose turn it is has a deadline: the time of
\* this turn runs, or an expiry is on its way that is taken for this turn
\* (gameTimer.Set and gameTimer.loop, in every interleaving).
THEOREM DeadlineHolds == Spec => []DeadlinePending
<1>1. DeadlineInv => DeadlinePending
  BY DEF DeadlineInv, DeadlinePending, OnItsWay
<1> QED BY <1>1, DeadlineInductive, PTL DEF Spec
=============================================================================
