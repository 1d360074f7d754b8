----------------------------- MODULE TableCalls ------------------------------
(***************************************************************************)
(* What the methods of a table promise to the goroutines that call them     *)
(* (Enter, Ready, Leave, Do and GetScene of texas/core/table.go): a call is *)
(* one step of the table, at some moment between the call and its return.   *)
(* Room takes them for that.                                                *)
(***************************************************************************)
EXTENDS Table

CONSTANTS Callers,   \* the goroutines that call
          UserOf,    \* and their users
          Methods    \* "enter", "ready", "leave", "do" and "scene", or some of them

VARIABLE asking    \* the call a goroutine waits for: table and method, or None

cvars == <<tvars, asking>>

CallsInit == TableInit /\ asking = [c \in Callers |-> None]

Call(c, t, m) ==
  /\ asking[c] = None
  /\ asking' = [asking EXCEPT ![c] = <<t, m>>]
  /\ UNCHANGED tvars

\* What the loop does with a message.
Handled(t, m, u) ==
  \/ m = "enter" /\ (Sit(t, u) \/ NoMoreSeat(t))
  \/ m = "ready" /\ DoReady(t, u)
  \/ m \in {"leave", "do"} /\ DoLeaveOrAct
  \/ m = "scene" /\ DoGetScene

Return(c) ==
  /\ asking[c] # None
  /\ Handled(asking[c][1], asking[c][2], UserOf[c])
  /\ asking' = [asking EXCEPT ![c] = None]

Tick == \E t \in Tables : (Fire(t) \/ StartGameCheck(t)) /\ UNCHANGED asking

CallsNext ==
  \/ \E c \in Callers : Return(c) \/ \E t \in Tables, m \in Methods : Call(c, t, m)
  \/ Tick

CallsSpec == CallsInit /\ [][CallsNext]_cvars
=============================================================================
