------------------------------ MODULE CallLock ------------------------------
(***************************************************************************)
(* What the Call client promises its callers (spec.md, section 4.4): one  *)
(* call/response cycle at a time on the connection, each cycle started and *)
(* ended by the same goroutine, and every started cycle ends unless the    *)
(* process dies.  A cycle is one step to begin and one step to end; how    *)
(* the Call and its reply cross the stream is left out.                   *)
(***************************************************************************)
CONSTANTS
  Threads,   \* goroutines that may call
  NoThread,  \* nobody is in a cycle
  Ops        \* what a cycle asks for

VARIABLES
  holder,    \* the goroutine whose cycle is in progress, or NoThread
  asking,    \* per goroutine: the operation it is waiting on, or "none"
  dead       \* the process has ended

vars == <<holder, asking, dead>>

Init ==
  /\ holder = NoThread
  /\ asking = [t \in Threads |-> "none"]
  /\ dead = FALSE

\* A goroutine starts a cycle when no other is in one.
Begin(t, op) ==
  /\ ~dead
  /\ holder = NoThread
  /\ asking[t] = "none"
  /\ holder' = t
  /\ asking' = [asking EXCEPT ![t] = op]
  /\ UNCHANGED dead

\* The goroutine in the cycle gets its answer; acting on it may end the
\* process.
End(t) ==
  /\ ~dead
  /\ holder = t
  /\ holder' = NoThread
  /\ asking' = [asking EXCEPT ![t] = "none"]
  /\ dead' \in {dead, TRUE}

\* The process ends for a reason outside the cycle.
Die ==
  /\ ~dead
  /\ dead' = TRUE
  /\ UNCHANGED <<holder, asking>>

Next == (\E t \in Threads, op \in Ops : Begin(t, op)) \/ (\E t \in Threads : End(t)) \/ Die

Spec == Init /\ [][Next]_vars /\ \A t \in Threads : WF_vars(End(t))

=============================================================================
