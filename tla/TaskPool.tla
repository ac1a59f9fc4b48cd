------------------------------ MODULE TaskPool ------------------------------
(***************************************************************************)
(* What the controller expects of its scheduler: tasks take turns, one     *)
(* runs at a time and none is interrupted, and a task that waits runs only *)
(* after what it waits for has happened.  Module SlickControl is written   *)
(* against this; module Recoco shows that the two threads of recoco        *)
(* implement it.                                                           *)
(***************************************************************************)
CONSTANT Tasks

VARIABLE state          \* "new", "waiting", "due", "running" or "gone"

Init == state = [t \in Tasks |-> "new"]

To(t, from, to) == state[t] = from /\ state' = [state EXCEPT ![t] = to]

Start(t)  == To(t, "new", "due")
Happen(t) == To(t, "waiting", "due")
Run(t)    == To(t, "due", "running") /\ \A u \in Tasks : state[u] # "running"
Block(t)  == \E s \in {"waiting", "due"} : To(t, "running", s)
End(t)    == To(t, "running", "gone")

Next == \E t \in Tasks : Start(t) \/ Happen(t) \/ Run(t) \/ Block(t) \/ End(t)

Spec == Init /\ [][Next]_state
=============================================================================
