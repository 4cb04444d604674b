----------------------------- MODULE TaskServer -----------------------------
(***************************************************************************)
(* What the host may rely on, without transport, signals or queues: tasks  *)
(* are admitted until the gate is closed, the gate never opens again, and  *)
(* the server ends only when no task is left and takes none afterwards.    *)
(***************************************************************************)
CONSTANT Requests

VARIABLES
  open,     \* tasks are admitted
  active,   \* the tasks in flight
  ended     \* the session has settled

vars == <<open, active, ended>>

Init == open = TRUE /\ active = {} /\ ended = FALSE

Admit(q) ==
  /\ open /\ ~ended
  /\ active' = active \cup {q}
  /\ UNCHANGED <<open, ended>>

Finish(q) == active' = active \ {q} /\ UNCHANGED <<open, ended>>

CloseGate == open' = FALSE /\ UNCHANGED <<active, ended>>

(* A server that cannot be started closes the gate and ends at once. *)
End == active = {} /\ ended' = TRUE /\ open' \in {open, FALSE} /\ UNCHANGED active

Next == CloseGate \/ End \/ \E q \in Requests : Admit(q) \/ Finish(q)

Spec == Init /\ [][Next]_vars
=============================================================================
