------------------------------ MODULE OwnedAgent ------------------------------
(***************************************************************************)
(* What an adapter is promised of an owned process                         *)
(* (src/runtime/owned-agent-process.ts): ready settles, closed settles     *)
(* once, and a completion means that nothing of the process is left.       *)
(***************************************************************************)
EXTENDS LifecycleMachine

VARIABLES
  ready,   \* the promise that the target runs
  closed,  \* the promise that it is drained: pending, rejected or a reason
  asked,   \* the reason terminate() was given, or "none"
  gone     \* the target and its descendants are gone

vars == <<ready, closed, asked, gone>>

Init == ready = "pending" /\ closed = "pending" /\ asked = "none" /\ gone = FALSE

Announce == ready = "pending" /\ ready' \in {"resolved", "rejected"} /\ UNCHANGED <<closed, asked, gone>>

Ask == asked = "none" /\ asked' \in OrdinaryReasons /\ UNCHANGED <<ready, closed, gone>>

Vanish == ~gone /\ gone' = TRUE /\ UNCHANGED <<ready, closed, asked>>

Complete ==
  /\ closed = "pending" /\ ready = "resolved" /\ gone
  /\ closed' \in {"NoneOrRootExit", asked} \ {"none"}
  /\ UNCHANGED <<ready, asked, gone>>

Fail ==
  /\ closed = "pending" /\ closed' = "rejected"
  /\ ready' = IF ready = "pending" THEN "rejected" ELSE ready
  /\ UNCHANGED <<asked, gone>>

Next == Announce \/ Ask \/ Vanish \/ Complete \/ Fail
Spec == Init /\ [][Next]_vars
=============================================================================
