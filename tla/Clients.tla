------------------------------- MODULE Clients -------------------------------
(***************************************************************************)
(* The two adapter clients under one specification: a behaviour is one run *)
(* of runPiRpc or one run of runKimiAcp.                                   *)
(***************************************************************************)
EXTENDS PiClient, KimiClient

ClientsInit == PiInit \/ KimiInit

ClientsNext == \/ run.client = "pi" /\ PiNext
               \/ run.client = "kimi" /\ KimiNext

ClientsSpec == ClientsInit /\ [][ClientsNext]_vars

(* A client says completed only of a run that nobody cancelled, in which    *)
(* the prompt was submitted, the fixed model answered and the process came  *)
(* to its end by itself and cleanly; it says cancelled or timed_out only    *)
(* for the first reason that came, and only once the agent is gone.  What   *)
(* it reports as drained is, with the completion it reports, and no run     *)
(* leaves a helper behind.  A run does not time out before its time, though *)
(* the timer is armed in pieces (runPiRpc, runKimiAcp, scheduleDeadline).     *)
RunIsHonest ==
  /\ run.client = "pi" => PiStatusAgrees /\ PiDrainIsReal
  /\ run.client = "kimi" => KimiStatusAgrees /\ KimiDrainIsReal
  /\ NeverEarly
=============================================================================
