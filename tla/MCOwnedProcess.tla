---------------------------- MODULE MCOwnedProcess ----------------------------
(* Small instances of OwnedProcess for TLC. *)
EXTENDS OwnedProcess

CONSTANTS stdin, stdout
MCStreams == {stdin, stdout}
MCOneStream == {stdin}
MCReasons == {"Cancelled", "TimedOut"}
MCOneReason == {"Cancelled"}
=============================================================================
