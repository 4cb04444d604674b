----------------------------- MODULE MCJobHelper -----------------------------
(* Small instances of JobHelper for TLC. *)
EXTENDS JobHelper

MCFewReasons == {"Cancelled", "ProtocolError"}
=============================================================================
