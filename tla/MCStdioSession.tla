--------------------------- MODULE MCStdioSession ---------------------------
(* Small instances of StdioSession: one pool of one slot. *)
EXTENDS StdioSession, TLC

CONSTANTS d1, d2, v1, v2, pool
MCKeyOf == [q \in Requests |-> pool]
MCLimit == [k \in Keys |-> 1]
MCDelegates == {d1, d2} \cap Requests
=============================================================================
