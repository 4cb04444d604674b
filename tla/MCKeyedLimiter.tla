---------------------------- MODULE MCKeyedLimiter ----------------------------
(* Small instances of KeyedLimiter for TLC. *)
EXTENDS KeyedLimiter, TLC

CONSTANTS j1, j2, j3, j4, k1

MCKeyOf == [j \in Jobs |-> k1]
MCLimit == [k \in Keys |-> 2]
=============================================================================
