----------------------------- MODULE BoundedPool -----------------------------
(***************************************************************************)
(* What KeyedLimiter promises its callers, without state objects, promises *)
(* or microtasks: per key a pool of at most Limit[key] places, taken in    *)
(* order of arrival and passed on at once by whoever leaves.               *)
(***************************************************************************)
EXTENDS Naturals, Sequences, FiniteSets

CONSTANTS Jobs, Keys, KeyOf, Limit

VARIABLES
  fresh,     \* jobs that have not asked for a place
  waiting,   \* per key, the jobs in line
  holding    \* the jobs that have a place

vars == <<fresh, waiting, holding>>

Inside(key) == {j \in holding : KeyOf[j] = key}

TypeOK ==
  /\ fresh \subseteq Jobs /\ holding \subseteq Jobs
  /\ waiting \in [Keys -> Seq(Jobs)]

Init == fresh = Jobs /\ waiting = [key \in Keys |-> <<>>] /\ holding = {}

Refuse(j) == j \in fresh /\ fresh' = fresh \ {j} /\ UNCHANGED <<waiting, holding>>

Enter(j) ==
  /\ j \in fresh /\ fresh' = fresh \ {j}
  /\ waiting[KeyOf[j]] = <<>> /\ Cardinality(Inside(KeyOf[j])) < Limit[KeyOf[j]]
  /\ holding' = holding \cup {j}
  /\ UNCHANGED waiting

Queue(j) ==
  /\ j \in fresh /\ fresh' = fresh \ {j}
  /\ Cardinality(Inside(KeyOf[j])) = Limit[KeyOf[j]]
  /\ waiting' = [waiting EXCEPT ![KeyOf[j]] = Append(@, j)]
  /\ UNCHANGED holding

GiveUp(j) ==
  /\ \E i \in DOMAIN waiting[KeyOf[j]] :
       /\ waiting[KeyOf[j]][i] = j
       /\ waiting' = [waiting EXCEPT ![KeyOf[j]] =
                        SubSeq(@, 1, i - 1) \o SubSeq(@, i + 1, Len(@))]
  /\ UNCHANGED <<fresh, holding>>

(* The place goes to the first in line. *)
Leave(j) ==
  /\ j \in holding
  /\ IF waiting[KeyOf[j]] = <<>>
       THEN holding' = holding \ {j} /\ UNCHANGED waiting
       ELSE /\ holding' = (holding \ {j}) \cup {Head(waiting[KeyOf[j]])}
            /\ waiting' = [waiting EXCEPT ![KeyOf[j]] = Tail(@)]
  /\ UNCHANGED fresh

Next == \E j \in Jobs : Refuse(j) \/ Enter(j) \/ Queue(j) \/ GiveUp(j) \/ Leave(j)

Spec == Init /\ [][Next]_vars
FairSpec == Spec /\ \A j \in Jobs : WF_vars(Leave(j))
=============================================================================
