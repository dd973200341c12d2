------------------------------ MODULE CountSpec ------------------------------
(***************************************************************************)
(* What buscore.LiveCount promises: a number that anyone may set to a      *)
(* count, until it is poisoned; the poison is never lifted.                *)
(***************************************************************************)
EXTENDS Integers

CONSTANT Counts   \* the map lengths a bus may report

VARIABLE n

poisoned == -1

TypeOK == n \in Counts \cup {poisoned}

Init == n = 0

Sync(k) == n # poisoned /\ n' = k
Poison == n' = poisoned

Next == (\E k \in Counts : Sync(k)) \/ Poison

Spec == Init /\ [][Next]_n
=============================================================================
