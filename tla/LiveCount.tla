------------------------------ MODULE LiveCount ------------------------------
(***************************************************************************)
(* buscore.LiveCount, one atomic access of c.n per step, with any number   *)
(* of goroutines inside Sync and Poison at once: the type claims its poison*)
(* invariant without the bus lock.                                         *)
(***************************************************************************)
EXTENDS Integers

CONSTANTS Threads, Counts, None

ASSUME LiveCountAssumption ==
  Counts \subseteq Nat /\ 0 \in Counts /\ None \notin Int

poisoned == -1

VARIABLES n,     \* c.n
          pc,    \* where each goroutine is
          arg,   \* the argument of its Sync
          cur    \* what its Sync has loaded

vars == <<n, pc, arg, cur>>

TypeOK == /\ n \in Counts \cup {poisoned}
          /\ pc \in [Threads -> {"idle", "load", "cas"}]
          /\ arg \in [Threads -> Counts \cup {None}]
          /\ cur \in [Threads -> Counts \cup {None}]

Init == /\ n = 0
        /\ pc = [t \in Threads |-> "idle"]
        /\ arg = [t \in Threads |-> None]
        /\ cur = [t \in Threads |-> None]

Return(t) == /\ pc' = [pc EXCEPT ![t] = "idle"]
             /\ arg' = [arg EXCEPT ![t] = None]
             /\ cur' = [cur EXCEPT ![t] = None]

Sync(t, k) == /\ pc[t] = "idle"
              /\ pc' = [pc EXCEPT ![t] = "load"]
              /\ arg' = [arg EXCEPT ![t] = k]
              /\ UNCHANGED <<n, cur>>

(* Plausible bugs of Load: the poison is not tested, or tested and retried. *)
LoadUnchecked(t) == /\ pc[t] = "load"
                    /\ cur' = [cur EXCEPT ![t] = n]
                    /\ pc' = [pc EXCEPT ![t] = "cas"]
                    /\ UNCHANGED <<n, arg>>
LoadContinues(t) == n # poisoned /\ LoadUnchecked(t)

(* c.n.Load, and the return on the poison. *)
Load(t) ==
  /\ pc[t] = "load"
  /\ \/ n = poisoned /\ Return(t)
     \/ /\ n # poisoned
        /\ cur' = [cur EXCEPT ![t] = n]
        /\ pc' = [pc EXCEPT ![t] = "cas"]
        /\ UNCHANGED arg
  /\ UNCHANGED n

(* A plausible bug: the load-then-store the comment of Sync warns of. *)
Store(t) == pc[t] = "cas" /\ n' = arg[t] /\ Return(t)

(* c.n.CompareAndSwap: back to the load when the value has moved. *)
CompareAndSwap(t) ==
  /\ pc[t] = "cas"
  /\ \/ n = cur[t] /\ n' = arg[t] /\ Return(t)
     \/ /\ n # cur[t]
        /\ pc' = [pc EXCEPT ![t] = "load"]
        /\ UNCHANGED <<n, arg, cur>>

Poison(t) == pc[t] = "idle" /\ n' = poisoned /\ UNCHANGED <<pc, arg, cur>>

Next == \E t \in Threads : \/ \E k \in Counts : Sync(t, k)
                           \/ Load(t) \/ CompareAndSwap(t) \/ Poison(t)

Spec == Init /\ [][Next]_vars

Fairness == \A t \in Threads : WF_vars(Load(t) \/ CompareAndSwap(t))

FairSpec == Spec /\ Fairness

-----------------------------------------------------------------------------
Promise == INSTANCE CountSpec WITH Counts <- Counts, n <- n

(* Sync and Poison are atomic and the poison is never lifted, although a    *)
(* Poison may land between the load and the swap of any number of Syncs.    *)
ImplementsCountSpec == Promise!Spec

(* The retry loop of Sync ends once the poison has landed: a Sync that is   *)
(* racing the close of the bus returns.                                     *)
SyncEndsOnPoison == \A t \in Threads : (n = poisoned) ~> (pc[t] = "idle")
=============================================================================
