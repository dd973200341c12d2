---------------------------- MODULE BuscoreProofs ----------------------------
(***************************************************************************)
(* The lock-free count implements the atomic one, for any number of        *)
(* goroutines and any set of counts, and however many of them race on      *)
(* Close, a CloseOnce is closed once.                                      *)
(***************************************************************************)
EXTENDS Buscore, TLAPS

(* Which locals a goroutine inside Sync holds. *)
LocalsOK ==
  \A t \in Threads : /\ pc[t] \in {"load", "cas"} => arg[t] \in Counts
                     /\ pc[t] = "cas" => cur[t] \in Counts

Inv == TypeOK /\ LocalsOK

(* A live count that has only been made counts nobody.                      *)
LEMMA InitInv == Init => Inv
  BY LiveCountAssumption DEF Init, Inv, TypeOK, LocalsOK

(* Sync, Poison and the lock-free Zero preserve the exactness of the count. *)
LEMMA NextInv == Inv /\ [Next]_vars => Inv'
<1> SUFFICES ASSUME Inv, [Next]_vars PROVE Inv'
  OBVIOUS
<1> USE DEF Inv, TypeOK, LocalsOK
<1>1. ASSUME NEW t \in Threads, NEW k \in Counts, Sync(t, k) PROVE Inv'
  BY <1>1 DEF Sync
<1>2. ASSUME NEW t \in Threads, Load(t) PROVE Inv'
  <2>1. CASE Return(t)
    BY <1>2, <2>1 DEF Load, Return
  <2>2. CASE n # poisoned
    BY <1>2, <2>2 DEF Load, Return
  <2> QED BY <1>2, <2>1, <2>2 DEF Load
<1>3. ASSUME NEW t \in Threads, CompareAndSwap(t) PROVE Inv'
  BY <1>3 DEF CompareAndSwap, Return
<1>4. ASSUME NEW t \in Threads, Poison(t) PROVE Inv'
  BY <1>4 DEF Poison
<1>5. CASE UNCHANGED vars
  BY <1>5 DEF vars
<1> QED BY <1>1, <1>2, <1>3, <1>4, <1>5 DEF Next

(* Every atomic step of the code is a step of the promise or no step of it: *)
(* only a swap that finds what it loaded, which was no poison, sets n.      *)
LEMMA StepImplements == Inv /\ [Next]_vars => [Promise!Next]_n
<1> SUFFICES ASSUME Inv, [Next]_vars PROVE [Promise!Next]_n
  OBVIOUS
<1>1. ASSUME NEW t \in Threads, NEW k \in Counts, Sync(t, k) PROVE UNCHANGED n
  BY <1>1 DEF Sync
<1>2. ASSUME NEW t \in Threads, Load(t) PROVE UNCHANGED n
  BY <1>2 DEF Load
<1>3. ASSUME NEW t \in Threads, CompareAndSwap(t) PROVE [Promise!Next]_n
  <2>1. CASE n = cur[t] /\ n' = arg[t]
    <3>1. arg[t] \in Counts /\ cur[t] \in Counts
      BY <1>3 DEF CompareAndSwap, Inv, LocalsOK
    <3>2. n # Promise!poisoned
      BY <2>1, <3>1, LiveCountAssumption DEF Promise!poisoned
    <3>3. Promise!Sync(arg[t])
      BY <2>1, <3>2 DEF Promise!Sync
    <3> QED BY <3>1, <3>3 DEF Promise!Next
  <2>2. CASE UNCHANGED n
    BY <2>2
  <2> QED BY <1>3, <2>1, <2>2 DEF CompareAndSwap
<1>4. ASSUME NEW t \in Threads, Poison(t) PROVE Promise!Next
  BY <1>4 DEF Poison, Promise!Next, Promise!Poison, poisoned, Promise!poisoned
<1>5. CASE UNCHANGED vars
  BY <1>5 DEF vars
<1> QED BY <1>1, <1>2, <1>3, <1>4, <1>5 DEF Next

(* TypeOK: a Sync only ever holds a count, never the poison, as the value   *)
(* its compare-and-swap expects.                                            *)
THEOREM TypeCorrect == BuscoreSpec => []TypeOK
<1>1. Inv => TypeOK
  BY DEF Inv
<1>2. [BuscoreNext]_<<vars, onceVars>> => [Next]_vars
  BY DEF BuscoreNext
<1> QED BY <1>1, <1>2, InitInv, NextInv, PTL DEF BuscoreSpec, BuscoreInit

(* ImplementsCountSpec: with any number of goroutines in Sync and Poison at *)
(* once, both are atomic and the poison is never cleared.                   *)
THEOREM Refines == BuscoreSpec => ImplementsCountSpec
<1>1. Init => Promise!Init
  BY DEF Init, Promise!Init
<1>2. [BuscoreNext]_<<vars, onceVars>> => [Next]_vars
  BY DEF BuscoreNext
<1> QED BY <1>1, <1>2, InitInv, NextInv, StepImplements, PTL
        DEF BuscoreSpec, BuscoreInit, ImplementsCountSpec, Promise!Spec

(* The poison is permanent: a closed bus is never handed back to the send   *)
(* fast path.                                                               *)
THEOREM PoisonPermanent == BuscoreSpec => [][n = poisoned => n' = poisoned]_vars
<1>1. Inv /\ [Next]_vars => [n = poisoned => n' = poisoned]_vars
  <2> SUFFICES ASSUME Inv, [Next]_vars, n = poisoned PROVE n' = poisoned
    OBVIOUS
  <2>1. [Promise!Next]_n
    BY StepImplements
  <2> QED BY <2>1 DEF Promise!Next, Promise!Sync, Promise!Poison,
                      poisoned, Promise!poisoned
<1>2. [BuscoreNext]_<<vars, onceVars>> => [Next]_vars
  BY DEF BuscoreNext
<1> QED BY <1>1, <1>2, InitInv, NextInv, PTL DEF BuscoreSpec, BuscoreInit

-----------------------------------------------------------------------------
(* The CloseOnce. *)

OnceTypeOK == flag \in BOOLEAN /\ closes \in Nat /\ at \in [Threads -> {"idle", "won"}]

OnceInv == OnceTypeOK /\ ClosedOnce

(* Every step of Close keeps the types, the single winner and the single    *)
(* close of the channel.                                                    *)
LEMMA StepClosedOnce == ASSUME OnceInv, [Once!Next]_onceVars PROVE OnceInv'
<1> USE DEF OnceInv, OnceTypeOK, ClosedOnce, Once!ClosedOnce, Once!Winners
<1>1. ASSUME NEW t \in Threads, Once!CompareAndSwap(t) PROVE OnceInv'
  BY <1>1 DEF Once!CompareAndSwap
<1>2. ASSUME NEW t \in Threads, Once!CloseChannel(t) PROVE OnceInv'
  BY <1>2 DEF Once!CloseChannel
<1>3. CASE UNCHANGED onceVars
  BY <1>3 DEF onceVars
<1> QED BY <1>1, <1>2, <1>3 DEF Once!Next

(* Nobody has closed what has only been made.                               *)
LEMMA InitClosedOnce == Once!Init => OnceInv
<1>1. Once!Init => OnceTypeOK
  <2>1. Once!Init => at \in [Threads -> {"idle", "won"}]
    BY DEF Once!Init
  <2>2. Once!Init => closes \in Nat /\ flag = FALSE
    BY DEF Once!Init
  <2> QED BY <2>1, <2>2, Zenon DEF OnceTypeOK
<1>2. Once!Init => Once!Winners = {}
  BY DEF Once!Init, Once!Winners
<1>3. Once!Init /\ Once!Winners = {} => ClosedOnce
  BY DEF Once!Init, ClosedOnce, Once!ClosedOnce
<1> QED BY <1>1, <1>2, <1>3 DEF OnceInv

(* ClosedOnce: a CloseOnce closes its channel at most once, whoever races   *)
(* on Close, and no reader finds Done ready before IsClosed.                *)
THEOREM ClosesOnce == BuscoreSpec => []ClosedOnce
<1>1. OnceInv => ClosedOnce
  BY DEF OnceInv
<1>2. [BuscoreNext]_<<vars, onceVars>> => [Once!Next]_onceVars
  BY DEF BuscoreNext
<1> QED BY <1>1, <1>2, InitClosedOnce, StepClosedOnce, PTL DEF BuscoreSpec, BuscoreInit
=============================================================================
