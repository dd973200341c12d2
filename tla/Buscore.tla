------------------------------- MODULE Buscore -------------------------------
(***************************************************************************)
(* internal/buscore: its two primitives side by side.  They share no       *)
(* state, so a step of the package is a step of one of them.               *)
(***************************************************************************)
EXTENDS LiveCount

VARIABLES flag, closes, at   \* the CloseOnce

onceVars == <<flag, closes, at>>

Once == INSTANCE CloseOnce WITH Closers <- Threads

BuscoreInit == Init /\ Once!Init

BuscoreNext == \/ Next /\ UNCHANGED onceVars
               \/ Once!Next /\ UNCHANGED vars

BuscoreSpec == BuscoreInit /\ [][BuscoreNext]_<<vars, onceVars>>
BuscoreFairSpec == BuscoreSpec /\ Fairness

(* See CloseOnce: one winner, one close of the channel, and the flag first. *)
ClosedOnce == Once!ClosedOnce
=============================================================================
