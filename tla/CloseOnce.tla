------------------------------ MODULE CloseOnce ------------------------------
(***************************************************************************)
(* buscore.CloseOnce: any number of goroutines race on Close, outside any  *)
(* mutex.  The swap of the flag and the close of the channel are steps of  *)
(* their own, so IsClosed may say yes before Done is ready.                *)
(***************************************************************************)
EXTENDS Integers, FiniteSets

CONSTANT Closers   \* goroutines that call Close

VARIABLES flag,    \* c.flag
          closes,  \* how often c.ch has been closed; a second time panics
          at       \* where each goroutine is

vars == <<flag, closes, at>>

Init == /\ flag = FALSE
        /\ closes = 0
        /\ at = [t \in Closers |-> "idle"]

(* A plausible bug: the flag is loaded, and nobody swaps it. *)
CompareAndSwapLoads(t) == /\ at[t] = "idle" /\ ~flag
                          /\ at' = [at EXCEPT ![t] = "won"]
                          /\ UNCHANGED <<flag, closes>>

(* c.flag.CompareAndSwap; the losers return FALSE and change nothing. *)
CompareAndSwap(t) == /\ at[t] = "idle" /\ ~flag
                     /\ flag' = TRUE
                     /\ at' = [at EXCEPT ![t] = "won"]
                     /\ UNCHANGED closes

(* close(c.ch), and the return of TRUE. *)
CloseChannel(t) == /\ at[t] = "won"
                   /\ closes' = closes + 1
                   /\ at' = [at EXCEPT ![t] = "idle"]
                   /\ UNCHANGED flag

Next == \E t \in Closers : CompareAndSwap(t) \/ CloseChannel(t)

Spec == Init /\ [][Next]_vars

-----------------------------------------------------------------------------
Winners == {t \in Closers : at[t] = "won"}

(* "The done channel is closed exactly once; concurrent callers safely race *)
(* on Close and only the winner performs the close": the channel is never   *)
(* closed a second time, and the flag is up from the moment somebody is on  *)
(* the way to closing it, so whoever finds Done ready finds IsClosed true.  *)
ClosedOnce == /\ closes \in {0, 1}
              /\ flag <=> closes = 1 \/ Winners # {}
              /\ closes = 1 => Winners = {}
              /\ \A t, u \in Winners : t = u
=============================================================================
