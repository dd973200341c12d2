------------------------------ MODULE MCBuscore ------------------------------
(* Three goroutines race on a LiveCount, and on the Close of a CloseOnce. *)
EXTENDS Buscore

MCCounts == 0..2
=============================================================================
