------------------------------ MODULE Scheduler ------------------------------
(***************************************************************************)
(* The program the watch bus is made for (watch/examples): a scheduler     *)
(* changes the state of jobs under a lock of its own, stamps each change   *)
(* with a sequence number there, and publishes it after the lock is        *)
(* released, so that changes reach the bus in any order.  A subscriber     *)
(* reads the state and registers, with what it read as the baseline, in    *)
(* one critical section of that lock.                                      *)
(*                                                                         *)
(* A state is its sequence number; 0 is the zero value of a job that has   *)
(* never changed.  The bus below is Watch, with all its steps.             *)
(***************************************************************************)
EXTENDS Watch

CONSTANT MaxSeq   \* bound: the number of changes

ASSUME SchedulerAssumption ==
  /\ MaxSeq \in Nat
  /\ Values = 0..MaxSeq
  /\ Publications = Keys \X (1..MaxSeq)

VARIABLES
  lock,    \* scheduler.mu: who holds it, or None
  seq,     \* scheduler.seq
  state,   \* scheduler.state
  owed,    \* the changes committed and not yet handed to Send
  seed     \* what a subscriber has read and started from, by receiver

schedVars == <<lock, seq, state, owed, seed>>

SchedInit ==
  /\ Init
  /\ lock = None /\ seq = 0
  /\ state = [k \in Keys |-> 0]
  /\ owed = {}
  /\ seed = [rx \in Receivers |-> None]

-----------------------------------------------------------------------------
(* Producers. *)

(* A plausible bug: a change is made without the lock. *)
CommitUnlocked(c, k) ==
  /\ Idle(c, "Send")
  /\ ~txClosed /\ seq < MaxSeq
  /\ seq' = seq + 1
  /\ state' = [state EXCEPT ![k] = seq + 1]
  /\ owed' = owed \cup {<<k, seq + 1>>}
  /\ UNCHANGED <<lock, seed, vars>>

(* commit, in one critical section.  The changes are over when main closes  *)
(* the sender.                                                              *)
Commit(c, k) ==
  /\ Idle(c, "Send") /\ lock = None
  /\ ~txClosed /\ seq < MaxSeq
  /\ seq' = seq + 1
  /\ state' = [state EXCEPT ![k] = seq + 1]
  /\ owed' = owed \cup {<<k, seq + 1>>}
  /\ UNCHANGED <<lock, seed, vars>>

(* publish, in any order and by any goroutine. *)
Publish(c) ==
  \E pub \in owed :
    /\ CallSend(c, pub, "none")
    /\ owed' = owed \ {pub}
    /\ UNCHANGED <<lock, seq, state, seed>>

-----------------------------------------------------------------------------
(* Subscribers. *)

(* watchJob takes the lock and reads the state of job k ... *)
ReadState(c, rx, k) ==
  /\ Idle(c, "Watch") /\ lock = None
  /\ rx \notin minted /\ seed[rx] = None
  /\ lock' = c
  /\ seed' = [seed EXCEPT ![rx] = <<k, state[k]>>]
  /\ UNCHANGED <<seq, state, owed, vars>>

(* ... and registers before it lets go of the lock. *)
WatchJob(c, rx) ==
  /\ lock = c
  /\ seed[rx] # None
  /\ Watch(c, rx, seed[rx][1], seed[rx][2])
  /\ lock' = None
  /\ UNCHANGED <<seq, state, owed, seed>>

(* A subscriber reads its channel or calls Recv, and closes its handle when *)
(* the stream has ended or when it wants to stop.                           *)
Subscribe(c) ==
  \/ \E rx \in Receivers, k \in Keys : ReadState(c, rx, k)
  \/ \E rx \in Receivers : WatchJob(c, rx)
  \/ /\ \E rx \in Receivers :
          CallRecv(c, rx, "none") \/ Chan(c, rx) \/ CloseReceiver(c, rx)
     /\ UNCHANGED schedVars

-----------------------------------------------------------------------------
(* The end of main. *)

Unsent == owed \cup {msg[c] : c \in {d \in Clients : pc[d] = "sendLock"}}

(* The sender is closed once every change has been published, and the hub,  *)
(* as a backstop, once every subscriber is done.                            *)
Shutdown(c) ==
  /\ \/ Unsent = {} /\ CloseSender(c)
     \/ txClosed /\ (\A rx \in minted : done[rx]) /\ CloseHub(c)
  /\ UNCHANGED schedVars

-----------------------------------------------------------------------------
(* The consumer of the channel of rx, at the receive of its loop; the other *)
(* case of its select leads to the deferred Close, which is Subscribe's.    *)
Consume(rx) == ChanReceive(rx) /\ UNCHANGED schedVars

(* The goroutines inside the bus. *)
BusStep ==
  /\ \/ \E c \in Clients : ClientStep(c)
     \/ \E rx \in Receivers : FeederStep(rx)
  /\ UNCHANGED schedVars

SchedNext ==
  \/ \E c \in Clients : \/ \E k \in Keys : Commit(c, k)
                        \/ Publish(c) \/ Subscribe(c) \/ Shutdown(c)
  \/ \E rx \in Receivers : Consume(rx)
  \/ BusStep

SchedSpec == SchedInit /\ [][SchedNext]_<<vars, schedVars>>

-----------------------------------------------------------------------------
(* What the example's comments promise of the whole program. *)

Published(k) == \A pub \in Unsent : pub[1] # k

(* "The value a subscriber ends on is the value that was true last, not the *)
(* one that happened to win the race for the bus lock", and "nothing        *)
(* published in between is lost": once no change of a job is on its way,    *)
(* every open handle on it holds the state under the scheduler's lock,      *)
(* whichever sends overtook each other and whenever it was registered.      *)
SlotHoldsTruth ==
  \A rx \in minted :
    ~done[rx] /\ Published(key[rx]) => val[rx] = state[key[rx]]

(* What the subscriber knows: the newest value it was handed, or its seed.  *)
View(rx) == IF handed[rx] = <<>> THEN seed[rx][2] ELSE Last(handed[rx]).val

(* A stream that ends by the soft close ends on the truth: whoever has read *)
(* it to ErrClosed or to the end of the range knows the final state of the  *)
(* job, from the last value handed over or from the baseline alone.         *)
EndsOnTruth ==
  \A rx \in minted \ receivers :
    ~done[rx] => View(rx) = state[key[rx]]
=============================================================================
