--------------------------------- MODULE Bus ---------------------------------
(***************************************************************************)
(* What the two buses have in common: the state of a hub, of the handles   *)
(* and of the goroutines, how a call begins and returns, the live count,   *)
(* the notify channel with its waiter count, and the properties of these.  *)
(*                                                                         *)
(* Goroutines are the Clients, which call the API, and one Chan feeder per *)
(* receiver, named by the receiver it serves.  Closing and replacing       *)
(* rx.notify wakes exactly those parked on the old channel, so the channel *)
(* is the set of goroutines asleep on it.                                  *)
(***************************************************************************)
EXTENDS Integers, SequencesExt

CONSTANTS
  Clients,     \* goroutines that call the API
  Receivers,   \* the handles the hub may mint
  None,        \* no client, no receiver, no event
  May,         \* the API calls each client makes
  Mixes        \* whether a receiver is read directly and through Chan

ASSUME BusAssumption ==
  /\ IsFiniteSet(Receivers) /\ IsFiniteSet(Clients)
  /\ Clients \cap Receivers = {}
  /\ None \notin Clients \cup Receivers
  /\ May \in [Clients -> SUBSET STRING]
  /\ Mixes \in BOOLEAN

Procs == Clients \cup Receivers

Poisoned == -1

VARIABLES
  txClosed, hubClosed,    \* shared.txClosed, shared.hubClosed
  receivers,              \* shared.receivers
  live,                   \* shared.live, the lock-free count
  mu,                     \* the client inside Hub.Close, or None
  minted,                 \* handles handed out
  done,                   \* Receiver.done
  waiters, asleep,        \* Receiver.waiters; who is parked on rx.notify
  parked,                 \* the local flag parked of recvLoop and feed
  pc,                     \* where each client and each feeder is
  tgt, msg, ctx,          \* a client's receiver, message and context
  ret                     \* what a client's last call returned

hubVars    == <<txClosed, hubClosed, receivers, live, mu>>
callVars   == <<tgt, msg, ctx, ret>>
wakeVars   == <<waiters, asleep, parked>>

Contexts == {"none", "live", "cancelled"}   \* none is a nil Done channel

Result(err, evs) == [err |-> err, evs |-> evs]
Ok == Result("nil", <<>>)

-----------------------------------------------------------------------------
(* Calls and returns. *)

Goto(p, l) == pc' = [pc EXCEPT ![p] = l]

Idle(c, op) == pc[c] = "idle" /\ op \in May[c]

(* c enters a call that will need the mutex; x is its context.  Calling     *)
(* forgets what the call before returned.                                   *)
Enter(c, l, rx, ev, x) ==
  /\ Goto(c, l)
  /\ tgt' = [tgt EXCEPT ![c] = rx]
  /\ msg' = [msg EXCEPT ![c] = ev]
  /\ ctx' = [ctx EXCEPT ![c] = x]
  /\ ret' = [ret EXCEPT ![c] = Ok]

(* c's call returns r; its locals die with the call. *)
Return(c, r) ==
  /\ Goto(c, "idle")
  /\ ret' = [ret EXCEPT ![c] = r]
  /\ tgt' = [tgt EXCEPT ![c] = None]
  /\ msg' = [msg EXCEPT ![c] = None]
  /\ ctx' = [ctx EXCEPT ![c] = "none"]

(* A program that keeps to Chan's doc does not read rx directly once its    *)
(* channel is read.                                                         *)
MayRead(rx) == Mixes \/ pc[rx] = "feedNone"
MayRange(rx) == Mixes \/ \A c \in Clients : tgt[c] # rx

-----------------------------------------------------------------------------
(* The live count. *)

(* A plausible bug of Sync: the plain store its comment warns of. *)
SyncPlainStore(n) == n

(* LiveCount.Sync: refreshes the count, but never lifts the poison. *)
Sync(n) == IF live = Poisoned THEN Poisoned ELSE n

-----------------------------------------------------------------------------
(* Parking and waking. *)

(* A plausible bug: a wake-up is sent to one parked goroutine, not to all. *)
SignalledOne(rx) == IF waiters[rx] = 0 \/ asleep[rx] = {} THEN asleep[rx]
                    ELSE asleep[rx] \ {CHOOSE p \in asleep[rx] : TRUE}

(* signalLocked, as the new value of asleep[rx]: everyone parked on the    *)
(* current notify channel wakes, unless the waiter count says there is     *)
(* nobody.                                                                 *)
Signalled(rx) == IF waiters[rx] = 0 THEN asleep[rx] ELSE {}

(* A plausible bug: the count is not taken back under the mutex. *)
WaitersKept(p, rx) == waiters[rx]

(* The waiter count after goroutine p has taken the mutex: p leaves it if  *)
(* it was parked.                                                          *)
WaitersLess(p, rx) == IF parked[p] THEN waiters[rx] - 1 ELSE waiters[rx]

(* p is back under the mutex and does not park again. *)
Unpark(p, rx) ==
  /\ waiters' = [waiters EXCEPT ![rx] = WaitersLess(p, rx)]
  /\ parked' = [parked EXCEPT ![p] = FALSE]

(* A plausible bug: the goroutine parks without being counted. *)
ParkUncounted(p, rx) ==
  /\ waiters' = [waiters EXCEPT ![rx] = WaitersLess(p, rx)]
  /\ parked' = [parked EXCEPT ![p] = TRUE]
  /\ asleep' = [asleep EXCEPT ![rx] = @ \cup {p}]

(* p parks, counted, on the current notify channel of rx. *)
Park(p, rx) ==
  /\ waiters' = [waiters EXCEPT ![rx] = WaitersLess(p, rx) + 1]
  /\ parked' = [parked EXCEPT ![p] = TRUE]
  /\ asleep' = [asleep EXCEPT ![rx] = @ \cup {p}]

-----------------------------------------------------------------------------
(* What a caller sees of all this, in the terms of BusContract. *)

TxOf == IF txClosed THEN "closed" ELSE "open"

HandleOf == [rx \in Receivers |-> CASE rx \notin minted -> "unborn"
                                   [] rx \in minted /\ done[rx] -> "closed"
                                   [] rx \in minted /\ ~done[rx] -> "open"]

ChannelOf ==
  [rx \in Receivers |->
     CASE pc[rx] = "feedNone" -> "none"
       [] pc[rx] = "feedExited" -> "closed"
       [] pc[rx] \notin {"feedNone", "feedExited"} -> "open"]

(* The call that each point inside one belongs to.  A send that waits at    *)
(* sendCtx has found nobody to send to.                                     *)
OpAt == [sendLock      |-> "Send",    sendCtx     |-> "SendNothing",
         recvLock      |-> "Recv",    recvPark    |-> "Recv",
         recvDefer     |-> "Recv",    tryRecvLock |-> "TryRecv",
         tryRecvAllLock |-> "TryRecvAll", peekLock |-> "Peek"]

Sends(c) == pc[c] \in {"sendCtx", "sendLock"}
Offers(rx) == pc[rx] = "feedDeliver"

(* The call c is in, sending under key k if it is a send. *)
CallOf(c, k) ==
  [op  |-> IF pc[c] \in DOMAIN OpAt THEN OpAt[pc[c]] ELSE "none",
   rx  |-> tgt[c], key |-> k, ctx |-> ctx[c]]

AnswerOf == [c \in Clients |-> [err  |-> ret[c].err,
                                keys |-> {e.key : e \in Range(ret[c].evs)}]]

-----------------------------------------------------------------------------
(* Properties of the common state. *)

(* The gate of the send fast path: live is the number of registered         *)
(* receivers while the send side is open, and the poison once it is closed. *)
(* A zero therefore means that nobody is registered and that no send is     *)
(* owed ErrClosed, and no order of registrations, closes and terminal reads *)
(* breaks that.                                                             *)
LiveExact == live = IF txClosed THEN Poisoned ELSE Cardinality(receivers)

Reads(p, rx) == IF p \in Clients THEN tgt[p] = rx ELSE p = rx

(* The waiter count is the number of goroutines that have parked on rx and  *)
(* have not been back under the mutex since, through every wake-up, early   *)
(* return and deferred decrement of any number of concurrent readers.       *)
WaitersExact ==
  \A rx \in Receivers :
    waiters[rx] = Cardinality({p \in Procs : parked[p] /\ Reads(p, rx)})

(* Once Hub.Close has returned, every feeder that offers an event has been  *)
(* told to give it up: "the sender and every live receiver are closed       *)
(* immediately" (Hub.Close in both packages).  A feeder that offers an      *)
(* event serves a receiver whose channel is still open.                     *)
HubCloseReachesEveryFeeder ==
  hubClosed /\ mu = None =>
    \A rx \in Receivers : pc[rx] = "feedDeliver" => done[rx]

(* A parked Recv or RecvContext whose receiver, sender or context is closed *)
(* or cancelled returns.                                                    *)
ReaderReleased ==
  \A c \in Clients, rx \in Receivers :
    (pc[c] = "recvPark" /\ tgt[c] = rx
       /\ (done[rx] \/ txClosed \/ ctx[c] = "cancelled"))
      ~> pc[c] = "idle"

(* Closing a receiver ends its feeder, wherever it is: parked, holding an   *)
(* event nobody takes, or between two steps.  No goroutine leaks.           *)
CloseEndsFeeder ==
  \A rx \in Receivers :
    (done[rx] /\ pc[rx] # "feedNone") ~> pc[rx] = "feedExited"

(* Hub.Close ends every feeder, also one whose consumer has gone away.      *)
HubCloseEndsFeeders ==
  \A rx \in Receivers :
    (hubClosed /\ pc[rx] # "feedNone") ~> pc[rx] = "feedExited"
=============================================================================
