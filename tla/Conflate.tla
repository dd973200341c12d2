------------------------------- MODULE Conflate -------------------------------
(***************************************************************************)
(* The conflate bus (conflate/conflate.go): a hub, its sender, receivers   *)
(* that each keep a ConflateQueue, the goroutines that call the API        *)
(* (Clients) and one Chan feeder goroutine per receiver, which is named by *)
(* the receiver it serves.                                                 *)
(*                                                                         *)
(* Everything under the hub mutex is one step, except Hub.Close, whose     *)
(* closes of the receivers' done channels are visible to lock-free readers *)
(* one by one; mu names the goroutine inside it.  The lock-free steps are  *)
(* steps of their own: the live-count load of a send, the ctx probe after  *)
(* it, the done probes, the selects.  A probe that opens a call is one     *)
(* step with the call, and one that follows a wake-up is one step with the *)
(* wake-up: nothing shared changes in between.                             *)
(***************************************************************************)
EXTENDS Bus, ConflateQueue

CONSTANTS
  Policies,    \* names of merges
  MergeOf,     \* the merge a name stands for
  HubPolicy,   \* the hub-wide merge, from WithDefaultMerge or latest
  Filters      \* key filters: WithKey, WithKeyFilter, or every key

(* keep(k) takes the key, rejects it, or panics. *)
Verdicts == {"take", "skip", "panic"}

ASSUME ConflateAssumption ==
  /\ None \notin Policies \cup Keys
  /\ MergeOf \in [Policies -> Merges]
  /\ HubPolicy \in Policies
  /\ Filters \subseteq [Keys -> Verdicts]

VARIABLES
  keep, merge,   \* a receiver's own options
  q,             \* Receiver.order, elems and pending
  hand           \* the event a feeder has popped and not delivered

handleVars == <<minted, keep, merge>>
vars == <<hubVars, handleVars, done, q, wakeVars, pc, callVars, hand>>

ClientPCs == {"idle", "sendCtx", "sendLock", "recvLock", "recvPark",
              "recvDefer", "tryRecvLock", "tryRecvAllLock", "peekLock",
              "hubClosing"}
FeederPCs == {"feedNone", "feedProbe", "feedLock", "feedDeliver", "feedPark",
              "feedDefer", "feedExited"}
Events == [key : Keys, val : Values]

Results == [err : {"nil", "ErrClosed", "ErrEmpty", "ctx.Err", "panic"},
            evs : Seq(Events)]

TypeOK ==
  /\ txClosed \in BOOLEAN /\ hubClosed \in BOOLEAN
  /\ receivers \subseteq minted
  /\ live \in Nat \cup {Poisoned}
  /\ mu \in Clients \cup {None}
  /\ minted \subseteq Receivers
  /\ keep \in [Receivers -> Filters \cup {None}]
  /\ merge \in [Receivers -> Policies \cup {None}]
  /\ done \in [Receivers -> BOOLEAN]
  /\ q \in [Receivers -> Queues]
  /\ waiters \in [Receivers -> Int]
  /\ asleep \in [Receivers -> SUBSET Procs]
  /\ parked \in [Procs -> BOOLEAN]
  /\ pc \in [Procs -> ClientPCs \cup FeederPCs]
  /\ tgt \in [Clients -> Receivers \cup {None}]
  /\ msg \in [Clients -> Events \cup {None}]
  /\ ctx \in [Clients -> Contexts]
  /\ ret \in [Clients -> Results]
  /\ hand \in [Receivers -> Events \cup {None}]

Init ==
  /\ txClosed = FALSE /\ hubClosed = FALSE
  /\ receivers = {} /\ live = 0 /\ mu = None
  /\ minted = {}
  /\ keep = [rx \in Receivers |-> None]
  /\ merge = [rx \in Receivers |-> None]
  /\ done = [rx \in Receivers |-> FALSE]
  /\ q = [rx \in Receivers |-> EmptyQueue]
  /\ waiters = [rx \in Receivers |-> 0]
  /\ asleep = [rx \in Receivers |-> {}]
  /\ parked = [p \in Procs |-> FALSE]
  /\ pc = [p \in Procs |-> IF p \in Clients THEN "idle" ELSE "feedNone"]
  /\ tgt = [c \in Clients |-> None]
  /\ msg = [c \in Clients |-> None]
  /\ ctx = [c \in Clients |-> "none"]
  /\ ret = [c \in Clients |-> Ok]
  /\ hand = [rx \in Receivers |-> None]

-----------------------------------------------------------------------------
(* The context of a call in progress is cancelled, at any moment. *)
Cancel(c) ==
  /\ ctx[c] = "live"
  /\ ctx' = [ctx EXCEPT ![c] = "cancelled"]
  /\ UNCHANGED <<hubVars, handleVars, done, q, wakeVars, pc, tgt, msg, ret,
                 hand>>

-----------------------------------------------------------------------------
(* Registration. *)

Register(rx) == /\ receivers' = receivers \cup {rx}
                /\ live' = Sync(Cardinality(receivers'))

Deregister(rx) == /\ receivers' = receivers \ {rx}
                  /\ live' = Sync(Cardinality(receivers'))

(* Hub.Receiver with a key filter f and its own merge m, or None; to name   *)
(* the hub's own merge is to name none.                                     *)
OwnMerges == (Policies \ {HubPolicy}) \cup {None}
NewReceiver(c, rx, f, m) ==
  /\ Idle(c, "Receiver") /\ mu = None
  /\ rx \notin minted
  /\ minted' = minted \cup {rx}
  /\ keep' = [keep EXCEPT ![rx] = f]
  /\ merge' = [merge EXCEPT ![rx] = m]
  /\ \/ /\ hubClosed
        /\ done' = [done EXCEPT ![rx] = TRUE]
        /\ UNCHANGED <<receivers, live>>
     \/ /\ ~hubClosed
        /\ Register(rx)
        /\ UNCHANGED done
  /\ UNCHANGED <<txClosed, hubClosed, mu, q, wakeVars, pc, callVars, hand>>

-----------------------------------------------------------------------------
(* The send side. *)

PolicyOf(rx) == MergeOf[IF merge[rx] = None THEN HubPolicy ELSE merge[rx]]

Takes(rx, k) == keep[rx][k] = "take"

Fails(rx, k, v) == \/ keep[rx][k] = "panic"
                   \/ Takes(rx, k) /\ MergePanics(q[rx], k, v, PolicyOf(rx))

(* A plausible bug: the value is enqueued and nobody is told. *)
FanOutNoSignal(R, k, v) ==
  /\ q' = [rx \in Receivers |->
             IF rx \in R /\ Takes(rx, k) THEN Enqueue(q[rx], k, v, PolicyOf(rx))
             ELSE q[rx]]
  /\ UNCHANGED asleep

(* enqueueLocked, then signalLocked, on every receiver of R that takes k. *)
FanOut(R, k, v) ==
  LET hit == {rx \in R : Takes(rx, k)} IN
  /\ q' = [rx \in Receivers |->
             IF rx \in hit THEN Enqueue(q[rx], k, v, PolicyOf(rx)) ELSE q[rx]]
  /\ asleep' = [rx \in Receivers |->
                  IF rx \in hit THEN Signalled(rx) ELSE asleep[rx]]

(* Send, TrySend and SendContext up to the mutex: a live count of zero      *)
(* answers nil at once, unless there is a context still to be consulted.   *)
CallSend(c, k, v, x) ==
  /\ Idle(c, IF x = "none" THEN "Send" ELSE "SendContext")
  /\ \/ live # 0 /\ Enter(c, "sendLock", None, Event(k, v), x)
     \/ live = 0 /\ x = "none" /\ Return(c, Ok)
     \/ live = 0 /\ x # "none" /\ Enter(c, "sendCtx", None, Event(k, v), x)
  /\ UNCHANGED <<hubVars, handleVars, done, q, wakeVars, hand>>

(* SendContext, having loaded a zero count, selects on the context: live   *)
(* answers nil, cancelled falls through to the mutex.                      *)
SendCtx(c) ==
  /\ pc[c] = "sendCtx"
  /\ \/ ctx[c] # "cancelled" /\ Return(c, Ok)
     \/ ctx[c] = "cancelled" /\ Goto(c, "sendLock") /\ UNCHANGED callVars
  /\ UNCHANGED <<hubVars, handleVars, done, q, wakeVars, hand>>

(* A plausible bug of sendLocked: cancellation is tested, closedness not. *)
SendRefusedCtxOnly(c) == IF ctx[c] = "cancelled" THEN "ctx.Err" ELSE "nil"

(* The error sendLocked answers before any fan-out: closed > cancelled. *)
SendRefused(c) == IF txClosed THEN "ErrClosed"
                  ELSE IF ctx[c] = "cancelled" THEN "ctx.Err" ELSE "nil"

(* sendLocked.  If the merge or the filter of some receivers panics, the   *)
(* range over the map has reached an arbitrary set of the others before    *)
(* one of them, and the deferred unlock still runs.                        *)
SendLocked(c) ==
  /\ pc[c] = "sendLock" /\ mu = None
  /\ \/ /\ SendRefused(c) # "nil"
        /\ Return(c, Result(SendRefused(c), <<>>))
        /\ UNCHANGED <<q, asleep>>
     \/ /\ SendRefused(c) = "nil"
        /\ LET k == msg[c].key
               v == msg[c].val
               bad == {rx \in receivers : Fails(rx, k, v)}
           IN  \/ bad = {} /\ FanOut(receivers, k, v) /\ Return(c, Ok)
               \/ /\ bad # {}
                  /\ \E R \in SUBSET (receivers \ bad) : FanOut(R, k, v)
                  /\ Return(c, Result("panic", <<>>))
  /\ UNCHANGED <<hubVars, handleVars, done, waiters, parked, hand>>

(* A plausible bug of Sender.Close: parked receivers are not woken. *)
CloseSenderNoSignal(c) ==
  /\ Idle(c, "CloseSender") /\ mu = None
  /\ ~txClosed
  /\ txClosed' = TRUE
  /\ live' = Poisoned
  /\ UNCHANGED <<hubClosed, receivers, mu, handleVars, done, q, wakeVars, pc,
                 callVars, hand>>

(* Sender.Close; a second call does nothing. *)
CloseSender(c) ==
  /\ Idle(c, "CloseSender") /\ mu = None
  /\ ~txClosed
  /\ txClosed' = TRUE
  /\ live' = Poisoned
  /\ asleep' = [rx \in Receivers |->
                  IF rx \in receivers THEN Signalled(rx) ELSE asleep[rx]]
  /\ UNCHANGED <<hubClosed, receivers, mu, handleVars, done, q, waiters,
                 parked, pc, callVars, hand>>

-----------------------------------------------------------------------------
(* Hub.Close and Receiver.Close. *)

(* Hub.Close takes the mutex, unless the hub is closed already. *)
CloseHub(c) ==
  /\ Idle(c, "CloseHub") /\ mu = None
  /\ ~hubClosed
  /\ hubClosed' = TRUE /\ txClosed' = TRUE
  /\ live' = Poisoned
  /\ mu' = c
  /\ Goto(c, "hubClosing")
  /\ UNCHANGED <<receivers, handleVars, done, q, wakeVars, callVars, hand>>

(* Its loop closes the receivers in map order, each visible at once ... *)
CloseHubDone(c, rx) ==
  /\ pc[c] = "hubClosing"
  /\ rx \in receivers /\ ~done[rx]
  /\ done' = [done EXCEPT ![rx] = TRUE]
  /\ UNCHANGED <<hubVars, handleVars, q, wakeVars, pc, callVars, hand>>

(* ... and it drops the map and the mutex when all are. *)
CloseHubEnd(c) ==
  /\ pc[c] = "hubClosing"
  /\ \A rx \in receivers : done[rx]
  /\ receivers' = {}
  /\ mu' = None
  /\ Goto(c, "idle")
  /\ UNCHANGED <<txClosed, hubClosed, live, handleVars, done, q, wakeVars,
                 callVars, hand>>

CloseReceiver(c, rx) ==
  /\ Idle(c, "CloseReceiver") /\ mu = None
  /\ rx \in minted
  /\ done' = [done EXCEPT ![rx] = TRUE]
  /\ Deregister(rx)
  /\ UNCHANGED <<txClosed, hubClosed, mu, handleVars, q, wakeVars, pc,
                 callVars, hand>>

-----------------------------------------------------------------------------
(* The ordered run every receive path makes under the mutex. *)

(* A plausible bug: done is not looked at again under the mutex. *)
ClosedNoRecheck(rx) == FALSE

Closed(rx) == done[rx]
Drained(rx) == txClosed /\ q[rx].order = <<>>
Cancelled(rx, x) == x = "cancelled"

(* A plausible bug: the context is looked at after the pop. *)
VerdictValueFirst(rx, x) == CASE Closed(rx) -> "closed"
                              [] ~Closed(rx) /\ q[rx].order # <<>> -> "value"
                              [] ~Closed(rx) /\ Drained(rx) -> "drained"
                              [] OTHER -> IF Cancelled(rx, x) THEN "cancelled"
                                          ELSE "empty"

(* closed > cancelled > value *)
Verdict(rx, x) == CASE Closed(rx) -> "closed"
                    [] ~Closed(rx) /\ Drained(rx) -> "drained"
                    [] ~Closed(rx) /\ ~Drained(rx) /\ Cancelled(rx, x) ->
                         "cancelled"
                    [] OTHER -> IF q[rx].order # <<>> THEN "value" ELSE "empty"

(* A plausible bug: a closed sender is enough to deregister. *)
TearDownEarly(rx, verdict) ==
  \/ txClosed /\ Deregister(rx)
  \/ ~txClosed /\ UNCHANGED <<receivers, live>>

(* The drained verdict deregisters, under the lock that decided it. *)
TearDown(rx, verdict) ==
  \/ verdict = "drained" /\ Deregister(rx)
  \/ verdict # "drained" /\ UNCHANGED <<receivers, live>>

-----------------------------------------------------------------------------
(* Recv and RecvContext. *)

CallRecv(c, rx, x) ==
  /\ Idle(c, IF x = "none" THEN "Recv" ELSE "RecvContext")
  /\ rx \in minted /\ MayRead(rx)
  /\ \/ done[rx] /\ Return(c, Result("ErrClosed", <<>>))
     \/ ~done[rx] /\ Enter(c, "recvLock", rx, None, x)
  /\ UNCHANGED <<hubVars, handleVars, done, q, wakeVars, hand>>

RecvAnswer(rx, verdict) ==
  CASE verdict \in {"closed", "drained"} -> Result("ErrClosed", <<>>)
    [] verdict = "cancelled" -> Result("ctx.Err", <<>>)
    [] verdict = "value" -> Result("nil", <<HeadEvent(q[rx])>>)

(* The body of recvLoop under the mutex answers ... *)
RecvLocked(c) ==
  LET rx == tgt[c]
      verdict == Verdict(rx, ctx[c])
  IN  /\ pc[c] = "recvLock" /\ mu = None
      /\ verdict # "empty"
      /\ Unpark(c, rx)
      /\ TearDown(rx, verdict)
      /\ q' = IF verdict = "value" THEN [q EXCEPT ![rx] = Popped(@)] ELSE q
      /\ Return(c, RecvAnswer(rx, verdict))
      /\ UNCHANGED <<txClosed, hubClosed, mu, handleVars, done, asleep, hand>>

(* ... or, with nothing to answer, parks on the current notify channel. *)
RecvPark(c) ==
  /\ pc[c] = "recvLock" /\ mu = None
  /\ Verdict(tgt[c], ctx[c]) = "empty"
  /\ Park(c, tgt[c])
  /\ Goto(c, "recvPark")
  /\ UNCHANGED <<hubVars, handleVars, done, q, callVars, hand>>

(* A plausible bug: the parked reader listens to notify alone. *)
RecvWakeNotifyOnly(c) ==
  /\ pc[c] = "recvPark" /\ c \notin asleep[tgt[c]]
  /\ Goto(c, IF done[tgt[c]] THEN "recvDefer" ELSE "recvLock")
  /\ UNCHANGED <<hubVars, handleVars, done, q, wakeVars, callVars, hand>>

(* Any ready arm of the select sends the reader back to the top, where a   *)
(* closed handle is answered before the mutex.                             *)
RecvWake(c) ==
  LET rx == tgt[c] IN
  /\ pc[c] = "recvPark"
  /\ c \notin asleep[rx] \/ done[rx] \/ ctx[c] = "cancelled"
  /\ asleep' = [asleep EXCEPT ![rx] = @ \ {c}]
  /\ Goto(c, IF done[rx] THEN "recvDefer" ELSE "recvLock")
  /\ UNCHANGED <<hubVars, handleVars, done, q, waiters, parked, callVars, hand>>

(* The deferred decrement of a reader that returns while still counted. *)
RecvDefer(c) ==
  /\ pc[c] = "recvDefer" /\ mu = None
  /\ Unpark(c, tgt[c])
  /\ Return(c, Result("ErrClosed", <<>>))
  /\ UNCHANGED <<hubVars, handleVars, done, q, asleep, hand>>

-----------------------------------------------------------------------------
(* TryRecv, TryRecvAll and Peek. *)

TryOps == {"TryRecv", "TryRecvAll", "Peek"}
TryPC(op) == CASE op = "TryRecv" -> "tryRecvLock"
               [] op = "TryRecvAll" -> "tryRecvAllLock"
               [] op = "Peek" -> "peekLock"

CallTry(c, rx, op) ==
  /\ Idle(c, op)
  /\ rx \in minted
  /\ op = "Peek" \/ MayRead(rx)
  /\ \/ done[rx] /\ Return(c, Result("ErrClosed", <<>>))
     \/ ~done[rx] /\ Enter(c, TryPC(op), rx, None, "none")
  /\ UNCHANGED <<hubVars, handleVars, done, q, wakeVars, hand>>

(* A plausible bug: the cut returns the head and drops the rest. *)
TryEventsHead(rx, op) == <<HeadEvent(q[rx])>>

(* What each of the three returns and leaves when there is a value. *)
TryEvents(rx, op) == IF op = "TryRecvAll" THEN AllEvents(q[rx])
                     ELSE <<HeadEvent(q[rx])>>
TryLeaves(rx, op) == CASE op = "TryRecv" -> Popped(q[rx])
                       [] op = "TryRecvAll" -> PoppedAll(q[rx])
                       [] op = "Peek" -> q[rx]

TryLocked(c, op) ==
  LET rx == tgt[c]
      verdict == Verdict(rx, "none")
  IN  /\ pc[c] = TryPC(op) /\ mu = None
      /\ TearDown(rx, verdict)
      /\ \/ /\ verdict \in {"closed", "drained"}
            /\ Return(c, Result("ErrClosed", <<>>))
            /\ UNCHANGED q
         \/ /\ verdict = "empty"
            /\ Return(c, Result("ErrEmpty", <<>>))
            /\ UNCHANGED q
         \/ /\ verdict = "value"
            /\ Return(c, Result("nil", TryEvents(rx, op)))
            /\ q' = [q EXCEPT ![rx] = TryLeaves(rx, op)]
      /\ UNCHANGED <<txClosed, hubClosed, mu, handleVars, done, wakeVars, hand>>

-----------------------------------------------------------------------------
(* Chan and its feeder. *)

(* The first Chan call on a handle starts the feeder; later ones only      *)
(* return the channel.                                                     *)
Chan(c, rx) ==
  /\ Idle(c, "Chan")
  /\ rx \in minted /\ pc[rx] = "feedNone"
  /\ MayRange(rx)
  /\ Goto(rx, "feedProbe")
  /\ UNCHANGED <<hubVars, handleVars, done, q, wakeVars, callVars, hand>>

(* A feeder that leaves still counted owes the deferred decrement; the     *)
(* channel is closed on the way out.                                       *)
FeedExit(rx) == Goto(rx, IF parked[rx] THEN "feedDefer" ELSE "feedExited")

FeedProbe(rx) ==
  /\ pc[rx] = "feedProbe"
  /\ IF done[rx] THEN FeedExit(rx) ELSE Goto(rx, "feedLock")
  /\ UNCHANGED <<hubVars, handleVars, done, q, wakeVars, callVars, hand>>

FeedLocked(rx) ==
  LET verdict == Verdict(rx, "none")
  IN  /\ pc[rx] = "feedLock" /\ mu = None
      /\ verdict # "empty"
      /\ Unpark(rx, rx)
      /\ TearDown(rx, verdict)
      /\ \/ /\ verdict = "value"
            /\ hand' = [hand EXCEPT ![rx] = HeadEvent(q[rx])]
            /\ q' = [q EXCEPT ![rx] = Popped(@)]
            /\ Goto(rx, "feedDeliver")
         \/ /\ verdict # "value"
            /\ Goto(rx, "feedExited")
            /\ UNCHANGED <<q, hand>>
      /\ UNCHANGED <<txClosed, hubClosed, mu, handleVars, done, asleep,
                     callVars>>

FeedPark(rx) ==
  /\ pc[rx] = "feedLock" /\ mu = None
  /\ Verdict(rx, "none") = "empty"
  /\ Park(rx, rx)
  /\ Goto(rx, "feedPark")
  /\ UNCHANGED <<hubVars, handleVars, done, q, callVars, hand>>

(* The consumer's receive meets the feeder's send on the unbuffered channel.*)
ChanReceive(rx) ==
  /\ pc[rx] = "feedDeliver"
  /\ hand' = [hand EXCEPT ![rx] = None]
  /\ Goto(rx, "feedProbe")
  /\ UNCHANGED <<hubVars, handleVars, done, q, wakeVars, callVars>>

(* A plausible bug: the delivery is a bare send, without the done arm. *)
FeedAbortMissing(rx) == FALSE

(* The other arm of the delivery select: the event is abandoned. *)
FeedAbort(rx) ==
  /\ pc[rx] = "feedDeliver" /\ done[rx]
  /\ hand' = [hand EXCEPT ![rx] = None]
  /\ FeedExit(rx)
  /\ UNCHANGED <<hubVars, handleVars, done, q, wakeVars, callVars>>

(* A plausible bug: the parked feeder listens to notify alone. *)
FeedWakeNotifyOnly(rx) ==
  /\ pc[rx] = "feedPark"
  /\ rx \notin asleep[rx] /\ Goto(rx, "feedProbe")
  /\ UNCHANGED <<hubVars, handleVars, done, q, wakeVars, callVars, hand>>

(* The parked select: notify loops, done returns; both ready is a choice. *)
FeedWake(rx) ==
  /\ pc[rx] = "feedPark"
  /\ \/ rx \notin asleep[rx] /\ Goto(rx, "feedProbe")
     \/ done[rx] /\ FeedExit(rx)
  /\ asleep' = [asleep EXCEPT ![rx] = @ \ {rx}]
  /\ UNCHANGED <<hubVars, handleVars, done, q, waiters, parked, callVars, hand>>

FeedDefer(rx) ==
  /\ pc[rx] = "feedDefer" /\ mu = None
  /\ Unpark(rx, rx)
  /\ Goto(rx, "feedExited")
  /\ UNCHANGED <<hubVars, handleVars, done, q, asleep, callVars, hand>>

-----------------------------------------------------------------------------
(* The steps a goroutine takes once it is inside a call, and calls. *)
ClientStep(c) ==
  \/ SendCtx(c) \/ SendLocked(c)
  \/ (\E rx \in Receivers : CloseHubDone(c, rx)) \/ CloseHubEnd(c)
  \/ RecvLocked(c) \/ RecvPark(c) \/ RecvWake(c) \/ RecvDefer(c)
  \/ \E op \in TryOps : TryLocked(c, op)

FeederStep(rx) ==
  \/ FeedProbe(rx) \/ FeedLocked(rx) \/ FeedPark(rx)
  \/ FeedAbort(rx) \/ FeedWake(rx) \/ FeedDefer(rx)

Call(c) ==
  \/ \E rx \in Receivers, f \in Filters, m \in OwnMerges :
       NewReceiver(c, rx, f, m)
  \/ \E k \in Keys, v \in Values, x \in Contexts : CallSend(c, k, v, x)
  \/ CloseSender(c) \/ CloseHub(c)
  \/ \E rx \in Receivers : CloseReceiver(c, rx) \/ Chan(c, rx)
  \/ \E rx \in Receivers, x \in Contexts : CallRecv(c, rx, x)
  \/ \E rx \in Receivers, op \in TryOps : CallTry(c, rx, op)

Next ==
  \/ \E c \in Clients : Call(c) \/ Cancel(c) \/ ClientStep(c)
  \/ \E rx \in Receivers : FeederStep(rx) \/ ChanReceive(rx)

Spec == Init /\ [][Next]_vars

(* A goroutine inside a call, and a feeder, keeps running: Go's scheduler   *)
(* runs every runnable goroutine, and its mutex hands the lock to the       *)
(* longest waiter.  Nobody is obliged to make a call, to cancel a context   *)
(* or to receive from a channel.                                            *)
Fairness == /\ \A c \in Clients : WF_vars(ClientStep(c))
            /\ \A rx \in Receivers : WF_vars(FeederStep(rx))

FairSpec == Spec /\ Fairness

-----------------------------------------------------------------------------
(* Safety. *)

(* Nobody sleeps through a wake-up: while a reader or a feeder is asleep on *)
(* the current notify channel of an open receiver, there is nothing to read *)
(* and the sender is open, although the signal is skipped when the counter  *)
(* says nobody waits.  Hub.Close wakes through done instead of notify, one  *)
(* receiver after another, so its own steps are excepted.                   *)
NoLostWakeup ==
  \A rx \in Receivers :
    asleep[rx] # {} /\ ~done[rx] /\ mu = None =>
      q[rx].order = <<>> /\ ~txClosed

(* A handle the hub has let go of is finished: it was closed, or its sender *)
(* was and its backlog is empty.  Nobody who could still be owed a value is *)
(* left out of the fan-out.                                                 *)
DeregisteredIsFinished ==
  \A rx \in minted \ receivers : Closed(rx) \/ Drained(rx)

(* List, element map and slots of every backlog agree on what is pending,   *)
(* also after a merge or a filter has panicked in the middle of a fan-out.  *)
QueueCoherent == \A rx \in Receivers : Coherent(q[rx])

-----------------------------------------------------------------------------
(* Action properties. *)

(* A closed handle is dead from the instant done is closed: nothing is      *)
(* enqueued on it and nothing is taken from it, also by a reader that had   *)
(* passed its done probe before.                                            *)
ClosedReceiverFrozen ==
  [][\A rx \in Receivers : done[rx] => q'[rx] = q[rx]]_vars

(* The end of the stream is final: when the sender is closed and a backlog  *)
(* is empty it stays empty, so ErrClosed is never followed by a value.      *)
DrainedForever ==
  [][\A rx \in Receivers : Drained(rx) => Drained(rx)']_vars

Position(b, k) == CHOOSE i \in DOMAIN b.order : b.order[i] = k

(* First-touch order: two keys that stay pending on a receiver across a     *)
(* step keep their relative order, so no coalescing, pop, annihilation or   *)
(* panic lets a busy key overtake or fall behind another.                   *)
NoOvertaking ==
  [][\A rx \in Receivers :
       LET stay == Range(q[rx].order) \cap Range(q'[rx].order) IN
       \A j, k \in stay : Position(q[rx], j) < Position(q[rx], k) =>
                           Position(q'[rx], j) < Position(q'[rx], k)]_vars

-----------------------------------------------------------------------------
(* The contract of gobus. *)

PendingOf == [rx \in Receivers |-> IF done[rx] THEN {} ELSE q[rx].elems]
OfferOf == [rx \in Receivers |-> IF Offers(rx) THEN hand[rx].key ELSE None]
CallsOf == [c \in Clients |-> CallOf(c, IF Sends(c) THEN msg[c].key ELSE None)]

Contract == INSTANCE BusContract WITH
  tx <- TxOf, handle <- HandleOf, pending <- PendingOf, channel <- ChannelOf,
  offer <- OfferOf, call <- CallsOf, answer <- AnswerOf

(* The bus keeps the promises of the gobus interfaces: whatever happens     *)
(* between the lock-free reads, the mutex and the parks of a call, it is    *)
(* answered by the state of one instant inside it, closed > cancelled >     *)
(* value, a cancelled receive takes nothing, a send answered nil was routed *)
(* or had nobody to go to, and the channel ends when the stream does.       *)
ImplementsContract == Contract!Spec

-----------------------------------------------------------------------------
(* Liveness. *)

(* A consumer ranges over its channel when it keeps receiving.              *)
Ranges(rx) == WF_vars(ChanReceive(rx))

(* With a consumer that ranges over the channel, Sender.Close drains what   *)
(* is pending and ends the range.                                           *)
SoftCloseEndsRange ==
  \A rx \in Receivers : Ranges(rx) =>
    ((txClosed /\ pc[rx] # "feedNone") ~> pc[rx] = "feedExited")

(* With such a consumer no pending key starves behind busier ones: it is    *)
(* delivered or annihilated, or its receiver is closed.                     *)
NoStarvation ==
  \A rx \in Receivers : Ranges(rx) =>
    \A k \in Keys :
      (pc[rx] # "feedNone" /\ q[rx].pending[k] # Absent)
        ~> (q[rx].pending[k] = Absent \/ done[rx])
=============================================================================
