-------------------------------- MODULE Watch --------------------------------
(***************************************************************************)
(* The watch bus (watch/watch.go): a hub, its sender, receivers that each  *)
(* keep one versioned slot for one key (Hub.Watch) or for every key        *)
(* (Hub.WatchAcross), the goroutines that call the API (Clients) and one   *)
(* Chan feeder goroutine per receiver, named by the receiver it serves.    *)
(*                                                                         *)
(* Steps are cut as in Conflate: one per critical section, except that     *)
(* Hub.Close closes the done channels one by one, and one per lock-free    *)
(* access.                                                                 *)
(*                                                                         *)
(* A slot whose hasValue is false holds None; the key of a wildcard's slot *)
(* is None until a value lands in it.  handed records what the receive     *)
(* paths have handed over and is read by no step.                          *)
(***************************************************************************)
EXTENDS Bus

CONSTANTS
  Keys, Values,
  Publications,  \* the pairs of a key and a value the program sends
  Accept,        \* the hub's Accept, on pairs of values
  MaxVersion     \* bound: no send is begun once a slot has taken this many

ASSUME WatchAssumption ==
  /\ None \notin Keys \cup Values
  /\ Publications \subseteq Keys \X Values
  /\ Accept \in [Values \X Values -> {"take", "reject", "panic"}]
  /\ MaxVersion \in Nat

VARIABLES
  index, wildcard,      \* shared.index, shared.wildcard
  wild,                 \* Receiver.wildcard
  key, val, version,    \* the slot
  lastSeen,             \* its read position
  snap, delivered,      \* feed's ev and ver, and its delivered
  handed                \* the events handed to readers, in order

flagVars   == <<txClosed, hubClosed, mu>>
mapVars    == <<receivers, live, index, wildcard>>
handleVars == <<minted, wild>>
slotVars   == <<key, val, version>>
readVars   == <<lastSeen, handed>>
feedVars   == <<snap, delivered>>
stateVars  == <<hubVars, mapVars, handleVars, slotVars, readVars, done>>
vars == <<stateVars, wakeVars, pc, callVars, feedVars>>

ClientPCs == {"idle", "sendCtx", "sendLock", "recvLock", "recvPark",
              "recvDefer", "tryRecvLock", "peekLock", "hubClosing"}
FeederPCs == {"feedNone", "feedProbe", "feedLock", "feedDeliver", "feedPark",
              "feedDefer", "feedExited"}

(* An event, with the version its value had in the slot it was read from.   *)
Events == [key : Keys, val : Values, ver : Nat]

Results == [err : {"nil", "ErrClosed", "ErrEmpty", "ctx.Err", "panic"},
            evs : Seq(Events)]

TypeOK ==
  /\ txClosed \in BOOLEAN /\ hubClosed \in BOOLEAN
  /\ receivers \subseteq minted /\ minted \subseteq Receivers
  /\ DOMAIN index \subseteq Keys
  /\ \A k \in DOMAIN index : index[k] \subseteq Receivers
  /\ wildcard \subseteq Receivers
  /\ live \in Nat \cup {Poisoned}
  /\ mu \in Clients \cup {None}
  /\ wild \in [Receivers -> BOOLEAN]
  /\ key \in [Receivers -> Keys \cup {None}]
  /\ val \in [Receivers -> Values \cup {None}]
  /\ version \in [Receivers -> Nat] /\ lastSeen \in [Receivers -> Nat]
  /\ done \in [Receivers -> BOOLEAN]
  /\ waiters \in [Receivers -> Int]
  /\ asleep \in [Receivers -> SUBSET Procs]
  /\ parked \in [Procs -> BOOLEAN]
  /\ pc \in [Procs -> ClientPCs \cup FeederPCs]
  /\ tgt \in [Clients -> Receivers \cup {None}]
  /\ msg \in [Clients -> Publications \cup {None}]
  /\ ctx \in [Clients -> Contexts]
  /\ ret \in [Clients -> Results]
  /\ snap \in [Receivers -> Events \cup {None}]
  /\ delivered \in [Receivers -> Nat]
  /\ handed \in [Receivers -> Seq(Events)]

NoKeys == [k \in {} |-> {}]   \* an index without entries

Init ==
  /\ txClosed = FALSE /\ hubClosed = FALSE
  /\ receivers = {} /\ index = NoKeys /\ wildcard = {}
  /\ live = 0 /\ mu = None
  /\ minted = {} /\ wild = [rx \in Receivers |-> FALSE]
  /\ key = [rx \in Receivers |-> None]
  /\ val = [rx \in Receivers |-> None]
  /\ version = [rx \in Receivers |-> 0]
  /\ lastSeen = [rx \in Receivers |-> 0]
  /\ done = [rx \in Receivers |-> FALSE]
  /\ waiters = [rx \in Receivers |-> 0]
  /\ asleep = [rx \in Receivers |-> {}]
  /\ parked = [p \in Procs |-> FALSE]
  /\ pc = [p \in Procs |-> IF p \in Clients THEN "idle" ELSE "feedNone"]
  /\ tgt = [c \in Clients |-> None]
  /\ msg = [c \in Clients |-> None]
  /\ ctx = [c \in Clients |-> "none"]
  /\ ret = [c \in Clients |-> Ok]
  /\ snap = [rx \in Receivers |-> None]
  /\ delivered = [rx \in Receivers |-> 0]
  /\ handed = [rx \in Receivers |-> <<>>]

-----------------------------------------------------------------------------
(* The context of a call in progress is cancelled, at any moment. *)
Cancel(c) ==
  /\ ctx[c] = "live"
  /\ ctx' = [ctx EXCEPT ![c] = "cancelled"]
  /\ UNCHANGED <<stateVars, wakeVars, pc, tgt, msg, ret, feedVars>>

-----------------------------------------------------------------------------
(* The three maps and the live count. *)

Watchers(k) == IF k \in DOMAIN index THEN index[k] ELSE {}

Indexed(k, R) == [j \in DOMAIN index \cup {k} |->
                    IF j = k THEN R ELSE index[j]]

(* A plausible bug of Unindexed: a key outlives its last watcher. *)
UnindexedKeepsKey(k, rx) == Indexed(k, Watchers(k) \ {rx})

(* The index without rx, and without its key once nobody watches it. *)
Unindexed(k, rx) ==
  IF Watchers(k) \ {rx} # {} THEN Indexed(k, Watchers(k) \ {rx})
  ELSE [j \in DOMAIN index \ {k} |-> index[j]]

(* registerLocked, for a handle that is just being made. *)
Register(rx, k, across) ==
  /\ index' = IF across THEN index ELSE Indexed(k, Watchers(k) \cup {rx})
  /\ wildcard' = IF across THEN wildcard \cup {rx} ELSE wildcard
  /\ receivers' = receivers \cup {rx}
  /\ live' = Sync(Cardinality(receivers'))

(* deregisterLocked *)
Deregister(rx) ==
  /\ index' = IF wild[rx] THEN index ELSE Unindexed(key[rx], rx)
  /\ wildcard' = wildcard \ {rx}
  /\ receivers' = receivers \ {rx}
  /\ live' = Sync(Cardinality(receivers'))

(* Hub.Watch of a key, or Hub.WatchAcross with key None; cur is the value   *)
(* of WithBaseline, or None without that option.                            *)
Watch(c, rx, k, cur) ==
  /\ Idle(c, IF k = None THEN "WatchAcross" ELSE "Watch") /\ mu = None
  /\ rx \notin minted
  /\ minted' = minted \cup {rx}
  /\ wild' = [wild EXCEPT ![rx] = (k = None)]
  /\ key' = [key EXCEPT ![rx] = k]
  /\ val' = [val EXCEPT ![rx] = cur]
  /\ \/ /\ hubClosed
        /\ done' = [done EXCEPT ![rx] = TRUE]
        /\ UNCHANGED mapVars
     \/ /\ ~hubClosed
        /\ Register(rx, k, k = None)
        /\ UNCHANGED done
  /\ UNCHANGED <<flagVars, version, readVars, wakeVars, pc,
                 callVars, feedVars>>

-----------------------------------------------------------------------------
(* The send side. *)

(* A plausible bug: prev and next change places. *)
JudgedSwapped(rx, v) == IF val[rx] = None THEN "take" ELSE Accept[v, val[rx]]

(* What Accept says of v; an empty slot takes its first value unjudged. *)
Judged(rx, v) == IF val[rx] = None THEN "take" ELSE Accept[val[rx], v]

Hit(R, v) == {rx \in R : Judged(rx, v) = "take"}

(* offerLocked on every receiver of R, without the key. *)
Land(R, v) ==
  /\ val' = [rx \in Receivers |-> IF rx \in Hit(R, v) THEN v ELSE val[rx]]
  /\ version' = [rx \in Receivers |-> IF rx \in Hit(R, v) THEN version[rx] + 1
                                      ELSE version[rx]]
  /\ asleep' = [rx \in Receivers |-> IF rx \in Hit(R, v) THEN Signalled(rx)
                                     ELSE asleep[rx]]

(* Plausible bugs: the key is not written, or written before Accept is asked.*)
FanOutKeyless(R, k, v) == Land(R, v) /\ UNCHANGED key
FanOutKeyFirst(R, k, v) ==
  Land(R, v) /\ key' = [rx \in Receivers |-> IF rx \in R THEN k ELSE key[rx]]

(* offerLocked on every receiver of R. *)
FanOut(R, k, v) ==
  /\ Land(R, v)
  /\ key' = [rx \in Receivers |-> IF rx \in Hit(R, v) THEN k ELSE key[rx]]

(* The receivers a send may have reached, index before wildcard and each in *)
(* map order, when Accept panics on the first it meets of bad.              *)
ReachedBefore(bad, k) ==
  {R \in SUBSET ((Watchers(k) \cup wildcard) \ bad) :
     IF bad \cap Watchers(k) # {} THEN R \subseteq Watchers(k)
     ELSE Watchers(k) \subseteq R}

(* Send, TrySend and SendContext up to the mutex. *)
CallSend(c, pub, x) ==
  /\ Idle(c, IF x = "none" THEN "Send" ELSE "SendContext")
  /\ \A rx \in Receivers : version[rx] < MaxVersion
  /\ \/ live # 0 /\ Enter(c, "sendLock", None, pub, x)
     \/ live = 0 /\ x = "none" /\ Return(c, Ok)
     \/ live = 0 /\ x # "none" /\ Enter(c, "sendCtx", None, pub, x)
  /\ UNCHANGED <<stateVars, wakeVars, feedVars>>

(* SendContext, having loaded a zero count, selects on the context. *)
SendCtx(c) ==
  /\ pc[c] = "sendCtx"
  /\ \/ ctx[c] # "cancelled" /\ Return(c, Ok)
     \/ ctx[c] = "cancelled" /\ Goto(c, "sendLock") /\ UNCHANGED callVars
  /\ UNCHANGED <<stateVars, wakeVars, feedVars>>

(* sendLocked: closed > cancelled, then the fan-out. *)
SendLocked(c) ==
  /\ pc[c] = "sendLock" /\ mu = None
  /\ \/ /\ txClosed
        /\ Return(c, Result("ErrClosed", <<>>))
        /\ UNCHANGED <<slotVars, asleep>>
     \/ /\ ~txClosed /\ ctx[c] = "cancelled"
        /\ Return(c, Result("ctx.Err", <<>>))
        /\ UNCHANGED <<slotVars, asleep>>
     \/ /\ ~txClosed /\ ctx[c] # "cancelled"
        /\ LET k == msg[c][1]
               v == msg[c][2]
               bad == {rx \in Watchers(k) \cup wildcard :
                         Judged(rx, v) = "panic"}
           IN  \/ /\ bad = {}
                  /\ FanOut(Watchers(k) \cup wildcard, k, v)
                  /\ Return(c, Ok)
               \/ /\ bad # {}
                  /\ \E R \in ReachedBefore(bad, k) : FanOut(R, k, v)
                  /\ Return(c, Result("panic", <<>>))
  /\ UNCHANGED <<hubVars, index, wildcard, handleVars, readVars, done, waiters,
                 parked, feedVars>>

(* A plausible bug of Sender.Close: parked goroutines are not woken. *)
CloseSenderNoSignal(c) ==
  /\ Idle(c, "CloseSender") /\ mu = None
  /\ ~txClosed
  /\ txClosed' = TRUE
  /\ live' = Poisoned
  /\ UNCHANGED <<hubClosed, receivers, index, wildcard, mu, handleVars,
                 slotVars, readVars, done, wakeVars, pc, callVars,
                 feedVars>>

(* Sender.Close; a second call does nothing. *)
CloseSender(c) ==
  /\ Idle(c, "CloseSender") /\ mu = None
  /\ ~txClosed
  /\ txClosed' = TRUE
  /\ live' = Poisoned
  /\ asleep' = [rx \in Receivers |->
                  IF rx \in receivers THEN Signalled(rx) ELSE asleep[rx]]
  /\ UNCHANGED <<hubClosed, receivers, index, wildcard, mu, handleVars,
                 slotVars, readVars, done, waiters, parked, pc, callVars,
                 feedVars>>

-----------------------------------------------------------------------------
(* Hub.Close and Receiver.Close. *)

CloseHub(c) ==
  /\ Idle(c, "CloseHub") /\ mu = None
  /\ ~hubClosed
  /\ hubClosed' = TRUE /\ txClosed' = TRUE
  /\ live' = Poisoned
  /\ mu' = c
  /\ Goto(c, "hubClosing")
  /\ UNCHANGED <<receivers, index, wildcard, handleVars, slotVars, readVars,
                 done, wakeVars, callVars, feedVars>>

CloseHubDone(c, rx) ==
  /\ pc[c] = "hubClosing"
  /\ rx \in receivers /\ ~done[rx]
  /\ done' = [done EXCEPT ![rx] = TRUE]
  /\ UNCHANGED <<hubVars, index, wildcard, handleVars, slotVars, readVars,
                 wakeVars, pc, callVars, feedVars>>

CloseHubEnd(c) ==
  /\ pc[c] = "hubClosing"
  /\ \A rx \in receivers : done[rx]
  /\ receivers' = {} /\ index' = NoKeys /\ wildcard' = {}
  /\ mu' = None
  /\ Goto(c, "idle")
  /\ UNCHANGED <<txClosed, hubClosed, live, handleVars, slotVars, readVars,
                 done, wakeVars, callVars, feedVars>>

CloseReceiver(c, rx) ==
  /\ Idle(c, "CloseReceiver") /\ mu = None
  /\ rx \in minted
  /\ done' = [done EXCEPT ![rx] = TRUE]
  /\ Deregister(rx)
  /\ UNCHANGED <<flagVars, handleVars, slotVars, readVars,
                 wakeVars, pc, callVars, feedVars>>

-----------------------------------------------------------------------------
(* The reading paths. *)

Newest(m, n) == IF m > n THEN m ELSE n

Slot(rx) == [key |-> key[rx], val |-> val[rx], ver |-> version[rx]]

Unread(rx) == version[rx] > lastSeen[rx]

Drained(rx) == txClosed /\ ~Unread(rx)

(* A plausible bug: a cancelled context is answered before a close. *)
VerdictCancelledFirst(rx, x) == CASE x = "cancelled" -> "cancelled"
                                  [] x # "cancelled" /\ done[rx] -> "closed"
                                  [] OTHER -> IF Unread(rx) THEN "value"
                                              ELSE IF txClosed THEN "drained"
                                              ELSE "empty"

(* closed > cancelled > value, with the tear-down terminalLocked carries. *)
Verdict(rx, x) == CASE done[rx] -> "closed"
                    [] ~done[rx] /\ Drained(rx) -> "drained"
                    [] ~done[rx] /\ ~Drained(rx) /\ x = "cancelled" ->
                         "cancelled"
                    [] OTHER -> IF Unread(rx) THEN "value" ELSE "empty"

(* A plausible bug: a closed sender is enough to deregister. *)
TearDownEarly(rx, verdict) ==
  \/ txClosed /\ Deregister(rx)
  \/ ~txClosed /\ UNCHANGED mapVars

TearDown(rx, verdict) ==
  \/ verdict = "drained" /\ Deregister(rx)
  \/ verdict # "drained" /\ UNCHANGED mapVars

Answer(rx, verdict) ==
  CASE verdict \in {"closed", "drained"} -> Result("ErrClosed", <<>>)
    [] verdict = "cancelled" -> Result("ctx.Err", <<>>)
    [] verdict = "empty" -> Result("ErrEmpty", <<>>)
    [] verdict = "value" -> Result("nil", <<Slot(rx)>>)

(* takeLocked *)
Take(rx) == /\ lastSeen' = [lastSeen EXCEPT ![rx] = version[rx]]
            /\ handed' = [handed EXCEPT ![rx] = Append(@, Slot(rx))]

CallRecv(c, rx, x) ==
  /\ Idle(c, IF x = "none" THEN "Recv" ELSE "RecvContext")
  /\ rx \in minted /\ MayRead(rx)
  /\ \/ done[rx] /\ Return(c, Result("ErrClosed", <<>>))
     \/ ~done[rx] /\ Enter(c, "recvLock", rx, None, x)
  /\ UNCHANGED <<stateVars, wakeVars, feedVars>>

(* The body of recvLoop under the mutex answers ... *)
RecvLocked(c) ==
  LET rx == tgt[c]
      verdict == Verdict(rx, ctx[c])
  IN  /\ pc[c] = "recvLock" /\ mu = None
      /\ verdict # "empty"
      /\ Unpark(c, rx)
      /\ TearDown(rx, verdict)
      /\ IF verdict = "value" THEN Take(rx) ELSE UNCHANGED readVars
      /\ Return(c, Answer(rx, verdict))
      /\ UNCHANGED <<flagVars, handleVars, slotVars, done, asleep, feedVars>>

(* ... or, with nothing to answer, parks on the current notify channel. *)
RecvPark(c) ==
  /\ pc[c] = "recvLock" /\ mu = None
  /\ Verdict(tgt[c], ctx[c]) = "empty"
  /\ Park(c, tgt[c])
  /\ Goto(c, "recvPark")
  /\ UNCHANGED <<stateVars, callVars, feedVars>>

(* A plausible bug: the parked reader listens to notify alone. *)
RecvWakeNotifyOnly(c) ==
  /\ pc[c] = "recvPark" /\ c \notin asleep[tgt[c]]
  /\ Goto(c, IF done[tgt[c]] THEN "recvDefer" ELSE "recvLock")
  /\ UNCHANGED <<stateVars, wakeVars, callVars, feedVars>>

(* Any ready arm of the select sends the reader back to the top. *)
RecvWake(c) ==
  LET rx == tgt[c] IN
  /\ pc[c] = "recvPark"
  /\ c \notin asleep[rx] \/ done[rx] \/ ctx[c] = "cancelled"
  /\ asleep' = [asleep EXCEPT ![rx] = @ \ {c}]
  /\ Goto(c, IF done[rx] THEN "recvDefer" ELSE "recvLock")
  /\ UNCHANGED <<stateVars, waiters, parked, callVars, feedVars>>

(* The deferred decrement of a reader that returns while still counted. *)
RecvDefer(c) ==
  /\ pc[c] = "recvDefer" /\ mu = None
  /\ Unpark(c, tgt[c])
  /\ Return(c, Result("ErrClosed", <<>>))
  /\ UNCHANGED <<stateVars, asleep, feedVars>>

CallTryRecv(c, rx) ==
  /\ Idle(c, "TryRecv")
  /\ rx \in minted /\ MayRead(rx)
  /\ \/ done[rx] /\ Return(c, Result("ErrClosed", <<>>))
     \/ ~done[rx] /\ Enter(c, "tryRecvLock", rx, None, "none")
  /\ UNCHANGED <<stateVars, wakeVars, feedVars>>

CallPeek(c, rx) ==
  /\ Idle(c, "Peek")
  /\ rx \in minted
  /\ \/ done[rx] /\ Return(c, Result("ErrClosed", <<>>))
     \/ ~done[rx] /\ Enter(c, "peekLock", rx, None, "none")
  /\ UNCHANGED <<stateVars, wakeVars, feedVars>>

(* TryRecv and Peek under the mutex: Peek is TryRecv minus the take. *)
TryLocked(c) ==
  LET rx == tgt[c]
      verdict == Verdict(rx, "none")
  IN  /\ pc[c] \in {"tryRecvLock", "peekLock"} /\ mu = None
      /\ TearDown(rx, verdict)
      /\ IF pc[c] = "tryRecvLock" /\ verdict = "value" THEN Take(rx)
         ELSE UNCHANGED readVars
      /\ Return(c, Answer(rx, verdict))
      /\ UNCHANGED <<flagVars, handleVars, slotVars, done, wakeVars,
                     feedVars>>

-----------------------------------------------------------------------------
(* Chan and its feeder. *)

(* The first Chan call on a handle starts the feeder. *)
Chan(c, rx) ==
  /\ Idle(c, "Chan")
  /\ rx \in minted /\ pc[rx] = "feedNone"
  /\ MayRange(rx)
  /\ Goto(rx, "feedProbe")
  /\ UNCHANGED <<stateVars, wakeVars, callVars, feedVars>>

(* The feeder leaves: its locals die, the channel closes, and it owes the   *)
(* deferred decrement if it is still counted.                               *)
FeedExit(rx) == /\ Goto(rx, IF parked[rx] THEN "feedDefer" ELSE "feedExited")
                /\ snap' = [snap EXCEPT ![rx] = None]
                /\ delivered' = [delivered EXCEPT ![rx] = 0]

FeedProbe(rx) ==
  /\ pc[rx] = "feedProbe"
  /\ \/ done[rx] /\ FeedExit(rx)
     \/ ~done[rx] /\ Goto(rx, "feedLock") /\ UNCHANGED feedVars
  /\ UNCHANGED <<stateVars, wakeVars, callVars>>

(* A plausible bug: what has been delivered is not committed. *)
CommittedNothing(rx) == lastSeen[rx]

(* The read position once the feeder has committed what it has delivered.   *)
Committed(rx) == Newest(lastSeen[rx], delivered[rx])

(* A plausible bug: done is not looked at again under the mutex. *)
FeedVerdictNoRecheck(rx) == IF version[rx] > Committed(rx) THEN "value"
                            ELSE IF txClosed THEN "drained" ELSE "empty"

(* What the feeder finds: unread before drained, unlike the reading paths.  *)
FeedVerdict(rx) == CASE done[rx] -> "closed"
                     [] ~done[rx] /\ version[rx] > Committed(rx) -> "value"
                     [] OTHER -> IF txClosed THEN "drained" ELSE "empty"

(* The iteration under the mutex.  With a value it parks, counted, beside   *)
(* the delivery of a snapshot; with nothing it parks on notify alone.       *)
FeedLocked(rx) ==
  LET verdict == FeedVerdict(rx)
  IN  /\ pc[rx] = "feedLock" /\ mu = None
      /\ lastSeen' = [lastSeen EXCEPT ![rx] = Committed(rx)]
      /\ delivered' = [delivered EXCEPT ![rx] = 0]
      /\ TearDown(rx, verdict)
      /\ \/ /\ verdict \in {"closed", "drained"}
            /\ Unpark(rx, rx)
            /\ Goto(rx, "feedExited")
            /\ UNCHANGED <<snap, asleep>>
         \/ /\ verdict = "value"
            /\ Park(rx, rx)
            /\ snap' = [snap EXCEPT ![rx] = Slot(rx)]
            /\ Goto(rx, "feedDeliver")
         \/ /\ verdict = "empty"
            /\ Park(rx, rx)
            /\ Goto(rx, "feedPark")
            /\ UNCHANGED snap
      /\ UNCHANGED <<flagVars, handleVars, slotVars, handed, done, callVars>>

(* A plausible bug: what is marked is the slot's version, not the snapshot's.*)
ChanReceiveMarksCurrent(rx) ==
  /\ pc[rx] = "feedDeliver"
  /\ handed' = [handed EXCEPT ![rx] = Append(@, snap[rx])]
  /\ delivered' = [delivered EXCEPT ![rx] = version[rx]]
  /\ snap' = [snap EXCEPT ![rx] = None]
  /\ asleep' = [asleep EXCEPT ![rx] = @ \ {rx}]
  /\ Goto(rx, "feedProbe")
  /\ UNCHANGED <<hubVars, index, wildcard, handleVars, slotVars, lastSeen,
                 done, waiters, parked, callVars>>

(* The send arm: the consumer's receive meets it on the unbuffered channel. *)
ChanReceive(rx) ==
  /\ pc[rx] = "feedDeliver"
  /\ handed' = [handed EXCEPT ![rx] = Append(@, snap[rx])]
  /\ delivered' = [delivered EXCEPT ![rx] = snap[rx].ver]
  /\ snap' = [snap EXCEPT ![rx] = None]
  /\ asleep' = [asleep EXCEPT ![rx] = @ \ {rx}]
  /\ Goto(rx, "feedProbe")
  /\ UNCHANGED <<hubVars, index, wildcard, handleVars, slotVars, lastSeen,
                 done, waiters, parked, callVars>>

(* A plausible bug: the parked feeder listens to notify alone. *)
FeedWakeNotifyOnly(rx) ==
  /\ pc[rx] \in {"feedDeliver", "feedPark"} /\ rx \notin asleep[rx]
  /\ Goto(rx, "feedProbe")
  /\ snap' = [snap EXCEPT ![rx] = None]
  /\ UNCHANGED <<stateVars, wakeVars, callVars, delivered>>

(* The two arms both selects of the feeder have: notify loops, done returns.*)
FeedWake(rx) ==
  /\ pc[rx] \in {"feedDeliver", "feedPark"}
  /\ \/ /\ rx \notin asleep[rx]
        /\ Goto(rx, "feedProbe")
        /\ snap' = [snap EXCEPT ![rx] = None]
        /\ UNCHANGED delivered
     \/ done[rx] /\ FeedExit(rx)
  /\ asleep' = [asleep EXCEPT ![rx] = @ \ {rx}]
  /\ UNCHANGED <<stateVars, waiters, parked, callVars>>

FeedDefer(rx) ==
  /\ pc[rx] = "feedDefer" /\ mu = None
  /\ Unpark(rx, rx)
  /\ Goto(rx, "feedExited")
  /\ UNCHANGED <<stateVars, asleep, callVars, feedVars>>

-----------------------------------------------------------------------------
(* The steps a goroutine takes once it is inside a call, and calls. *)
ClientStep(c) ==
  \/ SendCtx(c) \/ SendLocked(c)
  \/ (\E rx \in Receivers : CloseHubDone(c, rx)) \/ CloseHubEnd(c)
  \/ RecvLocked(c) \/ RecvPark(c) \/ RecvWake(c) \/ RecvDefer(c)
  \/ TryLocked(c)

FeederStep(rx) ==
  FeedProbe(rx) \/ FeedLocked(rx) \/ FeedWake(rx) \/ FeedDefer(rx)

Call(c) ==
  \/ \E rx \in Receivers, k \in Keys \cup {None}, cur \in Values \cup {None} :
       Watch(c, rx, k, cur)
  \/ \E pub \in Publications, x \in Contexts : CallSend(c, pub, x)
  \/ CloseSender(c) \/ CloseHub(c)
  \/ \E rx \in Receivers : CloseReceiver(c, rx) \/ Chan(c, rx)
  \/ \E rx \in Receivers, x \in Contexts : CallRecv(c, rx, x)
  \/ \E rx \in Receivers : CallTryRecv(c, rx) \/ CallPeek(c, rx)

Next ==
  \/ \E c \in Clients : Call(c) \/ Cancel(c) \/ ClientStep(c)
  \/ \E rx \in Receivers : FeederStep(rx) \/ ChanReceive(rx)

Spec == Init /\ [][Next]_vars

(* A goroutine inside a call, and a feeder, keeps running.  Nobody is       *)
(* obliged to make a call, to cancel a context or to read a channel.        *)
Fairness == /\ \A c \in Clients : WF_vars(ClientStep(c))
            /\ \A rx \in Receivers : WF_vars(FeederStep(rx))

FairSpec == Spec /\ Fairness

-----------------------------------------------------------------------------
(* Safety. *)

(* The three maps agree through every order of registrations, closes and    *)
(* terminal reads: each registered receiver is under its own key or among   *)
(* the wildcards, nobody else is, and no key outlives its last watcher.     *)
IndexExact ==
  /\ wildcard = {rx \in receivers : wild[rx]}
  /\ DOMAIN index = {key[rx] : rx \in receivers \ wildcard}
  /\ \A k \in DOMAIN index :
       index[k] = {rx \in receivers \ wildcard : key[rx] = k}

(* Nobody sleeps through a wake-up.  A goroutine asleep on an open receiver *)
(* has nothing to read and its sender is open; a feeder asleep beside a     *)
(* delivery offers the current value, not one that has been superseded.     *)
NoLostWakeup ==
  \A rx \in Receivers, p \in Procs :
    p \in asleep[rx] /\ ~done[rx] /\ mu = None =>
      IF pc[p] = "feedDeliver" THEN snap[rx] = Slot(rx)
      ELSE ~Unread(rx) /\ ~txClosed

HandedVersions(rx) == {e.ver : e \in Range(handed[rx])}
NewestHanded(rx) == Max(HandedVersions(rx) \cup {0})

(* The read position of an open receiver is the newest value that has been  *)
(* handed over: none is marked read that no reader got, which would lose    *)
(* it, and what the feeder has delivered and not yet committed is the only  *)
(* one that is out and not marked.                                          *)
MarkExact ==
  \A rx \in Receivers :
    ~done[rx] => Committed(rx) = NewestHanded(rx)

(* "Each value goes to only one reader" (watch.go, Receiver.Chan) and in    *)
(* order: the versions handed over strictly increase, so no value is given  *)
(* twice or after a newer one, whichever goroutines read.                   *)
EachValueOnce ==
  \A rx \in Receivers : \A i, j \in DOMAIN handed[rx] :
    i < j => handed[rx][i].ver < handed[rx][j].ver

(* A key travels with its value: what a reader, also of a wildcard, is      *)
(* handed is a pair somebody published, although Accept may reject any      *)
(* value in between; a receiver of one key is handed no other, and nobody   *)
(* is handed a baseline.                                                    *)
KeyTravelsWithValue ==
  \A rx \in Receivers : \A e \in Range(handed[rx]) :
    /\ <<e.key, e.val>> \in Publications
    /\ ~wild[rx] => e.key = key[rx]
    /\ e.ver > 0

(* A reader never goes back: under an Accept that is a strict order, it is  *)
(* never handed a value that Accept says is superseded by one it was handed *)
(* before, in whatever order publishers are scheduled and keys alternate.   *)
NeverGoesBack ==
  \A rx \in Receivers : \A i, j \in DOMAIN handed[rx] :
    i < j => Accept[handed[rx][j].val, handed[rx][i].val] # "take"

(* A handle the hub has let go of is finished: it was closed, or its sender *)
(* was and the final value has been handed over.                            *)
DeregisteredIsFinished ==
  \A rx \in minted \ receivers : done[rx] \/ Drained(rx)

-----------------------------------------------------------------------------
(* Action properties. *)

(* A closed handle takes no value from a send and starts no delivery, and   *)
(* only a delivery its feeder had begun hands one over: at most one value   *)
(* is received after Receiver.Close returns (watch.go, Receiver.Chan).      *)
AtMostOneAfterClose ==
  [][\A rx \in Receivers : done[rx] =>
       /\ version'[rx] = version[rx]
       /\ pc'[rx] = "feedDeliver" => pc[rx] = "feedDeliver"
       /\ handed'[rx] # handed[rx] =>
            pc[rx] = "feedDeliver" /\ pc'[rx] # "feedDeliver"]_vars

(* Peek shows only what a receive would hand back: never a value that has   *)
(* been handed over already.                                                *)
PeekIsUnread ==
  [][\A c \in Clients :
       pc[c] = "peekLock" /\ pc'[c] = "idle" =>
         \A e \in Range(ret'[c].evs) :
           e.ver \notin HandedVersions(tgt[c])]_vars

-----------------------------------------------------------------------------
(* The contract of gobus. *)

(* The key of a slot nobody has been handed, or shown by the feeder, yet.   *)
PendingKeys(rx) ==
  LET shown == IF Offers(rx) THEN snap[rx].ver ELSE 0 IN
  IF ~done[rx] /\ version[rx] > Newest(Committed(rx), shown) THEN {key[rx]}
  ELSE {}

PendingOf == [rx \in Receivers |-> PendingKeys(rx)]
OfferOf == [rx \in Receivers |-> IF Offers(rx) THEN snap[rx].key ELSE None]
CallsOf == [c \in Clients |-> CallOf(c, IF Sends(c) THEN msg[c][1] ELSE None)]

Contract == INSTANCE BusContract WITH
  tx <- TxOf, handle <- HandleOf, pending <- PendingOf, channel <- ChannelOf,
  offer <- OfferOf, call <- CallsOf, answer <- AnswerOf

(* The bus keeps the promises of the gobus interfaces: whatever happens     *)
(* between the lock-free reads, the mutex and the parks of a call, it is    *)
(* answered by the state of one instant inside it, closed > cancelled >     *)
(* value, a cancelled receive takes nothing, and a soft close hands over    *)
(* the final value before the stream ends.                                  *)
ImplementsContract == Contract!Spec

-----------------------------------------------------------------------------
(* Liveness.  A consumer ranges over its channel when it keeps receiving.   *)

Ranges(rx) == WF_vars(ChanReceive(rx))

(* A consumer that keeps reading converges on the current value.            *)
Converges ==
  \A rx \in Receivers : Ranges(rx) =>
    \A n \in 1..MaxVersion :
      (pc[rx] # "feedNone" /\ version[rx] = n)
        ~> (done[rx] \/ NewestHanded(rx) >= n)

(* Sender.Close hands over the final value and then ends the range.         *)
SoftCloseEndsRange ==
  \A rx \in Receivers : Ranges(rx) =>
    ((txClosed /\ pc[rx] # "feedNone")
       ~> (pc[rx] = "feedExited" /\ (done[rx] \/ ~Unread(rx))))
=============================================================================
