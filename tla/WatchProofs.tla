----------------------------- MODULE WatchProofs -----------------------------
(***************************************************************************)
(* Proofs about the watch bus, for any number of clients, receivers, keys, *)
(* values and sends, and any Accept.                                       *)
(***************************************************************************)
EXTENDS Watch, BusProofs, SequenceTheorems

-----------------------------------------------------------------------------
(* Type correctness.  TypeOK is not inductive: that a slot with a version   *)
(* holds an event, that the maps hold handles, that a reader has a receiver *)
(* and a sender a publication depend on where each goroutine is.            *)

SendPCs == {"sendCtx", "sendLock"}
ReadPCs == {"recvLock", "recvPark", "recvDefer", "tryRecvLock", "peekLock"}

HubTypes ==
  /\ txClosed \in BOOLEAN /\ hubClosed \in BOOLEAN
  /\ receivers \subseteq minted /\ minted \subseteq Receivers
  /\ DOMAIN index \subseteq Keys
  /\ \A k \in DOMAIN index : index[k] \subseteq minted
  /\ wildcard \subseteq minted
  /\ live \in Nat \cup {Poisoned}
  /\ mu \in Clients \cup {None}
  /\ wild \in [Receivers -> BOOLEAN]
  /\ done \in [Receivers -> BOOLEAN]

SlotTypes ==
  /\ key \in [Receivers -> Keys \cup {None}]
  /\ val \in [Receivers -> Values \cup {None}]
  /\ version \in [Receivers -> Nat] /\ lastSeen \in [Receivers -> Nat]
  /\ handed \in [Receivers -> Seq(Events)]
  /\ \A rx \in Receivers :
       version[rx] > 0 => rx \in minted /\ key[rx] \in Keys /\ val[rx] \in Values

CallTypes ==
  /\ pc \in [Procs -> ClientPCs \cup FeederPCs]
  /\ msg \in [Clients -> Publications \cup {None}]
  /\ ctx \in [Clients -> Contexts]
  /\ ret \in [Clients -> Results]
  /\ \A c \in Clients :
       /\ pc[c] \in ClientPCs
       /\ pc[c] \in SendPCs => msg[c] \in Publications
       /\ pc[c] \in ReadPCs => tgt[c] \in Receivers
  /\ \A rx \in Receivers : pc[rx] \in FeederPCs

FeedTypes ==
  /\ snap \in [Receivers -> Events \cup {None}]
  /\ delivered \in [Receivers -> Nat]
  /\ \A rx \in Receivers :
       /\ IF pc[rx] = "feedDeliver" THEN snap[rx] \in Events ELSE snap[rx] = None
       /\ pc[rx] \in {"feedNone", "feedDeliver"} => delivered[rx] = 0

TypeInv == HubTypes /\ SlotTypes /\ WakeTypes /\ CallTypes /\ FeedTypes

(* The typed parts together are the type invariant of the runs.             *)
LEMMA TypesSuffice == ASSUME TypeInv PROVE TypeOK
BY DEF TypeInv, HubTypes, SlotTypes, WakeTypes, CallTypes, FeedTypes, TypeOK

(* Clients, feeders and None are three different things. *)
LEMMA WhoIsWho ==
  /\ \A c \in Clients : c \in Procs /\ c \notin Receivers /\ c # None
  /\ \A rx \in Receivers : rx \in Procs /\ rx \notin Clients /\ rx # None
BY BusAssumption DEF Procs

(* The types hold in a bus that has only been made.                         *)
LEMMA InitTypeInv == Init => TypeInv
<1> SUFFICES ASSUME Init PROVE TypeInv
  OBVIOUS
<1>1. HubTypes
  <2>1. txClosed \in BOOLEAN /\ hubClosed \in BOOLEAN
    BY Zenon DEF Init
  <2>2. wild \in [Receivers -> BOOLEAN] /\ done \in [Receivers -> BOOLEAN]
    BY Zenon DEF Init
  <2> QED BY <2>1, <2>2 DEF Init, HubTypes, NoKeys
<1>2. SlotTypes
  BY DEF Init, SlotTypes
<1>3. WakeTypes
  <2>1. parked \in [Procs -> BOOLEAN]
    BY Zenon DEF Init
  <2> QED BY <2>1 DEF Init, WakeTypes
<1>4. CallTypes
  <2>1. Ok \in Results
    BY DEF Ok, Result, Results
  <2>2. ctx \in [Clients -> Contexts] /\ ret \in [Clients -> Results]
    BY <2>1 DEF Init, Contexts
  <2>3. pc \in [Procs -> ClientPCs \cup FeederPCs]
    BY DEF Init, ClientPCs, FeederPCs
  <2>4. /\ \A c \in Clients : pc[c] = "idle"
        /\ \A rx \in Receivers : pc[rx] = "feedNone"
    BY WhoIsWho DEF Init
  <2> QED BY <2>2, <2>3, <2>4
          DEF Init, CallTypes, ClientPCs, FeederPCs, SendPCs, ReadPCs
<1>5. FeedTypes
  BY WhoIsWho DEF Init, FeedTypes
<1> QED BY <1>1, <1>2, <1>3, <1>4, <1>5 DEF TypeInv

-----------------------------------------------------------------------------
(* Which steps touch what. *)

(* Steps that only move their caller. *)
QuietStep(c) ==
  \/ \E pub \in Publications, x \in Contexts : CallSend(c, pub, x)
  \/ \E rx \in Receivers, x \in Contexts : CallRecv(c, rx, x)
  \/ \E rx \in Receivers : CallTryRecv(c, rx) \/ CallPeek(c, rx)
  \/ SendCtx(c) \/ Cancel(c)

(* The steps before the mutex leave the bus alone.                          *)
LEMMA QuietKeeps ==
  ASSUME NEW c, QuietStep(c)
  PROVE  UNCHANGED <<stateVars, wakeVars, feedVars>>
<1>1. CASE \E pub \in Publications, x \in Contexts : CallSend(c, pub, x)
  BY <1>1 DEF CallSend
<1>2. CASE \E rx \in Receivers, x \in Contexts : CallRecv(c, rx, x)
  BY <1>2 DEF CallRecv
<1>3. CASE \E rx \in Receivers : CallTryRecv(c, rx) \/ CallPeek(c, rx)
  BY <1>3 DEF CallTryRecv, CallPeek
<1>4. CASE SendCtx(c) \/ Cancel(c)
  BY <1>4 DEF SendCtx, Cancel
<1> QED BY <1>1, <1>2, <1>3, <1>4 DEF QuietStep

Watching(c) ==
  \E rx \in Receivers, k \in Keys \cup {None}, cur \in Values \cup {None} :
    Watch(c, rx, k, cur)
ClosingHub(c) == \/ CloseHub(c) \/ CloseHubEnd(c)
                 \/ \E rx \in Receivers : CloseHubDone(c, rx)
ClosingOne(c) == \E rx \in Receivers : CloseReceiver(c, rx)
ParkingOnly(c) == RecvPark(c) \/ RecvWake(c) \/ RecvDefer(c)
Ranging(rx) == \E c \in Clients : Chan(c, rx)
FeederOnly(rx) == FeedProbe(rx) \/ FeedWake(rx) \/ FeedDefer(rx)

(* Every step is one of these. *)
LEMMA StepKinds ==
  ASSUME [Next]_vars
  PROVE  \/ UNCHANGED vars
         \/ \E c \in Clients :
              \/ QuietStep(c) \/ Watching(c) \/ ClosingHub(c) \/ ClosingOne(c)
              \/ CloseSender(c) \/ SendLocked(c) \/ RecvLocked(c)
              \/ TryLocked(c) \/ ParkingOnly(c)
         \/ \E rx \in Receivers :
              \/ Ranging(rx) \/ FeederOnly(rx) \/ FeedLocked(rx) \/ ChanReceive(rx)
<1>1. ASSUME NEW c \in Clients, Call(c)
      PROVE  \/ QuietStep(c) \/ Watching(c) \/ ClosingHub(c) \/ ClosingOne(c)
             \/ CloseSender(c) \/ \E rx \in Receivers : Ranging(rx)
  BY <1>1 DEF Call, QuietStep, Watching, ClosingHub, ClosingOne, Ranging
<1>2. ASSUME NEW c \in Clients, ClientStep(c)
      PROVE  \/ QuietStep(c) \/ ClosingHub(c) \/ SendLocked(c) \/ RecvLocked(c)
             \/ TryLocked(c) \/ ParkingOnly(c)
  BY <1>2 DEF ClientStep, QuietStep, ClosingHub, ParkingOnly
<1>3. ASSUME NEW rx \in Receivers, FeederStep(rx)
      PROVE  FeederOnly(rx) \/ FeedLocked(rx)
  BY <1>3 DEF FeederStep, FeederOnly
<1>4. ASSUME NEW c, Cancel(c) PROVE QuietStep(c)
  BY <1>4 DEF QuietStep
<1> QED BY <1>1, <1>2, <1>3, <1>4 DEF Next

(* Steps that leave the state of the bus alone. *)
LEMMA StateKept ==
  ASSUME \/ UNCHANGED vars
         \/ \E c : QuietStep(c) \/ ParkingOnly(c)
         \/ \E rx : Ranging(rx) \/ FeederOnly(rx)
  PROVE  UNCHANGED stateVars
<1>1. ASSUME NEW c, QuietStep(c) PROVE UNCHANGED stateVars
  BY <1>1, QuietKeeps
<1>2. ASSUME NEW c, ParkingOnly(c) PROVE UNCHANGED stateVars
  BY <1>2 DEF ParkingOnly, RecvPark, RecvWake, RecvDefer
<1>3. ASSUME NEW rx, Ranging(rx) PROVE UNCHANGED stateVars
  BY <1>3 DEF Ranging, Chan
<1>4. ASSUME NEW rx, FeederOnly(rx) PROVE UNCHANGED stateVars
  BY <1>4 DEF FeederOnly, FeedProbe, FeedWake, FeedDefer
<1> QED BY <1>1, <1>2, <1>3, <1>4 DEF vars

(* The hub: its maps, its flags and the done flags. *)
LEMMA WhoTouchesHub ==
  ASSUME [Next]_vars
  PROVE  \/ UNCHANGED <<hubVars, index, wildcard, handleVars, done>>
         \/ \E c \in Clients : \/ Watching(c) \/ ClosingHub(c) \/ ClosingOne(c)
                               \/ CloseSender(c) \/ RecvLocked(c) \/ TryLocked(c)
         \/ \E rx \in Receivers : FeedLocked(rx)
<1>1. UNCHANGED stateVars
        => UNCHANGED <<hubVars, index, wildcard, handleVars, done>>
  BY DEF stateVars, mapVars
<1>2. ASSUME NEW c, SendLocked(c)
      PROVE  UNCHANGED <<hubVars, index, wildcard, handleVars, done>>
  BY <1>2 DEF SendLocked
<1>3. ASSUME NEW rx, ChanReceive(rx)
      PROVE  UNCHANGED <<hubVars, index, wildcard, handleVars, done>>
  BY <1>3 DEF ChanReceive
<1> QED BY <1>1, <1>2, <1>3, StepKinds, StateKept

(* The slots, their read positions and what has been handed over. *)
LEMMA WhoTouchesSlots ==
  ASSUME [Next]_vars
  PROVE  \/ UNCHANGED <<slotVars, readVars>>
         \/ \E c \in Clients :
              Watching(c) \/ SendLocked(c) \/ RecvLocked(c) \/ TryLocked(c)
         \/ \E rx \in Receivers : FeedLocked(rx) \/ ChanReceive(rx)
<1>1. UNCHANGED stateVars => UNCHANGED <<slotVars, readVars>>
  BY DEF stateVars
<1>2. ASSUME NEW c, ClosingHub(c) \/ ClosingOne(c) \/ CloseSender(c)
      PROVE  UNCHANGED <<slotVars, readVars>>
  BY <1>2 DEF ClosingHub, ClosingOne, CloseSender, CloseHub, CloseHubEnd,
              CloseHubDone, CloseReceiver
<1> QED BY <1>1, <1>2, StepKinds, StateKept

(* The waiter counts, the parked and the sleepers. *)
LEMMA WhoTouchesWakes ==
  ASSUME [Next]_vars
  PROVE  \/ UNCHANGED wakeVars
         \/ \E c \in Clients : \/ SendLocked(c) \/ CloseSender(c)
                               \/ RecvLocked(c) \/ ParkingOnly(c)
         \/ \E rx \in Receivers :
              FeedLocked(rx) \/ ChanReceive(rx) \/ FeedWake(rx) \/ FeedDefer(rx)
<1>1. ASSUME NEW c, Watching(c) \/ ClosingHub(c) \/ ClosingOne(c)
      PROVE  UNCHANGED wakeVars
  BY <1>1 DEF Watching, ClosingHub, ClosingOne, Watch, CloseHub, CloseHubEnd,
              CloseHubDone, CloseReceiver
<1>2. ASSUME NEW c, TryLocked(c) PROVE UNCHANGED wakeVars
  BY <1>2 DEF TryLocked
<1>3. ASSUME NEW rx, Ranging(rx) \/ FeedProbe(rx) PROVE UNCHANGED wakeVars
  BY <1>3 DEF Ranging, Chan, FeedProbe
<1>4. UNCHANGED vars => UNCHANGED wakeVars
  BY DEF vars
<1> QED BY <1>1, <1>2, <1>3, <1>4, StepKinds, QuietKeeps DEF FeederOnly

(* A client's step moves the client alone. *)
LEMMA ClientMoves ==
  ASSUME NEW c \in Clients,
         \/ QuietStep(c) \/ Watching(c) \/ ClosingHub(c) \/ ClosingOne(c)
         \/ CloseSender(c) \/ SendLocked(c) \/ RecvLocked(c)
         \/ TryLocked(c) \/ ParkingOnly(c)
  PROVE  UNCHANGED feedVars /\ (UNCHANGED pc \/ \E l : Goto(c, l))
<1>1. CASE QuietStep(c)
  <2>1. UNCHANGED pc \/ \E l : Goto(c, l)
    BY <1>1 DEF QuietStep, CallSend, CallRecv, CallTryRecv, CallPeek, SendCtx,
                Cancel, Enter, Return
  <2> QED BY <1>1, <2>1, QuietKeeps
<1>2. CASE Watching(c) \/ ClosingHub(c) \/ ClosingOne(c) \/ CloseSender(c)
  BY <1>2 DEF Watching, ClosingHub, ClosingOne, Watch, CloseHub, CloseHubEnd,
              CloseHubDone, CloseReceiver, CloseSender
<1>3. CASE SendLocked(c)
  BY <1>3 DEF SendLocked, Return
<1>4. CASE RecvLocked(c) \/ TryLocked(c)
  BY <1>4 DEF RecvLocked, TryLocked, Return
<1>5. CASE ParkingOnly(c)
  BY <1>5 DEF ParkingOnly, RecvPark, RecvWake, RecvDefer, Return
<1> QED BY <1>1, <1>2, <1>3, <1>4, <1>5

(* The feeders. *)
LEMMA WhoTouchesFeeds ==
  ASSUME TypeInv, [Next]_vars
  PROVE  \/ /\ UNCHANGED feedVars
            /\ \A rx \in Receivers : pc'[rx] = pc[rx]
         \/ \E rx \in Receivers :
              Ranging(rx) \/ FeederOnly(rx) \/ FeedLocked(rx) \/ ChanReceive(rx)
<1>1. ASSUME NEW c \in Clients, NEW l, Goto(c, l)
      PROVE  \A rx \in Receivers : pc'[rx] = pc[rx]
  BY <1>1, WhoIsWho DEF Goto, TypeInv, CallTypes
<1>2. UNCHANGED vars => UNCHANGED <<feedVars, pc>>
  BY DEF vars
<1> QED BY <1>1, <1>2, StepKinds, ClientMoves

-----------------------------------------------------------------------------
(* What the pieces of a step do. *)

LEMMA CountType ==
  ASSUME NEW R, R \subseteq Receivers PROVE Cardinality(R) \in Nat
BY BusAssumption, FS_Subset, FS_CardinalityType

(* The ordered run answers one of its five verdicts. *)
LEMMA VerdictType ==
  ASSUME NEW rx, NEW x
  PROVE  /\ Verdict(rx, x) \in {"closed", "drained", "cancelled", "value", "empty"}
         /\ Verdict(rx, x) = "closed" => done[rx]
         /\ Verdict(rx, x) = "drained" => ~done[rx] /\ Drained(rx)
         /\ Verdict(rx, x) = "value" => ~done[rx] /\ Unread(rx)
         /\ Verdict(rx, x) = "empty" => ~done[rx] /\ ~Unread(rx) /\ ~txClosed
BY DEF Verdict, Drained

(* What each verdict of the feeder says of its receiver.                    *)
LEMMA FeedVerdictType ==
  ASSUME NEW rx
  PROVE  /\ FeedVerdict(rx) \in {"closed", "drained", "value", "empty"}
         /\ FeedVerdict(rx) = "closed" => done[rx]
         /\ FeedVerdict(rx) = "value" => ~done[rx] /\ version[rx] > Committed(rx)
         /\ FeedVerdict(rx) = "drained" =>
              ~done[rx] /\ txClosed /\ ~(version[rx] > Committed(rx))
         /\ FeedVerdict(rx) = "empty" =>
              ~done[rx] /\ ~txClosed /\ ~(version[rx] > Committed(rx))
BY DEF FeedVerdict

(* Letting a receiver go leaves maps of handles. *)
LEMMA DeregisterTypes ==
  ASSUME TypeInv, NEW rx \in Receivers, Deregister(rx), UNCHANGED minted
  PROVE  /\ receivers' \subseteq minted' /\ wildcard' \subseteq minted'
         /\ DOMAIN index' \subseteq Keys
         /\ \A k \in DOMAIN index' : index'[k] \subseteq minted'
         /\ live' \in Nat \cup {Poisoned}
<1>1. live' \in Nat \cup {Poisoned}
  BY CountType DEF Deregister, Sync, TypeInv, HubTypes
<1>2. CASE index' = index
  BY <1>1, <1>2 DEF Deregister, TypeInv, HubTypes
<1>3. CASE index' = Unindexed(key[rx], rx)
  <2>1. Watchers(key[rx]) # {} => key[rx] \in DOMAIN index
    BY DEF Watchers
  <2>2. Watchers(key[rx]) \subseteq minted
    BY DEF Watchers, TypeInv, HubTypes
  <2>3. DOMAIN index' \subseteq DOMAIN index
    BY <1>3, <2>1 DEF Unindexed, Indexed
  <2>4. \A k \in DOMAIN index' : index'[k] \in {Watchers(key[rx]) \ {rx}, index[k]}
    BY <1>3 DEF Unindexed, Indexed
  <2> QED BY <1>1, <2>2, <2>3, <2>4 DEF Deregister, TypeInv, HubTypes
<1> QED BY <1>2, <1>3 DEF Deregister

(* Deregistering on a verdict keeps the types of the hub.                   *)
LEMMA TearDownTypes ==
  ASSUME TypeInv, NEW rx \in Receivers, NEW verdict, TearDown(rx, verdict),
         UNCHANGED <<minted, wild, done, txClosed, hubClosed, mu>>
  PROVE  HubTypes'
<1>1. CASE Deregister(rx)
  BY <1>1, DeregisterTypes DEF TypeInv, HubTypes
<1>2. CASE UNCHANGED mapVars
  BY <1>2 DEF mapVars, TypeInv, HubTypes
<1> QED BY <1>1, <1>2 DEF TearDown

(* What the two reading paths of a client have in common: with x the        *)
(* context, a verdict, its tear-down, and a take if the verdict is a value. *)
LEMMA ReaderSteps ==
  ASSUME TypeInv, NEW c \in Clients, RecvLocked(c) \/ TryLocked(c)
  PROVE  \E rx \in Receivers, x \in Contexts :
           /\ rx = tgt[c] /\ pc[c] \in {"recvLock", "tryRecvLock", "peekLock"}
           /\ mu = None
           /\ TearDown(rx, Verdict(rx, x))
           /\ \/ UNCHANGED readVars
              \/ /\ Verdict(rx, x) = "value" /\ Take(rx)
                 /\ pc[c] \in {"recvLock", "tryRecvLock"}
           /\ Return(c, Answer(rx, Verdict(rx, x)))
           /\ UNCHANGED <<minted, wild, done, txClosed, hubClosed, mu, key, val,
                          version, snap, delivered, asleep>>
<1> USE DEF flagVars, handleVars, slotVars, feedVars, wakeVars
<1>1. tgt[c] \in Receivers
  BY DEF RecvLocked, TryLocked, TypeInv, CallTypes, ReadPCs
<1>2. CASE RecvLocked(c)
  <2> DEFINE x == ctx[c]
  <2>0. x \in Contexts
    BY DEF TypeInv, CallTypes
  <2>1. /\ pc[c] = "recvLock" /\ mu = None
        /\ TearDown(tgt[c], Verdict(tgt[c], x))
        /\ \/ UNCHANGED readVars
           \/ Verdict(tgt[c], x) = "value" /\ Take(tgt[c])
        /\ Return(c, Answer(tgt[c], Verdict(tgt[c], x)))
        /\ UNCHANGED <<minted, wild, done, txClosed, hubClosed, mu, key, val,
                       version, snap, delivered, asleep>>
    BY <1>2 DEF RecvLocked
  <2> HIDE DEF x
  <2> QED BY <1>1, <2>0, <2>1
<1>3. CASE TryLocked(c)
  <2> DEFINE x == "none"
  <2>0. x \in Contexts
    BY DEF Contexts
  <2>1. /\ pc[c] \in {"tryRecvLock", "peekLock"} /\ mu = None
        /\ TearDown(tgt[c], Verdict(tgt[c], x))
        /\ \/ UNCHANGED readVars
           \/ /\ Verdict(tgt[c], x) = "value" /\ Take(tgt[c])
              /\ pc[c] = "tryRecvLock"
        /\ Return(c, Answer(tgt[c], Verdict(tgt[c], x)))
        /\ UNCHANGED <<minted, wild, done, txClosed, hubClosed, mu, key, val,
                       version, snap, delivered, asleep>>
    BY <1>3 DEF TryLocked
  <2> HIDE DEF x
  <2> QED BY <1>1, <2>0, <2>1
<1> QED BY <1>2, <1>3

(* The feeder's iteration, without its parking. *)
LEMMA FeederLocks ==
  ASSUME NEW rx, FeedLocked(rx)
  PROVE  /\ pc[rx] = "feedLock" /\ mu = None
         /\ lastSeen' = [lastSeen EXCEPT ![rx] = Committed(rx)]
         /\ delivered' = [delivered EXCEPT ![rx] = 0]
         /\ TearDown(rx, FeedVerdict(rx))
         /\ \/ /\ FeedVerdict(rx) \in {"closed", "drained"}
               /\ Goto(rx, "feedExited") /\ UNCHANGED <<snap, asleep>>
               /\ Unpark(rx, rx)
            \/ /\ FeedVerdict(rx) = "value" /\ Goto(rx, "feedDeliver")
               /\ snap' = [snap EXCEPT ![rx] = Slot(rx)]
               /\ Park(rx, rx)
            \/ /\ FeedVerdict(rx) = "empty" /\ Goto(rx, "feedPark")
               /\ UNCHANGED snap
               /\ Park(rx, rx)
         /\ UNCHANGED <<minted, wild, done, txClosed, hubClosed, mu, key, val,
                        version, handed, callVars>>
BY DEF FeedLocked, flagVars, handleVars, slotVars

-----------------------------------------------------------------------------
(* The invariant, group by group. *)

LEMMA NextHubTypes == ASSUME TypeInv, [Next]_vars PROVE HubTypes'
<1>0. HubTypes
  BY DEF TypeInv
<1>1. ASSUME NEW c \in Clients, Watching(c) PROVE HubTypes'
  <2>1. PICK rx \in Receivers, k \in Keys \cup {None}, cur \in Values \cup {None} :
          Watch(c, rx, k, cur)
    BY <1>1 DEF Watching
  <2>2. CASE UNCHANGED mapVars /\ done' = [done EXCEPT ![rx] = TRUE]
    BY <1>0, <2>1, <2>2 DEF Watch, mapVars, flagVars, HubTypes
  <2>3. CASE Register(rx, k, k = None) /\ UNCHANGED done
    <3>1. /\ minted' = minted \cup {rx} /\ wild' \in [Receivers -> BOOLEAN]
          /\ UNCHANGED <<txClosed, hubClosed, mu>>
      BY <1>0, <2>1 DEF Watch, flagVars, HubTypes
    <3>2. receivers' = receivers \cup {rx} /\ live' = Sync(Cardinality(receivers'))
      BY <2>3 DEF Register
    <3>3. live' \in Nat \cup {Poisoned}
      <4>1. receivers \cup {rx} \subseteq Receivers
        BY <1>0 DEF HubTypes
      <4>2. Cardinality(receivers \cup {rx}) \in Nat
        BY <4>1, CountType
      <4> QED BY <3>2, <4>2 DEF Sync
    <3>4. CASE k = None
      BY <1>0, <2>3, <3>1, <3>2, <3>3, <3>4 DEF Register, HubTypes
    <3>5. CASE k # None
      <4>1. Watchers(k) \subseteq minted
        BY <1>0 DEF Watchers, HubTypes
      <4>2. index' = Indexed(k, Watchers(k) \cup {rx}) /\ UNCHANGED wildcard
        BY <2>3, <3>5 DEF Register
      <4>3. DOMAIN index' \subseteq Keys
        BY <1>0, <3>5, <4>2 DEF Indexed, HubTypes
      <4>4. \A j \in DOMAIN index' : index'[j] \subseteq minted \cup {rx}
        BY <1>0, <4>1, <4>2 DEF Indexed, HubTypes
      <4> QED BY <1>0, <2>3, <3>1, <3>2, <3>3, <4>2, <4>3, <4>4 DEF HubTypes
    <3> QED BY <3>4, <3>5
  <2> QED BY <2>1, <2>2, <2>3 DEF Watch
<1>2. ASSUME NEW c \in Clients, CloseSender(c) PROVE HubTypes'
  BY <1>0, <1>2 DEF CloseSender, HubTypes, handleVars
<1>3. ASSUME NEW c \in Clients, ClosingHub(c) PROVE HubTypes'
  <2>1. CASE CloseHub(c)
    BY <1>0, <2>1 DEF CloseHub, HubTypes, handleVars
  <2>2. CASE CloseHubEnd(c)
    BY <1>0, <2>2 DEF CloseHubEnd, HubTypes, handleVars, NoKeys
  <2>3. CASE \E rx \in Receivers : CloseHubDone(c, rx)
    BY <1>0, <2>3 DEF CloseHubDone, HubTypes, handleVars, hubVars
  <2> QED BY <1>3, <2>1, <2>2, <2>3 DEF ClosingHub
<1>4. ASSUME NEW c \in Clients, ClosingOne(c) PROVE HubTypes'
  BY <1>0, <1>4, DeregisterTypes
  DEF ClosingOne, CloseReceiver, HubTypes, handleVars, flagVars
<1>5. ASSUME NEW c \in Clients, RecvLocked(c) \/ TryLocked(c) PROVE HubTypes'
  <2>1. PICK rx \in Receivers, x \in Contexts :
          /\ TearDown(rx, Verdict(rx, x))
          /\ UNCHANGED <<minted, wild, done, txClosed, hubClosed, mu>>
    BY <1>5, ReaderSteps
  <2> QED BY <2>1, TearDownTypes
<1>6. ASSUME NEW rx \in Receivers, FeedLocked(rx) PROVE HubTypes'
  BY <1>6, FeederLocks, TearDownTypes
<1>7. CASE UNCHANGED <<hubVars, index, wildcard, handleVars, done>>
  BY <1>0, <1>7 DEF HubTypes, hubVars, handleVars
<1> QED BY <1>1, <1>2, <1>3, <1>4, <1>5, <1>6, <1>7, WhoTouchesHub

(* A send under the mutex answers, and fans out to some of the receivers it *)
(* is for unless it is refused.                                             *)
LEMMA SendSteps ==
  ASSUME TypeInv, NEW c \in Clients, SendLocked(c)
  PROVE  /\ pc[c] = "sendLock" /\ mu = None /\ \E r \in Results : Return(c, r)
         /\ \/ UNCHANGED <<slotVars, asleep>>
            \/ /\ ~txClosed
               /\ \E k \in Keys, v \in Values, R \in SUBSET Receivers :
                    /\ <<k, v>> \in Publications
                    /\ R \subseteq Watchers(k) \cup wildcard /\ FanOut(R, k, v)
         /\ UNCHANGED <<hubVars, index, wildcard, handleVars, readVars, done,
                        waiters, parked, feedVars>>
<1>1. /\ Ok \in Results /\ Result("ErrClosed", <<>>) \in Results
      /\ Result("ctx.Err", <<>>) \in Results /\ Result("panic", <<>>) \in Results
  BY DEF Ok, Result, Results
<1>2. \E r \in Results : Return(c, r)
  BY <1>1 DEF SendLocked
<1>3. /\ msg[c] \in Publications /\ msg[c] = <<msg[c][1], msg[c][2]>>
      /\ msg[c][1] \in Keys /\ msg[c][2] \in Values
  BY WatchAssumption DEF SendLocked, TypeInv, CallTypes, SendPCs
<1> DEFINE k == msg[c][1]
           v == msg[c][2]
<1>4. Watchers(k) \cup wildcard \subseteq Receivers
  BY DEF Watchers, TypeInv, HubTypes
<1>5. \A bad : \A R \in ReachedBefore(bad, k) : R \subseteq Watchers(k) \cup wildcard
  BY DEF ReachedBefore
<1>6. \/ UNCHANGED <<slotVars, asleep>>
      \/ ~txClosed /\ \E R : R \subseteq Watchers(k) \cup wildcard /\ FanOut(R, k, v)
  BY <1>5 DEF SendLocked
<1> HIDE DEF k, v
<1>7. <<k, v>> \in Publications /\ k \in Keys /\ v \in Values
  BY <1>3 DEF k, v
<1> QED BY <1>2, <1>4, <1>6, <1>7 DEF SendLocked

(* What a landing does to one receiver's slot. *)
Lands(rx, k, v) ==
  /\ ~txClosed /\ mu = None /\ Judged(rx, v) = "take"
  /\ rx \in Watchers(k) \cup wildcard
  /\ key'[rx] = k /\ val'[rx] = v /\ version'[rx] = version[rx] + 1
  /\ asleep'[rx] = Signalled(rx)
  /\ UNCHANGED <<readVars, feedVars, handleVars, pc[rx]>>

(* A slot is written when its handle is made, which leaves its version at   *)
(* zero, and by a landing.                                                  *)
SlotStep(rx) ==
  \/ UNCHANGED <<key[rx], val[rx], version[rx]>>
  \/ rx \notin minted /\ UNCHANGED version[rx]
  \/ \E k \in Keys, v \in Values : <<k, v>> \in Publications /\ Lands(rx, k, v)

(* What any step may do to a slot.                                          *)
LEMMA NextSlotStep ==
  ASSUME TypeInv, [Next]_vars PROVE \A rx \in Receivers : SlotStep(rx)
<1> SUFFICES ASSUME NEW rx \in Receivers PROVE SlotStep(rx)
  OBVIOUS
<1>0. /\ key \in [Receivers -> Keys \cup {None}]
      /\ val \in [Receivers -> Values \cup {None}]
  BY DEF TypeInv, SlotTypes
<1>1. ASSUME NEW c \in Clients, Watching(c) PROVE SlotStep(rx)
  BY <1>0, <1>1 DEF Watching, Watch, SlotStep
<1>2. ASSUME NEW c \in Clients, SendLocked(c) PROVE SlotStep(rx)
  <2>1. CASE UNCHANGED slotVars
    BY <2>1 DEF SlotStep, slotVars
  <2>2. ASSUME ~txClosed, NEW k \in Keys, NEW v \in Values, NEW R,
               <<k, v>> \in Publications,
               R \subseteq Watchers(k) \cup wildcard, FanOut(R, k, v)
        PROVE  SlotStep(rx)
    <3>1. CASE rx \in Hit(R, v)
      <4>1. rx \in R /\ Judged(rx, v) = "take"
        BY <3>1 DEF Hit
      <4>2. /\ key'[rx] = k /\ val'[rx] = v /\ version'[rx] = version[rx] + 1
            /\ asleep'[rx] = Signalled(rx)
        BY <2>2, <3>1 DEF FanOut, Land
      <4>3. mu = None /\ UNCHANGED <<readVars, feedVars, handleVars>>
        BY <1>2 DEF SendLocked
      <4>4. pc'[rx] = pc[rx]
        BY <1>2, WhoIsWho DEF SendLocked, Return, Goto, TypeInv, CallTypes
      <4> QED BY <2>2, <4>1, <4>2, <4>3, <4>4 DEF SlotStep, Lands
    <3>2. CASE rx \notin Hit(R, v)
      BY <2>2, <3>2 DEF FanOut, Land, SlotStep
    <3> QED BY <3>1, <3>2
  <2> QED BY <1>2, <2>1, <2>2, SendSteps
<1>3. CASE UNCHANGED slotVars
  BY <1>3 DEF SlotStep, slotVars
<1>4. ASSUME NEW c \in Clients, RecvLocked(c) \/ TryLocked(c) PROVE SlotStep(rx)
  BY <1>3, <1>4 DEF RecvLocked, TryLocked
<1>5. ASSUME NEW r \in Receivers, FeedLocked(r) \/ ChanReceive(r)
      PROVE  SlotStep(rx)
  BY <1>3, <1>5 DEF FeedLocked, ChanReceive
<1> QED BY <1>1, <1>2, <1>3, <1>4, <1>5, WhoTouchesSlots

(* A slot with a version shows an event, so a reader is answered with one.  *)
LEMMA SlotIsEvent ==
  ASSUME TypeInv, NEW rx \in Receivers, version[rx] > 0 PROVE Slot(rx) \in Events
BY DEF TypeInv, SlotTypes, Slot, Events

(* The answer for any verdict is a result.                                  *)
LEMMA AnswerType ==
  ASSUME TypeInv, NEW rx \in Receivers, NEW x
  PROVE  Answer(rx, Verdict(rx, x)) \in Results
<1>1. Unread(rx) => Slot(rx) \in Events
  BY SlotIsEvent DEF Unread, TypeInv, SlotTypes
<1>2. Unread(rx) => <<Slot(rx)>> \in Seq(Events)
  BY <1>1
<1>3. \A s \in Seq(Events), e \in {"nil", "ErrClosed", "ErrEmpty", "ctx.Err"} :
        Result(e, s) \in Results
  BY DEF Result, Results
<1>4. <<>> \in Seq(Events)
  OBVIOUS
<1> QED BY <1>2, <1>3, <1>4, VerdictType DEF Answer

(* Taking commits the version of the slot and hands it out once.            *)
LEMMA TakeTypes ==
  ASSUME TypeInv, NEW rx \in Receivers, Take(rx), Unread(rx)
  PROVE  /\ lastSeen' \in [Receivers -> Nat] /\ handed' \in [Receivers -> Seq(Events)]
         /\ lastSeen'[rx] = version[rx] /\ handed'[rx] = Append(handed[rx], Slot(rx))
         /\ \A r \in Receivers : r # rx => UNCHANGED <<lastSeen[r], handed[r]>>
<1>1. Slot(rx) \in Events
  BY SlotIsEvent DEF Unread, TypeInv, SlotTypes
<1>2. Append(handed[rx], Slot(rx)) \in Seq(Events)
  BY <1>1, AppendProperties DEF TypeInv, SlotTypes
<1> QED BY <1>2 DEF Take, TypeInv, SlotTypes

(* Every step keeps the types of the slots.                                 *)
LEMMA NextSlotTypes == ASSUME TypeInv, [Next]_vars PROVE SlotTypes'
<1>0. SlotTypes
  BY DEF TypeInv
<1>K. \A rx \in minted : rx \in minted'
  BY WhoTouchesHub, ReaderSteps, FeederLocks
  DEF Watching, ClosingHub, ClosingOne, Watch, CloseSender, CloseHub,
      CloseHubEnd, CloseHubDone, CloseReceiver, handleVars
<1>1. ASSUME NEW c \in Clients, Watching(c) PROVE SlotTypes'
  <2>1. PICK rx \in Receivers, k \in Keys \cup {None}, cur \in Values \cup {None} :
          Watch(c, rx, k, cur)
    BY <1>1 DEF Watching
  <2>2. /\ rx \notin minted /\ key' = [key EXCEPT ![rx] = k]
        /\ val' = [val EXCEPT ![rx] = cur]
        /\ UNCHANGED <<version, lastSeen, handed>>
    BY <2>1 DEF Watch, readVars
  <2>3. \A r \in Receivers : version[r] > 0 => r # rx
    BY <1>0, <2>2 DEF SlotTypes
  <2> QED BY <1>0, <1>K, <2>2, <2>3 DEF SlotTypes
<1>2. ASSUME NEW c \in Clients, SendLocked(c) PROVE SlotTypes'
  <2>1. CASE UNCHANGED slotVars
    BY <1>0, <1>2, <1>K, <2>1, SendSteps DEF SlotTypes, slotVars, readVars
  <2>2. ASSUME NEW k \in Keys, NEW v \in Values, NEW R, FanOut(R, k, v),
               R \subseteq Watchers(k) \cup wildcard
        PROVE  SlotTypes'
    <3>1. UNCHANGED <<readVars, handleVars>> /\ Watchers(k) \cup wildcard \subseteq minted
      BY <1>2, SendSteps DEF Watchers, TypeInv, HubTypes
    <3> DEFINE hit == Hit(R, v)
    <3>2. hit \subseteq minted
      BY <2>2, <3>1 DEF Hit
    <3> HIDE DEF hit
    <3>3. /\ key' = [rx \in Receivers |-> IF rx \in hit THEN k ELSE key[rx]]
          /\ val' = [rx \in Receivers |-> IF rx \in hit THEN v ELSE val[rx]]
          /\ version' = [rx \in Receivers |-> IF rx \in hit THEN version[rx] + 1
                                              ELSE version[rx]]
      BY <2>2 DEF FanOut, Land, hit
    <3>4. \A rx \in Receivers : version'[rx] > 0 =>
            rx \in minted' /\ key'[rx] \in Keys /\ val'[rx] \in Values
      BY <1>0, <1>K, <3>2, <3>3 DEF SlotTypes
    <3>5. /\ key' \in [Receivers -> Keys \cup {None}]
          /\ val' \in [Receivers -> Values \cup {None}]
          /\ version' \in [Receivers -> Nat]
      BY <1>0, <3>3 DEF SlotTypes
    <3> QED BY <1>0, <3>1, <3>4, <3>5 DEF SlotTypes, readVars
  <2> QED BY <1>2, <2>1, <2>2, SendSteps
<1>3. ASSUME NEW c \in Clients, RecvLocked(c) \/ TryLocked(c) PROVE SlotTypes'
  <2>1. PICK rx \in Receivers, x \in Contexts :
          /\ UNCHANGED readVars \/ (Verdict(rx, x) = "value" /\ Take(rx))
          /\ UNCHANGED <<minted, key, val, version>>
    BY <1>3, ReaderSteps
  <2>2. CASE UNCHANGED readVars
    BY <1>0, <2>1, <2>2 DEF SlotTypes, readVars
  <2>3. CASE Unread(rx) /\ Take(rx)
    BY <1>0, <2>1, <2>3, TakeTypes DEF SlotTypes
  <2> QED BY <2>1, <2>2, <2>3, VerdictType
<1>4. ASSUME NEW rx \in Receivers, FeedLocked(rx) PROVE SlotTypes'
  <2>1. Committed(rx) \in Nat
    BY DEF Committed, Newest, TypeInv, SlotTypes, FeedTypes
  <2>2. /\ lastSeen' = [lastSeen EXCEPT ![rx] = Committed(rx)]
        /\ UNCHANGED <<minted, key, val, version, handed>>
    BY <1>4, FeederLocks
  <2> QED BY <1>0, <2>1, <2>2 DEF SlotTypes
<1>5. ASSUME NEW rx \in Receivers, ChanReceive(rx) PROVE SlotTypes'
  <2>1. snap[rx] \in Events
    BY <1>5 DEF ChanReceive, TypeInv, FeedTypes
  <2>2. Append(handed[rx], snap[rx]) \in Seq(Events)
    BY <1>0, <2>1, AppendProperties DEF SlotTypes
  <2>3. /\ handed' = [handed EXCEPT ![rx] = Append(handed[rx], snap[rx])]
        /\ UNCHANGED <<minted, key, val, version, lastSeen>>
    BY <1>5 DEF ChanReceive, handleVars, slotVars
  <2> QED BY <1>0, <2>2, <2>3 DEF SlotTypes
<1>6. CASE UNCHANGED <<slotVars, readVars>>
  BY <1>0, <1>6, <1>K DEF SlotTypes, slotVars, readVars
<1> QED BY <1>1, <1>2, <1>3, <1>4, <1>5, <1>6, WhoTouchesSlots

(* Every step keeps the types of the wait state.                            *)
LEMMA NextWakeTypes == ASSUME TypeInv, [Next]_vars PROVE
  /\ waiters' \in [Receivers -> Int]
  /\ asleep' \in [Receivers -> SUBSET Procs]
  /\ parked' \in [Procs -> BOOLEAN]
<1> DEFINE Kept == /\ waiters' \in [Receivers -> Int]
                   /\ asleep' \in [Receivers -> SUBSET Procs]
                   /\ parked' \in [Procs -> BOOLEAN]
<1>0. WakeTypes
  BY DEF TypeInv
<1>1. ASSUME NEW p \in Procs, NEW rx \in Receivers, Park(p, rx) PROVE Kept
  BY <1>0, <1>1 DEF Park, WaitersLess, WakeTypes
<1>2. ASSUME NEW p \in Procs, NEW rx \in Receivers, Unpark(p, rx), UNCHANGED asleep
      PROVE  Kept
  BY <1>0, <1>2 DEF Unpark, WaitersLess, WakeTypes
<1>3. ASSUME UNCHANGED <<waiters, parked>>, asleep' \in [Receivers -> SUBSET Procs]
      PROVE  Kept
  BY <1>0, <1>3 DEF WakeTypes
<1>4. ASSUME NEW c \in Clients, SendLocked(c) PROVE Kept
  <2>1. CASE UNCHANGED asleep
    BY <1>0, <1>3, <1>4, <2>1 DEF SendLocked, WakeTypes
  <2>2. CASE \E k, v, R : FanOut(R, k, v)
    <3>1. asleep' \in [Receivers -> SUBSET Procs]
      BY <1>0, <2>2 DEF FanOut, Land, Signalled, WakeTypes
    <3> QED BY <1>3, <1>4, <3>1 DEF SendLocked
  <2> QED BY <1>4, <2>1, <2>2, SendSteps
<1>5. ASSUME NEW c \in Clients, CloseSender(c) PROVE Kept
  <2>1. asleep' \in [Receivers -> SUBSET Procs]
    BY <1>0, <1>5 DEF CloseSender, Signalled, WakeTypes
  <2> QED BY <1>3, <1>5, <2>1 DEF CloseSender
<1>6. ASSUME NEW c \in Clients, RecvLocked(c) PROVE Kept
  <2>1. tgt[c] \in Receivers
    BY <1>6 DEF RecvLocked, TypeInv, CallTypes, ReadPCs
  <2> QED BY <1>2, <1>6, <2>1, WhoIsWho DEF RecvLocked
<1>7. ASSUME NEW c \in Clients, ParkingOnly(c) PROVE Kept
  <2>1. tgt[c] \in Receivers
    BY <1>7 DEF ParkingOnly, RecvPark, RecvWake, RecvDefer, TypeInv, CallTypes, ReadPCs
  <2>2. CASE RecvPark(c)
    BY <1>1, <2>1, <2>2, WhoIsWho DEF RecvPark
  <2>3. CASE RecvWake(c)
    BY <1>0, <1>3, <2>3 DEF RecvWake, WakeTypes
  <2>4. CASE RecvDefer(c)
    BY <1>2, <2>1, <2>4, WhoIsWho DEF RecvDefer
  <2> QED BY <1>7, <2>2, <2>3, <2>4 DEF ParkingOnly
<1>8. ASSUME NEW rx \in Receivers, FeedLocked(rx) PROVE Kept
  BY <1>1, <1>2, <1>8, WhoIsWho DEF FeedLocked
<1>9. ASSUME NEW rx \in Receivers, ChanReceive(rx) \/ FeedWake(rx) PROVE Kept
  BY <1>0, <1>3, <1>9 DEF ChanReceive, FeedWake, WakeTypes
<1>10. ASSUME NEW rx \in Receivers, FeedDefer(rx) PROVE Kept
  BY <1>2, <1>10, WhoIsWho DEF FeedDefer
<1>11. CASE UNCHANGED wakeVars
  BY <1>0, <1>11 DEF wakeVars, WakeTypes
<1> QED BY <1>4, <1>5, <1>6, <1>7, <1>8, <1>9, <1>10, <1>11, WhoTouchesWakes

(* The locals of the calls, and where everybody is. *)
CallsTyped == CallTypes /\ tgt \in [Clients -> Receivers \cup {None}]

(* A return with a result keeps the types of the calls.                     *)
LEMMA ReturnType ==
  ASSUME TypeInv, NEW c \in Clients, NEW r \in Results, Return(c, r)
  PROVE  CallsTyped'
BY WhoIsWho DEF Return, Goto, TypeInv, CallTypes, WakeTypes, CallsTyped,
                ClientPCs, FeederPCs, Contexts, SendPCs, ReadPCs

(* Entering an operation with arguments of its kind keeps the types.        *)
LEMMA EnterType ==
  ASSUME TypeInv, NEW c \in Clients, NEW l \in ClientPCs,
         NEW rx \in Receivers \cup {None}, NEW ev \in Publications \cup {None},
         NEW x \in Contexts,
         l \in SendPCs => ev \in Publications, l \in ReadPCs => rx \in Receivers,
         Enter(c, l, rx, ev, x)
  PROVE  CallsTyped'
<1>1. Ok \in Results
  BY DEF Ok, Result, Results
<1> QED BY <1>1, WhoIsWho DEF Enter, Goto, TypeInv, CallTypes, WakeTypes, CallsTyped

(* Moving on within an operation keeps the types.                           *)
LEMMA GotoType ==
  ASSUME TypeInv, NEW p \in Procs, NEW l, Goto(p, l), UNCHANGED callVars,
         p \in Clients => /\ l \in ClientPCs
                          /\ l \in SendPCs => pc[p] \in SendPCs
                          /\ l \in ReadPCs => pc[p] \in ReadPCs,
         p \in Receivers => l \in FeederPCs
  PROVE  CallsTyped'
<1>1. CallTypes /\ tgt \in [Clients -> Receivers \cup {None}]
  BY DEF TypeInv, WakeTypes
<1>2. p \in Clients \/ p \in Receivers
  BY DEF Procs
<1>3. \A q \in Procs : pc'[q] = IF q = p THEN l ELSE pc[q]
  BY <1>1 DEF Goto, CallTypes
<1>4. pc' \in [Procs -> ClientPCs \cup FeederPCs]
  BY <1>1, <1>2 DEF Goto, CallTypes
<1>5. UNCHANGED <<tgt, msg, ctx, ret>>
  BY DEF callVars
<1>6. ASSUME NEW c \in Clients
      PROVE  /\ pc'[c] \in ClientPCs
             /\ pc'[c] \in SendPCs => msg'[c] \in Publications
             /\ pc'[c] \in ReadPCs => tgt'[c] \in Receivers
  <2>1. CASE c = p
    BY <1>1, <1>3, <1>5, <2>1 DEF CallTypes
  <2>2. CASE c # p
    BY <1>1, <1>3, <1>5, <2>2, WhoIsWho DEF CallTypes
  <2> QED BY <2>1, <2>2
<1>7. ASSUME NEW rx \in Receivers PROVE pc'[rx] \in FeederPCs
  BY <1>1, <1>3, WhoIsWho DEF CallTypes
<1> QED BY <1>1, <1>4, <1>5, <1>6, <1>7 DEF CallsTyped, CallTypes

(* Every step keeps the types of the calls.                                 *)
LEMMA NextCallTypes == ASSUME TypeInv, [Next]_vars PROVE CallsTyped'
<1>0. CallsTyped
  BY DEF TypeInv, WakeTypes, CallsTyped
<1>E. Result("ErrClosed", <<>>) \in Results /\ Ok \in Results
  BY DEF Ok, Result, Results
<1>K. UNCHANGED <<pc, callVars>> => CallsTyped'
  BY <1>0 DEF CallsTyped, CallTypes, callVars
<1>1. ASSUME NEW c \in Clients, NEW pub \in Publications, NEW x \in Contexts,
             CallSend(c, pub, x)
      PROVE  CallsTyped'
  <2>1. {"sendLock", "sendCtx"} \subseteq ClientPCs
        /\ "sendLock" \notin ReadPCs /\ "sendCtx" \notin ReadPCs
    BY DEF ClientPCs, ReadPCs
  <2>2. \/ Return(c, Ok) \/ Enter(c, "sendLock", None, pub, x)
        \/ Enter(c, "sendCtx", None, pub, x)
    BY <1>1 DEF CallSend
  <2> QED BY <1>E, <2>1, <2>2, EnterType, ReturnType
<1>2. ASSUME NEW c \in Clients, NEW rx \in Receivers, NEW x \in Contexts,
             CallRecv(c, rx, x)
      PROVE  CallsTyped'
  <2>1. "recvLock" \in ClientPCs /\ "recvLock" \notin SendPCs
    BY DEF ClientPCs, SendPCs
  <2>2. Return(c, Result("ErrClosed", <<>>)) \/ Enter(c, "recvLock", rx, None, x)
    BY <1>2 DEF CallRecv
  <2> QED BY <1>E, <2>1, <2>2, EnterType, ReturnType
<1>3. ASSUME NEW c \in Clients, NEW rx \in Receivers, CallTryRecv(c, rx) \/ CallPeek(c, rx)
      PROVE  CallsTyped'
  <2>1. {"tryRecvLock", "peekLock"} \subseteq ClientPCs /\ "none" \in Contexts
        /\ "tryRecvLock" \notin SendPCs /\ "peekLock" \notin SendPCs
    BY DEF ClientPCs, SendPCs, Contexts
  <2>2. \/ Return(c, Result("ErrClosed", <<>>))
        \/ Enter(c, "tryRecvLock", rx, None, "none")
        \/ Enter(c, "peekLock", rx, None, "none")
    BY <1>3 DEF CallTryRecv, CallPeek
  <2> QED BY <1>E, <2>1, <2>2, EnterType, ReturnType
<1>4. ASSUME NEW c \in Clients, SendCtx(c) PROVE CallsTyped'
  <2>1. "sendLock" \in ClientPCs /\ "sendLock" \notin ReadPCs
        /\ {"sendLock", "sendCtx"} \subseteq SendPCs
    BY DEF ClientPCs, ReadPCs, SendPCs
  <2>2. \/ Return(c, Ok)
        \/ pc[c] = "sendCtx" /\ Goto(c, "sendLock") /\ UNCHANGED callVars
    BY <1>4 DEF SendCtx
  <2> QED BY <1>E, <2>1, <2>2, ReturnType, GotoType, WhoIsWho
<1>5. ASSUME NEW c \in Clients, Cancel(c) PROVE CallsTyped'
  <2>1. ctx' \in [Clients -> Contexts] /\ UNCHANGED <<pc, tgt, msg, ret>>
    BY <1>0, <1>5 DEF Cancel, Contexts, CallsTyped, CallTypes
  <2> QED BY <1>0, <2>1 DEF CallsTyped, CallTypes
<1>6. ASSUME NEW c \in Clients, Watching(c) \/ ClosingOne(c) \/ CloseSender(c)
      PROVE  CallsTyped'
  BY <1>6, <1>K DEF Watching, Watch, ClosingOne, CloseReceiver, CloseSender
<1>7. ASSUME NEW c \in Clients, ClosingHub(c) PROVE CallsTyped'
  <2>1. {"hubClosing", "idle"} \subseteq ClientPCs \ (SendPCs \cup ReadPCs)
    BY DEF ClientPCs, SendPCs, ReadPCs
  <2>2. \/ UNCHANGED <<pc, callVars>>
        \/ UNCHANGED callVars /\ (Goto(c, "hubClosing") \/ Goto(c, "idle"))
    BY <1>7 DEF ClosingHub, CloseHub, CloseHubEnd, CloseHubDone
  <2> QED BY <1>K, <2>1, <2>2, GotoType, WhoIsWho
<1>8. ASSUME NEW c \in Clients, SendLocked(c) PROVE CallsTyped'
  BY <1>8, SendSteps, ReturnType
<1>9. ASSUME NEW c \in Clients, RecvLocked(c) \/ TryLocked(c) PROVE CallsTyped'
  BY <1>9, ReaderSteps, AnswerType, ReturnType
<1>10. ASSUME NEW c \in Clients, ParkingOnly(c) PROVE CallsTyped'
  <2>1. {"recvPark", "recvDefer", "recvLock"} \subseteq ReadPCs
        /\ {"recvPark", "recvDefer", "recvLock"} \subseteq ClientPCs \ SendPCs
    BY DEF ClientPCs, ReadPCs, SendPCs
  <2>2. \/ Return(c, Result("ErrClosed", <<>>))
        \/ /\ pc[c] \in {"recvLock", "recvPark"} /\ UNCHANGED callVars
           /\ \E l \in {"recvPark", "recvDefer", "recvLock"} : Goto(c, l)
    BY <1>10 DEF ParkingOnly, RecvPark, RecvWake, RecvDefer
  <2> QED BY <1>E, <2>1, <2>2, ReturnType, GotoType, WhoIsWho
<1>11. ASSUME NEW rx \in Receivers,
              Ranging(rx) \/ FeederOnly(rx) \/ FeedLocked(rx) \/ ChanReceive(rx)
       PROVE  CallsTyped'
  <2>1. UNCHANGED callVars /\ \E l \in FeederPCs : Goto(rx, l)
    BY <1>11 DEF Ranging, FeederOnly, Chan, FeedProbe, FeedExit, FeedWake,
                 FeedDefer, FeedLocked, ChanReceive, FeederPCs
  <2> QED BY <2>1, GotoType, WhoIsWho
<1>12. CASE UNCHANGED vars
  BY <1>12, <1>K DEF vars
<1> QED BY <1>1, <1>2, <1>3, <1>4, <1>5, <1>6, <1>7, <1>8, <1>9, <1>10, <1>11,
           <1>12, StepKinds DEF QuietStep

(* Every step keeps the types of the feeders.                               *)
LEMMA NextFeedTypes == ASSUME TypeInv, [Next]_vars PROVE FeedTypes'
<1>0. FeedTypes /\ pc \in [Procs -> ClientPCs \cup FeederPCs]
  BY DEF TypeInv, CallTypes
<1>1. ASSUME NEW rx \in Receivers, NEW l, Goto(rx, l),
             NEW s, NEW n \in Nat,
             snap' = [snap EXCEPT ![rx] = s],
             delivered' = [delivered EXCEPT ![rx] = n],
             IF l = "feedDeliver" THEN s \in Events ELSE s = None,
             l \in {"feedNone", "feedDeliver"} => n = 0
      PROVE  FeedTypes'
  <2>1. \A r \in Receivers : pc'[r] = IF r = rx THEN l ELSE pc[r]
    BY <1>0, <1>1, WhoIsWho DEF Goto
  <2>2. \A r \in Receivers : /\ snap'[r] = IF r = rx THEN s ELSE snap[r]
                             /\ delivered'[r] = IF r = rx THEN n ELSE delivered[r]
    BY <1>0, <1>1 DEF FeedTypes
  <2>3. s \in Events \cup {None}
    BY <1>1
  <2>4. snap' \in [Receivers -> Events \cup {None}] /\ delivered' \in [Receivers -> Nat]
    BY <1>0, <1>1, <2>3 DEF FeedTypes
  <2> QED BY <1>0, <1>1, <2>1, <2>2, <2>4 DEF FeedTypes
<1>L. ASSUME NEW rx \in Receivers, NEW l, Goto(rx, l), NEW n \in Nat,
             l \notin {"feedNone", "feedDeliver"},
             snap' = [snap EXCEPT ![rx] = None],
             delivered' = [delivered EXCEPT ![rx] = n]
      PROVE  FeedTypes'
  BY <1>1, <1>L
<1>2. ASSUME NEW rx \in Receivers, FeedExit(rx) PROVE FeedTypes'
  <2>1. PICK l \in {"feedDefer", "feedExited"} : Goto(rx, l)
    BY <1>2 DEF FeedExit
  <2>2. /\ snap' = [snap EXCEPT ![rx] = None]
        /\ delivered' = [delivered EXCEPT ![rx] = 0]
    BY <1>2 DEF FeedExit
  <2>3. 0 \in Nat
    OBVIOUS
  <2> QED BY <1>L, <2>1, <2>2, <2>3
<1>3. ASSUME NEW rx \in Receivers, UNCHANGED feedVars, NEW l, Goto(rx, l),
             pc[rx] # "feedDeliver", l \notin {"feedNone", "feedDeliver"}
      PROVE  FeedTypes'
  <2>1. /\ snap' = [snap EXCEPT ![rx] = None]
        /\ delivered' = [delivered EXCEPT ![rx] = delivered[rx]]
        /\ delivered[rx] \in Nat
    BY <1>0, <1>3 DEF FeedTypes, feedVars
  <2> QED BY <1>L, <1>3, <2>1
<1>4. ASSUME NEW rx \in Receivers, Ranging(rx) PROVE FeedTypes'
  BY <1>3, <1>4 DEF Ranging, Chan
<1>5. ASSUME NEW rx \in Receivers, FeederOnly(rx) PROVE FeedTypes'
  <2>1. CASE FeedProbe(rx)
    BY <1>2, <1>3, <2>1 DEF FeedProbe
  <2>2. CASE FeedWake(rx)
    <3>1. CASE FeedExit(rx)
      BY <1>2, <3>1
    <3>2. CASE /\ Goto(rx, "feedProbe") /\ UNCHANGED delivered
               /\ snap' = [snap EXCEPT ![rx] = None]
      <4>1. /\ delivered' = [delivered EXCEPT ![rx] = delivered[rx]]
            /\ delivered[rx] \in Nat
        BY <1>0, <3>2 DEF FeedTypes
      <4>2. PICK l \in {"feedProbe"} : Goto(rx, l)
        BY <3>2
      <4> QED BY <1>L, <3>2, <4>1, <4>2
    <3> QED BY <2>2, <3>1, <3>2 DEF FeedWake
  <2>3. CASE FeedDefer(rx)
    BY <1>3, <2>3 DEF FeedDefer
  <2> QED BY <1>5, <2>1, <2>2, <2>3 DEF FeederOnly
<1>6. ASSUME NEW rx \in Receivers, FeedLocked(rx) PROVE FeedTypes'
  <2>1. pc[rx] = "feedLock" /\ delivered' = [delivered EXCEPT ![rx] = 0] /\ 0 \in Nat
    BY <1>6, FeederLocks
  <2>2. CASE FeedVerdict(rx) = "value" /\ Goto(rx, "feedDeliver")
             /\ snap' = [snap EXCEPT ![rx] = Slot(rx)]
    <3>1. version[rx] > Committed(rx) /\ Committed(rx) \in Nat /\ version[rx] \in Nat
      BY <2>2, FeedVerdictType
      DEF Committed, Newest, TypeInv, SlotTypes, FeedTypes
    <3>2. Slot(rx) \in Events
      BY <3>1, SlotIsEvent
    <3> QED BY <1>1, <2>1, <2>2, <3>2
  <2>3. CASE UNCHANGED snap /\ (Goto(rx, "feedExited") \/ Goto(rx, "feedPark"))
    <3>1. snap' = [snap EXCEPT ![rx] = None]
      BY <1>0, <2>1, <2>3 DEF FeedTypes
    <3>2. PICK l \in {"feedExited", "feedPark"} : Goto(rx, l)
      BY <2>3
    <3> QED BY <1>L, <2>1, <3>1, <3>2
  <2> QED BY <1>6, <2>2, <2>3, FeederLocks
<1>7. ASSUME NEW rx \in Receivers, ChanReceive(rx) PROVE FeedTypes'
  <2>1. snap[rx] \in Events
    BY <1>0, <1>7 DEF ChanReceive, FeedTypes
  <2>2. snap[rx].ver \in Nat
    BY <2>1 DEF Events
  <2>3. PICK l \in {"feedProbe"} : Goto(rx, l)
    BY <1>7 DEF ChanReceive
  <2>4. /\ snap' = [snap EXCEPT ![rx] = None]
        /\ delivered' = [delivered EXCEPT ![rx] = snap[rx].ver]
    BY <1>7 DEF ChanReceive
  <2> QED BY <1>L, <2>2, <2>3, <2>4
<1>8. CASE UNCHANGED feedVars /\ \A rx \in Receivers : pc'[rx] = pc[rx]
  BY <1>0, <1>8 DEF FeedTypes, feedVars
<1> QED BY <1>4, <1>5, <1>6, <1>7, <1>8, WhoTouchesFeeds

(* Every step preserves the type invariant.                                 *)
LEMMA NextTypeInv == TypeInv /\ [Next]_vars => TypeInv'
BY NextHubTypes, NextSlotTypes, NextWakeTypes, NextCallTypes, NextFeedTypes
DEF TypeInv, WakeTypes, CallsTyped

(* TypeOK, for every number of clients and receivers, every set of keys and *)
(* values and every Accept: in particular no reader is handed an empty slot *)
(* or one without a key, and the maps of the hub only hold handles.         *)
THEOREM TypeCorrect == Spec => []TypeOK
<1>1. TypeInv => TypeOK
  BY TypesSuffice
<1> QED BY <1>1, InitTypeInv, NextTypeInv, PTL DEF Spec

-----------------------------------------------------------------------------
(* What a step may do to the hub, and to one receiver's reading. *)

(* A receiver leaves the maps, closed or drained. *)
Releasing(rx) ==
  /\ Deregister(rx) /\ mu = None
  /\ \/ rx \in minted /\ done' = [done EXCEPT ![rx] = TRUE]
     \/ /\ UNCHANGED done /\ txClosed /\ UNCHANGED version
        /\ ~(version[rx] > lastSeen'[rx])
  /\ UNCHANGED <<txClosed, hubClosed, mu, minted, wild, key>>

HubMove ==
  \/ UNCHANGED <<hubVars, index, wildcard, handleVars, done>>
  \/ \E c \in Clients : Watching(c) \/ CloseSender(c) \/ ClosingHub(c)
  \/ \E rx \in Receivers : Releasing(rx)

(* What any step may do to the hub and its handles.                         *)
LEMMA NextHubMove == ASSUME TypeInv, [Next]_vars PROVE HubMove
<1>1. ASSUME NEW c \in Clients, ClosingOne(c) PROVE HubMove
  <2>1. PICK rx \in Receivers : CloseReceiver(c, rx)
    BY <1>1 DEF ClosingOne
  <2>2. Releasing(rx)
    BY <2>1 DEF CloseReceiver, Releasing, flagVars, handleVars, slotVars
  <2> QED BY <2>2 DEF HubMove
<1>2. ASSUME NEW c \in Clients, RecvLocked(c) \/ TryLocked(c) PROVE HubMove
  <2>1. PICK rx \in Receivers, x \in Contexts :
          /\ mu = None /\ TearDown(rx, Verdict(rx, x))
          /\ UNCHANGED readVars \/ Verdict(rx, x) = "value"
          /\ UNCHANGED <<minted, wild, done, txClosed, hubClosed, mu, key, version>>
    BY <1>2, ReaderSteps
  <2>2. CASE Verdict(rx, x) = "drained" /\ Deregister(rx)
    <3>1. txClosed /\ ~Unread(rx) /\ UNCHANGED readVars
      BY <2>1, <2>2, VerdictType DEF Drained
    <3>2. Releasing(rx)
      BY <2>1, <2>2, <3>1 DEF Releasing, Unread, readVars
    <3> QED BY <3>2 DEF HubMove
  <2>3. CASE UNCHANGED mapVars
    BY <2>1, <2>3 DEF HubMove, mapVars, hubVars, handleVars
  <2> QED BY <2>1, <2>2, <2>3 DEF TearDown
<1>3. ASSUME NEW rx \in Receivers, FeedLocked(rx) PROVE HubMove
  <2>1. /\ mu = None /\ TearDown(rx, FeedVerdict(rx))
        /\ lastSeen' = [lastSeen EXCEPT ![rx] = Committed(rx)]
        /\ UNCHANGED <<minted, wild, done, txClosed, hubClosed, mu, key, version>>
    BY <1>3, FeederLocks
  <2>2. CASE FeedVerdict(rx) = "drained" /\ Deregister(rx)
    <3>1. txClosed /\ ~(version[rx] > Committed(rx))
      BY <2>2, FeedVerdictType
    <3>2. lastSeen'[rx] = Committed(rx)
      BY <2>1 DEF TypeInv, SlotTypes
    <3>3. Releasing(rx)
      BY <2>1, <2>2, <3>1, <3>2 DEF Releasing
    <3> QED BY <3>3 DEF HubMove
  <2>3. CASE UNCHANGED mapVars
    BY <2>1, <2>3 DEF HubMove, mapVars, hubVars, handleVars
  <2> QED BY <2>1, <2>2, <2>3 DEF TearDown
<1> QED BY <1>1, <1>2, <1>3, WhoTouchesHub DEF HubMove

(* The mutex stays with a client from the start of its Hub.Close to the end.*)
LEMMA WhoClosesHub ==
  ASSUME TypeInv, [Next]_vars, NEW c \in Clients, pc'[c] = "hubClosing"
  PROVE  CloseHub(c) \/ (pc[c] = "hubClosing" /\ ~CloseHubEnd(c))
<1>0. pc \in [Procs -> ClientPCs \cup FeederPCs] /\ c \in Procs
  BY WhoIsWho DEF TypeInv, CallTypes
<1>1. CloseHubEnd(c) => pc'[c] = "idle"
  BY <1>0 DEF CloseHubEnd, Goto
<1> SUFFICES ASSUME ~CloseHub(c) PROVE pc[c] = "hubClosing"
  BY <1>1
<1>2. ASSUME NEW p, NEW l, Goto(p, l), l # "hubClosing" PROVE pc[c] = "hubClosing"
  BY <1>0, <1>2 DEF Goto
<1>3. ASSUME NEW b \in Clients, Goto(b, "hubClosing"), b # c
      PROVE  pc[c] = "hubClosing"
  BY <1>0, <1>3 DEF Goto
<1>4. CASE UNCHANGED pc
  BY <1>4
<1>5. ASSUME NEW b \in Clients, QuietStep(b) PROVE pc[c] = "hubClosing"
  <2>1. \/ UNCHANGED pc
        \/ \E l \in {"idle", "sendLock", "sendCtx", "recvLock", "tryRecvLock",
                     "peekLock"} : Goto(b, l)
    BY <1>5 DEF QuietStep, CallSend, CallRecv, CallTryRecv, CallPeek, SendCtx,
                Cancel, Enter, Return
  <2> QED BY <1>2, <1>4, <2>1
<1>6. ASSUME NEW b \in Clients, Watching(b) \/ ClosingOne(b) \/ CloseSender(b)
      PROVE  pc[c] = "hubClosing"
  <2>1. UNCHANGED pc
    BY <1>6 DEF Watching, ClosingOne, Watch, CloseReceiver, CloseSender
  <2> QED BY <1>4, <2>1
<1>7. ASSUME NEW b \in Clients, ClosingHub(b) PROVE pc[c] = "hubClosing"
  <2>1. CASE CloseHub(b)
    BY <1>3, <2>1 DEF CloseHub
  <2>2. CASE CloseHubEnd(b)
    <3>1. \E l \in {"idle"} : Goto(b, l)
      BY <2>2 DEF CloseHubEnd
    <3> QED BY <1>2, <3>1
  <2>3. CASE \E rx \in Receivers : CloseHubDone(b, rx)
    BY <1>4, <2>3 DEF CloseHubDone
  <2> QED BY <1>7, <2>1, <2>2, <2>3 DEF ClosingHub
<1>8. ASSUME NEW b \in Clients,
             SendLocked(b) \/ RecvLocked(b) \/ TryLocked(b) \/ ParkingOnly(b)
      PROVE  pc[c] = "hubClosing"
  <2>1. \E l \in {"idle", "recvPark", "recvLock", "recvDefer"} : Goto(b, l)
    BY <1>8 DEF SendLocked, RecvLocked, TryLocked, ParkingOnly, RecvPark,
                RecvWake, RecvDefer, Return
  <2> QED BY <1>2, <2>1
<1>9. ASSUME NEW rx \in Receivers,
             Ranging(rx) \/ FeederOnly(rx) \/ FeedLocked(rx) \/ ChanReceive(rx)
      PROVE  pc[c] = "hubClosing"
  <2>1. \E l \in {"feedProbe", "feedLock", "feedDeliver", "feedPark", "feedDefer",
                  "feedExited"} : Goto(rx, l)
    BY <1>9 DEF Ranging, FeederOnly, Chan, FeedProbe, FeedExit, FeedWake,
                FeedDefer, FeedLocked, ChanReceive
  <2> QED BY <1>2, <2>1
<1>10. CASE UNCHANGED vars
  BY <1>4, <1>10 DEF vars
<1> QED BY <1>5, <1>6, <1>7, <1>8, <1>9, <1>10, StepKinds

-----------------------------------------------------------------------------
(* The gate of the send fast path, and what a closed handle may still be.   *)
(* LiveExact needs to know that a closing hub has closed its sender;        *)
(* a closed handle is in the maps only while Hub.Close holds the mutex.     *)
HubInv ==
  /\ LiveExact
  /\ hubClosed => txClosed
  /\ \A c \in Clients : pc[c] = "hubClosing" => hubClosed /\ mu = c
  /\ \A rx \in Receivers :
       done[rx] => rx \in minted /\ (rx \in receivers => mu # None)

(* The live count of a bus that has only been made is exact.                *)
LEMMA InitHubInv == Init => HubInv
<1> SUFFICES ASSUME Init PROVE HubInv
  OBVIOUS
<1>1. LiveExact
  BY FS_EmptySet DEF Init, LiveExact
<1>2. \A c \in Clients : pc[c] # "hubClosing"
  BY WhoIsWho DEF Init
<1>3. \A rx \in Receivers : ~done[rx]
  BY DEF Init
<1> QED BY <1>1, <1>2, <1>3 DEF Init, HubInv

(* A count taken from the map is no poison. *)
LEMMA SyncExact ==
  ASSUME LiveExact, NEW R, R \subseteq Receivers, receivers \subseteq Receivers,
         receivers' = R, live' = Sync(Cardinality(R)), UNCHANGED txClosed
  PROVE  LiveExact'
<1>1. Cardinality(R) \in Nat /\ Cardinality(receivers) \in Nat
  BY CountType
<1> QED BY <1>1 DEF LiveExact, Sync, Poisoned

(* Every step keeps the fast path exact and closed receivers finished.      *)
LEMMA NextHubInv == ASSUME TypeInv, HubInv, [Next]_vars PROVE HubInv'
<1>0. receivers \subseteq Receivers /\ minted \subseteq Receivers /\ LiveExact
      /\ receivers \subseteq minted /\ done \in [Receivers -> BOOLEAN]
  BY DEF TypeInv, HubTypes, HubInv
<1>2. CASE UNCHANGED <<hubVars, index, wildcard, handleVars, done>>
  <2>1. UNCHANGED <<txClosed, hubClosed, receivers, live, mu, minted, done>>
    BY <1>2 DEF hubVars, handleVars
  <2>2. LiveExact'
    BY <1>0, <2>1 DEF LiveExact
  <2>3. \A c \in Clients : pc'[c] = "hubClosing" => hubClosed' /\ mu' = c
    <3>1. ASSUME NEW c \in Clients, pc'[c] = "hubClosing", CloseHub(c)
          PROVE  FALSE
      BY <2>1, <3>1, WhoIsWho DEF CloseHub
    <3> QED BY <2>1, <3>1, WhoClosesHub DEF HubInv
  <2> QED BY <2>1, <2>2, <2>3 DEF HubInv
<1>3. ASSUME NEW c \in Clients, Watching(c) PROVE HubInv'
  <2>1. PICK rx \in Receivers, k \in Keys \cup {None}, cur \in Values \cup {None} :
          Watch(c, rx, k, cur)
    BY <1>3 DEF Watching
  <2>2. /\ minted' = minted \cup {rx} /\ rx \notin minted /\ mu = None
        /\ UNCHANGED <<txClosed, hubClosed, mu, pc>>
    BY <2>1 DEF Watch, flagVars
  <2>3. CASE UNCHANGED mapVars /\ done' = [done EXCEPT ![rx] = TRUE]
    <3>1. UNCHANGED <<receivers, live>>
      BY <2>3 DEF mapVars
    <3>2. LiveExact'
      BY <1>0, <2>2, <3>1 DEF LiveExact
    <3>3. rx \notin receivers
      BY <1>0, <2>2
    <3> QED BY <1>0, <2>2, <2>3, <3>1, <3>2, <3>3 DEF HubInv
  <2>4. CASE Register(rx, k, k = None) /\ UNCHANGED done
    <3>1. receivers' = receivers \cup {rx} /\ live' = Sync(Cardinality(receivers'))
      BY <2>4 DEF Register
    <3>2. LiveExact'
      BY <1>0, <2>2, <3>1, SyncExact
    <3>3. ~done[rx]
      BY <2>2 DEF HubInv
    <3> QED BY <1>0, <2>2, <2>4, <3>1, <3>2, <3>3 DEF HubInv
  <2> QED BY <2>1, <2>3, <2>4 DEF Watch
<1>4. ASSUME NEW c \in Clients, CloseSender(c) PROVE HubInv'
  BY <1>4 DEF CloseSender, HubInv, LiveExact, handleVars
<1>5. ASSUME NEW c \in Clients, CloseHub(c) PROVE HubInv'
  <2>1. /\ mu = None /\ mu' = c /\ Goto(c, "hubClosing") /\ hubClosed' /\ txClosed'
        /\ live' = Poisoned /\ UNCHANGED <<receivers, minted, done>>
    BY <1>5 DEF CloseHub, handleVars
  <2>2. \A b \in Clients : pc'[b] = "hubClosing" => b = c
    BY <2>1, WhoIsWho DEF Goto, HubInv, TypeInv, CallTypes
  <2> QED BY <2>1, <2>2, WhoIsWho DEF HubInv, LiveExact
<1>6. ASSUME NEW c \in Clients, NEW rx \in Receivers, CloseHubDone(c, rx)
      PROVE  HubInv'
  <2>1. /\ pc[c] = "hubClosing" /\ rx \in receivers
        /\ done' = [done EXCEPT ![rx] = TRUE]
        /\ UNCHANGED <<txClosed, hubClosed, receivers, live, mu, minted, pc>>
    BY <1>6 DEF CloseHubDone, hubVars, handleVars
  <2>2. mu # None
    BY <2>1, WhoIsWho DEF HubInv
  <2>3. LiveExact'
    BY <1>0, <2>1 DEF LiveExact
  <2>4. \A r \in Receivers : done'[r] => r \in minted' /\ (r \in receivers' => mu' # None)
    BY <1>0, <2>1, <2>2 DEF HubInv
  <2> QED BY <2>1, <2>3, <2>4 DEF HubInv
<1>7. ASSUME NEW c \in Clients, CloseHubEnd(c) PROVE HubInv'
  <2>1. /\ pc[c] = "hubClosing" /\ receivers' = {} /\ mu' = None
        /\ Goto(c, "idle") /\ UNCHANGED <<txClosed, hubClosed, live, minted, done>>
    BY <1>7 DEF CloseHubEnd, handleVars
  <2>2. mu = c /\ txClosed
    BY <2>1 DEF HubInv
  <2>3. \A b \in Clients : pc'[b] # "hubClosing"
    BY <2>1, <2>2, WhoIsWho DEF Goto, HubInv, TypeInv, CallTypes
  <2>4. LiveExact'
    BY <1>0, <2>1, <2>2 DEF LiveExact
  <2> QED BY <2>1, <2>2, <2>3, <2>4 DEF HubInv
<1>8. ASSUME NEW rx \in Receivers, Releasing(rx) PROVE HubInv'
  <2>1. /\ mu = None /\ receivers' = receivers \ {rx}
        /\ live' = Sync(Cardinality(receivers'))
        /\ UNCHANGED <<txClosed, hubClosed, mu, minted>>
    BY <1>8 DEF Releasing, Deregister
  <2>2. LiveExact'
    BY <1>0, <2>1, SyncExact
  <2>3. \A c \in Clients : pc'[c] = "hubClosing" => hubClosed' /\ mu' = c
    <3>1. ASSUME NEW c \in Clients, CloseHub(c) PROVE FALSE
      BY <2>1, <3>1, WhoIsWho DEF CloseHub
    <3> QED BY <2>1, <3>1, WhoClosesHub DEF HubInv
  <2>4. \A r \in Receivers : done'[r] => r \in minted /\ r \notin receivers'
    <3>1. CASE rx \in minted /\ done' = [done EXCEPT ![rx] = TRUE]
      BY <1>0, <2>1, <3>1 DEF HubInv
    <3>2. CASE UNCHANGED done
      BY <2>1, <3>2 DEF HubInv
    <3> QED BY <1>8, <3>1, <3>2 DEF Releasing
  <2> QED BY <2>1, <2>2, <2>3, <2>4 DEF HubInv
<1> QED BY <1>2, <1>3, <1>4, <1>5, <1>6, <1>7, <1>8, NextHubMove
        DEF HubMove, ClosingHub

(* LiveExact on the watch bus, for every number of receivers and senders: a *)
(* publisher that reads zero without the lock skips nobody, and a closed    *)
(* bus never looks idle.                                                    *)
THEOREM FastPathExact == Spec => []LiveExact
<1>1. HubInv => LiveExact
  BY DEF HubInv
<1> QED BY <1>1, InitTypeInv, NextTypeInv, InitHubInv, NextHubInv, PTL DEF Spec

-----------------------------------------------------------------------------
(* The three maps agree.  IndexExact is inductive: a handle's key is fixed  *)
(* when it is made, a landing on a receiver of one key writes that key, and *)
(* a receiver is taken out of the list it was put in.                       *)

LEMMA KeyStays ==
  ASSUME TypeInv, IndexExact, [Next]_vars, NEW rx \in minted, ~wild[rx]
  PROVE  key'[rx] = key[rx]
<1>1. SlotStep(rx)
  BY NextSlotStep DEF TypeInv, HubTypes
<1>2. ASSUME NEW k, Lands(rx, k, val'[rx]) PROVE key'[rx] = key[rx]
  <2>1. rx \in Watchers(k) /\ key'[rx] = k
    BY <1>2 DEF Lands, IndexExact
  <2>2. k \in DOMAIN index /\ rx \in index[k]
    BY <2>1 DEF Watchers
  <2> QED BY <2>1, <2>2 DEF IndexExact
<1> QED BY <1>1, <1>2 DEF SlotStep, Lands

(* Deregistering takes a receiver out of the one index it is in.            *)
LEMMA UnindexedExact ==
  ASSUME TypeInv, IndexExact, NEW rx \in Receivers, Deregister(rx),
         UNCHANGED <<wild, key>>
  PROVE  IndexExact'
<1>0. /\ wildcard = {r \in receivers : wild[r]}
      /\ DOMAIN index = {key[r] : r \in receivers \ wildcard}
      /\ \A k \in DOMAIN index :
           index[k] = {r \in receivers \ wildcard : key[r] = k}
  BY DEF IndexExact
<1>1. /\ receivers' = receivers \ {rx} /\ wildcard' = wildcard \ {rx}
      /\ wild' = wild /\ key' = key
  BY DEF Deregister
<1>2. wildcard' = {r \in receivers' : wild'[r]}
  BY <1>0, <1>1
<1> DEFINE left == (receivers \ wildcard) \ {rx}
<1>3. receivers' \ wildcard' = left
  BY <1>1
<1>W. \A k : Watchers(k) = {r \in receivers \ wildcard : key[r] = k}
  BY <1>0 DEF Watchers
<1>4. CASE wild[rx]
  <2>1. index' = index /\ rx \notin receivers \ wildcard
    BY <1>0, <1>4 DEF Deregister
  <2>2. left = receivers \ wildcard
    BY <2>1
  <2> QED BY <1>0, <1>1, <1>2, <1>3, <2>1, <2>2 DEF IndexExact
<1>5. CASE ~wild[rx] /\ Watchers(key[rx]) \ {rx} # {}
  <2>1. index' = Indexed(key[rx], Watchers(key[rx]) \ {rx})
    BY <1>5 DEF Deregister, Unindexed
  <2>2. key[rx] \in DOMAIN index
    BY <1>5 DEF Watchers
  <2>3. DOMAIN index' = DOMAIN index
    BY <2>1, <2>2 DEF Indexed
  <2>4. \A k \in DOMAIN index' : index'[k] = {r \in left : key[r] = k}
    <3>1. \A k \in DOMAIN index' :
            index'[k] = IF k = key[rx] THEN Watchers(k) \ {rx} ELSE Watchers(k)
      BY <2>1, <2>3 DEF Indexed, Watchers
    <3> QED BY <1>W, <3>1
  <2>5. DOMAIN index = {key[r] : r \in left}
    <3>1. PICK r \in left : key[r] = key[rx]
      BY <1>5, <1>W
    <3> QED BY <1>0, <3>1
  <2> QED BY <1>1, <1>2, <1>3, <2>3, <2>4, <2>5 DEF IndexExact
<1>6. CASE ~wild[rx] /\ Watchers(key[rx]) \ {rx} = {}
  <2>1. index' = [j \in DOMAIN index \ {key[rx]} |-> index[j]]
    BY <1>6 DEF Deregister, Unindexed
  <2>2. \A r \in left : key[r] # key[rx]
    BY <1>6, <1>W
  <2>3. DOMAIN index' = {key[r] : r \in left}
    BY <1>0, <2>1, <2>2
  <2>4. \A k \in DOMAIN index' : index'[k] = {r \in left : key[r] = k}
    BY <1>0, <2>1, <2>2
  <2> QED BY <1>1, <1>2, <1>3, <2>3, <2>4 DEF IndexExact
<1> QED BY <1>4, <1>5, <1>6

(* Registering puts a receiver into the one index its key asks for.         *)
LEMMA RegisterExact ==
  ASSUME TypeInv, IndexExact, NEW rx \in Receivers \ minted, NEW k,
         Register(rx, k, k = None), wild' = [wild EXCEPT ![rx] = (k = None)],
         key' = [key EXCEPT ![rx] = k]
  PROVE  IndexExact'
<1>0. /\ wildcard = {r \in receivers : wild[r]}
      /\ DOMAIN index = {key[r] : r \in receivers \ wildcard}
      /\ \A j \in DOMAIN index :
           index[j] = {r \in receivers \ wildcard : key[r] = j}
  BY DEF IndexExact
<1>1. /\ receivers' = receivers \cup {rx} /\ rx \notin receivers
      /\ receivers \subseteq Receivers
  BY DEF Register, TypeInv, HubTypes
<1>2. /\ wild'[rx] = (k = None) /\ key'[rx] = k
      /\ \A r \in receivers : wild'[r] = wild[r] /\ key'[r] = key[r]
  BY <1>1 DEF TypeInv, HubTypes, SlotTypes
<1>W. \A j : Watchers(j) = {r \in receivers \ wildcard : key[r] = j}
  BY <1>0 DEF Watchers
<1>3. CASE k = None
  <2>1. index' = index /\ wildcard' = wildcard \cup {rx}
    BY <1>3 DEF Register
  <2>2. receivers' \ wildcard' = receivers \ wildcard
    BY <1>1, <2>1
  <2>3. wildcard' = {r \in receivers' : wild'[r]}
    BY <1>0, <1>1, <1>2, <1>3, <2>1
  <2>4. \A j : {r \in receivers \ wildcard : key'[r] = j}
                 = {r \in receivers \ wildcard : key[r] = j}
    BY <1>2
  <2>5. {key'[r] : r \in receivers \ wildcard} = {key[r] : r \in receivers \ wildcard}
    BY <1>2
  <2> QED BY <1>0, <2>1, <2>2, <2>3, <2>4, <2>5 DEF IndexExact
<1>4. CASE k # None
  <2>1. index' = Indexed(k, Watchers(k) \cup {rx}) /\ wildcard' = wildcard
    BY <1>4 DEF Register
  <2>2. receivers' \ wildcard' = (receivers \ wildcard) \cup {rx}
    BY <1>0, <1>1, <2>1
  <2>3. wildcard' = {r \in receivers' : wild'[r]}
    BY <1>0, <1>1, <1>2, <1>4, <2>1
  <2>4. DOMAIN index' = {key'[r] : r \in receivers' \ wildcard'}
    BY <1>0, <1>2, <2>1, <2>2 DEF Indexed
  <2>5. \A j \in DOMAIN index' :
          index'[j] = {r \in receivers' \ wildcard' : key'[r] = j}
    <3>1. \A j \in DOMAIN index' :
            index'[j] = IF j = k THEN Watchers(k) \cup {rx} ELSE Watchers(j)
      BY <2>1 DEF Indexed, Watchers
    <3> QED BY <1>2, <1>W, <2>2, <3>1
  <2> QED BY <2>3, <2>4, <2>5 DEF IndexExact
<1> QED BY <1>3, <1>4

(* Every step keeps the two indexes and the registry in agreement.          *)
LEMMA NextIndexExact == ASSUME TypeInv, IndexExact, [Next]_vars PROVE IndexExact'
<1>1. ASSUME UNCHANGED <<receivers, index, wildcard>>,
             \A rx \in receivers : wild'[rx] = wild[rx]
      PROVE  IndexExact'
  <2>1. \A rx \in receivers \ wildcard : key'[rx] = key[rx]
    BY KeyStays DEF IndexExact, TypeInv, HubTypes
  <2>2. \A k : {rx \in receivers \ wildcard : key'[rx] = k}
                 = {rx \in receivers \ wildcard : key[rx] = k}
    BY <2>1
  <2>3. {key'[rx] : rx \in receivers \ wildcard} = {key[rx] : rx \in receivers \ wildcard}
    BY <2>1
  <2>4. {rx \in receivers : wild'[rx]} = {rx \in receivers : wild[rx]}
    BY <1>1
  <2>5. wildcard' = {rx \in receivers' : wild'[rx]}
    BY <1>1, <2>4 DEF IndexExact
  <2>6. DOMAIN index' = {key'[rx] : rx \in receivers' \ wildcard'}
    BY <1>1, <2>3 DEF IndexExact
  <2>7. \A k \in DOMAIN index' :
          index'[k] = {rx \in receivers' \ wildcard' : key'[rx] = k}
    BY <1>1, <2>2 DEF IndexExact
  <2> QED BY <2>5, <2>6, <2>7 DEF IndexExact
<1>2. CASE UNCHANGED <<hubVars, index, wildcard, handleVars, done>>
  BY <1>1, <1>2 DEF hubVars, handleVars
<1>3. ASSUME NEW c \in Clients, Watching(c) PROVE IndexExact'
  <2>1. PICK rx \in Receivers, k \in Keys \cup {None}, cur \in Values \cup {None} :
          Watch(c, rx, k, cur)
    BY <1>3 DEF Watching
  <2>2. /\ rx \notin minted /\ wild' = [wild EXCEPT ![rx] = (k = None)]
        /\ key' = [key EXCEPT ![rx] = k]
    BY <2>1 DEF Watch
  <2>3. CASE UNCHANGED mapVars
    <3>1. \A r \in receivers : wild'[r] = wild[r]
      BY <2>2 DEF TypeInv, HubTypes
    <3> QED BY <1>1, <2>3, <3>1 DEF mapVars
  <2>4. CASE Register(rx, k, k = None)
    BY <2>2, <2>4, RegisterExact
  <2> QED BY <2>1, <2>3, <2>4 DEF Watch
<1>4. ASSUME NEW c \in Clients, CloseSender(c) \/ CloseHub(c) PROVE IndexExact'
  BY <1>1, <1>4 DEF CloseSender, CloseHub, handleVars
<1>5. ASSUME NEW c \in Clients, NEW rx \in Receivers, CloseHubDone(c, rx)
      PROVE  IndexExact'
  BY <1>1, <1>5 DEF CloseHubDone, hubVars, handleVars
<1>6. ASSUME NEW c \in Clients, CloseHubEnd(c) PROVE IndexExact'
  BY <1>6 DEF CloseHubEnd, NoKeys, IndexExact
<1>7. ASSUME NEW rx \in Receivers, Releasing(rx) PROVE IndexExact'
  BY <1>7, UnindexedExact DEF Releasing
<1> QED BY <1>2, <1>3, <1>4, <1>5, <1>6, <1>7, NextHubMove DEF HubMove, ClosingHub

(* IndexExact, for any number of keys and receivers: no order of            *)
(* registrations, closes and terminal reads leaves a receiver unreachable   *)
(* by the sends of its key, reachable by others', or a key without watchers.*)
THEOREM MapsAgree == Spec => []IndexExact
<1>1. Init => IndexExact
  BY DEF Init, IndexExact, NoKeys
<1> QED BY <1>1, InitTypeInv, NextTypeInv, NextIndexExact, PTL DEF Spec

-----------------------------------------------------------------------------
(* What a step may do to what one receiver has read. *)

(* Nothing, *)
Resting(rx) == /\ UNCHANGED <<lastSeen[rx], handed[rx], snap[rx], delivered[rx]>>
               /\ pc'[rx] = "feedDeliver" <=> pc[rx] = "feedDeliver"

(* a client takes the value, *)
Taken(rx) == /\ ~done[rx] /\ Unread(rx)
             /\ \E c \in Clients : /\ tgt[c] = rx
                                   /\ pc[c] \in {"recvLock", "tryRecvLock"}
             /\ lastSeen'[rx] = version[rx]
             /\ handed'[rx] = Append(handed[rx], Slot(rx))
             /\ UNCHANGED <<snap[rx], delivered[rx], pc[rx]>>

(* the feeder looks, and may offer the value, *)
Looked(rx) == /\ pc[rx] = "feedLock" /\ mu = None
              /\ lastSeen'[rx] = Committed(rx) /\ delivered'[rx] = 0
              /\ UNCHANGED handed[rx]
              /\ \/ pc'[rx] # "feedDeliver" /\ UNCHANGED snap[rx]
                 \/ /\ ~done[rx] /\ version[rx] > Committed(rx)
                    /\ pc'[rx] = "feedDeliver" /\ snap'[rx] = Slot(rx)

(* hands over what it offers, *)
Received(rx) == /\ pc[rx] = "feedDeliver" /\ pc'[rx] # "feedDeliver"
                /\ handed'[rx] = Append(handed[rx], snap[rx])
                /\ delivered'[rx] = snap[rx].ver
                /\ snap'[rx] = None /\ UNCHANGED lastSeen[rx]

(* or withdraws it, and forgets what it has delivered only when it exits.   *)
Withdrawn(rx) == /\ pc'[rx] # "feedDeliver"
                 /\ UNCHANGED <<lastSeen[rx], handed[rx]>> /\ snap'[rx] = None
                 /\ UNCHANGED delivered[rx] \/ (done[rx] /\ delivered'[rx] = 0)

ReadStep(rx) ==
  \/ Resting(rx)
  \/ /\ Taken(rx) \/ Looked(rx) \/ Received(rx) \/ Withdrawn(rx)
     /\ UNCHANGED <<key[rx], val[rx], version[rx], done, minted>>

(* What any step may do to the marks of a receiver.                         *)
LEMMA NextReadStep ==
  ASSUME TypeInv, [Next]_vars PROVE \A rx \in Receivers : ReadStep(rx)
<1> SUFFICES ASSUME NEW rx \in Receivers PROVE ReadStep(rx)
  OBVIOUS
<1>0. /\ lastSeen \in [Receivers -> Nat] /\ handed \in [Receivers -> Seq(Events)]
      /\ snap \in [Receivers -> Events \cup {None}] /\ delivered \in [Receivers -> Nat]
      /\ pc \in [Procs -> ClientPCs \cup FeederPCs]
  BY DEF TypeInv, SlotTypes, FeedTypes, CallTypes
<1>1. ASSUME NEW c \in Clients, UNCHANGED readVars,
             \/ QuietStep(c) \/ Watching(c) \/ ClosingHub(c) \/ ClosingOne(c)
             \/ CloseSender(c) \/ SendLocked(c) \/ RecvLocked(c)
             \/ TryLocked(c) \/ ParkingOnly(c)
      PROVE  ReadStep(rx)
  <2>1. UNCHANGED feedVars /\ (UNCHANGED pc \/ \E l : Goto(c, l))
    BY <1>1, ClientMoves
  <2>2. pc'[rx] = pc[rx]
    BY <1>0, <2>1, WhoIsWho DEF Goto
  <2> QED BY <1>1, <2>1, <2>2 DEF ReadStep, Resting, readVars, feedVars
<1>2. ASSUME NEW c \in Clients, RecvLocked(c) \/ TryLocked(c) PROVE ReadStep(rx)
  <2>1. PICK r \in Receivers, x \in Contexts :
          /\ r = tgt[c] /\ UNCHANGED <<done, minted, key, val, version, snap, delivered>>
          /\ \/ UNCHANGED readVars
             \/ /\ Verdict(r, x) = "value" /\ Take(r)
                /\ pc[c] \in {"recvLock", "tryRecvLock"}
          /\ \E a : Return(c, a)
    BY <1>2, ReaderSteps
  <2>2. pc'[rx] = pc[rx]
    BY <1>0, <2>1, WhoIsWho DEF Return, Goto
  <2>3. CASE UNCHANGED readVars
    BY <1>1, <1>2, <2>3
  <2>4. CASE Verdict(r, x) = "value" /\ Take(r) /\ pc[c] \in {"recvLock", "tryRecvLock"}
    <3>1. ~done[r] /\ Unread(r)
      BY <2>4, VerdictType
    <3>2. CASE r = rx
      <4>1. lastSeen'[rx] = version[rx] /\ handed'[rx] = Append(handed[rx], Slot(rx))
        BY <1>0, <2>4, <3>2 DEF Take
      <4> QED BY <2>1, <2>2, <2>4, <3>1, <3>2, <4>1 DEF ReadStep, Taken
    <3>3. CASE r # rx
      <4>1. UNCHANGED <<lastSeen[rx], handed[rx]>>
        BY <1>0, <2>4, <3>3 DEF Take
      <4> QED BY <2>1, <2>2, <4>1 DEF ReadStep, Resting
    <3> QED BY <3>2, <3>3
  <2> QED BY <2>1, <2>3, <2>4
<1>3. ASSUME NEW r \in Receivers, r # rx,
             Ranging(r) \/ FeederOnly(r) \/ FeedLocked(r) \/ ChanReceive(r)
      PROVE  ReadStep(rx)
  <2>1. \E l : Goto(r, l)
    BY <1>3 DEF Ranging, FeederOnly, Chan, FeedProbe, FeedExit, FeedWake,
                FeedDefer, FeedLocked, ChanReceive
  <2>2. pc'[rx] = pc[rx]
    BY <1>0, <1>3, <2>1, WhoIsWho DEF Goto
  <2>3. UNCHANGED <<lastSeen[rx], handed[rx], snap[rx], delivered[rx]>>
    <3>1. CASE Ranging(r)
      BY <3>1 DEF Ranging, Chan, stateVars, readVars, feedVars
    <3>2. CASE FeederOnly(r)
      BY <1>0, <1>3, <3>2 DEF FeederOnly, FeedProbe, FeedExit, FeedWake, FeedDefer,
                  stateVars, readVars, feedVars
    <3>3. CASE FeedLocked(r)
      BY <1>0, <1>3, <3>3 DEF FeedLocked
    <3>4. CASE ChanReceive(r)
      BY <1>0, <1>3, <3>4 DEF ChanReceive
    <3> QED BY <1>3, <3>1, <3>2, <3>3, <3>4
  <2> QED BY <2>2, <2>3 DEF ReadStep, Resting
<1>4. ASSUME UNCHANGED <<stateVars, feedVars>>, NEW l, Goto(rx, l),
             l # "feedDeliver", pc[rx] # "feedDeliver"
      PROVE  ReadStep(rx)
  <2>1. pc'[rx] = l
    BY <1>0, <1>4, WhoIsWho DEF Goto
  <2> QED BY <1>4, <2>1 DEF ReadStep, Resting, stateVars, readVars, feedVars
<1>5. ASSUME UNCHANGED stateVars, NEW l, Goto(rx, l), l # "feedDeliver",
             snap' = [snap EXCEPT ![rx] = None],
             \/ UNCHANGED delivered
             \/ done[rx] /\ delivered' = [delivered EXCEPT ![rx] = 0]
      PROVE  ReadStep(rx)
  <2>1. pc'[rx] = l /\ snap'[rx] = None
    BY <1>0, <1>5, WhoIsWho DEF Goto
  <2>2. UNCHANGED delivered[rx] \/ (done[rx] /\ delivered'[rx] = 0)
    BY <1>0, <1>5
  <2>3. UNCHANGED <<lastSeen, handed, key, val, version, done, minted>>
    BY <1>5 DEF stateVars, readVars, slotVars, handleVars
  <2> QED BY <1>5, <2>1, <2>2, <2>3 DEF ReadStep, Withdrawn
<1>6. ASSUME FeedExit(rx), done[rx], UNCHANGED stateVars PROVE ReadStep(rx)
  <2>1. PICK l \in {"feedDefer", "feedExited"} : Goto(rx, l)
    BY <1>6 DEF FeedExit
  <2> QED BY <1>5, <1>6, <2>1 DEF FeedExit
<1>7. CASE Ranging(rx)
  <2>1. PICK l \in {"feedProbe"} : Goto(rx, l)
    BY <1>7 DEF Ranging, Chan
  <2>2. pc[rx] # "feedDeliver" /\ UNCHANGED <<stateVars, feedVars>>
    BY <1>7 DEF Ranging, Chan
  <2> QED BY <1>4, <2>1, <2>2
<1>8. CASE FeedProbe(rx)
  <2>1. CASE Goto(rx, "feedLock") /\ UNCHANGED feedVars
    <3>1. PICK l \in {"feedLock"} : Goto(rx, l)
      BY <2>1
    <3> QED BY <1>4, <1>8, <2>1, <3>1 DEF FeedProbe
  <2> QED BY <1>6, <1>8, <2>1 DEF FeedProbe
<1>9. CASE FeedWake(rx)
  <2>1. CASE /\ Goto(rx, "feedProbe") /\ UNCHANGED delivered
             /\ snap' = [snap EXCEPT ![rx] = None]
    <3>1. PICK l \in {"feedProbe"} : Goto(rx, l)
      BY <2>1
    <3> QED BY <1>5, <1>9, <2>1, <3>1 DEF FeedWake
  <2> QED BY <1>6, <1>9, <2>1 DEF FeedWake
<1>10. CASE FeedDefer(rx)
  <2>1. PICK l \in {"feedExited"} : Goto(rx, l)
    BY <1>10 DEF FeedDefer
  <2>2. pc[rx] # "feedDeliver" /\ UNCHANGED <<stateVars, feedVars>>
    BY <1>10 DEF FeedDefer
  <2> QED BY <1>4, <2>1, <2>2
<1>11. CASE FeedLocked(rx)
  <2>1. /\ pc[rx] = "feedLock" /\ mu = None
        /\ lastSeen'[rx] = Committed(rx) /\ delivered'[rx] = 0
        /\ UNCHANGED <<handed, key, val, version, done, minted>>
    BY <1>0, <1>11, FeederLocks
  <2>2. CASE \E l \in {"feedExited", "feedPark"} : Goto(rx, l) /\ UNCHANGED snap
    <3>1. pc'[rx] # "feedDeliver"
      BY <1>0, <2>2, WhoIsWho DEF Goto
    <3> QED BY <2>1, <2>2, <3>1 DEF ReadStep, Looked
  <2>3. CASE /\ FeedVerdict(rx) = "value" /\ Goto(rx, "feedDeliver")
             /\ snap' = [snap EXCEPT ![rx] = Slot(rx)]
    <3>1. ~done[rx] /\ version[rx] > Committed(rx)
      BY <2>3, FeedVerdictType
    <3>2. pc'[rx] = "feedDeliver" /\ snap'[rx] = Slot(rx)
      BY <1>0, <2>3, WhoIsWho DEF Goto
    <3> QED BY <2>1, <3>1, <3>2 DEF ReadStep, Looked
  <2> QED BY <1>11, <2>2, <2>3, FeederLocks
<1>12. CASE ChanReceive(rx)
  <2>1. pc[rx] = "feedDeliver" /\ pc'[rx] # "feedDeliver"
    BY <1>0, <1>12, WhoIsWho DEF ChanReceive, Goto
  <2>2. /\ handed'[rx] = Append(handed[rx], snap[rx])
        /\ delivered'[rx] = snap[rx].ver /\ snap'[rx] = None
        /\ UNCHANGED <<lastSeen, key, val, version, done, minted>>
    BY <1>0, <1>12 DEF ChanReceive, slotVars, handleVars
  <2> QED BY <2>1, <2>2 DEF ReadStep, Received
<1>13. CASE UNCHANGED vars
  BY <1>13 DEF vars, stateVars, readVars, feedVars, ReadStep, Resting
<1>14. ASSUME NEW c \in Clients,
              \/ QuietStep(c) \/ Watching(c) \/ ClosingHub(c) \/ ClosingOne(c)
              \/ CloseSender(c) \/ SendLocked(c) \/ ParkingOnly(c)
       PROVE  ReadStep(rx)
  <2>1. UNCHANGED readVars
    <3>1. CASE QuietStep(c) \/ ParkingOnly(c)
      BY <3>1, StateKept DEF stateVars
    <3>2. CASE Watching(c) \/ ClosingHub(c) \/ ClosingOne(c) \/ CloseSender(c)
      BY <3>2 DEF Watching, ClosingHub, ClosingOne, CloseSender, Watch, CloseHub,
                  CloseHubEnd, CloseHubDone, CloseReceiver
    <3>3. CASE SendLocked(c)
      BY <3>3 DEF SendLocked
    <3> QED BY <1>14, <3>1, <3>2, <3>3
  <2> QED BY <1>1, <1>14, <2>1
<1> QED BY <1>2, <1>3, <1>7, <1>8, <1>9, <1>10, <1>11, <1>12, <1>13, <1>14,
           StepKinds DEF FeederOnly

(* Nothing that has been read becomes unread again. *)
LEMMA ReadGrows ==
  ASSUME TypeInv, [Next]_vars, NEW rx \in Receivers
  PROVE  /\ lastSeen[rx] \in Nat /\ lastSeen'[rx] \in Nat
         /\ lastSeen'[rx] >= lastSeen[rx]
<1>1. lastSeen[rx] \in Nat /\ version[rx] \in Nat /\ delivered[rx] \in Nat
  BY DEF TypeInv, SlotTypes, FeedTypes
<1>2. ReadStep(rx)
  BY NextReadStep
<1>3. Committed(rx) \in Nat /\ Committed(rx) >= lastSeen[rx]
  BY <1>1 DEF Committed, Newest
<1> QED BY <1>1, <1>2, <1>3
        DEF ReadStep, Resting, Taken, Looked, Received, Withdrawn, Unread

(* A closed handle stays closed. *)
LEMMA DoneStays ==
  ASSUME TypeInv, [Next]_vars, NEW rx \in Receivers, done[rx] PROVE done'[rx]
<1>0. done \in [Receivers -> BOOLEAN]
  BY DEF TypeInv, HubTypes
<1>1. ASSUME NEW r \in Receivers, Releasing(r) PROVE done'[rx]
  BY <1>0, <1>1 DEF Releasing
<1>2. ASSUME NEW c \in Clients, Watching(c) \/ CloseSender(c) \/ ClosingHub(c)
      PROVE  done'[rx]
  BY <1>0, <1>2 DEF Watching, Watch, CloseSender, ClosingHub, CloseHub,
                    CloseHubEnd, CloseHubDone
<1> QED BY <1>1, <1>2, NextHubMove DEF HubMove

(* A receiver leaves the registry only closed or drained, and stays so.     *)
LEMMA NextFinished ==
  ASSUME TypeInv, DeregisteredIsFinished, [Next]_vars
  PROVE  DeregisteredIsFinished'
<1> SUFFICES ASSUME NEW rx \in minted', rx \notin receivers', ~done'[rx]
             PROVE  Drained(rx)'
  BY DEF DeregisteredIsFinished
<1>0. /\ rx \in Receivers /\ minted \subseteq Receivers
      /\ done \in [Receivers -> BOOLEAN]
  BY NextHubTypes DEF TypeInv, HubTypes
<1>1. lastSeen[rx] \in Nat /\ lastSeen'[rx] \in Nat /\ lastSeen'[rx] >= lastSeen[rx]
  BY <1>0, ReadGrows
<1>2. ~done[rx]
  BY <1>0, DoneStays
<1>3. ASSUME rx \in minted, rx \notin receivers, txClosed => txClosed'
      PROVE  Drained(rx)'
  <2>1. Drained(rx)
    BY <1>2, <1>3 DEF DeregisteredIsFinished
  <2>2. version'[rx] = version[rx] /\ version[rx] \in Nat
    BY <1>0, <1>3, <2>1, NextSlotStep
    DEF SlotStep, Lands, Drained, TypeInv, SlotTypes
  <2>3. txClosed' /\ ~(version[rx] > lastSeen[rx])
    BY <1>3, <2>1 DEF Drained, Unread
  <2>4. ~(version'[rx] > lastSeen'[rx])
    BY <1>1, <2>2, <2>3
  <2> QED BY <2>3, <2>4 DEF Drained, Unread
<1>4. CASE UNCHANGED <<hubVars, index, wildcard, handleVars, done>>
  BY <1>3, <1>4 DEF hubVars, handleVars
<1>5. ASSUME NEW c \in Clients, Watching(c) PROVE Drained(rx)'
  <2>1. PICK r \in Receivers, k \in Keys \cup {None}, cur \in Values \cup {None} :
          Watch(c, r, k, cur)
    BY <1>5 DEF Watching
  <2>2. minted' = minted \cup {r} /\ UNCHANGED txClosed
    BY <2>1 DEF Watch, flagVars
  <2>3. CASE UNCHANGED mapVars /\ done' = [done EXCEPT ![r] = TRUE]
    <3>1. rx # r
      BY <1>0, <2>3
    <3> QED BY <1>3, <2>2, <2>3, <3>1 DEF mapVars
  <2>4. CASE Register(r, k, k = None)
    <3>1. receivers' = receivers \cup {r}
      BY <2>4 DEF Register
    <3> QED BY <1>3, <2>2, <3>1
  <2> QED BY <2>1, <2>3, <2>4 DEF Watch
<1>6. ASSUME NEW c \in Clients, CloseSender(c) \/ CloseHub(c) PROVE Drained(rx)'
  BY <1>3, <1>6 DEF CloseSender, CloseHub, handleVars
<1>7. ASSUME NEW c \in Clients, NEW r \in Receivers, CloseHubDone(c, r)
      PROVE  Drained(rx)'
  BY <1>3, <1>7 DEF CloseHubDone, hubVars, handleVars
<1>8. ASSUME NEW c \in Clients, CloseHubEnd(c) PROVE Drained(rx)'
  BY <1>2, <1>3, <1>8 DEF CloseHubEnd, handleVars
<1>9. ASSUME NEW r \in Receivers, Releasing(r) PROVE Drained(rx)'
  <2>1. receivers' = receivers \ {r} /\ UNCHANGED <<txClosed, minted>>
    BY <1>9 DEF Releasing, Deregister
  <2>2. CASE r = rx
    <3>1. txClosed /\ UNCHANGED version /\ ~(version[rx] > lastSeen'[rx])
      BY <1>0, <1>9, <2>2 DEF Releasing
    <3> QED BY <2>1, <3>1 DEF Drained, Unread
  <2> QED BY <1>3, <2>1, <2>2
<1> QED BY <1>4, <1>5, <1>6, <1>7, <1>8, <1>9, NextHubMove DEF HubMove, ClosingHub

(* DeregisteredIsFinished on the watch bus: no sequence of terminal reads,  *)
(* closes and feeders drops a receiver that could still see a value.        *)
THEOREM NobodyLeftOut == Spec => []DeregisteredIsFinished
<1>1. Init => DeregisteredIsFinished
  BY DEF Init, DeregisteredIsFinished
<1> QED BY <1>1, InitTypeInv, NextTypeInv, NextFinished, PTL DEF Spec

-----------------------------------------------------------------------------
(* Parking: the invariant of BusProofs, at the three selects of this bus    *)
(* that listen to notify.                                                   *)
Selects == {"recvPark", "feedPark", "feedDeliver"}

(* Nobody is parked in a bus that has only been made.                       *)
LEMMA InitParkInv == Init => ParkInv(Selects)
<1> SUFFICES ASSUME Init PROVE ParkInv(Selects)
  OBVIOUS
<1>1. \A p \in Procs : ~parked[p]
  BY DEF Init
<1>2. ASSUME NEW rx \in Receivers
      PROVE  waiters[rx] = Cardinality({p \in Procs : parked[p] /\ Reads(p, rx)})
  <2>1. {p \in Procs : parked[p] /\ Reads(p, rx)} = {}
    BY <1>1
  <2> QED BY <2>1, FS_EmptySet DEF Init
<1>3. WaitersExact
  BY <1>2 DEF WaitersExact
<1>4. \A rx \in Receivers : asleep[rx] = {} /\ pc[rx] = "feedNone"
  BY WhoIsWho DEF Init
<1>5. \A c \in Clients : ~parked[c] /\ tgt[c] = None
  BY <1>1, WhoIsWho DEF Init
<1> QED BY <1>3, <1>4, <1>5 DEF ParkInv

(* Every step keeps the count of waiters and the parked goroutines in       *)
(* agreement.                                                               *)
LEMMA NextParkInv ==
  ASSUME TypeInv, ParkInv(Selects), [Next]_vars PROVE ParkInv(Selects)'
<1>T. /\ WakeTypes /\ pc \in [Procs -> ClientPCs \cup FeederPCs]
      /\ asleep' \in [Receivers -> SUBSET Procs]
  BY NextWakeTypes DEF TypeInv, CallTypes
<1>S. ASSUME NEW rx \in Receivers PROVE Signalled(rx) \subseteq asleep[rx]
  BY DEF Signalled
(* A call begins, returns or moves on without parking anybody. *)
<1>A. ASSUME NEW c \in Clients, pc[c] \notin CountedPCs \cup Selects,
             NEW l, Goto(c, l), UNCHANGED <<waiters, parked, minted>>,
             \A rx \in Receivers : asleep'[rx] \subseteq asleep[rx],
             \A b \in Clients \ {c} : tgt'[b] = tgt[b],
             tgt'[c] \in minted \cup {None, tgt[c]}
      PROVE  ParkInv(Selects)'
  BY <1>A, <1>T, WhoIsWho, MoveStep
(* Steps that move nobody. *)
<1>B. ASSUME UNCHANGED <<waiters, parked, pc, tgt>>, minted \subseteq minted',
             \A rx \in Receivers : asleep'[rx] \subseteq asleep[rx]
      PROVE  ParkInv(Selects)'
  BY <1>B, <1>T, ParkKept
(* A feeder moves on without parking. *)
<1>C. ASSUME NEW r \in Receivers, NEW l, Goto(r, l), r \in minted,
             UNCHANGED <<waiters, parked, minted, tgt>>,
             \A rx \in Receivers : asleep'[rx] \subseteq asleep[rx],
             pc[r] \in Selects => r \notin asleep'[r]
      PROVE  ParkInv(Selects)'
  <2>1. pc[r] \in Selects => \A rx \in Receivers : Reads(r, rx) => r \notin asleep'[rx]
    BY <1>C, WhoIsWho DEF Reads
  <2> QED BY <1>C, <1>T, WhoIsWho, <2>1, MoveStep
<1>1. ASSUME NEW c \in Clients, QuietStep(c) PROVE ParkInv(Selects)'
  <2>1. UNCHANGED <<waiters, parked, asleep, minted>>
    BY <1>1, QuietKeeps DEF stateVars, handleVars, wakeVars
  <2>2. CASE Cancel(c)
    BY <1>B, <2>1, <2>2 DEF Cancel
  <2>3. ASSUME \E pub \in Publications, x \in Contexts : CallSend(c, pub, x)
        PROVE  \E l : pc[c] = "idle" /\ Goto(c, l) /\ tgt' = [tgt EXCEPT ![c] = None]
    BY <2>3 DEF CallSend, Idle, Enter, Return
  <2>4. ASSUME SendCtx(c)
        PROVE  \E l : /\ pc[c] = "sendCtx" /\ Goto(c, l)
                      /\ UNCHANGED tgt \/ tgt' = [tgt EXCEPT ![c] = None]
    BY <2>4 DEF SendCtx, Return, callVars
  <2>5. ASSUME NEW rx \in Receivers,
               \/ \E x \in Contexts : CallRecv(c, rx, x)
               \/ CallTryRecv(c, rx) \/ CallPeek(c, rx)
        PROVE  \E r \in minted \cup {None} : \E l :
                 pc[c] = "idle" /\ Goto(c, l) /\ tgt' = [tgt EXCEPT ![c] = r]
    <3>1. /\ pc[c] = "idle" /\ rx \in minted
          /\ \/ \E a : Return(c, a)
             \/ \E l, x : Enter(c, l, rx, None, x)
      BY <2>5 DEF CallRecv, CallTryRecv, CallPeek, Idle
    <3>2. CASE \E a : Return(c, a)
      BY <3>1, <3>2 DEF Return
    <3>3. CASE \E l, x : Enter(c, l, rx, None, x)
      BY <3>1, <3>3 DEF Enter
    <3> QED BY <3>1, <3>2, <3>3
  <2>6. ASSUME NEW l, NEW r \in minted \cup {None}, pc[c] \in {"idle", "sendCtx"},
               Goto(c, l), UNCHANGED tgt \/ tgt' = [tgt EXCEPT ![c] = r]
        PROVE  ParkInv(Selects)'
    <3>1. pc[c] \notin CountedPCs \cup Selects
      BY <2>6 DEF CountedPCs, Selects
    <3>2. /\ \A b \in Clients \ {c} : tgt'[b] = tgt[b]
          /\ tgt'[c] \in minted \cup {None, tgt[c]}
      BY <1>T, <2>6 DEF WakeTypes
    <3> QED BY <1>A, <2>1, <2>6, <3>1, <3>2
  <2>7. CASE \E pub \in Publications, x \in Contexts : CallSend(c, pub, x)
    BY <2>3, <2>6, <2>7
  <2>8. CASE SendCtx(c)
    BY <2>4, <2>6, <2>8
  <2>9. CASE \E rx \in Receivers : \/ \E x \in Contexts : CallRecv(c, rx, x)
                                   \/ CallTryRecv(c, rx) \/ CallPeek(c, rx)
    BY <2>5, <2>6, <2>9
  <2> QED BY <1>1, <2>2, <2>7, <2>8, <2>9 DEF QuietStep
<1>2. ASSUME NEW c \in Clients,
             \/ Watching(c) \/ ClosingOne(c)
             \/ \E rx \in Receivers : CloseHubDone(c, rx)
      PROVE  ParkInv(Selects)'
  <2>1. UNCHANGED <<waiters, parked, asleep, pc, tgt>> /\ minted \subseteq minted'
    BY <1>2 DEF Watching, ClosingOne, CloseHubDone, Watch, CloseReceiver,
                handleVars, wakeVars, callVars
  <2> QED BY <1>B, <2>1
<1>3. ASSUME NEW c \in Clients, CloseSender(c) PROVE ParkInv(Selects)'
  <2>1. UNCHANGED <<waiters, parked, pc, tgt, minted>>
    BY <1>3 DEF CloseSender, handleVars, callVars
  <2>2. \A rx \in Receivers : asleep'[rx] \subseteq asleep[rx]
    BY <1>3, <1>S DEF CloseSender
  <2> QED BY <1>B, <2>1, <2>2
<1>4. ASSUME NEW c \in Clients, CloseHub(c) \/ CloseHubEnd(c)
      PROVE  ParkInv(Selects)'
  <2>1. pc[c] \in {"idle", "hubClosing"}
        /\ UNCHANGED <<minted, waiters, parked, asleep, tgt>>
    BY <1>4 DEF CloseHub, CloseHubEnd, Idle, handleVars, wakeVars, callVars
  <2>2. PICK l : Goto(c, l)
    BY <1>4 DEF CloseHub, CloseHubEnd
  <2> QED BY <1>A, <1>T, <2>1, <2>2 DEF CountedPCs, Selects, WakeTypes
<1>5. ASSUME NEW c \in Clients, SendLocked(c) PROVE ParkInv(Selects)'
  <2>1. pc[c] = "sendLock" /\ UNCHANGED <<minted, waiters, parked>>
    BY <1>5 DEF SendLocked, handleVars
  <2>2. \A rx \in Receivers : asleep'[rx] \subseteq asleep[rx]
    <3>1. CASE UNCHANGED asleep
      BY <3>1
    <3>2. CASE \E k, v, R : FanOut(R, k, v)
      BY <1>S, <3>2 DEF FanOut, Land
    <3> QED BY <1>5, <3>1, <3>2, SendSteps
  <2>3. PICK l : Goto(c, l) /\ tgt' = [tgt EXCEPT ![c] = None]
    BY <1>5 DEF SendLocked, Return
  <2> QED BY <1>A, <1>T, <2>1, <2>2, <2>3 DEF CountedPCs, Selects, WakeTypes
<1>6. ASSUME NEW c \in Clients, TryLocked(c) PROVE ParkInv(Selects)'
  <2>1. pc[c] \in {"tryRecvLock", "peekLock"}
        /\ UNCHANGED <<minted, waiters, parked, asleep>>
    BY <1>6 DEF TryLocked, handleVars, wakeVars
  <2>2. Goto(c, "idle") /\ tgt' = [tgt EXCEPT ![c] = None]
    BY <1>6 DEF TryLocked, Return
  <2> QED BY <1>A, <1>T, <2>1, <2>2 DEF CountedPCs, Selects, WakeTypes
<1>7. ASSUME NEW c \in Clients, RecvLocked(c) \/ RecvDefer(c)
      PROVE  ParkInv(Selects)'
  <2>1. /\ pc[c] \in {"recvLock", "recvDefer"} /\ tgt[c] \in Receivers
        /\ Unpark(c, tgt[c]) /\ UNCHANGED <<minted, asleep>>
    BY <1>7 DEF RecvLocked, RecvDefer, stateVars, handleVars, TypeInv, CallTypes, ReadPCs
  <2>2. Goto(c, "idle") /\ tgt' = [tgt EXCEPT ![c] = None]
    BY <1>7 DEF RecvLocked, RecvDefer, Return
  <2>3. pc[c] \notin Selects /\ Reads(c, tgt[c]) /\ tgt'[c] = None
        /\ \A b \in Clients \ {c} : tgt'[b] = tgt[b]
    BY <1>T, <2>1, <2>2 DEF Selects, Reads, WakeTypes
  <2> QED BY <1>T, <2>1, <2>2, <2>3, WhoIsWho, UnparkingStep
<1>8. ASSUME NEW c \in Clients, RecvPark(c) PROVE ParkInv(Selects)'
  <2>1. /\ tgt[c] \in Receivers /\ Park(c, tgt[c]) /\ Goto(c, "recvPark")
        /\ UNCHANGED <<minted, tgt>>
    BY <1>8 DEF RecvPark, stateVars, handleVars, callVars, TypeInv, CallTypes, ReadPCs
  <2>2. "recvPark" \in Selects /\ "recvPark" \in CountedPCs /\ Reads(c, tgt[c])
        /\ tgt[c] \in minted
    BY <2>1, WhoIsWho DEF Selects, CountedPCs, Reads, ParkInv
  <2> QED BY <1>T, <2>1, <2>2, WhoIsWho, ParkingStep
<1>9. ASSUME NEW c \in Clients, RecvWake(c) PROVE ParkInv(Selects)'
  <2>1. /\ pc[c] = "recvPark" /\ UNCHANGED <<minted, tgt, waiters, parked>>
        /\ asleep' = [asleep EXCEPT ![tgt[c]] = @ \ {c}]
        /\ \E l \in {"recvDefer", "recvLock"} : Goto(c, l)
    BY <1>9 DEF RecvWake, stateVars, handleVars, callVars
  <2>2. \A rx \in Receivers : /\ asleep'[rx] \subseteq asleep[rx]
                              /\ Reads(c, rx) => c \notin asleep'[rx]
    BY <1>T, <2>1 DEF WakeTypes, Reads
  <2>3. pc'[c] \in CountedPCs
    BY <1>T, <2>1, WhoIsWho DEF Goto, CountedPCs
  <2> QED BY <1>T, <2>1, <2>2, <2>3, WhoIsWho, MoveStep
<1>10. ASSUME NEW rx \in Receivers, Ranging(rx) PROVE ParkInv(Selects)'
  <2>1. /\ pc[rx] = "feedNone" /\ rx \in minted /\ Goto(rx, "feedProbe")
        /\ UNCHANGED <<waiters, parked, asleep, minted, tgt>>
    BY <1>10 DEF Ranging, Chan, stateVars, handleVars, callVars, wakeVars
  <2> QED BY <1>C, <2>1 DEF Selects
<1>11. ASSUME NEW rx \in Receivers, FeedProbe(rx) PROVE ParkInv(Selects)'
  <2>1. /\ pc[rx] = "feedProbe" /\ \E l : Goto(rx, l)
        /\ UNCHANGED <<waiters, parked, asleep, minted, tgt>>
    BY <1>11 DEF FeedProbe, FeedExit, stateVars, handleVars, callVars, wakeVars
  <2> QED BY <1>C, <2>1 DEF Selects, ParkInv
<1>12. ASSUME NEW rx \in Receivers, FeedWake(rx) \/ ChanReceive(rx)
       PROVE  ParkInv(Selects)'
  <2>1. /\ pc[rx] \in {"feedPark", "feedDeliver"} /\ \E l : Goto(rx, l)
        /\ asleep' = [asleep EXCEPT ![rx] = @ \ {rx}]
        /\ UNCHANGED <<waiters, parked, minted, tgt>>
    BY <1>12 DEF FeedWake, FeedExit, ChanReceive, stateVars, handleVars, callVars
  <2>2. rx \notin asleep'[rx] /\ \A r \in Receivers : asleep'[r] \subseteq asleep[r]
    BY <1>T, <2>1 DEF WakeTypes
  <2>3. rx \in minted
    BY <2>1 DEF ParkInv
  <2> QED BY <1>C, <2>1, <2>2, <2>3
<1>13. ASSUME NEW rx \in Receivers, NEW l, pc[rx] \in {"feedLock", "feedDefer"},
              Unpark(rx, rx), Goto(rx, l), UNCHANGED <<asleep, minted, tgt>>
       PROVE  ParkInv(Selects)'
  <2>1. pc[rx] \notin Selects /\ Reads(rx, rx) /\ rx \in minted
    BY <1>13, WhoIsWho DEF Selects, Reads, ParkInv
  <2> QED BY <1>T, <1>13, <2>1, WhoIsWho, UnparkingStep
<1>14. ASSUME NEW rx \in Receivers, FeedDefer(rx) PROVE ParkInv(Selects)'
  BY <1>13, <1>14 DEF FeedDefer, stateVars, handleVars, callVars
<1>15. ASSUME NEW rx \in Receivers, FeedLocked(rx) PROVE ParkInv(Selects)'
  <2>1. pc[rx] = "feedLock" /\ UNCHANGED <<minted, tgt>>
    BY <1>15, FeederLocks DEF callVars
  <2>2. CASE Goto(rx, "feedExited") /\ UNCHANGED asleep /\ Unpark(rx, rx)
    BY <1>13, <2>1, <2>2
  <2>3. CASE \E l \in {"feedDeliver", "feedPark"} : Goto(rx, l) /\ Park(rx, rx)
    <3>1. {"feedDeliver", "feedPark"} \subseteq Selects /\ Reads(rx, rx) /\ rx \in minted
      BY <2>1, WhoIsWho DEF Selects, Reads, ParkInv
    <3> QED BY <1>T, <2>1, <2>3, <3>1, WhoIsWho, ParkingStep
  <2> QED BY <1>15, <2>2, <2>3, FeederLocks
<1>16. CASE UNCHANGED vars
  BY <1>16, <1>B DEF vars, stateVars, handleVars, wakeVars, callVars
<1> QED
  BY <1>1, <1>2, <1>3, <1>4, <1>5, <1>6, <1>7, <1>8, <1>9, <1>10, <1>11, <1>12,
     <1>14, <1>15, <1>16, StepKinds
  DEF ClosingHub, ParkingOnly, FeederOnly

(* WaitersExact on the watch bus, for every number of clients and receivers:*)
(* the counter that decides whether a signal is broadcast counts exactly    *)
(* the parked, also those that park beside a delivery.                      *)
THEOREM WaitersCounted == Spec => []WaitersExact
<1>1. ParkInv(Selects) => WaitersExact
  BY DEF ParkInv
<1> QED BY <1>1, InitTypeInv, NextTypeInv, InitParkInv, NextParkInv, PTL DEF Spec

-----------------------------------------------------------------------------
(* Nobody sleeps through a wake-up.  NoLostWakeup is not inductive: while   *)
(* Hub.Close is between two of its steps a sleeper may be about to be       *)
(* closed, and a sleeper's receiver must be known to be still in the maps,  *)
(* where a send and a close of the sender will find it.                     *)
SleepsRightly(p, rx) ==
  IF pc[p] = "feedDeliver" THEN snap[rx] = Slot(rx)
  ELSE ~Unread(rx) /\ rx \in receivers /\ (mu = None => ~txClosed)

SleepInv ==
  \A rx \in Receivers : \A p \in asleep[rx] : ~done[rx] => SleepsRightly(p, rx)

WakeInv ==
  /\ HubInv /\ ParkInv(Selects) /\ DeregisteredIsFinished /\ SleepInv

(* Only the two parking steps put a goroutine at a select. *)
LEMMA WhoEntersSelect ==
  ASSUME TypeInv, [Next]_vars, NEW p \in Procs, pc'[p] \in Selects
  PROVE  \/ pc'[p] = pc[p]
         \/ p \in Clients /\ RecvPark(p)
         \/ p \in Receivers /\ FeedLocked(p)
<1>0. pc \in [Procs -> ClientPCs \cup FeederPCs]
  BY DEF TypeInv, CallTypes
<1> SUFFICES ASSUME ~(p \in Clients /\ RecvPark(p)),
                    ~(p \in Receivers /\ FeedLocked(p))
             PROVE  pc'[p] = pc[p]
  OBVIOUS
<1>1. ASSUME NEW q, NEW l, Goto(q, l), l \notin Selects PROVE pc'[p] = pc[p]
  BY <1>0, <1>1 DEF Goto
<1>2. ASSUME NEW q, NEW l, Goto(q, l), q # p PROVE pc'[p] = pc[p]
  BY <1>0, <1>2 DEF Goto
<1>3. CASE UNCHANGED pc
  BY <1>3
<1>4. ASSUME NEW b \in Clients, QuietStep(b) PROVE pc'[p] = pc[p]
  <2>1. \/ UNCHANGED pc
        \/ \E l \in {"idle", "sendLock", "sendCtx", "recvLock", "tryRecvLock",
                     "peekLock"} : Goto(b, l)
    BY <1>4 DEF QuietStep, CallSend, CallRecv, CallTryRecv, CallPeek, SendCtx,
                Cancel, Enter, Return
  <2>2. {"idle", "sendLock", "sendCtx", "recvLock", "tryRecvLock", "peekLock"}
          \cap Selects = {}
    BY DEF Selects
  <2> QED BY <1>1, <1>3, <2>1, <2>2
<1>5. ASSUME NEW b \in Clients,
             Watching(b) \/ ClosingOne(b) \/ CloseSender(b) \/ ClosingHub(b)
      PROVE  pc'[p] = pc[p]
  <2>1. UNCHANGED pc \/ \E l \in {"idle", "hubClosing"} : Goto(b, l)
    BY <1>5 DEF Watching, ClosingOne, Watch, CloseReceiver, CloseSender,
                ClosingHub, CloseHub, CloseHubEnd, CloseHubDone
  <2>2. {"idle", "hubClosing"} \cap Selects = {}
    BY DEF Selects
  <2> QED BY <1>1, <1>3, <2>1, <2>2
<1>6. ASSUME NEW b \in Clients,
             SendLocked(b) \/ RecvLocked(b) \/ TryLocked(b) \/ RecvWake(b) \/ RecvDefer(b)
      PROVE  pc'[p] = pc[p]
  <2>1. \E l \in {"idle", "recvLock", "recvDefer"} : Goto(b, l)
    BY <1>6 DEF SendLocked, RecvLocked, TryLocked, RecvWake, RecvDefer, Return
  <2>2. {"idle", "recvLock", "recvDefer"} \cap Selects = {}
    BY DEF Selects
  <2> QED BY <1>1, <2>1, <2>2
<1>7. ASSUME NEW b \in Clients, RecvPark(b) PROVE pc'[p] = pc[p]
  <2>1. Goto(b, "recvPark") /\ b # p
    BY <1>7 DEF RecvPark
  <2> QED BY <1>2, <2>1
<1>8. ASSUME NEW rx \in Receivers, FeedLocked(rx) PROVE pc'[p] = pc[p]
  <2>1. (\E l : Goto(rx, l)) /\ rx # p
    BY <1>8 DEF FeedLocked
  <2> QED BY <1>2, <2>1
<1>9. ASSUME NEW rx \in Receivers, Ranging(rx) \/ FeederOnly(rx) \/ ChanReceive(rx)
      PROVE  pc'[p] = pc[p]
  <2>1. \E l \in {"feedProbe", "feedLock", "feedDefer", "feedExited"} : Goto(rx, l)
    BY <1>9 DEF Ranging, FeederOnly, Chan, FeedProbe, FeedExit, FeedWake,
                FeedDefer, ChanReceive
  <2>2. {"feedProbe", "feedLock", "feedDefer", "feedExited"} \cap Selects = {}
    BY DEF Selects
  <2> QED BY <1>1, <2>1, <2>2
<1>10. CASE UNCHANGED vars
  BY <1>3, <1>10 DEF vars
<1> QED BY <1>4, <1>5, <1>6, <1>7, <1>8, <1>9, <1>10, StepKinds DEF ParkingOnly

(* And nobody else falls asleep. *)
LEMMA WhoFallsAsleep ==
  ASSUME TypeInv, [Next]_vars, NEW rx \in Receivers, NEW p \in asleep'[rx]
  PROVE  \/ p \in asleep[rx]
         \/ p \in Clients /\ RecvPark(p)
         \/ p \in Receivers /\ FeedLocked(p)
<1>0. asleep \in [Receivers -> SUBSET Procs]
  BY DEF TypeInv, WakeTypes
<1>S. \A r \in Receivers : Signalled(r) \subseteq asleep[r]
  BY DEF Signalled
<1>1. ASSUME NEW c \in Clients, SendLocked(c) PROVE p \in asleep[rx]
  <2>1. CASE UNCHANGED asleep
    BY <2>1
  <2>2. CASE \E k, v, R : FanOut(R, k, v)
    BY <1>S, <2>2 DEF FanOut, Land
  <2> QED BY <1>1, <2>1, <2>2, SendSteps
<1>2. ASSUME NEW c \in Clients, CloseSender(c) PROVE p \in asleep[rx]
  BY <1>S, <1>2 DEF CloseSender
<1>3. ASSUME NEW c \in Clients, RecvLocked(c) \/ RecvWake(c) \/ RecvDefer(c)
      PROVE  p \in asleep[rx]
  BY <1>0, <1>3 DEF RecvLocked, RecvWake, RecvDefer
<1>4. ASSUME NEW c \in Clients, RecvPark(c), p \notin asleep[rx]
      PROVE  p = c
  BY <1>0, <1>4 DEF RecvPark, Park
<1>5. ASSUME NEW r \in Receivers, FeedLocked(r), p \notin asleep[rx]
      PROVE  p = r
  BY <1>0, <1>5 DEF FeedLocked, Park
<1>6. ASSUME NEW r \in Receivers, ChanReceive(r) \/ FeedWake(r) \/ FeedDefer(r)
      PROVE  p \in asleep[rx]
  BY <1>0, <1>6 DEF ChanReceive, FeedWake, FeedDefer
<1>7. CASE UNCHANGED wakeVars
  BY <1>7 DEF wakeVars
<1> QED BY <1>1, <1>2, <1>3, <1>4, <1>5, <1>6, <1>7, WhoTouchesWakes
        DEF ParkingOnly

(* Who sleeps on sleeps rightly. *)
LEMMA SleepKept ==
  ASSUME TypeInv, WakeInv, [Next]_vars, NEW rx \in Receivers, ~done'[rx],
         NEW p \in asleep[rx], p \in asleep'[rx], pc'[p] = pc[p]
  PROVE  SleepsRightly(p, rx)'
<1>1. ~done[rx] /\ SleepsRightly(p, rx)
  BY DoneStays DEF WakeInv, SleepInv
<1>2. p \in Procs /\ Reads(p, rx) /\ pc[p] \in Selects /\ rx \in minted
  <2>1. p \in Procs /\ Reads(p, rx) /\ pc[p] \in Selects
    BY DEF WakeInv, ParkInv, TypeInv, WakeTypes
  <2>2. CASE p \in Clients
    BY <2>1, <2>2, WhoIsWho DEF Reads, WakeInv, ParkInv
  <2>3. CASE p \in Receivers
    <3>1. p = rx /\ pc[rx] # "feedNone"
      BY <2>1, <2>3, WhoIsWho DEF Reads, Selects
    <3> QED BY <2>1, <3>1 DEF WakeInv, ParkInv
  <2> QED BY <2>1, <2>2, <2>3 DEF Procs
<1>3. Signalled(rx) = {}
  BY SignalWakesAll DEF WakeInv, TypeInv
<1>4. UNCHANGED <<key[rx], val[rx], version[rx]>>
  BY <1>2, <1>3, NextSlotStep DEF SlotStep, Lands
<1>5. CASE pc[p] = "feedDeliver"
  <2>1. p = rx
    BY <1>2, <1>5, WhoIsWho DEF Reads, TypeInv, CallTypes, ClientPCs, Procs
  <2>2. snap'[rx] = snap[rx]
    BY <1>5, <2>1, NextReadStep DEF ReadStep, Resting, Taken, Looked, Received, Withdrawn
  <2> QED BY <1>1, <1>4, <1>5, <2>2 DEF SleepsRightly, Slot
<1>6. CASE pc[p] # "feedDeliver"
  <2>0. ~Unread(rx) /\ rx \in receivers /\ (mu = None => ~txClosed)
    BY <1>1, <1>6 DEF SleepsRightly
  <2>1. ~Unread(rx)'
    <3>1. version[rx] \in Nat /\ ~(version[rx] > lastSeen[rx])
      BY <2>0 DEF Unread, TypeInv, SlotTypes
    <3> QED BY <1>4, <3>1, ReadGrows DEF Unread
  <2> DEFINE Found == rx \in receivers' /\ (mu' = None => ~txClosed')
  <2>2. ASSUME UNCHANGED <<hubVars, index, wildcard, handleVars, done>> PROVE Found
    BY <2>0, <2>2 DEF hubVars
  <2>3. ASSUME NEW c \in Clients, Watching(c) PROVE Found
    <3>1. UNCHANGED <<txClosed, mu>> /\ receivers \subseteq receivers'
      BY <2>3 DEF Watching, Watch, flagVars, mapVars, Register
    <3> QED BY <2>0, <3>1
  <2>4. ASSUME NEW c \in Clients, CloseSender(c) PROVE Found
    <3>1. asleep'[rx] = Signalled(rx)
      BY <2>0, <2>4 DEF CloseSender
    <3> QED BY <1>3, <3>1
  <2>5. ASSUME NEW c \in Clients, CloseHub(c) PROVE Found
    <3>1. mu' = c /\ UNCHANGED receivers
      BY <2>5 DEF CloseHub
    <3> QED BY <2>0, <3>1, WhoIsWho
  <2>6. ASSUME NEW c \in Clients, NEW r \in Receivers, CloseHubDone(c, r) PROVE Found
    BY <2>0, <2>6 DEF CloseHubDone, hubVars
  <2>7. ASSUME NEW c \in Clients, CloseHubEnd(c) PROVE Found
    BY <1>1, <2>0, <2>7 DEF CloseHubEnd
  <2>8. ASSUME NEW r \in Receivers, Releasing(r) PROVE Found
    <3>1. /\ mu = None /\ receivers' = receivers \ {r}
          /\ UNCHANGED <<txClosed, mu>>
      BY <2>8 DEF Releasing, Deregister
    <3>2. r # rx
      BY <2>0, <2>8, <3>1 DEF Releasing, TypeInv, HubTypes
    <3> QED BY <2>0, <3>1, <3>2
  <2>9. Found
    BY <2>2, <2>3, <2>4, <2>5, <2>6, <2>7, <2>8, NextHubMove DEF HubMove, ClosingHub
  <2> QED BY <1>6, <2>1, <2>9 DEF SleepsRightly
<1> QED BY <1>5, <1>6

(* A receiver that is open, read to the end and has an open sender is in    *)
(* the maps.                                                                *)
LEMMA SleepFound ==
  ASSUME DeregisteredIsFinished, NEW rx \in minted, ~done[rx], ~txClosed
  PROVE  rx \in receivers
BY DEF DeregisteredIsFinished, Drained

(* Every step wakes whom it gives something to do, or leaves no one asleep  *)
(* on it.                                                                   *)
LEMMA NextSleepInv == ASSUME TypeInv, WakeInv, [Next]_vars PROVE SleepInv'
<1> SUFFICES ASSUME NEW rx \in Receivers, NEW p \in asleep'[rx], ~done'[rx]
             PROVE  SleepsRightly(p, rx)'
  BY DEF SleepInv
<1>0. /\ pc \in [Procs -> ClientPCs \cup FeederPCs] /\ ParkInv(Selects)
      /\ DeregisteredIsFinished
  BY DEF TypeInv, CallTypes, WakeInv
<1>1. p \in Procs /\ Reads(p, rx)' /\ pc'[p] \in Selects
  <2>1. ParkInv(Selects)' /\ asleep' \in [Receivers -> SUBSET Procs]
    BY <1>0, NextParkInv, NextWakeTypes
  <2> QED BY <2>1 DEF ParkInv
<1>2. CASE p \in Clients /\ RecvPark(p)
  <2>1. /\ tgt[p] \in Receivers /\ UNCHANGED <<stateVars, tgt>>
        /\ Verdict(tgt[p], ctx[p]) = "empty" /\ Goto(p, "recvPark") /\ mu = None
    BY <1>2 DEF RecvPark, callVars, TypeInv, CallTypes, ReadPCs
  <2>2. tgt[p] = rx
    BY <1>1, <1>2, <2>1 DEF Reads
  <2>3. ~done[rx] /\ ~Unread(rx) /\ ~txClosed
    BY <2>1, <2>2, VerdictType
  <2>4. rx \in receivers
    <3>1. rx \in minted
      BY <1>0, <1>2, <2>2, WhoIsWho DEF ParkInv
    <3> QED BY <1>0, <2>3, <3>1, SleepFound
  <2>5. pc'[p] = "recvPark"
    BY <1>0, <1>1, <2>1 DEF Goto
  <2>6. UNCHANGED <<version, lastSeen, receivers, mu, txClosed>>
    BY <2>1 DEF stateVars, hubVars, slotVars, readVars
  <2> QED BY <2>3, <2>4, <2>5, <2>6 DEF SleepsRightly, Unread
<1>3. CASE p \in Receivers /\ FeedLocked(p)
  <2>1. p = rx
    BY <1>1, <1>3, WhoIsWho DEF Reads
  <2>2. /\ pc[rx] = "feedLock" /\ mu = None
        /\ lastSeen' = [lastSeen EXCEPT ![rx] = Committed(rx)]
        /\ TearDown(rx, FeedVerdict(rx))
        /\ UNCHANGED <<minted, done, txClosed, mu, key, val, version>>
    BY <1>3, <2>1, FeederLocks
  <2>3. CASE Goto(rx, "feedExited")
    BY <1>0, <1>1, <2>1, <2>3 DEF Goto, Selects
  <2>4. CASE Goto(rx, "feedDeliver") /\ snap' = [snap EXCEPT ![rx] = Slot(rx)]
    <3>1. pc'[rx] = "feedDeliver" /\ snap'[rx] = Slot(rx)
      BY <1>0, <2>4, WhoIsWho DEF Goto, TypeInv, FeedTypes
    <3> QED BY <2>1, <2>2, <3>1 DEF SleepsRightly, Slot
  <2>5. CASE FeedVerdict(rx) = "empty" /\ Goto(rx, "feedPark")
    <3>1. ~done[rx] /\ ~txClosed /\ ~(version[rx] > Committed(rx))
      BY <2>5, FeedVerdictType
    <3>2. rx \in receivers
      <4>1. rx \in minted
        BY <1>0, <2>2 DEF ParkInv
      <4> QED BY <1>0, <3>1, <4>1, SleepFound
    <3>3. receivers' = receivers
      BY <2>2, <2>5 DEF TearDown, mapVars
    <3>4. pc'[rx] = "feedPark" /\ lastSeen'[rx] = Committed(rx)
      BY <1>0, <2>2, <2>5, WhoIsWho DEF Goto, TypeInv, SlotTypes
    <3> QED BY <2>1, <2>2, <3>1, <3>2, <3>3, <3>4 DEF SleepsRightly, Unread
  <2> QED BY <1>3, <2>1, <2>3, <2>4, <2>5, FeederLocks
<1>4. CASE ~(p \in Clients /\ RecvPark(p)) /\ ~(p \in Receivers /\ FeedLocked(p))
  <2>1. p \in asleep[rx] /\ pc'[p] = pc[p]
    BY <1>1, <1>4, WhoFallsAsleep, WhoEntersSelect
  <2> QED BY <2>1, SleepKept
<1> QED BY <1>2, <1>3, <1>4

(* Nobody sleeps in a bus that has only been made.                          *)
LEMMA InitWakeInv == Init => WakeInv
<1>1. Init => SleepInv /\ DeregisteredIsFinished
  BY DEF Init, SleepInv, DeregisteredIsFinished
<1> QED BY <1>1, InitHubInv, InitParkInv DEF WakeInv

(* Every step preserves the invariant of sleeping and waking.               *)
LEMMA NextWakeInv == ASSUME TypeInv, WakeInv, [Next]_vars PROVE WakeInv'
BY NextHubInv, NextParkInv, NextFinished, NextSleepInv DEF WakeInv

(* NoLostWakeup on the watch bus, for any number of goroutines: whoever is  *)
(* parked on an open receiver has nothing to read, and a feeder that offers *)
(* a value has not slept through a newer one.                               *)
THEOREM NobodySleepsThrough == Spec => []NoLostWakeup
<1>1. WakeInv => NoLostWakeup
  BY DEF WakeInv, SleepInv, SleepsRightly, NoLostWakeup
<1> QED BY <1>1, InitTypeInv, NextTypeInv, InitWakeInv, NextWakeInv, PTL DEF Spec

-----------------------------------------------------------------------------
(* Reading positions. *)

LEMMA VersionGrows ==
  ASSUME TypeInv, [Next]_vars, NEW rx \in Receivers
  PROVE  /\ version[rx] \in Nat /\ version'[rx] \in Nat
         /\ version'[rx] >= version[rx]
<1>1. version[rx] \in Nat /\ SlotStep(rx)
  BY NextSlotStep DEF TypeInv, SlotTypes
<1>2. version'[rx] = version[rx] \/ version'[rx] = version[rx] + 1
  BY <1>1 DEF SlotStep, Lands
<1> QED BY <1>1, <1>2

(* What an append adds to what has been handed over. *)
LEMMA HandingOver ==
  ASSUME TypeInv, NEW rx \in Receivers, NEW e \in Events,
         handed'[rx] = Append(handed[rx], e)
  PROVE  /\ Range(handed'[rx]) = Range(handed[rx]) \cup {e}
         /\ HandedVersions(rx)' = HandedVersions(rx) \cup {e.ver}
         /\ Len(handed[rx]) \in Nat /\ DOMAIN handed[rx] = 1..Len(handed[rx])
         /\ DOMAIN handed'[rx] = 1..(Len(handed[rx]) + 1)
         /\ \A i \in DOMAIN handed[rx] : handed'[rx][i] = handed[rx][i]
         /\ handed'[rx][Len(handed[rx]) + 1] = e
<1> DEFINE s == handed[rx]
<1>1. s \in Seq(Events)
  BY DEF TypeInv, SlotTypes
<1>2. /\ Len(s) \in Nat /\ DOMAIN s = 1..Len(s)
      /\ DOMAIN Append(s, e) = 1..(Len(s) + 1)
      /\ \A i \in 1..Len(s) : Append(s, e)[i] = s[i]
      /\ Append(s, e)[Len(s) + 1] = e
  BY <1>1, AppendProperties
<1> HIDE DEF s
<1>3. Range(Append(s, e)) = Range(s) \cup {e}
  <2>1. \A i : i \in 1..(Len(s) + 1) <=> i \in 1..Len(s) \/ i = Len(s) + 1
    BY <1>2
  <2> QED BY <1>2, <2>1 DEF Range
<1>4. handed'[rx] = Append(s, e)
  BY DEF s
<1>5. HandedVersions(rx)' = HandedVersions(rx) \cup {e.ver}
  BY <1>3, <1>4 DEF HandedVersions, s
<1> QED BY <1>2, <1>3, <1>4, <1>5 DEF s

(* What a receiver was handed, and its marks, are typed and ordered.        *)
LEMMA HandedTypes ==
  ASSUME TypeInv, NEW rx \in Receivers
  PROVE  /\ Range(handed[rx]) \subseteq Events
         /\ HandedVersions(rx) \subseteq Nat
         /\ Committed(rx) \in Nat /\ Committed(rx) >= lastSeen[rx]
         /\ Committed(rx) >= delivered[rx]
<1>1. handed[rx] \in Seq(Events)
  BY DEF TypeInv, SlotTypes
<1>2. \A i \in DOMAIN handed[rx] : handed[rx][i] \in Events
  BY <1>1
<1>3. Range(handed[rx]) \subseteq Events
  BY <1>2 DEF Range
<1>4. HandedVersions(rx) \subseteq Nat
  BY <1>3 DEF HandedVersions, Events
<1> QED BY <1>3, <1>4 DEF Committed, Newest, TypeInv, SlotTypes, FeedTypes

(* MarkExact is not inductive: nothing that is delivered or offered is      *)
(* newer than the slot.                                                     *)
Marked(rx) ==
  /\ lastSeen[rx] <= version[rx] /\ delivered[rx] <= version[rx]
  /\ pc[rx] = "feedDeliver" => snap[rx].ver <= version[rx]
  /\ ~done[rx] => /\ Committed(rx) \in HandedVersions(rx) \cup {0}
                  /\ \A v \in HandedVersions(rx) : v <= Committed(rx)

MarkInv == \A rx \in Receivers : Marked(rx)

(* What is offered or read is an event of the slot. *)
LEMMA OfferedIsEvent ==
  ASSUME TypeInv, NEW rx \in Receivers
  PROVE  /\ pc[rx] = "feedDeliver" => snap[rx] \in Events /\ delivered[rx] = 0
         /\ pc[rx] = "feedNone" => delivered[rx] = 0
         /\ Unread(rx) \/ version[rx] > Committed(rx)
              => version[rx] > 0 /\ Slot(rx) \in Events
         /\ Slot(rx).ver = version[rx]
<1>1. /\ pc[rx] = "feedDeliver" => snap[rx] \in Events /\ delivered[rx] = 0
      /\ pc[rx] = "feedNone" => delivered[rx] = 0
  BY DEF TypeInv, FeedTypes
<1>2. lastSeen[rx] \in Nat /\ version[rx] \in Nat /\ Committed(rx) \in Nat
  BY HandedTypes DEF TypeInv, SlotTypes
<1>3. Unread(rx) \/ version[rx] > Committed(rx) => version[rx] > 0
  BY <1>2 DEF Unread
<1> QED BY <1>1, <1>3, SlotIsEvent DEF Slot

(* Nothing is marked as read in a bus that has only been made.              *)
LEMMA InitMarkInv == Init => MarkInv
<1> SUFFICES ASSUME Init, NEW rx \in Receivers PROVE Marked(rx)
  BY DEF MarkInv
<1>1. /\ lastSeen[rx] = 0 /\ delivered[rx] = 0 /\ version[rx] = 0
      /\ handed[rx] = <<>> /\ pc[rx] = "feedNone"
  BY WhoIsWho DEF Init
<1>2. HandedVersions(rx) = {}
  BY <1>1 DEF HandedVersions, Range
<1> QED BY <1>1, <1>2 DEF Marked, Committed, Newest

(* Every step keeps the marks at versions that were handed out.             *)
LEMMA NextMarkInv == ASSUME TypeInv, MarkInv, [Next]_vars PROVE MarkInv'
<1> SUFFICES ASSUME NEW rx \in Receivers PROVE Marked(rx)'
  BY DEF MarkInv
<1>0. Marked(rx) /\ ReadStep(rx) /\ (~done'[rx] => ~done[rx])
  BY NextReadStep, DoneStays DEF MarkInv
<1>V. /\ version[rx] \in Nat /\ version'[rx] \in Nat /\ version'[rx] >= version[rx]
      /\ lastSeen[rx] \in Nat /\ delivered[rx] \in Nat
      /\ HandedVersions(rx) \subseteq Nat
      /\ Committed(rx) \in Nat /\ Committed(rx) >= lastSeen[rx]
  BY VersionGrows, HandedTypes DEF TypeInv, SlotTypes, FeedTypes
<1>1. CASE Resting(rx)
  <2>1. HandedVersions(rx)' = HandedVersions(rx) /\ Committed(rx)' = Committed(rx)
    BY <1>1 DEF Resting, HandedVersions, Committed
  <2>2. pc'[rx] = "feedDeliver" => snap'[rx].ver <= version'[rx]
    <3>1. ASSUME pc[rx] = "feedDeliver" PROVE snap[rx].ver \in Nat
      BY <3>1, OfferedIsEvent DEF Events
    <3> QED BY <1>0, <1>1, <1>V, <3>1 DEF Resting, Marked
  <2> QED BY <1>0, <1>1, <1>V, <2>1, <2>2 DEF Resting, Marked
<1>2. CASE Taken(rx) /\ UNCHANGED version[rx]
  <2>1. Slot(rx) \in Events /\ Slot(rx).ver = version[rx]
    BY <1>2, OfferedIsEvent DEF Taken
  <2>2. HandedVersions(rx)' = HandedVersions(rx) \cup {version[rx]}
    BY <1>2, <2>1, HandingOver DEF Taken
  <2>3. Committed(rx)' = version[rx]
    BY <1>0, <1>2, <1>V DEF Taken, Committed, Newest, Marked
  <2>4. Committed(rx) <= version[rx]
    BY <1>0, <1>V DEF Committed, Newest, Marked
  <2>5. \A v \in HandedVersions(rx)' : v <= version[rx]
    BY <1>0, <1>2, <1>V, <2>2, <2>4 DEF Marked, Taken
  <2>6. lastSeen'[rx] <= version'[rx] /\ delivered'[rx] <= version'[rx]
    BY <1>0, <1>2, <1>V DEF Marked, Taken
  <2>7. pc'[rx] = "feedDeliver" => snap'[rx].ver <= version'[rx]
    BY <1>0, <1>2 DEF Marked, Taken
  <2> QED BY <2>2, <2>3, <2>5, <2>6, <2>7 DEF Marked
<1>3. CASE Looked(rx) /\ UNCHANGED version[rx]
  <2>1. HandedVersions(rx)' = HandedVersions(rx)
    BY <1>3 DEF Looked, HandedVersions
  <2>2. Committed(rx)' = Committed(rx)
    BY <1>3, <1>V DEF Looked, Committed, Newest
  <2>3. Committed(rx) <= version[rx]
    BY <1>0, <1>V DEF Committed, Newest, Marked
  <2>4. pc'[rx] = "feedDeliver" => snap'[rx].ver <= version'[rx]
    BY <1>3, <1>V DEF Looked, Slot
  <2> QED BY <1>0, <1>3, <1>V, <2>1, <2>2, <2>3, <2>4 DEF Looked, Marked
<1>4. CASE Received(rx) /\ UNCHANGED version[rx]
  <2>1. snap[rx] \in Events /\ delivered[rx] = 0 /\ snap[rx].ver \in Nat
    BY <1>4, OfferedIsEvent DEF Received, Events
  <2>2. HandedVersions(rx)' = HandedVersions(rx) \cup {snap[rx].ver}
    BY <1>4, <2>1, HandingOver DEF Received
  <2>3. Committed(rx) = lastSeen[rx]
    BY <1>V, <2>1 DEF Committed, Newest
  <2>4. Committed(rx)' = Newest(lastSeen[rx], snap[rx].ver)
    BY <1>4 DEF Received, Committed
  <2>5. snap[rx].ver <= version'[rx]
    BY <1>0, <1>4 DEF Received, Marked
  <2>6. ASSUME ~done[rx]
        PROVE  /\ Committed(rx)' \in HandedVersions(rx)' \cup {0}
               /\ \A v \in HandedVersions(rx)' : v <= Committed(rx)'
    BY <1>0, <1>V, <2>1, <2>2, <2>3, <2>4, <2>6 DEF Newest, Marked
  <2> QED BY <1>0, <1>4, <2>5, <2>6 DEF Received, Marked
<1>5. CASE Withdrawn(rx) /\ UNCHANGED version[rx]
  <2>1. HandedVersions(rx)' = HandedVersions(rx)
    BY <1>5 DEF Withdrawn, HandedVersions
  <2>2. CASE UNCHANGED delivered[rx]
    <3>1. Committed(rx)' = Committed(rx)
      BY <1>5, <2>2 DEF Withdrawn, Committed
    <3> QED BY <1>0, <1>5, <2>1, <2>2, <3>1 DEF Withdrawn, Marked
  <2>3. CASE done[rx] /\ delivered'[rx] = 0
    <3>1. done'[rx]
      BY <2>3, DoneStays
    <3> QED BY <1>0, <1>5, <1>V, <2>3, <3>1 DEF Withdrawn, Marked
  <2> QED BY <1>5, <2>2, <2>3 DEF Withdrawn
<1> QED BY <1>0, <1>1, <1>2, <1>3, <1>4, <1>5 DEF ReadStep

(* MarkExact, for any number of readers and also when a receiver is read    *)
(* directly and through its channel at once: the read position of an open   *)
(* receiver is the newest value handed over, so none is skipped unread.     *)
THEOREM ReadPositionExact == Spec => []MarkExact
<1>1. TypeInv /\ MarkInv => MarkExact
  <2>1. ASSUME TypeInv, MarkInv, NEW rx \in Receivers, ~done[rx]
        PROVE  Committed(rx) = NewestHanded(rx)
    <3> DEFINE V == HandedVersions(rx) \cup {0}
    <3>1. /\ V \subseteq Nat /\ Committed(rx) \in V
          /\ \A v \in V : v <= Committed(rx)
      BY <2>1, HandedTypes DEF MarkInv, Marked
    <3>2. \A x \in V : (\A y \in V : x >= y) => x = Committed(rx)
      BY <3>1
    <3>3. \A y \in V : Committed(rx) >= y
      BY <3>1
    <3> HIDE DEF V
    <3>4. Max(V) = Committed(rx)
      BY <3>1, <3>2, <3>3 DEF Max
    <3> QED BY <3>4 DEF NewestHanded, V
  <2> QED BY <2>1 DEF MarkExact
<1> QED BY <1>1, InitTypeInv, NextTypeInv, InitMarkInv, NextMarkInv, PTL DEF Spec

-----------------------------------------------------------------------------
(* Keys and values. *)

(* What kind a handle is never changes. *)
LEMMA WildStays ==
  ASSUME TypeInv, [Next]_vars, NEW rx \in minted
  PROVE  rx \in minted' /\ wild'[rx] = wild[rx]
<1>0. rx \in Receivers /\ wild \in [Receivers -> BOOLEAN]
  BY DEF TypeInv, HubTypes
<1>1. ASSUME NEW c \in Clients, Watching(c)
      PROVE  rx \in minted' /\ wild'[rx] = wild[rx]
  BY <1>0, <1>1 DEF Watching, Watch
<1>2. ASSUME NEW c \in Clients, CloseSender(c) \/ ClosingHub(c)
      PROVE  UNCHANGED handleVars
  BY <1>2 DEF CloseSender, ClosingHub, CloseHub, CloseHubEnd, CloseHubDone
<1>3. ASSUME NEW r, Releasing(r) PROVE UNCHANGED handleVars
  BY <1>3 DEF Releasing, handleVars
<1> QED BY <1>1, <1>2, <1>3, NextHubMove DEF HubMove, handleVars

(* Something somebody published, under the key of the receiver if that has  *)
(* one, and no baseline.                                                    *)
Genuine(rx, e) ==
  /\ e.ver \in 1..version[rx]
  /\ <<e.key, e.val>> \in Publications
  /\ ~wild[rx] => e.key = key[rx]

(* KeyTravelsWithValue is about what has been handed over; that comes from  *)
(* the slot and from the snapshot a feeder offers.                          *)
Known(rx) == Range(handed[rx])
               \cup (IF pc[rx] = "feedDeliver" THEN {snap[rx]} ELSE {})
               \cup (IF version[rx] > 0 THEN {Slot(rx)} ELSE {})

KeyInv == \A rx \in Receivers : \A e \in Known(rx) : Genuine(rx, e)

(* Only a landing brings in anything new. *)
LEMMA KnownStep ==
  ASSUME TypeInv, [Next]_vars, NEW rx \in Receivers, NEW e \in Known(rx)'
  PROVE  \/ e \in Known(rx)
         \/ \E k \in Keys, v \in Values :
              <<k, v>> \in Publications /\ Lands(rx, k, v) /\ e = Slot(rx)'
<1> SUFFICES ASSUME e \notin Known(rx)
             PROVE  \E k \in Keys, v \in Values :
                      <<k, v>> \in Publications /\ Lands(rx, k, v) /\ e = Slot(rx)'
  OBVIOUS
<1>0. /\ e \notin Range(handed[rx])
      /\ pc[rx] = "feedDeliver" => e # snap[rx]
      /\ version[rx] > 0 => e # Slot(rx)
      /\ ReadStep(rx) /\ SlotStep(rx)
  BY NextReadStep, NextSlotStep DEF Known
<1>1. e \notin Range(handed'[rx])
  <2>1. CASE UNCHANGED handed[rx]
    BY <1>0, <2>1
  <2>2. CASE Taken(rx)
    <3>1. version[rx] > 0 /\ Slot(rx) \in Events
      BY <2>2, OfferedIsEvent DEF Taken
    <3>2. Range(handed'[rx]) = Range(handed[rx]) \cup {Slot(rx)}
      BY <2>2, <3>1, HandingOver DEF Taken
    <3> QED BY <1>0, <3>1, <3>2
  <2>3. CASE Received(rx)
    <3>1. pc[rx] = "feedDeliver" /\ snap[rx] \in Events
      BY <2>3, OfferedIsEvent DEF Received
    <3>2. Range(handed'[rx]) = Range(handed[rx]) \cup {snap[rx]}
      BY <2>3, <3>1, HandingOver DEF Received
    <3> QED BY <1>0, <3>1, <3>2
  <2> QED BY <1>0, <2>1, <2>2, <2>3 DEF ReadStep, Resting, Looked, Withdrawn
<1>2. ~(pc'[rx] = "feedDeliver" /\ e = snap'[rx])
  <2>1. version[rx] > Committed(rx) => version[rx] > 0
    BY OfferedIsEvent
  <2> QED BY <1>0, <2>1
          DEF ReadStep, Resting, Taken, Looked, Received, Withdrawn
<1>3. version'[rx] > 0 /\ e = Slot(rx)'
  BY <1>1, <1>2 DEF Known
<1>4. CASE UNCHANGED <<key[rx], val[rx], version[rx]>>
  BY <1>0, <1>3, <1>4 DEF Slot
<1>5. CASE rx \notin minted /\ UNCHANGED version[rx]
  BY <1>3, <1>5 DEF TypeInv, SlotTypes
<1> QED BY <1>0, <1>3, <1>4, <1>5 DEF SlotStep

(* What a landing leaves in the slot. *)
LEMMA LandedSlot ==
  ASSUME TypeInv, NEW rx \in Receivers, NEW k, NEW v, Lands(rx, k, v)
  PROVE  /\ Slot(rx)' = [key |-> k, val |-> v, ver |-> version[rx] + 1]
         /\ version[rx] \in Nat /\ version'[rx] = version[rx] + 1
         /\ key'[rx] = k
BY DEF Lands, Slot, TypeInv, SlotTypes

(* An event that was sent as it is stays so.                                *)
LEMMA GenuineStays ==
  ASSUME TypeInv, IndexExact, [Next]_vars, NEW rx \in Receivers, NEW e,
         Genuine(rx, e)
  PROVE  Genuine(rx, e)'
<1>1. /\ version[rx] \in Nat /\ version'[rx] \in Nat /\ version'[rx] >= version[rx]
      /\ version[rx] > 0
  BY VersionGrows DEF Genuine
<1>2. rx \in minted
  BY <1>1 DEF TypeInv, SlotTypes
<1>3. wild'[rx] = wild[rx] /\ (~wild[rx] => key'[rx] = key[rx])
  BY <1>2, WildStays, KeyStays
<1> QED BY <1>1, <1>3 DEF Genuine

(* Every step keeps key and value together, from the send to the reader.    *)
LEMMA NextKeyInv ==
  ASSUME TypeInv, IndexExact, KeyInv, [Next]_vars PROVE KeyInv'
<1> SUFFICES ASSUME NEW rx \in Receivers, NEW e \in Known(rx)'
             PROVE  Genuine(rx, e)'
  BY DEF KeyInv
<1>1. CASE e \in Known(rx)
  BY <1>1, GenuineStays DEF KeyInv
<1>2. ASSUME NEW k, NEW v, <<k, v>> \in Publications, Lands(rx, k, v), e = Slot(rx)'
      PROVE  Genuine(rx, e)'
  <2>1. /\ e.key = k /\ e.val = v /\ e.ver = version'[rx] /\ key'[rx] = k
        /\ version'[rx] \in 1..version'[rx]
    BY <1>2, LandedSlot
  <2> QED BY <1>2, <2>1 DEF Genuine
<1> QED BY <1>1, <1>2, KnownStep

(* Nothing is known to a receiver of a bus that has only been made.         *)
LEMMA InitKnown == ASSUME Init, NEW rx \in Receivers PROVE Known(rx) = {}
<1>1. handed[rx] = <<>> /\ pc[rx] = "feedNone" /\ version[rx] = 0
  BY WhoIsWho DEF Init
<1>2. Range(handed[rx]) = {}
  BY <1>1 DEF Range
<1> QED BY <1>1, <1>2 DEF Known

(* Nothing has been sent in a bus that has only been made.                  *)
LEMMA InitKeyInv == Init => KeyInv
BY InitKnown DEF KeyInv

(* Both indexes of a bus that has only been made are empty.                 *)
LEMMA InitIndexExact == Init => IndexExact
BY DEF Init, IndexExact, NoKeys

(* KeyTravelsWithValue, for any numbers of keys, values and receivers and   *)
(* any Accept: what a reader gets is a pair somebody published, under the   *)
(* key it watches, and never a baseline.                                    *)
THEOREM KeysTravel == Spec => []KeyTravelsWithValue
<1>1. TypeInv /\ KeyInv => KeyTravelsWithValue
  <2>1. ASSUME TypeInv, KeyInv, NEW rx \in Receivers, NEW e \in Range(handed[rx])
        PROVE  /\ <<e.key, e.val>> \in Publications
               /\ ~wild[rx] => e.key = key[rx]
               /\ e.ver > 0
    <3>1. Genuine(rx, e)
      BY <2>1 DEF KeyInv, Known
    <3>2. version[rx] \in Nat
      BY <2>1 DEF TypeInv, SlotTypes
    <3> QED BY <3>1, <3>2 DEF Genuine
  <2> QED BY <2>1 DEF KeyTravelsWithValue
<1> QED BY <1>1, InitTypeInv, NextTypeInv, InitIndexExact, NextIndexExact,
           InitKeyInv, NextKeyInv, PTL DEF Spec

-----------------------------------------------------------------------------
(* A closed handle.  No send reaches it, because it is out of the maps or   *)
(* Hub.Close holds the mutex, and every reader looks at done again under    *)
(* the mutex; what is left is the delivery its feeder had begun.            *)

LEMMA LandsOnOpen ==
  ASSUME HubInv, IndexExact, NEW rx \in Receivers, NEW k, NEW v, Lands(rx, k, v)
  PROVE  rx \in receivers /\ ~done[rx]
<1>1. rx \in receivers
  BY DEF Lands, IndexExact, Watchers
<1> QED BY <1>1 DEF Lands, HubInv

(* A closed handle takes no value from a send and starts no delivery; only  *)
(* one its feeder had begun before hands a value over, so at most one is    *)
(* received after Receiver.Close returns (Receiver.Chan of watch.go).       *)
THEOREM OneAfterClose == Spec => AtMostOneAfterClose
<1> DEFINE Frozen(rx) ==
      /\ version'[rx] = version[rx]
      /\ pc'[rx] = "feedDeliver" => pc[rx] = "feedDeliver"
      /\ handed'[rx] # handed[rx] =>
           pc[rx] = "feedDeliver" /\ pc'[rx] # "feedDeliver"
<1>1. ASSUME TypeInv, HubInv, IndexExact, [Next]_vars, NEW rx \in Receivers, done[rx]
      PROVE  Frozen(rx)
  <2>1. version'[rx] = version[rx]
    BY <1>1, NextSlotStep, LandsOnOpen DEF SlotStep
  <2>2. ReadStep(rx)
    BY <1>1, NextReadStep
  <2> QED BY <1>1, <2>1, <2>2
          DEF ReadStep, Resting, Taken, Looked, Received, Withdrawn
<1>2. TypeInv /\ HubInv /\ IndexExact /\ [Next]_vars
        => [\A rx \in Receivers : done[rx] => Frozen(rx)]_vars
  BY <1>1
<1> QED BY <1>2, InitTypeInv, NextTypeInv, InitHubInv, NextHubInv, InitIndexExact,
           NextIndexExact, PTL DEF Spec, AtMostOneAfterClose

-----------------------------------------------------------------------------
(* Each value once and in order, for a program that keeps to Chan's doc: a  *)
(* receiver is not read directly and through its channel at once.  Then the *)
(* only call that may be inside a receiver whose feeder runs is a Peek, and *)
(* what the feeder offers is newer than all that has been handed over.      *)

Separate ==
  \A rx \in Receivers, c \in Clients :
    pc[rx] # "feedNone" /\ tgt[c] = rx => pc[c] = "peekLock"

Rising ==
  /\ EachValueOnce
  /\ \A rx \in Receivers :
       pc[rx] = "feedDeliver" => \A v \in HandedVersions(rx) : v < snap[rx].ver

(* Only Chan starts a feeder.                                               *)
LEMMA WhoStartsFeeder ==
  ASSUME TypeInv, [Next]_vars, NEW rx \in Receivers,
         pc[rx] = "feedNone", pc'[rx] # "feedNone"
  PROVE  Ranging(rx)
<1>0. pc \in [Procs -> ClientPCs \cup FeederPCs]
  BY DEF TypeInv, CallTypes
<1>1. PICK r \in Receivers :
        Ranging(r) \/ FeederOnly(r) \/ FeedLocked(r) \/ ChanReceive(r)
  BY WhoTouchesFeeds
<1>2. \E l : Goto(r, l)
  BY <1>1 DEF Ranging, FeederOnly, Chan, FeedProbe, FeedExit, FeedWake,
              FeedDefer, FeedLocked, ChanReceive
<1>3. r = rx
  BY <1>0, <1>2, WhoIsWho DEF Goto
<1> QED BY <1>1, <1>3 DEF FeederOnly, FeedProbe, FeedWake, FeedDefer, FeedLocked,
                          ChanReceive

(* Every step keeps a receiver to one way of reading, when no client mixes  *)
(* them.                                                                    *)
LEMMA NextSeparate ==
  ASSUME ~Mixes, TypeInv, Separate, [Next]_vars PROVE Separate'
<1> SUFFICES ASSUME NEW rx \in Receivers, NEW c \in Clients,
                    pc'[rx] # "feedNone", tgt'[c] = rx
             PROVE  pc'[c] = "peekLock"
  BY DEF Separate
<1>0. /\ pc \in [Procs -> ClientPCs \cup FeederPCs]
      /\ tgt \in [Clients -> Receivers \cup {None}]
      /\ rx # None /\ c \in Procs /\ c \notin Receivers
  BY WhoIsWho DEF TypeInv, CallTypes, WakeTypes
<1>1. CASE Ranging(rx)
  <2>1. tgt[c] # rx /\ UNCHANGED tgt
    BY <1>1 DEF Ranging, Chan, MayRange, callVars
  <2> QED BY <2>1
<1>2. CASE ~Ranging(rx)
  <2>0. /\ pc[rx] # "feedNone" /\ (tgt[c] = rx => pc[c] = "peekLock")
    BY <1>2, WhoStartsFeeder DEF Separate
  <2>1. ASSUME UNCHANGED <<pc[c], tgt[c]>> PROVE pc'[c] = "peekLock"
    BY <2>0, <2>1
  <2>2. ASSUME NEW a, Return(c, a) PROVE FALSE
    BY <1>0, <2>2 DEF Return
  <2>3. ASSUME NEW r, NEW l, NEW m, NEW x, Enter(c, l, r, m, x), r # rx PROVE FALSE
    BY <1>0, <2>3 DEF Enter
  <2>4. ASSUME UNCHANGED tgt, pc[c] # "peekLock" PROVE FALSE
    BY <2>0, <2>4
  <2>5. CASE QuietStep(c)
    <3>1. CASE \E pub \in Publications, x \in Contexts : CallSend(c, pub, x)
      BY <1>0, <2>2, <2>3, <3>1 DEF CallSend
    <3>2. ASSUME NEW r \in Receivers, \/ \E x \in Contexts : CallRecv(c, r, x)
                                      \/ CallTryRecv(c, r)
          PROVE  FALSE
      <4>1. r # rx
        BY <2>0, <3>2 DEF CallRecv, CallTryRecv, MayRead
      <4> QED BY <2>2, <2>3, <3>2, <4>1 DEF CallRecv, CallTryRecv
    <3>3. ASSUME NEW r \in Receivers, CallPeek(c, r) PROVE pc'[c] = "peekLock"
      <4>1. CASE Enter(c, "peekLock", r, None, "none")
        BY <1>0, <4>1 DEF Enter, Goto
      <4> QED BY <2>2, <3>3, <4>1 DEF CallPeek
    <3>4. CASE SendCtx(c)
      BY <2>2, <2>4, <3>4 DEF SendCtx, callVars
    <3>5. CASE Cancel(c)
      BY <2>1, <3>5 DEF Cancel
    <3> QED BY <2>5, <3>1, <3>2, <3>3, <3>4, <3>5 DEF QuietStep
  <2>6. CASE Watching(c) \/ ClosingOne(c) \/ CloseSender(c)
    <3>1. UNCHANGED <<pc, tgt>>
      BY <2>6 DEF Watching, ClosingOne, Watch, CloseReceiver, CloseSender, callVars
    <3> QED BY <2>1, <3>1
  <2>7. CASE ClosingHub(c)
    BY <2>1, <2>4, <2>7
    DEF ClosingHub, CloseHub, CloseHubEnd, CloseHubDone, Idle, callVars
  <2>8. CASE SendLocked(c) \/ RecvLocked(c) \/ TryLocked(c) \/ RecvDefer(c)
    BY <2>2, <2>8 DEF SendLocked, RecvLocked, TryLocked, RecvDefer
  <2>9. CASE RecvPark(c) \/ RecvWake(c)
    BY <2>4, <2>9 DEF RecvPark, RecvWake, callVars
  <2>10. ASSUME NEW b \in Clients, b # c,
                \/ QuietStep(b) \/ Watching(b) \/ ClosingHub(b) \/ ClosingOne(b)
                \/ CloseSender(b) \/ SendLocked(b) \/ RecvLocked(b)
                \/ TryLocked(b) \/ ParkingOnly(b)
         PROVE  pc'[c] = "peekLock"
    <3>1. pc'[c] = pc[c]
      BY <1>0, <2>10, ClientMoves DEF Goto
    <3>2. tgt'[c] = tgt[c]
      <4>1. UNCHANGED tgt \/ \E t : tgt' = [tgt EXCEPT ![b] = t]
        BY <2>10 DEF QuietStep, Watching, ClosingHub, ClosingOne, ParkingOnly,
             CallSend, CallRecv, CallTryRecv, CallPeek, SendCtx, Cancel, Watch,
             CloseHub, CloseHubEnd, CloseHubDone, CloseReceiver, CloseSender,
             SendLocked, RecvLocked, TryLocked, RecvPark, RecvWake, RecvDefer,
             Enter, Return, callVars
      <4> QED BY <1>0, <2>10, <4>1
    <3> QED BY <2>1, <3>1, <3>2
  <2>11. ASSUME NEW r \in Receivers,
                Ranging(r) \/ FeederOnly(r) \/ FeedLocked(r) \/ ChanReceive(r)
         PROVE  pc'[c] = "peekLock"
    <3>1. UNCHANGED tgt /\ \E l : Goto(r, l)
      BY <2>11 DEF Ranging, FeederOnly, Chan, FeedProbe, FeedExit, FeedWake,
                   FeedDefer, FeedLocked, ChanReceive, callVars
    <3>2. pc'[c] = pc[c]
      BY <1>0, <3>1 DEF Goto
    <3> QED BY <2>1, <3>1, <3>2
  <2>12. CASE UNCHANGED vars
    BY <2>1, <2>12 DEF vars, callVars
  <2> QED BY <2>5, <2>6, <2>7, <2>8, <2>9, <2>10, <2>11, <2>12, StepKinds
          DEF ParkingOnly
<1> QED BY <1>1, <1>2

(* Handing over something newer than all before keeps the order. *)
LEMMA RisesBy ==
  ASSUME TypeInv, NEW rx \in Receivers, NEW e \in Events,
         handed'[rx] = Append(handed[rx], e),
         \A v \in HandedVersions(rx) : v < e.ver,
         \A i, j \in DOMAIN handed[rx] :
           i < j => handed[rx][i].ver < handed[rx][j].ver
  PROVE  \A i, j \in DOMAIN handed'[rx] :
           i < j => handed'[rx][i].ver < handed'[rx][j].ver
<1> DEFINE n == Len(handed[rx])
<1>1. /\ n \in Nat /\ DOMAIN handed[rx] = 1..n
      /\ DOMAIN handed'[rx] = 1..(n + 1)
      /\ \A i \in DOMAIN handed[rx] : handed'[rx][i] = handed[rx][i]
      /\ handed'[rx][n + 1] = e
  BY HandingOver
<1>2. \A i \in DOMAIN handed[rx] : handed[rx][i].ver \in HandedVersions(rx)
  BY DEF HandedVersions, Range
<1> HIDE DEF n
<1> SUFFICES ASSUME NEW i \in 1..(n + 1), NEW j \in 1..(n + 1), i < j
             PROVE  handed'[rx][i].ver < handed'[rx][j].ver
  BY <1>1
<1>3. i \in DOMAIN handed[rx]
  BY <1>1
<1>4. CASE j = n + 1
  BY <1>1, <1>2, <1>3, <1>4
<1>5. CASE j # n + 1
  <2>1. j \in DOMAIN handed[rx]
    BY <1>1, <1>5
  <2> QED BY <1>1, <1>3, <2>1
<1> QED BY <1>4, <1>5

(* Every step hands out higher versions than the last one handed out.       *)
LEMMA NextRising ==
  ASSUME TypeInv, MarkInv, Separate, Rising, [Next]_vars PROVE Rising'
<1> SUFFICES ASSUME NEW rx \in Receivers
             PROVE  /\ \A i, j \in DOMAIN handed'[rx] :
                         i < j => handed'[rx][i].ver < handed'[rx][j].ver
                    /\ pc'[rx] = "feedDeliver" =>
                         \A v \in HandedVersions(rx)' : v < snap'[rx].ver
  BY DEF Rising, EachValueOnce
<1>0. /\ \A i, j \in DOMAIN handed[rx] :
           i < j => handed[rx][i].ver < handed[rx][j].ver
      /\ pc[rx] = "feedDeliver" =>
           \A v \in HandedVersions(rx) : v < snap[rx].ver
      /\ ReadStep(rx)
  BY NextReadStep DEF Rising, EachValueOnce
<1>V. /\ version[rx] \in Nat /\ Committed(rx) \in Nat /\ HandedVersions(rx) \subseteq Nat
      /\ lastSeen[rx] \in Nat
      /\ ~done[rx] => \A v \in HandedVersions(rx) : v <= Committed(rx)
  BY HandedTypes DEF MarkInv, Marked, TypeInv, SlotTypes
<1>1. CASE UNCHANGED handed[rx] /\ pc'[rx] # "feedDeliver"
  BY <1>0, <1>1
<1>2. CASE Resting(rx)
  BY <1>0, <1>2 DEF Resting, HandedVersions
<1>3. CASE Taken(rx)
  <2>1. pc[rx] = "feedNone" /\ delivered[rx] = 0
    BY <1>3, OfferedIsEvent DEF Taken, Separate
  <2>2. Committed(rx) = lastSeen[rx]
    BY <1>V, <2>1 DEF Committed, Newest
  <2>3. Slot(rx) \in Events /\ Slot(rx).ver = version[rx]
    BY <1>3, OfferedIsEvent DEF Taken
  <2>4. \A v \in HandedVersions(rx) : v < Slot(rx).ver
    BY <1>3, <1>V, <2>2, <2>3 DEF Taken, Unread
  <2> QED BY <1>0, <1>3, <2>1, <2>3, <2>4, RisesBy DEF Taken
<1>4. CASE Looked(rx)
  <2>1. ASSUME ~done[rx], version[rx] > Committed(rx), snap'[rx] = Slot(rx),
               UNCHANGED handed[rx]
        PROVE  \A v \in HandedVersions(rx)' : v < snap'[rx].ver
    <3>1. HandedVersions(rx)' = HandedVersions(rx) /\ snap'[rx].ver = version[rx]
      BY <2>1 DEF HandedVersions, Slot
    <3> QED BY <1>V, <2>1, <3>1
  <2> QED BY <1>0, <1>4, <2>1 DEF Looked
<1>5. CASE Received(rx)
  <2>1. snap[rx] \in Events
    BY <1>5, OfferedIsEvent DEF Received
  <2> QED BY <1>0, <1>5, <2>1, RisesBy DEF Received
<1>6. CASE Withdrawn(rx)
  BY <1>1, <1>6 DEF Withdrawn
<1> QED BY <1>0, <1>2, <1>3, <1>4, <1>5, <1>6 DEF ReadStep

(* Nothing has been handed out in a bus that has only been made.            *)
LEMMA InitRising == Init => Separate /\ Rising
<1> SUFFICES ASSUME Init, NEW rx \in Receivers
             PROVE  pc[rx] = "feedNone" /\ handed[rx] = <<>>
  BY DEF Separate, Rising, EachValueOnce
<1> QED BY WhoIsWho DEF Init

(* EachValueOnce, for any number of readers of each receiver, as long as it *)
(* is not also ranged over: no value is handed over twice, or after a newer *)
(* one, whichever goroutines read and whenever feeders commit.              *)
THEOREM EachOnce == ASSUME ~Mixes PROVE Spec => []EachValueOnce
<1>1. Separate /\ Rising => EachValueOnce
  BY DEF Rising
<1>2. TypeInv /\ MarkInv /\ Separate /\ Rising /\ [Next]_vars => Separate' /\ Rising'
  BY NextSeparate, NextRising
<1> QED BY <1>1, <1>2, InitTypeInv, NextTypeInv, InitMarkInv, NextMarkInv,
           InitRising, PTL DEF Spec

-----------------------------------------------------------------------------
(* Never back.  Accept compares neighbours in the slot alone; that a reader *)
(* who skips values is never handed one that is superseded needs Accept to  *)
(* be a strict order on the values that are sent.                           *)

Takes(u, v) == Accept[u, v] = "take"

StrictOrder ==
  \A u, v, w \in Values :
    /\ Takes(u, v) => ~Takes(v, u)
    /\ Takes(u, v) /\ Takes(v, w) => Takes(u, w)

Ordered ==
  \A rx \in Receivers : \A e, f \in Known(rx) :
    /\ e.ver < f.ver => Takes(e.val, f.val)
    /\ e.ver = f.ver => e.val = f.val

(* Every step keeps the values known to a receiver in the order of Accept.  *)
LEMMA NextOrdered ==
  ASSUME StrictOrder, TypeInv, KeyInv, Ordered, [Next]_vars PROVE Ordered'
<1> SUFFICES ASSUME NEW rx \in Receivers, NEW e \in Known(rx)', NEW f \in Known(rx)'
             PROVE  /\ e.ver < f.ver => Takes(e.val, f.val)
                    /\ e.ver = f.ver => e.val = f.val
  BY DEF Ordered
<1> DEFINE New(g) == \E k \in Keys, v \in Values : Lands(rx, k, v) /\ g = Slot(rx)'
<1>0. /\ e \in Known(rx) \/ New(e)
      /\ f \in Known(rx) \/ New(f)
  BY KnownStep
<1>1. ASSUME NEW g \in Known(rx)
      PROVE  /\ g.ver \in Nat /\ g.ver > 0 /\ g.ver <= version[rx]
             /\ g.val \in Values /\ version[rx] > 0
  <2>1. Genuine(rx, g) /\ version[rx] \in Nat
    BY <1>1 DEF KeyInv, TypeInv, SlotTypes
  <2>2. g.val \in Values
    BY <2>1, WatchAssumption DEF Genuine
  <2> QED BY <2>1, <2>2 DEF Genuine
<1>2. CASE e \in Known(rx) /\ f \in Known(rx)
  BY <1>2 DEF Ordered
<1>3. CASE New(e) /\ New(f)
  <2>1. e = f
    BY <1>3
  <2>2. e.ver \in Nat
    BY <1>3, LandedSlot
  <2>3. ~(e.ver < f.ver) /\ e.val = f.val
    <3> HIDE DEF New
    <3> QED BY <2>1, <2>2
  <2> QED BY <2>3
<1>4. ASSUME NEW g \in Known(rx), NEW h, New(h)
      PROVE  g.ver < h.ver /\ ~(h.ver < g.ver) /\ Takes(g.val, h.val)
  <2>1. PICK k \in Keys, v \in Values : Lands(rx, k, v) /\ h = Slot(rx)'
    BY <1>4
  <2>2. h.ver = version[rx] + 1 /\ h.val = v /\ version[rx] \in Nat
    BY <2>1, LandedSlot
  <2>3. /\ g.ver \in Nat /\ g.ver <= version[rx] /\ g.val \in Values /\ version[rx] > 0
    BY <1>1
  <2>4. Slot(rx) \in Known(rx) /\ Slot(rx).ver = version[rx] /\ Slot(rx).val = val[rx]
    BY <2>3 DEF Known, Slot
  <2>5. val[rx] \in Values /\ val[rx] # None
    BY <2>3, WatchAssumption DEF TypeInv, SlotTypes
  <2>6. Takes(val[rx], v)
    <3>1. Judged(rx, v) = "take"
      BY <2>1 DEF Lands
    <3> QED BY <2>5, <3>1 DEF Judged, Takes
  <2>7. Takes(g.val, v)
    <3>1. CASE g.ver = version[rx]
      <4>1. g.val = val[rx]
        BY <2>4, <3>1 DEF Ordered
      <4> QED BY <2>6, <4>1
    <3>2. CASE g.ver # version[rx]
      <4>1. g.ver < Slot(rx).ver
        BY <2>2, <2>3, <2>4, <3>2
      <4>2. Takes(g.val, val[rx])
        BY <2>4, <4>1 DEF Ordered
      <4> QED BY <2>3, <2>5, <2>6, <4>2 DEF StrictOrder
    <3> QED BY <3>1, <3>2
  <2>8. g.ver < h.ver /\ ~(h.ver < g.ver)
    BY <2>2, <2>3
  <2> QED BY <2>2, <2>7, <2>8
<1> HIDE DEF New
<1>5. CASE e \in Known(rx) /\ New(f)
  <2>1. e.ver < f.ver /\ ~(f.ver < e.ver) /\ Takes(e.val, f.val)
    BY <1>4, <1>5
  <2>2. e.ver # f.ver
    BY <2>1
  <2> QED BY <2>1, <2>2
<1>6. CASE New(e) /\ f \in Known(rx)
  <2>1. f.ver < e.ver /\ ~(e.ver < f.ver)
    BY <1>4, <1>6
  <2>2. e.ver # f.ver
    BY <2>1
  <2> QED BY <2>1, <2>2
<1> QED BY <1>0, <1>2, <1>3, <1>5, <1>6

(* NeverGoesBack, for any Accept that is a strict order: whatever values a  *)
(* reader misses and in whatever order publishers are scheduled, it is      *)
(* never handed a value superseded by one it was handed before.             *)
THEOREM NeverBack ==
  ASSUME ~Mixes, StrictOrder PROVE Spec => []NeverGoesBack
<1>1. TypeInv /\ Rising /\ Ordered /\ KeyInv => NeverGoesBack
  <2>1. ASSUME TypeInv, Rising, Ordered, KeyInv, NEW rx \in Receivers,
               NEW i \in DOMAIN handed[rx], NEW j \in DOMAIN handed[rx], i < j
        PROVE  Accept[handed[rx][j].val, handed[rx][i].val] # "take"
    <3> DEFINE e == handed[rx][i]
               f == handed[rx][j]
    <3>1. e \in Known(rx) /\ f \in Known(rx)
      BY DEF Known, Range
    <3>2. e.ver < f.ver
      BY <2>1 DEF Rising, EachValueOnce
    <3>3. e.val \in Values /\ f.val \in Values
      BY <2>1, <3>1, WatchAssumption DEF KeyInv, Genuine
    <3> HIDE DEF e, f
    <3>4. Takes(e.val, f.val)
      BY <2>1, <3>1, <3>2 DEF Ordered
    <3>5. ~Takes(f.val, e.val)
      BY <3>3, <3>4 DEF StrictOrder
    <3> QED BY <3>5 DEF e, f, Takes
  <2> QED BY <2>1 DEF NeverGoesBack
<1>2. TypeInv /\ MarkInv /\ Separate /\ Rising /\ [Next]_vars => Separate' /\ Rising'
  BY NextSeparate, NextRising
<1>3. TypeInv /\ KeyInv /\ Ordered /\ [Next]_vars => Ordered'
  BY NextOrdered
<1>4. Init => Ordered
  BY InitKnown DEF Ordered
<1> QED BY <1>1, <1>2, <1>3, <1>4, InitTypeInv, NextTypeInv, InitMarkInv,
           NextMarkInv, InitRising, InitIndexExact, NextIndexExact, InitKeyInv,
           NextKeyInv, PTL DEF Spec
=============================================================================
