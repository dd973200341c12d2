--------------------------- MODULE SchedulerProofs ---------------------------
(***************************************************************************)
(* The scheduler example ends on the truth, for any number of producers,   *)
(* subscribers, jobs and changes.  Its program is one of those the watch   *)
(* bus allows, so what is proved of the bus holds here; what the program   *)
(* adds is its lock and the order of its sequence numbers.                 *)
(***************************************************************************)
EXTENDS Scheduler, WatchProofs

(* The Accept of the example: "keep the change that happened later".        *)
NewerWins == \A u, v \in Values : /\ Takes(u, v) <=> v > u
                                  /\ Accept[u, v] # "panic"

-----------------------------------------------------------------------------
(* The inductive invariant, in four parts. *)

(* Nobody passes a context, so no call is cancelled or waits for one. *)
SchedTypes ==
  /\ lock \in Clients \cup {None} /\ seq \in 0..MaxSeq
  /\ state \in [Keys -> 0..MaxSeq] /\ owed \subseteq Publications
  /\ seed \in [Receivers -> (Keys \X Values) \cup {None}]
  /\ \A c \in Clients : ctx[c] = "none" /\ pc[c] # "sendCtx"

(* No change on its way is ahead of the state, and none is left behind when *)
(* the sender is closed.                                                    *)
CommitInv ==
  /\ \A k \in Keys : state[k] <= seq
  /\ \A pub \in Unsent : pub[2] <= state[pub[1]]
  /\ txClosed => Unsent = {}

(* From reading a state to registering, a subscriber holds the lock and the *)
(* state stays; afterwards its slot holds what it read until a send lands.  *)
SubscribeInv ==
  /\ \A rx \in Receivers \ minted : seed[rx] # None =>
       /\ lock # None
       /\ seed[rx][2] = state[seed[rx][1]]
       /\ \A r \in Receivers \ minted : seed[r] # None => r = rx
  /\ \A rx \in minted :
       /\ ~wild[rx] /\ key[rx] \in Keys /\ val[rx] \in Values
       /\ seed[rx] # None
       /\ version[rx] = 0 => val[rx] = seed[rx][2]

(* SlotHoldsTruth says nothing of a slot while a change is on its way; the  *)
(* slot is then never ahead, and if it is behind, the last change is among  *)
(* those on their way.                                                      *)
TruthInv ==
  \A rx \in minted : ~done[rx] =>
    /\ val[rx] <= state[key[rx]]
    /\ val[rx] = state[key[rx]] \/ <<key[rx], state[key[rx]]>> \in Unsent

SchedInv == SchedTypes /\ CommitInv /\ SubscribeInv /\ TruthInv

(* The parts of the bus's own invariant used here. *)
BusInv == TypeInv /\ HubInv /\ IndexExact /\ DeregisteredIsFinished

-----------------------------------------------------------------------------
(* The steps, by what they do to the program and to the slots. *)

SendKept(c) ==
  /\ pc'[c] = "sendLock" <=> pc[c] = "sendLock"
  /\ pc[c] = "sendLock" => msg'[c] = msg[c]

(* A step that neither sends nor registers. *)
Aside ==
  /\ UNCHANGED <<slotVars, handleVars>>
  /\ \A c \in Clients : SendKept(c)
  /\ txClosed' => txClosed \/ Unsent = {}

(* Nobody gives a call a context. *)
Plain == \A c \in Clients : ctx'[c] = "none" /\ pc'[c] # "sendCtx"

(* A client that moves, but not to or from a send. *)
Moves(c) ==
  /\ pc[c] # "sendLock"
  /\ \/ \E r : Return(c, r)
     \/ \E l : /\ l \notin {"sendLock", "sendCtx"}
               /\ \/ \E rx, ev : Enter(c, l, rx, ev, "none")
                  \/ Goto(c, l) /\ UNCHANGED callVars

(* A step that is no send keeps every scheduler's send as it was.           *)
LEMMA AsideMoves ==
  ASSUME TypeInv, SchedTypes,
         \/ \E c \in Clients : Moves(c)
         \/ \E rx \in Receivers : \E l : Goto(rx, l) /\ UNCHANGED callVars
         \/ UNCHANGED <<pc, callVars>>
  PROVE  Plain /\ \A d \in Clients : SendKept(d)
<1>1. /\ pc \in [Procs -> ClientPCs \cup FeederPCs]
      /\ msg \in [Clients -> Publications \cup {None}]
      /\ ctx \in [Clients -> Contexts]
  BY DEF TypeInv, CallTypes
<1>2. \A d \in Clients : ctx[d] = "none" /\ pc[d] # "sendCtx"
  BY DEF SchedTypes
<1>3. ASSUME NEW c \in Clients, Moves(c) PROVE Plain /\ \A d \in Clients : SendKept(d)
  <2>1. c \in Procs /\ Clients \subseteq Procs
    BY WhoIsWho
  <2>2. CASE \E r : Return(c, r)
    BY <1>1, <1>2, <1>3, <2>1, <2>2 DEF Moves, Return, Goto, Plain, SendKept
  <2>3. ASSUME NEW l, l \notin {"sendLock", "sendCtx"},
               \/ \E rx, ev : Enter(c, l, rx, ev, "none")
               \/ Goto(c, l) /\ UNCHANGED callVars
        PROVE  Plain /\ \A d \in Clients : SendKept(d)
    BY <1>1, <1>2, <1>3, <2>1, <2>3
       DEF Moves, Enter, Goto, Plain, SendKept, callVars
  <2> QED BY <1>3, <2>2, <2>3 DEF Moves
<1>4. ASSUME NEW rx \in Receivers, NEW l, Goto(rx, l), UNCHANGED callVars
      PROVE  Plain /\ \A d \in Clients : SendKept(d)
  BY <1>1, <1>2, <1>4, WhoIsWho DEF Goto, Plain, SendKept, callVars
<1>5. CASE UNCHANGED <<pc, callVars>>
  BY <1>2, <1>5 DEF Plain, SendKept, callVars
<1> QED BY <1>3, <1>4, <1>5

(* What readers, feeders and closes do is aside. *)
LEMMA AsideSteps ==
  ASSUME TypeInv, SchedTypes,
         \/ \E c \in Clients, rx \in Receivers :
              \/ CallRecv(c, rx, "none") \/ Chan(c, rx) \/ CloseReceiver(c, rx)
              \/ CloseHubDone(c, rx)
         \/ \E c \in Clients :
              \/ Unsent = {} /\ CloseSender(c)
              \/ txClosed /\ CloseHub(c)
              \/ CloseHubEnd(c) \/ RecvLocked(c) \/ RecvPark(c) \/ RecvWake(c)
              \/ RecvDefer(c) \/ TryLocked(c)
         \/ \E rx \in Receivers : FeederStep(rx) \/ ChanReceive(rx)
  PROVE  Aside /\ Plain
<1>1. ASSUME NEW c \in Clients, NEW rx \in Receivers,
             \/ CallRecv(c, rx, "none") \/ Chan(c, rx) \/ CloseReceiver(c, rx)
             \/ CloseHubDone(c, rx)
      PROVE  Aside /\ Plain
  <2>1. CASE CallRecv(c, rx, "none")
    <3>1. Moves(c)
      BY <2>1 DEF CallRecv, Idle, Moves
    <3> QED BY <2>1, <3>1, AsideMoves DEF CallRecv, Aside, stateVars, hubVars
  <2>2. CASE Chan(c, rx)
    BY <2>2, AsideMoves DEF Chan, Aside, stateVars, hubVars
  <2>3. CASE CloseReceiver(c, rx)
    BY <2>3, AsideMoves DEF CloseReceiver, Aside, flagVars
  <2>4. CASE CloseHubDone(c, rx)
    BY <2>4, AsideMoves DEF CloseHubDone, Aside, hubVars
  <2> QED BY <1>1, <2>1, <2>2, <2>3, <2>4
<1>2. ASSUME NEW c \in Clients,
             \/ Unsent = {} /\ CloseSender(c)
             \/ txClosed /\ CloseHub(c)
             \/ CloseHubEnd(c) \/ RecvLocked(c) \/ RecvPark(c) \/ RecvWake(c)
             \/ RecvDefer(c) \/ TryLocked(c)
      PROVE  Aside /\ Plain
  <2>1. CASE Unsent = {} /\ CloseSender(c)
    BY <2>1, AsideMoves DEF CloseSender, Aside
  <2>2. CASE txClosed /\ CloseHub(c)
    <3>1. Moves(c)
      BY <2>2 DEF CloseHub, Idle, Moves
    <3> QED BY <2>2, <3>1, AsideMoves DEF CloseHub, Aside
  <2>3. CASE CloseHubEnd(c)
    <3>1. Moves(c)
      BY <2>3 DEF CloseHubEnd, Moves
    <3> QED BY <2>3, <3>1, AsideMoves DEF CloseHubEnd, Aside
  <2>4. CASE RecvLocked(c) \/ RecvDefer(c) \/ TryLocked(c)
    <3>1. Moves(c)
      BY <2>4 DEF RecvLocked, RecvDefer, TryLocked, Moves
    <3>2. UNCHANGED <<slotVars, handleVars, txClosed>>
      BY <2>4 DEF RecvLocked, RecvDefer, TryLocked, flagVars, stateVars, hubVars
    <3> QED BY <3>1, <3>2, AsideMoves DEF Aside
  <2>5. CASE RecvPark(c) \/ RecvWake(c)
    <3>1. Moves(c)
      BY <2>5 DEF RecvPark, RecvWake, Moves
    <3>2. UNCHANGED stateVars
      BY <2>5 DEF RecvPark, RecvWake
    <3> QED BY <3>1, <3>2, AsideMoves DEF Aside, stateVars, hubVars
  <2> QED BY <1>2, <2>1, <2>2, <2>3, <2>4, <2>5
<1>3. ASSUME NEW rx \in Receivers, FeederStep(rx) \/ ChanReceive(rx)
      PROVE  Aside /\ Plain
  <2>1. /\ UNCHANGED callVars /\ \E l : Goto(rx, l)
        /\ UNCHANGED <<slotVars, handleVars, txClosed>>
    <3>1. CASE FeedLocked(rx)
      BY <3>1 DEF FeedLocked, flagVars
    <3>2. CASE ChanReceive(rx)
      BY <3>2 DEF ChanReceive, hubVars, slotVars
    <3>3. CASE FeedProbe(rx) \/ FeedWake(rx) \/ FeedDefer(rx)
      BY <3>3 DEF FeedProbe, FeedWake, FeedDefer, FeedExit, stateVars, hubVars
    <3> QED BY <1>3, <3>1, <3>2, <3>3 DEF FeederStep
  <2> QED BY <2>1, AsideMoves DEF Aside
<1> QED BY <1>1, <1>2, <1>3

(* Every step of the program is a step of the bus, or leaves it alone. *)
LEMMA SchedSteps ==
  ASSUME TypeInv, SchedTypes, [SchedNext]_<<vars, schedVars>>
  PROVE  /\ [Next]_vars
         /\ \/ Aside /\ Plain /\ UNCHANGED schedVars
            \/ \E c \in Clients, k \in Keys : Commit(c, k)
            \/ \E c \in Clients : Publish(c)
            \/ \E c \in Clients, rx \in Receivers, k \in Keys : ReadState(c, rx, k)
            \/ \E c \in Clients, rx \in Receivers : WatchJob(c, rx)
            \/ \E c \in Clients : SendLocked(c) /\ UNCHANGED schedVars
<1> DEFINE Goal ==
      /\ [Next]_vars
      /\ \/ Aside /\ Plain /\ UNCHANGED schedVars
         \/ \E c \in Clients, k \in Keys : Commit(c, k)
         \/ \E c \in Clients : Publish(c)
         \/ \E c \in Clients, rx \in Receivers, k \in Keys : ReadState(c, rx, k)
         \/ \E c \in Clients, rx \in Receivers : WatchJob(c, rx)
         \/ \E c \in Clients : SendLocked(c) /\ UNCHANGED schedVars
<1>1. CASE UNCHANGED <<vars, schedVars>>
  <2>1. UNCHANGED <<pc, callVars, slotVars, handleVars, txClosed>>
    BY <1>1 DEF vars, stateVars, hubVars
  <2>2. Aside /\ Plain
    BY <2>1, AsideMoves DEF Aside
  <2> QED BY <1>1, <2>2
<1>2. ASSUME NEW c \in Clients, NEW k \in Keys, Commit(c, k) PROVE Goal
  BY <1>2 DEF Commit
<1>3. ASSUME NEW c \in Clients, Publish(c) PROVE Goal
  <2>1. PICK pub \in Publications : CallSend(c, pub, "none")
    BY <1>3 DEF Publish, SchedTypes
  <2>2. Next
    BY <2>1 DEF Next, Call, Contexts
  <2> QED BY <1>3, <2>2
<1>4. ASSUME NEW c \in Clients, NEW rx \in Receivers, NEW k \in Keys,
             ReadState(c, rx, k)
      PROVE  Goal
  BY <1>4 DEF ReadState
<1>5. ASSUME NEW c \in Clients, NEW rx \in Receivers, WatchJob(c, rx) PROVE Goal
  <2>1. seed[rx][1] \in Keys /\ seed[rx][2] \in Values
    BY <1>5 DEF WatchJob, SchedTypes
  <2>2. Watch(c, rx, seed[rx][1], seed[rx][2])
    BY <1>5 DEF WatchJob
  <2>3. Next
    BY <2>1, <2>2 DEF Next, Call
  <2> QED BY <1>5, <2>3
<1>6. ASSUME NEW c \in Clients, UNCHANGED schedVars,
             \/ Shutdown(c)
             \/ \E rx \in Receivers :
                  CallRecv(c, rx, "none") \/ Chan(c, rx) \/ CloseReceiver(c, rx)
      PROVE  Goal
  <2>1. Aside /\ Plain
    BY <1>6, AsideSteps DEF Shutdown
  <2>2. Call(c)
    BY <1>6 DEF Shutdown, Call, Contexts
  <2> QED BY <1>6, <2>1, <2>2 DEF Next
<1>7. CASE BusStep
  <2>1. ASSUME NEW c \in Clients, ClientStep(c) PROVE Goal
    <3>1. Next /\ UNCHANGED schedVars
      BY <1>7, <2>1 DEF Next, BusStep
    <3>2. ~SendCtx(c)
      BY DEF SendCtx, SchedTypes
    <3>3. CASE SendLocked(c)
      BY <3>1, <3>3
    <3>4. CASE ~SendLocked(c)
      <4>1. Aside /\ Plain
        BY <2>1, <3>2, <3>4, AsideSteps DEF ClientStep
      <4> QED BY <3>1, <4>1
    <3> QED BY <3>3, <3>4
  <2>2. ASSUME NEW rx \in Receivers, FeederStep(rx) PROVE Goal
    <3>1. Next /\ UNCHANGED schedVars
      BY <1>7, <2>2 DEF Next, BusStep
    <3>2. Aside /\ Plain
      BY <2>2, AsideSteps
    <3> QED BY <3>1, <3>2
  <2> QED BY <1>7, <2>1, <2>2 DEF BusStep
<1>8. ASSUME NEW c \in Clients, Shutdown(c) PROVE Goal
  BY <1>6, <1>8 DEF Shutdown
<1>9. ASSUME NEW c \in Clients, Subscribe(c) PROVE Goal
  BY <1>4, <1>5, <1>6, <1>9 DEF Subscribe
<1>10. ASSUME NEW rx \in Receivers, Consume(rx) PROVE Goal
  <2>1. Next /\ UNCHANGED schedVars
    BY <1>10 DEF Next, Consume
  <2>2. Aside /\ Plain
    BY <1>10, AsideSteps DEF Consume
  <2> QED BY <2>1, <2>2
<1> QED BY <1>1, <1>2, <1>3, <1>7, <1>8, <1>9, <1>10 DEF SchedNext

-----------------------------------------------------------------------------
(* The bus under this program. *)

LEMMA NextBusInv ==
  ASSUME BusInv, [Next]_vars PROVE BusInv'
BY NextTypeInv, NextHubInv, NextIndexExact, NextFinished DEF BusInv

(* Every open handle is registered while the sender is open. *)
LEMMA OpenIsRegistered ==
  ASSUME BusInv, ~txClosed, NEW rx \in minted, ~done[rx] PROVE rx \in receivers
BY DEF BusInv, DeregisteredIsFinished, Drained

(* In particular nobody is, when the fast path gives up a send. *)
LEMMA NobodyToTell ==
  ASSUME BusInv, live = 0 PROVE \A rx \in minted : done[rx]
<1>1. LiveExact /\ receivers \subseteq Receivers
  BY DEF BusInv, HubInv, TypeInv, HubTypes
<1>2. ~txClosed /\ Cardinality(receivers) = 0
  BY <1>1 DEF LiveExact, Poisoned
<1>3. receivers = {}
  BY <1>1, <1>2, BusAssumption, FS_Subset, FS_EmptySet
<1> QED BY <1>2, <1>3, OpenIsRegistered

(* A filter that keeps the newer value takes exactly the newer ones.        *)
LEMMA JudgedNewer ==
  ASSUME NewerWins, NEW rx \in Receivers, val[rx] \in Values, NEW v \in Values
  PROVE  /\ Judged(rx, v) = "take" <=> v > val[rx]
         /\ Judged(rx, v) # "panic"
<1>1. val[rx] # None
  BY WatchAssumption
<1> QED BY <1>1 DEF Judged, NewerWins, Takes

(* A send reaches every open handle of its job, and no other. *)
LEMMA SendLands ==
  ASSUME BusInv, SchedInv, NewerWins, NEW c \in Clients, SendLocked(c),
         NEW rx \in minted
  PROVE  /\ ~txClosed /\ Return(c, Ok) /\ UNCHANGED <<hubVars, handleVars, done>>
         /\ key'[rx] = key[rx]
         /\ \/ UNCHANGED <<val[rx], version[rx]>>
            \/ /\ key[rx] = msg[c][1] /\ val'[rx] = msg[c][2]
               /\ version'[rx] = version[rx] + 1
         /\ ~done[rx] /\ key[rx] = msg[c][1] =>
              val'[rx] = IF msg[c][2] > val[rx] THEN msg[c][2] ELSE val[rx]
<1>0. /\ rx \in Receivers /\ minted \subseteq Receivers /\ receivers \subseteq minted
      /\ pc[c] = "sendLock" /\ msg[c] \in Publications /\ ctx[c] # "cancelled"
      /\ key[rx] \in Keys /\ val[rx] \in Values /\ ~wild[rx]
      /\ version \in [Receivers -> Nat]
  BY DEF BusInv, TypeInv, HubTypes, CallTypes, SlotTypes, SendPCs, SchedInv,
         SchedTypes, SubscribeInv, SendLocked
<1>1. msg[c] \in Unsent /\ ~txClosed
  BY <1>0 DEF Unsent, SchedInv, CommitInv
<1> DEFINE k == msg[c][1]
           v == msg[c][2]
           W == Watchers(k) \cup wildcard
<1>2. k \in Keys /\ v \in Values
  BY <1>0, WatchAssumption
<1>3. W = {r \in receivers : key[r] = k}
  <2>1. wildcard = {}
    BY <1>0 DEF BusInv, IndexExact, SchedInv, SubscribeInv
  <2> QED BY <2>1 DEF Watchers, BusInv, IndexExact
<1>4. \A r \in W : Judged(r, v) # "panic"
  BY <1>0, <1>2, <1>3, JudgedNewer DEF SchedInv, SubscribeInv
<1>5. FanOut(W, k, v) /\ Return(c, Ok)
  BY <1>0, <1>1, <1>4 DEF SendLocked
<1>6. UNCHANGED <<hubVars, handleVars, done>>
  BY DEF SendLocked
<1> HIDE DEF k, v, W
<1>7. rx \in Hit(W, v) <=> rx \in W /\ v > val[rx]
  BY <1>0, <1>2, JudgedNewer DEF Hit
<1>8. /\ key'[rx] = IF rx \in Hit(W, v) THEN k ELSE key[rx]
      /\ val'[rx] = IF rx \in Hit(W, v) THEN v ELSE val[rx]
      /\ version'[rx] = IF rx \in Hit(W, v) THEN version[rx] + 1 ELSE version[rx]
  BY <1>0, <1>5 DEF FanOut, Land
<1>9. ~done[rx] /\ key[rx] = k => rx \in W
  BY <1>1, <1>3, OpenIsRegistered
<1> QED BY <1>1, <1>3, <1>5, <1>6, <1>7, <1>8, <1>9 DEF k, v

-----------------------------------------------------------------------------
(* The invariant is inductive. *)

LEMMA InitSchedInv == SchedInit => SchedInv
<1> SUFFICES ASSUME SchedInit PROVE SchedInv
  OBVIOUS
<1>1. /\ minted = {} /\ ~txClosed /\ owed = {} /\ lock = None /\ seq = 0
      /\ state = [k \in Keys |-> 0] /\ seed = [rx \in Receivers |-> None]
      /\ \A c \in Clients : ctx[c] = "none" /\ pc[c] = "idle"
  BY WhoIsWho DEF SchedInit, Init
<1>2. Unsent = {}
  BY <1>1 DEF Unsent
<1>3. SchedTypes
  BY <1>1, SchedulerAssumption DEF SchedTypes
<1> QED BY <1>1, <1>2, <1>3 DEF SchedInv, CommitInv, SubscribeInv, TruthInv

(* Every step keeps the types of the scheduler's own state.                 *)
LEMMA NextSchedTypes ==
  ASSUME TypeInv, SchedTypes, [SchedNext]_<<vars, schedVars>> PROVE SchedTypes'
<1>0. TypeInv /\ SchedTypes
  OBVIOUS
<1>1. UNCHANGED schedVars /\ Plain => SchedTypes'
  BY <1>0 DEF schedVars, SchedTypes, Plain
<1>2. UNCHANGED vars => Plain
  BY <1>0 DEF vars, callVars, Plain, SchedTypes
<1>3. ASSUME NEW c \in Clients, NEW k \in Keys, Commit(c, k) PROVE SchedTypes'
  <2>1. seq + 1 \in 1..MaxSeq /\ seq' = seq + 1
    BY <1>0, <1>3, SchedulerAssumption DEF Commit, SchedTypes
  <2>2. <<k, seq + 1>> \in Publications
    BY <2>1, SchedulerAssumption
  <2>3. state' \in [Keys -> 0..MaxSeq]
    BY <1>0, <1>3, <2>1 DEF Commit, SchedTypes
  <2>4. UNCHANGED vars
    BY <1>3 DEF Commit
  <2> QED BY <1>0, <1>2, <1>3, <2>1, <2>2, <2>3, <2>4 DEF Commit, SchedTypes, Plain
<1>4. ASSUME NEW c \in Clients, Publish(c) PROVE SchedTypes'
  <2>1. PICK pub \in owed : CallSend(c, pub, "none") /\ owed' = owed \ {pub}
                            /\ UNCHANGED <<lock, seq, state, seed>>
    BY <1>4 DEF Publish
  <2>2. Plain
    <3>1. \/ Return(c, Ok) \/ Enter(c, "sendLock", None, pub, "none")
      BY <2>1 DEF CallSend
    <3>2. c \in Procs /\ Clients \subseteq Procs
      BY WhoIsWho
    <3> QED BY <1>0, <3>1, <3>2
            DEF TypeInv, CallTypes, Return, Enter, Goto, Plain, SchedTypes
  <2> QED BY <1>0, <2>1, <2>2 DEF SchedTypes, Plain
<1>5. ASSUME NEW c \in Clients, NEW rx \in Receivers, NEW k \in Keys,
             ReadState(c, rx, k)
      PROVE  SchedTypes'
  <2>1. state[k] \in Values
    BY <1>0, SchedulerAssumption DEF SchedTypes
  <2>2. Plain
    BY <1>2, <1>5 DEF ReadState
  <2>3. seed' \in [Receivers -> (Keys \X Values) \cup {None}]
    BY <1>0, <1>5, <2>1 DEF ReadState, SchedTypes
  <2> QED BY <1>0, <1>5, <2>2, <2>3 DEF ReadState, SchedTypes, Plain
<1>6. ASSUME NEW c \in Clients, NEW rx \in Receivers, WatchJob(c, rx)
      PROVE  SchedTypes'
  <2>1. UNCHANGED <<pc, callVars>>
    BY <1>6 DEF WatchJob, Watch
  <2>2. Plain
    BY <1>0, <2>1, AsideMoves
  <2> QED BY <1>0, <1>6, <2>2 DEF WatchJob, SchedTypes, Plain
<1>7. ASSUME NEW c \in Clients, SendLocked(c), UNCHANGED schedVars PROVE SchedTypes'
  <2>1. \E r : Return(c, r)
    BY <1>7 DEF SendLocked
  <2>2. c \in Procs /\ Clients \subseteq Procs
    BY WhoIsWho
  <2>3. Plain
    BY <1>0, <2>1, <2>2
       DEF TypeInv, CallTypes, Return, Goto, Plain, SchedTypes
  <2> QED BY <1>1, <1>7, <2>3
<1> QED BY <1>0, <1>1, <1>3, <1>4, <1>5, <1>6, <1>7, SchedSteps

(* What is on its way after a step: all that was and what has been          *)
(* committed, less what has landed or has nobody to tell.                   *)
LEMMA UnsentStep ==
  ASSUME BusInv, SchedInv, NewerWins, [SchedNext]_<<vars, schedVars>>
  PROVE  \/ /\ UNCHANGED <<Unsent, seq, state, slotVars, handleVars>>
            /\ txClosed' => txClosed \/ Unsent = {}
         \/ \E c \in Clients, rx \in Receivers :
              WatchJob(c, rx) /\ UNCHANGED <<Unsent, seq, state, txClosed>>
         \/ \E k \in Keys :
              /\ Unsent' = Unsent \cup {<<k, seq + 1>>}
              /\ seq' = seq + 1 /\ state' = [state EXCEPT ![k] = seq + 1]
              /\ lock = None /\ ~txClosed /\ UNCHANGED <<vars, lock, seed>>
         \/ /\ Unsent' \subseteq Unsent /\ \A rx \in minted : done[rx]
            /\ UNCHANGED <<seq, state, txClosed, lock, seed, slotVars, handleVars, done>>
         \/ \E c \in Clients :
              /\ SendLocked(c) /\ Unsent' \subseteq Unsent
              /\ Unsent \ {msg[c]} \subseteq Unsent'
              /\ UNCHANGED <<seq, state, txClosed>>
<1>0. /\ TypeInv /\ SchedTypes
      /\ pc \in [Procs -> ClientPCs \cup FeederPCs] /\ Clients \subseteq Procs
      /\ msg \in [Clients -> Publications \cup {None}]
  BY WhoIsWho DEF BusInv, SchedInv, TypeInv, CallTypes
<1>1. (\A c \in Clients : SendKept(c)) /\ UNCHANGED owed => UNCHANGED Unsent
  BY DEF SendKept, Unsent
<1>2. UNCHANGED <<pc, callVars>> => \A c \in Clients : SendKept(c)
  BY DEF SendKept, callVars
<1>3. CASE Aside /\ Plain /\ UNCHANGED schedVars
  BY <1>1, <1>3 DEF Aside, schedVars
<1>4. ASSUME NEW c \in Clients, NEW k \in Keys, Commit(c, k)
      PROVE  /\ Unsent' = Unsent \cup {<<k, seq + 1>>}
             /\ seq' = seq + 1 /\ state' = [state EXCEPT ![k] = seq + 1]
             /\ lock = None /\ ~txClosed /\ UNCHANGED <<vars, lock, seed>>
  <2>1. UNCHANGED <<pc, msg>> /\ owed' = owed \cup {<<k, seq + 1>>}
    BY <1>4 DEF Commit, vars, callVars
  <2>2. Unsent' = Unsent \cup {<<k, seq + 1>>}
    BY <2>1 DEF Unsent
  <2> QED BY <1>4, <2>2 DEF Commit
<1>5. ASSUME NEW c \in Clients, Publish(c)
      PROVE  \/ /\ UNCHANGED <<Unsent, seq, state, slotVars, handleVars>>
                /\ txClosed' => txClosed \/ Unsent = {}
             \/ /\ Unsent' \subseteq Unsent /\ \A rx \in minted : done[rx]
                /\ UNCHANGED <<seq, state, txClosed, lock, seed, slotVars,
                               handleVars, done>>
  <2>1. PICK pub \in owed : CallSend(c, pub, "none") /\ owed' = owed \ {pub}
                            /\ UNCHANGED <<lock, seq, state, seed>>
    BY <1>5 DEF Publish
  <2>2. pc[c] = "idle" /\ UNCHANGED <<txClosed, slotVars, handleVars, done>>
    BY <2>1 DEF CallSend, Idle, stateVars, hubVars
  <2> DEFINE S == {d \in Clients : pc[d] = "sendLock"}
  <2>3. CASE live = 0 /\ Return(c, Ok)
    <3>1. /\ S' = S /\ \A d \in S : msg'[d] = msg[d]
      BY <1>0, <2>2, <2>3 DEF Return, Goto
    <3>2. Unsent' \subseteq Unsent
      BY <2>1, <3>1 DEF Unsent
    <3> QED BY <2>1, <2>2, <2>3, <3>2, NobodyToTell
  <2>4. CASE Enter(c, "sendLock", None, pub, "none")
    <3>1. /\ S' = S \cup {c} /\ c \notin S /\ msg'[c] = pub
          /\ \A d \in S : msg'[d] = msg[d]
      BY <1>0, <2>2, <2>4 DEF Enter, Goto
    <3>2. Unsent' = Unsent
      BY <2>1, <3>1 DEF Unsent
    <3> QED BY <2>1, <2>2, <3>2
  <2> QED BY <2>1, <2>3, <2>4 DEF CallSend
<1>6. ASSUME NEW c \in Clients, NEW rx \in Receivers, WatchJob(c, rx)
      PROVE  UNCHANGED <<Unsent, seq, state, txClosed>>
  <2>1. UNCHANGED <<pc, callVars, owed, seq, state, txClosed>>
    BY <1>6 DEF WatchJob, Watch, flagVars
  <2> QED BY <1>1, <1>2, <2>1
<1>8. ASSUME NEW c \in Clients, NEW rx \in Receivers, NEW k \in Keys,
             ReadState(c, rx, k)
      PROVE  UNCHANGED <<Unsent, seq, state, txClosed, slotVars, handleVars>>
  <2>1. /\ UNCHANGED <<pc, callVars, owed, seq, state>>
        /\ UNCHANGED <<txClosed, slotVars, handleVars>>
    BY <1>8 DEF ReadState, vars, stateVars, hubVars
  <2> QED BY <1>1, <1>2, <2>1
<1>7. ASSUME NEW c \in Clients, SendLocked(c), UNCHANGED schedVars
      PROVE  /\ Unsent' \subseteq Unsent /\ Unsent \ {msg[c]} \subseteq Unsent'
             /\ UNCHANGED <<seq, state, txClosed>>
  <2>1. UNCHANGED <<owed, seq, state, txClosed>>
    BY <1>7 DEF schedVars, SendLocked, hubVars
  <2>2. \E r : Return(c, r)
    BY <1>7 DEF SendLocked
  <2>3. \A d \in Clients \ {c} : SendKept(d)
    BY <1>0, <2>2 DEF Return, Goto, SendKept
  <2>4. pc'[c] # "sendLock"
    BY <1>0, <2>2 DEF Return, Goto
  <2> QED BY <2>1, <2>3, <2>4 DEF Unsent, SendKept
<1> QED BY <1>0, <1>3, <1>4, <1>5, <1>6, <1>7, <1>8, SchedSteps

(* What is committed and not yet sent can be sent.                          *)
LEMMA UnsentTypes ==
  ASSUME BusInv, SchedInv PROVE Unsent \subseteq Publications
BY DEF Unsent, BusInv, TypeInv, CallTypes, SendPCs, SchedInv, SchedTypes

(* Every step keeps commits and the sends that follow them in agreement.    *)
LEMMA NextCommitInv ==
  ASSUME BusInv, SchedInv, NewerWins, [SchedNext]_<<vars, schedVars>>
  PROVE  CommitInv'
<1>0. /\ CommitInv /\ seq \in Nat /\ state \in [Keys -> Nat]
      /\ \A pub \in Unsent : pub[1] \in Keys /\ pub[2] \in Nat
  BY UnsentTypes, SchedulerAssumption DEF SchedInv, SchedTypes
<1>1. ASSUME Unsent' \subseteq Unsent, UNCHANGED <<seq, state>>,
             txClosed' => txClosed \/ Unsent = {}
      PROVE  CommitInv'
  BY <1>0, <1>1 DEF CommitInv
<1>2. ASSUME NEW k \in Keys, Unsent' = Unsent \cup {<<k, seq + 1>>},
             seq' = seq + 1, state' = [state EXCEPT ![k] = seq + 1],
             ~txClosed, UNCHANGED vars
      PROVE  CommitInv'
  <2>1. ~txClosed'
    BY <1>2 DEF vars, stateVars, hubVars
  <2>2. \A j \in Keys : state'[j] <= seq' /\ state[j] <= state'[j]
    BY <1>0, <1>2 DEF CommitInv
  <2>3. ASSUME NEW pub \in Unsent' PROVE pub[2] <= state'[pub[1]]
    <3>1. CASE pub \in Unsent
      <4>1. pub[2] \in Nat /\ pub[1] \in Keys /\ pub[2] <= state[pub[1]]
        BY <1>0, <3>1 DEF CommitInv
      <4>2. state'[pub[1]] \in Nat /\ state[pub[1]] \in Nat
        BY <1>0, <1>2, <4>1
      <4> QED BY <2>2, <4>1, <4>2
    <3>2. CASE pub = <<k, seq + 1>>
      BY <1>0, <1>2, <3>2
    <3> QED BY <1>2, <3>1, <3>2
  <2> QED BY <2>1, <2>2, <2>3 DEF CommitInv
<1> QED BY <1>1, <1>2, UnsentStep

(* Every step keeps subscribers and the truth they start from in agreement. *)
LEMMA NextSubscribeInv ==
  ASSUME BusInv, SchedInv, NewerWins, [SchedNext]_<<vars, schedVars>>
  PROVE  SubscribeInv'
<1>0. /\ TypeInv /\ SchedTypes /\ SubscribeInv /\ minted \subseteq Receivers
      /\ seed \in [Receivers -> (Keys \X Values) \cup {None}]
      /\ None \notin Keys \cup Values
  BY WatchAssumption DEF BusInv, SchedInv, TypeInv, HubTypes, SchedTypes
<1>1. CASE UNCHANGED <<slotVars, handleVars, lock, state, seed>>
  BY <1>0, <1>1 DEF SubscribeInv, slotVars, handleVars
<1>2. CASE Aside /\ Plain /\ UNCHANGED schedVars
  BY <1>1, <1>2 DEF Aside, schedVars
<1>3. ASSUME NEW c \in Clients, NEW k \in Keys, Commit(c, k) PROVE SubscribeInv'
  <2>1. UNCHANGED <<slotVars, handleVars, seed>> /\ lock = None
    BY <1>3 DEF Commit, vars, stateVars
  <2> QED BY <1>0, <2>1 DEF SubscribeInv, slotVars, handleVars
<1>4. ASSUME NEW c \in Clients, Publish(c) PROVE SubscribeInv'
  BY <1>1, <1>4 DEF Publish, CallSend, stateVars
<1>5. ASSUME NEW c \in Clients, NEW rx \in Receivers, NEW k \in Keys,
             ReadState(c, rx, k)
      PROVE  SubscribeInv'
  <2>1. /\ UNCHANGED <<slotVars, handleVars, state>> /\ lock = None /\ lock' = c
        /\ rx \notin minted /\ seed' = [seed EXCEPT ![rx] = <<k, state[k]>>]
    BY <1>5 DEF ReadState, vars, stateVars
  <2>2. \A r \in Receivers \ minted : seed[r] = None
    BY <1>0, <2>1 DEF SubscribeInv
  <2>3. \A r \in Receivers : r # rx => seed'[r] = seed[r]
    BY <1>0, <2>1
  <2>4. seed'[rx] = <<k, state[k]>> /\ lock' # None
    BY <1>0, <2>1, WhoIsWho
  <2> QED BY <1>0, <2>1, <2>2, <2>3, <2>4 DEF SubscribeInv, slotVars, handleVars
<1>6. ASSUME NEW c \in Clients, NEW rx \in Receivers, WatchJob(c, rx)
      PROVE  SubscribeInv'
  <2>1. /\ seed[rx] # None /\ rx \notin minted /\ minted' = minted \cup {rx}
        /\ wild' = [wild EXCEPT ![rx] = (seed[rx][1] = None)]
        /\ key' = [key EXCEPT ![rx] = seed[rx][1]]
        /\ val' = [val EXCEPT ![rx] = seed[rx][2]]
        /\ UNCHANGED <<version, seed, state>>
    BY <1>6 DEF WatchJob, Watch
  <2>2. seed[rx][1] \in Keys /\ seed[rx][2] \in Values
    BY <1>0, <2>1
  <2>3. \A r \in Receivers \ minted' : seed[r] = None
    BY <1>0, <2>1 DEF SubscribeInv
  <2>4. \A r \in minted : UNCHANGED <<wild[r], key[r], val[r]>>
    BY <1>0, <2>1 DEF TypeInv, HubTypes, SlotTypes
  <2>5. ~wild'[rx] /\ key'[rx] \in Keys /\ val'[rx] = seed[rx][2]
    BY <1>0, <2>1, <2>2 DEF TypeInv, HubTypes, SlotTypes
  <2> QED BY <1>0, <2>1, <2>2, <2>3, <2>4, <2>5 DEF SubscribeInv
<1>7. ASSUME NEW c \in Clients, SendLocked(c), UNCHANGED schedVars
      PROVE  SubscribeInv'
  <2>1. UNCHANGED handleVars /\ UNCHANGED <<lock, state, seed>>
    BY <1>7 DEF SendLocked, schedVars
  <2>2. ASSUME NEW rx \in minted
        PROVE  /\ key'[rx] = key[rx] /\ val'[rx] \in Values
               /\ version'[rx] = 0 => version[rx] = 0 /\ val'[rx] = val[rx]
    <3>1. msg[c][2] \in Values /\ val[rx] \in Values /\ version[rx] \in Nat
      BY <1>0, <1>7, WatchAssumption
         DEF SendLocked, SubscribeInv, TypeInv, CallTypes, SendPCs, SlotTypes
    <3> QED BY <1>7, <3>1, SendLands
  <2> QED BY <1>0, <2>1, <2>2 DEF SubscribeInv, handleVars
<1> QED BY <1>0, <1>2, <1>3, <1>4, <1>5, <1>6, <1>7, SchedSteps

(* Every step keeps each slot at the truth, or a send on its way to it.     *)
LEMMA NextTruthInv ==
  ASSUME BusInv, SchedInv, NewerWins, [SchedNext]_<<vars, schedVars>>
  PROVE  TruthInv'
<1> SUFFICES ASSUME NEW rx \in minted', ~done'[rx]
             PROVE  /\ val'[rx] <= state'[key'[rx]]
                    /\ \/ val'[rx] = state'[key'[rx]]
                       \/ <<key'[rx], state'[key'[rx]]>> \in Unsent'
  BY DEF TruthInv
<1>0. /\ TypeInv /\ SchedTypes /\ SubscribeInv /\ CommitInv /\ TruthInv
      /\ minted \subseteq Receivers /\ Values = 0..MaxSeq /\ MaxSeq \in Nat
      /\ seq \in Nat /\ state \in [Keys -> Nat]
  BY SchedulerAssumption DEF BusInv, SchedInv, TypeInv, HubTypes, SchedTypes
<1>D. rx \in minted => ~done[rx]
  BY <1>0, SchedSteps, DoneStays
<1>T. rx \in minted => /\ key[rx] \in Keys /\ val[rx] \in Nat
                       /\ state[key[rx]] \in Nat /\ val[rx] <= state[key[rx]]
                       /\ \/ val[rx] = state[key[rx]]
                          \/ <<key[rx], state[key[rx]]>> \in Unsent
  BY <1>0, <1>D DEF SubscribeInv, TruthInv
<1>1. CASE UNCHANGED <<Unsent, seq, state, slotVars, handleVars>>
  BY <1>1, <1>T DEF slotVars, handleVars
<1>2. ASSUME NEW c \in Clients, NEW r \in Receivers, WatchJob(c, r),
             UNCHANGED <<Unsent, state>>
      PROVE  /\ val'[rx] <= state'[key'[rx]]
             /\ \/ val'[rx] = state'[key'[rx]]
                \/ <<key'[rx], state'[key'[rx]]>> \in Unsent'
  <2>1. /\ seed[r] # None /\ r \notin minted /\ minted' = minted \cup {r}
        /\ key' = [key EXCEPT ![r] = seed[r][1]]
        /\ val' = [val EXCEPT ![r] = seed[r][2]]
    BY <1>2 DEF WatchJob, Watch
  <2>2. CASE rx = r
    <3>1. /\ seed[r][1] \in Keys /\ seed[r][2] = state[seed[r][1]]
      BY <1>0, <2>1 DEF SchedTypes, SubscribeInv
    <3>2. key'[r] = seed[r][1] /\ val'[r] = seed[r][2]
      BY <1>0, <2>1 DEF TypeInv, SlotTypes
    <3>3. state[seed[r][1]] \in Nat
      BY <1>0, <3>1
    <3> QED BY <1>2, <2>2, <3>1, <3>2, <3>3
  <2>3. CASE rx # r
    <3>1. rx \in minted /\ UNCHANGED <<key[rx], val[rx]>>
      BY <1>0, <2>1, <2>3 DEF TypeInv, SlotTypes
    <3> QED BY <1>2, <1>T, <3>1
  <2> QED BY <2>2, <2>3
<1>3. ASSUME NEW k \in Keys, Unsent' = Unsent \cup {<<k, seq + 1>>},
             state' = [state EXCEPT ![k] = seq + 1], UNCHANGED vars
      PROVE  /\ val'[rx] <= state'[key'[rx]]
             /\ \/ val'[rx] = state'[key'[rx]]
                \/ <<key'[rx], state'[key'[rx]]>> \in Unsent'
  <2>1. rx \in minted /\ UNCHANGED <<key, val>>
    BY <1>3 DEF vars, stateVars, slotVars, handleVars
  <2>2. state[key[rx]] <= seq
    BY <1>0, <1>T, <2>1 DEF CommitInv
  <2>3. CASE key[rx] = k
    <3>1. state'[k] = seq + 1 /\ val[rx] <= seq + 1
      BY <1>0, <1>3, <1>T, <2>1, <2>2
    <3> QED BY <1>3, <2>1, <2>3, <3>1
  <2>4. CASE key[rx] # k
    BY <1>0, <1>3, <1>T, <2>1, <2>4
  <2> QED BY <2>3, <2>4
<1>4. CASE (\A r \in minted : done[r]) /\ UNCHANGED <<handleVars, done>>
  BY <1>4, <1>D DEF handleVars
<1>5. ASSUME NEW c \in Clients, SendLocked(c), Unsent \ {msg[c]} \subseteq Unsent',
             UNCHANGED state
      PROVE  /\ val'[rx] <= state'[key'[rx]]
             /\ \/ val'[rx] = state'[key'[rx]]
                \/ <<key'[rx], state'[key'[rx]]>> \in Unsent'
  <2>1. rx \in minted
    BY <1>5 DEF SendLocked, handleVars
  <2>2. /\ pc[c] = "sendLock" /\ msg[c] \in Unsent /\ msg[c] \in Publications
    BY <1>0, <1>5 DEF SendLocked, Unsent, TypeInv, CallTypes, SendPCs
  <2>3. /\ msg[c] = <<msg[c][1], msg[c][2]>> /\ msg[c][1] \in Keys
        /\ msg[c][2] \in Nat /\ msg[c][2] <= state[msg[c][1]]
    BY <1>0, <2>2, SchedulerAssumption DEF CommitInv
  <2>4. CASE key[rx] = msg[c][1]
    <3>1. /\ key'[rx] = key[rx]
          /\ val'[rx] = IF msg[c][2] > val[rx] THEN msg[c][2] ELSE val[rx]
      BY <1>5, <1>D, <2>1, <2>4, SendLands DEF SchedInv
    <3>2. val'[rx] <= state[key[rx]] /\ (val[rx] = state[key[rx]] => val'[rx] = val[rx])
      BY <1>T, <2>1, <2>3, <2>4, <3>1
    <3>3. CASE msg[c][2] = state[key[rx]]
      <4>1. val'[rx] = state[key[rx]]
        BY <1>T, <2>1, <2>3, <3>1, <3>3
      <4> QED BY <1>5, <3>1, <3>2, <4>1
    <3>4. CASE msg[c][2] # state[key[rx]]
      <4>1. <<key[rx], state[key[rx]]>> # msg[c]
        BY <2>3, <3>4
      <4> QED BY <1>5, <1>T, <2>1, <3>1, <3>2, <4>1
    <3> QED BY <3>3, <3>4
  <2>5. CASE key[rx] # msg[c][1]
    <3>1. UNCHANGED <<key[rx], val[rx]>>
      BY <1>5, <2>1, <2>5, SendLands
    <3>2. <<key[rx], state[key[rx]]>> # msg[c]
      BY <2>3, <2>5
    <3> QED BY <1>5, <1>T, <2>1, <3>1, <3>2
  <2> QED BY <2>4, <2>5
<1> QED BY <1>1, <1>2, <1>3, <1>4, <1>5, UnsentStep

(* Every step preserves the invariant of the composition.                   *)
LEMMA NextSchedInv ==
  ASSUME NewerWins, BusInv, SchedInv, [SchedNext]_<<vars, schedVars>>
  PROVE  BusInv' /\ SchedInv'
<1>1. [Next]_vars
  BY SchedSteps DEF BusInv, SchedInv
<1> QED BY <1>1, NextBusInv, NextSchedTypes, NextCommitInv, NextSubscribeInv,
           NextTruthInv DEF BusInv, SchedInv

(* The invariants of the bus hold before anyone subscribes.                 *)
LEMMA InitBusInv == SchedInit => BusInv
BY InitTypeInv, InitHubInv, InitIndexExact DEF SchedInit, BusInv, Init,
   DeregisteredIsFinished

-----------------------------------------------------------------------------
(* The program keeps to the API of the bus: each of its steps is a step of  *)
(* Watch or does not touch it, so every theorem about Watch holds here.     *)
THEOREM UsesTheBus == SchedSpec => Spec
<1>1. SchedInit => Init
  BY DEF SchedInit
<1>2. SchedInit => TypeInv /\ SchedTypes
  BY InitTypeInv, InitSchedInv DEF SchedInit, SchedInv
<1>3. TypeInv /\ SchedTypes /\ [SchedNext]_<<vars, schedVars>> => [Next]_vars
  BY SchedSteps
<1>4. TypeInv /\ SchedTypes /\ [SchedNext]_<<vars, schedVars>>
        => TypeInv' /\ SchedTypes'
  BY <1>3, NextTypeInv, NextSchedTypes
<1> QED BY <1>1, <1>2, <1>3, <1>4, PTL DEF SchedSpec, Spec

(* SlotHoldsTruth, for any number of producers, subscribers, jobs and       *)
(* changes: whichever sends overtake each other and whenever a subscriber   *)
(* joins, once no change of a job is on its way every open handle on the    *)
(* job holds the state under the scheduler's lock.                          *)
THEOREM SlotsHoldTruth == ASSUME NewerWins PROVE SchedSpec => []SlotHoldsTruth
<1>1. SchedInv => SlotHoldsTruth
  BY DEF SchedInv, TruthInv, SlotHoldsTruth, Published
<1>2. SchedInit => BusInv /\ SchedInv
  BY InitBusInv, InitSchedInv
<1>3. BusInv /\ SchedInv /\ [SchedNext]_<<vars, schedVars>> => BusInv' /\ SchedInv'
  BY NextSchedInv
<1> QED BY <1>1, <1>2, <1>3, PTL DEF SchedSpec

-----------------------------------------------------------------------------
(* What a subscriber ends on.  The invariants of WatchProofs say that its   *)
(* read position is the newest value it was handed, that the values came in *)
(* order, and which value each version was.                                 *)
ReadInv == MarkInv /\ Separate /\ Rising /\ KeyInv /\ Ordered

(* Keeping the newer value is a strict order on values.                     *)
LEMMA NewerIsStrict == ASSUME NewerWins PROVE StrictOrder
<1>1. \A u, v \in Values : Takes(u, v) <=> v > u
  BY Zenon DEF NewerWins
<1>2. \A u \in Values : u \in Nat
  BY SchedulerAssumption
<1> QED BY <1>1, <1>2 DEF StrictOrder

(* A receiver with nothing unread was last handed what is in its slot.      *)
LEMMA LastIsNewest ==
  ASSUME BusInv, ReadInv, NEW rx \in Receivers, ~done[rx], ~Unread(rx)
  PROVE  \/ handed[rx] = <<>> /\ version[rx] = 0
         \/ /\ handed[rx] # <<>> /\ Last(handed[rx]).val = val[rx]
<1> DEFINE s == handed[rx]
           n == Len(handed[rx])
<1>0. /\ s \in Seq(Events) /\ n \in Nat /\ DOMAIN s = 1..n
      /\ version[rx] \in Nat /\ lastSeen[rx] \in Nat /\ version[rx] <= lastSeen[rx]
  BY DEF BusInv, TypeInv, SlotTypes, Unread
<1>1. /\ Committed(rx) \in Nat /\ version[rx] <= Committed(rx)
      /\ Committed(rx) \in HandedVersions(rx) \cup {0}
      /\ Range(s) \subseteq Events
  BY <1>0, HandedTypes DEF BusInv, ReadInv, MarkInv, Marked
<1>2. CASE s = <<>>
  <2>1. HandedVersions(rx) = {}
    BY <1>2 DEF HandedVersions, Range
  <2> QED BY <1>0, <1>1, <1>2, <2>1
<1>3. CASE s # <<>>
  <2>1. n \in DOMAIN s /\ n \in Nat
    BY <1>0, <1>3
  <2> DEFINE e == s[n]
  <2>2. /\ e \in Range(s) /\ e \in Known(rx) /\ Last(s) = e
    BY <2>1 DEF Range, Known, Last
  <2>3. e.ver \in 1..version[rx]
    BY <2>2 DEF ReadInv, KeyInv, Genuine
  <2>4. version[rx] <= e.ver
    <3>1. PICK i \in DOMAIN s : s[i].ver = Committed(rx)
      <4>1. Committed(rx) # 0
        BY <1>0, <1>1, <2>3
      <4>2. Committed(rx) \in HandedVersions(rx)
        BY <1>1, <4>1
      <4> QED BY <4>2 DEF HandedVersions, Range
    <3>2. CASE i = n
      BY <1>1, <3>1, <3>2
    <3>3. CASE i # n
      <4>1. i < n
        BY <1>0, <3>3
      <4>2. s[i].ver < e.ver
        BY <2>1, <4>1 DEF ReadInv, Rising, EachValueOnce
      <4> QED BY <1>0, <1>1, <2>3, <3>1, <4>2
    <3> QED BY <3>2, <3>3
  <2>5. e.ver = version[rx] /\ version[rx] > 0
    BY <1>0, <2>3, <2>4
  <2>6. Slot(rx) \in Known(rx) /\ Slot(rx).ver = version[rx] /\ Slot(rx).val = val[rx]
    BY <2>5 DEF Known, Slot
  <2>7. e.val = val[rx]
    BY <2>2, <2>5, <2>6 DEF ReadInv, Ordered
  <2> QED BY <1>3, <2>2, <2>7
<1> QED BY <1>2, <1>3

(* EndsOnTruth: "the value a subscriber ends on is the value that was true  *)
(* last" (watch/examples), for any number of producers, subscribers, jobs   *)
(* and changes, as long as nobody ranges over a handle and reads it too.    *)
THEOREM StreamsEndOnTruth ==
  ASSUME NewerWins, ~Mixes PROVE SchedSpec => []EndsOnTruth
<1>1. ASSUME BusInv, SchedInv, ReadInv PROVE EndsOnTruth
  <2> SUFFICES ASSUME NEW rx \in minted \ receivers, ~done[rx]
               PROVE  View(rx) = state[key[rx]]
    BY DEF EndsOnTruth
  <2>1. rx \in Receivers /\ txClosed /\ ~Unread(rx)
    BY <1>1 DEF BusInv, TypeInv, HubTypes, DeregisteredIsFinished, Drained
  <2>2. val[rx] = state[key[rx]]
    BY <1>1, <2>1 DEF SchedInv, CommitInv, TruthInv
  <2>3. version[rx] = 0 => val[rx] = seed[rx][2]
    BY <1>1 DEF SchedInv, SubscribeInv
  <2> QED BY <1>1, <2>1, <2>2, <2>3, LastIsNewest DEF View
<1>2. SchedInit => BusInv /\ SchedInv /\ ReadInv
  <2>1. Init => ReadInv
    BY InitMarkInv, InitRising, InitKeyInv, InitKnown DEF ReadInv, Ordered
  <2> QED BY <2>1, InitBusInv, InitSchedInv DEF SchedInit
<1>3. BusInv /\ SchedInv /\ [SchedNext]_<<vars, schedVars>> => BusInv' /\ SchedInv'
  BY NextSchedInv
<1>4. ASSUME BusInv, SchedInv, ReadInv, [SchedNext]_<<vars, schedVars>>
      PROVE  ReadInv'
  <2>1. [Next]_vars /\ TypeInv /\ HubInv /\ IndexExact
    BY <1>4, SchedSteps DEF BusInv, SchedInv
  <2> QED BY <1>4, <2>1, NextMarkInv, NextSeparate, NextRising, NextKeyInv,
             NextOrdered, NewerIsStrict DEF ReadInv
<1>5. BusInv /\ SchedInv /\ ReadInv /\ [SchedNext]_<<vars, schedVars>> => ReadInv'
  BY <1>4
<1>6. BusInv /\ SchedInv /\ ReadInv => EndsOnTruth
  BY <1>1
<1> QED BY <1>2, <1>3, <1>5, <1>6, PTL DEF SchedSpec
=============================================================================
