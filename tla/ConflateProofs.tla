---------------------------- MODULE ConflateProofs ----------------------------
(***************************************************************************)
(* Proofs about the conflate bus, for any number of clients, receivers,    *)
(* keys and values.                                                        *)
(***************************************************************************)
EXTENDS ConflateAudit, ConflateQueueProofs, BusProofs

-----------------------------------------------------------------------------
(* Type correctness.  TypeOK is not inductive: that the key at the head of  *)
(* a backlog has a value, that a reader has a receiver and a sender an      *)
(* event depend on the backlogs' coherence and on where each goroutine is.  *)

SendPCs == {"sendCtx", "sendLock"}
ReadPCs == {"recvLock", "recvPark", "recvDefer", "tryRecvLock",
            "tryRecvAllLock", "peekLock"}

LocalsOK ==
  /\ \A c \in Clients :
       /\ pc[c] \in ClientPCs
       /\ pc[c] \in SendPCs => msg[c] \in Events
       /\ pc[c] \in ReadPCs => tgt[c] \in Receivers
  /\ \A rx \in Receivers : pc[rx] \in FeederPCs

TypeInv == TypeOK /\ QueueCoherent /\ LocalsOK

(* Under the invariant every backlog is one the queue lemmas apply to.      *)
LEMMA GoodQueues ==
  ASSUME TypeInv PROVE \A rx \in Receivers : GoodQueue(q[rx])
BY DEF TypeInv, TypeOK, QueueCoherent, GoodQueue

(* Backlogs that are good one by one are coherent together.                 *)
LEMMA GoodQueuesSuffice ==
  ASSUME q' \in [Receivers -> Queues], \A rx \in Receivers : GoodQueue(q'[rx])
  PROVE  QueueCoherent'
BY DEF QueueCoherent, GoodQueue

(* The invariant holds in a bus that has only been made. *)
LEMMA InitTypeInv == Init => TypeInv
<1> SUFFICES ASSUME Init PROVE TypeInv
  OBVIOUS
<1> USE DEF Init
<1>1. EmptyQueue \in Queues /\ Coherent(EmptyQueue)
  BY EmptyQueueGood DEF GoodQueue
<1>2. QueueCoherent
  BY <1>1 DEF QueueCoherent
<1>3. Ok \in Results
  BY DEF Ok, Result, Results
<1>4. pc \in [Procs -> ClientPCs \cup FeederPCs]
  BY DEF ClientPCs, FeederPCs
<1>5. TypeOK
  <2>1. q \in [Receivers -> Queues]
    BY <1>1
  <2>2. ret \in [Clients -> Results]
    BY <1>3
  <2>3. asleep \in [Receivers -> SUBSET Procs] /\ parked \in [Procs -> BOOLEAN]
    OBVIOUS
  <2>4. ctx \in [Clients -> Contexts]
    BY DEF Contexts
  <2> HIDE DEF Init
  <2>5. /\ txClosed \in BOOLEAN /\ hubClosed \in BOOLEAN
        /\ done \in [Receivers -> BOOLEAN]
    BY Zenon DEF Init
  <2>6. /\ receivers \subseteq minted
        /\ live \in Nat \cup {Poisoned} /\ mu \in Clients \cup {None}
        /\ minted \subseteq Receivers /\ keep \in [Receivers -> Filters \cup {None}]
        /\ merge \in [Receivers -> Policies \cup {None}]
        /\ waiters \in [Receivers -> Int]
        /\ tgt \in [Clients -> Receivers \cup {None}]
        /\ msg \in [Clients -> Events \cup {None}]
        /\ hand \in [Receivers -> Events \cup {None}]
    BY DEF Init
  <2> QED BY <1>4, <2>1, <2>2, <2>3, <2>4, <2>5, <2>6 DEF TypeOK
<1>6. LocalsOK
  BY ConflateAssumption, BusAssumption
  DEF LocalsOK, ClientPCs, FeederPCs, SendPCs, ReadPCs, Procs
<1> QED BY <1>2, <1>5, <1>6 DEF TypeInv

(* The count of registered receivers is a number. *)
LEMMA CountType ==
  ASSUME TypeInv, NEW R, R \subseteq Receivers PROVE Cardinality(R) \in Nat
BY ConflateAssumption, BusAssumption, FS_Subset, FS_CardinalityType

(* FanOut changes backlogs to backlogs: every receiver it reaches is one    *)
(* whose filter and merge do not panic.                                     *)
LEMMA FanOutType ==
  ASSUME TypeInv, NEW R \in SUBSET Receivers, NEW k \in Keys, NEW v \in Values,
         \A rx \in R : ~Fails(rx, k, v), FanOut(R, k, v)
  PROVE  /\ q' \in [Receivers -> Queues] /\ QueueCoherent'
         /\ asleep' \in [Receivers -> SUBSET Procs]
<1>1. ASSUME NEW rx \in Receivers PROVE PolicyOf(rx) \in Merges
  BY ConflateAssumption, BusAssumption DEF PolicyOf, TypeInv, TypeOK
<1> DEFINE hit == {rx \in R : Takes(rx, k)}
<1>2. ASSUME NEW rx \in Receivers, rx \in hit
      PROVE  GoodQueue(Enqueue(q[rx], k, v, PolicyOf(rx)))
  BY <1>1, <1>2, GoodQueues, EnqueueGood DEF Fails
<1> HIDE DEF hit
<1>3. q' = [rx \in Receivers |->
              IF rx \in hit THEN Enqueue(q[rx], k, v, PolicyOf(rx)) ELSE q[rx]]
  BY DEF FanOut, hit
<1>4. \A rx \in Receivers : GoodQueue(q'[rx])
  BY <1>2, <1>3, GoodQueues
<1>5. q' \in [Receivers -> Queues]
  BY <1>3, <1>4 DEF GoodQueue
<1>6. asleep' \in [Receivers -> SUBSET Procs]
  BY DEF FanOut, Signalled, TypeInv, TypeOK
<1> QED BY <1>4, <1>5, <1>6, GoodQueuesSuffice

(* A step that returns from a call, or moves inside one.                    *)
LEMMA ReturnType ==
  ASSUME TypeInv, NEW c \in Clients, NEW r \in Results, Return(c, r)
  PROVE  /\ pc' \in [Procs -> ClientPCs \cup FeederPCs]
         /\ tgt' \in [Clients -> Receivers \cup {None}]
         /\ msg' \in [Clients -> Events \cup {None}]
         /\ ctx' \in [Clients -> Contexts]
         /\ ret' \in [Clients -> Results]
         /\ LocalsOK'
BY ConflateAssumption, BusAssumption
DEF Return, Goto, TypeInv, TypeOK, LocalsOK, ClientPCs, FeederPCs, Contexts,
    SendPCs, ReadPCs, Procs

(* Entering an operation with arguments of its kind keeps the types.        *)
LEMMA EnterType ==
  ASSUME TypeInv, NEW c \in Clients, NEW l \in ClientPCs,
         NEW rx \in Receivers \cup {None}, NEW ev \in Events \cup {None},
         NEW x \in Contexts,
         l \in SendPCs => ev \in Events, l \in ReadPCs => rx \in Receivers,
         Enter(c, l, rx, ev, x)
  PROVE  /\ pc' \in [Procs -> ClientPCs \cup FeederPCs]
         /\ tgt' \in [Clients -> Receivers \cup {None}]
         /\ msg' \in [Clients -> Events \cup {None}]
         /\ ctx' \in [Clients -> Contexts]
         /\ ret' \in [Clients -> Results]
         /\ LocalsOK'
<1>1. Ok \in Results
  BY DEF Ok, Result, Results
<1> QED
BY <1>1, ConflateAssumption, BusAssumption
DEF Enter, Goto, TypeInv, TypeOK, LocalsOK, Procs

(* Moving on within an operation keeps the types.                           *)
LEMMA GotoType ==
  ASSUME TypeInv, NEW p \in Procs, NEW l, Goto(p, l),
         p \in Clients => /\ l \in ClientPCs
                          /\ l \in SendPCs => pc[p] \in SendPCs
                          /\ l \in ReadPCs => pc[p] \in ReadPCs,
         p \in Receivers => l \in FeederPCs,
         UNCHANGED callVars
  PROVE  /\ pc' \in [Procs -> ClientPCs \cup FeederPCs]
         /\ LocalsOK'
BY ConflateAssumption, BusAssumption DEF Goto, TypeInv, TypeOK, LocalsOK, Procs, callVars

(* Every answer of the API is a result. *)
LEMMA ResultTypes ==
  /\ Ok \in Results
  /\ \A e \in {"ErrClosed", "ErrEmpty", "ctx.Err", "panic"} :
       Result(e, <<>>) \in Results
  /\ \A s \in Seq(Events) : Result("nil", s) \in Results
BY DEF Ok, Result, Results

(* Hub.Receiver preserves the type invariant.                               *)
LEMMA NewReceiverType ==
  ASSUME TypeInv, NEW c \in Clients, NEW rx \in Receivers, NEW f \in Filters,
         NEW m \in OwnMerges, NewReceiver(c, rx, f, m)
  PROVE  TypeInv'
<1> USE DEF NewReceiver, hubVars, callVars, wakeVars, TypeInv
<1>1. QueueCoherent' /\ LocalsOK'
  BY DEF QueueCoherent, LocalsOK
<1>2. Cardinality(receivers') \in Nat
  BY CountType DEF TypeOK, Register
<1>3. TypeOK'
  BY <1>2 DEF TypeOK, Register, Sync, OwnMerges
<1> QED BY <1>1, <1>3

(* The lock-free start of a send preserves the type invariant.              *)
LEMMA CallSendType ==
  ASSUME TypeInv, NEW c \in Clients, NEW k \in Keys, NEW v \in Values,
         NEW x \in Contexts, CallSend(c, k, v, x)
  PROVE  TypeInv'
<1> USE DEF hubVars, handleVars, wakeVars
<1>1. Event(k, v) \in Events
  BY DEF Event, Events
<1>2. UNCHANGED <<hubVars, handleVars, done, q, wakeVars, hand>>
  BY DEF CallSend
<1>3. \/ \E l \in {"sendLock", "sendCtx"} : Enter(c, l, None, Event(k, v), x)
      \/ Return(c, Ok)
  BY DEF CallSend
<1>4. /\ pc' \in [Procs -> ClientPCs \cup FeederPCs]
      /\ tgt' \in [Clients -> Receivers \cup {None}]
      /\ msg' \in [Clients -> Events \cup {None}]
      /\ ctx' \in [Clients -> Contexts]
      /\ ret' \in [Clients -> Results]
      /\ LocalsOK'
  <2>1. CASE Return(c, Ok)
    BY <2>1, ReturnType, ResultTypes
  <2>2. ASSUME NEW l \in {"sendLock", "sendCtx"},
               Enter(c, l, None, Event(k, v), x)
        PROVE  <1>4!:
    <3>1. l \in ClientPCs /\ l \notin ReadPCs
      BY DEF ClientPCs, ReadPCs
    <3> QED BY <1>1, <2>2, <3>1, EnterType
  <2> QED BY <1>3, <2>1, <2>2
<1> QED BY <1>2, <1>4 DEF TypeInv, TypeOK, QueueCoherent

(* The fan-out preserves the type invariant, a panic half-way included.     *)
LEMMA SendLockedType ==
  ASSUME TypeInv, NEW c \in Clients, SendLocked(c)
  PROVE  TypeInv'
<1> USE DEF hubVars, handleVars
<1>1. UNCHANGED <<hubVars, handleVars, done, waiters, parked, hand>>
  BY DEF SendLocked
<1>2. msg[c] \in Events
  BY DEF SendLocked, TypeInv, LocalsOK, SendPCs
<1>3. PICK r \in Results : Return(c, r)
  <2>1. SendRefused(c) # "nil" => SendRefused(c) \in {"ErrClosed", "ctx.Err"}
    BY DEF SendRefused
  <2> QED BY <2>1, ResultTypes DEF SendLocked
<1>4. /\ q' \in [Receivers -> Queues] /\ QueueCoherent'
      /\ asleep' \in [Receivers -> SUBSET Procs]
  <2>1. CASE UNCHANGED <<q, asleep>>
    BY <2>1 DEF TypeInv, TypeOK, QueueCoherent
  <2>2. CASE \E R \in SUBSET receivers :
               /\ \A rx \in R : ~Fails(rx, msg[c].key, msg[c].val)
               /\ FanOut(R, msg[c].key, msg[c].val)
    <3>1. receivers \subseteq Receivers
      BY DEF TypeInv, TypeOK
    <3>2. msg[c].key \in Keys /\ msg[c].val \in Values
      BY <1>2 DEF Events
    <3> QED BY <2>2, <3>1, <3>2, FanOutType
  <2>3. \/ UNCHANGED <<q, asleep>>
        \/ \E R \in SUBSET receivers :
             /\ \A rx \in R : ~Fails(rx, msg[c].key, msg[c].val)
             /\ FanOut(R, msg[c].key, msg[c].val)
    BY DEF SendLocked
  <2> QED BY <2>1, <2>2, <2>3
<1> QED BY <1>1, <1>3, <1>4, ReturnType DEF TypeInv, TypeOK

(* The ordered run answers one of its five verdicts; a value verdict means  *)
(* that the backlog has a head.                                             *)
LEMMA VerdictType ==
  ASSUME NEW rx, NEW x
  PROVE  /\ Verdict(rx, x) \in {"closed", "drained", "cancelled", "value", "empty"}
         /\ Verdict(rx, x) = "value" => q[rx].order # <<>> /\ ~Closed(rx)
         /\ Verdict(rx, x) = "drained" => Drained(rx) /\ ~Closed(rx)
         /\ Verdict(rx, x) = "closed" => Closed(rx)
         /\ Verdict(rx, x) = "empty" =>
              q[rx].order = <<>> /\ ~Closed(rx) /\ ~Drained(rx) /\ ~Cancelled(rx, x)
BY DEF Verdict

(* Taking a value from one backlog leaves every backlog a backlog. *)
LEMMA PopType ==
  ASSUME TypeInv, NEW rx \in Receivers, q[rx].order # <<>>
  PROVE  /\ HeadEvent(q[rx]) \in Events
         /\ <<HeadEvent(q[rx])>> \in Seq(Events)
         /\ AllEvents(q[rx]) \in Seq(Events)
         /\ \A b \in {Popped(q[rx]), PoppedAll(q[rx]), q[rx]} :
              q' = [q EXCEPT ![rx] = b] =>
                q' \in [Receivers -> Queues] /\ QueueCoherent'
<1>1. HeadEvent(q[rx]) \in Events /\ AllEvents(q[rx]) \in Seq(Events)
  BY GoodQueues, HeadEventIsEvent, AllEventsAreEvents DEF Events
<1>2. <<HeadEvent(q[rx])>> \in Seq(Events)
  BY <1>1
<1>3. ASSUME NEW b \in {Popped(q[rx]), PoppedAll(q[rx]), q[rx]},
             q' = [q EXCEPT ![rx] = b]
      PROVE  q' \in [Receivers -> Queues] /\ QueueCoherent'
  <2>1. GoodQueue(b)
    BY GoodQueues, PoppedGood, PoppedAllGood
  <2>2. q' \in [Receivers -> Queues] /\ \A r \in Receivers : GoodQueue(q'[r])
    BY <1>3, <2>1, GoodQueues DEF GoodQueue, TypeInv, TypeOK
  <2> QED BY <2>2, GoodQueuesSuffice
<1> QED BY <1>1, <1>2, <1>3

(* Deregistering on a verdict keeps the registry within what was minted.    *)
LEMMA TearDownType ==
  ASSUME TypeInv, NEW rx \in Receivers, NEW verdict, TearDown(rx, verdict)
  PROVE  receivers' \subseteq minted /\ live' \in Nat \cup {Poisoned}
<1>1. CASE Deregister(rx)
  BY <1>1, CountType DEF Deregister, Sync, TypeInv, TypeOK
<1>2. CASE UNCHANGED <<receivers, live>>
  BY <1>2 DEF TypeInv, TypeOK
<1> QED BY <1>1, <1>2 DEF TearDown

(* The locked part of Recv preserves the type invariant.                    *)
LEMMA RecvLockedType ==
  ASSUME TypeInv, NEW c \in Clients, RecvLocked(c)
  PROVE  TypeInv'
<1> DEFINE rx == tgt[c]
           verdict == Verdict(rx, ctx[c])
<1>1. /\ verdict # "empty"
      /\ waiters' = [waiters EXCEPT ![rx] = WaitersLess(c, rx)]
      /\ parked' = [parked EXCEPT ![c] = FALSE]
      /\ TearDown(rx, verdict)
      /\ q' = IF verdict = "value" THEN [q EXCEPT ![rx] = Popped(@)] ELSE q
      /\ Return(c, RecvAnswer(rx, verdict))
      /\ UNCHANGED <<txClosed, hubClosed, mu, handleVars, done, asleep, hand>>
  BY DEF RecvLocked, Unpark
<1>2. rx \in Receivers
  BY DEF RecvLocked, TypeInv, LocalsOK, ReadPCs
<1>3. verdict \in {"closed", "drained", "cancelled", "value"}
      /\ (verdict = "value" => q[rx].order # <<>>)
  BY <1>1, VerdictType
<1> HIDE DEF rx, verdict
<1>4. RecvAnswer(rx, verdict) \in Results
  BY <1>2, <1>3, PopType, ResultTypes DEF RecvAnswer
<1>5. q' \in [Receivers -> Queues] /\ QueueCoherent'
  <2>1. CASE verdict = "value"
    BY <1>1, <1>2, <1>3, <2>1, PopType
  <2>2. CASE verdict # "value"
    BY <1>1, <2>2 DEF TypeInv, TypeOK, QueueCoherent
  <2> QED BY <2>1, <2>2
<1>6. receivers' \subseteq minted /\ live' \in Nat \cup {Poisoned}
  BY <1>1, <1>2, TearDownType
<1>7. waiters' \in [Receivers -> Int]
  BY <1>1, <1>2 DEF WaitersLess, TypeInv, TypeOK
<1>8. parked' \in [Procs -> BOOLEAN]
  BY <1>1 DEF TypeInv, TypeOK
<1> QED BY <1>1, <1>4, <1>5, <1>6, <1>7, <1>8, ReturnType
        DEF TypeInv, TypeOK, handleVars

(* TryRecv, TryRecvAll and Peek preserve the type invariant.                *)
LEMMA TryLockedType ==
  ASSUME TypeInv, NEW c \in Clients, NEW op \in TryOps, TryLocked(c, op)
  PROVE  TypeInv'
<1> DEFINE rx == tgt[c]
           verdict == Verdict(rx, "none")
<1>1. /\ TearDown(rx, verdict)
      /\ \/ /\ verdict \in {"closed", "drained"}
            /\ Return(c, Result("ErrClosed", <<>>))
            /\ UNCHANGED q
         \/ /\ verdict = "empty"
            /\ Return(c, Result("ErrEmpty", <<>>))
            /\ UNCHANGED q
         \/ /\ verdict = "value"
            /\ Return(c, Result("nil", TryEvents(rx, op)))
            /\ q' = [q EXCEPT ![rx] = TryLeaves(rx, op)]
      /\ UNCHANGED <<txClosed, hubClosed, mu, handleVars, done, wakeVars, hand>>
  BY DEF TryLocked
<1>2. rx \in Receivers
  BY DEF TryLocked, TryOps, TryPC, TypeInv, LocalsOK, ReadPCs
<1>3. verdict = "value" => q[rx].order # <<>>
  BY VerdictType
<1> HIDE DEF rx, verdict
<1>4. verdict = "value" => /\ TryEvents(rx, op) \in Seq(Events)
                           /\ TryLeaves(rx, op)
                                \in {Popped(q[rx]), PoppedAll(q[rx]), q[rx]}
  BY <1>2, <1>3, PopType DEF TryEvents, TryLeaves, TryOps
<1>5. PICK r \in Results : Return(c, r)
  BY <1>1, <1>4, ResultTypes
<1>6. q' \in [Receivers -> Queues] /\ QueueCoherent'
  <2>1. CASE UNCHANGED q
    BY <2>1 DEF TypeInv, TypeOK, QueueCoherent
  <2>2. CASE verdict = "value" /\ q' = [q EXCEPT ![rx] = TryLeaves(rx, op)]
    BY <1>2, <1>3, <1>4, <2>2, PopType
  <2> QED BY <1>1, <2>1, <2>2
<1>7. receivers' \subseteq minted /\ live' \in Nat \cup {Poisoned}
  BY <1>1, <1>2, TearDownType
<1> QED BY <1>1, <1>5, <1>6, <1>7, ReturnType
        DEF TypeInv, TypeOK, handleVars, wakeVars

(* The locked part of the feeder preserves the type invariant.              *)
LEMMA FeedLockedType ==
  ASSUME TypeInv, NEW rx \in Receivers, FeedLocked(rx)
  PROVE  TypeInv'
<1> DEFINE verdict == Verdict(rx, "none")
<1>1. /\ waiters' = [waiters EXCEPT ![rx] = WaitersLess(rx, rx)]
      /\ parked' = [parked EXCEPT ![rx] = FALSE]
      /\ TearDown(rx, verdict)
      /\ \/ /\ verdict = "value"
            /\ hand' = [hand EXCEPT ![rx] = HeadEvent(q[rx])]
            /\ q' = [q EXCEPT ![rx] = Popped(@)]
            /\ Goto(rx, "feedDeliver")
         \/ /\ Goto(rx, "feedExited")
            /\ UNCHANGED <<q, hand>>
      /\ UNCHANGED <<txClosed, hubClosed, mu, handleVars, done, asleep, callVars>>
  BY DEF FeedLocked, Unpark
<1>2. verdict = "value" => q[rx].order # <<>>
  BY VerdictType
<1> HIDE DEF verdict
<1>3. /\ q' \in [Receivers -> Queues] /\ QueueCoherent'
      /\ hand' \in [Receivers -> Events \cup {None}]
  <2>1. CASE UNCHANGED <<q, hand>>
    BY <2>1 DEF TypeInv, TypeOK, QueueCoherent
  <2>2. CASE /\ verdict = "value"
             /\ hand' = [hand EXCEPT ![rx] = HeadEvent(q[rx])]
             /\ q' = [q EXCEPT ![rx] = Popped(@)]
    <3>1. q' = [q EXCEPT ![rx] = Popped(q[rx])]
      BY <2>2
    <3> QED BY <1>2, <2>2, <3>1, PopType DEF TypeInv, TypeOK
  <2> QED BY <1>1, <2>1, <2>2
<1>4. pc' \in [Procs -> ClientPCs \cup FeederPCs] /\ LocalsOK'
  <2>1. PICK l \in {"feedDeliver", "feedExited"} : Goto(rx, l)
    BY <1>1
  <2>2. rx \in Procs /\ rx \notin Clients /\ l \in FeederPCs
    BY ConflateAssumption, BusAssumption DEF Procs, FeederPCs
  <2> QED BY <1>1, <2>1, <2>2, GotoType
<1>5. receivers' \subseteq minted /\ live' \in Nat \cup {Poisoned}
  BY <1>1, TearDownType
<1>6. waiters' \in [Receivers -> Int]
  BY <1>1 DEF WaitersLess, TypeInv, TypeOK
<1>7. parked' \in [Procs -> BOOLEAN]
  BY <1>1 DEF TypeInv, TypeOK
<1> QED BY <1>1, <1>3, <1>4, <1>5, <1>6, <1>7
        DEF TypeInv, TypeOK, handleVars, callVars

(* Every step of every goroutine preserves the type invariant.              *)
LEMMA NextTypeInv == TypeInv /\ [Next]_vars => TypeInv'
<1> SUFFICES ASSUME TypeInv, [Next]_vars PROVE TypeInv'
  OBVIOUS
<1> USE DEF hubVars, handleVars, wakeVars
<1> DEFINE Typed == /\ pc' \in [Procs -> ClientPCs \cup FeederPCs]
                    /\ tgt' \in [Clients -> Receivers \cup {None}]
                    /\ msg' \in [Clients -> Events \cup {None}]
                    /\ ctx' \in [Clients -> Contexts]
                    /\ ret' \in [Clients -> Results]
                    /\ LocalsOK'
<1>0. UNCHANGED q => QueueCoherent'
  BY DEF TypeInv, QueueCoherent
<1>P. \A c \in Clients : c \in Procs /\ c \notin Receivers
  BY ConflateAssumption, BusAssumption DEF Procs
<1>R. \A rx \in Receivers : rx \in Procs /\ rx \notin Clients
  BY ConflateAssumption, BusAssumption DEF Procs
<1>E. \A op \in {"ErrClosed", "ErrEmpty", "ctx.Err", "panic"} :
        Result(op, <<>>) \in Results
  BY ResultTypes
<1>1. ASSUME NEW c \in Clients, NEW rx \in Receivers, NEW f \in Filters,
             NEW m \in OwnMerges, NewReceiver(c, rx, f, m)
      PROVE  TypeInv'
  BY <1>1, NewReceiverType
<1>2. ASSUME NEW c \in Clients, NEW k \in Keys, NEW v \in Values,
             NEW x \in Contexts, CallSend(c, k, v, x)
      PROVE  TypeInv'
  BY <1>2, CallSendType
<1>3. ASSUME NEW c \in Clients, CloseSender(c) PROVE TypeInv'
  <2>1. asleep' \in [Receivers -> SUBSET Procs]
    BY <1>3 DEF CloseSender, Signalled, TypeInv, TypeOK
  <2>2. LocalsOK'
    BY <1>3 DEF CloseSender, TypeInv, LocalsOK, callVars
  <2>3. txClosed' \in BOOLEAN
    BY <1>3 DEF CloseSender
  <2> QED BY <1>0, <1>3, <2>1, <2>2, <2>3
          DEF CloseSender, TypeInv, TypeOK, callVars
<1>4. ASSUME NEW c \in Clients, CloseHub(c) PROVE TypeInv'
  <2>1. pc' \in [Procs -> ClientPCs \cup FeederPCs] /\ LocalsOK'
    <3>1. "hubClosing" \in ClientPCs /\ "hubClosing" \notin SendPCs \cup ReadPCs
      BY DEF ClientPCs, SendPCs, ReadPCs
    <3> QED BY <1>4, <1>P, <3>1, GotoType DEF CloseHub
  <2>2. txClosed' \in BOOLEAN /\ hubClosed' \in BOOLEAN
    BY <1>4 DEF CloseHub
  <2> QED BY <1>0, <1>4, <2>1, <2>2 DEF CloseHub, TypeInv, TypeOK, callVars
<1>5. ASSUME NEW c \in Clients, NEW rx \in Receivers, CloseHubDone(c, rx)
      PROVE  TypeInv'
  <2>1. LocalsOK'
    BY <1>5 DEF CloseHubDone, TypeInv, LocalsOK, callVars
  <2> QED BY <1>0, <1>5, <2>1 DEF CloseHubDone, TypeInv, TypeOK, callVars
<1>6. ASSUME NEW c \in Clients, CloseHubEnd(c) PROVE TypeInv'
  <2>1. pc' \in [Procs -> ClientPCs \cup FeederPCs] /\ LocalsOK'
    <3>1. "idle" \in ClientPCs /\ "idle" \notin SendPCs \cup ReadPCs
      BY DEF ClientPCs, SendPCs, ReadPCs
    <3> QED BY <1>6, <1>P, <3>1, GotoType DEF CloseHubEnd
  <2> QED BY <1>0, <1>6, <2>1 DEF CloseHubEnd, TypeInv, TypeOK, callVars
<1>7. ASSUME NEW c \in Clients, NEW rx \in Receivers, CloseReceiver(c, rx)
      PROVE  TypeInv'
  <2>1. receivers' \subseteq minted /\ live' \in Nat \cup {Poisoned}
    BY <1>7, CountType DEF CloseReceiver, Deregister, Sync, TypeInv, TypeOK
  <2>2. LocalsOK'
    BY <1>7 DEF CloseReceiver, TypeInv, LocalsOK, callVars
  <2> QED BY <1>0, <1>7, <2>1, <2>2
          DEF CloseReceiver, TypeInv, TypeOK, callVars
<1>8. ASSUME NEW c \in Clients, NEW rx \in Receivers, Chan(c, rx)
      PROVE  TypeInv'
  <2>1. pc' \in [Procs -> ClientPCs \cup FeederPCs] /\ LocalsOK'
    <3>1. "feedProbe" \in FeederPCs
      BY DEF FeederPCs
    <3> QED BY <1>8, <1>R, <3>1, GotoType DEF Chan
  <2> QED BY <1>0, <1>8, <2>1 DEF Chan, TypeInv, TypeOK, callVars
<1>9. ASSUME NEW c \in Clients, NEW rx \in Receivers, NEW x \in Contexts,
             CallRecv(c, rx, x)
      PROVE  TypeInv'
  <2>1. Typed
    <3>1. "recvLock" \in ClientPCs /\ "recvLock" \notin SendPCs
      BY DEF ClientPCs, SendPCs
    <3> QED BY <1>9, <1>E, <3>1, ReturnType, EnterType DEF CallRecv
  <2> QED BY <1>0, <1>9, <2>1 DEF CallRecv, TypeInv, TypeOK
<1>10. ASSUME NEW c \in Clients, NEW rx \in Receivers, NEW op \in TryOps,
              CallTry(c, rx, op)
      PROVE  TypeInv'
  <2>1. Typed
    <3>1. TryPC(op) \in ClientPCs /\ TryPC(op) \notin SendPCs
      BY DEF ClientPCs, SendPCs, TryPC, TryOps
    <3>2. "none" \in Contexts
      BY DEF Contexts
    <3> QED BY <1>10, <1>E, <3>1, <3>2, ReturnType, EnterType DEF CallTry
  <2> QED BY <1>0, <1>10, <2>1 DEF CallTry, TypeInv, TypeOK
<1>11. ASSUME NEW c \in Clients, Cancel(c) PROVE TypeInv'
  <2>1. ctx' \in [Clients -> Contexts]
    BY <1>11 DEF Cancel, Contexts, TypeInv, TypeOK
  <2>2. LocalsOK'
    BY <1>11 DEF Cancel, TypeInv, LocalsOK
  <2> QED BY <1>0, <1>11, <2>1, <2>2 DEF Cancel, TypeInv, TypeOK
<1>12. ASSUME NEW c \in Clients, SendCtx(c) PROVE TypeInv'
  <2>1. Typed
    <3>1. "sendLock" \in ClientPCs /\ "sendLock" \notin ReadPCs
          /\ {"sendLock", "sendCtx"} \subseteq SendPCs
      BY DEF ClientPCs, ReadPCs, SendPCs
    <3>2. CASE Return(c, Ok)
      BY <3>2, ReturnType, ResultTypes
    <3>3. CASE Goto(c, "sendLock") /\ UNCHANGED callVars
      BY <1>12, <1>P, <3>1, <3>3, GotoType DEF SendCtx, callVars, TypeInv, TypeOK
    <3> QED BY <1>12, <3>2, <3>3 DEF SendCtx
  <2> QED BY <1>0, <1>12, <2>1 DEF SendCtx, TypeInv, TypeOK
<1>13. ASSUME NEW c \in Clients, SendLocked(c) PROVE TypeInv'
  BY <1>13, SendLockedType
<1>14. ASSUME NEW c \in Clients, RecvLocked(c) PROVE TypeInv'
  BY <1>14, RecvLockedType
<1>15. ASSUME NEW c \in Clients, RecvPark(c) PROVE TypeInv'
  <2>1. tgt[c] \in Receivers
    BY <1>15 DEF RecvPark, TypeInv, LocalsOK, ReadPCs
  <2>2. pc' \in [Procs -> ClientPCs \cup FeederPCs] /\ LocalsOK'
    <3>1. "recvPark" \in ClientPCs /\ "recvPark" \notin SendPCs
          /\ "recvLock" \in ReadPCs
      BY DEF ClientPCs, SendPCs, ReadPCs
    <3> QED BY <1>15, <1>P, <3>1, GotoType DEF RecvPark
  <2>3. /\ waiters' \in [Receivers -> Int] /\ parked' \in [Procs -> BOOLEAN]
        /\ asleep' \in [Receivers -> SUBSET Procs]
    BY <1>15, <1>P, <2>1 DEF RecvPark, Park, WaitersLess, TypeInv, TypeOK
  <2> QED BY <1>0, <1>15, <2>2, <2>3 DEF RecvPark, TypeInv, TypeOK, callVars
<1>16. ASSUME NEW c \in Clients, RecvWake(c) PROVE TypeInv'
  <2>1. PICK l \in {"recvDefer", "recvLock"} : Goto(c, l)
    BY <1>16 DEF RecvWake
  <2>2. pc' \in [Procs -> ClientPCs \cup FeederPCs] /\ LocalsOK'
    <3>1. l \in ClientPCs /\ l \notin SendPCs /\ "recvPark" \in ReadPCs
      BY DEF ClientPCs, SendPCs, ReadPCs
    <3> QED BY <1>16, <1>P, <2>1, <3>1, GotoType DEF RecvWake
  <2>3. asleep' \in [Receivers -> SUBSET Procs]
    BY <1>16 DEF RecvWake, TypeInv, TypeOK
  <2> QED BY <1>0, <1>16, <2>2, <2>3 DEF RecvWake, TypeInv, TypeOK, callVars
<1>17. ASSUME NEW c \in Clients, RecvDefer(c) PROVE TypeInv'
  <2>1. Typed
    BY <1>17, <1>E, ReturnType DEF RecvDefer
  <2>2. waiters' \in [Receivers -> Int]
    <3>1. tgt[c] \in Receivers
      BY <1>17 DEF RecvDefer, Unpark, TypeInv, LocalsOK, ReadPCs
    <3> QED BY <1>17, <3>1 DEF RecvDefer, Unpark, WaitersLess, TypeInv, TypeOK
  <2>3. parked' \in [Procs -> BOOLEAN]
    BY <1>17, <1>P DEF RecvDefer, Unpark, TypeInv, TypeOK
  <2> QED BY <1>0, <1>17, <2>1, <2>2, <2>3 DEF RecvDefer, Unpark, TypeInv, TypeOK
<1>18. ASSUME NEW c \in Clients, NEW op \in TryOps, TryLocked(c, op)
       PROVE  TypeInv'
  BY <1>18, TryLockedType
<1>19. ASSUME NEW rx \in Receivers, FeedLocked(rx) PROVE TypeInv'
  BY <1>19, FeedLockedType
<1>20. ASSUME NEW rx \in Receivers,
              \/ FeedProbe(rx) \/ FeedPark(rx) \/ FeedAbort(rx)
              \/ FeedWake(rx) \/ FeedDefer(rx) \/ ChanReceive(rx)
       PROVE  TypeInv'
  <2>1. /\ UNCHANGED <<hubVars, handleVars, done, q, callVars>>
        /\ \E l \in FeederPCs : Goto(rx, l)
    BY <1>20 DEF FeedProbe, FeedPark, FeedAbort, FeedWake, FeedDefer,
                 ChanReceive, FeedExit, FeederPCs
  <2>2. pc' \in [Procs -> ClientPCs \cup FeederPCs] /\ LocalsOK'
    BY <1>R, <2>1, GotoType
  <2>3. /\ waiters' \in [Receivers -> Int] /\ parked' \in [Procs -> BOOLEAN]
        /\ asleep' \in [Receivers -> SUBSET Procs]
    <3>1. CASE UNCHANGED wakeVars
      BY <3>1 DEF TypeInv, TypeOK
    <3>2. CASE FeedPark(rx)
      BY <1>R, <3>2 DEF FeedPark, Park, WaitersLess, TypeInv, TypeOK
    <3>3. CASE FeedWake(rx)
      BY <3>3 DEF FeedWake, TypeInv, TypeOK
    <3>4. CASE FeedDefer(rx)
      <4>1. waiters' \in [Receivers -> Int]
        BY <3>4 DEF FeedDefer, Unpark, WaitersLess, TypeInv, TypeOK
      <4>2. parked' \in [Procs -> BOOLEAN]
        BY <1>R, <3>4 DEF FeedDefer, Unpark, TypeInv, TypeOK
      <4> QED BY <3>4, <4>1, <4>2 DEF FeedDefer, Unpark, TypeInv, TypeOK
    <3> QED BY <1>20, <3>1, <3>2, <3>3, <3>4
            DEF FeedProbe, FeedAbort, ChanReceive
  <2>4. hand' \in [Receivers -> Events \cup {None}]
    BY <1>20 DEF FeedProbe, FeedPark, FeedAbort, FeedWake, FeedDefer,
                 ChanReceive, TypeInv, TypeOK
  <2> QED BY <1>0, <2>1, <2>2, <2>3, <2>4 DEF TypeInv, TypeOK, callVars
<1>21. CASE UNCHANGED vars
  <2>1. LocalsOK'
    BY <1>21 DEF vars, TypeInv, LocalsOK, callVars
  <2> QED BY <1>0, <1>21, <2>1 DEF vars, TypeInv, TypeOK, callVars
<1> QED
  BY <1>1, <1>2, <1>3, <1>4, <1>5, <1>6, <1>7, <1>8, <1>9, <1>10, <1>11, <1>12,
     <1>13, <1>14, <1>15, <1>16, <1>17, <1>18, <1>19, <1>20, <1>21
  DEF Next, Call, ClientStep, FeederStep

(* TypeOK, for every number of clients and receivers: in particular no      *)
(* reader ever takes a value from an empty backlog, and a feeder never      *)
(* holds anything but an event.                                             *)
THEOREM TypeCorrect == Spec => []TypeOK
<1>1. TypeInv => TypeOK
  BY DEF TypeInv
<1> QED BY <1>1, InitTypeInv, NextTypeInv, PTL DEF Spec

(* QueueCoherent, for every number of receivers, keys and values: the list, *)
(* the element map and the slots agree after any interleaving of sends,     *)
(* annihilations, panics and takes.                                         *)
THEOREM BacklogsCoherent == Spec => []QueueCoherent
<1>1. TypeInv => QueueCoherent
  BY DEF TypeInv
<1> QED BY <1>1, InitTypeInv, NextTypeInv, PTL DEF Spec

-----------------------------------------------------------------------------
(* The gate of the send fast path.  LiveExact alone is not inductive: that  *)
(* Hub.Close may empty the map without a Sync rests on the poison it set    *)
(* before, which its caller still finds when it comes to the end of its     *)
(* loop.                                                                    *)

GateInv == /\ LiveExact
           /\ hubClosed => txClosed
           /\ \A c \in Clients : pc[c] = "hubClosing" => hubClosed

(* The live count of a bus that has only been made is exact.                *)
LEMMA InitGateInv == Init => GateInv
<1> SUFFICES ASSUME Init PROVE GateInv
  OBVIOUS
<1>1. LiveExact
  BY FS_EmptySet DEF Init, LiveExact
<1>2. \A c \in Clients : pc[c] # "hubClosing"
  BY DEF Init, Procs
<1> QED BY <1>1, <1>2 DEF Init, GateInv

(* A count taken from the map is no poison. *)
LEMMA SyncExact ==
  ASSUME TypeInv, LiveExact, NEW R, R \subseteq Receivers,
         receivers' = R, live' = Sync(Cardinality(R)), UNCHANGED txClosed
  PROVE  LiveExact'
<1>1. Cardinality(R) \in Nat /\ Cardinality(receivers) \in Nat
  BY CountType DEF TypeInv, TypeOK
<1> QED BY <1>1 DEF LiveExact, Sync, Poisoned

(* Deregistering resyncs the live count, or leaves both alone.              *)
LEMMA TearDownExact ==
  ASSUME TypeInv, LiveExact, NEW rx \in Receivers, NEW verdict,
         TearDown(rx, verdict), UNCHANGED txClosed
  PROVE  LiveExact'
<1>1. CASE Deregister(rx)
  <2>1. receivers \ {rx} \subseteq Receivers
    BY DEF TypeInv, TypeOK
  <2> QED BY <1>1, <2>1, SyncExact DEF Deregister
<1>2. CASE UNCHANGED <<receivers, live>>
  BY <1>2 DEF LiveExact
<1> QED BY <1>1, <1>2 DEF TearDown

(* Only Hub.Close puts a client into its loop. *)
LEMMA HubClosingKept ==
  ASSUME TypeInv, GateInv, NEW p \in Procs, NEW l, l # "hubClosing", Goto(p, l),
         UNCHANGED hubClosed
  PROVE  \A c \in Clients : pc'[c] = "hubClosing" => hubClosed'
BY DEF GateInv, Goto, TypeInv, TypeOK, Procs

(* Every step keeps the fast path exact.                                    *)
LEMMA NextGateInv == TypeInv /\ GateInv /\ [Next]_vars => GateInv'
<1> SUFFICES ASSUME TypeInv, GateInv, [Next]_vars PROVE GateInv'
  OBVIOUS
<1>0. receivers \subseteq Receivers /\ LiveExact
  BY DEF TypeInv, TypeOK, GateInv
<1>P. \A p \in Clients \cup Receivers : p \in Procs
  BY DEF Procs
(* Steps that leave the hub alone, or only tear a receiver down. *)
<1>A. ASSUME UNCHANGED hubVars,
             \/ UNCHANGED pc
             \/ \E p \in Procs, l \in (ClientPCs \cup FeederPCs) \ {"hubClosing"} :
                  Goto(p, l)
      PROVE  GateInv'
  <2>1. LiveExact'
    BY <1>0, <1>A DEF hubVars, LiveExact
  <2>2. \A c \in Clients : pc'[c] = "hubClosing" => hubClosed'
    <3>1. CASE UNCHANGED pc
      BY <1>A, <3>1 DEF GateInv, hubVars
    <3>2. CASE \E p \in Procs, l \in (ClientPCs \cup FeederPCs) \ {"hubClosing"} :
                 Goto(p, l)
      BY <1>A, <3>2, HubClosingKept DEF hubVars
    <3> QED BY <1>A, <3>1, <3>2
  <2> QED BY <1>A, <2>1, <2>2 DEF GateInv, hubVars
<1>B. ASSUME NEW rx \in Receivers, NEW verdict, TearDown(rx, verdict),
             UNCHANGED <<txClosed, hubClosed>>,
             NEW p \in Procs, NEW l, l # "hubClosing", Goto(p, l)
      PROVE  GateInv'
  <2>1. LiveExact'
    BY <1>0, <1>B, TearDownExact
  <2>2. \A c \in Clients : pc'[c] = "hubClosing" => hubClosed'
    BY <1>B, HubClosingKept
  <2> QED BY <1>B, <2>1, <2>2 DEF GateInv
<1>1. ASSUME NEW c \in Clients, NEW rx \in Receivers, NEW f \in Filters,
             NEW m \in OwnMerges, NewReceiver(c, rx, f, m)
      PROVE  GateInv'
  <2>1. CASE UNCHANGED <<receivers, live>>
    BY <1>1, <2>1, <1>0 DEF NewReceiver, GateInv, LiveExact
  <2>2. CASE Register(rx)
    <3>1. receivers \cup {rx} \subseteq Receivers
      BY <1>0
    <3>2. LiveExact'
      BY <1>0, <1>1, <2>2, <3>1, SyncExact DEF NewReceiver, Register
    <3> QED BY <1>1, <3>2 DEF NewReceiver, GateInv
  <2> QED BY <1>1, <2>1, <2>2 DEF NewReceiver
<1>2. ASSUME NEW c \in Clients, NEW k \in Keys, NEW v \in Values,
             NEW x \in Contexts, CallSend(c, k, v, x)
      PROVE  GateInv'
  <2>1. \E l \in {"sendLock", "sendCtx", "idle"} : Goto(c, l)
    BY <1>2 DEF CallSend, Enter, Return
  <2> QED BY <1>2, <1>A, <1>P, <2>1 DEF CallSend, ClientPCs
<1>3. ASSUME NEW c \in Clients, CloseSender(c) PROVE GateInv'
  BY <1>3 DEF CloseSender, GateInv, LiveExact
<1>4. ASSUME NEW c \in Clients, CloseHub(c) PROVE GateInv'
  BY <1>4 DEF CloseHub, GateInv, LiveExact
<1>5. ASSUME NEW c \in Clients, NEW rx \in Receivers, CloseHubDone(c, rx)
      PROVE  GateInv'
  BY <1>5, <1>A DEF CloseHubDone
<1>6. ASSUME NEW c \in Clients, CloseHubEnd(c) PROVE GateInv'
  <2>1. txClosed
    BY <1>6 DEF CloseHubEnd, GateInv
  <2>2. LiveExact'
    BY <1>0, <1>6, <2>1 DEF CloseHubEnd, LiveExact
  <2>3. \A b \in Clients : pc'[b] = "hubClosing" => hubClosed'
    BY <1>6, <1>P, HubClosingKept DEF CloseHubEnd
  <2> QED BY <1>6, <2>1, <2>2, <2>3 DEF CloseHubEnd, GateInv
<1>7. ASSUME NEW c \in Clients, NEW rx \in Receivers, CloseReceiver(c, rx)
      PROVE  GateInv'
  <2>1. receivers \ {rx} \subseteq Receivers
    BY <1>0
  <2>2. LiveExact'
    BY <1>0, <1>7, <2>1, SyncExact DEF CloseReceiver, Deregister
  <2> QED BY <1>7, <2>2 DEF CloseReceiver, GateInv
<1>8. ASSUME NEW c \in Clients, NEW rx \in Receivers, Chan(c, rx)
      PROVE  GateInv'
  BY <1>8, <1>A, <1>P DEF Chan, FeederPCs
<1>9. ASSUME NEW c \in Clients, NEW rx \in Receivers, NEW x \in Contexts,
             CallRecv(c, rx, x)
      PROVE  GateInv'
  <2>1. \E l \in {"recvLock", "idle"} : Goto(c, l)
    BY <1>9 DEF CallRecv, Enter, Return
  <2> QED BY <1>9, <1>A, <1>P, <2>1 DEF CallRecv, ClientPCs
<1>10. ASSUME NEW c \in Clients, NEW rx \in Receivers, NEW op \in TryOps,
              CallTry(c, rx, op)
       PROVE  GateInv'
  <2>1. \E l \in {"tryRecvLock", "tryRecvAllLock", "peekLock", "idle"} : Goto(c, l)
    BY <1>10 DEF CallTry, TryPC, TryOps, Enter, Return
  <2> QED BY <1>10, <1>A, <1>P, <2>1 DEF CallTry, ClientPCs
<1>11. ASSUME NEW c \in Clients, Cancel(c) PROVE GateInv'
  BY <1>11, <1>A DEF Cancel
<1>12. ASSUME NEW c \in Clients, SendCtx(c) \/ SendLocked(c) PROVE GateInv'
  <2>1. \E l \in {"sendLock", "idle"} : Goto(c, l)
    BY <1>12 DEF SendCtx, SendLocked, Return
  <2> QED BY <1>12, <1>A, <1>P, <2>1 DEF SendCtx, SendLocked, ClientPCs
<1>13. ASSUME NEW c \in Clients, RecvPark(c) \/ RecvWake(c) \/ RecvDefer(c)
       PROVE  GateInv'
  <2>1. \E l \in {"recvPark", "recvLock", "recvDefer", "idle"} : Goto(c, l)
    BY <1>13 DEF RecvPark, RecvWake, RecvDefer, Return
  <2> QED BY <1>13, <1>A, <1>P, <2>1 DEF RecvPark, RecvWake, RecvDefer, ClientPCs
<1>14. ASSUME NEW c \in Clients, RecvLocked(c) PROVE GateInv'
  <2>1. tgt[c] \in Receivers
    BY <1>14 DEF RecvLocked, TypeInv, LocalsOK, ReadPCs
  <2>2. TearDown(tgt[c], Verdict(tgt[c], ctx[c])) /\ Goto(c, "idle")
        /\ UNCHANGED <<txClosed, hubClosed>>
    BY <1>14 DEF RecvLocked, Return
  <2> QED BY <1>B, <1>P, <2>1, <2>2
<1>15. ASSUME NEW c \in Clients, NEW op \in TryOps, TryLocked(c, op)
       PROVE  GateInv'
  <2>1. tgt[c] \in Receivers
    BY <1>15 DEF TryLocked, TryOps, TryPC, TypeInv, LocalsOK, ReadPCs
  <2>2. TearDown(tgt[c], Verdict(tgt[c], "none")) /\ Goto(c, "idle")
        /\ UNCHANGED <<txClosed, hubClosed>>
    BY <1>15 DEF TryLocked, Return
  <2> QED BY <1>B, <1>P, <2>1, <2>2
<1>16. ASSUME NEW rx \in Receivers, FeedLocked(rx) PROVE GateInv'
  <2>1. TearDown(rx, Verdict(rx, "none")) /\ UNCHANGED <<txClosed, hubClosed>>
        /\ \E l \in {"feedDeliver", "feedExited"} : Goto(rx, l)
    BY <1>16 DEF FeedLocked
  <2> QED BY <1>B, <1>P, <2>1
<1>17. ASSUME NEW rx \in Receivers,
              \/ FeedProbe(rx) \/ FeedPark(rx) \/ FeedAbort(rx)
              \/ FeedWake(rx) \/ FeedDefer(rx) \/ ChanReceive(rx)
       PROVE  GateInv'
  <2>1. UNCHANGED hubVars
    BY <1>17 DEF FeedProbe, FeedPark, FeedAbort, FeedWake, FeedDefer, ChanReceive
  <2>2. \E l \in FeederPCs : Goto(rx, l)
    BY <1>17 DEF FeedProbe, FeedPark, FeedAbort, FeedWake, FeedDefer,
                 ChanReceive, FeedExit, FeederPCs
  <2>3. FeederPCs \subseteq (ClientPCs \cup FeederPCs) \ {"hubClosing"}
    BY DEF FeederPCs, ClientPCs
  <2> QED BY <1>A, <1>P, <2>1, <2>2, <2>3
<1>18. CASE UNCHANGED vars
  BY <1>18, <1>A DEF vars
<1> QED
  BY <1>1, <1>2, <1>3, <1>4, <1>5, <1>6, <1>7, <1>8, <1>9, <1>10, <1>11, <1>12,
     <1>13, <1>14, <1>15, <1>16, <1>17, <1>18
  DEF Next, Call, ClientStep, FeederStep

(* LiveExact, for every number of receivers and senders: a publisher that   *)
(* reads zero without the lock skips nobody, and a closed bus never looks   *)
(* idle, whatever registers, drains or closes meanwhile.                    *)
THEOREM FastPathExact == Spec => []LiveExact
<1>1. GateInv => LiveExact
  BY DEF GateInv
<1> QED BY <1>1, InitTypeInv, NextTypeInv, InitGateInv, NextGateInv, PTL DEF Spec

-----------------------------------------------------------------------------
(* A closed receiver is frozen.  A closed handle is in the hub's map only   *)
(* while Hub.Close holds the mutex, so no fan-out reaches one, and every    *)
(* taker looks at done again under the mutex.                               *)

ClosedInv ==
  /\ \A c \in Clients : pc[c] = "hubClosing" => mu = c
  /\ \A rx \in Receivers :
       done[rx] => rx \in minted /\ (rx \in receivers => mu # None)

(* Nothing is closed in a bus that has only been made.                      *)
LEMMA InitClosedInv == Init => ClosedInv
<1> SUFFICES ASSUME Init PROVE ClosedInv
  OBVIOUS
<1>1. \A c \in Clients : pc[c] # "hubClosing"
  BY DEF Init, Procs
<1>2. \A rx \in Receivers : ~done[rx]
  BY DEF Init
<1> QED BY <1>1, <1>2 DEF ClosedInv

(* What the steps that are not about closing do to the map and the mutex.   *)
LEMMA TearDownShrinks ==
  ASSUME NEW rx, NEW verdict, TearDown(rx, verdict)
  PROVE  receivers' \subseteq receivers
BY DEF TearDown, Deregister

(* Every step keeps closed and drained receivers consistent.                *)
LEMMA NextClosedInv == TypeInv /\ ClosedInv /\ [Next]_vars => ClosedInv'
<1> SUFFICES ASSUME TypeInv, ClosedInv, [Next]_vars PROVE ClosedInv'
  OBVIOUS
<1>N. None \notin Clients
  BY ConflateAssumption, BusAssumption
(* Steps that only take receivers out of the map. *)
<1>A. ASSUME UNCHANGED <<done, mu, minted>>, receivers' \subseteq receivers,
             \/ UNCHANGED pc
             \/ \E p \in Procs, l \in (ClientPCs \cup FeederPCs) \ {"hubClosing"} :
                  Goto(p, l)
      PROVE  ClosedInv'
  <2>1. \A c \in Clients : pc'[c] = "hubClosing" => pc[c] = "hubClosing"
    BY <1>A DEF Goto, TypeInv, TypeOK, Procs
  <2> QED BY <1>A, <2>1 DEF ClosedInv
<1>P. \A p \in Clients \cup Receivers : p \in Procs
  BY DEF Procs
<1>1. ASSUME NEW c \in Clients, NEW rx \in Receivers, NEW f \in Filters,
             NEW m \in OwnMerges, NewReceiver(c, rx, f, m)
      PROVE  ClosedInv'
  <2>1. rx \notin minted /\ minted' = minted \cup {rx} /\ UNCHANGED <<pc, mu>>
    BY <1>1 DEF NewReceiver
  <2>2. CASE done' = [done EXCEPT ![rx] = TRUE] /\ UNCHANGED receivers
    BY <2>1, <2>2 DEF ClosedInv, TypeInv, TypeOK
  <2>3. CASE Register(rx) /\ UNCHANGED done
    BY <2>1, <2>3 DEF ClosedInv, Register
  <2> QED BY <1>1, <2>2, <2>3 DEF NewReceiver
<1>2. ASSUME NEW c \in Clients, NEW k \in Keys, NEW v \in Values,
             NEW x \in Contexts, CallSend(c, k, v, x)
      PROVE  ClosedInv'
  <2>1. \E l \in {"sendLock", "sendCtx", "idle"} : Goto(c, l)
    BY <1>2 DEF CallSend, Enter, Return
  <2> QED BY <1>2, <1>A, <1>P, <2>1 DEF CallSend, ClientPCs, hubVars, handleVars
<1>3. ASSUME NEW c \in Clients, CloseSender(c) PROVE ClosedInv'
  BY <1>3, <1>A DEF CloseSender, handleVars
<1>4. ASSUME NEW c \in Clients, CloseHub(c) PROVE ClosedInv'
  <2>1. mu = None /\ mu' = c /\ Goto(c, "hubClosing")
        /\ UNCHANGED <<receivers, minted, done>>
    BY <1>4 DEF CloseHub, handleVars
  <2>2. \A b \in Clients : pc'[b] = "hubClosing" => b = c
    BY <1>N, <2>1 DEF Goto, ClosedInv, TypeInv, TypeOK, Procs
  <2> QED BY <1>N, <2>1, <2>2 DEF ClosedInv
<1>5. ASSUME NEW c \in Clients, NEW rx \in Receivers, CloseHubDone(c, rx)
      PROVE  ClosedInv'
  <2>1. mu = c /\ rx \in minted
    BY <1>5 DEF CloseHubDone, ClosedInv, TypeInv, TypeOK
  <2>2. done' = [done EXCEPT ![rx] = TRUE]
        /\ UNCHANGED <<pc, mu, receivers, minted>>
    BY <1>5 DEF CloseHubDone, hubVars, handleVars
  <2> QED BY <1>N, <2>1, <2>2 DEF ClosedInv, TypeInv, TypeOK
<1>6. ASSUME NEW c \in Clients, CloseHubEnd(c) PROVE ClosedInv'
  <2>1. /\ pc[c] = "hubClosing" /\ mu = c /\ Goto(c, "idle")
        /\ receivers' = {} /\ UNCHANGED <<minted, done>>
    BY <1>6 DEF CloseHubEnd, ClosedInv, handleVars
  <2>2. \A b \in Clients : pc'[b] # "hubClosing"
    BY <2>1 DEF Goto, ClosedInv, TypeInv, TypeOK, Procs
  <2> QED BY <2>1, <2>2 DEF ClosedInv
<1>7. ASSUME NEW c \in Clients, NEW rx \in Receivers, CloseReceiver(c, rx)
      PROVE  ClosedInv'
  BY <1>7 DEF CloseReceiver, Deregister, ClosedInv, TypeInv, TypeOK, handleVars
<1>8. ASSUME NEW c \in Clients, NEW rx \in Receivers, Chan(c, rx)
      PROVE  ClosedInv'
  BY <1>8, <1>A, <1>P DEF Chan, FeederPCs, hubVars, handleVars
<1>9. ASSUME NEW c \in Clients, NEW rx \in Receivers, NEW x \in Contexts,
             CallRecv(c, rx, x)
      PROVE  ClosedInv'
  <2>1. \E l \in {"recvLock", "idle"} : Goto(c, l)
    BY <1>9 DEF CallRecv, Enter, Return
  <2> QED BY <1>9, <1>A, <1>P, <2>1 DEF CallRecv, ClientPCs, hubVars, handleVars
<1>10. ASSUME NEW c \in Clients, NEW rx \in Receivers, NEW op \in TryOps,
              CallTry(c, rx, op)
       PROVE  ClosedInv'
  <2>1. \E l \in {"tryRecvLock", "tryRecvAllLock", "peekLock", "idle"} : Goto(c, l)
    BY <1>10 DEF CallTry, TryPC, TryOps, Enter, Return
  <2> QED BY <1>10, <1>A, <1>P, <2>1 DEF CallTry, ClientPCs, hubVars, handleVars
<1>11. ASSUME NEW c \in Clients, Cancel(c) PROVE ClosedInv'
  BY <1>11, <1>A DEF Cancel, hubVars, handleVars
<1>12. ASSUME NEW c \in Clients,
              \/ SendCtx(c) \/ SendLocked(c)
              \/ RecvPark(c) \/ RecvWake(c) \/ RecvDefer(c)
       PROVE  ClosedInv'
  <2>1. UNCHANGED <<hubVars, handleVars, done>>
    BY <1>12 DEF SendCtx, SendLocked, RecvPark, RecvWake, RecvDefer
  <2>2. \E l \in {"sendLock", "recvPark", "recvLock", "recvDefer", "idle"} :
          Goto(c, l)
    BY <1>12 DEF SendCtx, SendLocked, RecvPark, RecvWake, RecvDefer, Return
  <2> QED BY <1>A, <1>P, <2>1, <2>2 DEF ClientPCs, hubVars, handleVars
<1>13. ASSUME NEW c \in Clients, RecvLocked(c) PROVE ClosedInv'
  <2>1. receivers' \subseteq receivers /\ Goto(c, "idle")
        /\ UNCHANGED <<mu, minted, done>>
    BY <1>13, TearDownShrinks DEF RecvLocked, Return, handleVars
  <2> QED BY <1>A, <1>P, <2>1 DEF ClientPCs
<1>14. ASSUME NEW c \in Clients, NEW op \in TryOps, TryLocked(c, op)
       PROVE  ClosedInv'
  <2>1. receivers' \subseteq receivers /\ Goto(c, "idle")
        /\ UNCHANGED <<mu, minted, done>>
    BY <1>14, TearDownShrinks DEF TryLocked, Return, handleVars
  <2> QED BY <1>A, <1>P, <2>1 DEF ClientPCs
<1>15. ASSUME NEW rx \in Receivers, FeedLocked(rx) PROVE ClosedInv'
  <2>1. receivers' \subseteq receivers /\ UNCHANGED <<mu, minted, done>>
        /\ \E l \in {"feedDeliver", "feedExited"} : Goto(rx, l)
    BY <1>15, TearDownShrinks DEF FeedLocked, handleVars
  <2> QED BY <1>A, <1>P, <2>1 DEF FeederPCs
<1>16. ASSUME NEW rx \in Receivers,
              \/ FeedProbe(rx) \/ FeedPark(rx) \/ FeedAbort(rx)
              \/ FeedWake(rx) \/ FeedDefer(rx) \/ ChanReceive(rx)
       PROVE  ClosedInv'
  <2>1. UNCHANGED <<hubVars, handleVars, done>>
    BY <1>16 DEF FeedProbe, FeedPark, FeedAbort, FeedWake, FeedDefer, ChanReceive
  <2>2. \E l \in FeederPCs : Goto(rx, l)
    BY <1>16 DEF FeedProbe, FeedPark, FeedAbort, FeedWake, FeedDefer,
                 ChanReceive, FeedExit, FeederPCs
  <2>3. FeederPCs \subseteq (ClientPCs \cup FeederPCs) \ {"hubClosing"}
    BY DEF FeederPCs, ClientPCs
  <2> QED BY <1>A, <1>P, <2>1, <2>2, <2>3 DEF hubVars, handleVars
<1>17. CASE UNCHANGED vars
  BY <1>17, <1>A DEF vars, hubVars, handleVars
<1> QED
  BY <1>1, <1>2, <1>3, <1>4, <1>5, <1>6, <1>7, <1>8, <1>9, <1>10, <1>11, <1>12,
     <1>13, <1>14, <1>15, <1>16, <1>17
  DEF Next, Call, ClientStep, FeederStep

(* Only the fan-out of a send and the takers touch a backlog. *)
LEMMA WhoTouchesQueues ==
  ASSUME [Next]_vars
  PROVE  \/ UNCHANGED q
         \/ \E c \in Clients :
              \/ SendLocked(c) \/ RecvLocked(c)
              \/ \E op \in TryOps : TryLocked(c, op)
         \/ \E r \in Receivers : FeedLocked(r)
BY DEF Next, Call, ClientStep, FeederStep, vars, NewReceiver, CallSend,
       CloseSender, CloseHub, CloseHubDone, CloseHubEnd, CloseReceiver, Chan,
       CallRecv, CallTry, Cancel, SendCtx, RecvPark, RecvWake, RecvDefer,
       FeedProbe, FeedPark, FeedAbort, FeedWake, FeedDefer, ChanReceive

(* A backlog changes only under the mutex: by a fan-out of an open sender   *)
(* to a registered receiver, which leaves nobody asleep on it, or by a      *)
(* taker that has found done open and a value to take.                      *)
QueueStep(rx) ==
  q'[rx] # q[rx] =>
    /\ mu = None
    /\ \/ rx \in receivers /\ ~txClosed /\ asleep'[rx] = Signalled(rx)
       \/ ~Closed(rx) /\ q[rx].order # <<>>

(* What any step may do to a backlog.                                       *)
LEMMA NextQueueStep ==
  TypeInv /\ [Next]_vars => \A rx \in Receivers : QueueStep(rx)
<1> SUFFICES ASSUME TypeInv, [Next]_vars, NEW rx \in Receivers
             PROVE  QueueStep(rx)
  OBVIOUS
<1>0. q \in [Receivers -> Queues] /\ (UNCHANGED q => QueueStep(rx))
  BY DEF QueueStep, TypeInv, TypeOK
<1>1. ASSUME NEW c \in Clients, SendLocked(c) PROVE QueueStep(rx)
  <2>1. CASE UNCHANGED q
    BY <1>0, <2>1
  <2>2. CASE /\ \E R \in SUBSET receivers : FanOut(R, msg[c].key, msg[c].val)
             /\ ~txClosed
    BY <1>1, <2>2 DEF SendLocked, FanOut, QueueStep
  <2> QED BY <1>1, <2>1, <2>2 DEF SendLocked, SendRefused
<1>2. ASSUME NEW r \in Receivers, NEW b, NEW x, Verdict(r, x) = "value",
             q' = [q EXCEPT ![r] = b], mu = None
      PROVE  QueueStep(rx)
  BY <1>0, <1>2, VerdictType DEF QueueStep
<1>3. ASSUME NEW c \in Clients, RecvLocked(c) PROVE QueueStep(rx)
  <2>1. tgt[c] \in Receivers
    BY <1>3 DEF RecvLocked, TypeInv, LocalsOK, ReadPCs
  <2>2. \/ UNCHANGED q
        \/ /\ Verdict(tgt[c], ctx[c]) = "value" /\ mu = None
           /\ q' = [q EXCEPT ![tgt[c]] = Popped(q[tgt[c]])]
    BY <1>3 DEF RecvLocked
  <2> QED BY <1>0, <1>2, <2>1, <2>2
<1>4. ASSUME NEW c \in Clients, NEW op \in TryOps, TryLocked(c, op)
      PROVE  QueueStep(rx)
  <2>1. tgt[c] \in Receivers
    BY <1>4 DEF TryLocked, TryOps, TryPC, TypeInv, LocalsOK, ReadPCs
  <2>2. \/ UNCHANGED q
        \/ /\ Verdict(tgt[c], "none") = "value" /\ mu = None
           /\ q' = [q EXCEPT ![tgt[c]] = TryLeaves(tgt[c], op)]
    BY <1>4 DEF TryLocked
  <2> QED BY <1>0, <1>2, <2>1, <2>2
<1>5. ASSUME NEW r \in Receivers, FeedLocked(r) PROVE QueueStep(rx)
  <2>1. \/ UNCHANGED q
        \/ /\ Verdict(r, "none") = "value" /\ mu = None
           /\ q' = [q EXCEPT ![r] = Popped(q[r])]
    BY <1>5 DEF FeedLocked
  <2> QED BY <1>0, <1>2, <2>1
<1>6. CASE UNCHANGED q
  BY <1>0, <1>6
<1> QED BY <1>1, <1>3, <1>4, <1>5, <1>6, WhoTouchesQueues

(* ClosedReceiverFrozen, for every number of receivers, readers and         *)
(* senders: from the instant a handle's done is closed nothing is enqueued  *)
(* on it and nothing taken from it, whatever was under way.                 *)
THEOREM ClosedIsFrozen == Spec => ClosedReceiverFrozen
<1>1. ASSUME TypeInv, ClosedInv, [Next]_vars, NEW rx \in Receivers, done[rx]
      PROVE  q'[rx] = q[rx]
  BY <1>1, NextQueueStep DEF QueueStep, Closed, ClosedInv
<1>2. TypeInv /\ ClosedInv /\ [Next]_vars
        => [\A rx \in Receivers : done[rx] => q'[rx] = q[rx]]_vars
  BY <1>1
<1> QED
  BY <1>2, InitTypeInv, NextTypeInv, InitClosedInv, NextClosedInv, PTL
  DEF Spec, ClosedReceiverFrozen

-----------------------------------------------------------------------------
(* What no step of the hub takes back: the sender and the handles close for *)
(* good, and a receiver leaves the map closed or drained.                   *)
HubStep ==
  /\ txClosed => txClosed'
  /\ \A rx \in Receivers : done[rx] => done'[rx]
  /\ \A rx \in minted' \ receivers' :
       rx \in minted \ receivers \/ done'[rx] \/ (Drained(rx) /\ UNCHANGED q)

(* What any step may do to the hub and its handles.                         *)
LEMMA NextHubStep == TypeInv /\ [Next]_vars => HubStep
<1> SUFFICES ASSUME TypeInv, [Next]_vars PROVE HubStep
  OBVIOUS
<1>0. receivers \subseteq minted /\ minted \subseteq Receivers
      /\ done \in [Receivers -> BOOLEAN]
  BY DEF TypeInv, TypeOK
<1>A. UNCHANGED <<txClosed, receivers, minted, done>> => HubStep
  BY DEF HubStep
<1>B. ASSUME NEW rx \in Receivers, NEW x, TearDown(rx, Verdict(rx, x)),
             UNCHANGED <<txClosed, minted, done>>,
             Verdict(rx, x) # "value" => UNCHANGED q
      PROVE  HubStep
  <2>1. CASE UNCHANGED receivers
    BY <1>A, <1>B, <2>1
  <2>2. CASE Verdict(rx, x) = "drained" /\ receivers' = receivers \ {rx}
    BY <1>B, <2>2, VerdictType DEF HubStep
  <2> QED BY <1>B, <2>1, <2>2 DEF TearDown, Deregister
<1>1. ASSUME NEW c \in Clients, NEW rx \in Receivers, NEW f \in Filters,
             NEW m \in OwnMerges, NewReceiver(c, rx, f, m)
      PROVE  HubStep
  <2>1. minted' = minted \cup {rx} /\ UNCHANGED txClosed
    BY <1>1 DEF NewReceiver
  <2>2. CASE done' = [done EXCEPT ![rx] = TRUE] /\ UNCHANGED receivers
    BY <1>0, <2>1, <2>2 DEF HubStep
  <2>3. CASE Register(rx) /\ UNCHANGED done
    BY <1>0, <2>1, <2>3 DEF HubStep, Register
  <2> QED BY <1>1, <2>2, <2>3 DEF NewReceiver
<1>2. ASSUME NEW c \in Clients, CloseSender(c) \/ CloseHub(c) PROVE HubStep
  BY <1>2 DEF CloseSender, CloseHub, HubStep, handleVars
<1>3. ASSUME NEW c \in Clients, NEW rx \in Receivers, CloseHubDone(c, rx)
      PROVE  HubStep
  BY <1>0, <1>3 DEF CloseHubDone, HubStep, hubVars, handleVars
<1>4. ASSUME NEW c \in Clients, CloseHubEnd(c) PROVE HubStep
  BY <1>0, <1>4 DEF CloseHubEnd, HubStep, handleVars
<1>5. ASSUME NEW c \in Clients, NEW rx \in Receivers, CloseReceiver(c, rx)
      PROVE  HubStep
  BY <1>0, <1>5 DEF CloseReceiver, Deregister, HubStep, handleVars
<1>6. ASSUME NEW c \in Clients, RecvLocked(c) PROVE HubStep
  <2>1. tgt[c] \in Receivers
    BY <1>6 DEF RecvLocked, TypeInv, LocalsOK, ReadPCs
  <2> QED BY <1>6, <1>B, <2>1 DEF RecvLocked, handleVars
<1>7. ASSUME NEW c \in Clients, NEW op \in TryOps, TryLocked(c, op)
      PROVE  HubStep
  <2>1. tgt[c] \in Receivers
    BY <1>7 DEF TryLocked, TryOps, TryPC, TypeInv, LocalsOK, ReadPCs
  <2> QED BY <1>7, <1>B, <2>1 DEF TryLocked, handleVars
<1>8. ASSUME NEW rx \in Receivers, FeedLocked(rx) PROVE HubStep
  BY <1>8, <1>B DEF FeedLocked, handleVars
<1>9. \/ UNCHANGED <<txClosed, receivers, minted, done>>
      \/ \E c \in Clients :
           \/ \E rx \in Receivers :
                \/ \E f \in Filters, m \in OwnMerges : NewReceiver(c, rx, f, m)
                \/ CloseHubDone(c, rx) \/ CloseReceiver(c, rx)
           \/ CloseSender(c) \/ CloseHub(c) \/ CloseHubEnd(c)
           \/ RecvLocked(c) \/ \E op \in TryOps : TryLocked(c, op)
      \/ \E rx \in Receivers : FeedLocked(rx)
  BY DEF Next, Call, ClientStep, FeederStep, vars, hubVars, handleVars, CallSend,
         Chan, CallRecv, CallTry, Cancel, SendCtx, SendLocked, RecvPark,
         RecvWake, RecvDefer, FeedProbe, FeedPark, FeedAbort, FeedWake,
         FeedDefer, ChanReceive
<1> QED BY <1>1, <1>2, <1>3, <1>4, <1>5, <1>6, <1>7, <1>8, <1>9, <1>A

(* A backlog whose receiver is finished stays as it is. *)
LEMMA NextFinished ==
  TypeInv /\ DeregisteredIsFinished /\ [Next]_vars => DeregisteredIsFinished'
<1> SUFFICES ASSUME TypeInv, DeregisteredIsFinished, [Next]_vars,
                    NEW rx \in minted' \ receivers'
             PROVE  Closed(rx)' \/ Drained(rx)'
  BY DEF DeregisteredIsFinished
<1>1. HubStep /\ TypeInv'
  BY NextHubStep, NextTypeInv
<1>2. rx \in Receivers
  BY <1>1 DEF TypeInv, TypeOK
<1>3. CASE done'[rx]
  BY <1>3 DEF Closed
<1>4. CASE Drained(rx) /\ UNCHANGED q
  BY <1>1, <1>4 DEF Drained, HubStep
<1>5. CASE rx \in minted \ receivers /\ ~done'[rx]
  <2>1. ~Closed(rx) /\ Drained(rx)
    BY <1>1, <1>2, <1>5 DEF DeregisteredIsFinished, Closed, HubStep
  <2>2. q'[rx] = q[rx]
    BY <1>2, <1>5, <2>1, NextQueueStep DEF QueueStep, Drained
  <2> QED BY <1>1, <2>1, <2>2 DEF Drained, HubStep
<1> QED BY <1>1, <1>3, <1>4, <1>5 DEF HubStep

(* DeregisteredIsFinished, for every number of receivers and clients: the   *)
(* hub never lets go of a handle that could still be owed a value.          *)
THEOREM NobodyLeftOut == Spec => []DeregisteredIsFinished
<1>1. Init => DeregisteredIsFinished
  BY DEF Init, DeregisteredIsFinished
<1> QED BY <1>1, InitTypeInv, NextTypeInv, NextFinished, PTL DEF Spec

(* DrainedForever, for every number of receivers and clients: ErrClosed is  *)
(* the last thing a drained receiver says.                                  *)
THEOREM EndOfStreamIsFinal == Spec => DrainedForever
<1>1. ASSUME TypeInv, [Next]_vars, NEW rx \in Receivers, Drained(rx)
      PROVE  Drained(rx)'
  <2>1. q'[rx] = q[rx]
    BY <1>1, NextQueueStep DEF QueueStep, Drained
  <2> QED BY <1>1, <2>1, NextHubStep DEF Drained, HubStep
<1>2. TypeInv /\ [Next]_vars
        => [\A rx \in Receivers : Drained(rx) => Drained(rx)']_vars
  BY <1>1
<1> QED BY <1>2, InitTypeInv, NextTypeInv, PTL DEF Spec, DrainedForever

-----------------------------------------------------------------------------
(* Parking: the invariant of BusProofs, at the two selects of this bus that *)
(* listen to notify.                                                        *)
Selects == {"recvPark", "feedPark"}

(* The part of the type invariant that parking needs.                       *)
LEMMA ParkTypes ==
  ASSUME TypeInv PROVE WakeTypes /\ pc \in [Procs -> ClientPCs \cup FeederPCs]
BY DEF TypeInv, TypeOK, WakeTypes

(* Nobody is parked in a bus that has only been made.                       *)
LEMMA InitParkInv == Init => ParkInv(Selects)
<1> SUFFICES ASSUME Init PROVE ParkInv(Selects)
  OBVIOUS
<1>1. \A p \in Procs : ~parked[p]
  BY DEF Init
<1>2. ASSUME NEW rx \in Receivers
      PROVE  waiters[rx] = Cardinality({p \in Procs : parked[p] /\ Reads(p, rx)})
  <2>1. {p \in Procs : parked[p] /\ Reads(p, rx)} = {}
    BY <1>1
  <2> QED BY <2>1, FS_EmptySet DEF Init
<1>3. WaitersExact
  BY <1>2 DEF WaitersExact
<1>4. \A rx \in Receivers : asleep[rx] = {} /\ pc[rx] = "feedNone"
  BY BusAssumption DEF Init, Procs
<1>5. \A c \in Clients : ~parked[c] /\ tgt[c] = None
  BY <1>1 DEF Init, Procs
<1> QED BY <1>3, <1>4, <1>5 DEF ParkInv

(* Every step keeps the count of waiters and the parked goroutines in       *)
(* agreement.                                                               *)
LEMMA NextParkInv ==
  TypeInv /\ ParkInv(Selects) /\ [Next]_vars => ParkInv(Selects)'
<1> SUFFICES ASSUME TypeInv, ParkInv(Selects), [Next]_vars
             PROVE  ParkInv(Selects)'
  OBVIOUS
<1>T. /\ WakeTypes /\ pc \in [Procs -> ClientPCs \cup FeederPCs]
      /\ asleep' \in [Receivers -> SUBSET Procs]
  BY ParkTypes, NextTypeInv DEF TypeInv, TypeOK
<1>P. /\ \A c \in Clients : c \in Procs /\ c \notin Receivers
      /\ \A rx \in Receivers : rx \in Procs /\ rx \notin Clients
      /\ None \notin Receivers
  BY BusAssumption DEF Procs
<1>U. ASSUME UNCHANGED wakeVars
      PROVE  UNCHANGED <<waiters, parked, asleep>>
  BY <1>U DEF wakeVars
<1>S. ASSUME NEW rx \in Receivers PROVE Signalled(rx) \subseteq asleep[rx]
  BY DEF Signalled
(* A call begins, returns or moves on without parking anybody. *)
<1>A. ASSUME NEW c \in Clients, pc[c] \notin CountedPCs \cup Selects,
             NEW l, Goto(c, l), UNCHANGED <<waiters, parked, minted>>,
             \A rx \in Receivers : asleep'[rx] \subseteq asleep[rx],
             \A b \in Clients \ {c} : tgt'[b] = tgt[b],
             tgt'[c] \in minted \cup {None, tgt[c]}
      PROVE  ParkInv(Selects)'
  BY <1>A, <1>T, <1>P, MoveStep
(* Steps that move nobody. *)
<1>B. ASSUME UNCHANGED <<waiters, parked, pc, tgt>>, minted \subseteq minted',
             \A rx \in Receivers : asleep'[rx] \subseteq asleep[rx]
      PROVE  ParkInv(Selects)'
  BY <1>B, <1>T, ParkKept
(* A feeder moves on without parking. *)
<1>C. ASSUME NEW r \in Receivers, NEW l, Goto(r, l), r \in minted,
             UNCHANGED <<waiters, parked, minted, tgt>>,
             \A rx \in Receivers : asleep'[rx] \subseteq asleep[rx],
             pc[r] \in Selects => r \notin asleep'[r]
      PROVE  ParkInv(Selects)'
  <2>1. pc[r] \in Selects => \A rx \in Receivers : Reads(r, rx) => r \notin asleep'[rx]
    BY <1>C, <1>P DEF Reads
  <2> QED BY <1>C, <1>T, <1>P, <2>1, MoveStep
<1>1. ASSUME NEW c \in Clients, NEW rx \in Receivers, NEW f \in Filters,
             NEW m \in OwnMerges, NewReceiver(c, rx, f, m)
      PROVE  ParkInv(Selects)'
  BY <1>1, <1>B, <1>U DEF NewReceiver, callVars
<1>2. ASSUME NEW c \in Clients,
             \/ CloseSender(c) \/ Cancel(c)
             \/ \E rx \in Receivers : CloseHubDone(c, rx) \/ CloseReceiver(c, rx)
      PROVE  ParkInv(Selects)'
  BY <1>2, <1>B, <1>S, <1>T
  DEF CloseSender, Cancel, CloseHubDone, CloseReceiver, handleVars, callVars,
      wakeVars, WakeTypes
<1>3. ASSUME NEW c \in Clients, NEW k \in Keys, NEW v \in Values,
             NEW x \in Contexts, CallSend(c, k, v, x)
      PROVE  ParkInv(Selects)'
  <2>1. pc[c] = "idle" /\ UNCHANGED <<minted, waiters, parked, asleep>>
    BY <1>3 DEF CallSend, Idle, handleVars, wakeVars
  <2>2. PICK l : Goto(c, l) /\ tgt' = [tgt EXCEPT ![c] = None]
    BY <1>3 DEF CallSend, Enter, Return
  <2> QED BY <1>A, <1>T, <2>1, <2>2 DEF CountedPCs, Selects, WakeTypes
<1>4. ASSUME NEW c \in Clients, CloseHub(c) \/ CloseHubEnd(c)
      PROVE  ParkInv(Selects)'
  <2>1. pc[c] \in {"idle", "hubClosing"}
        /\ UNCHANGED <<minted, waiters, parked, asleep, tgt>>
    BY <1>4 DEF CloseHub, CloseHubEnd, Idle, handleVars, wakeVars, callVars
  <2>2. PICK l : Goto(c, l)
    BY <1>4 DEF CloseHub, CloseHubEnd
  <2> QED BY <1>A, <1>T, <2>1, <2>2 DEF CountedPCs, Selects, WakeTypes
<1>5. ASSUME NEW c \in Clients, NEW rx \in Receivers, NEW x \in Contexts,
             CallRecv(c, rx, x)
      PROVE  ParkInv(Selects)'
  <2>1. pc[c] = "idle" /\ UNCHANGED <<minted, waiters, parked, asleep>>
        /\ rx \in minted
    BY <1>5 DEF CallRecv, Idle, handleVars, wakeVars
  <2>2. PICK l : Goto(c, l)
    BY <1>5 DEF CallRecv, Enter, Return
  <2>3. tgt' = [tgt EXCEPT ![c] = None] \/ tgt' = [tgt EXCEPT ![c] = rx]
    BY <1>5 DEF CallRecv, Enter, Return
  <2> QED BY <1>A, <1>T, <2>1, <2>2, <2>3 DEF CountedPCs, Selects, WakeTypes
<1>6. ASSUME NEW c \in Clients, NEW rx \in Receivers, NEW op \in TryOps,
             CallTry(c, rx, op)
      PROVE  ParkInv(Selects)'
  <2>1. pc[c] = "idle" /\ UNCHANGED <<minted, waiters, parked, asleep>>
        /\ rx \in minted
    BY <1>6 DEF CallTry, Idle, handleVars, wakeVars
  <2>2. PICK l : Goto(c, l)
    BY <1>6 DEF CallTry, Enter, Return
  <2>3. tgt' = [tgt EXCEPT ![c] = None] \/ tgt' = [tgt EXCEPT ![c] = rx]
    BY <1>6 DEF CallTry, Enter, Return
  <2> QED BY <1>A, <1>T, <2>1, <2>2, <2>3 DEF CountedPCs, Selects, WakeTypes
<1>7. ASSUME NEW c \in Clients, SendCtx(c) \/ SendLocked(c)
      PROVE  ParkInv(Selects)'
  <2>1. pc[c] \in SendPCs /\ UNCHANGED <<minted, waiters, parked>>
    BY <1>7 DEF SendCtx, SendLocked, SendPCs, handleVars, wakeVars
  <2>2. \A rx \in Receivers : asleep'[rx] \subseteq asleep[rx]
    <3>1. CASE UNCHANGED asleep
      BY <3>1
    <3>2. CASE \E R, k, v : FanOut(R, k, v)
      BY <1>S, <3>2 DEF FanOut
    <3> QED BY <1>7, <3>1, <3>2 DEF SendCtx, SendLocked, wakeVars
  <2>3. PICK l : Goto(c, l) /\ (UNCHANGED tgt \/ tgt' = [tgt EXCEPT ![c] = None])
    BY <1>7 DEF SendCtx, SendLocked, Return, callVars
  <2> QED BY <1>A, <1>T, <2>1, <2>2, <2>3 DEF CountedPCs, Selects, SendPCs, WakeTypes
<1>8. ASSUME NEW c \in Clients, NEW op \in TryOps, TryLocked(c, op)
      PROVE  ParkInv(Selects)'
  <2>1. pc[c] \in {"tryRecvLock", "tryRecvAllLock", "peekLock"}
        /\ UNCHANGED <<minted, waiters, parked, asleep>>
    BY <1>8 DEF TryLocked, TryPC, TryOps, handleVars, wakeVars
  <2>2. Goto(c, "idle") /\ tgt' = [tgt EXCEPT ![c] = None]
    BY <1>8 DEF TryLocked, Return
  <2> QED BY <1>A, <1>T, <2>1, <2>2 DEF CountedPCs, Selects, WakeTypes
<1>9. ASSUME NEW c \in Clients, RecvLocked(c) \/ RecvDefer(c)
      PROVE  ParkInv(Selects)'
  <2>1. /\ pc[c] \in {"recvLock", "recvDefer"} /\ tgt[c] \in Receivers
        /\ Unpark(c, tgt[c]) /\ UNCHANGED <<minted, asleep>>
    BY <1>9 DEF RecvLocked, RecvDefer, handleVars, TypeInv, LocalsOK, ReadPCs
  <2>2. Goto(c, "idle") /\ tgt' = [tgt EXCEPT ![c] = None]
    BY <1>9 DEF RecvLocked, RecvDefer, Return
  <2>3. pc[c] \notin Selects /\ Reads(c, tgt[c]) /\ tgt'[c] = None
        /\ \A b \in Clients \ {c} : tgt'[b] = tgt[b]
    BY <1>T, <2>1, <2>2 DEF Selects, Reads, WakeTypes
  <2> QED BY <1>T, <1>P, <2>1, <2>2, <2>3, UnparkingStep
<1>10. ASSUME NEW c \in Clients, RecvPark(c) PROVE ParkInv(Selects)'
  <2>1. /\ tgt[c] \in Receivers /\ Park(c, tgt[c]) /\ Goto(c, "recvPark")
        /\ UNCHANGED <<minted, tgt>>
    BY <1>10 DEF RecvPark, handleVars, callVars, TypeInv, LocalsOK, ReadPCs
  <2>2. "recvPark" \in Selects /\ "recvPark" \in CountedPCs /\ Reads(c, tgt[c])
        /\ tgt[c] \in minted
    BY <1>P, <2>1 DEF Selects, CountedPCs, Reads, ParkInv
  <2> QED BY <1>T, <1>P, <2>1, <2>2, ParkingStep
<1>11. ASSUME NEW c \in Clients, RecvWake(c) PROVE ParkInv(Selects)'
  <2>1. /\ pc[c] = "recvPark" /\ UNCHANGED <<minted, tgt, waiters, parked>>
        /\ asleep' = [asleep EXCEPT ![tgt[c]] = @ \ {c}]
        /\ \E l \in {"recvDefer", "recvLock"} : Goto(c, l)
    BY <1>11 DEF RecvWake, handleVars, callVars
  <2>2. \A rx \in Receivers : /\ asleep'[rx] \subseteq asleep[rx]
                              /\ Reads(c, rx) => c \notin asleep'[rx]
    BY <1>T, <2>1 DEF WakeTypes, Reads
  <2>3. pc'[c] \in CountedPCs
    BY <1>T, <1>P, <2>1 DEF Goto, CountedPCs
  <2> QED BY <1>T, <1>P, <2>1, <2>2, <2>3, MoveStep
<1>12. ASSUME NEW c \in Clients, NEW rx \in Receivers, Chan(c, rx)
       PROVE  ParkInv(Selects)'
  <2>1. /\ pc[rx] = "feedNone" /\ rx \in minted /\ Goto(rx, "feedProbe")
        /\ UNCHANGED <<waiters, parked, asleep, minted, tgt>>
    BY <1>12 DEF Chan, handleVars, callVars, wakeVars
  <2> QED BY <1>C, <2>1 DEF Selects
<1>13. ASSUME NEW rx \in Receivers, FeedProbe(rx) \/ FeedAbort(rx) \/ ChanReceive(rx)
       PROVE  ParkInv(Selects)'
  <2>1. /\ pc[rx] \in {"feedProbe", "feedDeliver"} /\ \E l : Goto(rx, l)
        /\ UNCHANGED <<waiters, parked, asleep, minted, tgt>>
    BY <1>13 DEF FeedProbe, FeedAbort, FeedExit, ChanReceive, handleVars,
                 callVars, wakeVars
  <2> QED BY <1>C, <2>1 DEF Selects, ParkInv
<1>14. ASSUME NEW rx \in Receivers, FeedWake(rx) PROVE ParkInv(Selects)'
  <2>1. /\ pc[rx] = "feedPark" /\ \E l : Goto(rx, l)
        /\ asleep' = [asleep EXCEPT ![rx] = @ \ {rx}]
        /\ UNCHANGED <<waiters, parked, minted, tgt>>
    BY <1>14 DEF FeedWake, FeedExit, handleVars, callVars
  <2>2. rx \notin asleep'[rx] /\ \A r \in Receivers : asleep'[r] \subseteq asleep[r]
    BY <1>T, <2>1 DEF WakeTypes
  <2>3. rx \in minted
    BY <2>1 DEF ParkInv
  <2> QED BY <1>C, <2>1, <2>2, <2>3
<1>15. ASSUME NEW rx \in Receivers, FeedLocked(rx) \/ FeedDefer(rx)
       PROVE  ParkInv(Selects)'
  <2>1. /\ pc[rx] \in {"feedLock", "feedDefer"} /\ \E l : Goto(rx, l)
        /\ Unpark(rx, rx) /\ UNCHANGED <<asleep, minted, tgt>>
    BY <1>15 DEF FeedLocked, FeedDefer, handleVars, callVars
  <2>2. pc[rx] \notin Selects /\ Reads(rx, rx) /\ rx \in minted
    BY <1>P, <2>1 DEF Selects, Reads, ParkInv
  <2> QED BY <1>T, <1>P, <2>1, <2>2, UnparkingStep
<1>16. ASSUME NEW rx \in Receivers, FeedPark(rx) PROVE ParkInv(Selects)'
  <2>1. /\ pc[rx] = "feedLock" /\ Goto(rx, "feedPark") /\ Park(rx, rx)
        /\ UNCHANGED <<minted, tgt>>
    BY <1>16 DEF FeedPark, handleVars, callVars
  <2>2. "feedPark" \in Selects /\ Reads(rx, rx) /\ rx \in minted
    BY <1>P, <2>1 DEF Selects, Reads, ParkInv
  <2> QED BY <1>T, <1>P, <2>1, <2>2, ParkingStep
<1>17. CASE UNCHANGED vars
  BY <1>17, <1>B, <1>U DEF vars, handleVars, callVars
<1> QED
  BY <1>1, <1>2, <1>3, <1>4, <1>5, <1>6, <1>7, <1>8, <1>9, <1>10, <1>11, <1>12,
     <1>13, <1>14, <1>15, <1>16, <1>17
  DEF Next, Call, ClientStep, FeederStep

(* WaitersExact, for every number of clients and receivers: the counter     *)
(* that decides whether a signal is broadcast counts exactly the parked.    *)
THEOREM WaitersCounted == Spec => []WaitersExact
<1>1. ParkInv(Selects) => WaitersExact
  BY DEF ParkInv
<1> QED BY <1>1, InitTypeInv, NextTypeInv, InitParkInv, NextParkInv, PTL DEF Spec

-----------------------------------------------------------------------------
(* No lost wake-up.  NoLostWakeup is not inductive: a fan-out must reach    *)
(* the receiver somebody sleeps on, so that receiver must be registered.    *)
SleepInv ==
  \A rx \in Receivers :
    asleep[rx] # {} /\ ~done[rx] =>
      rx \in receivers /\ q[rx].order = <<>> /\ (mu = None => ~txClosed)

WakeInv == ParkInv(Selects) /\ DeregisteredIsFinished /\ SleepInv

(* A step that puts nobody to sleep and takes no receiver out of the map    *)
(* that is neither closed in it nor drained before.                         *)
LEMMA SleepKept ==
  ASSUME TypeInv, WakeInv, [Next]_vars, UNCHANGED <<txClosed, mu>>,
         \A rx \in Receivers :
           /\ asleep'[rx] \subseteq asleep[rx]
           /\ rx \in receivers =>
                rx \in receivers' \/ done'[rx] \/ (mu = None /\ txClosed)
  PROVE  SleepInv'
<1> SUFFICES ASSUME NEW rx \in Receivers, asleep'[rx] # {}, ~done'[rx]
             PROVE  rx \in receivers' /\ q'[rx].order = <<>>
                    /\ (mu' = None => ~txClosed')
  BY DEF SleepInv
<1>1. ~done[rx] /\ asleep[rx] # {}
  BY NextHubStep DEF HubStep
<1>2. rx \in receivers /\ q[rx].order = <<>> /\ (mu = None => ~txClosed)
  BY <1>1 DEF WakeInv, SleepInv
<1>3. Signalled(rx) = {}
  BY ParkTypes, SignalWakesAll DEF WakeInv
<1>4. q'[rx] = q[rx]
  BY <1>2, <1>3, NextQueueStep DEF QueueStep
<1> QED BY <1>2, <1>4

(* Whoever parks has been told under the mutex that there is nothing to     *)
(* read, on a receiver that is therefore still registered.                  *)
LEMMA SleepFound ==
  ASSUME TypeInv, WakeInv, NEW p, NEW rx \in minted, NEW x,
         Park(p, rx), Verdict(rx, x) = "empty",
         UNCHANGED <<txClosed, mu, receivers, done, q>>
  PROVE  SleepInv'
<1>1. q[rx].order = <<>> /\ ~Closed(rx) /\ ~txClosed
  BY VerdictType DEF Drained
<1>2. rx \in receivers
  BY <1>1 DEF WakeInv, DeregisteredIsFinished, Drained
<1>3. \A r \in Receivers : r # rx => asleep'[r] = asleep[r]
  BY DEF Park, TypeInv, TypeOK
<1> QED BY <1>1, <1>2, <1>3 DEF WakeInv, SleepInv

(* Every step wakes whom it gives something to do, or leaves no one asleep  *)
(* on it.                                                                   *)
LEMMA NextSleepInv == TypeInv /\ WakeInv /\ [Next]_vars => SleepInv'
<1> SUFFICES ASSUME TypeInv, WakeInv, [Next]_vars PROVE SleepInv'
  OBVIOUS
<1>0. /\ asleep \in [Receivers -> SUBSET Procs] /\ minted \subseteq Receivers
      /\ done \in [Receivers -> BOOLEAN] /\ receivers \subseteq minted
  BY DEF TypeInv, TypeOK
<1>S. ASSUME NEW rx \in Receivers
      PROVE  Signalled(rx) \subseteq asleep[rx] /\ Signalled(rx) = {}
  BY ParkTypes, SignalWakesAll DEF WakeInv
<1>A. ASSUME UNCHANGED <<txClosed, mu>>, receivers \subseteq receivers',
             \A rx \in Receivers : asleep'[rx] \subseteq asleep[rx]
      PROVE  SleepInv'
  BY <1>A, SleepKept
<1>B. ASSUME NEW rx \in Receivers, NEW x, TearDown(rx, Verdict(rx, x)),
             UNCHANGED <<txClosed, mu, asleep>>, mu = None
      PROVE  SleepInv'
  <2>1. receivers \subseteq receivers' \/ txClosed
    BY <1>B, VerdictType DEF TearDown, Drained
  <2> QED BY <1>B, <2>1, SleepKept
<1>1. ASSUME NEW c \in Clients, NEW rx \in Receivers, NEW f \in Filters,
             NEW m \in OwnMerges, NewReceiver(c, rx, f, m)
      PROVE  SleepInv'
  BY <1>1, <1>A DEF NewReceiver, Register, wakeVars
<1>2. ASSUME NEW c \in Clients, SendLocked(c) PROVE SleepInv'
  <2>1. \A rx \in Receivers : asleep'[rx] \subseteq asleep[rx]
    BY <1>2, <1>S DEF SendLocked, FanOut
  <2> QED BY <1>2, <1>A, <2>1 DEF SendLocked, hubVars
<1>3. ASSUME NEW c \in Clients, CloseSender(c) PROVE SleepInv'
  <2>1. \A rx \in Receivers :
          asleep'[rx] = IF rx \in receivers THEN {} ELSE asleep[rx]
    BY <1>3, <1>S DEF CloseSender
  <2> QED BY <1>3, <2>1 DEF CloseSender, WakeInv, SleepInv
<1>4. ASSUME NEW c \in Clients, CloseHub(c) PROVE SleepInv'
  <2>1. mu' # None /\ UNCHANGED <<receivers, done, q, asleep>>
    BY <1>4, BusAssumption DEF CloseHub, wakeVars
  <2> QED BY <2>1 DEF WakeInv, SleepInv
<1>5. ASSUME NEW c \in Clients, NEW rx \in Receivers, CloseHubDone(c, rx)
      PROVE  SleepInv'
  BY <1>5, <1>A DEF CloseHubDone, hubVars, wakeVars
<1>6. ASSUME NEW c \in Clients, CloseHubEnd(c) PROVE SleepInv'
  <2>1. (\A rx \in receivers : done[rx]) /\ UNCHANGED <<done, asleep>>
    BY <1>6 DEF CloseHubEnd, wakeVars
  <2> QED BY <2>1 DEF WakeInv, SleepInv
<1>7. ASSUME NEW c \in Clients, NEW rx \in Receivers, CloseReceiver(c, rx)
      PROVE  SleepInv'
  <2>1. /\ receivers' = receivers \ {rx} /\ done'[rx]
        /\ UNCHANGED <<txClosed, mu, asleep>>
    BY <1>0, <1>7 DEF CloseReceiver, Deregister, wakeVars
  <2> QED BY <2>1, SleepKept
<1>8. ASSUME NEW c \in Clients, RecvLocked(c) PROVE SleepInv'
  <2>1. tgt[c] \in Receivers
    BY <1>8 DEF RecvLocked, TypeInv, LocalsOK, ReadPCs
  <2> QED BY <1>8, <1>B, <2>1 DEF RecvLocked
<1>9. ASSUME NEW c \in Clients, NEW op \in TryOps, TryLocked(c, op)
      PROVE  SleepInv'
  <2>1. tgt[c] \in Receivers
    BY <1>9 DEF TryLocked, TryOps, TryPC, TypeInv, LocalsOK, ReadPCs
  <2> QED BY <1>9, <1>B, <2>1 DEF TryLocked, wakeVars
<1>10. ASSUME NEW rx \in Receivers, FeedLocked(rx) PROVE SleepInv'
  BY <1>10, <1>B DEF FeedLocked
<1>11. ASSUME NEW c \in Clients, RecvPark(c) PROVE SleepInv'
  <2>1. tgt[c] \in Receivers /\ tgt[c] # None
    BY <1>11, BusAssumption DEF RecvPark, TypeInv, LocalsOK, ReadPCs
  <2>2. tgt[c] \in minted
    BY <2>1 DEF WakeInv, ParkInv
  <2> QED BY <1>11, <2>2, SleepFound DEF RecvPark, hubVars
<1>12. ASSUME NEW rx \in Receivers, FeedPark(rx) PROVE SleepInv'
  <2>1. rx \in minted
    BY <1>12 DEF FeedPark, WakeInv, ParkInv
  <2> QED BY <1>12, <2>1, SleepFound DEF FeedPark, hubVars
<1>13. ASSUME NEW c \in Clients, RecvWake(c) PROVE SleepInv'
  BY <1>0, <1>13, <1>A DEF RecvWake, hubVars
<1>14. ASSUME NEW rx \in Receivers, FeedWake(rx) PROVE SleepInv'
  BY <1>0, <1>14, <1>A DEF FeedWake, hubVars
<1>15. CASE UNCHANGED <<txClosed, mu, receivers, asleep>>
  BY <1>15, <1>A
<1>16. \/ UNCHANGED <<txClosed, mu, receivers, asleep>>
       \/ \E c \in Clients :
            \/ \E rx \in Receivers :
                 \/ \E f \in Filters, m \in OwnMerges : NewReceiver(c, rx, f, m)
                 \/ CloseHubDone(c, rx) \/ CloseReceiver(c, rx)
            \/ CloseSender(c) \/ CloseHub(c) \/ CloseHubEnd(c)
            \/ SendLocked(c) \/ RecvLocked(c) \/ RecvPark(c) \/ RecvWake(c)
            \/ \E op \in TryOps : TryLocked(c, op)
       \/ \E rx \in Receivers : FeedLocked(rx) \/ FeedPark(rx) \/ FeedWake(rx)
  BY DEF Next, Call, ClientStep, FeederStep, vars, hubVars, wakeVars, CallSend,
         Chan, CallRecv, CallTry, Cancel, SendCtx, RecvDefer, FeedProbe,
         FeedAbort, FeedDefer, ChanReceive
<1> QED BY <1>1, <1>2, <1>3, <1>4, <1>5, <1>6, <1>7, <1>8, <1>9, <1>10, <1>11,
           <1>12, <1>13, <1>14, <1>15, <1>16

(* NoLostWakeup, for every number of readers, feeders and senders: the      *)
(* signal that is skipped because nobody seems to wait is never the one     *)
(* somebody is waiting for.                                                 *)
THEOREM NobodySleepsThrough == Spec => []NoLostWakeup
<1>1. Init => WakeInv
  <2>1. Init => DeregisteredIsFinished
    BY DEF Init, DeregisteredIsFinished
  <2>2. Init => SleepInv
    BY DEF Init, SleepInv
  <2> QED BY <2>1, <2>2, InitParkInv DEF WakeInv
<1>2. TypeInv /\ WakeInv /\ [Next]_vars => WakeInv'
  BY NextParkInv, NextFinished, NextSleepInv DEF WakeInv
<1>3. WakeInv => NoLostWakeup
  BY DEF WakeInv, SleepInv, NoLostWakeup
<1> QED BY <1>1, <1>2, <1>3, InitTypeInv, NextTypeInv, PTL DEF Spec

-----------------------------------------------------------------------------
(* First-touch order. *)

LEMMA NextKeepsOrder ==
  TypeInv /\ [Next]_vars => \A rx \in Receivers : KeepsOrder(q[rx], q'[rx])
<1> SUFFICES ASSUME TypeInv, [Next]_vars, NEW rx \in Receivers
             PROVE  KeepsOrder(q[rx], q'[rx])
  OBVIOUS
<1>0. GoodQueue(q[rx]) /\ KeepsOrder(q[rx], q[rx]) /\ q \in [Receivers -> Queues]
  BY GoodQueues, SameOrder DEF TypeInv, TypeOK
<1>1. ASSUME NEW c \in Clients, SendLocked(c) PROVE KeepsOrder(q[rx], q'[rx])
  <2>1. msg[c] \in Events
    BY <1>1 DEF SendLocked, TypeInv, LocalsOK, SendPCs
  <2> DEFINE k == msg[c].key
             v == msg[c].val
  <2>2. k \in Keys /\ v \in Values /\ PolicyOf(rx) \in Merges
    BY <2>1, ConflateAssumption DEF Events, PolicyOf, TypeInv, TypeOK
  <2>3. UNCHANGED q \/ \E R \in SUBSET receivers :
                         FanOut(R, k, v) /\ \A r \in R : ~Fails(r, k, v)
    BY <1>1 DEF SendLocked
  <2> HIDE DEF k, v
  <2>4. q'[rx] # q[rx] => /\ ~MergePanics(q[rx], k, v, PolicyOf(rx))
                          /\ q'[rx] = Enqueue(q[rx], k, v, PolicyOf(rx))
    BY <2>3 DEF FanOut, Fails
  <2> QED BY <1>0, <2>2, <2>4, EnqueueKeepsOrder
<1>2. ASSUME NEW r \in Receivers, q[r].order # <<>>,
             NEW b \in {Popped(q[r]), PoppedAll(q[r]), q[r]},
             q' = [q EXCEPT ![r] = b]
      PROVE  KeepsOrder(q[rx], q'[rx])
  BY <1>0, <1>2, GoodQueues, PoppedKeepsOrder
<1>3. ASSUME NEW c \in Clients, RecvLocked(c) PROVE KeepsOrder(q[rx], q'[rx])
  <2>1. tgt[c] \in Receivers
    BY <1>3 DEF RecvLocked, TypeInv, LocalsOK, ReadPCs
  <2>2. \/ UNCHANGED q
        \/ /\ q[tgt[c]].order # <<>>
           /\ q' = [q EXCEPT ![tgt[c]] = Popped(q[tgt[c]])]
    BY <1>3, VerdictType DEF RecvLocked
  <2> QED BY <1>0, <1>2, <2>1, <2>2
<1>4. ASSUME NEW c \in Clients, NEW op \in TryOps, TryLocked(c, op)
      PROVE  KeepsOrder(q[rx], q'[rx])
  <2>1. tgt[c] \in Receivers
    BY <1>4 DEF TryLocked, TryOps, TryPC, TypeInv, LocalsOK, ReadPCs
  <2>2. \/ UNCHANGED q
        \/ /\ q[tgt[c]].order # <<>>
           /\ q' = [q EXCEPT ![tgt[c]] = TryLeaves(tgt[c], op)]
    BY <1>4, VerdictType DEF TryLocked
  <2>3. TryLeaves(tgt[c], op)
          \in {Popped(q[tgt[c]]), PoppedAll(q[tgt[c]]), q[tgt[c]]}
    BY DEF TryLeaves, TryOps
  <2> QED BY <1>0, <1>2, <2>1, <2>2, <2>3
<1>5. ASSUME NEW r \in Receivers, FeedLocked(r) PROVE KeepsOrder(q[rx], q'[rx])
  <2>1. \/ UNCHANGED q
        \/ q[r].order # <<>> /\ q' = [q EXCEPT ![r] = Popped(q[r])]
    BY <1>5, VerdictType DEF FeedLocked
  <2> QED BY <1>0, <1>2, <2>1
<1>6. CASE UNCHANGED q
  BY <1>0, <1>6
<1> QED BY <1>1, <1>3, <1>4, <1>5, <1>6, WhoTouchesQueues

(* NoOvertaking, for every number of keys, receivers and readers: no merge, *)
(* annihilation, take or panic lets a pending key overtake another.         *)
THEOREM FirstTouchOrder == Spec => NoOvertaking
<1>1. ASSUME TypeInv, [Next]_vars, NEW rx \in Receivers,
             NEW j \in Range(q[rx].order) \cap Range(q'[rx].order),
             NEW k \in Range(q[rx].order) \cap Range(q'[rx].order),
             Position(q[rx], j) < Position(q[rx], k)
      PROVE  Position(q'[rx], j) < Position(q'[rx], k)
  BY <1>1, NextKeepsOrder DEF KeepsOrder, Position, Element
<1>2. TypeInv /\ [Next]_vars =>
        [\A rx \in Receivers :
           LET stay == Range(q[rx].order) \cap Range(q'[rx].order) IN
           \A j, k \in stay : Position(q[rx], j) < Position(q[rx], k) =>
                               Position(q'[rx], j) < Position(q'[rx], k)]_vars
  BY <1>1
<1> QED BY <1>2, InitTypeInv, NextTypeInv, PTL DEF Spec, NoOvertaking

-----------------------------------------------------------------------------
(* The contract.  Each step of Conflate is, under the mapping of            *)
(* Conflate!Contract, one action of BusContract or none.                    *)

(* Clients and feeders are different goroutines, and none of them is None.  *)
LEMMA WhoIsWho ==
  /\ \A c \in Clients : c \in Procs /\ c \notin Receivers /\ c # None
  /\ \A rx \in Receivers : rx \in Procs /\ rx \notin Clients /\ rx # None
BY BusAssumption DEF Procs

-----------------------------------------------------------------------------
(* The kinds of steps, by what the contract makes of them. *)

QuietStep(c) ==
  \/ \E k \in Keys, v \in Values, x \in Contexts : CallSend(c, k, v, x)
  \/ \E rx \in Receivers, x \in Contexts : CallRecv(c, rx, x)
  \/ \E rx \in Receivers, op \in TryOps : CallTry(c, rx, op)
  \/ SendCtx(c) \/ Cancel(c)

Minting(c) == \E rx \in Receivers, f \in Filters, m \in OwnMerges :
                NewReceiver(c, rx, f, m)
Closing(c) == \/ CloseSender(c) \/ CloseHub(c) \/ CloseHubEnd(c)
              \/ \E rx \in Receivers : CloseHubDone(c, rx) \/ CloseReceiver(c, rx)
Reading(c) == RecvLocked(c) \/ \E op \in TryOps : TryLocked(c, op)
ParkingOnly(c) == RecvPark(c) \/ RecvWake(c) \/ RecvDefer(c)
Ranging(rx) == \E c \in Clients : Chan(c, rx)
FeederOnly(rx) == \/ FeedProbe(rx) \/ FeedPark(rx) \/ FeedAbort(rx)
                  \/ FeedWake(rx) \/ FeedDefer(rx)

OfClient(c) == \/ QuietStep(c) \/ Minting(c) \/ Closing(c) \/ SendLocked(c)
               \/ Reading(c) \/ ParkingOnly(c)
OfFeeder(rx) == \/ Ranging(rx) \/ FeederOnly(rx) \/ FeedLocked(rx)
                \/ ChanReceive(rx)

(* Every step is one of a client, of a feeder, or none.                     *)
LEMMA StepKinds ==
  ASSUME [Next]_vars
  PROVE  \/ UNCHANGED vars
         \/ \E c \in Clients : OfClient(c)
         \/ \E rx \in Receivers : OfFeeder(rx)
<1>1. ASSUME NEW c \in Clients, Call(c)
      PROVE  OfClient(c) \/ \E rx \in Receivers : OfFeeder(rx)
  BY <1>1 DEF Call, OfClient, OfFeeder, QuietStep, Minting, Closing, Ranging
<1>2. ASSUME NEW c \in Clients, ClientStep(c) \/ Cancel(c) PROVE OfClient(c)
  BY <1>2 DEF ClientStep, OfClient, QuietStep, Closing, Reading, ParkingOnly
<1>3. ASSUME NEW rx \in Receivers, FeederStep(rx) \/ ChanReceive(rx)
      PROVE  OfFeeder(rx)
  BY <1>3 DEF FeederStep, OfFeeder, FeederOnly
<1> QED BY <1>1, <1>2, <1>3 DEF Next

(* The steps that leave the hub, the handles and the backlogs alone. *)
LEMMA QuietKeeps ==
  ASSUME NEW c \in Clients, QuietStep(c) \/ ParkingOnly(c)
  PROVE  UNCHANGED <<txClosed, minted, done, q, hand>>
<1>1. CASE QuietStep(c)
  BY <1>1 DEF QuietStep, CallSend, CallRecv, CallTry, SendCtx, Cancel, hubVars, handleVars
<1>2. CASE ParkingOnly(c)
  BY <1>2 DEF ParkingOnly, RecvPark, RecvWake, RecvDefer, hubVars, handleVars
<1> QED BY <1>1, <1>2

(* A step of a client moves that client alone. *)
LEMMA ClientMoves ==
  ASSUME TypeInv, NEW c \in Clients, OfClient(c)
  PROVE  /\ UNCHANGED hand
         /\ \A rx \in Receivers : pc'[rx] = pc[rx]
         /\ \A d \in Clients \ {c} : UNCHANGED <<pc[d], tgt[d], msg[d], ctx[d]>>
<1>0. /\ pc \in [Procs -> ClientPCs \cup FeederPCs]
      /\ tgt \in [Clients -> Receivers \cup {None}]
      /\ msg \in [Clients -> Events \cup {None}] /\ ctx \in [Clients -> Contexts]
  BY DEF TypeInv, TypeOK
<1>1. UNCHANGED hand /\ (UNCHANGED pc \/ \E l : Goto(c, l))
  <2>1. CASE QuietStep(c)
    BY <2>1 DEF QuietStep, CallSend, CallRecv, CallTry, SendCtx, Cancel, Enter, Return
  <2>2. CASE Minting(c) \/ Closing(c)
    BY <2>2 DEF Minting, Closing, NewReceiver, CloseSender, CloseHub, CloseHubEnd,
                CloseHubDone, CloseReceiver
  <2>3. CASE SendLocked(c) \/ Reading(c)
    BY <2>3 DEF SendLocked, Reading, RecvLocked, TryLocked, Return
  <2>4. CASE ParkingOnly(c)
    BY <2>4 DEF ParkingOnly, RecvPark, RecvWake, RecvDefer, Return
  <2> QED BY <2>1, <2>2, <2>3, <2>4 DEF OfClient
<1>2. \/ UNCHANGED callVars
      \/ \E t, m, x : /\ tgt' = [tgt EXCEPT ![c] = t] /\ msg' = [msg EXCEPT ![c] = m]
                      /\ ctx' = [ctx EXCEPT ![c] = x]
      \/ UNCHANGED <<tgt, msg>> /\ \E x : ctx' = [ctx EXCEPT ![c] = x]
  <2>1. CASE QuietStep(c)
    BY <2>1 DEF QuietStep, CallSend, CallRecv, CallTry, SendCtx, Cancel, Enter, Return
  <2>2. CASE Minting(c) \/ Closing(c)
    BY <2>2 DEF Minting, Closing, NewReceiver, CloseSender, CloseHub, CloseHubEnd,
                CloseHubDone, CloseReceiver
  <2>3. CASE SendLocked(c) \/ Reading(c)
    BY <2>3 DEF SendLocked, Reading, RecvLocked, TryLocked, Return
  <2>4. CASE ParkingOnly(c)
    BY <2>4 DEF ParkingOnly, RecvPark, RecvWake, RecvDefer, Return
  <2> QED BY <2>1, <2>2, <2>3, <2>4 DEF OfClient
<1> QED BY <1>0, <1>1, <1>2, WhoIsWho DEF Goto, callVars

(* A step of a feeder, or of its consumer, moves that feeder alone. *)
LEMMA FeederMoves ==
  ASSUME TypeInv, NEW rx \in Receivers, OfFeeder(rx)
  PROVE  /\ UNCHANGED <<txClosed, minted, done, callVars>>
         /\ \E l : Goto(rx, l) /\ pc'[rx] = l
         /\ \A p \in Procs \ {rx} : pc'[p] = pc[p]
         /\ \A r \in Receivers \ {rx} : UNCHANGED <<q[r], hand[r]>>
<1>0. /\ pc \in [Procs -> ClientPCs \cup FeederPCs] /\ rx \in Procs
      /\ q \in [Receivers -> Queues] /\ hand \in [Receivers -> Events \cup {None}]
  BY WhoIsWho DEF TypeInv, TypeOK
<1>1. /\ UNCHANGED <<txClosed, minted, done, callVars>> /\ \E l : Goto(rx, l)
      /\ UNCHANGED q \/ \E b : q' = [q EXCEPT ![rx] = b]
      /\ UNCHANGED hand \/ \E e : hand' = [hand EXCEPT ![rx] = e]
  <2>1. CASE Ranging(rx)
    BY <2>1 DEF Ranging, Chan, hubVars, handleVars
  <2>2. CASE FeederOnly(rx)
    BY <2>2 DEF FeederOnly, FeedProbe, FeedPark, FeedAbort, FeedWake, FeedDefer,
                FeedExit, hubVars, handleVars
  <2>3. CASE FeedLocked(rx)
    BY <2>3 DEF FeedLocked, handleVars
  <2>4. CASE ChanReceive(rx)
    BY <2>4 DEF ChanReceive, hubVars, handleVars
  <2> QED BY <2>1, <2>2, <2>3, <2>4 DEF OfFeeder
<1> QED BY <1>0, <1>1 DEF Goto

-----------------------------------------------------------------------------
(* What the mapping needs to know of where everybody is. *)

(* Outside a call there is nothing left of the last one; an early return    *)
(* comes of a close; the three Try calls have no context; what a feeder     *)
(* holds out is an event; and a handle nobody has yet has no backlog.       *)
CallInv ==
  /\ \A c \in Clients :
       /\ pc[c] \in {"idle", "hubClosing"} =>
            tgt[c] = None /\ msg[c] = None /\ ctx[c] = "none"
       /\ pc[c] = "recvDefer" => tgt[c] \in Receivers /\ done[tgt[c]]
       /\ pc[c] \in {"tryRecvLock", "tryRecvAllLock", "peekLock"} => ctx[c] = "none"
  /\ \A rx \in Receivers :
       /\ pc[rx] = "feedDefer" => done[rx]
       /\ pc[rx] = "feedDeliver" => hand[rx] \in Events
       /\ q[rx].order # <<>> => rx \in minted

(* No call is in progress in a bus that has only been made.                 *)
LEMMA InitCallInv == Init => CallInv
BY WhoIsWho DEF Init, CallInv, EmptyQueue

(* How a client moves. *)
CallMove(c) ==
  \/ UNCHANGED <<pc[c], tgt[c], msg[c], ctx[c]>>
  \/ pc'[c] = "idle" /\ tgt'[c] = None /\ msg'[c] = None /\ ctx'[c] = "none"
  \/ /\ pc[c] \in {"idle", "hubClosing"} /\ pc'[c] \in {"idle", "hubClosing"}
     /\ UNCHANGED <<tgt[c], msg[c], ctx[c]>>
  \/ /\ pc'[c] \notin {"idle", "hubClosing"}
     /\ pc'[c] = "recvDefer" => /\ tgt'[c] = tgt[c] /\ tgt[c] \in Receivers
                                /\ pc[c] = "recvDefer" \/ done[tgt[c]]
     /\ pc'[c] \in {"tryRecvLock", "tryRecvAllLock", "peekLock"} => ctx'[c] = "none"

(* Every step moves a client in one of the ways of CallMove.                *)
LEMMA NextCallMove ==
  ASSUME TypeInv, CallInv, [Next]_vars, NEW c \in Clients PROVE CallMove(c)
<1>0. /\ pc \in [Procs -> ClientPCs \cup FeederPCs] /\ c \in Procs /\ c \notin Receivers
      /\ tgt \in [Clients -> Receivers \cup {None}]
      /\ msg \in [Clients -> Events \cup {None}] /\ ctx \in [Clients -> Contexts]
  BY WhoIsWho DEF TypeInv, TypeOK
<1>1. ASSUME NEW a, Return(c, a) PROVE CallMove(c)
  BY <1>0, <1>1 DEF Return, Goto, CallMove
<1>2. ASSUME NEW l, NEW r, NEW m, NEW x, Enter(c, l, r, m, x),
             l \notin {"idle", "hubClosing", "recvDefer"},
             l \in {"tryRecvLock", "tryRecvAllLock", "peekLock"} => x = "none"
      PROVE  CallMove(c)
  BY <1>0, <1>2 DEF Enter, Goto, CallMove
<1>3. ASSUME UNCHANGED <<pc[c], tgt[c], msg[c], ctx[c]>> PROVE CallMove(c)
  BY <1>3 DEF CallMove
<1>4. CASE QuietStep(c)
  <2>1. CASE \E k \in Keys, v \in Values, x \in Contexts : CallSend(c, k, v, x)
    BY <1>1, <1>2, <2>1 DEF CallSend
  <2>2. CASE \E rx \in Receivers, x \in Contexts : CallRecv(c, rx, x)
    BY <1>1, <1>2, <2>2 DEF CallRecv
  <2>3. ASSUME NEW rx \in Receivers, NEW op \in TryOps, CallTry(c, rx, op)
        PROVE  CallMove(c)
    <3>1. TryPC(op) \in {"tryRecvLock", "tryRecvAllLock", "peekLock"}
      BY DEF TryPC, TryOps
    <3>2. TryPC(op) \notin {"idle", "hubClosing", "recvDefer"}
      BY <3>1
    <3> QED BY <1>1, <1>2, <2>3, <3>2 DEF CallTry
  <2>4. CASE SendCtx(c)
    BY <1>0, <1>1, <2>4 DEF SendCtx, Goto, CallMove
  <2>5. CASE Cancel(c)
    <3>1. /\ pc[c] \notin {"idle", "hubClosing", "tryRecvLock", "tryRecvAllLock",
                           "peekLock"}
          /\ UNCHANGED <<pc, tgt>>
      BY <2>5 DEF Cancel, CallInv
    <3> QED BY <3>1 DEF CallInv, CallMove
  <2> QED BY <1>4, <2>1, <2>2, <2>3, <2>4, <2>5 DEF QuietStep
<1>5. CASE Minting(c) \/ Closing(c)
  <2>1. /\ UNCHANGED <<tgt, msg, ctx>>
        /\ \/ UNCHANGED pc
           \/ /\ pc[c] \in {"idle", "hubClosing"}
              /\ Goto(c, "idle") \/ Goto(c, "hubClosing")
    BY <1>5 DEF Minting, Closing, NewReceiver, CloseSender, CloseHub, CloseHubEnd,
                CloseHubDone, CloseReceiver, Idle, callVars
  <2> QED BY <1>0, <2>1 DEF Goto, CallMove
<1>6. CASE SendLocked(c) \/ Reading(c) \/ RecvDefer(c)
  BY <1>1, <1>6 DEF SendLocked, Reading, RecvLocked, TryLocked, RecvDefer
<1>7. CASE RecvPark(c)
  BY <1>0, <1>7 DEF RecvPark, callVars, Goto, CallMove
<1>8. CASE RecvWake(c)
  <2>1. tgt[c] \in Receivers
    BY <1>8 DEF RecvWake, TypeInv, LocalsOK, ReadPCs
  <2> QED BY <1>0, <1>8, <2>1 DEF RecvWake, callVars, Goto, CallMove
<1>9. ASSUME NEW b \in Clients, b # c, OfClient(b) PROVE CallMove(c)
  BY <1>3, <1>9, ClientMoves
<1>10. ASSUME NEW r \in Receivers, OfFeeder(r) PROVE CallMove(c)
  BY <1>0, <1>3, <1>10, FeederMoves, WhoIsWho DEF callVars
<1>11. CASE UNCHANGED vars
  BY <1>3, <1>11 DEF vars, callVars
<1> QED BY <1>4, <1>5, <1>6, <1>7, <1>8, <1>9, <1>10, <1>11, StepKinds
        DEF OfClient, ParkingOnly

(* Every step preserves what is known of the calls in progress.             *)
LEMMA NextCallInv == ASSUME TypeInv, CallInv, [Next]_vars PROVE CallInv'
<1>0. /\ \A rx \in Receivers : (done[rx] => done'[rx]) /\ QueueStep(rx)
      /\ receivers \subseteq minted /\ minted \subseteq minted'
      /\ pc \in [Procs -> ClientPCs \cup FeederPCs]
      /\ hand \in [Receivers -> Events \cup {None}]
  <2>1. minted \subseteq minted'
    BY DEF Next, Call, ClientStep, FeederStep, vars, handleVars, NewReceiver, CallSend,
           CloseSender, CloseHub, CloseHubDone, CloseHubEnd, CloseReceiver, Chan,
           CallRecv, CallTry, Cancel, SendCtx, SendLocked, RecvLocked, TryLocked,
           RecvPark, RecvWake, RecvDefer, FeedProbe, FeedLocked, FeedPark, FeedAbort,
           FeedWake, FeedDefer, ChanReceive
  <2> QED BY <2>1, NextHubStep, NextQueueStep DEF HubStep, TypeInv, TypeOK
<1>1. ASSUME NEW c \in Clients
      PROVE  /\ pc'[c] \in {"idle", "hubClosing"} =>
                  tgt'[c] = None /\ msg'[c] = None /\ ctx'[c] = "none"
             /\ pc'[c] = "recvDefer" => tgt'[c] \in Receivers /\ done'[tgt'[c]]
             /\ pc'[c] \in {"tryRecvLock", "tryRecvAllLock", "peekLock"} =>
                  ctx'[c] = "none"
  BY <1>0, NextCallMove DEF CallMove, CallInv
<1>2. ASSUME NEW rx \in Receivers
      PROVE  /\ pc'[rx] = "feedDefer" => done'[rx]
             /\ pc'[rx] = "feedDeliver" => hand'[rx] \in Events
  <2>1. CASE UNCHANGED <<pc[rx], hand[rx]>>
    BY <1>0, <2>1 DEF CallInv
  <2>2. CASE OfFeeder(rx)
    <3>1. rx \in Procs
      BY WhoIsWho
    <3>2. CASE Ranging(rx) \/ FeedProbe(rx) \/ FeedAbort(rx) \/ FeedWake(rx)
      <4>1. \/ Goto(rx, "feedProbe") \/ Goto(rx, "feedLock") \/ Goto(rx, "feedExited")
            \/ Goto(rx, "feedDefer") /\ done[rx]
        BY <3>2 DEF Ranging, Chan, FeedProbe, FeedAbort, FeedWake, FeedExit
      <4> QED BY <1>0, <3>1, <4>1 DEF Goto
    <3>3. CASE FeedPark(rx) \/ FeedDefer(rx) \/ ChanReceive(rx)
      <4>1. \/ Goto(rx, "feedPark") \/ Goto(rx, "feedExited") \/ Goto(rx, "feedProbe")
        BY <3>3 DEF FeedPark, FeedDefer, ChanReceive
      <4> QED BY <1>0, <3>1, <4>1 DEF Goto
    <3>4. CASE FeedLocked(rx)
      <4>1. \/ Goto(rx, "feedExited")
            \/ /\ q[rx].order # <<>> /\ Goto(rx, "feedDeliver")
               /\ hand' = [hand EXCEPT ![rx] = HeadEvent(q[rx])]
        BY <3>4, VerdictType DEF FeedLocked
      <4>2. q[rx].order # <<>> => HeadEvent(q[rx]) \in Events
        BY PopType
      <4> QED BY <1>0, <3>1, <4>1, <4>2 DEF Goto
    <3> QED BY <2>2, <3>2, <3>3, <3>4 DEF OfFeeder, FeederOnly
  <2>3. ASSUME NEW r \in Receivers, r # rx, OfFeeder(r)
        PROVE  UNCHANGED <<pc[rx], hand[rx]>>
    BY <2>3, FeederMoves, WhoIsWho
  <2>4. ASSUME NEW c \in Clients, OfClient(c) PROVE UNCHANGED <<pc[rx], hand[rx]>>
    BY <2>4, ClientMoves
  <2> QED BY <2>1, <2>2, <2>3, <2>4, StepKinds DEF vars
<1>3. ASSUME NEW rx \in Receivers, q'[rx].order # <<>> PROVE rx \in minted'
  <2>1. CASE q'[rx] = q[rx]
    BY <1>0, <1>3, <2>1 DEF CallInv
  <2>2. CASE q'[rx] # q[rx]
    BY <1>0, <2>2 DEF QueueStep, CallInv
  <2> QED BY <2>1, <2>2
<1> QED BY <1>1, <1>2, <1>3 DEF CallInv

(* All that is known of a state. *)
ContractInv == TypeInv /\ WakeInv /\ GateInv /\ ClosedInv /\ CallInv

(* Every step preserves the invariant the refinement rests on.              *)
LEMMA NextContractInv == ContractInv /\ [Next]_vars => ContractInv'
BY NextTypeInv, NextParkInv, NextFinished, NextSleepInv, NextGateInv, NextClosedInv,
   NextCallInv DEF ContractInv, WakeInv

(* The invariant of the refinement holds in a bus that has only been made.  *)
LEMMA InitContractInv == Init => ContractInv
<1>1. Init => DeregisteredIsFinished /\ SleepInv
  BY DEF Init, DeregisteredIsFinished, SleepInv
<1> QED BY <1>1, InitTypeInv, InitParkInv, InitGateInv, InitClosedInv, InitCallInv
        DEF ContractInv, WakeInv

-----------------------------------------------------------------------------
(* What is pending and what is offered. *)

(* The list of a backlog is as long as its map, and its head is in the map. *)
LEMMA HeadIs ==
  ASSUME NEW b, GoodQueue(b)
  PROVE  /\ b.elems \subseteq Keys /\ (b.order = <<>> <=> b.elems = {})
         /\ b.order # <<>> => Head(b.order) \in b.elems
         /\ HeadEvent(b).key = Head(b.order)
         /\ {e.key : e \in Range(AllEvents(b))} = b.elems
         /\ Popped(b).elems = b.elems \ {Head(b.order)} /\ PoppedAll(b).elems = {}
<1>1. /\ b.order \in Seq(Keys) /\ Range(b.order) = b.elems /\ b.elems \subseteq Keys
      /\ DOMAIN b.order = 1..Len(b.order) /\ Len(b.order) \in Nat
      /\ Range(b.order) = {b.order[i] : i \in 1..Len(b.order)}
  BY DEF GoodQueue, Queues, Coherent, Range
<1>2. b.order = <<>> => b.elems = {}
  BY <1>1
<1>3. b.order # <<>> => Head(b.order) \in b.elems
  BY <1>1
<1>4. {e.key : e \in Range(AllEvents(b))} = b.elems
  <2> DEFINE A == AllEvents(b)
  <2>1. /\ DOMAIN A = 1..Len(b.order)
        /\ \A i \in 1..Len(b.order) : A[i].key = b.order[i]
    BY DEF AllEvents, Event
  <2> HIDE DEF A
  <2>2. Range(A) = {A[i] : i \in 1..Len(b.order)}
    BY <2>1 DEF Range
  <2>3. {e.key : e \in Range(A)} = {b.order[i] : i \in 1..Len(b.order)}
    BY <2>1, <2>2
  <2> QED BY <1>1, <2>3 DEF A
<1> QED BY <1>1, <1>2, <1>3, <1>4 DEF HeadEvent, Event, Popped, PoppedAll

(* A send adds the key to the map, leaves it there or takes it away. *)
LEMMA EnqueueRoutes ==
  ASSUME NEW b \in Queues, NEW k, NEW v, NEW m
  PROVE  Enqueue(b, k, v, m).elems \in {b.elems, b.elems \cup {k}, b.elems \ {k}}
<1>1. PushBack(b, k, v).elems = b.elems \cup {k} /\ Annihilate(b, k).elems = b.elems \ {k}
  BY DEF PushBack, Annihilate
<1>2. \A w : Replace(b, k, w).elems = b.elems
  BY DEF Replace, Queues
<1> QED BY <1>1, <1>2 DEF Enqueue

(* What the contract sees of a receiver: the keys in its backlog until it   *)
(* is closed, and the key in its feeder's hand.                             *)
LEMMA PendingIs ==
  ASSUME ContractInv, NEW rx \in Receivers
  PROVE  /\ PendingOf[rx] = IF done[rx] THEN {} ELSE q[rx].elems
         /\ OfferOf[rx] = IF pc[rx] = "feedDeliver" THEN hand[rx].key ELSE None
         /\ pc[rx] = "feedDeliver" => OfferOf[rx] # None
         /\ q[rx].order = <<>> <=> q[rx].elems = {}
         /\ rx \notin minted => PendingOf[rx] = {}
<1>1. GoodQueue(q[rx])
  BY GoodQueues DEF ContractInv
<1>2. pc[rx] = "feedDeliver" => hand[rx].key \in Keys /\ hand[rx].key # None
  BY ConflateAssumption DEF ContractInv, CallInv, Events
<1>3. q[rx].order = <<>> <=> q[rx].elems = {}
  BY <1>1, HeadIs
<1> QED BY <1>2, <1>3 DEF PendingOf, OfferOf, Offers, ContractInv, CallInv

(* The keys a step leaves pending and holds out. *)
LEMMA NothingElse ==
  ASSUME UNCHANGED <<txClosed, minted, done, q, hand>>,
         \A rx \in Receivers : pc'[rx] = pc[rx]
  PROVE  UNCHANGED <<TxOf, HandleOf, PendingOf, ChannelOf, OfferOf>>
<1>1. UNCHANGED ChannelOf
  BY ChannelKept
<1>2. UNCHANGED PendingOf
  BY DEF PendingOf
<1>3. UNCHANGED OfferOf
  BY DEF OfferOf, Offers
<1>4. UNCHANGED <<TxOf, HandleOf>>
  BY HandleKept DEF TxOf
<1> QED BY <1>1, <1>2, <1>3, <1>4

(* When the fast path reads a live count of zero, nobody is open to be      *)
(* told.                                                                    *)
LEMMA NobodyToTell ==
  ASSUME ContractInv, live = 0 PROVE Contract!NobodyOpen
<1>1. /\ LiveExact /\ receivers \subseteq Receivers /\ DeregisteredIsFinished
  BY DEF ContractInv, WakeInv, GateInv, TypeInv, TypeOK
<1>2. ~txClosed /\ Cardinality(receivers) = 0
  BY <1>1 DEF LiveExact, Poisoned
<1>3. receivers = {}
  BY <1>1, <1>2, BusAssumption, FS_Subset, FS_EmptySet
<1>4. \A rx \in minted : done[rx]
  BY <1>1, <1>2, <1>3 DEF DeregisteredIsFinished, Closed, Drained
<1>5. \A rx \in Receivers : HandleOf[rx] # "open"
  BY <1>4, HandleIs
<1> QED BY <1>2, <1>5 DEF Contract!NobodyOpen, TxOf

-----------------------------------------------------------------------------
(* Calls: what a step of a goroutine does to CallsOf and AnswerOf. *)

SendKey(c) == IF Sends(c) THEN msg[c].key ELSE None

(* The fields of a client's call in the contract.                           *)
LEMMA CallIs ==
  ASSUME NEW c \in Clients
  PROVE  /\ CallsOf[c].op = OpOf(pc[c]) /\ CallsOf[c].rx = tgt[c]
         /\ CallsOf[c].key = SendKey(c) /\ CallsOf[c].ctx = ctx[c]
         /\ CallsOf[c] = [op |-> OpOf(pc[c]), rx |-> tgt[c], key |-> SendKey(c),
                          ctx |-> ctx[c]]
BY DEF CallsOf, CallOf, OpOf, SendKey

(* Only the entry of c changes. *)
LEMMA CallsStep ==
  ASSUME NEW c \in Clients,
         \A d \in Clients \ {c} : UNCHANGED <<pc[d], tgt[d], msg[d], ctx[d]>>
  PROVE  CallsOf' = [CallsOf EXCEPT ![c] =
                       [op |-> OpOf(pc'[c]), rx |-> tgt'[c], key |-> SendKey(c)',
                        ctx |-> ctx'[c]]]
<1> DEFINE rec(d) == [op |-> OpOf(pc[d]), rx |-> tgt[d], key |-> SendKey(d),
                      ctx |-> ctx[d]]
<1>1. CallsOf = [d \in Clients |-> rec(d)]
  BY DEF CallsOf, CallOf, OpOf, SendKey
<1>2. CallsOf' = [d \in Clients |-> rec(d)']
  BY DEF CallsOf, CallOf, OpOf, SendKey
<1>3. \A d \in Clients \ {c} : rec(d)' = rec(d)
  BY DEF SendKey, Sends
<1> HIDE DEF rec
<1>4. CallsOf' = [CallsOf EXCEPT ![c] = rec(c)']
  BY <1>1, <1>2, <1>3
<1> QED BY <1>4 DEF rec

(* A return ends the call and answers it, and touches no channel.           *)
LEMMA CallsReturned ==
  ASSUME TypeInv, NEW c \in Clients, NEW r, Return(c, r)
  PROVE  /\ CallsOf' = [CallsOf EXCEPT ![c] = Contract!NoCall]
         /\ AnswerOf' = [AnswerOf EXCEPT ![c] = Told(r)]
         /\ \A rx \in Receivers : pc'[rx] = pc[rx]
<1>1. /\ pc'[c] = "idle" /\ tgt'[c] = None /\ msg'[c] = None /\ ctx'[c] = "none"
      /\ \A d \in Clients \ {c} : UNCHANGED <<pc[d], tgt[d], msg[d], ctx[d]>>
      /\ \A rx \in Receivers : pc'[rx] = pc[rx]
  BY WhoIsWho DEF Return, Goto, TypeInv, TypeOK
<1>2. CallsOf' = [CallsOf EXCEPT ![c] = Contract!NoCall]
  BY <1>1, CallsStep, OpIs DEF SendKey, Sends, Contract!NoCall
<1>3. AnswerOf' = [AnswerOf EXCEPT ![c] = Told(r)]
  BY AnswerReturned DEF Return, TypeInv, TypeOK
<1> QED BY <1>1, <1>2, <1>3

(* Entering an operation starts its call and clears the last answer.        *)
LEMMA CallsEntered ==
  ASSUME TypeInv, NEW c \in Clients, NEW l, NEW rx, NEW ev, NEW x,
         Enter(c, l, rx, ev, x)
  PROVE  /\ CallsOf' = [CallsOf EXCEPT ![c] =
                          [op |-> OpOf(l), rx |-> rx,
                           key |-> IF l \in SendPCs THEN ev.key ELSE None, ctx |-> x]]
         /\ AnswerOf' = [AnswerOf EXCEPT ![c] = Contract!Nil]
<1>1. /\ pc'[c] = l /\ tgt'[c] = rx /\ msg'[c] = ev /\ ctx'[c] = x
      /\ \A d \in Clients \ {c} : UNCHANGED <<pc[d], tgt[d], msg[d], ctx[d]>>
  BY WhoIsWho DEF Enter, Goto, TypeInv, TypeOK
<1>2. CallsOf' = [CallsOf EXCEPT ![c] =
                    [op |-> OpOf(l), rx |-> rx,
                     key |-> IF l \in SendPCs THEN ev.key ELSE None, ctx |-> x]]
  BY <1>1, CallsStep DEF SendKey, Sends, SendPCs
<1>3. AnswerOf' = [AnswerOf EXCEPT ![c] = Told(Ok)]
  BY AnswerReturned DEF Enter, TypeInv, TypeOK
<1>4. Told(Ok) = Contract!Nil
  BY ToldIs DEF Ok, Contract!Nil, Contract!Answer
<1> QED BY <1>1, <1>2, <1>3, <1>4

(* A move inside one call, or outside any. *)
LEMMA CallsMoved ==
  ASSUME TypeInv, NEW c \in Clients, NEW l, Goto(c, l), UNCHANGED callVars,
         OpOf(l) = OpOf(pc[c]), l \in SendPCs <=> pc[c] \in SendPCs
  PROVE  UNCHANGED <<CallsOf, AnswerOf>>
<1>1. pc'[c] = l /\ \A d \in Clients \ {c} : pc'[d] = pc[d]
  BY WhoIsWho DEF Goto, TypeInv, TypeOK
<1>2. \A d \in Clients : OpOf(pc'[d]) = OpOf(pc[d])
  BY <1>1
<1> QED BY <1>1, <1>2 DEF CallsOf, CallOf, OpOf, AnswerOf, callVars, Sends, SendPCs

(* A step in which no client moves leaves calls and answers alone.          *)
LEMMA CallsAlone ==
  ASSUME UNCHANGED callVars, \A c \in Clients : pc'[c] = pc[c]
  PROVE  UNCHANGED <<CallsOf, AnswerOf>>
BY DEF CallsOf, CallOf, AnswerOf, callVars, Sends

(* An idle client has no call in the contract.                              *)
LEMMA Free ==
  ASSUME ContractInv, NEW c \in Clients, pc[c] = "idle"
  PROVE  CallsOf[c] = Contract!NoCall
BY CallIs, OpIs DEF ContractInv, CallInv, SendKey, Sends, Contract!NoCall

-----------------------------------------------------------------------------
(* Steps on the way to the mutex, and off it again. *)

(* The step is c's alone. *)
LEMMA QuietAlone ==
  ASSUME TypeInv, NEW c \in Clients, QuietStep(c) \/ ParkingOnly(c)
  PROVE  UNCHANGED <<TxOf, Contract!rxVars>>
BY QuietKeeps, ClientMoves, NothingElse DEF OfClient, Contract!rxVars

(* A context that is cancelled is the contract's Cancel.                    *)
LEMMA CancelImplements ==
  ASSUME ContractInv, NEW c \in Clients, Cancel(c) PROVE Contract!Cancel(c)
<1>1. UNCHANGED <<TxOf, Contract!rxVars>> /\ UNCHANGED AnswerOf
  BY QuietAlone DEF QuietStep, Cancel, ContractInv, AnswerOf
<1>2. CallsOf' = [CallsOf EXCEPT ![c].ctx = "cancelled"]
  BY DEF Cancel, CallsOf, CallOf, Sends, ContractInv, TypeInv, TypeOK
<1>3. CallsOf[c].ctx = "live"
  BY CallIs DEF Cancel
<1> QED BY <1>1, <1>2, <1>3 DEF Contract!Cancel

(* A call that enters is a call that begins. *)
LEMMA EntersBegins ==
  ASSUME ContractInv, NEW c \in Clients, QuietStep(c), pc[c] = "idle",
         NEW l, NEW rx, NEW ev, NEW x, Enter(c, l, rx, ev, x),
         OpOf(l) = "SendNothing" => Contract!NobodyOpen,
         OpOf(l) \in Contract!ReadOps => HandleOf[rx] = "open"
  PROVE  Contract!Begin(c, OpOf(l), rx, IF l \in SendPCs THEN ev.key ELSE None, x)
<1>1. /\ CallsOf' = [CallsOf EXCEPT ![c] =
                       [op |-> OpOf(l), rx |-> rx,
                        key |-> IF l \in SendPCs THEN ev.key ELSE None, ctx |-> x]]
      /\ AnswerOf' = [AnswerOf EXCEPT ![c] = Contract!Nil]
  BY CallsEntered DEF ContractInv
<1>2. UNCHANGED <<TxOf, Contract!rxVars>> /\ CallsOf[c] = Contract!NoCall
  BY QuietAlone, Free DEF ContractInv
<1> QED BY <1>1, <1>2 DEF Contract!Begin

(* A call answered where it begins. *)
LEMMA AnsweredAtOnce ==
  ASSUME ContractInv, NEW c \in Clients, QuietStep(c), pc[c] = "idle",
         NEW r, Return(c, r),
         \/ r = Ok /\ Contract!NobodyOpen
         \/ r = Result("ErrClosed", <<>>) /\ \E rx \in Receivers : HandleOf[rx] = "closed"
  PROVE  Contract!AtOnce(c)
<1>1. /\ CallsOf' = [CallsOf EXCEPT ![c] = Contract!NoCall]
      /\ AnswerOf' = [AnswerOf EXCEPT ![c] = Told(r)]
  BY CallsReturned DEF ContractInv
<1>2. UNCHANGED <<TxOf, Contract!rxVars>> /\ CallsOf[c] = Contract!NoCall
  BY QuietAlone, Free DEF ContractInv
<1>3. /\ Told(Ok) = Contract!Nil
      /\ Told(Result("ErrClosed", <<>>)) = Contract!Answer("ErrClosed", {})
  BY ToldIs DEF Ok, Contract!Nil, Contract!Answer
<1> QED BY <1>1, <1>2, <1>3 DEF Contract!AtOnce, Contract!Return

(* Send, TrySend and SendContext begin a send, or answer at once.           *)
LEMMA SendBegins ==
  ASSUME ContractInv, NEW c \in Clients, NEW k \in Keys, NEW v \in Values,
         NEW x \in Contexts, CallSend(c, k, v, x)
  PROVE  Contract!ClientStep(c)
<1>0. /\ pc[c] = "idle" /\ QuietStep(c) /\ Event(k, v).key = k
      /\ x \in {"none", "live", "cancelled"}
  BY DEF CallSend, Idle, QuietStep, Contexts, Event
<1>1. CASE Enter(c, "sendLock", None, Event(k, v), x)
  <2>1. Contract!Begin(c, "Send", None, k, x)
    BY <1>0, <1>1, EntersBegins, OpIs, Zenon DEF Contract!ReadOps, SendPCs
  <2> QED BY <1>0, <2>1 DEF Contract!ClientStep, Contract!SendOps
<1>2. CASE live = 0 /\ Enter(c, "sendCtx", None, Event(k, v), x)
  <2>1. Contract!Begin(c, "SendNothing", None, k, x)
    BY <1>0, <1>2, EntersBegins, OpIs, NobodyToTell, Zenon
       DEF Contract!ReadOps, SendPCs
  <2> QED BY <1>0, <2>1 DEF Contract!ClientStep, Contract!SendOps
<1>3. CASE live = 0 /\ Return(c, Ok)
  <2>1. Contract!AtOnce(c)
    BY <1>0, <1>3, AnsweredAtOnce, NobodyToTell
  <2> QED BY <2>1 DEF Contract!ClientStep
<1> QED BY <1>1, <1>2, <1>3 DEF CallSend

(* A call on a handle begins where the handle is open, or is answered.      *)
LEMMA ReadBegins ==
  ASSUME ContractInv, NEW c \in Clients, NEW rx \in Receivers, NEW x \in Contexts,
         NEW l, QuietStep(c), pc[c] = "idle", rx \in minted,
         l \notin SendPCs, OpOf(l) \in Contract!ReadOps,
         \/ done[rx] /\ Return(c, Result("ErrClosed", <<>>))
         \/ ~done[rx] /\ Enter(c, l, rx, None, x)
  PROVE  Contract!ClientStep(c)
<1>1. CASE done[rx] /\ Return(c, Result("ErrClosed", <<>>))
  <2>1. HandleOf[rx] = "closed"
    BY <1>1, HandleIs
  <2>2. Contract!AtOnce(c)
    BY <1>1, <2>1, AnsweredAtOnce
  <2> QED BY <2>2 DEF Contract!ClientStep
<1>2. CASE ~done[rx] /\ Enter(c, l, rx, None, x)
  <2>1. HandleOf[rx] = "open"
    BY <1>2, HandleIs
  <2>2. OpOf(l) # "SendNothing"
    BY DEF Contract!ReadOps
  <2>3. Contract!Begin(c, OpOf(l), rx, None, x)
    BY <1>2, <2>1, <2>2, EntersBegins, Zenon
  <2> QED BY <2>3 DEF Contract!ClientStep, Contexts
<1> QED BY <1>1, <1>2

(* SendContext on a hub with nobody in it answers by its context alone.     *)
LEMMA SendCtxImplements ==
  ASSUME ContractInv, NEW c \in Clients, SendCtx(c) PROVE Contract!SendNothing(c)
<1>1. /\ pc[c] = "sendCtx" /\ CallsOf[c].op = "SendNothing" /\ CallsOf[c].ctx = ctx[c]
      /\ UNCHANGED <<TxOf, Contract!rxVars>>
  BY CallIs, OpIs, QuietAlone DEF SendCtx, QuietStep, ContractInv
<1>2. CASE ctx[c] # "cancelled" /\ Return(c, Ok)
  <2>1. /\ CallsOf' = [CallsOf EXCEPT ![c] = Contract!NoCall]
        /\ AnswerOf' = [AnswerOf EXCEPT ![c] = Contract!Nil]
    BY <1>2, CallsReturned, ToldIs
       DEF ContractInv, Ok, Contract!Nil, Contract!Answer
  <2> QED BY <1>1, <1>2, <2>1
          DEF Contract!SendNothing, Contract!In, Contract!Cancelled, Contract!Return
<1>3. CASE ctx[c] = "cancelled" /\ Goto(c, "sendLock") /\ UNCHANGED callVars
  <2>1. /\ pc'[c] = "sendLock" /\ UNCHANGED <<tgt, msg, ctx, ret>>
        /\ \A d \in Clients \ {c} : pc'[d] = pc[d]
    BY <1>3, WhoIsWho DEF Goto, callVars, ContractInv, TypeInv, TypeOK
  <2>2. CallsOf' = [CallsOf EXCEPT ![c] =
                      [op |-> "Send", rx |-> tgt[c], key |-> SendKey(c), ctx |-> ctx[c]]]
    BY <1>1, <2>1, CallsStep, OpIs DEF SendKey, Sends
  <2>3. /\ CallsOf[c] = [op |-> "SendNothing", rx |-> tgt[c], key |-> SendKey(c),
                         ctx |-> ctx[c]]
        /\ CallsOf \in [Clients -> Range(CallsOf)]
    BY <1>1, CallIs, OpIs DEF CallsOf, Range
  <2>4. [CallsOf[c] EXCEPT !.op = "Send"] =
           [op |-> "Send", rx |-> tgt[c], key |-> SendKey(c), ctx |-> ctx[c]]
    BY <2>3
  <2>5. CallsOf' = [CallsOf EXCEPT ![c].op = "Send"]
    BY <2>2, <2>4
  <2>6. UNCHANGED AnswerOf
    BY <2>1 DEF AnswerOf
  <2> QED BY <1>1, <1>3, <2>5, <2>6
          DEF Contract!SendNothing, Contract!In, Contract!Cancelled
<1> QED BY <1>2, <1>3 DEF SendCtx

(* The steps before the mutex are the contract's beginnings of calls.       *)
LEMMA QuietImplements ==
  ASSUME ContractInv, NEW c \in Clients, QuietStep(c) PROVE Contract!ClientStep(c)
<1>0. /\ "none" \in Contexts /\ "recvLock" \notin SendPCs
      /\ OpOf("recvLock") \in Contract!ReadOps
      /\ \A op \in TryOps : /\ TryPC(op) \notin SendPCs
                            /\ OpOf(TryPC(op)) \in Contract!ReadOps
  BY OpIs DEF Contexts, SendPCs, Contract!ReadOps, TryOps, TryPC
<1>1. CASE \E k \in Keys, v \in Values, x \in Contexts : CallSend(c, k, v, x)
  BY <1>1, SendBegins
<1>2. CASE \E rx \in Receivers, x \in Contexts : CallRecv(c, rx, x)
  BY <1>0, <1>2, ReadBegins DEF CallRecv, Idle
<1>3. CASE \E rx \in Receivers, op \in TryOps : CallTry(c, rx, op)
  BY <1>0, <1>3, ReadBegins DEF CallTry, Idle
<1>4. CASE SendCtx(c)
  BY <1>4, SendCtxImplements DEF Contract!ClientStep
<1>5. CASE Cancel(c)
  BY <1>5, CancelImplements DEF Contract!ClientStep
<1> QED BY <1>1, <1>2, <1>3, <1>4, <1>5 DEF QuietStep

(* Parking and waking is no business of the contract. *)
LEMMA ParkingImplements ==
  ASSUME ContractInv, NEW c \in Clients, ParkingOnly(c)
  PROVE  Contract!End(c) \/ UNCHANGED <<TxOf, Contract!rxVars, CallsOf, AnswerOf>>
<1>0. TypeInv /\ UNCHANGED <<TxOf, Contract!rxVars>>
  BY QuietAlone DEF ContractInv
<1>1. CASE RecvPark(c) \/ RecvWake(c)
  <2>1. /\ pc[c] \in {"recvLock", "recvPark"} /\ UNCHANGED callVars
        /\ \E l \in {"recvLock", "recvPark", "recvDefer"} : Goto(c, l)
    BY <1>1 DEF RecvPark, RecvWake
  <2> QED BY <1>0, <2>1, CallsMoved, OpIs DEF SendPCs
<1>2. CASE RecvDefer(c)
  <2>1. /\ CallsOf' = [CallsOf EXCEPT ![c] = Contract!NoCall]
        /\ AnswerOf' = [AnswerOf EXCEPT ![c] = Contract!Answer("ErrClosed", {})]
    BY <1>0, <1>2, CallsReturned, ToldIs DEF RecvDefer, Contract!Answer
  <2>2. HandleOf[tgt[c]] = "closed"
    BY <1>2, HandleIs DEF RecvDefer, ContractInv, CallInv, ClosedInv
  <2>3. CallsOf[c].op = "Recv" /\ CallsOf[c].rx = tgt[c]
    BY <1>2, CallIs, OpIs DEF RecvDefer
  <2> QED BY <1>0, <2>1, <2>2, <2>3
          DEF Contract!End, Contract!In, Contract!ReadOps, Contract!Terminal,
              Contract!Return
<1> QED BY <1>1, <1>2 DEF ParkingOnly

-----------------------------------------------------------------------------
(* Handles are made and closed. *)

(* What the contract sees of a step. *)
Promised == <<TxOf, Contract!rxVars, CallsOf, AnswerOf>>

(* Hub.Receiver is the contract's Mint.                                     *)
LEMMA MintImplements ==
  ASSUME ContractInv, NEW c \in Clients, Minting(c)
  PROVE  \E rx \in Receivers : Contract!Mint(rx)
<1> PICK rx \in Receivers : \E f \in Filters, m \in OwnMerges : NewReceiver(c, rx, f, m)
  BY DEF Minting
<1>1. /\ rx \notin minted /\ minted' = minted \cup {rx}
      /\ UNCHANGED <<q, hand, pc, callVars, txClosed>>
      /\ \A r \in Receivers \ {rx} : done'[r] = done[r]
      /\ done'[rx] => done[rx] \/ hubClosed
  BY DEF NewReceiver, ContractInv, TypeInv, TypeOK
<1>2. HandleOf' = [HandleOf EXCEPT ![rx] = IF done'[rx] THEN "closed" ELSE "open"]
  BY <1>1, HandleBorn
<1>3. HandleOf[rx] = "unborn" /\ (done'[rx] => TxOf = "closed")
  BY <1>1, HandleIs DEF TxOf, ContractInv, GateInv, ClosedInv
<1>4. UNCHANGED PendingOf
  <2>1. q[rx].elems = {}
    BY <1>1, PendingIs DEF ContractInv, CallInv
  <2> QED BY <1>1, <2>1 DEF PendingOf
<1>5. UNCHANGED <<ChannelOf, OfferOf, TxOf, CallsOf, AnswerOf>>
  <2>1. UNCHANGED <<CallsOf, AnswerOf>>
    BY <1>1, CallsAlone
  <2>2. UNCHANGED <<ChannelOf, OfferOf, TxOf>>
    BY <1>1, ChannelKept DEF OfferOf, Offers, TxOf
  <2> QED BY <2>1, <2>2
<1> QED BY <1>2, <1>3, <1>4, <1>5 DEF Contract!Mint

(* The step that closes the handle rx and no other. *)
LEMMA ClosesHandle ==
  ASSUME ContractInv, NEW rx \in Receivers, rx \in minted,
         done' = [done EXCEPT ![rx] = TRUE],
         UNCHANGED <<minted, txClosed, q, hand, pc, callVars>>
  PROVE  Contract!CloseHandle(rx) \/ UNCHANGED Promised
<1>0. done \in [Receivers -> BOOLEAN]
  BY DEF ContractInv, TypeInv, TypeOK
<1>1. UNCHANGED <<CallsOf, AnswerOf>>
  BY CallsAlone
<1>2. UNCHANGED <<ChannelOf, OfferOf, TxOf>>
  BY ChannelKept DEF OfferOf, Offers, TxOf
<1>3. CASE done[rx]
  <2>1. UNCHANGED done
    BY <1>0, <1>3
  <2> QED BY <1>1, <2>1, NothingElse DEF Promised, Contract!rxVars
<1>4. CASE ~done[rx]
  <2>1. HandleOf[rx] = "open" /\ HandleOf' = [HandleOf EXCEPT ![rx] = "closed"]
    BY <1>0, <1>4, HandleIs, HandleClosed
  <2>2. PendingOf' = [PendingOf EXCEPT ![rx] = {}]
    BY <1>0 DEF PendingOf
  <2> QED BY <1>1, <1>2, <2>1, <2>2 DEF Contract!CloseHandle
<1> QED BY <1>3, <1>4

(* Each close of the sender, the hub or a receiver is one of the contract,  *)
(* or is seen by nobody.                                                    *)
LEMMA ClosersImplement ==
  ASSUME ContractInv, NEW c \in Clients, Closing(c)
  PROVE  \/ Contract!CloseSender \/ UNCHANGED Promised
         \/ \E rx \in Receivers : Contract!CloseHandle(rx)
<1>1. ASSUME UNCHANGED <<minted, done, q, hand, callVars>>,
             \/ UNCHANGED pc
             \/ /\ pc[c] \in {"idle", "hubClosing"}
                /\ Goto(c, "idle") \/ Goto(c, "hubClosing")
      PROVE  UNCHANGED <<Contract!rxVars, CallsOf, AnswerOf>>
  <2>1. UNCHANGED <<CallsOf, AnswerOf>>
    <3>1. CASE UNCHANGED pc
      BY <1>1, <3>1, CallsAlone
    <3>2. CASE pc[c] \in {"idle", "hubClosing"} /\ (Goto(c, "idle") \/ Goto(c, "hubClosing"))
      BY <1>1, <3>2, CallsMoved, OpIs DEF ContractInv, SendPCs
    <3> QED BY <1>1, <3>1, <3>2
  <2>2. \A rx \in Receivers : pc'[rx] = pc[rx]
    BY ClientMoves DEF ContractInv, OfClient
  <2>3. UNCHANGED <<HandleOf, ChannelOf>>
    BY <1>1, <2>2, HandleKept, ChannelKept
  <2>4. UNCHANGED <<PendingOf, OfferOf>>
    BY <1>1, <2>2 DEF PendingOf, OfferOf, Offers
  <2> QED BY <2>1, <2>3, <2>4 DEF Contract!rxVars
<1>2. CASE CloseSender(c) \/ CloseHub(c)
  <2>1. /\ txClosed' = TRUE /\ UNCHANGED <<minted, done, q, hand, callVars>>
        /\ UNCHANGED pc \/ (pc[c] = "idle" /\ Goto(c, "hubClosing"))
    BY <1>2 DEF CloseSender, CloseHub, Idle, handleVars
  <2> QED BY <1>1, <2>1 DEF Contract!CloseSender, TxOf
<1>3. CASE CloseHubEnd(c)
  <2>1. /\ UNCHANGED <<txClosed, minted, done, q, hand, callVars>>
        /\ pc[c] = "hubClosing" /\ Goto(c, "idle")
    BY <1>3 DEF CloseHubEnd, handleVars
  <2> QED BY <1>1, <2>1 DEF TxOf, Promised
<1>4. ASSUME NEW rx \in Receivers, CloseHubDone(c, rx) \/ CloseReceiver(c, rx)
      PROVE  Contract!CloseHandle(rx) \/ UNCHANGED Promised
  <2>1. /\ done' = [done EXCEPT ![rx] = TRUE] /\ rx \in minted
        /\ UNCHANGED <<minted, txClosed, q, hand, pc, callVars>>
    BY <1>4 DEF CloseHubDone, CloseReceiver, hubVars, handleVars, ContractInv,
                TypeInv, TypeOK
  <2> QED BY <2>1, ClosesHandle
<1> QED BY <1>2, <1>3, <1>4 DEF Closing

-----------------------------------------------------------------------------
(* A call that has the mutex. *)

(* The answer of a call that changes the backlogs at most. *)
LEMMA Answers ==
  ASSUME ContractInv, NEW c \in Clients, NEW r, Return(c, r),
         UNCHANGED <<txClosed, minted, done, hand>>
  PROVE  /\ CallsOf' = [CallsOf EXCEPT ![c] = Contract!NoCall]
         /\ AnswerOf' = [AnswerOf EXCEPT ![c] = Told(r)]
         /\ UNCHANGED <<TxOf, HandleOf, ChannelOf, OfferOf>>
         /\ UNCHANGED q => UNCHANGED <<TxOf, Contract!rxVars>>
<1>1. /\ CallsOf' = [CallsOf EXCEPT ![c] = Contract!NoCall]
      /\ AnswerOf' = [AnswerOf EXCEPT ![c] = Told(r)]
      /\ \A rx \in Receivers : pc'[rx] = pc[rx]
  BY CallsReturned DEF ContractInv
<1>2. UNCHANGED <<TxOf, HandleOf, ChannelOf, OfferOf>>
  BY <1>1, HandleKept, ChannelKept DEF TxOf, OfferOf, Offers
<1>3. UNCHANGED q => UNCHANGED PendingOf
  BY DEF PendingOf
<1> QED BY <1>1, <1>2, <1>3 DEF Contract!rxVars

(* What a send does to one backlog: a fan-out reaches open handles only.    *)
LEMMA SendFilesKey ==
  ASSUME ContractInv, NEW c \in Clients, SendLocked(c), NEW rx \in Receivers
  PROVE  \/ PendingOf'[rx] = PendingOf[rx]
         \/ /\ HandleOf[rx] = "open" /\ ~txClosed /\ ctx[c] # "cancelled"
            /\ PendingOf'[rx] \in Contract!Routed(PendingOf[rx], msg[c].key)
<1> DEFINE k == msg[c].key
           e == Enqueue(q[rx], k, msg[c].val, PolicyOf(rx))
<1>0. /\ UNCHANGED <<done, minted>> /\ mu = None /\ q[rx] \in Queues
      /\ receivers \subseteq minted
  BY DEF SendLocked, handleVars, ContractInv, TypeInv, TypeOK
<1>1. \/ q'[rx] = q[rx]
      \/ q'[rx] = e /\ rx \in receivers /\ ~txClosed /\ ctx[c] # "cancelled"
  <2>1. \/ UNCHANGED q
        \/ /\ ~txClosed /\ ctx[c] # "cancelled"
           /\ \E R \in SUBSET receivers : FanOut(R, k, msg[c].val)
    BY DEF SendLocked, SendRefused
  <2> QED BY <2>1 DEF FanOut
<1>2. CASE q'[rx] = q[rx]
  BY <1>0, <1>2 DEF PendingOf
<1>3. CASE q'[rx] = e /\ rx \in receivers /\ ~txClosed /\ ctx[c] # "cancelled"
  <2>1. rx \in minted /\ ~done[rx]
    BY <1>0, <1>3 DEF ContractInv, ClosedInv
  <2>2. PendingOf[rx] = q[rx].elems /\ PendingOf'[rx] = e.elems
    BY <1>0, <1>3, <2>1 DEF PendingOf
  <2>3. e.elems \in {q[rx].elems, q[rx].elems \cup {k}, q[rx].elems \ {k}}
    BY <1>0, EnqueueRoutes
  <2> QED BY <1>3, <2>1, <2>2, <2>3, HandleIs DEF Contract!Routed
<1> QED BY <1>1, <1>2, <1>3

(* The locked part of a send publishes its key, or refuses it.              *)
LEMMA SendImplements ==
  ASSUME ContractInv, NEW c \in Clients, SendLocked(c)
  PROVE  Contract!Publish(c) \/ Contract!RefuseSend(c)
<1> DEFINE k == msg[c].key
<1>0. /\ pc[c] = "sendLock" /\ CallsOf[c].op = "Send" /\ CallsOf[c].ctx = ctx[c]
      /\ CallsOf[c].key = k
      /\ UNCHANGED <<txClosed, minted, done, hand>>
  BY CallIs, OpIs DEF SendLocked, SendKey, Sends, hubVars, handleVars
<1>1. CASE \/ txClosed /\ Return(c, Result("ErrClosed", <<>>)) /\ UNCHANGED q
           \/ /\ ~txClosed /\ ctx[c] = "cancelled"
              /\ Return(c, Result("ctx.Err", <<>>)) /\ UNCHANGED q
  <2>1. /\ Told(Result("ErrClosed", <<>>)) = Contract!Answer("ErrClosed", {})
        /\ Told(Result("ctx.Err", <<>>)) = Contract!Answer("ctx.Err", {})
    BY ToldIs DEF Contract!Answer
  <2> QED BY <1>0, <1>1, <2>1, Answers
          DEF Contract!RefuseSend, Contract!Return, Contract!In, Contract!Cancelled,
              TxOf
<1>2. CASE /\ ~txClosed /\ ctx[c] # "cancelled"
           /\ Return(c, Ok) \/ Return(c, Result("panic", <<>>))
  <2>1. \A rx \in Receivers :
          PendingOf'[rx] \in IF HandleOf[rx] = "open"
                             THEN Contract!Routed(PendingOf[rx], k)
                             ELSE {PendingOf[rx]}
    BY SendFilesKey DEF Contract!Routed
  <2>2. PendingOf' \in [Receivers -> UNION {Contract!Routed(PendingOf[rx], k) :
                                              rx \in Receivers}]
    <3>1. \A rx \in Receivers : PendingOf'[rx] \in Contract!Routed(PendingOf[rx], k)
      BY SendFilesKey DEF Contract!Routed
    <3> QED BY <3>1 DEF PendingOf
  <2>3. \E err \in {"nil", "panic"} :
          Return(c, Result(err, <<>>)) /\ Told(Result(err, <<>>)) = Contract!Answer(err, {})
    BY <1>2, ToldIs DEF Ok, Contract!Answer
  <2>4. /\ \E err \in {"nil", "panic"} : Contract!Return(c, Contract!Answer(err, {}))
        /\ UNCHANGED <<TxOf, HandleOf, ChannelOf, OfferOf>>
    BY <1>0, <2>3, Answers DEF Contract!Return
  <2> QED BY <1>0, <1>2, <2>1, <2>2, <2>4
          DEF Contract!Publish, Contract!In, Contract!Cancelled, TxOf
<1>3. \/ SendRefused(c) # "nil" /\ Return(c, Result(SendRefused(c), <<>>)) /\ UNCHANGED q
      \/ SendRefused(c) = "nil" /\ (Return(c, Ok) \/ Return(c, Result("panic", <<>>)))
  BY DEF SendLocked
<1> QED BY <1>1, <1>2, <1>3 DEF SendRefused

(* What the verdict under the mutex means to the contract.                  *)
LEMMA VerdictMeans ==
  ASSUME ContractInv, NEW rx \in Receivers, NEW x
  PROVE  /\ Verdict(rx, x) \in {"closed", "drained"} => Contract!Terminal(rx)
         /\ Verdict(rx, x) \notin {"closed", "drained"} =>
              ~Contract!Terminal(rx) /\ ~done[rx]
         /\ Verdict(rx, x) = "cancelled" => x = "cancelled"
         /\ Verdict(rx, x) = "empty" => PendingOf[rx] = {} /\ x # "cancelled"
         /\ Verdict(rx, x) = "value" => /\ PendingOf[rx] = q[rx].elems /\ x # "cancelled"
                                        /\ q[rx].order # <<>>
         /\ Verdict(rx, x) \in {"closed", "drained", "cancelled", "empty", "value"}
<1>0. /\ PendingOf[rx] = IF done[rx] THEN {} ELSE q[rx].elems
      /\ q[rx].order = <<>> <=> q[rx].elems = {}
      /\ done[rx] => rx \in minted
  BY PendingIs DEF ContractInv, ClosedInv
<1>1. CASE done[rx]
  BY <1>0, <1>1, HandleIs DEF Verdict, Closed, Contract!Terminal
<1>2. CASE ~done[rx] /\ Drained(rx)
  BY <1>0, <1>2, HandleIs
     DEF Verdict, Closed, Contract!Terminal, Contract!Ended, Drained, TxOf
<1>3. CASE ~done[rx] /\ ~Drained(rx)
  <2>1. ~Contract!Terminal(rx)
    BY <1>0, <1>3, HandleIs DEF Contract!Terminal, Contract!Ended, Drained, TxOf
  <2>2. Verdict(rx, x) = IF x = "cancelled" THEN "cancelled"
                         ELSE IF q[rx].order # <<>> THEN "value" ELSE "empty"
    BY <1>3 DEF Verdict, Closed, Cancelled
  <2> QED BY <1>0, <1>3, <2>1, <2>2
<1> QED BY <1>1, <1>2, <1>3

(* Where a call to read the stream has the bus mutex, it is that call. *)
LEMMA ReaderIs ==
  ASSUME NEW c \in Clients
  PROVE  /\ CallsOf[c].rx = tgt[c] /\ CallsOf[c].ctx = ctx[c]
         /\ pc[c] = "recvLock" => CallsOf[c].op = "Recv"
         /\ pc[c] = "tryRecvLock" => CallsOf[c].op = "TryRecv"
         /\ pc[c] = "tryRecvAllLock" => CallsOf[c].op = "TryRecvAll"
         /\ pc[c] = "peekLock" => CallsOf[c].op = "Peek"
BY CallIs, OpIs

(* Nothing is taken: the stream has ended, the call is cancelled, or there  *)
(* is nothing. *)
LEMMA ReadsNothing ==
  ASSUME ContractInv, NEW c \in Clients, NEW rx \in Receivers, NEW x,
         pc[c] \in {"recvLock", "tryRecvLock", "tryRecvAllLock", "peekLock"},
         tgt[c] = rx, x = "cancelled" <=> ctx[c] = "cancelled",
         x = "cancelled" => pc[c] = "recvLock", NEW err, Return(c, Result(err, <<>>)),
         \/ Verdict(rx, x) \in {"closed", "drained"} /\ err = "ErrClosed"
         \/ Verdict(rx, x) = "cancelled" /\ err = "ctx.Err"
         \/ Verdict(rx, x) = "empty" /\ pc[c] # "recvLock" /\ err = "ErrEmpty",
         UNCHANGED <<txClosed, minted, done, q, hand>>
  PROVE  Contract!ClientStep(c)
<1> USE DEF Contract!In, Contract!Cancelled, Contract!ReadOps
<1>0. /\ CallsOf[c].rx = rx /\ CallsOf[c].ctx = ctx[c]
      /\ CallsOf[c].op \in Contract!ReadOps
      /\ CallsOf[c].op = "Recv" <=> pc[c] = "recvLock"
  BY ReaderIs
<1>1. UNCHANGED <<TxOf, Contract!rxVars>> /\ Contract!Return(c, Contract!Answer(err, {}))
  BY Answers, ToldIs DEF Contract!Return, Contract!Answer
<1>2. CASE Verdict(rx, x) \in {"closed", "drained"} /\ err = "ErrClosed"
  <2>1. Contract!End(c)
    BY <1>0, <1>1, <1>2, VerdictMeans DEF Contract!End
  <2> QED BY <2>1 DEF Contract!ClientStep
<1>3. CASE Verdict(rx, x) = "cancelled" /\ err = "ctx.Err"
  <2>1. Contract!Interrupt(c)
    BY <1>0, <1>1, <1>3, VerdictMeans DEF Contract!Interrupt
  <2> QED BY <2>1 DEF Contract!ClientStep
<1>4. CASE Verdict(rx, x) = "empty" /\ pc[c] # "recvLock" /\ err = "ErrEmpty"
  <2>1. Contract!FindEmpty(c)
    BY <1>0, <1>1, <1>4, VerdictMeans DEF Contract!FindEmpty
  <2> QED BY <2>1 DEF Contract!ClientStep
<1> QED BY <1>2, <1>3, <1>4

(* Something is taken: the head, or by TryRecvAll everything. *)
LEMMA ReadsValue ==
  ASSUME ContractInv, NEW c \in Clients, NEW rx \in Receivers, NEW x,
         tgt[c] = rx, x = "cancelled" <=> ctx[c] = "cancelled",
         Verdict(rx, x) = "value",
         UNCHANGED <<txClosed, minted, done, hand>>,
         \/ /\ pc[c] \in {"recvLock", "tryRecvLock"}
            /\ Return(c, Result("nil", <<HeadEvent(q[rx])>>))
            /\ q' = [q EXCEPT ![rx] = Popped(q[rx])]
         \/ /\ pc[c] = "tryRecvAllLock"
            /\ Return(c, Result("nil", AllEvents(q[rx])))
            /\ q' = [q EXCEPT ![rx] = PoppedAll(q[rx])]
         \/ /\ pc[c] = "peekLock"
            /\ Return(c, Result("nil", <<HeadEvent(q[rx])>>))
            /\ q' = q
  PROVE  Contract!ClientStep(c)
<1> USE DEF Contract!In, Contract!Cancelled, Contract!ReadOps
<1> DEFINE h == Head(q[rx].order)
<1>0. /\ CallsOf[c].rx = rx /\ CallsOf[c].ctx = ctx[c]
      /\ pc[c] = "recvLock" => CallsOf[c].op = "Recv"
      /\ pc[c] = "tryRecvLock" => CallsOf[c].op = "TryRecv"
      /\ pc[c] = "tryRecvAllLock" => CallsOf[c].op = "TryRecvAll"
      /\ pc[c] = "peekLock" => CallsOf[c].op = "Peek"
  BY ReaderIs
<1>1. /\ GoodQueue(q[rx]) /\ q \in [Receivers -> Queues] /\ q[rx].order # <<>>
      /\ PendingOf[rx] = q[rx].elems /\ ~done[rx] /\ ctx[c] # "cancelled"
      /\ ~Contract!Terminal(rx)
  BY GoodQueues, VerdictMeans DEF ContractInv, TypeInv, TypeOK
<1>2. /\ h \in PendingOf[rx] /\ PendingOf[rx] # {}
      /\ Told(Result("nil", <<HeadEvent(q[rx])>>)) = Contract!Answer("nil", {h})
      /\ Told(Result("nil", AllEvents(q[rx]))) = Contract!Answer("nil", PendingOf[rx])
  <2>1. /\ h \in q[rx].elems /\ HeadEvent(q[rx]).key = h
        /\ {e.key : e \in Range(AllEvents(q[rx]))} = q[rx].elems
    BY <1>1, HeadIs
  <2>2. Told(Result("nil", <<HeadEvent(q[rx])>>)) = Contract!Answer("nil", {h})
    BY <2>1, ToldIs DEF Contract!Answer
  <2>3. Told(Result("nil", AllEvents(q[rx]))) = Contract!Answer("nil", q[rx].elems)
    BY <2>1 DEF Told, Result, Contract!Answer
  <2> QED BY <1>1, <2>1, <2>2, <2>3
<1>3. ASSUME NEW b, q' = [q EXCEPT ![rx] = b]
      PROVE  PendingOf' = [PendingOf EXCEPT ![rx] = b.elems]
  BY <1>1, <1>3 DEF PendingOf
<1>4. ASSUME NEW a, Return(c, a)
      PROVE  /\ CallsOf' = [CallsOf EXCEPT ![c] = Contract!NoCall]
             /\ AnswerOf' = [AnswerOf EXCEPT ![c] = Told(a)]
             /\ UNCHANGED <<TxOf, HandleOf, ChannelOf, OfferOf>>
             /\ UNCHANGED q => UNCHANGED <<TxOf, Contract!rxVars>>
  BY <1>4, Answers
<1> HIDE DEF h
<1>5. CASE /\ pc[c] \in {"recvLock", "tryRecvLock"}
           /\ Return(c, Result("nil", <<HeadEvent(q[rx])>>))
           /\ q' = [q EXCEPT ![rx] = Popped(q[rx])]
  <2>1. PendingOf' = [PendingOf EXCEPT ![rx] = @ \ {h}]
    <3>1. PendingOf' = [PendingOf EXCEPT ![rx] = Popped(q[rx]).elems]
      BY <1>3, <1>5
    <3>2. Popped(q[rx]).elems = q[rx].elems \ {h}
      BY <1>1, HeadIs DEF h
    <3> QED BY <1>1, <3>1, <3>2
  <2>2. Contract!Return(c, Contract!Answer("nil", {h}))
    BY <1>2, <1>4, <1>5 DEF Contract!Return
  <2>3. /\ CallsOf[c].op \in Contract!ReadOps \ {"Peek"}
        /\ CallsOf[c].op \notin {"TryRecvAll"}
    BY <1>0, <1>5
  <2>4. /\ {h} \in {{k} : k \in PendingOf[rx]} /\ {h} # {}
        /\ UNCHANGED <<TxOf, HandleOf, ChannelOf, OfferOf>>
    BY <1>2, <1>4, <1>5
  <2>5. Contract!Receive(c)
    BY <1>0, <1>1, <2>1, <2>2, <2>3, <2>4 DEF Contract!Receive
  <2> QED BY <2>5 DEF Contract!ClientStep
<1>6. CASE /\ pc[c] = "tryRecvAllLock"
           /\ Return(c, Result("nil", AllEvents(q[rx])))
           /\ q' = [q EXCEPT ![rx] = PoppedAll(q[rx])]
  <2>1. PendingOf' = [PendingOf EXCEPT ![rx] = @ \ PendingOf[rx]]
    <3>1. PendingOf' = [PendingOf EXCEPT ![rx] = PoppedAll(q[rx]).elems]
      BY <1>3, <1>6
    <3>2. PoppedAll(q[rx]).elems = {} /\ PendingOf[rx] \ PendingOf[rx] = {}
      BY <1>1, HeadIs
    <3> QED BY <3>1, <3>2
  <2>2. Contract!Return(c, Contract!Answer("nil", PendingOf[rx]))
    BY <1>2, <1>4, <1>6 DEF Contract!Return
  <2>3. CallsOf[c].op = "TryRecvAll"
    BY <1>0, <1>6
  <2>4. UNCHANGED <<TxOf, HandleOf, ChannelOf, OfferOf>>
    BY <1>4, <1>6
  <2>5. Contract!Receive(c)
    BY <1>0, <1>1, <1>2, <2>1, <2>2, <2>3, <2>4 DEF Contract!Receive
  <2> QED BY <2>5 DEF Contract!ClientStep
<1>7. CASE /\ pc[c] = "peekLock"
           /\ Return(c, Result("nil", <<HeadEvent(q[rx])>>))
           /\ q' = q
  <2>1. Contract!Return(c, Contract!Answer("nil", {h})) /\ CallsOf[c].op = "Peek"
    BY <1>0, <1>2, <1>4, <1>7 DEF Contract!Return
  <2>2. Contract!Look(c)
    BY <1>0, <1>1, <1>2, <1>4, <1>7, <2>1 DEF Contract!Look
  <2> QED BY <2>2 DEF Contract!ClientStep
<1> QED BY <1>5, <1>6, <1>7

(* The locked part of Recv, TryRecv, TryRecvAll and Peek answers the call,  *)
(* or leaves it waiting.                                                    *)
LEMMA ReadImplements ==
  ASSUME ContractInv, NEW c \in Clients, Reading(c) PROVE Contract!ClientStep(c)
<1>1. CASE RecvLocked(c)
  <2> DEFINE rx == tgt[c]
             V == Verdict(rx, ctx[c])
  <2>1. /\ pc[c] = "recvLock" /\ rx \in Receivers
        /\ V \in {"closed", "drained", "cancelled", "value"}
        /\ Return(c, RecvAnswer(rx, V))
        /\ q' = IF V = "value" THEN [q EXCEPT ![rx] = Popped(@)] ELSE q
        /\ UNCHANGED <<txClosed, minted, done, hand>>
    BY <1>1, VerdictMeans
       DEF RecvLocked, handleVars, ContractInv, TypeInv, LocalsOK, ReadPCs
  <2>2. /\ V \in {"closed", "drained"} => RecvAnswer(rx, V) = Result("ErrClosed", <<>>)
        /\ V = "cancelled" => RecvAnswer(rx, V) = Result("ctx.Err", <<>>)
        /\ V = "value" => RecvAnswer(rx, V) = Result("nil", <<HeadEvent(q[rx])>>)
    BY DEF RecvAnswer
  <2> HIDE DEF rx, V
  <2>3. CASE V = "value"
    BY <2>1, <2>2, <2>3, ReadsValue DEF rx, V
  <2>4. CASE V # "value"
    BY <2>1, <2>2, <2>4, ReadsNothing DEF rx, V
  <2> QED BY <2>3, <2>4
<1>2. ASSUME NEW op \in TryOps, TryLocked(c, op) PROVE Contract!ClientStep(c)
  <2> DEFINE rx == tgt[c]
             V == Verdict(rx, "none")
  <2>1. /\ pc[c] = TryPC(op)
        /\ pc[c] = CASE op = "TryRecv" -> "tryRecvLock"
                     [] op = "TryRecvAll" -> "tryRecvAllLock"
                     [] op = "Peek" -> "peekLock"
        /\ op \in {"TryRecv", "TryRecvAll", "Peek"}
        /\ UNCHANGED <<txClosed, minted, done, hand>>
        /\ \/ /\ V \in {"closed", "drained"}
              /\ Return(c, Result("ErrClosed", <<>>)) /\ UNCHANGED q
           \/ V = "empty" /\ Return(c, Result("ErrEmpty", <<>>)) /\ UNCHANGED q
           \/ /\ V = "value" /\ Return(c, Result("nil", TryEvents(rx, op)))
              /\ q' = [q EXCEPT ![rx] = TryLeaves(rx, op)]
    BY <1>2 DEF TryLocked, handleVars, TryPC, TryOps
  <2>2. /\ pc[c] \in {"tryRecvLock", "tryRecvAllLock", "peekLock"}
        /\ rx \in Receivers /\ ctx[c] = "none" /\ q \in [Receivers -> Queues]
    BY <2>1 DEF ContractInv, CallInv, TypeInv, TypeOK, LocalsOK, ReadPCs
  <2> HIDE DEF rx, V
  <2>3. CASE V = "value"
    <3>1. CASE op = "TryRecv"
      BY <2>1, <2>2, <2>3, <3>1, ReadsValue DEF rx, V, TryEvents, TryLeaves
    <3>2. CASE op = "TryRecvAll"
      BY <2>1, <2>2, <2>3, <3>2, ReadsValue DEF rx, V, TryEvents, TryLeaves
    <3>3. CASE op = "Peek"
      BY <2>1, <2>2, <2>3, <3>3, ReadsValue DEF rx, V, TryEvents, TryLeaves
    <3> QED BY <2>1, <3>1, <3>2, <3>3
  <2>4. CASE V # "value"
    BY <2>1, <2>2, <2>4, ReadsNothing DEF rx, V
  <2> QED BY <2>3, <2>4
<1> QED BY <1>1, <1>2 DEF Reading

-----------------------------------------------------------------------------
(* Chan and its feeder. *)

(* What a step of the feeder of rx, or of its consumer, leaves alone. *)
LEMMA FeederAlone ==
  ASSUME ContractInv, NEW rx \in Receivers, OfFeeder(rx)
  PROVE  /\ UNCHANGED <<TxOf, HandleOf, CallsOf, AnswerOf, done>>
         /\ UNCHANGED q => UNCHANGED PendingOf
         /\ OfferOf' = [OfferOf EXCEPT ![rx] =
                          IF pc'[rx] = "feedDeliver" THEN hand'[rx].key ELSE None]
         /\ \E l : Goto(rx, l) /\ pc'[rx] = l
<1>1. /\ UNCHANGED <<txClosed, minted, done, callVars>>
      /\ \E l : Goto(rx, l) /\ pc'[rx] = l
      /\ \A p \in Procs \ {rx} : pc'[p] = pc[p]
      /\ \A r \in Receivers \ {rx} : UNCHANGED <<q[r], hand[r]>>
  BY FeederMoves DEF ContractInv
<1>2. UNCHANGED <<CallsOf, AnswerOf>>
  BY <1>1, CallsAlone, WhoIsWho
<1>3. UNCHANGED <<TxOf, HandleOf>>
  BY <1>1, HandleKept DEF TxOf
<1>4. UNCHANGED q => UNCHANGED PendingOf
  BY <1>1 DEF PendingOf
<1>5. OfferOf' = [OfferOf EXCEPT ![rx] =
                    IF pc'[rx] = "feedDeliver" THEN hand'[rx].key ELSE None]
  BY <1>1, WhoIsWho DEF OfferOf, Offers
<1> QED BY <1>1, <1>2, <1>3, <1>4, <1>5

(* Chan opens the channel.                                                  *)
LEMMA ChanImplements ==
  ASSUME ContractInv, NEW rx \in Receivers, Ranging(rx)
  PROVE  Contract!OpenChannel(rx)
<1>1. /\ rx \in minted /\ pc[rx] = "feedNone" /\ Goto(rx, "feedProbe") /\ UNCHANGED q
  BY DEF Ranging, Chan
<1>2. pc \in [Procs -> ClientPCs \cup FeederPCs] /\ pc'[rx] = "feedProbe"
  BY <1>1, WhoIsWho DEF Goto, ContractInv, TypeInv, TypeOK
<1>3. /\ HandleOf[rx] # "unborn" /\ ChannelOf[rx] = "none"
      /\ ChannelOf' = [ChannelOf EXCEPT ![rx] = "open"]
  BY <1>1, <1>2, HandleIs, ChannelIs, ChannelMoves
<1>4. UNCHANGED OfferOf
  <2>1. OfferOf[rx] = None
    BY <1>1, PendingIs
  <2> QED BY <1>2, <2>1, FeederAlone DEF OfFeeder, OfferOf
<1> QED BY <1>1, <1>3, <1>4, FeederAlone DEF OfFeeder, Contract!OpenChannel

(* A feeder that is running ... *)
Runs(rx) == pc[rx] \notin {"feedNone", "feedExited"}

(* ... goes on without touching its backlog and holds nothing out any more, *)
LEMMA StaysImplements ==
  ASSUME ContractInv, NEW rx \in Receivers, OfFeeder(rx), Runs(rx), UNCHANGED q,
         NEW l \in FeederPCs \ {"feedNone", "feedExited", "feedDeliver"}, Goto(rx, l)
  PROVE  /\ pc[rx] # "feedDeliver" => UNCHANGED Promised
         /\ pc[rx] = "feedDeliver" =>
              /\ Contract!Deliver(rx)
              /\ done[rx] => Contract!Withdraw(rx)
<1>0. pc \in [Procs -> ClientPCs \cup FeederPCs] /\ pc'[rx] = l
  BY WhoIsWho DEF Goto, ContractInv, TypeInv, TypeOK
<1>1. /\ UNCHANGED <<TxOf, HandleOf, PendingOf, CallsOf, AnswerOf>>
      /\ OfferOf' = [OfferOf EXCEPT ![rx] = None]
  BY <1>0, FeederAlone
<1>2. UNCHANGED ChannelOf
  <2>1. \A r \in Receivers \ {rx} : pc'[r] = pc[r]
    BY <1>0, WhoIsWho DEF Goto
  <2> QED BY <1>0, <2>1, ChannelKept DEF Runs
<1>3. CASE pc[rx] # "feedDeliver"
  <2>1. OfferOf[rx] = None
    BY <1>3, PendingIs
  <2>2. UNCHANGED OfferOf
    BY <1>1, <2>1 DEF OfferOf
  <2> QED BY <1>1, <1>2, <1>3, <2>2 DEF Promised, Contract!rxVars
<1>4. CASE pc[rx] = "feedDeliver"
  <2>1. OfferOf[rx] # None
    BY <1>4, PendingIs
  <2>2. done[rx] => HandleOf[rx] = "closed"
    BY HandleIs DEF ContractInv, ClosedInv
  <2> QED BY <1>1, <1>2, <1>4, <2>1, <2>2 DEF Contract!Deliver, Contract!Withdraw
<1> QED BY <1>3, <1>4

(* ... or exits. *)
LEMMA ExitImplements ==
  ASSUME ContractInv, NEW rx \in Receivers, OfFeeder(rx), Runs(rx), UNCHANGED q,
         Goto(rx, "feedExited"),
         done[rx] \/ (Contract!Terminal(rx) /\ pc[rx] # "feedDeliver")
  PROVE  Contract!EndChannel(rx)
<1>0. pc \in [Procs -> ClientPCs \cup FeederPCs] /\ pc'[rx] = "feedExited"
  BY WhoIsWho DEF Goto, ContractInv, TypeInv, TypeOK
<1>1. /\ UNCHANGED <<TxOf, HandleOf, PendingOf, CallsOf, AnswerOf>>
      /\ OfferOf' = [OfferOf EXCEPT ![rx] = None]
  BY <1>0, FeederAlone
<1>2. ChannelOf' = [ChannelOf EXCEPT ![rx] = "closed"] /\ ChannelOf[rx] = "open"
  BY <1>0, ChannelMoves, ChannelIs DEF Runs
<1>3. HandleOf[rx] = "closed" \/ (Contract!Ended(rx) /\ OfferOf[rx] = None)
  BY PendingIs, HandleIs DEF ContractInv, ClosedInv, Contract!Terminal
<1> QED BY <1>1, <1>2, <1>3 DEF Contract!EndChannel

(* A feeder that takes nothing withdraws, ends its channel, or is not seen. *)
LEMMA FeederOnlyImplements ==
  ASSUME ContractInv, NEW rx \in Receivers, FeederOnly(rx)
  PROVE  \/ UNCHANGED Promised \/ Contract!Withdraw(rx) \/ Contract!EndChannel(rx)
<1>0. OfFeeder(rx) /\ UNCHANGED q
  BY DEF OfFeeder, FeederOnly, FeedProbe, FeedPark, FeedAbort, FeedWake, FeedDefer
<1>1. \/ /\ pc[rx] \in {"feedProbe", "feedLock", "feedPark"}
         /\ Goto(rx, "feedLock") \/ Goto(rx, "feedPark") \/ Goto(rx, "feedProbe")
      \/ /\ pc[rx] \in {"feedProbe", "feedPark", "feedDeliver"} /\ done[rx]
         /\ Goto(rx, "feedDefer") \/ Goto(rx, "feedExited")
      \/ /\ pc[rx] = "feedDefer" /\ Goto(rx, "feedExited") /\ done[rx]
  BY DEF FeederOnly, FeedProbe, FeedPark, FeedAbort, FeedWake, FeedDefer, FeedExit,
         ContractInv, CallInv
<1>2. Runs(rx)
  BY <1>1 DEF Runs
<1>3. {"feedLock", "feedPark", "feedProbe", "feedDefer"}
        \subseteq FeederPCs \ {"feedNone", "feedExited", "feedDeliver"}
  BY DEF FeederPCs
<1>4. CASE /\ pc[rx] \in {"feedProbe", "feedLock", "feedPark"}
           /\ Goto(rx, "feedLock") \/ Goto(rx, "feedPark") \/ Goto(rx, "feedProbe")
  BY <1>0, <1>2, <1>3, <1>4, StaysImplements
<1>5. CASE done[rx] /\ Goto(rx, "feedDefer")
  BY <1>0, <1>2, <1>3, <1>5, StaysImplements
<1>6. CASE done[rx] /\ Goto(rx, "feedExited")
  BY <1>0, <1>2, <1>6, ExitImplements
<1> QED BY <1>1, <1>4, <1>5, <1>6

(* The iteration under the mutex holds out the head of the backlog, or ends *)
(* the stream when nothing will come any more.                              *)
LEMMA FeedLockedImplements ==
  ASSUME ContractInv, NEW rx \in Receivers, FeedLocked(rx)
  PROVE  Contract!Offer(rx) \/ Contract!EndChannel(rx)
<1> DEFINE V == Verdict(rx, "none")
           h == Head(q[rx].order)
<1>0. /\ pc \in [Procs -> ClientPCs \cup FeederPCs] /\ q \in [Receivers -> Queues]
      /\ hand \in [Receivers -> Events \cup {None}]
      /\ pc[rx] = "feedLock" /\ Runs(rx) /\ OfFeeder(rx) /\ V # "empty"
  BY DEF ContractInv, TypeInv, TypeOK, FeedLocked, Runs, OfFeeder
<1>1. CASE V # "value" /\ Goto(rx, "feedExited") /\ UNCHANGED q
  <2>1. V \in {"closed", "drained"}
    BY <1>0, <1>1, VerdictMeans
  <2>2. Contract!Terminal(rx)
    BY <2>1, VerdictMeans
  <2> QED BY <1>0, <1>1, <2>2, ExitImplements
<1>2. CASE /\ V = "value" /\ hand' = [hand EXCEPT ![rx] = HeadEvent(q[rx])]
           /\ q' = [q EXCEPT ![rx] = Popped(q[rx])] /\ Goto(rx, "feedDeliver")
  <2>1. /\ q[rx].order # <<>> /\ ~done[rx] /\ PendingOf[rx] = q[rx].elems
        /\ rx \in minted
    BY <1>2, VerdictMeans DEF ContractInv, CallInv
  <2>2. /\ h \in q[rx].elems /\ HeadEvent(q[rx]).key = h
        /\ Popped(q[rx]).elems = q[rx].elems \ {h}
    BY <2>1, GoodQueues, HeadIs DEF ContractInv
  <2>3. pc'[rx] = "feedDeliver" /\ hand'[rx].key = h
    BY <1>0, <1>2, <2>2, WhoIsWho DEF Goto
  <2> HIDE DEF h
  <2>4. UNCHANGED <<TxOf, HandleOf, CallsOf, AnswerOf, done>>
        /\ OfferOf' = [OfferOf EXCEPT ![rx] = h]
    BY <1>0, <2>3, FeederAlone
  <2>5. PendingOf' = [PendingOf EXCEPT ![rx] = @ \ {h}]
    BY <1>0, <1>2, <2>1, <2>2, <2>4 DEF PendingOf
  <2>6. HandleOf[rx] = "open" /\ ChannelOf[rx] = "open" /\ OfferOf[rx] = None
    BY <1>0, <2>1, HandleIs, ChannelIs, PendingIs
  <2>7. UNCHANGED ChannelOf
    <3>1. \A r \in Receivers \ {rx} : pc'[r] = pc[r]
      BY <1>0, <1>2, WhoIsWho DEF Goto
    <3> QED BY <1>0, <2>3, <3>1, ChannelKept
  <2>8. Contract!Offer(rx)
    BY <2>1, <2>2, <2>4, <2>5, <2>6, <2>7 DEF Contract!Offer
  <2> QED BY <2>8
<1> QED BY <1>1, <1>2 DEF FeedLocked

(* A receive from the channel is the contract's Deliver.                    *)
LEMMA DeliverImplements ==
  ASSUME ContractInv, NEW rx \in Receivers, ChanReceive(rx)
  PROVE  Contract!Deliver(rx)
<1>1. /\ pc[rx] = "feedDeliver" /\ Goto(rx, "feedProbe") /\ UNCHANGED q
      /\ OfFeeder(rx) /\ Runs(rx)
      /\ "feedProbe" \in FeederPCs \ {"feedNone", "feedExited", "feedDeliver"}
  BY DEF ChanReceive, OfFeeder, Runs, FeederPCs
<1> QED BY <1>1, StaysImplements

-----------------------------------------------------------------------------
(* A bus that has only been made is the contract's initial state.           *)
LEMMA InitImplements == Init => Contract!Init
<1> SUFFICES ASSUME Init PROVE Contract!Init
  OBVIOUS
<1>1. TxOf = "open" /\ HandleOf = [rx \in Receivers |-> "unborn"]
  BY DEF Init, TxOf, HandleOf
<1>2. PendingOf = [rx \in Receivers |-> {}]
  BY DEF Init, PendingOf, EmptyQueue
<1>3. ChannelOf = [rx \in Receivers |-> "none"] /\ OfferOf = [rx \in Receivers |-> None]
  <2>1. \A rx \in Receivers : pc[rx] = "feedNone"
    BY WhoIsWho DEF Init
  <2> QED BY <2>1 DEF ChannelOf, OfferOf, Offers
<1>4. CallsOf = [c \in Clients |-> Contract!NoCall]
  <2>1. \A c \in Clients : CallsOf[c] = Contract!NoCall
    BY InitContractInv, Free, WhoIsWho DEF Init
  <2> QED BY <2>1 DEF CallsOf
<1>5. AnswerOf = [c \in Clients |-> Contract!Nil]
  <2>1. Told(Ok) = Contract!Nil
    BY ToldIs DEF Ok, Contract!Nil, Contract!Answer
  <2> QED BY <2>1 DEF Init, AnswerOf, Told
<1> QED BY <1>1, <1>2, <1>3, <1>4, <1>5 DEF Contract!Init

(* Every step of the bus is a step of the contract, or none.                *)
LEMMA NextImplements ==
  ASSUME ContractInv, [Next]_vars PROVE Contract!Next \/ UNCHANGED Promised
<1>1. ASSUME NEW c \in Clients, QuietStep(c) PROVE Contract!Next
  BY <1>1, QuietImplements DEF Contract!Next
<1>2. ASSUME NEW c \in Clients, Minting(c) PROVE Contract!Next
  BY <1>2, MintImplements DEF Contract!Next, Contract!HandleStep
<1>3. ASSUME NEW c \in Clients, Closing(c) PROVE Contract!Next \/ UNCHANGED Promised
  BY <1>3, ClosersImplement DEF Contract!Next, Contract!HandleStep
<1>4. ASSUME NEW c \in Clients, SendLocked(c) PROVE Contract!Next
  BY <1>4, SendImplements DEF Contract!Next, Contract!ClientStep
<1>5. ASSUME NEW c \in Clients, Reading(c) PROVE Contract!Next
  BY <1>5, ReadImplements DEF Contract!Next
<1>6. ASSUME NEW c \in Clients, ParkingOnly(c) PROVE Contract!Next \/ UNCHANGED Promised
  BY <1>6, ParkingImplements DEF Contract!Next, Contract!ClientStep, Promised
<1>7. ASSUME NEW rx \in Receivers, OfFeeder(rx)
      PROVE  Contract!HandleStep(rx) \/ UNCHANGED Promised
  BY <1>7, ChanImplements, FeederOnlyImplements, FeedLockedImplements,
     DeliverImplements DEF OfFeeder, Contract!HandleStep
<1>8. CASE UNCHANGED vars
  <2>1. UNCHANGED <<TxOf, HandleOf, PendingOf, ChannelOf, OfferOf>>
    BY <1>8, NothingElse DEF vars, hubVars, handleVars
  <2>2. UNCHANGED <<CallsOf, AnswerOf>>
    BY <1>8, CallsAlone DEF vars
  <2> QED BY <2>1, <2>2 DEF Promised, Contract!rxVars
<1> QED BY <1>1, <1>2, <1>3, <1>4, <1>5, <1>6, <1>7, <1>8, StepKinds
        DEF OfClient, Contract!Next

(* The conflate bus keeps the promises of the gobus interfaces, through     *)
(* every interleaving of lock-free reads, critical sections, parks, wake-ups *)
(* and closes: each call of Send, Recv, TryRecv, TryRecvAll, Peek, Close    *)
(* and Chan is answered by the state of one instant inside it, with the     *)
(* precedence closed > cancelled > value (Sender and Receiver in gobus.go). *)
THEOREM ImplementsTheContract == Spec => ImplementsContract
<1>1. Init => Contract!Init /\ ContractInv
  BY InitImplements, InitContractInv
<1>2. ContractInv /\ [Next]_vars => ContractInv' /\ [Contract!Next]_(Contract!vars)
  BY NextImplements, NextContractInv DEF Promised, Contract!vars
<1> QED BY <1>1, <1>2, PTL DEF Spec, ImplementsContract, Contract!Spec

-----------------------------------------------------------------------------
(* f merges s from the left, and ends on v. *)
MergesTo(m, s, f, v) ==
  /\ f \in [0..Len(s) -> Values \cup {Absent}]
  /\ f[0] = Absent /\ f[Len(s)] = v
  /\ \A n \in 1..Len(s) : f[n] = Joined(m, f[n - 1], s[n])

Folds(m, s, v) == s \in Seq(Values) /\ \E f : MergesTo(m, s, f, v)

(* A fold is what Coalesced says: the recursive function exists, and any    *)
(* other that satisfies its equation is equal to it, place by place.        *)
LEMMA FoldsIs ==
  ASSUME NEW m, NEW s, NEW v, Folds(m, s, v)
  PROVE  Coalesced(m, s) = v /\ v \in Values \cup {Absent}
<1> DEFINE N == Len(s)
           Eq(f) == f = [n \in 0..N |-> IF n = 0 THEN Absent ELSE Joined(m, f[n - 1], s[n])]
           g == CHOOSE f : Eq(f)
<1>1. PICK f : MergesTo(m, s, f, v)
  BY DEF Folds
<1>2. N \in Nat /\ s \in Seq(Values)
  BY DEF Folds
<1>3. Eq(f)
  <2>1. f = [n \in 0..N |-> f[n]]
    BY <1>1 DEF MergesTo
  <2>2. \A n \in 0..N : f[n] = IF n = 0 THEN Absent ELSE Joined(m, f[n - 1], s[n])
    BY <1>1, <1>2 DEF MergesTo
  <2> QED BY <2>1, <2>2
<1>4. Eq(g)
  BY <1>3
<1>5. Coalesced(m, s) = g[N]
  BY DEF Coalesced
<1>6. \A n \in 0..N : g[n] = f[n]
  <2> DEFINE T == {n \in 0..N : g[n] = f[n]}
  <2>1. 0 \in T
    BY <1>2, <1>3, <1>4
  <2>2. ASSUME NEW n \in 1..N, n - 1 \in T PROVE n \in T
    <3>1. n \in 0..N /\ n # 0 /\ g[n - 1] = f[n - 1]
      BY <1>2, <2>2
    <3>2. g[n] = Joined(m, g[n - 1], s[n]) /\ f[n] = Joined(m, f[n - 1], s[n])
      BY <1>3, <1>4, <3>1
    <3> QED BY <3>1, <3>2
  <2> HIDE DEF T
  <2>3. 0..N \subseteq T
    BY <1>2, <2>1, <2>2, InductionUpTo
  <2> QED BY <2>3 DEF T
<1> QED BY <1>1, <1>2, <1>5, <1>6 DEF MergesTo

(* Nothing sent folds to nothing pending.                                   *)
LEMMA FoldsNothing ==
  ASSUME NEW m PROVE Folds(m, <<>>, Absent)
<1> DEFINE f == [n \in 0..0 |-> Absent]
<1>1. MergesTo(m, <<>>, f, Absent)
  BY DEF MergesTo
<1> QED BY <1>1 DEF Folds

(* One more value sent is one more merge on top of the fold.                *)
LEMMA FoldsOneMore ==
  ASSUME NEW m, NEW s, NEW v, Folds(m, s, v), NEW w \in Values,
         Joined(m, v, w) \in Values \cup {Absent}
  PROVE  Folds(m, Append(s, w), Joined(m, v, w))
<1> DEFINE N == Len(s)
           t == Append(s, w)
           u == Joined(m, v, w)
<1>1. PICK f : MergesTo(m, s, f, v)
  BY DEF Folds
<1> DEFINE g == [n \in 0..N + 1 |-> IF n = N + 1 THEN u ELSE f[n]]
<1>2. /\ N \in Nat /\ t \in Seq(Values) /\ Len(t) = N + 1 /\ t[N + 1] = w
      /\ \A n \in 1..N : t[n] = s[n]
  BY DEF Folds
<1>3. /\ f \in [0..N -> Values \cup {Absent}] /\ f[0] = Absent /\ f[N] = v
      /\ \A n \in 1..N : f[n] = Joined(m, f[n - 1], s[n])
  BY <1>1 DEF MergesTo
<1> HIDE DEF N, t, u
<1>4. g \in [0..N + 1 -> Values \cup {Absent}] /\ g[0] = Absent /\ g[N + 1] = u
  BY <1>2, <1>3 DEF u
<1>5. ASSUME NEW n \in 1..N + 1 PROVE g[n] = Joined(m, g[n - 1], t[n])
  <2>1. CASE n = N + 1
    <3>1. g[n] = u /\ g[n - 1] = v /\ t[n] = w
      BY <1>2, <1>3, <2>1
    <3> QED BY <3>1 DEF u
  <2>2. CASE n \in 1..N
    <3>1. g[n] = f[n] /\ g[n - 1] = f[n - 1] /\ t[n] = s[n]
      BY <1>2, <2>2
    <3> QED BY <1>3, <2>2, <3>1
  <2> QED BY <1>2, <2>1, <2>2
<1>6. MergesTo(m, t, g, u)
  <2> HIDE DEF g
  <2> QED BY <1>2, <1>4, <1>5 DEF MergesTo
<1> QED BY <1>2, <1>6 DEF Folds, t, u

-----------------------------------------------------------------------------
(* What a send makes of a slot. *)
LEMMA EnqueueJoins ==
  ASSUME NEW m \in Merges, NEW k \in Keys, NEW v \in Values, NEW b, GoodQueue(b),
         ~MergePanics(b, k, v, m)
  PROVE  /\ Enqueue(b, k, v, m).pending
               = [b.pending EXCEPT ![k] = Joined(m, @, v)]
         /\ Joined(m, b.pending[k], v) \in Values \cup {Absent}
<1>1. /\ b.pending \in [Keys -> Values \cup {Absent}]
      /\ k \in b.elems <=> b.pending[k] # Absent
      /\ Absent \notin Values /\ Drop \notin Values
      /\ DOMAIN b = {"order", "elems", "pending"}
  BY ConflateQueueAssumption DEF GoodQueue, Coherent, Queues
<1>2. CASE k \notin b.elems
  <2>1. Joined(m, b.pending[k], v) = v
    BY <1>1, <1>2 DEF Joined
  <2> QED BY <1>1, <1>2, <2>1 DEF Enqueue, PushBack
<1>3. CASE k \in b.elems
  <2>1. /\ b.pending[k] \in Values /\ Merged(b, k, v, m) = m[b.pending[k], v]
        /\ m[b.pending[k], v] \in Values \cup {Drop}
    BY <1>1, <1>3 DEF MergePanics, Merged, Merges
  <2>2. Joined(m, b.pending[k], v)
          = IF m[b.pending[k], v] = Drop THEN Absent ELSE m[b.pending[k], v]
    BY <1>1, <2>1 DEF Joined
  <2>3. CASE m[b.pending[k], v] = Drop
    BY <1>1, <1>3, <2>1, <2>2, <2>3 DEF Enqueue, Annihilate
  <2>4. CASE m[b.pending[k], v] # Drop
    <3>1. Enqueue(b, k, v, m) = Replace(b, k, m[b.pending[k], v])
      BY <1>3, <2>1, <2>4 DEF Enqueue
    <3>2. Replace(b, k, m[b.pending[k], v]).pending
            = [b.pending EXCEPT ![k] = m[b.pending[k], v]]
      BY <1>1 DEF Replace, GoodQueue, Queues
    <3> QED BY <1>1, <2>1, <2>2, <2>4, <3>1, <3>2
  <2> QED BY <2>3, <2>4
<1> QED BY <1>2, <1>3
-----------------------------------------------------------------------------
(* A feeder that is not delivering has nothing in its hand. *)
HandInv == \A rx \in Receivers : pc[rx] # "feedDeliver" => hand[rx] = None

(* The hand is filled on the way to the delivery and empty on the way out.  *)
LEMMA NextHandInv ==
  ASSUME TypeInv, HandInv, [Next]_vars PROVE HandInv'
<1> SUFFICES ASSUME NEW rx \in Receivers, pc'[rx] # "feedDeliver"
             PROVE  hand'[rx] = None
  BY DEF HandInv
<1>0. hand \in [Receivers -> Events \cup {None}] /\ pc \in [Procs -> ClientPCs \cup FeederPCs]
  BY DEF TypeInv, TypeOK
<1>1. CASE UNCHANGED vars
  BY <1>1 DEF vars, HandInv
<1>2. ASSUME NEW c \in Clients, OfClient(c) PROVE hand'[rx] = None
  BY <1>2, ClientMoves DEF HandInv
<1>3. ASSUME NEW r \in Receivers, OfFeeder(r) PROVE hand'[rx] = None
  <2>1. CASE r # rx
    <3>1. pc'[rx] = pc[rx] /\ hand'[rx] = hand[rx]
      BY <1>3, <2>1, FeederMoves, WhoIsWho
    <3> QED BY <3>1 DEF HandInv
  <2>2. CASE r = rx
    <3>1. CASE Ranging(rx)
      BY <3>1 DEF Ranging, Chan, HandInv
    <3>2. CASE FeederOnly(rx)
      BY <1>0, <3>2 DEF FeederOnly, FeedProbe, FeedPark, FeedAbort, FeedWake, FeedDefer, HandInv
    <3>3. CASE FeedLocked(rx)
      BY <1>0, <3>3, WhoIsWho DEF FeedLocked, Goto, HandInv
    <3>4. CASE ChanReceive(rx)
      BY <1>0, <3>4 DEF ChanReceive
    <3> QED BY <1>3, <2>2, <3>1, <3>2, <3>3, <3>4 DEF OfFeeder
  <2> QED BY <2>1, <2>2
<1> QED BY <1>1, <1>2, <1>3, StepKinds

-----------------------------------------------------------------------------
(* What a step shows the auditor of one receiver: nothing; *)
Nothing(rx) == q'[rx] = q[rx] /\ Senders(rx) = {} /\ Leaving(rx) = {}

(* a send that reaches it; *)
Reached(rx) ==
  \E c \in Clients :
    LET k == msg[c].key
        v == msg[c].val
    IN  /\ Senders(rx) = {c} /\ Leaving(rx) = {} /\ msg[c] \in Events
        /\ ~MergePanics(q[rx], k, v, PolicyOf(rx))
        /\ q'[rx] = Enqueue(q[rx], k, v, PolicyOf(rx))

(* or events that leave it. *)
Took(rx) ==
  /\ Senders(rx) = {} /\ q[rx].order # <<>>
  /\ \/ Leaving(rx) = {HeadEvent(q[rx])} /\ q'[rx] = Popped(q[rx])
     \/ Leaving(rx) = Range(AllEvents(q[rx])) /\ q'[rx] = PoppedAll(q[rx])

Shown(rx) == Nothing(rx) \/ Reached(rx) \/ Took(rx)

(* In a step of the client c only c sends or reads. *)
LEMMA ClientShows ==
  ASSUME TypeInv, NEW c \in Clients, OfClient(c), NEW rx \in Receivers
  PROVE  /\ Senders(rx) \subseteq {c} /\ ReadersOf(rx) \subseteq {c}
         /\ Leaving(rx) = UNION {Range(ret'[d].evs) : d \in ReadersOf(rx)}
<1>1. UNCHANGED hand /\ \A d \in Clients \ {c} : pc'[d] = pc[d]
  BY ClientMoves
<1>2. Senders(rx) \subseteq {c} /\ ReadersOf(rx) \subseteq {c}
  BY <1>1 DEF Senders, ReadersOf
<1>3. {ev \in {hand'[rx]} \ {None} : hand[rx] = None} = {}
  BY <1>1
<1> QED BY <1>2, <1>3 DEF Leaving

(* A feeder's step shows an event only when it takes one from the backlog.  *)
LEMMA FeederShows ==
  ASSUME TypeInv, HandInv, NEW r \in Receivers, OfFeeder(r), NEW rx \in Receivers
  PROVE  Shown(rx)
<1>1. \A c \in Clients : pc'[c] = pc[c]
  BY FeederMoves, WhoIsWho
<1>2. Senders(rx) = {} /\ ReadersOf(rx) = {}
  BY <1>1 DEF Senders, ReadersOf
<1>3. Leaving(rx) = {ev \in {hand'[rx]} \ {None} : hand[rx] = None}
  <2>1. UNION {Range(ret'[c].evs) : c \in ReadersOf(rx)} = {}
    BY <1>2
  <2> DEFINE F == {ev \in {hand'[rx]} \ {None} : hand[rx] = None}
             U == UNION {Range(ret'[c].evs) : c \in ReadersOf(rx)}
  <2>2. Leaving(rx) = U \cup F
    BY DEF Leaving
  <2>3. U = {}
    BY <2>1
  <2> HIDE DEF F, U
  <2>4. Leaving(rx) = F
    BY <2>2, <2>3
  <2> QED BY <2>4 DEF F
<1>4. CASE q'[rx] = q[rx] /\ hand'[rx] \in {hand[rx], None}
  <2>1. Leaving(rx) = {}
    BY <1>3, <1>4
  <2> QED BY <1>2, <1>4, <2>1 DEF Nothing, Shown
<1>5. CASE r # rx
  <2>1. q'[rx] = q[rx] /\ hand'[rx] = hand[rx]
    BY <1>5, FeederMoves
  <2> QED BY <1>4, <2>1
<1>6. CASE r = rx
  <2>0. q \in [Receivers -> Queues] /\ hand \in [Receivers -> Events \cup {None}]
    BY DEF TypeInv, TypeOK
  <2>1. CASE Ranging(rx) \/ FeederOnly(rx) \/ ChanReceive(rx)
    <3>1. q' = q /\ (hand' = hand \/ hand' = [hand EXCEPT ![rx] = None])
      BY <2>1 DEF Ranging, Chan, FeederOnly, FeedProbe, FeedPark, FeedAbort, FeedWake,
                  FeedDefer, ChanReceive
    <3> QED BY <1>4, <2>0, <3>1
  <2>2. CASE FeedLocked(rx)
    <3>1. CASE UNCHANGED <<q, hand>>
      BY <1>4, <3>1
    <3>2. CASE /\ Verdict(rx, "none") = "value"
               /\ hand' = [hand EXCEPT ![rx] = HeadEvent(q[rx])]
               /\ q' = [q EXCEPT ![rx] = Popped(@)]
      <4>1. q[rx].order # <<>> /\ GoodQueue(q[rx])
        BY <3>2, VerdictType, GoodQueues
      <4>2. HeadEvent(q[rx]) # None
        BY <4>1, HeadEventIsEvent, AuditAssumption DEF Events
      <4>3. hand[rx] = None
        BY <2>2 DEF FeedLocked, HandInv
      <4>4. hand'[rx] = HeadEvent(q[rx]) /\ q'[rx] = Popped(q[rx])
        BY <2>0, <3>2
      <4>5. Leaving(rx) = {HeadEvent(q[rx])}
        BY <1>3, <4>2, <4>3, <4>4
      <4> QED BY <1>2, <4>1, <4>4, <4>5 DEF Took, Shown
    <3> QED BY <2>2, <3>1, <3>2 DEF FeedLocked
  <2> QED BY <1>6, <2>1, <2>2 DEF OfFeeder
<1> QED BY <1>5, <1>6

(* A client's step that leaves the backlog, and sends and reads nothing.    *)
LEMMA NothingShown ==
  ASSUME TypeInv, NEW c \in Clients, OfClient(c), NEW rx \in Receivers,
         q'[rx] = q[rx], c \notin Senders(rx),
         c \in ReadersOf(rx) => Range(ret'[c].evs) = {}
  PROVE  Shown(rx)
<1>1. Senders(rx) = {}
  BY ClientShows
<1>2. \A d \in ReadersOf(rx) : Range(ret'[d].evs) = {}
  BY ClientShows
<1>3. Leaving(rx) = {}
  BY <1>2, ClientShows
<1> QED BY <1>1, <1>3 DEF Nothing, Shown

(* A send reaches a receiver whole or not at all, also when it is refused   *)
(* or panics on the way.                                                    *)
LEMMA SendShows ==
  ASSUME TypeInv, NEW c \in Clients, SendLocked(c), NEW rx \in Receivers
  PROVE  Shown(rx)
<1> DEFINE k == msg[c].key
           v == msg[c].val
           bad == {r \in receivers : Fails(r, k, v)}
<1>0. /\ OfClient(c) /\ pc[c] = "sendLock" /\ c \notin ReadersOf(rx)
      /\ ret \in [Clients -> Results] /\ pc \in [Procs -> ClientPCs \cup FeederPCs]
      /\ c \in Procs /\ msg[c] \in Events
  BY WhoIsWho DEF SendLocked, OfClient, ReadersOf, TypeInv, TypeOK, LocalsOK, SendPCs
<1>1. ASSUME NEW a, Return(c, a) PROVE ret'[c] = a /\ pc'[c] = "idle"
  BY <1>0, <1>1 DEF Return, Goto
<1>2. Leaving(rx) = {}
  <2>1. ReadersOf(rx) = {}
    BY <1>0, ClientShows
  <2>2. UNION {Range(ret'[d].evs) : d \in ReadersOf(rx)} = {}
    BY <2>1
  <2> QED BY <1>0, <2>2, ClientShows
<1>3. ASSUME c \in Senders(rx), ~Fails(rx, k, v), Takes(rx, k),
             q'[rx] = Enqueue(q[rx], k, v, PolicyOf(rx))
      PROVE  Shown(rx)
  <2>1. Senders(rx) = {c}
    BY <1>0, <1>3, ClientShows
  <2>2. ~MergePanics(q[rx], k, v, PolicyOf(rx))
    BY <1>3 DEF Fails
  <2>3. Reached(rx)
    BY <1>0, <1>2, <1>3, <2>1, <2>2 DEF Reached
  <2> QED BY <2>3 DEF Shown
<1>4. ASSUME c \notin Senders(rx), q'[rx] = q[rx] PROVE Shown(rx)
  BY <1>0, <1>4, NothingShown
<1>5. CASE SendRefused(c) # "nil" /\ Return(c, Result(SendRefused(c), <<>>)) /\ UNCHANGED q
  <2>1. ret'[c].err \notin {"nil", "panic"}
    BY <1>1, <1>5 DEF Result, SendRefused
  <2> QED BY <1>4, <1>5, <2>1 DEF Senders
<1>6. CASE bad = {} /\ FanOut(receivers, k, v) /\ Return(c, Ok)
  <2>1. pc'[c] = "idle" /\ ret'[c].err = "nil"
    BY <1>1, <1>6 DEF Ok, Result
  <2>2. CASE rx \in receivers /\ Takes(rx, k)
    <3>1. c \in Senders(rx) /\ ~Fails(rx, k, v)
      BY <1>0, <1>6, <2>1, <2>2 DEF Senders
    <3>2. q'[rx] = Enqueue(q[rx], k, v, PolicyOf(rx))
      BY <1>6, <2>2 DEF FanOut
    <3> QED BY <1>3, <2>2, <3>1, <3>2
  <2>3. CASE ~(rx \in receivers /\ Takes(rx, k))
    <3>1. c \notin Senders(rx)
      BY <2>1, <2>3 DEF Senders
    <3>2. q'[rx] = q[rx]
      BY <1>6, <2>3 DEF FanOut
    <3> QED BY <1>4, <3>1, <3>2
  <2> QED BY <2>2, <2>3
<1>7. ASSUME NEW R \in SUBSET (receivers \ bad), FanOut(R, k, v),
             Return(c, Result("panic", <<>>))
      PROVE  Shown(rx)
  <2>1. pc'[c] = "idle" /\ ret'[c].err = "panic"
    BY <1>1, <1>7 DEF Result
  <2>2. CASE q'[rx] = q[rx]
    <3>1. c \notin Senders(rx)
      BY <2>1, <2>2 DEF Senders
    <3> QED BY <1>4, <2>2, <3>1
  <2>3. CASE q'[rx] # q[rx]
    <3>1. rx \in R /\ Takes(rx, k) /\ q'[rx] = Enqueue(q[rx], k, v, PolicyOf(rx))
      BY <1>7, <2>3 DEF FanOut
    <3>2. c \in Senders(rx) /\ ~Fails(rx, k, v)
      BY <1>0, <1>7, <2>1, <2>3, <3>1 DEF Senders
    <3> QED BY <1>3, <3>1, <3>2
  <2> QED BY <2>2, <2>3
<1> QED BY <1>5, <1>6, <1>7 DEF SendLocked

(* An answer without events takes nothing; one with events takes them. *)
LEMMA ReadShows ==
  ASSUME TypeInv, NEW c \in Clients, Reading(c), NEW rx \in Receivers
  PROVE  Shown(rx)
<1>0. /\ OfClient(c) /\ c \in Procs /\ tgt[c] \in Receivers
      /\ pc[c] \in {"recvLock", "tryRecvLock", "tryRecvAllLock", "peekLock"}
      /\ ret \in [Clients -> Results] /\ pc \in [Procs -> ClientPCs \cup FeederPCs]
      /\ q \in [Receivers -> Queues]
  BY WhoIsWho DEF OfClient, Reading, RecvLocked, TryLocked, TryOps, TryPC, TypeInv,
                  TypeOK, LocalsOK, ReadPCs
<1>1. c \notin Senders(rx) /\ Senders(rx) = {}
  BY <1>0, ClientShows DEF Senders
<1>2. ASSUME NEW a, Return(c, a) PROVE ret'[c] = a /\ pc'[c] = "idle"
  BY <1>0, <1>2 DEF Return, Goto
<1>3. ASSUME NEW err, Return(c, Result(err, <<>>)), q' = q PROVE Shown(rx)
  <2>1. Range(ret'[c].evs) = {}
    BY <1>2, <1>3 DEF Result, Range
  <2> QED BY <1>0, <1>1, <1>3, <2>1, NothingShown
<1>4. ASSUME c \notin ReadersOf(rx), q'[rx] = q[rx] PROVE Shown(rx)
  BY <1>0, <1>1, <1>4, NothingShown
<1>5. ASSUME pc[c] # "peekLock", NEW x, Verdict(tgt[c], x) = "value",
             NEW evs, NEW b, Return(c, Result("nil", evs)), q' = [q EXCEPT ![tgt[c]] = b],
             \/ evs = <<HeadEvent(q[tgt[c]])>> /\ b = Popped(q[tgt[c]])
             \/ evs = AllEvents(q[tgt[c]]) /\ b = PoppedAll(q[tgt[c]])
      PROVE  Shown(rx)
  <2>1. CASE rx # tgt[c]
    <3>1. c \notin ReadersOf(rx) /\ q'[rx] = q[rx]
      BY <1>0, <1>5, <2>1 DEF ReadersOf
    <3> QED BY <1>4, <3>1
  <2>2. CASE rx = tgt[c]
    <3>1. pc'[c] = "idle" /\ ret'[c].evs = evs /\ q'[rx] = b
      BY <1>0, <1>2, <1>5, <2>2 DEF Result
    <3>2. ReadersOf(rx) = {c}
      BY <1>0, <1>5, <2>2, <3>1, ClientShows DEF ReadersOf
    <3>3. Leaving(rx) = Range(evs)
      <4>1. {Range(ret'[d].evs) : d \in ReadersOf(rx)} = {Range(evs)}
        BY <3>1, <3>2
      <4>2. Leaving(rx) = UNION {Range(evs)}
        BY <1>0, <4>1, ClientShows
      <4> QED BY <4>2
    <3>4. q[rx].order # <<>>
      BY <1>5, <2>2, VerdictType
    <3>5. Range(<<HeadEvent(q[rx])>>) = {HeadEvent(q[rx])}
      BY DEF Range
    <3>6. Took(rx)
      BY <1>1, <1>5, <2>2, <3>1, <3>3, <3>4, <3>5 DEF Took
    <3> QED BY <3>6 DEF Shown
  <2> QED BY <2>1, <2>2
<1>6. CASE RecvLocked(c)
  <2>1. CASE Verdict(tgt[c], ctx[c]) = "value"
    <3>1. /\ pc[c] = "recvLock" /\ q' = [q EXCEPT ![tgt[c]] = Popped(q[tgt[c]])]
          /\ Return(c, Result("nil", <<HeadEvent(q[tgt[c]])>>))
      BY <1>6, <2>1 DEF RecvLocked, RecvAnswer
    <3> QED BY <1>5, <2>1, <3>1
  <2>2. CASE Verdict(tgt[c], ctx[c]) # "value"
    <3>1. /\ q' = q
          /\ \/ Return(c, Result("ErrClosed", <<>>))
             \/ Return(c, Result("ctx.Err", <<>>))
      BY <1>6, <2>2, VerdictType DEF RecvLocked, RecvAnswer
    <3> QED BY <1>3, <3>1
  <2> QED BY <2>1, <2>2
<1>7. ASSUME NEW op \in TryOps, TryLocked(c, op) PROVE Shown(rx)
  <2>1. CASE Verdict(tgt[c], "none") = "value"
    <3>1. /\ pc[c] = TryPC(op) /\ Return(c, Result("nil", TryEvents(tgt[c], op)))
          /\ q' = [q EXCEPT ![tgt[c]] = TryLeaves(tgt[c], op)]
      BY <1>7, <2>1 DEF TryLocked
    <3>2. CASE op = "Peek"
      <4>1. c \notin ReadersOf(rx) /\ q' = q
        BY <1>0, <3>1, <3>2 DEF TryPC, TryLeaves, ReadersOf
      <4> QED BY <1>4, <4>1
    <3>3. CASE op = "TryRecv"
      <4>1. pc[c] # "peekLock"
        BY <3>1, <3>3 DEF TryPC
      <4> QED BY <1>5, <2>1, <3>1, <3>3, <4>1 DEF TryEvents, TryLeaves
    <3>4. CASE op = "TryRecvAll"
      <4>1. pc[c] # "peekLock"
        BY <3>1, <3>4 DEF TryPC
      <4> QED BY <1>5, <2>1, <3>1, <3>4, <4>1 DEF TryEvents, TryLeaves
    <3> QED BY <3>2, <3>3, <3>4 DEF TryOps
  <2>2. CASE Verdict(tgt[c], "none") # "value"
    <3>1. /\ q' = q
          /\ \/ Return(c, Result("ErrClosed", <<>>))
             \/ Return(c, Result("ErrEmpty", <<>>))
      BY <1>7, <2>2 DEF TryLocked
    <3> QED BY <1>3, <3>1
  <2> QED BY <2>1, <2>2
<1> QED BY <1>6, <1>7 DEF Reading

(* No other step of a client shows the auditor anything.                    *)
LEMMA OtherShows ==
  ASSUME TypeInv, NEW c \in Clients, NEW rx \in Receivers,
         QuietStep(c) \/ Minting(c) \/ Closing(c) \/ ParkingOnly(c)
  PROVE  Shown(rx)
<1>0. OfClient(c)
  BY DEF OfClient
<1>1. q' = q
  BY DEF QuietStep, CallSend, CallRecv, CallTry, SendCtx, Cancel, Minting, NewReceiver,
         Closing, CloseSender, CloseHub, CloseHubEnd, CloseHubDone, CloseReceiver,
         ParkingOnly, RecvPark, RecvWake, RecvDefer
<1>2. \/ pc[c] \notin {"sendLock", "recvLock", "tryRecvLock", "tryRecvAllLock"}
      \/ pc'[c] # "idle"
  <2>0. pc \in [Procs -> ClientPCs \cup FeederPCs] /\ c \in Procs
    BY WhoIsWho DEF TypeInv, TypeOK
  <2>1. CASE QuietStep(c)
    BY <2>1 DEF QuietStep, CallSend, CallRecv, CallTry, SendCtx, Cancel, Idle
  <2>2. CASE Minting(c)
    BY <2>2 DEF Minting, NewReceiver, Idle
  <2>3. CASE Closing(c)
    BY <2>3 DEF Closing, CloseSender, CloseHub, CloseHubEnd, CloseHubDone, CloseReceiver, Idle
  <2>4. CASE ParkingOnly(c)
    BY <2>0, <2>4 DEF ParkingOnly, RecvPark, RecvWake, RecvDefer, Goto
  <2> QED BY <2>1, <2>2, <2>3, <2>4
<1>3. c \notin Senders(rx) /\ c \notin ReadersOf(rx)
  BY <1>2 DEF Senders, ReadersOf
<1> QED BY <1>0, <1>1, <1>3, NothingShown

(* What any step shows the auditor of a receiver.                           *)
LEMMA StepShows ==
  ASSUME TypeInv, HandInv, [Next]_vars, NEW rx \in Receivers PROVE Shown(rx)
<1>1. CASE UNCHANGED vars
  <2>1. /\ q'[rx] = q[rx] /\ hand'[rx] = hand[rx]
        /\ Senders(rx) = {} /\ ReadersOf(rx) = {}
    BY <1>1 DEF vars, Senders, ReadersOf
  <2>2. UNION {Range(ret'[c].evs) : c \in ReadersOf(rx)} = {}
    BY <2>1
  <2>3. {ev \in {hand'[rx]} \ {None} : hand[rx] = None} = {}
    BY <2>1
  <2>4. Leaving(rx) = {}
    BY <2>2, <2>3 DEF Leaving
  <2> QED BY <2>1, <2>4 DEF Nothing, Shown
<1>2. ASSUME NEW c \in Clients, OfClient(c) PROVE Shown(rx)
  BY <1>2, SendShows, ReadShows, OtherShows DEF OfClient
<1>3. ASSUME NEW r \in Receivers, OfFeeder(r) PROVE Shown(rx)
  BY <1>3, FeederShows
<1> QED BY <1>1, <1>2, <1>3, StepKinds
-----------------------------------------------------------------------------
(* The ledger of every key folds to what is pending, and a key with nothing *)
(* pending has an empty one. *)
LedgerInv ==
  \A rx \in Receivers, k \in Keys :
    /\ Folds(PolicyOf(rx), ledger[rx][k], q[rx].pending[k])
    /\ q[rx].pending[k] = Absent => ledger[rx][k] = <<>>

AuditInv == TypeInv /\ CallInv /\ HandInv /\ LedgerInv

(* What has entered the ledger of a key folds to what the slot would hold   *)
(* if nothing left. *)
LEMMA EnteredFolds ==
  ASSUME AuditInv, NEW rx \in Receivers, Shown(rx), NEW k \in Keys
  PROVE  /\ ~Took(rx) => Folds(PolicyOf(rx), Entered(rx, k), q'[rx].pending[k])
         /\ Took(rx) => Entered(rx, k) = ledger[rx][k]
<1> DEFINE m == PolicyOf(rx)
<1>0. /\ GoodQueue(q[rx]) /\ m \in Merges /\ q[rx].pending \in [Keys -> Values \cup {Absent}]
      /\ Folds(m, ledger[rx][k], q[rx].pending[k])
  BY GoodQueues, ConflateAssumption DEF AuditInv, LedgerInv, PolicyOf, TypeInv, TypeOK,
     GoodQueue, Queues
<1>1. CASE Nothing(rx) \/ Took(rx)
  <2>1. {c \in Senders(rx) : msg[c].key = k} = {}
    BY <1>1 DEF Nothing, Took
  <2>2. Entered(rx, k) = ledger[rx][k]
    BY <2>1 DEF Entered
  <2> QED BY <1>0, <1>1, <2>2 DEF Nothing
<1>2. CASE Reached(rx)
  <2>1. PICK c \in Clients :
          /\ Senders(rx) = {c} /\ Leaving(rx) = {} /\ msg[c] \in Events
          /\ ~MergePanics(q[rx], msg[c].key, msg[c].val, m)
          /\ q'[rx] = Enqueue(q[rx], msg[c].key, msg[c].val, m)
    BY <1>2 DEF Reached
  <2> DEFINE j == msg[c].key
             v == msg[c].val
  <2>2. j \in Keys /\ v \in Values
    BY <2>1 DEF Events
  <2> HIDE DEF m, j, v
  <2>3. /\ q'[rx].pending = [q[rx].pending EXCEPT ![j] = Joined(m, @, v)]
        /\ Joined(m, q[rx].pending[j], v) \in Values \cup {Absent}
    BY <1>0, <2>1, <2>2, EnqueueJoins DEF j, v
  <2>4. CASE j # k
    <3>1. {d \in Senders(rx) : msg[d].key = k} = {}
      BY <2>1, <2>4 DEF j
    <3>2. Entered(rx, k) = ledger[rx][k]
      BY <3>1 DEF Entered
    <3>3. q'[rx].pending[k] = q[rx].pending[k]
      BY <1>0, <2>3, <2>4
    <3>4. ~Took(rx)
      BY <2>1 DEF Took
    <3> QED BY <1>0, <3>2, <3>3, <3>4 DEF m
  <2>5. CASE j = k
    <3>1. {d \in Senders(rx) : msg[d].key = k} = {c}
      BY <2>1, <2>5 DEF j
    <3>2. (CHOOSE d \in {c} : TRUE) = c
      OBVIOUS
    <3>3. Entered(rx, k) = Append(ledger[rx][k], v)
      BY <3>1, <3>2 DEF Entered, v
    <3>4. q'[rx].pending[k] = Joined(m, q[rx].pending[k], v)
      BY <1>0, <2>2, <2>3, <2>5
    <3>5. Folds(m, Entered(rx, k), q'[rx].pending[k])
      BY <1>0, <2>2, <2>3, <2>5, <3>3, <3>4, FoldsOneMore
    <3>6. ~Took(rx)
      BY <2>1 DEF Took
    <3> QED BY <3>5, <3>6 DEF m
  <2> QED BY <2>4, <2>5
<1> QED BY <1>1, <1>2 DEF Shown

TakenFrom(L, b, r) ==
  /\ \A ev \in L : ev.key \in Keys /\ ev.val = b.pending[ev.key]
  /\ \A k \in Keys : r.pending[k] = IF \E ev \in L : ev.key = k THEN Absent
                                   ELSE b.pending[k]

(* The events that leave carry the value of their slot, and the slots of    *)
(* their keys, and no others, are empty then. *)
LEMMA TookSlots ==
  ASSUME NEW b, GoodQueue(b), b.order # <<>>,
         NEW L, NEW r,
         \/ L = {HeadEvent(b)} /\ r = Popped(b)
         \/ L = Range(AllEvents(b)) /\ r = PoppedAll(b)
  PROVE  TakenFrom(L, b, r)
<1> USE DEF TakenFrom
<1>0. /\ b.pending \in [Keys -> Values \cup {Absent}] /\ b.order \in Seq(Keys)
      /\ b.elems \subseteq Keys /\ b.elems = {k \in Keys : b.pending[k] # Absent}
      /\ Range(b.order) = b.elems /\ Len(b.order) \in Nat
  BY DEF GoodQueue, Queues, Coherent
<1>1. CASE L = {HeadEvent(b)} /\ r = Popped(b)
  <2>1. Head(b.order) \in Keys
    BY <1>0
  <2>2. /\ HeadEvent(b).key = Head(b.order) /\ HeadEvent(b).val = b.pending[Head(b.order)]
        /\ Popped(b).pending = [b.pending EXCEPT ![Head(b.order)] = Absent]
    BY DEF HeadEvent, Event, Popped
  <2> QED BY <1>0, <1>1, <2>1, <2>2
<1>2. CASE L = Range(AllEvents(b)) /\ r = PoppedAll(b)
  <2>1. /\ \A ev \in L : ev.key \in b.elems /\ ev.val = b.pending[ev.key]
        /\ \A k \in b.elems : \E ev \in L : ev.key = k
    <3>1. L = {Event(b.order[i], b.pending[b.order[i]]) : i \in 1..Len(b.order)}
      BY <1>0, <1>2 DEF AllEvents, Range
    <3>2. b.elems = {b.order[i] : i \in 1..Len(b.order)}
      BY <1>0 DEF Range
    <3>3. \A i \in 1..Len(b.order) :
            LET ev == Event(b.order[i], b.pending[b.order[i]])
            IN  ev.key = b.order[i] /\ ev.val = b.pending[b.order[i]]
      BY DEF Event
    <3>4. ASSUME NEW ev \in L PROVE ev.key \in b.elems /\ ev.val = b.pending[ev.key]
      BY <3>1, <3>2, <3>3
    <3>5. ASSUME NEW k \in b.elems PROVE \E ev \in L : ev.key = k
      <4>1. PICK i \in 1..Len(b.order) : b.order[i] = k
        BY <3>2
      <4>2. Event(b.order[i], b.pending[b.order[i]]) \in L
        BY <3>1
      <4> QED BY <3>3, <4>1, <4>2
    <3> QED BY <3>4, <3>5
  <2>2. \A k \in Keys : r.pending[k] = Absent
    BY <1>2 DEF PoppedAll
  <2> QED BY <1>0, <2>1, <2>2
<1> QED BY <1>1, <1>2

(* The same for what a step takes of a receiver.                            *)
LEMMA TookIs ==
  ASSUME AuditInv, NEW rx \in Receivers, Took(rx)
  PROVE  TakenFrom(Leaving(rx), q[rx], q'[rx])
<1> DEFINE b == q[rx]
           r == q'[rx]
           L == Leaving(rx)
<1>1. GoodQueue(b) /\ b.order # <<>>
  BY GoodQueues DEF AuditInv, Took
<1>2. \/ L = {HeadEvent(b)} /\ r = Popped(b)
      \/ L = Range(AllEvents(b)) /\ r = PoppedAll(b)
  BY DEF Took
<1> HIDE DEF b, r, L
<1>3. TakenFrom(L, b, r)
  BY <1>1, <1>2, TookSlots
<1> QED BY <1>3 DEF b, r, L

(* An event leaves with the values in the ledger of its key.                *)
LEMMA LeavesAccounted ==
  ASSUME AuditInv, NEW rx \in Receivers, Shown(rx), NEW ev \in Leaving(rx)
  PROVE  ev.val = Coalesced(PolicyOf(rx), ledger[rx][ev.key])
<1>1. Took(rx)
  BY DEF Shown, Nothing, Reached
<1>2. ev.key \in Keys /\ ev.val = q[rx].pending[ev.key]
  BY <1>1, TookIs DEF TakenFrom
<1>3. Folds(PolicyOf(rx), ledger[rx][ev.key], q[rx].pending[ev.key])
  BY <1>2 DEF AuditInv, LedgerInv
<1> QED BY <1>2, <1>3, FoldsIs

(* The ledger of a key follows its slot.                                    *)
LEMMA LedgerStep ==
  ASSUME AuditInv, NEW rx \in Receivers, Shown(rx), NEW k \in Keys
  PROVE  /\ Folds(PolicyOf(rx), Audited(rx)[k], q'[rx].pending[k])
         /\ q'[rx].pending[k] = Absent => Audited(rx)[k] = <<>>
<1> DEFINE m == PolicyOf(rx)
           gone == \E ev \in Leaving(rx) : ev.key = k
<1>0. Audited(rx)[k] = IF gone \/ Coalesced(m, Entered(rx, k)) = Absent
                       THEN <<>> ELSE Entered(rx, k)
  BY DEF Audited
<1>1. CASE Took(rx)
  <2>1. q'[rx].pending[k] = IF gone THEN Absent ELSE q[rx].pending[k]
    BY <1>1, TookIs DEF TakenFrom
  <2>2. Folds(m, ledger[rx][k], q[rx].pending[k])
    BY DEF AuditInv, LedgerInv
  <2>3. Coalesced(m, ledger[rx][k]) = q[rx].pending[k]
    BY <2>2, FoldsIs
  <2>4. Entered(rx, k) = ledger[rx][k]
    BY <1>1, EnteredFolds
  <2>5. CASE gone \/ q[rx].pending[k] = Absent
    BY <1>0, <2>1, <2>3, <2>4, <2>5, FoldsNothing
  <2>6. CASE ~gone /\ q[rx].pending[k] # Absent
    BY <1>0, <2>1, <2>2, <2>3, <2>4, <2>6
  <2> QED BY <2>5, <2>6
<1>2. CASE ~Took(rx)
  <2>1. ~gone
    BY <1>2 DEF Shown, Nothing, Reached
  <2>2. Folds(m, Entered(rx, k), q'[rx].pending[k])
    BY <1>2, EnteredFolds
  <2>3. Coalesced(m, Entered(rx, k)) = q'[rx].pending[k]
    BY <2>2, FoldsIs
  <2>4. CASE q'[rx].pending[k] = Absent
    BY <1>0, <2>1, <2>3, <2>4, FoldsNothing
  <2>5. CASE q'[rx].pending[k] # Absent
    BY <1>0, <2>1, <2>2, <2>3, <2>5
  <2> QED BY <2>4, <2>5
<1> QED BY <1>1, <1>2

(* What a receiver merges with is fixed before anything is pending in it.   *)
LEMMA PolicyFixed ==
  ASSUME TypeInv, CallInv, [Next]_vars, NEW rx \in Receivers
  PROVE  \/ PolicyOf(rx)' = PolicyOf(rx)
         \/ \A k \in Keys : q'[rx].pending[k] = Absent
<1>1. merge'[rx] = merge[rx] \/ (rx \notin minted /\ q' = q)
  <2>1. CASE UNCHANGED merge
    BY <2>1
  <2>2. ASSUME NEW c \in Clients, NEW r \in Receivers, NEW f \in Filters,
               NEW m \in OwnMerges, NewReceiver(c, r, f, m)
        PROVE  merge'[rx] = merge[rx] \/ (rx \notin minted /\ q' = q)
    BY <2>2 DEF NewReceiver, TypeInv, TypeOK
  <2> QED
    BY <2>1, <2>2
       DEF Next, Call, ClientStep, FeederStep, vars, handleVars, CallSend, CloseSender,
           CloseHub, CloseHubDone, CloseHubEnd, CloseReceiver, Chan, CallRecv, CallTry,
           Cancel, SendCtx, SendLocked, RecvLocked, TryLocked, RecvPark, RecvWake,
           RecvDefer, FeedProbe, FeedLocked, FeedPark, FeedAbort, FeedWake, FeedDefer,
           ChanReceive
<1>2. CASE merge'[rx] = merge[rx]
  BY <1>2 DEF PolicyOf
<1>3. CASE rx \notin minted /\ q' = q
  <2>1. GoodQueue(q[rx]) /\ q[rx].order = <<>>
    BY <1>3, GoodQueues DEF CallInv
  <2>2. q[rx].elems = {}
    BY <2>1 DEF GoodQueue, Coherent, Range
  <2> QED BY <1>3, <2>1, <2>2 DEF GoodQueue, Coherent
<1> QED BY <1>1, <1>2, <1>3

(* Before anything is sent every ledger is empty and nothing is pending.    *)
LEMMA InitAuditInv == AuditInit => AuditInv
<1> SUFFICES ASSUME AuditInit PROVE AuditInv
  OBVIOUS
<1>1. TypeInv /\ CallInv
  BY InitTypeInv, InitCallInv DEF AuditInit
<1>2. HandInv
  BY DEF AuditInit, Init, HandInv
<1>3. ASSUME NEW rx \in Receivers, NEW k \in Keys
      PROVE  ledger[rx][k] = <<>> /\ q[rx].pending[k] = Absent
  BY DEF AuditInit, Init, EmptyQueue
<1>4. LedgerInv
  BY <1>3, FoldsNothing DEF LedgerInv
<1> QED BY <1>1, <1>2, <1>4 DEF AuditInv

(* A step of the bus, with the auditor's, preserves what it relies on and   *)
(* accounts for what it takes and leaves.                                   *)
LEMMA NextAuditInv ==
  ASSUME AuditInv, [AuditNext]_auditVars
  PROVE  /\ AuditInv'
         /\ AuditNext =>
              \A rx \in Receivers :
                /\ \A ev \in Leaving(rx) :
                     ev.val = Coalesced(PolicyOf(rx), ledger[rx][ev.key])
                /\ \A k \in Keys :
                     q'[rx].pending[k] = Coalesced(PolicyOf(rx), ledger'[rx][k])
<1>0. TypeInv /\ CallInv /\ HandInv /\ LedgerInv /\ [Next]_vars
  BY DEF AuditInv, AuditNext, auditVars
<1>1. TypeInv' /\ CallInv' /\ HandInv'
  BY <1>0, NextTypeInv, NextCallInv, NextHandInv
<1>2. CASE AuditNext
  <2>1. ASSUME NEW rx \in Receivers, NEW k \in Keys
        PROVE  /\ Folds(PolicyOf(rx), ledger'[rx][k], q'[rx].pending[k])
               /\ q'[rx].pending[k] = Absent => ledger'[rx][k] = <<>>
    <3>1. ledger'[rx][k] = Audited(rx)[k]
      BY <1>2 DEF AuditNext
    <3> QED BY <1>0, <3>1, StepShows, LedgerStep
  <2>2. ASSUME NEW rx \in Receivers, NEW k \in Keys
        PROVE  Folds(PolicyOf(rx)', ledger'[rx][k], q'[rx].pending[k])
    <3>1. CASE PolicyOf(rx)' = PolicyOf(rx)
      BY <2>1, <3>1
    <3>2. CASE q'[rx].pending[k] = Absent
      BY <2>1, <3>2, FoldsNothing
    <3> QED BY <1>0, <3>1, <3>2, PolicyFixed
  <2>3. LedgerInv'
    BY <2>1, <2>2 DEF LedgerInv
  <2>4. ASSUME NEW rx \in Receivers, NEW ev \in Leaving(rx)
        PROVE  ev.val = Coalesced(PolicyOf(rx), ledger[rx][ev.key])
    BY <1>0, StepShows, LeavesAccounted
  <2>5. ASSUME NEW rx \in Receivers, NEW k \in Keys
        PROVE  q'[rx].pending[k] = Coalesced(PolicyOf(rx), ledger'[rx][k])
    BY <2>1, FoldsIs
  <2> QED BY <1>1, <2>3, <2>4, <2>5 DEF AuditInv
<1>3. CASE UNCHANGED auditVars /\ ~AuditNext
  <2>1. LedgerInv'
    <3>1. UNCHANGED <<q, merge, ledger>>
      BY <1>3 DEF auditVars, vars, handleVars
    <3> QED BY <1>0, <3>1 DEF LedgerInv, PolicyOf
  <2> QED BY <1>1, <1>3, <2>1 DEF AuditInv
<1> QED BY <1>2, <1>3

(* Every send is accounted for, once: an event that leaves a receiver, by   *)
(* Recv, TryRecv, TryRecvAll or through its channel, is the merge, in the   *)
(* order they were answered, of the values sent of its key since the last   *)
(* one left or cancelled out, and what stays pending is the merge of those  *)
(* not yet read.  A refused send, a merge or filter that panics half-way    *)
(* through the fan-out, a close and a receiver made in between lose none of *)
(* them and count none twice (enqueueLocked, popLocked, popAllLocked and the *)
(* feeder of conflate.go).                                                  *)
THEOREM EachSendIsAccounted == AuditSpec => EachSendAccounted
<1> DEFINE Accounted ==
      \A rx \in Receivers :
        /\ \A ev \in Leaving(rx) :
             ev.val = Coalesced(PolicyOf(rx), ledger[rx][ev.key])
        /\ \A k \in Keys :
             q'[rx].pending[k] = Coalesced(PolicyOf(rx), ledger'[rx][k])
<1>1. AuditInv /\ [AuditNext]_auditVars => AuditInv' /\ [Accounted]_auditVars
  BY NextAuditInv
<1> HIDE DEF Accounted
<1>2. AuditSpec => [][Accounted]_auditVars
  BY <1>1, InitAuditInv, PTL DEF AuditSpec
<1> QED BY <1>2 DEF EachSendAccounted, Accounted
=============================================================================
