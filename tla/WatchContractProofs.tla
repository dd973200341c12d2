------------------------- MODULE WatchContractProofs -------------------------
(***************************************************************************)
(* The watch bus implements BusContract, for any number of clients and     *)
(* receivers, any keys, values and Accept: each step of Watch is, under    *)
(* the mapping of Watch!Contract, one action of the contract or none.      *)
(***************************************************************************)
EXTENDS WatchProofs

(* The contract says nothing of a program that reads a handle beside its    *)
(* channel: directly (Mixes), or by a Peek, which may then show a value     *)
(* that has been handed over.                                               *)
ReadsOneWay ==
  /\ ~Mixes
  /\ (\A c \in Clients : "Peek" \notin May[c]) \/ (\A c \in Clients : "Chan" \notin May[c])

-----------------------------------------------------------------------------
(* Calls: what a step of a goroutine does to CallsOf and AnswerOf. *)

SendKey(c) == IF Sends(c) THEN msg[c][1] ELSE None

(* The fields of a client's call in the contract.                           *)
LEMMA CallIs ==
  ASSUME NEW c \in Clients
  PROVE  /\ CallsOf[c].op = OpOf(pc[c]) /\ CallsOf[c].rx = tgt[c]
         /\ CallsOf[c].key = SendKey(c) /\ CallsOf[c].ctx = ctx[c]
         /\ CallsOf[c] = [op |-> OpOf(pc[c]), rx |-> tgt[c], key |-> SendKey(c),
                          ctx |-> ctx[c]]
BY DEF CallsOf, CallOf, OpOf, SendKey

(* Only the entry of c changes. *)
LEMMA CallsStep ==
  ASSUME NEW c \in Clients,
         \A d \in Clients \ {c} : UNCHANGED <<pc[d], tgt[d], msg[d], ctx[d]>>
  PROVE  CallsOf' = [CallsOf EXCEPT ![c] =
                       [op |-> OpOf(pc'[c]), rx |-> tgt'[c], key |-> SendKey(c)',
                        ctx |-> ctx'[c]]]
<1> DEFINE rec(d) == [op |-> OpOf(pc[d]), rx |-> tgt[d], key |-> SendKey(d),
                      ctx |-> ctx[d]]
<1>1. CallsOf = [d \in Clients |-> rec(d)]
  BY DEF CallsOf, CallOf, OpOf, SendKey
<1>2. CallsOf' = [d \in Clients |-> rec(d)']
  BY DEF CallsOf, CallOf, OpOf, SendKey
<1>3. \A d \in Clients \ {c} : rec(d)' = rec(d)
  BY DEF SendKey, Sends
<1> HIDE DEF rec
<1>4. CallsOf' = [CallsOf EXCEPT ![c] = rec(c)']
  BY <1>1, <1>2, <1>3
<1> QED BY <1>4 DEF rec

(* A return ends the call and answers it, and touches no channel.           *)
LEMMA CallsReturned ==
  ASSUME TypeInv, NEW c \in Clients, NEW r, Return(c, r)
  PROVE  /\ CallsOf' = [CallsOf EXCEPT ![c] = Contract!NoCall]
         /\ AnswerOf' = [AnswerOf EXCEPT ![c] = Told(r)]
         /\ UNCHANGED ChannelOf
<1>1. /\ pc'[c] = "idle" /\ tgt'[c] = None /\ msg'[c] = None /\ ctx'[c] = "none"
      /\ \A d \in Clients \ {c} : UNCHANGED <<pc[d], tgt[d], msg[d], ctx[d]>>
      /\ \A rx \in Receivers : pc'[rx] = pc[rx]
  BY WhoIsWho DEF Return, Goto, TypeInv, CallTypes, WakeTypes
<1>2. CallsOf' = [CallsOf EXCEPT ![c] = Contract!NoCall]
  BY <1>1, CallsStep, OpIs DEF SendKey, Sends, Contract!NoCall
<1>3. AnswerOf' = [AnswerOf EXCEPT ![c] = Told(r)]
  BY AnswerReturned DEF Return, TypeInv, CallTypes
<1> QED BY <1>1, <1>2, <1>3, ChannelKept

(* Entering an operation starts its call and clears the last answer.        *)
LEMMA CallsEntered ==
  ASSUME TypeInv, NEW c \in Clients, NEW l, NEW rx, NEW ev, NEW x,
         Enter(c, l, rx, ev, x)
  PROVE  /\ CallsOf' = [CallsOf EXCEPT ![c] =
                          [op |-> OpOf(l), rx |-> rx,
                           key |-> IF l \in SendPCs THEN ev[1] ELSE None, ctx |-> x]]
         /\ AnswerOf' = [AnswerOf EXCEPT ![c] = Contract!Nil]
         /\ UNCHANGED ChannelOf
<1>1. /\ pc'[c] = l /\ tgt'[c] = rx /\ msg'[c] = ev /\ ctx'[c] = x
      /\ \A d \in Clients \ {c} : UNCHANGED <<pc[d], tgt[d], msg[d], ctx[d]>>
      /\ \A r \in Receivers : pc'[r] = pc[r]
  BY WhoIsWho DEF Enter, Goto, TypeInv, CallTypes, WakeTypes
<1>2. CallsOf' = [CallsOf EXCEPT ![c] =
                    [op |-> OpOf(l), rx |-> rx,
                     key |-> IF l \in SendPCs THEN ev[1] ELSE None, ctx |-> x]]
  BY <1>1, CallsStep DEF SendKey, Sends, SendPCs
<1>3. AnswerOf' = [AnswerOf EXCEPT ![c] = Told(Ok)]
  BY AnswerReturned DEF Enter, TypeInv, CallTypes
<1>4. Told(Ok) = Contract!Nil
  BY ToldIs DEF Ok, Contract!Nil, Contract!Answer
<1> QED BY <1>1, <1>2, <1>3, <1>4, ChannelKept

(* A move inside one call. *)
LEMMA CallsMoved ==
  ASSUME TypeInv, NEW c \in Clients, NEW l, Goto(c, l), UNCHANGED callVars,
         OpOf(l) = OpOf(pc[c]), l \in SendPCs <=> pc[c] \in SendPCs
  PROVE  UNCHANGED <<CallsOf, AnswerOf, ChannelOf>>
<1>1. /\ pc'[c] = l /\ \A d \in Clients \ {c} : pc'[d] = pc[d]
      /\ \A r \in Receivers : pc'[r] = pc[r]
  BY WhoIsWho DEF Goto, TypeInv, CallTypes
<1>2. \A d \in Clients : OpOf(pc'[d]) = OpOf(pc[d])
  BY <1>1
<1> QED BY <1>1, <1>2, ChannelKept
       DEF CallsOf, CallOf, OpOf, AnswerOf, callVars, Sends, SendPCs

(* A step in which no client moves leaves calls and answers alone.          *)
LEMMA CallsAlone ==
  ASSUME UNCHANGED callVars, \A c \in Clients : pc'[c] = pc[c]
  PROVE  UNCHANGED <<CallsOf, AnswerOf>>
BY DEF CallsOf, CallOf, AnswerOf, callVars, Sends

-----------------------------------------------------------------------------
(* What the mapping needs to know of where everybody is. *)

(* Outside a call there is nothing left of the last one; an early return    *)
(* comes of a close; only who may Peek is inside one; TryRecv and Peek have *)
(* no context.                                                              *)
CallInv ==
  /\ \A c \in Clients :
       /\ pc[c] \in {"idle", "hubClosing"} =>
            tgt[c] = None /\ msg[c] = None /\ ctx[c] = "none"
       /\ pc[c] = "recvDefer" => tgt[c] \in Receivers /\ done[tgt[c]]
       /\ pc[c] = "peekLock" => "Peek" \in May[c]
       /\ pc[c] \in {"tryRecvLock", "peekLock"} => ctx[c] = "none"
  /\ \A rx \in Receivers :
       /\ pc[rx] = "feedDefer" => done[rx]
       /\ pc[rx] # "feedNone" => \E c \in Clients : "Chan" \in May[c]

(* No call is in progress in a bus that has only been made.                 *)
LEMMA InitCallInv == Init => CallInv
BY WhoIsWho DEF Init, CallInv

(* How a client moves. *)
CallMove(c) ==
  \/ UNCHANGED <<pc[c], tgt[c], msg[c], ctx[c]>>
  \/ pc'[c] = "idle" /\ tgt'[c] = None /\ msg'[c] = None /\ ctx'[c] = "none"
  \/ /\ pc[c] \in {"idle", "hubClosing"} /\ pc'[c] \in {"idle", "hubClosing"}
     /\ UNCHANGED <<tgt[c], msg[c], ctx[c]>>
  \/ /\ pc'[c] \notin {"idle", "hubClosing"}
     /\ pc'[c] = "recvDefer" => /\ tgt'[c] = tgt[c] /\ tgt[c] \in Receivers
                                /\ pc[c] = "recvDefer" \/ done[tgt[c]]
     /\ pc'[c] = "peekLock" => pc[c] = "peekLock" \/ "Peek" \in May[c]
     /\ pc'[c] \in {"tryRecvLock", "peekLock"} => ctx'[c] = "none"

(* Every step moves a client in one of the ways of CallMove.                *)
LEMMA NextCallMove ==
  ASSUME TypeInv, CallInv, [Next]_vars, NEW c \in Clients PROVE CallMove(c)
<1>0. /\ pc \in [Procs -> ClientPCs \cup FeederPCs] /\ c \in Procs /\ c \notin Receivers
      /\ tgt \in [Clients -> Receivers \cup {None}]
      /\ msg \in [Clients -> Publications \cup {None}]
      /\ ctx \in [Clients -> Contexts]
  BY WhoIsWho DEF TypeInv, CallTypes, WakeTypes
<1>1. ASSUME NEW a, Return(c, a) PROVE CallMove(c)
  BY <1>0, <1>1 DEF Return, Goto, CallMove
<1>2. ASSUME NEW l, NEW r, NEW m, NEW x, Enter(c, l, r, m, x),
             l \notin {"idle", "hubClosing", "recvDefer"},
             l = "peekLock" => "Peek" \in May[c],
             l \in {"tryRecvLock", "peekLock"} => x = "none"
      PROVE  CallMove(c)
  BY <1>0, <1>2 DEF Enter, Goto, CallMove
<1>3. ASSUME UNCHANGED <<pc[c], tgt[c], msg[c], ctx[c]>> PROVE CallMove(c)
  BY <1>3 DEF CallMove
<1>4. CASE QuietStep(c)
  <2>1. CASE \E pub \in Publications, x \in Contexts : CallSend(c, pub, x)
    BY <1>1, <1>2, <2>1 DEF CallSend
  <2>2. CASE \E rx \in Receivers, x \in Contexts : CallRecv(c, rx, x)
    BY <1>1, <1>2, <2>2 DEF CallRecv
  <2>3. CASE \E rx \in Receivers : CallTryRecv(c, rx)
    BY <1>1, <1>2, <2>3 DEF CallTryRecv
  <2>4. CASE \E rx \in Receivers : CallPeek(c, rx)
    BY <1>1, <1>2, <2>4 DEF CallPeek, Idle
  <2>5. CASE SendCtx(c)
    BY <1>0, <1>1, <2>5 DEF SendCtx, Goto, CallMove
  <2>6. CASE Cancel(c)
    <3>1. pc[c] \notin {"idle", "hubClosing", "tryRecvLock", "peekLock"}
         /\ UNCHANGED <<pc, tgt>>
      BY <2>6 DEF Cancel, CallInv
    <3> QED BY <3>1 DEF CallInv, CallMove
  <2> QED BY <1>4, <2>1, <2>2, <2>3, <2>4, <2>5, <2>6 DEF QuietStep
<1>5. CASE Watching(c) \/ ClosingOne(c) \/ CloseSender(c)
  BY <1>3, <1>5
     DEF Watching, ClosingOne, Watch, CloseReceiver, CloseSender, callVars
<1>6. CASE ClosingHub(c)
  BY <1>0, <1>6
     DEF ClosingHub, CloseHub, CloseHubEnd, CloseHubDone, Idle, callVars, Goto, CallMove
<1>7. CASE SendLocked(c) \/ RecvLocked(c) \/ TryLocked(c) \/ RecvDefer(c)
  BY <1>1, <1>7 DEF SendLocked, RecvLocked, TryLocked, RecvDefer
<1>8. CASE RecvPark(c)
  BY <1>0, <1>8 DEF RecvPark, callVars, Goto, CallMove
<1>9. CASE RecvWake(c)
  <2>1. tgt[c] \in Receivers
    BY <1>9 DEF RecvWake, TypeInv, CallTypes, ReadPCs
  <2> QED BY <1>0, <1>9, <2>1 DEF RecvWake, callVars, Goto, CallMove
<1>10. ASSUME NEW b \in Clients, b # c,
              \/ QuietStep(b) \/ Watching(b) \/ ClosingHub(b) \/ ClosingOne(b)
              \/ CloseSender(b) \/ SendLocked(b) \/ RecvLocked(b)
              \/ TryLocked(b) \/ ParkingOnly(b)
       PROVE  CallMove(c)
  <2>1. pc'[c] = pc[c]
    BY <1>0, <1>10, ClientMoves DEF Goto
  <2>2. \/ UNCHANGED callVars
        \/ \E t, m, x : /\ tgt' = [tgt EXCEPT ![b] = t] /\ msg' = [msg EXCEPT ![b] = m]
                        /\ ctx' = [ctx EXCEPT ![b] = x]
        \/ UNCHANGED <<tgt, msg>> /\ \E x : ctx' = [ctx EXCEPT ![b] = x]
    BY <1>10 DEF QuietStep, Watching, ClosingHub, ClosingOne, ParkingOnly,
         CallSend, CallRecv, CallTryRecv, CallPeek, SendCtx, Cancel, Watch,
         CloseHub, CloseHubEnd, CloseHubDone, CloseReceiver, CloseSender,
         SendLocked, RecvLocked, TryLocked, RecvPark, RecvWake, RecvDefer,
         Enter, Return, callVars
  <2>3. UNCHANGED <<tgt[c], msg[c], ctx[c]>>
    BY <1>0, <1>10, <2>2 DEF callVars
  <2> QED BY <1>3, <2>1, <2>3
<1>11. ASSUME NEW r \in Receivers,
              Ranging(r) \/ FeederOnly(r) \/ FeedLocked(r) \/ ChanReceive(r)
       PROVE  CallMove(c)
  <2>1. UNCHANGED callVars /\ \E l : Goto(r, l)
    BY <1>11 DEF Ranging, FeederOnly, Chan, FeedProbe, FeedExit, FeedWake,
                 FeedDefer, FeedLocked, ChanReceive
  <2>2. pc'[c] = pc[c]
    BY <1>0, <2>1 DEF Goto
  <2> QED BY <1>3, <2>1, <2>2 DEF callVars
<1>12. CASE UNCHANGED vars
  BY <1>3, <1>12 DEF vars, callVars
<1> QED BY <1>4, <1>5, <1>6, <1>7, <1>8, <1>9, <1>10, <1>11, <1>12, StepKinds
        DEF ParkingOnly

(* Every step preserves what is known of the calls in progress.             *)
LEMMA NextCallInv == ASSUME TypeInv, CallInv, [Next]_vars PROVE CallInv'
<1>1. ASSUME NEW c \in Clients
      PROVE  /\ pc'[c] \in {"idle", "hubClosing"} =>
                  tgt'[c] = None /\ msg'[c] = None /\ ctx'[c] = "none"
             /\ pc'[c] = "recvDefer" => tgt'[c] \in Receivers /\ done'[tgt'[c]]
             /\ pc'[c] = "peekLock" => "Peek" \in May[c]
             /\ pc'[c] \in {"tryRecvLock", "peekLock"} => ctx'[c] = "none"
  BY NextCallMove, DoneStays DEF CallMove, CallInv
<1>2. ASSUME NEW rx \in Receivers, pc'[rx] = "feedDefer" PROVE done'[rx]
  <2>0. pc \in [Procs -> ClientPCs \cup FeederPCs]
    BY DEF TypeInv, CallTypes
  <2>1. CASE pc'[rx] = pc[rx]
    BY <1>2, <2>1, DoneStays DEF CallInv
  <2>2. ASSUME NEW r \in Receivers, pc'[rx] # pc[rx],
               Ranging(r) \/ FeederOnly(r) \/ FeedLocked(r) \/ ChanReceive(r)
        PROVE  done[rx]
    <3>1. \E l : Goto(r, l)
      BY <2>2 DEF Ranging, FeederOnly, Chan, FeedProbe, FeedExit, FeedWake,
                  FeedDefer, FeedLocked, ChanReceive
    <3>2. r = rx
      BY <2>0, <2>2, <3>1, WhoIsWho DEF Goto
    <3>3. pc'[rx] \notin {"feedProbe", "feedLock", "feedExited", "feedDeliver", "feedPark"}
      BY <1>2
    <3> QED BY <2>0, <2>2, <3>2, <3>3, WhoIsWho
            DEF Ranging, FeederOnly, Chan, FeedProbe, FeedExit, FeedWake,
                FeedDefer, FeedLocked, ChanReceive, Goto
  <2>3. \/ pc'[rx] = pc[rx]
        \/ \E r \in Receivers :
             Ranging(r) \/ FeederOnly(r) \/ FeedLocked(r) \/ ChanReceive(r)
    BY WhoTouchesFeeds
  <2> QED BY <2>1, <2>2, <2>3, DoneStays
<1>3. ASSUME NEW rx \in Receivers, pc'[rx] # "feedNone"
      PROVE  \E c \in Clients : "Chan" \in May[c]
  BY <1>3, WhoStartsFeeder DEF CallInv, Ranging, Chan, Idle
<1> QED BY <1>1, <1>2, <1>3 DEF CallInv

(* What the feeder offers is ahead of the read position, and the slot       *)
(* itself unless that has been written since.                               *)
OfferInv ==
  \A rx \in Receivers : pc[rx] = "feedDeliver" =>
    /\ lastSeen[rx] < snap[rx].ver
    /\ snap[rx].ver = version[rx] => snap[rx] = Slot(rx)

(* Every step keeps a feeder's snapshot in agreement with its marks.        *)
LEMMA NextOfferInv ==
  ASSUME TypeInv, WakeInv, MarkInv, Separate, OfferInv, [Next]_vars
  PROVE  OfferInv'
<1> SUFFICES ASSUME NEW rx \in Receivers, pc'[rx] = "feedDeliver"
             PROVE  /\ lastSeen'[rx] < snap'[rx].ver
                    /\ snap'[rx].ver = version'[rx] => snap'[rx] = Slot(rx)'
  BY DEF OfferInv
<1>0. /\ ReadStep(rx) /\ SlotStep(rx) /\ version[rx] \in Nat /\ lastSeen[rx] \in Nat
  BY NextReadStep, NextSlotStep DEF TypeInv, SlotTypes
<1>1. CASE Resting(rx)
  <2>1. /\ pc[rx] = "feedDeliver" /\ UNCHANGED <<lastSeen[rx], snap[rx]>>
        /\ snap[rx] \in Events /\ snap[rx].ver <= version[rx] /\ rx \in minted
    BY <1>1, OfferedIsEvent DEF Resting, MarkInv, Marked, WakeInv, ParkInv
  <2>2. UNCHANGED Slot(rx) \/ version'[rx] = version[rx] + 1
    BY <1>0, <2>1 DEF SlotStep, Slot, Lands
  <2>3. snap[rx].ver \in Nat
    BY <2>1 DEF Events
  <2>4. CASE version'[rx] = version[rx] + 1
    BY <1>0, <2>1, <2>3, <2>4 DEF OfferInv
  <2>5. CASE UNCHANGED Slot(rx)
    <3>1. version'[rx] = version[rx]
      BY <2>5 DEF Slot
    <3> QED BY <2>1, <2>5, <3>1 DEF OfferInv
  <2> QED BY <2>2, <2>4, <2>5
<1>2. CASE Taken(rx)
  BY <1>2 DEF Taken, Separate
<1>3. CASE Looked(rx) /\ UNCHANGED <<key[rx], val[rx], version[rx]>>
  <2>1. /\ snap'[rx] = Slot(rx) /\ lastSeen'[rx] = Committed(rx)
        /\ version[rx] > Committed(rx) /\ Committed(rx) \in Nat
    BY <1>3, HandedTypes DEF Looked
  <2>2. UNCHANGED Slot(rx) /\ Slot(rx).ver = version[rx]
    BY <1>3 DEF Slot
  <2> QED BY <1>0, <2>1, <2>2
<1>4. CASE Received(rx) \/ Withdrawn(rx)
  BY <1>4 DEF Received, Withdrawn
<1> QED BY <1>0, <1>1, <1>2, <1>3, <1>4 DEF ReadStep

(* No feeder offers anything in a bus that has only been made.              *)
LEMMA InitOfferInv == Init => OfferInv
BY WhoIsWho DEF Init, OfferInv

-----------------------------------------------------------------------------
(* What is pending and what is offered. *)

(* All that is known of a state. *)
ContractInv ==
  /\ TypeInv /\ WakeInv /\ MarkInv /\ Separate /\ CallInv /\ OfferInv

(* Nobody is inside a handle whose channel is open. *)
LEMMA Apart ==
  ASSUME ReadsOneWay, ContractInv, NEW c \in Clients, NEW rx \in Receivers,
         tgt[c] = rx
  PROVE  pc[rx] = "feedNone"
BY DEF ReadsOneWay, ContractInv, Separate, CallInv

(* The version up to which a slot has been handed over or shown. *)
Shown(rx) == IF pc[rx] = "feedDeliver" THEN snap[rx].ver ELSE Committed(rx)

(* What the contract sees of a receiver: the key of its slot while it is    *)
(* unread, and the key its feeder offers.                                   *)
LEMMA PendingIs ==
  ASSUME ContractInv, NEW rx \in Receivers
  PROVE  /\ PendingOf[rx] = IF ~done[rx] /\ version[rx] > Shown(rx) THEN {key[rx]}
                            ELSE {}
         /\ OfferOf[rx] = IF pc[rx] = "feedDeliver" THEN snap[rx].key ELSE None
         /\ Shown(rx) \in Nat /\ Shown(rx) <= version[rx]
         /\ pc[rx] = "feedNone" => Shown(rx) = lastSeen[rx]
         /\ pc[rx] = "feedDeliver" => snap[rx].key \in Keys /\ snap[rx].key # None
<1>0. /\ lastSeen[rx] \in Nat /\ delivered[rx] \in Nat /\ version[rx] \in Nat
      /\ lastSeen[rx] <= version[rx] /\ delivered[rx] <= version[rx]
      /\ pc[rx] = "feedDeliver" => snap[rx].ver <= version[rx]
      /\ Committed(rx) \in Nat
  BY HandedTypes DEF ContractInv, TypeInv, SlotTypes, FeedTypes, MarkInv, Marked
<1>1. CASE pc[rx] = "feedDeliver"
  <2>1. /\ snap[rx] \in Events /\ delivered[rx] = 0
        /\ lastSeen[rx] < snap[rx].ver /\ snap[rx].ver \in Nat
        /\ snap[rx].key \in Keys
    <3>1. snap[rx] \in Events /\ delivered[rx] = 0 /\ lastSeen[rx] < snap[rx].ver
      BY <1>1, OfferedIsEvent DEF ContractInv, OfferInv
    <3> QED BY <3>1 DEF Events
  <2>2. PendingKeys(rx) = IF ~done[rx] /\ version[rx] > snap[rx].ver THEN {key[rx]}
                          ELSE {}
    BY <1>0, <1>1, <2>1 DEF PendingKeys, Offers, Committed, Newest
  <2> QED BY <1>0, <1>1, <2>1, <2>2, WatchAssumption DEF PendingOf, OfferOf, Offers, Shown
<1>2. CASE pc[rx] # "feedDeliver"
  <2>1. snap[rx] = None /\ (pc[rx] = "feedNone" => delivered[rx] = 0)
    BY <1>2 DEF ContractInv, TypeInv, FeedTypes
  <2>2. PendingKeys(rx) = IF ~done[rx] /\ version[rx] > Committed(rx) THEN {key[rx]}
                          ELSE {}
    BY <1>0, <1>2 DEF PendingKeys, Offers, Newest
  <2>3. Committed(rx) <= version[rx] /\ (delivered[rx] = 0 => Committed(rx) = lastSeen[rx])
    BY <1>0 DEF Committed, Newest
  <2> QED BY <1>0, <1>2, <2>1, <2>2, <2>3 DEF PendingOf, OfferOf, Offers, Shown
<1> QED BY <1>1, <1>2

(* An idle client has no call in the contract.                              *)
LEMMA Free ==
  ASSUME ContractInv, NEW c \in Clients, pc[c] = "idle"
  PROVE  CallsOf[c] = Contract!NoCall
BY CallIs, OpIs DEF ContractInv, CallInv, SendKey, Sends, Contract!NoCall

(* When the fast path reads a live count of zero, nobody is open to be      *)
(* told.                                                                    *)
LEMMA NobodyToTell ==
  ASSUME ContractInv, live = 0 PROVE Contract!NobodyOpen
<1>1. LiveExact /\ receivers \subseteq Receivers /\ DeregisteredIsFinished
  BY DEF ContractInv, WakeInv, HubInv, TypeInv, HubTypes
<1>2. ~txClosed /\ Cardinality(receivers) = 0
  BY <1>1 DEF LiveExact, Poisoned
<1>3. receivers = {}
  BY <1>1, <1>2, BusAssumption, FS_Subset, FS_EmptySet
<1>4. \A rx \in minted : done[rx]
  BY <1>1, <1>2, <1>3 DEF DeregisteredIsFinished, Drained
<1>5. \A rx \in Receivers : HandleOf[rx] # "open"
  BY <1>4, HandleIs
<1> QED BY <1>2, <1>5 DEF Contract!NobodyOpen, TxOf

(* A step of a client that leaves hub, handles and slots alone. *)
LEMMA NothingElse ==
  ASSUME UNCHANGED <<txClosed, minted, done, key, version, lastSeen, feedVars>>,
         \A rx \in Receivers : pc'[rx] = pc[rx]
  PROVE  /\ UNCHANGED <<TxOf, HandleOf, PendingOf, ChannelOf, OfferOf>>
         /\ UNCHANGED <<TxOf, Contract!rxVars>>
<1>1. UNCHANGED ChannelOf
  BY ChannelKept
<1>2. UNCHANGED <<PendingOf, OfferOf>>
  <2>1. UNCHANGED PendingOf
    BY DEF feedVars, PendingOf, PendingKeys, Offers, Newest, Committed
  <2>2. UNCHANGED OfferOf
    BY DEF feedVars, OfferOf, Offers
  <2> QED BY <2>1, <2>2
<1>3. UNCHANGED <<TxOf, HandleOf>>
  BY HandleKept DEF TxOf
<1> QED BY <1>1, <1>2, <1>3 DEF Contract!rxVars

(* The step is c's alone. *)
LEMMA QuietAlone ==
  ASSUME TypeInv, NEW c \in Clients, QuietStep(c)
  PROVE  UNCHANGED <<TxOf, Contract!rxVars>>
<1>1. UNCHANGED <<txClosed, minted, done, key, version, lastSeen, feedVars>>
  BY QuietKeeps DEF stateVars, hubVars, handleVars, slotVars, readVars
<1>2. UNCHANGED pc \/ \E l : Goto(c, l)
  BY DEF QuietStep, CallSend, CallRecv, CallTryRecv, CallPeek, SendCtx, Cancel,
         Enter, Return
<1>3. \A rx \in Receivers : pc'[rx] = pc[rx]
  BY <1>2, WhoIsWho DEF Goto, TypeInv, CallTypes
<1> QED BY <1>1, <1>3, NothingElse

(* A context that is cancelled is the contract's Cancel.                    *)
LEMMA CancelImplements ==
  ASSUME ContractInv, NEW c \in Clients, Cancel(c) PROVE Contract!Cancel(c)
<1>1. UNCHANGED <<TxOf, Contract!rxVars>> /\ UNCHANGED AnswerOf
  BY QuietAlone DEF QuietStep, Cancel, ContractInv, AnswerOf
<1>2. CallsOf' = [CallsOf EXCEPT ![c].ctx = "cancelled"]
  BY DEF Cancel, CallsOf, CallOf, Sends, ContractInv, TypeInv, CallTypes
<1>3. CallsOf[c].ctx = "live"
  BY CallIs DEF Cancel
<1> QED BY <1>1, <1>2, <1>3 DEF Contract!Cancel

(* A call that enters is a call that begins. *)
LEMMA EntersBegins ==
  ASSUME ContractInv, NEW c \in Clients, QuietStep(c), pc[c] = "idle",
         NEW l, NEW rx, NEW ev, NEW x, Enter(c, l, rx, ev, x),
         OpOf(l) = "SendNothing" => Contract!NobodyOpen,
         OpOf(l) \in Contract!ReadOps => HandleOf[rx] = "open"
  PROVE  Contract!Begin(c, OpOf(l), rx, IF l \in SendPCs THEN ev[1] ELSE None, x)
<1>1. /\ CallsOf' = [CallsOf EXCEPT ![c] =
                       [op |-> OpOf(l), rx |-> rx,
                        key |-> IF l \in SendPCs THEN ev[1] ELSE None, ctx |-> x]]
      /\ AnswerOf' = [AnswerOf EXCEPT ![c] = Contract!Nil]
  BY CallsEntered DEF ContractInv
<1>2. UNCHANGED <<TxOf, Contract!rxVars>> /\ CallsOf[c] = Contract!NoCall
  BY QuietAlone, Free DEF ContractInv
<1> QED BY <1>1, <1>2 DEF Contract!Begin

(* A call answered where it begins. *)
LEMMA AnsweredAtOnce ==
  ASSUME ContractInv, NEW c \in Clients, QuietStep(c), pc[c] = "idle",
         NEW r, Return(c, r),
         \/ r = Ok /\ Contract!NobodyOpen
         \/ r = Result("ErrClosed", <<>>) /\ \E rx \in Receivers : HandleOf[rx] = "closed"
  PROVE  Contract!AtOnce(c)
<1>1. /\ CallsOf' = [CallsOf EXCEPT ![c] = Contract!NoCall]
      /\ AnswerOf' = [AnswerOf EXCEPT ![c] = Told(r)]
  BY CallsReturned DEF ContractInv
<1>2. UNCHANGED <<TxOf, Contract!rxVars>> /\ CallsOf[c] = Contract!NoCall
  BY QuietAlone, Free DEF ContractInv
<1>3. /\ Told(Ok) = Contract!Nil
      /\ Told(Result("ErrClosed", <<>>)) = Contract!Answer("ErrClosed", {})
  BY ToldIs DEF Ok, Contract!Nil, Contract!Answer
<1> QED BY <1>1, <1>2, <1>3 DEF Contract!AtOnce, Contract!Return

(* Send, TrySend and SendContext begin a send, or answer at once.           *)
LEMMA SendBegins ==
  ASSUME ContractInv, NEW c \in Clients, NEW pub \in Publications,
         NEW x \in Contexts, CallSend(c, pub, x)
  PROVE  Contract!ClientStep(c)
<1>0. /\ pc[c] = "idle" /\ QuietStep(c) /\ pub[1] \in Keys
      /\ x \in {"none", "live", "cancelled"}
  BY WatchAssumption DEF CallSend, Idle, QuietStep, Contexts
<1>1. CASE Enter(c, "sendLock", None, pub, x)
  <2>1. Contract!Begin(c, "Send", None, pub[1], x)
    BY <1>0, <1>1, EntersBegins, OpIs, Zenon DEF Contract!ReadOps, SendPCs
  <2> QED BY <1>0, <2>1 DEF Contract!ClientStep, Contract!SendOps
<1>2. CASE live = 0 /\ Enter(c, "sendCtx", None, pub, x)
  <2>1. Contract!Begin(c, "SendNothing", None, pub[1], x)
    BY <1>0, <1>2, EntersBegins, OpIs, NobodyToTell, Zenon
       DEF Contract!ReadOps, SendPCs
  <2> QED BY <1>0, <2>1 DEF Contract!ClientStep, Contract!SendOps
<1>3. CASE live = 0 /\ Return(c, Ok)
  <2>1. Contract!AtOnce(c)
    BY <1>0, <1>3, AnsweredAtOnce, NobodyToTell
  <2> QED BY <2>1 DEF Contract!ClientStep
<1> QED BY <1>1, <1>2, <1>3 DEF CallSend

(* A call on a handle begins where the handle is open, or is answered.      *)
LEMMA ReadBegins ==
  ASSUME ContractInv, NEW c \in Clients, NEW rx \in Receivers, NEW x \in Contexts,
         NEW l, QuietStep(c), pc[c] = "idle", rx \in minted,
         l \notin SendPCs, OpOf(l) \in Contract!ReadOps,
         \/ done[rx] /\ Return(c, Result("ErrClosed", <<>>))
         \/ ~done[rx] /\ Enter(c, l, rx, None, x)
  PROVE  Contract!ClientStep(c)
<1>1. CASE done[rx] /\ Return(c, Result("ErrClosed", <<>>))
  <2>1. HandleOf[rx] = "closed"
    BY <1>1, HandleIs
  <2>2. Contract!AtOnce(c)
    BY <1>1, <2>1, AnsweredAtOnce
  <2> QED BY <2>2 DEF Contract!ClientStep
<1>2. CASE ~done[rx] /\ Enter(c, l, rx, None, x)
  <2>1. HandleOf[rx] = "open"
    BY <1>2, HandleIs
  <2>2. OpOf(l) # "SendNothing"
    BY DEF Contract!ReadOps
  <2>3. Contract!Begin(c, OpOf(l), rx, None, x)
    BY <1>2, <2>1, <2>2, EntersBegins, Zenon
  <2> QED BY <2>3 DEF Contract!ClientStep, Contexts
<1> QED BY <1>1, <1>2

(* SendContext on a hub with nobody in it answers by its context alone.     *)
LEMMA SendCtxImplements ==
  ASSUME ContractInv, NEW c \in Clients, SendCtx(c) PROVE Contract!SendNothing(c)
<1>1. /\ pc[c] = "sendCtx" /\ CallsOf[c].op = "SendNothing" /\ CallsOf[c].ctx = ctx[c]
      /\ UNCHANGED <<TxOf, Contract!rxVars>>
  BY CallIs, OpIs, QuietAlone DEF SendCtx, QuietStep, ContractInv
<1>2. CASE ctx[c] # "cancelled" /\ Return(c, Ok)
  <2>1. /\ CallsOf' = [CallsOf EXCEPT ![c] = Contract!NoCall]
        /\ AnswerOf' = [AnswerOf EXCEPT ![c] = Contract!Nil]
    BY <1>2, CallsReturned, ToldIs
       DEF ContractInv, Ok, Contract!Nil, Contract!Answer
  <2> QED BY <1>1, <1>2, <2>1
          DEF Contract!SendNothing, Contract!In, Contract!Cancelled, Contract!Return
<1>3. CASE ctx[c] = "cancelled" /\ Goto(c, "sendLock") /\ UNCHANGED callVars
  <2>1. /\ pc'[c] = "sendLock" /\ UNCHANGED <<tgt, msg, ctx, ret>>
        /\ \A d \in Clients \ {c} : pc'[d] = pc[d]
    BY <1>3, WhoIsWho DEF Goto, callVars, ContractInv, TypeInv, CallTypes
  <2>2. CallsOf' = [CallsOf EXCEPT ![c] =
                      [op |-> "Send", rx |-> tgt[c], key |-> SendKey(c), ctx |-> ctx[c]]]
    BY <1>1, <2>1, CallsStep, OpIs DEF SendKey, Sends
  <2>3. /\ CallsOf[c] = [op |-> "SendNothing", rx |-> tgt[c], key |-> SendKey(c),
                         ctx |-> ctx[c]]
        /\ CallsOf \in [Clients -> Range(CallsOf)]
    BY <1>1, CallIs, OpIs DEF CallsOf, Range
  <2>4. [CallsOf[c] EXCEPT !.op = "Send"] =
           [op |-> "Send", rx |-> tgt[c], key |-> SendKey(c), ctx |-> ctx[c]]
    BY <2>3
  <2>5. CallsOf' = [CallsOf EXCEPT ![c].op = "Send"]
    BY <2>2, <2>4
  <2>6. UNCHANGED AnswerOf
    BY <2>1 DEF AnswerOf
  <2> QED BY <1>1, <1>3, <2>5, <2>6
          DEF Contract!SendNothing, Contract!In, Contract!Cancelled
<1> QED BY <1>2, <1>3 DEF SendCtx

(* The steps before the mutex are the contract's beginnings of calls.       *)
LEMMA QuietImplements ==
  ASSUME ContractInv, NEW c \in Clients, QuietStep(c) PROVE Contract!ClientStep(c)
<1>0. /\ "none" \in Contexts /\ "recvLock" \notin SendPCs /\ "tryRecvLock" \notin SendPCs
      /\ "peekLock" \notin SendPCs
      /\ {OpOf("recvLock"), OpOf("tryRecvLock"), OpOf("peekLock")} \subseteq Contract!ReadOps
  BY OpIs DEF Contexts, SendPCs, Contract!ReadOps
<1>1. CASE \E pub \in Publications, x \in Contexts : CallSend(c, pub, x)
  BY <1>1, SendBegins
<1>2. CASE \E rx \in Receivers, x \in Contexts : CallRecv(c, rx, x)
  BY <1>0, <1>2, ReadBegins DEF CallRecv, Idle
<1>3. CASE \E rx \in Receivers : CallTryRecv(c, rx)
  BY <1>0, <1>3, ReadBegins DEF CallTryRecv, Idle
<1>4. CASE \E rx \in Receivers : CallPeek(c, rx)
  BY <1>0, <1>4, ReadBegins DEF CallPeek, Idle
<1>5. CASE SendCtx(c)
  BY <1>5, SendCtxImplements DEF Contract!ClientStep
<1>6. CASE Cancel(c)
  BY <1>6, CancelImplements DEF Contract!ClientStep
<1> QED BY <1>1, <1>2, <1>3, <1>4, <1>5, <1>6 DEF QuietStep

-----------------------------------------------------------------------------
(* Handles are made and closed. *)

LEMMA WatchImplements ==
  ASSUME ContractInv, NEW c \in Clients, NEW rx \in Receivers, NEW k, NEW cur,
         Watch(c, rx, k, cur)
  PROVE  Contract!Mint(rx)
<1>0. /\ rx \notin minted /\ minted' = minted \cup {rx}
      /\ UNCHANGED <<version, lastSeen, feedVars, pc, callVars, txClosed>>
      /\ \A r \in Receivers \ {rx} : UNCHANGED <<key[r], done[r]>>
      /\ TypeInv /\ (done'[rx] => txClosed)
  <2>0. /\ TypeInv /\ done \in [Receivers -> BOOLEAN]
        /\ key \in [Receivers -> Keys \cup {None}]
        /\ (done[rx] => rx \in minted) /\ (hubClosed => txClosed)
    BY DEF ContractInv, WakeInv, HubInv, TypeInv, HubTypes, SlotTypes
  <2>1. /\ rx \notin minted /\ minted' = minted \cup {rx}
        /\ UNCHANGED <<version, lastSeen, feedVars, pc, callVars, txClosed>>
        /\ key' = [key EXCEPT ![rx] = k]
        /\ \/ hubClosed /\ done' = [done EXCEPT ![rx] = TRUE]
           \/ ~hubClosed /\ UNCHANGED done
    BY DEF Watch, readVars, flagVars
  <2> QED BY <2>0, <2>1
<1>1. HandleOf' = [HandleOf EXCEPT ![rx] = IF done'[rx] THEN "closed" ELSE "open"]
  BY <1>0, HandleBorn
<1>2. HandleOf[rx] = "unborn" /\ (done'[rx] => TxOf = "closed")
  BY <1>0, HandleIs DEF TxOf
<1>3. UNCHANGED <<ChannelOf, OfferOf, TxOf, CallsOf, AnswerOf>>
  <2>1. UNCHANGED <<CallsOf, AnswerOf>>
    BY <1>0, CallsAlone
  <2>2. UNCHANGED ChannelOf
    BY <1>0, ChannelKept
  <2>3. UNCHANGED <<OfferOf, TxOf>>
    BY <1>0 DEF OfferOf, Offers, feedVars, TxOf
  <2> QED BY <2>1, <2>2, <2>3
<1>4. UNCHANGED PendingOf
  <2>1. version[rx] = 0 /\ Committed(rx) \in Nat
        /\ (pc[rx] = "feedDeliver" => snap[rx].ver \in Nat)
    <3>1. version[rx] \in Nat /\ ~(version[rx] > 0)
      BY <1>0 DEF TypeInv, SlotTypes
    <3>2. pc[rx] = "feedDeliver" => snap[rx] \in Events
      BY <1>0, OfferedIsEvent
    <3> QED BY <1>0, <3>1, <3>2, HandedTypes DEF Events
  <2>2. PendingKeys(rx)' = {}
    BY <1>0, <2>1 DEF PendingKeys, Newest, Offers, Committed, feedVars
  <2>3. PendingKeys(rx) = {}
    BY <2>1 DEF PendingKeys, Newest, Offers
  <2>4. \A r \in Receivers \ {rx} : PendingKeys(r)' = PendingKeys(r)
    BY <1>0 DEF PendingKeys, Newest, Offers, Committed, feedVars
  <2> QED BY <2>2, <2>3, <2>4 DEF PendingOf
<1> QED BY <1>1, <1>2, <1>3, <1>4 DEF Contract!Mint

(* The step that closes the handle rx and no other. *)
LEMMA ClosesHandle ==
  ASSUME ContractInv, NEW rx \in Receivers, rx \in minted, ~done[rx],
         done' = [done EXCEPT ![rx] = TRUE],
         UNCHANGED <<minted, txClosed, slotVars, lastSeen, pc, callVars, feedVars>>
  PROVE  Contract!CloseHandle(rx)
<1>1. HandleOf[rx] = "open" /\ HandleOf' = [HandleOf EXCEPT ![rx] = "closed"]
  BY HandleIs, HandleClosed DEF ContractInv, TypeInv, HubTypes
<1>2. PendingOf' = [PendingOf EXCEPT ![rx] = {}]
  BY DEF ContractInv, TypeInv, HubTypes, PendingOf, PendingKeys, slotVars, Newest,
         Offers, Committed, feedVars
<1>3. UNCHANGED <<CallsOf, AnswerOf>>
  BY CallsAlone
<1>4. UNCHANGED ChannelOf
  BY ChannelKept
<1>5. UNCHANGED <<OfferOf, TxOf>>
  BY DEF OfferOf, Offers, feedVars, TxOf
<1> QED BY <1>1, <1>2, <1>3, <1>4, <1>5 DEF Contract!CloseHandle

(* What the contract sees of a step. *)
Promised == <<TxOf, Contract!rxVars, CallsOf, AnswerOf>>

(* Receiver.Close closes its handle, or finds it closed.                    *)
LEMMA CloseReceiverImplements ==
  ASSUME ContractInv, NEW c \in Clients, NEW rx \in Receivers, CloseReceiver(c, rx)
  PROVE  Contract!CloseHandle(rx) \/ UNCHANGED Promised
<1>0. /\ rx \in minted /\ done' = [done EXCEPT ![rx] = TRUE]
      /\ UNCHANGED <<minted, txClosed, slotVars, lastSeen, pc, callVars, feedVars>>
  BY DEF CloseReceiver, flagVars, handleVars, readVars
<1>1. CASE done[rx]
  <2>1. UNCHANGED done
    BY <1>0, <1>1 DEF ContractInv, TypeInv, HubTypes
  <2> QED BY <1>0, <2>1, NothingElse, CallsAlone DEF Promised, slotVars
<1>2. CASE ~done[rx]
  BY <1>0, <1>2, ClosesHandle
<1> QED BY <1>1, <1>2

(* A step of an idle client, or of one that closes, that touches no slot.   *)
LEMMA ClosesSender ==
  ASSUME ContractInv,
         \/ UNCHANGED <<pc, callVars>>
         \/ \E c \in Clients, l \in {"idle", "hubClosing"} :
              pc[c] \in {"idle", "hubClosing"} /\ Goto(c, l) /\ UNCHANGED callVars,
         UNCHANGED <<minted, done, slotVars, lastSeen, feedVars>>
  PROVE  UNCHANGED <<Contract!rxVars, CallsOf, AnswerOf>>
<1>1. UNCHANGED <<CallsOf, AnswerOf, ChannelOf>> /\ \A rx \in Receivers : pc'[rx] = pc[rx]
  <2>1. CASE UNCHANGED <<pc, callVars>>
    BY <2>1, CallsAlone, ChannelKept
  <2>2. ASSUME NEW c \in Clients, NEW l, pc[c] \in {"idle", "hubClosing"},
               l \in {"idle", "hubClosing"}, Goto(c, l), UNCHANGED callVars
        PROVE  /\ UNCHANGED <<CallsOf, AnswerOf, ChannelOf>>
               /\ \A rx \in Receivers : pc'[rx] = pc[rx]
    <3>1. OpOf(l) = OpOf(pc[c]) /\ l \notin SendPCs /\ pc[c] \notin SendPCs
      BY <2>2, OpIs DEF SendPCs
    <3> QED BY <2>2, <3>1, CallsMoved, WhoIsWho
            DEF ContractInv, Goto, TypeInv, CallTypes
  <2> QED BY <2>1, <2>2
<1>2. UNCHANGED HandleOf
  BY HandleKept
<1>3. UNCHANGED <<PendingOf, OfferOf>>
  <2>1. UNCHANGED PendingOf
    BY <1>1 DEF feedVars, PendingOf, PendingKeys, Offers, Newest, Committed, slotVars
  <2>2. UNCHANGED OfferOf
    BY <1>1 DEF feedVars, OfferOf, Offers
  <2> QED BY <2>1, <2>2
<1> QED BY <1>1, <1>2, <1>3 DEF Contract!rxVars

(* Each close of the sender, the hub or a receiver is one of the contract,  *)
(* or is seen by nobody.                                                    *)
LEMMA ClosersImplement ==
  ASSUME ContractInv, NEW c \in Clients,
         ClosingHub(c) \/ CloseSender(c) \/ ClosingOne(c)
  PROVE  \/ Contract!CloseSender \/ UNCHANGED Promised
         \/ \E rx \in Receivers : Contract!CloseHandle(rx)
<1>1. CASE CloseSender(c) \/ CloseHub(c)
  <2>1. txClosed' /\ UNCHANGED <<Contract!rxVars, CallsOf, AnswerOf>>
    <3>1. /\ txClosed' = TRUE
          /\ UNCHANGED <<minted, done, slotVars, lastSeen, feedVars>>
          /\ \/ UNCHANGED <<pc, callVars>>
             \/ /\ pc[c] = "idle" /\ Goto(c, "hubClosing") /\ UNCHANGED callVars
      BY <1>1 DEF CloseSender, CloseHub, Idle, handleVars, readVars
    <3> QED BY <3>1, ClosesSender
  <2> QED BY <2>1 DEF Contract!CloseSender, TxOf
<1>2. CASE CloseHubEnd(c)
  <2>1. UNCHANGED <<Contract!rxVars, CallsOf, AnswerOf>>
    <3>1. /\ UNCHANGED <<minted, done, slotVars, lastSeen, feedVars>>
          /\ pc[c] = "hubClosing" /\ Goto(c, "idle") /\ UNCHANGED callVars
      BY <1>2 DEF CloseHubEnd, handleVars, readVars
    <3> QED BY <3>1, ClosesSender
  <2> QED BY <1>2, <2>1 DEF CloseHubEnd, TxOf, Promised
<1>3. ASSUME NEW rx \in Receivers, CloseHubDone(c, rx)
      PROVE  Contract!CloseHandle(rx)
  <2>1. /\ ~done[rx] /\ done' = [done EXCEPT ![rx] = TRUE] /\ rx \in minted
        /\ UNCHANGED <<minted, txClosed, slotVars, lastSeen, pc, callVars, feedVars>>
    BY <1>3 DEF CloseHubDone, hubVars, handleVars, readVars, ContractInv, TypeInv,
                HubTypes
  <2> QED BY <2>1, ClosesHandle
<1>4. CASE ClosingOne(c)
  BY <1>4, CloseReceiverImplements DEF ClosingOne
<1> QED BY <1>1, <1>2, <1>3, <1>4 DEF ClosingHub

-----------------------------------------------------------------------------
(* A send under the mutex. *)

(* What a send does to one slot: k is pending if it landed, and nothing     *)
(* else changes.                                                            *)
LEMMA SendFilesKey ==
  ASSUME ContractInv, NEW c \in Clients, SendLocked(c), NEW rx \in Receivers
  PROVE  \/ PendingOf'[rx] = PendingOf[rx]
         \/ /\ HandleOf[rx] = "open"
            /\ PendingOf'[rx] = {msg[c][1]} /\ ~txClosed /\ ctx[c] # "cancelled"
<1>0. /\ UNCHANGED <<done, minted, lastSeen, feedVars>> /\ pc'[rx] = pc[rx]
      /\ TypeInv /\ version[rx] \in Nat
  BY WhoIsWho DEF SendLocked, handleVars, readVars, Return, Goto, ContractInv,
                  TypeInv, CallTypes, SlotTypes
<1>1. \/ UNCHANGED <<key[rx], version[rx]>>
      \/ /\ key'[rx] = msg[c][1] /\ version'[rx] = version[rx] + 1
         /\ ~txClosed /\ ctx[c] # "cancelled"
         /\ rx \in Watchers(msg[c][1]) \cup wildcard
  <2>1. CASE UNCHANGED slotVars
    BY <2>1 DEF slotVars
  <2>2. CASE ~txClosed /\ ctx[c] # "cancelled"
             /\ \E R \in SUBSET (Watchers(msg[c][1]) \cup wildcard) :
                  FanOut(R, msg[c][1], msg[c][2])
    BY <2>2 DEF FanOut, Land, Hit
  <2> QED BY <2>1, <2>2 DEF SendLocked, ReachedBefore
<1>2. CASE UNCHANGED <<key[rx], version[rx]>>
  BY <1>0, <1>2
     DEF PendingOf, PendingKeys, Offers, Newest, Committed, feedVars
<1>3. CASE /\ key'[rx] = msg[c][1] /\ version'[rx] = version[rx] + 1
           /\ ~txClosed /\ ctx[c] # "cancelled"
           /\ rx \in Watchers(msg[c][1]) \cup wildcard
  <2>1. CASE done[rx]
    BY <1>0, <2>1 DEF PendingOf, PendingKeys
  <2>2. CASE ~done[rx]
    <3>1. rx \in minted
      BY <1>0, <1>3 DEF TypeInv, HubTypes, Watchers
    <3>2. /\ Committed(rx) \in Nat /\ Committed(rx) <= version[rx]
          /\ pc[rx] = "feedDeliver" => /\ snap[rx].ver \in Nat
                                       /\ snap[rx].ver <= version[rx]
      <4>1. pc[rx] = "feedDeliver" => snap[rx].ver \in Nat
        BY <1>0, OfferedIsEvent DEF Events
      <4> QED BY <1>0, <4>1, HandedTypes
              DEF ContractInv, MarkInv, Marked, Committed, Newest
    <3>3. PendingKeys(rx)' = {msg[c][1]}
      BY <1>0, <1>3, <2>2, <3>2
         DEF PendingKeys, Offers, Newest, Committed, feedVars
    <3> QED BY <1>3, <2>2, <3>1, <3>3, HandleIs DEF PendingOf
  <2> QED BY <2>1, <2>2
<1> QED BY <1>1, <1>2, <1>3

(* The locked part of a send publishes its key, or refuses it.              *)
LEMMA SendImplements ==
  ASSUME ContractInv, NEW c \in Clients, SendLocked(c)
  PROVE  Contract!Publish(c) \/ Contract!RefuseSend(c)
<1> DEFINE k == msg[c][1]
<1>0. /\ pc[c] = "sendLock" /\ CallsOf[c].op = "Send" /\ CallsOf[c].ctx = ctx[c]
      /\ CallsOf[c].key = k
  BY CallIs, OpIs DEF SendLocked, SendKey, Sends
<1>1. /\ UNCHANGED <<TxOf, HandleOf, OfferOf>>
      /\ PendingOf \in [Receivers -> Range(PendingOf)]
      /\ PendingOf' \in [Receivers -> Range(PendingOf')]
  <2>1. /\ UNCHANGED <<txClosed, minted, done, feedVars>>
        /\ \A rx \in Receivers : pc'[rx] = pc[rx]
    BY WhoIsWho DEF SendLocked, handleVars, hubVars, Return, Goto, ContractInv,
                    TypeInv, CallTypes
  <2>2. UNCHANGED <<TxOf, HandleOf>>
    BY <2>1, HandleKept DEF TxOf
  <2>3. UNCHANGED OfferOf
    BY <2>1 DEF OfferOf, Offers, feedVars
  <2> QED BY <2>2, <2>3 DEF PendingOf, Range
<1>2. ASSUME NEW r, Return(c, r)
      PROVE  /\ CallsOf' = [CallsOf EXCEPT ![c] = Contract!NoCall]
             /\ AnswerOf' = [AnswerOf EXCEPT ![c] = Told(r)]
             /\ UNCHANGED ChannelOf
  BY <1>2, CallsReturned DEF ContractInv
<1>3. CASE \/ txClosed /\ Return(c, Result("ErrClosed", <<>>))
           \/ ~txClosed /\ ctx[c] = "cancelled" /\ Return(c, Result("ctx.Err", <<>>))
  <2>1. UNCHANGED PendingOf
    <3>1. \A rx \in Receivers : PendingOf'[rx] = PendingOf[rx]
      BY <1>3, SendFilesKey
    <3> QED BY <1>1, <3>1
  <2>2. /\ Told(Result("ErrClosed", <<>>)) = Contract!Answer("ErrClosed", {})
        /\ Told(Result("ctx.Err", <<>>)) = Contract!Answer("ctx.Err", {})
    BY ToldIs DEF Contract!Answer
  <2>3. UNCHANGED <<TxOf, Contract!rxVars>>
    BY <1>1, <1>2, <1>3, <2>1 DEF Contract!rxVars
  <2> QED BY <1>0, <1>2, <1>3, <2>2, <2>3
          DEF Contract!RefuseSend, Contract!Return, Contract!In, Contract!Cancelled,
              TxOf
<1>4. CASE /\ ~txClosed /\ ctx[c] # "cancelled"
           /\ Return(c, Ok) \/ Return(c, Result("panic", <<>>))
  <2>1. \A rx \in Receivers :
          PendingOf'[rx] \in IF HandleOf[rx] = "open"
                             THEN Contract!Routed(PendingOf[rx], k)
                             ELSE {PendingOf[rx]}
    BY SendFilesKey DEF Contract!Routed
  <2>2. PendingOf' \in [Receivers -> UNION {Contract!Routed(PendingOf[rx], k) :
                                              rx \in Receivers}]
    <3>1. \A rx \in Receivers : PendingOf'[rx] \in Contract!Routed(PendingOf[rx], k)
      BY SendFilesKey DEF Contract!Routed
    <3> QED BY <1>1, <3>1
  <2>3. \E err \in {"nil", "panic"} :
          Return(c, Result(err, <<>>)) /\ Told(Result(err, <<>>)) = Contract!Answer(err, {})
    BY <1>4, ToldIs DEF Ok, Contract!Answer
  <2>4. \E err \in {"nil", "panic"} : Contract!Return(c, Contract!Answer(err, {}))
    BY <1>2, <2>3 DEF Contract!Return
  <2>5. UNCHANGED ChannelOf
    BY <1>2, <2>3
  <2> QED BY <1>0, <1>1, <1>4, <2>1, <2>2, <2>4, <2>5
          DEF Contract!Publish, Contract!In, Contract!Cancelled, TxOf
<1> QED BY <1>3, <1>4 DEF SendLocked

-----------------------------------------------------------------------------
(* The reading paths. *)

(* What the verdict under the mutex means to the contract.                  *)
LEMMA VerdictMeans ==
  ASSUME ReadsOneWay, ContractInv, NEW c \in Clients, NEW rx \in Receivers,
         tgt[c] = rx, NEW x
  PROVE  /\ Verdict(rx, x) \in {"closed", "drained"} => Contract!Terminal(rx)
         /\ Verdict(rx, x) \notin {"closed", "drained"} => ~Contract!Terminal(rx)
         /\ Verdict(rx, x) = "cancelled" => x = "cancelled"
         /\ Verdict(rx, x) = "empty" => PendingOf[rx] = {}
         /\ Verdict(rx, x) = "value" => PendingOf[rx] = {key[rx]} /\ x # "cancelled"
         /\ Verdict(rx, x) \in {"closed", "drained", "cancelled", "empty", "value"}
<1>0. /\ PendingOf[rx] = IF ~done[rx] /\ Unread(rx) THEN {key[rx]} ELSE {}
      /\ done[rx] => rx \in minted
  BY Apart, PendingIs DEF Unread, ContractInv, WakeInv, HubInv
<1>1. CASE done[rx]
  BY <1>0, <1>1, HandleIs DEF Verdict, Contract!Terminal
<1>2. CASE ~done[rx] /\ Drained(rx)
  BY <1>0, <1>2, HandleIs DEF Verdict, Contract!Terminal, Contract!Ended, Drained, TxOf
<1>3. CASE ~done[rx] /\ ~Drained(rx)
  <2>1. ~Contract!Terminal(rx)
    BY <1>0, <1>3, HandleIs DEF Contract!Terminal, Contract!Ended, Drained, TxOf
  <2>2. Verdict(rx, x) = IF x = "cancelled" THEN "cancelled"
                         ELSE IF Unread(rx) THEN "value" ELSE "empty"
    BY <1>3 DEF Verdict
  <2> QED BY <1>0, <1>3, <2>1, <2>2
<1> QED BY <1>1, <1>2, <1>3

(* The answer as the contract words it. *)
LEMMA AnswerMeans ==
  ASSUME NEW rx \in Receivers
  PROVE  /\ Told(Answer(rx, "closed")) = Contract!Answer("ErrClosed", {})
         /\ Told(Answer(rx, "drained")) = Contract!Answer("ErrClosed", {})
         /\ Told(Answer(rx, "cancelled")) = Contract!Answer("ctx.Err", {})
         /\ Told(Answer(rx, "empty")) = Contract!Answer("ErrEmpty", {})
         /\ Told(Answer(rx, "value")) = Contract!Answer("nil", {key[rx]})
<1>1. /\ Answer(rx, "closed") = Result("ErrClosed", <<>>)
      /\ Answer(rx, "drained") = Result("ErrClosed", <<>>)
      /\ Answer(rx, "cancelled") = Result("ctx.Err", <<>>)
      /\ Answer(rx, "empty") = Result("ErrEmpty", <<>>)
      /\ Answer(rx, "value") = Result("nil", <<Slot(rx)>>)
  BY DEF Answer
<1>2. Slot(rx).key = key[rx]
  BY DEF Slot
<1>3. Told(Result("nil", <<Slot(rx)>>)) = [err |-> "nil", keys |-> {key[rx]}]
  BY <1>2, ToldIs
<1> QED BY <1>1, <1>3, ToldIs DEF Contract!Answer

(* A call that looks under the mutex, whether it takes or not. *)
LEMMA LookImplements ==
  ASSUME ReadsOneWay, ContractInv, NEW c \in Clients, NEW rx \in Receivers, NEW x,
         tgt[c] = rx, pc[c] \in {"recvLock", "tryRecvLock", "peekLock"},
         ctx[c] = "cancelled" => x = "cancelled",
         x = "cancelled" => ctx[c] = "cancelled" /\ pc[c] = "recvLock",
         pc[c] = "recvLock" => Verdict(rx, x) # "empty",
         IF Verdict(rx, x) = "value" /\ pc[c] # "peekLock" THEN Take(rx)
         ELSE UNCHANGED readVars,
         Return(c, Answer(rx, Verdict(rx, x))),
         UNCHANGED <<txClosed, minted, done, slotVars, feedVars>>
  PROVE  \/ Contract!End(c) \/ Contract!Interrupt(c) \/ Contract!Receive(c)
         \/ Contract!Look(c) \/ Contract!FindEmpty(c)
<1> USE DEF Contract!In, Contract!Cancelled, Contract!ReadOps
<1> DEFINE V == Verdict(rx, x)
<1>0. /\ CallsOf[c].rx = rx /\ CallsOf[c].ctx = ctx[c]
      /\ pc[c] = "recvLock" => CallsOf[c].op = "Recv"
      /\ pc[c] = "tryRecvLock" => CallsOf[c].op = "TryRecv"
      /\ pc[c] = "peekLock" => CallsOf[c].op = "Peek"
  BY CallIs, OpIs
<1>1. /\ CallsOf' = [CallsOf EXCEPT ![c] = Contract!NoCall]
      /\ AnswerOf' = [AnswerOf EXCEPT ![c] = Told(Answer(rx, V))]
      /\ UNCHANGED ChannelOf
  BY CallsReturned DEF ContractInv
<1>2. UNCHANGED <<TxOf, HandleOf, OfferOf>> /\ \A r \in Receivers : pc'[r] = pc[r]
  <2>1. \A r \in Receivers : pc'[r] = pc[r]
    BY WhoIsWho DEF Return, Goto, ContractInv, TypeInv, CallTypes
  <2>2. UNCHANGED <<TxOf, HandleOf>>
    BY HandleKept DEF TxOf
  <2> QED BY <2>1, <2>2 DEF OfferOf, Offers, feedVars
<1>3. UNCHANGED readVars => UNCHANGED PendingOf
  BY <1>2 DEF PendingOf, PendingKeys, Offers, Newest, Committed, slotVars, feedVars,
              readVars
<1>4. /\ V \in {"closed", "drained", "cancelled", "empty", "value"}
      /\ V \in {"closed", "drained"} => Contract!Terminal(rx)
      /\ V \notin {"closed", "drained"} => ~Contract!Terminal(rx)
      /\ V = "cancelled" => x = "cancelled"
      /\ V = "empty" => PendingOf[rx] = {}
      /\ V = "value" => PendingOf[rx] = {key[rx]} /\ x # "cancelled"
  BY VerdictMeans
<1>10. /\ V = "value" /\ pc[c] # "peekLock" => Take(rx)
       /\ V # "value" \/ pc[c] = "peekLock" => UNCHANGED readVars
       /\ pc[c] = "recvLock" => V # "empty"
  OBVIOUS
<1> HIDE DEF V
<1>5. CASE V \in {"closed", "drained"}
  <2>1. /\ Told(Answer(rx, V)) = Contract!Answer("ErrClosed", {})
        /\ Contract!Terminal(rx)
    BY <1>5, <1>4, AnswerMeans
  <2>2. UNCHANGED <<TxOf, Contract!rxVars>>
    BY <1>1, <1>2, <1>3, <1>10, <1>5 DEF Contract!rxVars
  <2>3. Contract!End(c)
    BY <1>0, <1>1, <2>1, <2>2 DEF Contract!End, Contract!Return
  <2> QED BY <2>3
<1>6. CASE V = "cancelled"
  <2>1. /\ Told(Answer(rx, V)) = Contract!Answer("ctx.Err", {})
        /\ ~Contract!Terminal(rx) /\ x = "cancelled"
    BY <1>6, <1>4, AnswerMeans
  <2>2. UNCHANGED <<TxOf, Contract!rxVars>>
    BY <1>1, <1>2, <1>3, <1>10, <1>6 DEF Contract!rxVars
  <2>3. Contract!Interrupt(c)
    BY <1>0, <1>1, <2>1, <2>2 DEF Contract!Interrupt, Contract!Return
  <2> QED BY <2>3
<1>7. CASE V = "empty"
  <2>1. /\ Told(Answer(rx, V)) = Contract!Answer("ErrEmpty", {})
        /\ ~Contract!Terminal(rx) /\ PendingOf[rx] = {}
    BY <1>7, <1>4, AnswerMeans
  <2>2. UNCHANGED <<TxOf, Contract!rxVars>>
    BY <1>1, <1>2, <1>3, <1>10, <1>7 DEF Contract!rxVars
  <2>3. Contract!FindEmpty(c)
    BY <1>0, <1>1, <1>7, <1>10, <2>1, <2>2 DEF Contract!FindEmpty, Contract!Return
  <2> QED BY <2>3
<1>8. CASE V = "value" /\ pc[c] = "peekLock"
  <2>1. /\ Told(Answer(rx, V)) = Contract!Answer("nil", {key[rx]})
        /\ ~Contract!Terminal(rx) /\ PendingOf[rx] = {key[rx]}
    BY <1>8, <1>4, AnswerMeans
  <2>2. UNCHANGED <<TxOf, Contract!rxVars>>
    BY <1>1, <1>2, <1>3, <1>10, <1>8 DEF Contract!rxVars
  <2>3. Contract!Look(c)
    BY <1>0, <1>1, <1>8, <2>1, <2>2 DEF Contract!Look, Contract!Return
  <2> QED BY <2>3
<1>9. CASE V = "value" /\ pc[c] # "peekLock"
  <2>1. /\ Told(Answer(rx, V)) = Contract!Answer("nil", {key[rx]})
        /\ ~Contract!Terminal(rx) /\ PendingOf[rx] = {key[rx]} /\ ctx[c] # "cancelled"
    BY <1>9, <1>4, AnswerMeans
  <2>2. PendingOf' = [PendingOf EXCEPT ![rx] = {}]
    <3>1. lastSeen' = [lastSeen EXCEPT ![rx] = version[rx]]
      BY <1>9, <1>10 DEF Take
    <3>2. /\ lastSeen'[rx] = version[rx] /\ version[rx] \in Nat
          /\ delivered[rx] \in Nat /\ lastSeen \in [Receivers -> Nat]
          /\ pc[rx] = "feedNone"
      BY <3>1, Apart DEF ContractInv, TypeInv, SlotTypes, FeedTypes
    <3>3. PendingKeys(rx)' = {}
      BY <1>2, <3>2 DEF PendingKeys, Offers, Newest, Committed, slotVars, feedVars
    <3>4. \A r \in Receivers \ {rx} : PendingKeys(r)' = PendingKeys(r)
      BY <1>2, <3>1, <3>2
         DEF PendingKeys, Offers, Newest, Committed, slotVars, feedVars
    <3> QED BY <3>3, <3>4 DEF PendingOf
  <2>3. Contract!Receive(c)
    <3>1. /\ {key[rx]} \in IF CallsOf[c].op \in {"TryRecvAll"} THEN {PendingOf[rx]}
                           ELSE {{k} : k \in PendingOf[rx]}
          /\ {key[rx]} # {}
          /\ PendingOf' = [PendingOf EXCEPT ![rx] = @ \ {key[rx]}]
      BY <2>1, <2>2
    <3>2. Contract!Return(c, Contract!Answer("nil", {key[rx]}))
      BY <1>1, <2>1 DEF Contract!Return
    <3>3. CallsOf[c].op \in {"Recv", "TryRecv"}
      BY <1>0, <1>9
    <3> QED BY <1>0, <1>1, <1>2, <2>1, <3>1, <3>2, <3>3 DEF Contract!Receive
  <2> QED BY <2>3
<1> QED BY <1>4, <1>5, <1>6, <1>7, <1>8, <1>9

(* The locked part of Recv, TryRecv and Peek answers the call, or leaves it *)
(* waiting.                                                                 *)
LEMMA ReadImplements ==
  ASSUME ReadsOneWay, ContractInv, NEW c \in Clients, RecvLocked(c) \/ TryLocked(c)
  PROVE  Contract!ClientStep(c)
<1>1. tgt[c] \in Receivers
  BY DEF RecvLocked, TryLocked, ContractInv, TypeInv, CallTypes, ReadPCs
<1>2. CASE RecvLocked(c)
  <2>1. /\ pc[c] = "recvLock" /\ Verdict(tgt[c], ctx[c]) # "empty"
        /\ IF Verdict(tgt[c], ctx[c]) = "value" THEN Take(tgt[c])
           ELSE UNCHANGED readVars
        /\ Return(c, Answer(tgt[c], Verdict(tgt[c], ctx[c])))
        /\ UNCHANGED <<txClosed, minted, done, slotVars, feedVars>>
    BY <1>2 DEF RecvLocked, flagVars, handleVars
  <2> QED BY <1>1, <2>1, LookImplements DEF Contract!ClientStep
<1>3. CASE TryLocked(c)
  <2>1. /\ pc[c] \in {"tryRecvLock", "peekLock"}
        /\ IF Verdict(tgt[c], "none") = "value" /\ pc[c] # "peekLock"
           THEN Take(tgt[c]) ELSE UNCHANGED readVars
        /\ Return(c, Answer(tgt[c], Verdict(tgt[c], "none")))
        /\ UNCHANGED <<txClosed, minted, done, slotVars, feedVars>>
    BY <1>3 DEF TryLocked, flagVars, handleVars
  <2>2. ctx[c] # "cancelled"
    BY <2>1 DEF ContractInv, CallInv
  <2> QED BY <1>1, <2>1, <2>2, LookImplements DEF Contract!ClientStep
<1> QED BY <1>2, <1>3

(* Parking and waking is no business of the contract. *)
LEMMA ParkingImplements ==
  ASSUME ContractInv, NEW c \in Clients, ParkingOnly(c)
  PROVE  Contract!End(c) \/ UNCHANGED Promised
<1>0. tgt[c] \in Receivers /\ TypeInv
  BY DEF ParkingOnly, RecvPark, RecvWake, RecvDefer, ContractInv, TypeInv,
         CallTypes, ReadPCs
<1>1. /\ UNCHANGED <<txClosed, minted, done, key, version, lastSeen, feedVars>>
      /\ \E l : Goto(c, l)
  BY DEF ParkingOnly, RecvPark, RecvWake, RecvDefer, Return, stateVars, hubVars,
         handleVars, slotVars, readVars
<1>2. \A rx \in Receivers : pc'[rx] = pc[rx]
  BY <1>0, <1>1, WhoIsWho DEF Goto, TypeInv, CallTypes
<1>3. UNCHANGED <<TxOf, Contract!rxVars>>
  BY <1>1, <1>2, NothingElse
<1>4. CASE RecvPark(c) \/ RecvWake(c)
  <2>1. /\ pc[c] \in {"recvLock", "recvPark"} /\ UNCHANGED callVars
        /\ \E l \in {"recvLock", "recvPark", "recvDefer"} : Goto(c, l)
    BY <1>4 DEF RecvPark, RecvWake
  <2>2. UNCHANGED <<CallsOf, AnswerOf>>
    BY <1>0, <2>1, CallsMoved, OpIs DEF SendPCs
  <2> QED BY <1>3, <2>2 DEF Promised
<1>5. CASE RecvDefer(c)
  <2>1. /\ CallsOf' = [CallsOf EXCEPT ![c] = Contract!NoCall]
        /\ AnswerOf' = [AnswerOf EXCEPT ![c] = Contract!Answer("ErrClosed", {})]
    BY <1>0, <1>5, CallsReturned, ToldIs DEF RecvDefer, Contract!Answer
  <2>2. HandleOf[tgt[c]] = "closed"
    BY <1>0, <1>5, HandleIs DEF RecvDefer, ContractInv, CallInv, WakeInv, HubInv
  <2>3. CallsOf[c].op = "Recv" /\ CallsOf[c].rx = tgt[c]
    BY <1>5, CallIs, OpIs DEF RecvDefer
  <2> QED BY <1>3, <2>1, <2>2, <2>3
          DEF Contract!End, Contract!In, Contract!ReadOps, Contract!Terminal,
              Contract!Return
<1> QED BY <1>4, <1>5 DEF ParkingOnly

-----------------------------------------------------------------------------
(* Chan and its feeder. *)

(* What a step of the feeder of rx, or of its consumer, leaves alone. *)
LEMMA FeederAlone ==
  ASSUME ContractInv, NEW rx \in Receivers,
         Ranging(rx) \/ FeederOnly(rx) \/ FeedLocked(rx) \/ ChanReceive(rx)
  PROVE  /\ UNCHANGED <<TxOf, HandleOf, CallsOf, AnswerOf>>
         /\ PendingOf' = [PendingOf EXCEPT ![rx] = PendingKeys(rx)']
         /\ OfferOf' = [OfferOf EXCEPT ![rx] =
                          IF pc'[rx] = "feedDeliver" THEN snap'[rx].key ELSE None]
         /\ UNCHANGED <<txClosed, minted, done, slotVars, callVars>>
         /\ \E l : Goto(rx, l) /\ pc'[rx] = l
<1>0. TypeInv /\ pc \in [Procs -> ClientPCs \cup FeederPCs]
  BY DEF ContractInv, TypeInv, CallTypes
<1>1. /\ UNCHANGED <<txClosed, minted, done, slotVars, callVars>>
      /\ \E l : Goto(rx, l)
  BY DEF Ranging, FeederOnly, Chan, FeedProbe, FeedExit, FeedWake, FeedDefer,
         FeedLocked, ChanReceive, stateVars, hubVars, handleVars, flagVars
<1>2. \A r \in Receivers \ {rx} : UNCHANGED <<lastSeen[r], snap[r], delivered[r]>>
  BY <1>0 DEF Ranging, FeederOnly, Chan, FeedProbe, FeedExit, FeedWake, FeedDefer,
         FeedLocked, ChanReceive, stateVars, readVars, feedVars, TypeInv, SlotTypes,
         FeedTypes
<1>3. /\ \A p \in Procs \ {rx} : pc'[p] = pc[p]
      /\ \E l : Goto(rx, l) /\ pc'[rx] = l
  BY <1>0, <1>1, WhoIsWho DEF Goto
<1>4. UNCHANGED <<TxOf, HandleOf, CallsOf, AnswerOf>>
  <2>1. UNCHANGED <<CallsOf, AnswerOf>>
    BY <1>1, <1>3, CallsAlone, WhoIsWho
  <2>2. UNCHANGED <<TxOf, HandleOf>>
    BY <1>1, HandleKept DEF TxOf
  <2> QED BY <2>1, <2>2
<1>5. PendingOf' = [PendingOf EXCEPT ![rx] = PendingKeys(rx)']
  <2>1. \A r \in Receivers \ {rx} : PendingKeys(r)' = PendingKeys(r)
    BY <1>1, <1>2, <1>3, WhoIsWho
       DEF PendingKeys, Offers, Newest, Committed, slotVars
  <2> QED BY <2>1 DEF PendingOf
<1>6. OfferOf' = [OfferOf EXCEPT ![rx] =
                    IF pc'[rx] = "feedDeliver" THEN snap'[rx].key ELSE None]
  BY <1>2, <1>3, WhoIsWho DEF OfferOf, Offers
<1> QED BY <1>1, <1>3, <1>4, <1>5, <1>6

(* What is pending after a step of the feeder. *)
LEMMA PendingThen ==
  ASSUME ContractInv, NEW rx \in Receivers, UNCHANGED <<done, slotVars>>,
         pc'[rx] # "feedDeliver", NEW n \in Nat, Committed(rx)' = n
  PROVE  PendingKeys(rx)' = IF ~done[rx] /\ version[rx] > n THEN {key[rx]} ELSE {}
BY DEF PendingKeys, Offers, Newest, slotVars

(* Chan opens the channel.                                                  *)
LEMMA ChanImplements ==
  ASSUME ContractInv, NEW rx \in Receivers, Ranging(rx)
  PROVE  Contract!OpenChannel(rx)
<1>1. /\ rx \in minted /\ pc[rx] = "feedNone" /\ Goto(rx, "feedProbe")
      /\ UNCHANGED <<stateVars, feedVars>>
  BY DEF Ranging, Chan
<1>2. /\ HandleOf[rx] # "unborn" /\ ChannelOf[rx] = "none"
      /\ ChannelOf' = [ChannelOf EXCEPT ![rx] = "open"]
  <2>1. pc \in [Procs -> ClientPCs \cup FeederPCs] /\ Goto(rx, "feedProbe")
    BY <1>1 DEF ContractInv, TypeInv, CallTypes
  <2>2. ChannelOf' = [ChannelOf EXCEPT ![rx] = "open"]
    BY <2>1 DEF ChannelOf, Goto, Procs
  <2> QED BY <1>1, <2>2, HandleIs, ChannelIs
<1>3. /\ PendingOf' = [PendingOf EXCEPT ![rx] = PendingKeys(rx)']
      /\ OfferOf' = [OfferOf EXCEPT ![rx] =
                       IF pc'[rx] = "feedDeliver" THEN snap'[rx].key ELSE None]
      /\ UNCHANGED <<TxOf, HandleOf, CallsOf, AnswerOf>>
  BY FeederAlone
<1>4. pc'[rx] = "feedProbe"
  BY <1>1, WhoIsWho DEF Goto, ContractInv, TypeInv, CallTypes
<1>5. PendingKeys(rx)' = PendingKeys(rx)
  BY <1>1, <1>4 DEF PendingKeys, Offers, Committed, Newest, stateVars, slotVars,
                    readVars, feedVars
<1>6. OfferOf[rx] = None
  BY <1>1 DEF OfferOf, Offers
<1>7. UNCHANGED <<PendingOf, OfferOf>>
  BY <1>3, <1>4, <1>5, <1>6 DEF PendingOf, OfferOf
<1> QED BY <1>2, <1>3, <1>7 DEF Contract!OpenChannel

(* A feeder that is running ... *)
Runs(rx) == pc[rx] \notin {"feedNone", "feedExited"}

(* ... moves without effect, *)
LEMMA StaysImplements ==
  ASSUME ContractInv, NEW rx \in Receivers, FeederOnly(rx) \/ FeedLocked(rx),
         Runs(rx), pc[rx] # "feedDeliver",
         NEW l \in FeederPCs \ {"feedNone", "feedExited", "feedDeliver"},
         Goto(rx, l), PendingKeys(rx)' = PendingOf[rx]
  PROVE  UNCHANGED Promised
<1>0. pc \in [Procs -> ClientPCs \cup FeederPCs] /\ pc'[rx] = l
  BY WhoIsWho DEF Goto, ContractInv, TypeInv, CallTypes
<1>1. /\ UNCHANGED <<TxOf, HandleOf, CallsOf, AnswerOf>>
      /\ PendingOf' = [PendingOf EXCEPT ![rx] = PendingKeys(rx)']
      /\ OfferOf' = [OfferOf EXCEPT ![rx] =
                       IF pc'[rx] = "feedDeliver" THEN snap'[rx].key ELSE None]
  BY FeederAlone
<1>2. UNCHANGED PendingOf
  BY <1>1 DEF PendingOf
<1>3. OfferOf[rx] = None
  BY DEF OfferOf, Offers
<1>4. UNCHANGED OfferOf
  BY <1>0, <1>1, <1>3 DEF OfferOf
<1>5. UNCHANGED ChannelOf
  <2>1. \A r \in Receivers \ {rx} : pc'[r] = pc[r]
    BY <1>0, WhoIsWho DEF Goto
  <2> QED BY <1>0, <2>1, ChannelKept DEF Runs
<1> QED BY <1>1, <1>2, <1>4, <1>5 DEF Promised, Contract!rxVars

(* ... exits, *)
LEMMA ExitImplements ==
  ASSUME ContractInv, NEW rx \in Receivers, FeederOnly(rx) \/ FeedLocked(rx),
         Runs(rx), Goto(rx, "feedExited"), PendingKeys(rx)' = PendingOf[rx],
         done[rx] \/ (txClosed /\ PendingOf[rx] = {} /\ pc[rx] # "feedDeliver")
  PROVE  Contract!EndChannel(rx)
<1>0. pc \in [Procs -> ClientPCs \cup FeederPCs] /\ pc'[rx] = "feedExited"
  BY WhoIsWho DEF Goto, ContractInv, TypeInv, CallTypes
<1>1. /\ UNCHANGED <<TxOf, HandleOf, CallsOf, AnswerOf>>
      /\ PendingOf' = [PendingOf EXCEPT ![rx] = PendingKeys(rx)']
      /\ OfferOf' = [OfferOf EXCEPT ![rx] =
                       IF pc'[rx] = "feedDeliver" THEN snap'[rx].key ELSE None]
  BY FeederAlone
<1>2. UNCHANGED PendingOf
  BY <1>1 DEF PendingOf
<1>3. ChannelOf' = [ChannelOf EXCEPT ![rx] = "closed"]
  BY <1>0, ChannelMoves
<1>4. HandleOf[rx] = "closed" \/ (Contract!Ended(rx) /\ OfferOf[rx] = None)
  <2>1. CASE done[rx]
    BY <2>1, HandleIs DEF ContractInv, WakeInv, HubInv
  <2>2. CASE txClosed /\ PendingOf[rx] = {} /\ pc[rx] # "feedDeliver"
    BY <2>2 DEF Contract!Ended, TxOf, OfferOf, Offers
  <2> QED BY <2>1, <2>2
<1>5. ChannelOf[rx] = "open"
  BY ChannelIs DEF Runs
<1> QED BY <1>0, <1>1, <1>2, <1>3, <1>4, <1>5 DEF Contract!EndChannel

(* ... withdraws what it offers. *)
LEMMA WithdrawImplements ==
  ASSUME ContractInv, NEW rx \in Receivers, FeedWake(rx), pc[rx] = "feedDeliver",
         NEW l \in FeederPCs \ {"feedNone", "feedExited", "feedDeliver"},
         Goto(rx, l), UNCHANGED delivered \/ done[rx]
  PROVE  Contract!Withdraw(rx)
<1>0. pc \in [Procs -> ClientPCs \cup FeederPCs] /\ pc'[rx] = l /\ TypeInv
  BY WhoIsWho DEF Goto, ContractInv, TypeInv, CallTypes
<1>1. /\ UNCHANGED <<TxOf, HandleOf, CallsOf, AnswerOf>>
      /\ PendingOf' = [PendingOf EXCEPT ![rx] = PendingKeys(rx)']
      /\ OfferOf' = [OfferOf EXCEPT ![rx] =
                       IF pc'[rx] = "feedDeliver" THEN snap'[rx].key ELSE None]
      /\ UNCHANGED <<done, slotVars>>
  BY FeederAlone DEF FeederOnly
<1>2. /\ PendingOf[rx] = IF ~done[rx] /\ version[rx] > snap[rx].ver THEN {key[rx]}
                         ELSE {}
      /\ OfferOf[rx] = snap[rx].key /\ snap[rx].key # None
      /\ snap[rx].ver <= version[rx]
  BY PendingIs DEF Shown
<1>3. UNCHANGED ChannelOf
  <2>1. \A r \in Receivers \ {rx} : pc'[r] = pc[r]
    BY <1>0, WhoIsWho DEF Goto
  <2> QED BY <1>0, <2>1, ChannelKept
<1>4. PendingOf' = IF HandleOf[rx] = "closed" \/ PendingOf[rx] # {} THEN PendingOf
                   ELSE [PendingOf EXCEPT ![rx] = {OfferOf[rx]}]
  <2>1. CASE done[rx]
    <3>1. HandleOf[rx] = "closed"
      BY <2>1, HandleIs DEF ContractInv, WakeInv, HubInv
    <3>2. PendingKeys(rx)' = {}
      BY <1>1, <2>1 DEF PendingKeys
    <3>3. UNCHANGED PendingOf
      BY <1>1, <1>2, <2>1, <3>2 DEF PendingOf
    <3> QED BY <3>1, <3>3
  <2>2. CASE ~done[rx]
    <3>1. /\ lastSeen[rx] < snap[rx].ver /\ snap[rx].ver \in Nat /\ version[rx] \in Nat
          /\ lastSeen[rx] \in Nat /\ delivered[rx] = 0
          /\ snap[rx].ver = version[rx] => snap[rx].key = key[rx]
      <4>1. snap[rx] \in Events /\ delivered[rx] = 0
        BY <1>0, OfferedIsEvent
      <4>2. /\ lastSeen[rx] < snap[rx].ver
            /\ snap[rx].ver = version[rx] => snap[rx] = Slot(rx)
        BY DEF ContractInv, OfferInv
      <4>3. lastSeen[rx] \in Nat /\ version[rx] \in Nat
        BY <1>0 DEF TypeInv, SlotTypes
      <4>4. Slot(rx).key = key[rx] /\ snap[rx].ver \in Nat
        BY <4>1 DEF Slot, Events
      <4> QED BY <4>1, <4>2, <4>3, <4>4
    <3>2. UNCHANGED <<lastSeen, delivered>>
      BY <2>2 DEF FeedWake, stateVars, readVars
    <3>3. Committed(rx)' = lastSeen[rx]
      BY <3>1, <3>2 DEF Committed, Newest
    <3>4. PendingKeys(rx)' = {key[rx]}
      BY <1>0, <1>1, <1>2, <2>2, <3>1, <3>3, PendingThen
    <3>5. HandleOf[rx] # "closed"
      BY <2>2, HandleIs
    <3>6. CASE version[rx] > snap[rx].ver
      <4>1. PendingOf[rx] = {key[rx]}
        BY <1>2, <2>2, <3>6
      <4>2. UNCHANGED PendingOf
        BY <1>1, <3>4, <4>1 DEF PendingOf
      <4> QED BY <4>1, <4>2
    <3>7. CASE snap[rx].ver = version[rx]
      <4>1. PendingOf[rx] = {} /\ OfferOf[rx] = key[rx]
        BY <1>2, <3>1, <3>7
      <4> QED BY <1>1, <3>4, <3>5, <4>1
    <3> QED BY <1>2, <3>1, <3>6, <3>7
  <2> QED BY <2>1, <2>2
<1>5. OfferOf' = [OfferOf EXCEPT ![rx] = None]
  BY <1>0, <1>1
<1> QED BY <1>1, <1>2, <1>3, <1>4, <1>5 DEF Contract!Withdraw

(* A feeder that snapshots nothing withdraws, ends its channel, or is not   *)
(* seen.                                                                    *)
LEMMA FeederOnlyImplements ==
  ASSUME ContractInv, NEW rx \in Receivers, FeederOnly(rx)
  PROVE  \/ UNCHANGED Promised \/ Contract!Withdraw(rx) \/ Contract!EndChannel(rx)
<1>0. /\ TypeInv /\ lastSeen[rx] \in Nat /\ delivered[rx] \in Nat
      /\ version[rx] \in Nat
      /\ UNCHANGED <<done, slotVars>>
      /\ delivered \in [Receivers -> Nat] /\ pc \in [Procs -> ClientPCs \cup FeederPCs]
  BY FeederAlone DEF ContractInv, TypeInv, SlotTypes, FeedTypes, CallTypes
<1>1. /\ PendingOf[rx] = IF ~done[rx] /\ version[rx] > Shown(rx) THEN {key[rx]}
                         ELSE {}
      /\ pc[rx] # "feedDeliver" => Shown(rx) = Committed(rx)
      /\ Committed(rx) \in Nat
  BY <1>0, PendingIs, HandedTypes DEF Shown
<1>2. done[rx] => PendingKeys(rx)' = {} /\ PendingOf[rx] = {}
  BY <1>0, <1>1 DEF PendingKeys
<1>3. ASSUME UNCHANGED <<lastSeen, delivered>>, pc[rx] # "feedDeliver",
             NEW l \in FeederPCs \ {"feedDeliver"}, Goto(rx, l)
      PROVE  PendingKeys(rx)' = PendingOf[rx]
  <2>1. Committed(rx)' = Committed(rx) /\ pc'[rx] = l
    BY <1>0, <1>3, WhoIsWho DEF Committed, Newest, Goto
  <2> QED BY <1>0, <1>1, <1>3, <2>1, PendingThen
<1>4. CASE FeedProbe(rx)
  <2>1. CASE done[rx] /\ FeedExit(rx)
    <3>1. Runs(rx) /\ pc[rx] # "feedDeliver"
      BY <1>4 DEF FeedProbe, Runs
    <3>2. Goto(rx, "feedDefer") \/ Goto(rx, "feedExited")
      BY <2>1 DEF FeedExit
    <3>3. "feedDefer" \in FeederPCs \ {"feedNone", "feedExited", "feedDeliver"}
      BY DEF FeederPCs
    <3> QED BY <1>2, <2>1, <3>1, <3>2, <3>3, StaysImplements, ExitImplements
  <2>2. CASE ~done[rx] /\ Goto(rx, "feedLock") /\ UNCHANGED feedVars
    <3>1. Runs(rx) /\ pc[rx] # "feedDeliver" /\ UNCHANGED <<lastSeen, delivered>>
      BY <1>4, <2>2 DEF FeedProbe, Runs, stateVars, readVars, feedVars
    <3>2. "feedLock" \in FeederPCs \ {"feedNone", "feedExited", "feedDeliver"}
      BY DEF FeederPCs
    <3>3. PendingKeys(rx)' = PendingOf[rx]
      BY <1>3, <2>2, <3>1, <3>2
    <3> QED BY <2>2, <3>1, <3>2, <3>3, StaysImplements
  <2> QED BY <1>4, <2>1, <2>2 DEF FeedProbe
<1>5. CASE FeedWake(rx)
  <2>0. Runs(rx) /\ {"feedDefer", "feedProbe"} \subseteq
                       FeederPCs \ {"feedNone", "feedExited", "feedDeliver"}
    BY <1>5 DEF FeedWake, Runs, FeederPCs
  <2>1. CASE Goto(rx, "feedProbe") /\ UNCHANGED delivered
    <3>1. CASE pc[rx] = "feedDeliver"
      BY <1>5, <2>0, <2>1, <3>1, WithdrawImplements
    <3>2. CASE pc[rx] # "feedDeliver"
      <4>1. UNCHANGED lastSeen
        BY <1>5 DEF FeedWake, stateVars, readVars
      <4>2. PendingKeys(rx)' = PendingOf[rx]
        BY <1>3, <2>0, <2>1, <3>2, <4>1
      <4> QED BY <2>0, <2>1, <3>2, <4>2, StaysImplements
    <3> QED BY <3>1, <3>2
  <2>2. CASE done[rx] /\ FeedExit(rx)
    <3>1. Goto(rx, "feedDefer") \/ Goto(rx, "feedExited")
      BY <2>2 DEF FeedExit
    <3>2. CASE Goto(rx, "feedExited")
      BY <1>2, <2>0, <2>2, <3>2, ExitImplements
    <3>3. CASE Goto(rx, "feedDefer") /\ pc[rx] = "feedDeliver"
      BY <1>5, <2>0, <2>2, <3>3, WithdrawImplements
    <3>4. CASE Goto(rx, "feedDefer") /\ pc[rx] # "feedDeliver"
      BY <1>2, <2>0, <2>2, <3>4, StaysImplements
    <3> QED BY <3>1, <3>2, <3>3, <3>4
  <2> QED BY <1>5, <2>1, <2>2 DEF FeedWake
<1>6. CASE FeedDefer(rx)
  <2>1. /\ Runs(rx) /\ Goto(rx, "feedExited") /\ done[rx]
    BY <1>6 DEF FeedDefer, Runs, ContractInv, CallInv
  <2> QED BY <1>2, <2>1, ExitImplements
<1> QED BY <1>4, <1>5, <1>6 DEF FeederOnly

(* The iteration under the mutex looks at the slot and commits: it offers   *)
(* what is pending, or ends the stream when nothing will be.                *)
LEMMA FeedLockedImplements ==
  ASSUME ContractInv, NEW rx \in Receivers, FeedLocked(rx)
  PROVE  \/ UNCHANGED Promised \/ Contract!Offer(rx) \/ Contract!EndChannel(rx)
<1>0. /\ TypeInv /\ lastSeen \in [Receivers -> Nat] /\ delivered \in [Receivers -> Nat]
      /\ version[rx] \in Nat /\ Committed(rx) \in Nat
      /\ pc \in [Procs -> ClientPCs \cup FeederPCs]
      /\ UNCHANGED <<done, slotVars>>
  BY HandedTypes, FeederAlone DEF ContractInv, TypeInv, SlotTypes, FeedTypes, CallTypes
<1>1. /\ pc[rx] = "feedLock" /\ Runs(rx)
      /\ lastSeen' = [lastSeen EXCEPT ![rx] = Committed(rx)]
      /\ delivered' = [delivered EXCEPT ![rx] = 0]
  BY FeederLocks DEF Runs
<1>2. Committed(rx)' = Committed(rx)
  BY <1>0, <1>1 DEF Committed, Newest
<1>3. PendingOf[rx] = IF ~done[rx] /\ version[rx] > Committed(rx) THEN {key[rx]} ELSE {}
  BY <1>1, PendingIs DEF Shown
<1>4. pc'[rx] # "feedDeliver" => PendingKeys(rx)' = PendingOf[rx]
  BY <1>0, <1>2, <1>3, PendingThen
<1>5. CASE FeedVerdict(rx) \in {"closed", "drained"} /\ Goto(rx, "feedExited")
  <2>1. done[rx] \/ (txClosed /\ ~(version[rx] > Committed(rx)))
    BY <1>5 DEF FeedVerdict
  <2>2. pc'[rx] = "feedExited"
    BY <1>0, <1>5, WhoIsWho DEF Goto
  <2> QED BY <1>1, <1>3, <1>4, <1>5, <2>1, <2>2, ExitImplements
<1>6. CASE FeedVerdict(rx) = "empty" /\ Goto(rx, "feedPark")
  <2>1. pc'[rx] = "feedPark" /\ "feedPark" \in FeederPCs \ {"feedNone", "feedExited",
                                                            "feedDeliver"}
    BY <1>0, <1>6, WhoIsWho DEF Goto, FeederPCs
  <2> QED BY <1>1, <1>4, <1>6, <2>1, StaysImplements
<1>7. CASE /\ FeedVerdict(rx) = "value" /\ Goto(rx, "feedDeliver")
           /\ snap' = [snap EXCEPT ![rx] = Slot(rx)]
  <2>1. ~done[rx] /\ version[rx] > Committed(rx)
    BY <1>7 DEF FeedVerdict
  <2>2. pc'[rx] = "feedDeliver" /\ snap'[rx] = Slot(rx)
    BY <1>0, <1>7, WhoIsWho DEF Goto, TypeInv, FeedTypes
  <2>3. rx \in minted /\ Slot(rx).key = key[rx] /\ Slot(rx).ver = version[rx]
    BY <1>0, <2>1 DEF TypeInv, SlotTypes, Slot
  <2>4. PendingKeys(rx)' = {}
    BY <1>0, <1>2, <2>1, <2>2, <2>3 DEF PendingKeys, Offers, Newest, slotVars
  <2>5. /\ UNCHANGED <<TxOf, HandleOf, CallsOf, AnswerOf>>
        /\ PendingOf' = [PendingOf EXCEPT ![rx] = PendingKeys(rx)']
        /\ OfferOf' = [OfferOf EXCEPT ![rx] =
                         IF pc'[rx] = "feedDeliver" THEN snap'[rx].key ELSE None]
    BY FeederAlone
  <2>6. PendingOf[rx] = {key[rx]} /\ PendingOf' = [PendingOf EXCEPT ![rx] = @ \ {key[rx]}]
    BY <1>3, <2>1, <2>4, <2>5
  <2>7. OfferOf' = [OfferOf EXCEPT ![rx] = key[rx]] /\ OfferOf[rx] = None
    BY <1>1, <2>2, <2>3, <2>5 DEF OfferOf, Offers
  <2>8. HandleOf[rx] = "open" /\ ChannelOf[rx] = "open"
    BY <1>1, <2>1, <2>3, HandleIs, ChannelIs
  <2>9. UNCHANGED ChannelOf
    <3>1. \A r \in Receivers \ {rx} : pc'[r] = pc[r]
      BY <1>0, <1>7, WhoIsWho DEF Goto
    <3> QED BY <1>1, <2>2, <3>1, ChannelKept
  <2>10. Contract!Offer(rx)
    BY <2>5, <2>6, <2>7, <2>8, <2>9 DEF Contract!Offer
  <2> QED BY <2>10
<1> QED BY <1>5, <1>6, <1>7, FeederLocks

(* A receive from the channel is the contract's Deliver.                    *)
LEMMA DeliverImplements ==
  ASSUME ContractInv, NEW rx \in Receivers, ChanReceive(rx)
  PROVE  Contract!Deliver(rx)
<1>0. /\ TypeInv /\ lastSeen[rx] \in Nat /\ delivered \in [Receivers -> Nat]
      /\ pc \in [Procs -> ClientPCs \cup FeederPCs]
  BY DEF ContractInv, TypeInv, SlotTypes, FeedTypes, CallTypes
<1>1. /\ pc[rx] = "feedDeliver" /\ Goto(rx, "feedProbe") /\ UNCHANGED lastSeen
      /\ delivered' = [delivered EXCEPT ![rx] = snap[rx].ver]
  BY DEF ChanReceive
<1>2. /\ UNCHANGED <<TxOf, HandleOf, CallsOf, AnswerOf>>
      /\ PendingOf' = [PendingOf EXCEPT ![rx] = PendingKeys(rx)']
      /\ OfferOf' = [OfferOf EXCEPT ![rx] =
                       IF pc'[rx] = "feedDeliver" THEN snap'[rx].key ELSE None]
      /\ UNCHANGED <<done, slotVars>>
  BY FeederAlone
<1>3. pc'[rx] = "feedProbe" /\ \A r \in Receivers \ {rx} : pc'[r] = pc[r]
  BY <1>0, <1>1, WhoIsWho DEF Goto
<1>4. /\ PendingOf[rx] = IF ~done[rx] /\ version[rx] > snap[rx].ver THEN {key[rx]}
                         ELSE {}
      /\ OfferOf[rx] # None /\ snap[rx].ver \in Nat
  BY <1>1, PendingIs DEF Shown
<1>5. Committed(rx)' = snap[rx].ver
  <2>1. lastSeen[rx] < snap[rx].ver
    BY <1>1 DEF ContractInv, OfferInv
  <2>2. lastSeen'[rx] = lastSeen[rx] /\ delivered'[rx] = snap[rx].ver
    BY <1>0, <1>1
  <2> QED BY <1>0, <1>4, <2>1, <2>2 DEF Committed, Newest
<1>6. PendingKeys(rx)' = PendingOf[rx]
  BY <1>2, <1>3, <1>4, <1>5, PendingThen
<1>7. UNCHANGED PendingOf
  BY <1>2, <1>6 DEF PendingOf
<1>8. OfferOf' = [OfferOf EXCEPT ![rx] = None]
  BY <1>2, <1>3
<1>9. UNCHANGED ChannelOf
  BY <1>1, <1>3, ChannelKept
<1> QED BY <1>2, <1>4, <1>7, <1>8, <1>9 DEF Contract!Deliver

-----------------------------------------------------------------------------
(* Every step preserves the invariant the refinement rests on.              *)
LEMMA NextContractInv ==
  ASSUME ReadsOneWay, ContractInv, [Next]_vars PROVE ContractInv'
BY NextTypeInv, NextWakeInv, NextMarkInv, NextSeparate, NextCallInv, NextOfferInv
   DEF ContractInv, ReadsOneWay

(* The invariant of the refinement holds in a bus that has only been made.  *)
LEMMA InitContractInv == Init => ContractInv
BY InitTypeInv, InitWakeInv, InitMarkInv, InitRising, InitCallInv, InitOfferInv
   DEF ContractInv

(* A bus that has only been made is the contract's initial state.           *)
LEMMA InitImplements == Init => Contract!Init
<1> SUFFICES ASSUME Init PROVE Contract!Init
  OBVIOUS
<1>1. ContractInv
  BY InitContractInv
<1>2. TxOf = "open"
  BY DEF Init, TxOf
<1>3. HandleOf = [rx \in Receivers |-> "unborn"]
  BY DEF Init, HandleOf
<1>4. PendingOf = [rx \in Receivers |-> {}]
  <2>1. ASSUME NEW rx \in Receivers PROVE PendingKeys(rx) = {}
    <3>1. version[rx] = 0 /\ lastSeen[rx] = 0 /\ delivered[rx] = 0 /\ pc[rx] = "feedNone"
      BY WhoIsWho DEF Init
    <3> QED BY <3>1 DEF PendingKeys, Offers, Newest, Committed
  <2> QED BY <2>1 DEF PendingOf
<1>5. ChannelOf = [rx \in Receivers |-> "none"] /\ OfferOf = [rx \in Receivers |-> None]
  <2>1. \A rx \in Receivers : pc[rx] = "feedNone"
    BY WhoIsWho DEF Init
  <2> QED BY <2>1 DEF ChannelOf, OfferOf, Offers
<1>6. CallsOf = [c \in Clients |-> Contract!NoCall]
  <2>1. \A c \in Clients : CallsOf[c] = Contract!NoCall
    BY <1>1, Free, WhoIsWho DEF Init
  <2> QED BY <2>1 DEF CallsOf
<1>7. AnswerOf = [c \in Clients |-> Contract!Nil]
  <2>1. Told(Ok) = Contract!Nil
    BY ToldIs DEF Ok, Contract!Nil, Contract!Answer
  <2> QED BY <2>1 DEF Init, AnswerOf, Told
<1> QED BY <1>2, <1>3, <1>4, <1>5, <1>6, <1>7 DEF Contract!Init

(* Every step of the bus is a step of the contract, or none.                *)
LEMMA NextImplements ==
  ASSUME ReadsOneWay, ContractInv, [Next]_vars
  PROVE  Contract!Next \/ UNCHANGED Promised
<1>1. ASSUME NEW c \in Clients, QuietStep(c) PROVE Contract!Next
  BY <1>1, QuietImplements DEF Contract!Next
<1>2. ASSUME NEW c \in Clients, Watching(c) PROVE Contract!Next
  <2>1. \E rx \in Receivers : Contract!Mint(rx)
    BY <1>2, WatchImplements DEF Watching
  <2> QED BY <2>1 DEF Contract!Next, Contract!HandleStep
<1>3. ASSUME NEW c \in Clients, ClosingHub(c) \/ CloseSender(c) \/ ClosingOne(c)
      PROVE  Contract!Next \/ UNCHANGED Promised
  BY <1>3, ClosersImplement DEF Contract!Next, Contract!HandleStep
<1>4. ASSUME NEW c \in Clients, SendLocked(c) PROVE Contract!Next
  BY <1>4, SendImplements DEF Contract!Next, Contract!ClientStep
<1>5. ASSUME NEW c \in Clients, RecvLocked(c) \/ TryLocked(c) PROVE Contract!Next
  BY <1>5, ReadImplements DEF Contract!Next
<1>6. ASSUME NEW c \in Clients, ParkingOnly(c)
      PROVE  Contract!Next \/ UNCHANGED Promised
  BY <1>6, ParkingImplements DEF Contract!Next, Contract!ClientStep
<1>7. ASSUME NEW rx \in Receivers, Ranging(rx) PROVE Contract!Next
  BY <1>7, ChanImplements DEF Contract!Next, Contract!HandleStep
<1>8. ASSUME NEW rx \in Receivers, FeederOnly(rx)
      PROVE  Contract!Next \/ UNCHANGED Promised
  BY <1>8, FeederOnlyImplements DEF Contract!Next, Contract!HandleStep
<1>9. ASSUME NEW rx \in Receivers, FeedLocked(rx)
      PROVE  Contract!Next \/ UNCHANGED Promised
  BY <1>9, FeedLockedImplements DEF Contract!Next, Contract!HandleStep
<1>10. ASSUME NEW rx \in Receivers, ChanReceive(rx) PROVE Contract!Next
  BY <1>10, DeliverImplements DEF Contract!Next, Contract!HandleStep
<1>11. CASE UNCHANGED vars
  <2>1. UNCHANGED <<TxOf, Contract!rxVars>>
    BY <1>11, NothingElse DEF vars, stateVars, hubVars, handleVars, slotVars, readVars
  <2>2. UNCHANGED <<CallsOf, AnswerOf>>
    BY <1>11, CallsAlone DEF vars
  <2> QED BY <2>1, <2>2 DEF Promised
<1> QED BY <1>1, <1>2, <1>3, <1>4, <1>5, <1>6, <1>7, <1>8, <1>9, <1>10, <1>11,
           StepKinds

(* The watch bus keeps the promises of the gobus interfaces, through every  *)
(* interleaving of lock-free reads, critical sections, parks, wake-ups and  *)
(* closes: each call of Send, Recv, TryRecv, Peek, Close and Chan is        *)
(* answered by the state of one instant inside it, with the precedence      *)
(* closed > cancelled > value (Sender and Receiver in gobus.go).            *)
THEOREM ImplementsTheContract ==
  ASSUME ReadsOneWay PROVE Spec => ImplementsContract
<1>1. Init => Contract!Init /\ ContractInv
  BY InitImplements, InitContractInv
<1>2. ContractInv /\ [Next]_vars => ContractInv' /\ [Contract!Next]_(Contract!vars)
  BY NextImplements, NextContractInv DEF Promised, Contract!vars
<1> QED BY <1>1, <1>2, PTL DEF Spec, ImplementsContract, Contract!Spec
=============================================================================
