------------------------------ MODULE BusProofs ------------------------------
(***************************************************************************)
(* What parking and waking keep true on both buses, for any number of      *)
(* clients and receivers: the waiter count, and that a signal skipped      *)
(* because the count is zero would have woken nobody.                      *)
(***************************************************************************)
EXTENDS Bus, FiniteSetTheorems, TLAPS

(* Where a client may be while it is counted. *)
CountedPCs == {"recvLock", "recvPark", "recvDefer"}

(* The goroutines that have parked on rx and not been back since. *)
Counted(rx) == {p \in Procs : parked[p] /\ Reads(p, rx)}

WakeTypes ==
  /\ waiters \in [Receivers -> Int]
  /\ asleep \in [Receivers -> SUBSET Procs]
  /\ parked \in [Procs -> BOOLEAN]
  /\ tgt \in [Clients -> Receivers \cup {None}]

(* WaitersExact is not inductive: a call that begins or returns forgets its *)
(* receiver, so nobody may still be counted then.  Whoever sleeps is        *)
(* counted, on the receiver it reads and at a select; At are the selects of *)
(* a bus that listen to notify.                                             *)
ParkInv(At) ==
  /\ WaitersExact
  /\ \A c \in Clients : parked[c] => pc[c] \in CountedPCs
  /\ \A rx \in Receivers : \A p \in asleep[rx] :
       parked[p] /\ Reads(p, rx) /\ pc[p] \in At
  /\ \A c \in Clients : tgt[c] # None => tgt[c] \in minted
  /\ \A rx \in Receivers : pc[rx] # "feedNone" => rx \in minted

-----------------------------------------------------------------------------
(* The counted goroutines are finitely many, and counted by a number. *)
LEMMA CountedFinite ==
  ASSUME NEW rx PROVE IsFiniteSet(Counted(rx)) /\ Cardinality(Counted(rx)) \in Nat
<1>1. IsFiniteSet(Procs)
  BY BusAssumption, FS_Union DEF Procs
<1>2. Counted(rx) \in SUBSET Procs
  BY DEF Counted
<1> QED BY <1>1, <1>2, FS_Subset, FS_CardinalityType

(* A receiver without waiters has nobody asleep on it, so signalLocked,     *)
(* which then skips the broadcast, always leaves everybody awake.           *)
LEMMA SignalWakesAll ==
  ASSUME WakeTypes, NEW At, ParkInv(At), NEW rx \in Receivers
  PROVE  Signalled(rx) = {}
<1> SUFFICES ASSUME waiters[rx] = 0 PROVE asleep[rx] = {}
  BY DEF Signalled
<1>1. Cardinality(Counted(rx)) = 0
  BY DEF ParkInv, WaitersExact, Counted
<1>2. Counted(rx) = {}
  BY <1>1, CountedFinite, FS_EmptySet
<1>3. asleep[rx] \subseteq Counted(rx)
  BY DEF ParkInv, Counted, WakeTypes
<1> QED BY <1>2, <1>3

(* A step of p in which everybody else stays where it is, counted or not:   *)
(* the count is right again if it changes by what p's own flag does.        *)
LEMMA CountStep ==
  ASSUME WakeTypes, WaitersExact, NEW p \in Procs, NEW rx \in Receivers,
         parked' \in [Procs -> BOOLEAN],
         Reads(p, rx), parked'[p] => Reads(p, rx)',
         \A r \in Procs \ {p} : parked'[r] = parked[r],
         \A r \in Clients \ {p} : tgt'[r] = tgt[r],
         waiters' = [waiters EXCEPT ![rx] = IF parked'[p]
                                            THEN WaitersLess(p, rx) + 1
                                            ELSE WaitersLess(p, rx)]
  PROVE  WaitersExact'
<1> SUFFICES ASSUME NEW s \in Receivers
             PROVE  waiters'[s] = Cardinality(Counted(s)')
  BY DEF WaitersExact, Counted
<1>0. waiters[s] = Cardinality(Counted(s)) /\ waiters[s] \in Int
  BY DEF WaitersExact, Counted, WakeTypes
<1>1. \A r \in Procs \ {p} : r \in Counted(s)' <=> r \in Counted(s)
  BY DEF Counted, Reads, Procs
<1>2. (p \notin Counted(s) /\ p \notin Counted(s)') \/ s = rx
  BY BusAssumption DEF Counted, Reads
<1>3. CASE s # rx
  <2>1. Counted(s)' = Counted(s)
    BY <1>1, <1>2, <1>3 DEF Counted
  <2>2. waiters'[s] = waiters[s]
    BY <1>3 DEF WakeTypes
  <2> QED BY <1>0, <2>1, <2>2
<1>4. CASE s = rx
  <2>1. p \in Counted(rx) <=> parked[p]
    BY DEF Counted
  <2>2. p \in Counted(rx)' <=> parked'[p]
    BY DEF Counted
  <2> DEFINE rest == Counted(rx) \ {p}
  <2>3. Counted(rx)' = IF parked'[p] THEN rest \cup {p} ELSE rest
    BY <1>1, <1>4, <2>2 DEF Counted
  <2>4. /\ IsFiniteSet(rest) /\ Cardinality(rest) \in Nat
        /\ Cardinality(rest) = IF parked[p] THEN Cardinality(Counted(rx)) - 1
                               ELSE Cardinality(Counted(rx))
    BY <2>1, CountedFinite, FS_RemoveElement, FS_CardinalityType
  <2>5. Cardinality(rest \cup {p}) = Cardinality(rest) + 1
    BY <2>4, FS_AddElement
  <2>6. WaitersLess(p, rx) = Cardinality(rest)
    BY <1>0, <1>4, <2>4 DEF WaitersLess, WakeTypes
  <2>7. waiters'[rx] = IF parked'[p] THEN Cardinality(rest) + 1
                       ELSE Cardinality(rest)
    BY <2>6 DEF WakeTypes
  <2> QED BY <1>4, <2>3, <2>5, <2>7
<1> QED BY <1>3, <1>4

(* A step that neither parks nor unparks anybody leaves the count right, if *)
(* the client whose call begins or ends in it is not counted.               *)
LEMMA CountKept ==
  ASSUME WakeTypes, WaitersExact, UNCHANGED <<waiters, parked>>,
         \A c \in Clients : tgt'[c] = tgt[c] \/ ~parked[c]
  PROVE  WaitersExact'
<1>1. ASSUME NEW rx \in Receivers PROVE Counted(rx)' = Counted(rx)
  BY DEF Counted, Reads, Procs
<1> QED BY <1>1 DEF WaitersExact, Counted

(* ParkInv survives a step of one goroutine p that keeps its half of it.    *)
LEMMA ParkStep ==
  ASSUME WakeTypes, NEW At, ParkInv(At), NEW p \in Procs, WaitersExact',
         NEW L, pc \in [Procs -> L], \E l : Goto(p, l),
         \A r \in Procs \ {p} : parked'[r] = parked[r],
         \A r \in Clients \ {p} : tgt'[r] = tgt[r],
         minted \subseteq minted', asleep' \in [Receivers -> SUBSET Procs],
         \A rx \in Receivers : asleep'[rx] \subseteq asleep[rx] \cup {p},
         \A rx \in Receivers : p \in asleep'[rx] =>
           parked'[p] /\ Reads(p, rx)' /\ pc'[p] \in At,
         p \in Clients => /\ parked'[p] => pc'[p] \in CountedPCs
                          /\ tgt'[p] # None => tgt'[p] \in minted',
         p \in Receivers => p \in minted
  PROVE  ParkInv(At)'
<1>1. \A r \in Procs \ {p} : pc'[r] = pc[r]
  BY DEF Goto
<1>2. ASSUME NEW rx \in Receivers, NEW r \in asleep'[rx]
      PROVE  parked'[r] /\ Reads(r, rx)' /\ pc'[r] \in At
  <2>1. CASE r = p
    BY <1>2, <2>1
  <2>2. CASE r # p
    <3>1. r \in asleep[rx] /\ r \in Procs \ {p}
      BY <1>2, <2>2 DEF WakeTypes
    <3>2. parked[r] /\ Reads(r, rx) /\ pc[r] \in At
      BY <3>1 DEF ParkInv
    <3> QED BY <1>1, <3>1, <3>2 DEF Reads, Procs
  <2> QED BY <2>1, <2>2
<1>3. \A c \in Clients : parked'[c] => pc'[c] \in CountedPCs
  BY <1>1 DEF ParkInv, Procs
<1>4. \A c \in Clients : tgt'[c] # None => tgt'[c] \in minted'
  BY DEF ParkInv
<1>5. \A rx \in Receivers : pc'[rx] # "feedNone" => rx \in minted'
  BY <1>1 DEF ParkInv, Procs
<1> QED BY <1>2, <1>3, <1>4, <1>5 DEF ParkInv

(* ParkInv survives a step that moves nobody. *)
LEMMA ParkKept ==
  ASSUME WakeTypes, NEW At, ParkInv(At), UNCHANGED <<waiters, parked, pc, tgt>>,
         minted \subseteq minted', asleep' \in [Receivers -> SUBSET Procs],
         \A rx \in Receivers : asleep'[rx] \subseteq asleep[rx]
  PROVE  ParkInv(At)'
<1>1. WaitersExact'
  BY CountKept DEF ParkInv
<1> QED BY <1>1 DEF ParkInv, Reads, WakeTypes

(* ParkInv survives a step of p that neither parks nor unparks it: p leaves *)
(* its select awake, and a counted client stays in its call.                *)
LEMMA MoveStep ==
  ASSUME WakeTypes, NEW At, ParkInv(At), NEW p \in Procs,
         NEW L, pc \in [Procs -> L], \E l : Goto(p, l),
         UNCHANGED <<waiters, parked>>,
         \A r \in Clients \ {p} : tgt'[r] = tgt[r],
         minted \subseteq minted', asleep' \in [Receivers -> SUBSET Procs],
         \A rx \in Receivers : asleep'[rx] \subseteq asleep[rx],
         pc[p] \in At => \A rx \in Receivers : Reads(p, rx) => p \notin asleep'[rx],
         p \in Clients =>
           /\ pc[p] \in CountedPCs => tgt'[p] = tgt[p] /\ pc'[p] \in CountedPCs
           /\ tgt'[p] # tgt[p] => tgt'[p] \in minted \cup {None},
         p \in Receivers => p \in minted
  PROVE  ParkInv(At)'
<1>1. ASSUME NEW c \in Clients PROVE tgt'[c] = tgt[c] \/ ~parked[c]
  BY DEF ParkInv
<1>2. WaitersExact'
  BY <1>1, CountKept DEF ParkInv
<1>3. \A rx \in Receivers : p \notin asleep'[rx]
  BY DEF ParkInv
<1>4. p \in Clients => /\ parked'[p] => pc'[p] \in CountedPCs
                       /\ tgt'[p] # None => tgt'[p] \in minted'
  BY DEF ParkInv
<1>5. \A r \in Procs \ {p} : parked'[r] = parked[r]
  OBVIOUS
<1>6. \A rx \in Receivers : asleep'[rx] \subseteq asleep[rx] \cup {p}
  OBVIOUS
<1> QED BY <1>2, <1>3, <1>4, <1>5, <1>6, ParkStep

(* ParkInv survives p parking on the receiver it reads, at a select. *)
LEMMA ParkingStep ==
  ASSUME WakeTypes, NEW At, ParkInv(At), NEW p \in Procs, NEW rx \in Receivers,
         NEW L, pc \in [Procs -> L], NEW l \in At, Goto(p, l),
         Park(p, rx), Reads(p, rx), UNCHANGED <<tgt, minted>>,
         p \in Clients => l \in CountedPCs /\ rx \in minted,
         p \in Receivers => p \in minted
  PROVE  ParkInv(At)'
<1>1. /\ parked' \in [Procs -> BOOLEAN] /\ parked'[p]
      /\ \A r \in Procs \ {p} : parked'[r] = parked[r]
      /\ asleep' \in [Receivers -> SUBSET Procs]
      /\ \A r \in Receivers : r # rx => asleep'[r] = asleep[r]
      /\ asleep'[rx] = asleep[rx] \cup {p}
      /\ pc'[p] = l
  BY DEF Park, WakeTypes, Goto
<1>2. \A r \in Receivers : Reads(p, r)' <=> Reads(p, r)
  BY DEF Reads
<1>3. WaitersExact'
  BY <1>1, <1>2, CountStep DEF Park, ParkInv
<1>4. ASSUME NEW r \in Receivers, p \in asleep'[r]
      PROVE  parked'[p] /\ Reads(p, r)' /\ pc'[p] \in At
  <2>1. Reads(p, r)
    BY <1>1, <1>4 DEF ParkInv
  <2> QED BY <1>1, <1>2, <2>1
<1>5. \A r \in Receivers : asleep'[r] \subseteq asleep[r] \cup {p}
  BY <1>1
<1>6. p \in Clients => tgt'[p] = rx
  BY DEF Reads
<1> QED BY <1>1, <1>3, <1>4, <1>5, <1>6, ParkStep

(* ParkInv survives p, awake and under the mutex, giving up its count. *)
LEMMA UnparkingStep ==
  ASSUME WakeTypes, NEW At, ParkInv(At), NEW p \in Procs, NEW rx \in Receivers,
         NEW L, pc \in [Procs -> L], \E l : Goto(p, l), pc[p] \notin At,
         Unpark(p, rx), Reads(p, rx), UNCHANGED <<asleep, minted>>,
         \A r \in Clients \ {p} : tgt'[r] = tgt[r],
         p \in Clients => tgt'[p] = None,
         p \in Receivers => p \in minted
  PROVE  ParkInv(At)'
<1>1. /\ parked' \in [Procs -> BOOLEAN] /\ ~parked'[p]
      /\ \A r \in Procs \ {p} : parked'[r] = parked[r]
      /\ asleep' \in [Receivers -> SUBSET Procs]
  BY DEF Unpark, WakeTypes
<1>2. WaitersExact'
  BY <1>1, CountStep DEF Unpark, ParkInv
<1>3. \A r \in Receivers : p \notin asleep'[r] /\ asleep'[r] \subseteq asleep[r] \cup {p}
  BY DEF ParkInv
<1> QED BY <1>1, <1>2, <1>3, ParkStep

-----------------------------------------------------------------------------
(* The refinement mapping of both buses: what it makes of a state, and what *)
(* a step does to it that begins, moves or ends one call.                   *)

LEMMA HandleIs ==
  ASSUME NEW rx \in Receivers
  PROVE  /\ HandleOf[rx] = "unborn" <=> rx \notin minted
         /\ HandleOf[rx] = "closed" <=> rx \in minted /\ done[rx]
         /\ HandleOf[rx] = "open" <=> rx \in minted /\ ~done[rx]
BY DEF HandleOf

(* A handle's state follows minted and done alone.                          *)
LEMMA HandleKept == ASSUME UNCHANGED <<minted, done>> PROVE UNCHANGED HandleOf
BY DEF HandleOf

(* A channel's state is read off its feeder's program counter.              *)
LEMMA ChannelIs ==
  ASSUME NEW rx \in Receivers
  PROVE  /\ ChannelOf[rx] = "none" <=> pc[rx] = "feedNone"
         /\ ChannelOf[rx] = "closed" <=> pc[rx] = "feedExited"
         /\ ChannelOf[rx] = "open" <=> pc[rx] \notin {"feedNone", "feedExited"}
BY DEF ChannelOf

(* A feeder that moves between two live labels leaves its channel as it is. *)
LEMMA ChannelKept ==
  ASSUME \A rx \in Receivers :
           \/ pc'[rx] = pc[rx]
           \/ /\ pc[rx] \notin {"feedNone", "feedExited"}
              /\ pc'[rx] \notin {"feedNone", "feedExited"}
  PROVE  UNCHANGED ChannelOf
BY DEF ChannelOf

OpOf(l) == IF l \in DOMAIN OpAt THEN OpAt[l] ELSE "none"

(* The operation a client is in, by its label.                              *)
LEMMA OpIs ==
  /\ OpOf("idle") = "none" /\ OpOf("hubClosing") = "none"
  /\ OpOf("sendLock") = "Send" /\ OpOf("sendCtx") = "SendNothing"
  /\ OpOf("recvLock") = "Recv" /\ OpOf("recvPark") = "Recv"
  /\ OpOf("recvDefer") = "Recv" /\ OpOf("tryRecvLock") = "TryRecv"
  /\ OpOf("tryRecvAllLock") = "TryRecvAll" /\ OpOf("peekLock") = "Peek"
BY DEF OpOf, OpAt

(* What a client has been answered. *)
Told(r) == [err |-> r.err, keys |-> {e.key : e \in Range(r.evs)}]

(* A return changes the answer of its own client only.                      *)
LEMMA AnswerReturned ==
  ASSUME NEW c \in Clients, NEW R, ret \in [Clients -> R], NEW r,
         ret' = [ret EXCEPT ![c] = r]
  PROVE  AnswerOf' = [AnswerOf EXCEPT ![c] = Told(r)]
BY DEF AnswerOf, Told

(* What a result of no event, and of one, tells its caller.                 *)
LEMMA ToldIs ==
  /\ \A err : Told(Result(err, <<>>)) = [err |-> err, keys |-> {}]
  /\ \A err, e : Told(Result(err, <<e>>)) = [err |-> err, keys |-> {e.key}]
<1>1. Range(<<>>) = {} /\ \A e : Range(<<e>>) = {e}
  BY DEF Range
<1>2. ASSUME NEW err PROVE Told(Result(err, <<>>)) = [err |-> err, keys |-> {}]
  BY <1>1 DEF Told, Result
<1>3. ASSUME NEW err, NEW e
      PROVE  Told(Result(err, <<e>>)) = [err |-> err, keys |-> {e.key}]
  <2>1. {f.key : f \in Range(<<e>>)} = {e.key}
    BY <1>1
  <2> QED BY <2>1 DEF Told, Result
<1> QED BY <1>2, <1>3

(* Minting opens one handle, or closes it at once when the hub is closed.   *)
LEMMA HandleBorn ==
  ASSUME NEW rx \in Receivers, minted' = minted \cup {rx},
         \A r \in Receivers \ {rx} : done'[r] = done[r]
  PROVE  HandleOf' = [HandleOf EXCEPT ![rx] = IF done'[rx] THEN "closed" ELSE "open"]
BY DEF HandleOf

(* Setting done closes one handle and no other.                             *)
LEMMA HandleClosed ==
  ASSUME NEW rx \in minted, rx \in Receivers, UNCHANGED minted, NEW B,
         done \in [Receivers -> B], done' = [done EXCEPT ![rx] = TRUE]
  PROVE  HandleOf' = [HandleOf EXCEPT ![rx] = "closed"]
BY DEF HandleOf

(* A feeder's step to a label opens or closes its own channel only.         *)
LEMMA ChannelMoves ==
  ASSUME NEW rx \in Receivers, NEW L, pc \in [Procs -> L], NEW l, Goto(rx, l)
  PROVE  /\ l = "feedExited" => ChannelOf' = [ChannelOf EXCEPT ![rx] = "closed"]
         /\ l \notin {"feedNone", "feedExited"} =>
              ChannelOf' = [ChannelOf EXCEPT ![rx] = "open"]
BY DEF ChannelOf, Goto, Procs
=============================================================================
