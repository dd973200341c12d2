----------------------- MODULE ConflateBacklogProofs -----------------------
(***************************************************************************)
(* The backlog is its reference, for every set of keys and values, every   *)
(* merge and histories of any length: the list, the element map and the    *)
(* slots hold what the stamped slots of ConflateBacklog hold, and each take *)
(* returns what they say.                                                  *)
(***************************************************************************)
EXTENDS ConflateBacklog, ConflateQueueProofs, FiniteSetTheorems

(* The list is sorted by the stamps.                                        *)
Sorted(b, since) ==
  \A i, j \in DOMAIN b.order : i < j => since[b.order[i]] < since[b.order[j]]

(* An operation that keeps the order leaves a sorted list sorted.           *)
LEMMA StillSorted ==
  ASSUME NEW b, GoodQueue(b), NEW c, GoodQueue(c), KeepsOrder(b, c),
         Range(c.order) \subseteq Range(b.order), NEW since, Sorted(b, since)
  PROVE  Sorted(c, since)
<1> SUFFICES ASSUME NEW i \in DOMAIN c.order, NEW j \in DOMAIN c.order, i < j
             PROVE  since[c.order[i]] < since[c.order[j]]
  BY DEF Sorted
<1> DEFINE x == c.order[i]
           y == c.order[j]
<1>1. /\ DOMAIN b.order = 1..Len(b.order) /\ Len(b.order) \in Nat
      /\ DOMAIN c.order = 1..Len(c.order) /\ Len(c.order) \in Nat
      /\ IsInjective(c.order) /\ Range(b.order) = b.elems /\ Range(c.order) = c.elems
  BY DEF GoodQueue, Queues, Coherent
<1>2. x \in Range(c.order) /\ y \in Range(c.order)
  BY DEF Range
<1>3. /\ Element(c, x) \in DOMAIN c.order /\ c.order[Element(c, x)] = x
      /\ Element(c, y) \in DOMAIN c.order /\ c.order[Element(c, y)] = y
      /\ Element(b, x) \in DOMAIN b.order /\ b.order[Element(b, x)] = x
      /\ Element(b, y) \in DOMAIN b.order /\ b.order[Element(b, y)] = y
  BY <1>1, <1>2, ElementListed
<1>4. Element(c, x) = i /\ Element(c, y) = j
  BY <1>1, <1>3 DEF IsInjective
<1> HIDE DEF x, y
<1>5. Element(b, y) < Element(b, x) => j < i
  BY <1>2, <1>4 DEF KeepsOrder
<1>6. Element(b, x) # Element(b, y)
  BY <1>1, <1>3, <1>4
<1>7. Element(b, x) < Element(b, y)
  BY <1>1, <1>3, <1>4, <1>5, <1>6
<1> QED BY <1>3, <1>7 DEF Sorted, x, y

-----------------------------------------------------------------------------
(* The backlog against the reference, after n steps. *)
Mirrors(b, r, n) ==
  /\ GoodQueue(b) /\ Matches(b, r)
  /\ r.slot \in [Keys -> Values \cup {Absent}] /\ r.since \in [Keys -> 0..n]

(* A step that leaves no key where there was none keeps every stamp. *)
LEMMA StampsKept ==
  ASSUME NEW b, NEW n \in Nat, NEW r, Mirrors(b, r, n), NEW h, NEW c, GoodQueue(c),
         KeepsOrder(b, c), c.elems \subseteq b.elems,
         \A k \in Keys : Slot(r, h, k) = c.pending[k]
  PROVE  Mirrors(c, After(r, h, n + 1), n + 1)
<1> DEFINE t == After(r, h, n + 1)
<1>1. /\ Range(b.order) = b.elems /\ b.pending = r.slot
      /\ b.elems = {k \in Keys : b.pending[k] # Absent}
      /\ Range(c.order) = c.elems /\ c.elems = {k \in Keys : c.pending[k] # Absent}
      /\ c.pending \in [Keys -> Values \cup {Absent}]
  <2>1. GoodQueue(b) /\ b.pending = r.slot
    BY DEF Mirrors, Matches
  <2>2. \A d : GoodQueue(d) =>
          /\ Range(d.order) = d.elems /\ d.elems = {k \in Keys : d.pending[k] # Absent}
          /\ d.pending \in [Keys -> Values \cup {Absent}]
    BY DEF GoodQueue, Coherent, Queues
  <2> QED BY <2>1, <2>2
<1>2. t.slot = [k \in Keys |-> Slot(r, h, k)]
  BY DEF After
<1>3. t.slot = c.pending
  BY <1>1, <1>2
<1>4. \A k \in Keys : ~(r.slot[k] = Absent /\ Slot(r, h, k) # Absent)
  BY <1>1
<1>5. t.since = [k \in Keys |-> r.since[k]]
  BY <1>4 DEF After
<1>6. t.since = r.since /\ r.since \in [Keys -> 0..n + 1]
  BY <1>5 DEF Mirrors
<1> HIDE DEF t
<1>7. Sorted(b, r.since)
  BY DEF Mirrors, Matches, Sorted
<1>8. Sorted(c, r.since)
  BY <1>1, <1>7, StillSorted DEF Mirrors
<1>9. Matches(c, t)
  BY <1>1, <1>3, <1>6, <1>8 DEF Matches, Live, Sorted
<1> QED BY <1>1, <1>3, <1>6, <1>9 DEF Mirrors, t

(* A send fills, merges or annihilates the same slot in both.               *)
LEMMA SendMirrors ==
  ASSUME NEW b, NEW n \in Nat, NEW r, Mirrors(b, r, n), NEW k \in Keys, NEW v \in Values,
         ~MergePanics(b, k, v, Merge)
  PROVE  Mirrors(Enqueue(b, k, v, Merge),
                 After(r, [op |-> "send", key |-> k, val |-> v], n + 1), n + 1)
<1> DEFINE c == Enqueue(b, k, v, Merge)
           h == [op |-> "send", key |-> k, val |-> v]
           t == After(r, h, n + 1)
           u == Merge[r.slot[k], v]
<1>1. /\ GoodQueue(b) /\ b.order \in Seq(Keys) /\ Range(b.order) = b.elems
      /\ b.pending = r.slot /\ b.pending \in [Keys -> Values \cup {Absent}]
      /\ b.elems = {j \in Keys : b.pending[j] # Absent}
      /\ r.since \in [Keys -> 0..n] /\ Sorted(b, r.since)
  BY DEF Mirrors, Matches, GoodQueue, Coherent, Queues, Sorted
<1>2. GoodQueue(c) /\ KeepsOrder(b, c)
  BY <1>1, EnqueueGood, EnqueueKeepsOrder, BacklogAssumption
<1>3. /\ Slot(r, h, k) = IF r.slot[k] = Absent THEN v
                         ELSE IF u = Drop THEN Absent ELSE u
      /\ \A j \in Keys : j # k => Slot(r, h, j) = r.slot[j]
  BY DEF Slot
<1>u. Merged(b, k, v, Merge) = u
  BY <1>1 DEF Merged
<1> HIDE DEF h, u
<1>4. CASE k \in b.elems
  <2>1. r.slot[k] # Absent /\ k \in Keys
    BY <1>1, <1>4
  <2>2. CASE u = Drop
    <3>1. /\ c.elems \subseteq b.elems
          /\ c.pending = [b.pending EXCEPT ![k] = Absent]
      BY <1>4, <1>u, <2>2 DEF Enqueue, Annihilate
    <3>2. \A j \in Keys : Slot(r, h, j) = c.pending[j]
      BY <1>1, <1>3, <2>1, <2>2, <3>1
    <3> HIDE DEF c
    <3>3. Mirrors(c, After(r, h, n + 1), n + 1)
      BY <1>2, <3>1, <3>2, StampsKept
    <3> QED BY <3>3 DEF c, h
  <2>3. CASE u # Drop
    <3>1. c = Replace(b, k, u)
      BY <1>4, <1>u, <2>3 DEF Enqueue
    <3>2. /\ c.elems = b.elems
          /\ c.pending = [b.pending EXCEPT ![k] = u]
      BY <1>1, <3>1 DEF Replace, GoodQueue, Queues
    <3>3. \A j \in Keys : Slot(r, h, j) = c.pending[j]
      BY <1>1, <1>3, <2>1, <2>3, <3>2
    <3> HIDE DEF c
    <3>4. Mirrors(c, After(r, h, n + 1), n + 1)
      BY <1>2, <3>2, <3>3, StampsKept
    <3> QED BY <3>4 DEF c, h
  <2> QED BY <2>2, <2>3
<1>5. CASE k \notin b.elems
  <2>1. /\ c.order = Append(b.order, k) /\ c.pending = [b.pending EXCEPT ![k] = v]
        /\ c.pending \in [Keys -> Values \cup {Absent}]
        /\ Range(c.order) = {j \in Keys : c.pending[j] # Absent}
    BY <1>2, <1>5 DEF Enqueue, PushBack, GoodQueue, Coherent, Queues
  <2> HIDE DEF c
  <2>2. r.slot[k] = Absent /\ v # Absent
    BY <1>1, <1>5, ConflateQueueAssumption
  <2>3. \A j \in Keys : Slot(r, h, j) = c.pending[j]
    BY <1>1, <1>3, <2>1, <2>2
  <2>4. t.slot = c.pending
    <3>1. t.slot = [j \in Keys |-> Slot(r, h, j)]
      BY DEF After
    <3> QED BY <2>1, <2>3, <3>1
  <2>5. t.since = [r.since EXCEPT ![k] = n + 1]
    <3>1. t.since = [j \in Keys |-> IF r.slot[j] = Absent /\ Slot(r, h, j) # Absent
                                    THEN n + 1 ELSE r.since[j]]
      BY DEF After
    <3>2. \A j \in Keys : (r.slot[j] = Absent /\ Slot(r, h, j) # Absent) <=> j = k
      BY <1>1, <1>3, <2>2
    <3> QED BY <1>1, <3>1, <3>2
  <2> HIDE DEF t
  <2>6. /\ DOMAIN c.order = 1..Len(b.order) + 1 /\ c.order[Len(b.order) + 1] = k
        /\ \A i \in 1..Len(b.order) : c.order[i] = b.order[i] /\ b.order[i] # k
                                      /\ b.order[i] \in Keys
        /\ DOMAIN b.order = 1..Len(b.order) /\ Len(b.order) \in Nat
    BY <1>1, <1>5, <2>1, AppendProperties DEF Range
  <2>7. Sorted(c, t.since)
    <3> SUFFICES ASSUME NEW i \in 1..Len(b.order) + 1, NEW j \in 1..Len(b.order) + 1, i < j
                 PROVE  t.since[c.order[i]] < t.since[c.order[j]]
      BY <2>6 DEF Sorted
    <3>1. i \in 1..Len(b.order) /\ t.since[c.order[i]] = r.since[b.order[i]]
      <4>1. i \in 1..Len(b.order)
        BY <2>6
      <4>2. c.order[i] = b.order[i] /\ b.order[i] # k /\ b.order[i] \in Keys
        BY <2>6, <4>1
      <4> QED BY <1>1, <2>5, <4>1, <4>2
    <3>2. r.since[b.order[i]] \in 0..n
      BY <1>1, <2>6, <3>1
    <3>3. CASE j = Len(b.order) + 1
      <4>1. t.since[c.order[j]] = n + 1
        BY <1>1, <2>5, <2>6, <3>3
      <4> QED BY <3>1, <3>2, <4>1
    <3>4. CASE j \in 1..Len(b.order)
      <4>1. t.since[c.order[j]] = r.since[b.order[j]]
        <5>1. c.order[j] = b.order[j] /\ b.order[j] # k /\ b.order[j] \in Keys
          BY <2>6, <3>4
        <5> QED BY <1>1, <2>5, <5>1
      <4> QED BY <1>1, <2>6, <3>1, <3>4, <4>1 DEF Sorted
    <3> QED BY <2>6, <3>3, <3>4
  <2>8. Matches(c, t)
    BY <2>1, <2>4, <2>7 DEF Matches, Live, Sorted
  <2>9. t.since \in [Keys -> 0..n + 1] /\ t.slot \in [Keys -> Values \cup {Absent}]
    <3>1. r.since \in [Keys -> 0..n + 1] /\ n + 1 \in 0..n + 1
      BY <1>1
    <3> QED BY <2>1, <2>4, <2>5, <3>1
  <2> QED BY <1>2, <2>8, <2>9 DEF Mirrors, t, c, h
<1> QED BY <1>4, <1>5

(* The head of the list is the key that was filled longest ago.             *)
LEMMA HeadIsOldest ==
  ASSUME NEW b, NEW n \in Nat, NEW r, Mirrors(b, r, n), b.order # <<>>
  PROVE  Head(b.order) = Oldest(r) /\ Oldest(r) \in Live(r)
<1>1. /\ b.order \in Seq(Keys) /\ DOMAIN b.order = 1..Len(b.order)
      /\ Len(b.order) \in Nat \ {0} /\ Head(b.order) = b.order[1]
      /\ Range(b.order) = Live(r) /\ Sorted(b, r.since) /\ r.since \in [Keys -> 0..n]
  BY DEF Mirrors, Matches, GoodQueue, Queues, Sorted
<1>2. Live(r) \subseteq Keys /\ \A k \in Live(r) : r.since[k] \in 0..n
  BY <1>1 DEF Live
<1> DEFINE P(k) == \A j \in Live(r) : r.since[k] <= r.since[j]
<1>3. b.order[1] \in Live(r) /\ \A i \in 1..Len(b.order) : b.order[i] \in Live(r)
  <2>1. \A i \in DOMAIN b.order : b.order[i] \in Range(b.order)
    BY DEF Range
  <2>2. 1 \in 1..Len(b.order)
    BY <1>1
  <2> QED BY <1>1, <2>1, <2>2
<1>4. \A i \in 2..Len(b.order) : r.since[b.order[1]] < r.since[b.order[i]]
  <2>1. \A i \in 2..Len(b.order) : i \in DOMAIN b.order /\ 1 \in DOMAIN b.order /\ 1 < i
    BY <1>1
  <2> QED BY <1>1, <2>1 DEF Sorted
<1>5. \A j \in Live(r) : j = b.order[1] \/ r.since[b.order[1]] < r.since[j]
  <2> SUFFICES ASSUME NEW j \in Live(r)
               PROVE  j = b.order[1] \/ r.since[b.order[1]] < r.since[j]
    OBVIOUS
  <2>1. PICK i \in 1..Len(b.order) : b.order[i] = j
    BY <1>1 DEF Range
  <2>2. i = 1 \/ i \in 2..Len(b.order)
    BY <1>1
  <2> QED BY <1>4, <2>1, <2>2
<1>6. P(b.order[1])
  BY <1>2, <1>3, <1>5
<1>7. ASSUME NEW k \in Live(r), P(k) PROVE k = b.order[1]
  BY <1>2, <1>3, <1>5, <1>7
<1>8. Oldest(r) \in Live(r) /\ P(Oldest(r))
  BY <1>3, <1>6 DEF Oldest
<1> QED BY <1>1, <1>7, <1>8

(* A pop takes the same key from both, and returns what it held.            *)
LEMMA PopMirrors ==
  ASSUME NEW b, NEW n \in Nat, NEW r, Mirrors(b, r, n), b.order # <<>>
  PROVE  /\ Mirrors(Popped(b), After(r, [op |-> "pop"], n + 1), n + 1)
         /\ Delivers([op |-> "pop"], <<HeadEvent(b)>>, r)
<1> DEFINE c == Popped(b)
           h == [op |-> "pop"]
<1>1. GoodQueue(b) /\ b.pending = r.slot /\ r.slot \in [Keys -> Values \cup {Absent}]
  BY DEF Mirrors, Matches
<1>2. GoodQueue(c) /\ KeepsOrder(b, c)
  BY <1>1, PoppedGood, PoppedKeepsOrder
<1>3. Head(b.order) = Oldest(r) /\ Oldest(r) \in Keys
  BY HeadIsOldest DEF Live
<1>4. c.elems \subseteq b.elems /\ c.pending = [b.pending EXCEPT ![Oldest(r)] = Absent]
  BY <1>3 DEF Popped
<1>5. \A k \in Keys : Slot(r, h, k) = IF k = Oldest(r) THEN Absent ELSE r.slot[k]
  BY DEF Slot
<1>6. \A k \in Keys : Slot(r, h, k) = c.pending[k]
  BY <1>1, <1>3, <1>4, <1>5
<1>7. Delivers(h, <<HeadEvent(b)>>, r)
  BY <1>1, <1>3 DEF Delivers, HeadEvent
<1> HIDE DEF c, h
<1>8. Mirrors(c, After(r, h, n + 1), n + 1)
  BY <1>2, <1>4, <1>6, StampsKept
<1> QED BY <1>7, <1>8 DEF c, h

(* A pop-all empties both, and returns one event for every key that was     *)
(* pending, in the order the slots were filled.                             *)
LEMMA PopAllMirrors ==
  ASSUME NEW b, NEW n \in Nat, NEW r, Mirrors(b, r, n), b.order # <<>>
  PROVE  /\ Mirrors(PoppedAll(b), After(r, [op |-> "popAll"], n + 1), n + 1)
         /\ Delivers([op |-> "popAll"], AllEvents(b), r)
<1> DEFINE c == PoppedAll(b)
           h == [op |-> "popAll"]
           evs == AllEvents(b)
<1>1. /\ GoodQueue(b) /\ b.pending = r.slot /\ Range(b.order) = Live(r)
      /\ b.order \in Seq(Keys) /\ Len(b.order) \in Nat
      /\ DOMAIN b.order = 1..Len(b.order) /\ IsInjective(b.order)
      /\ Sorted(b, r.since)
  BY DEF Mirrors, Matches, GoodQueue, Queues, Coherent, Sorted
<1>2. GoodQueue(c) /\ KeepsOrder(b, c)
  BY <1>1, PoppedAllGood, PoppedKeepsOrder
<1>3. c.elems \subseteq b.elems /\ \A k \in Keys : c.pending[k] = Absent
  BY DEF PoppedAll
<1>4. \A k \in Keys : Slot(r, h, k) = c.pending[k]
  BY <1>3 DEF Slot
<1>5. /\ DOMAIN evs = 1..Len(b.order) /\ Len(evs) = Len(b.order)
      /\ \A i \in 1..Len(b.order) :
           evs[i].key = b.order[i] /\ evs[i].val = r.slot[b.order[i]]
  BY <1>1 DEF AllEvents, Event
<1> HIDE DEF evs
<1>6. Delivers(h, evs, r)
  <2>1. {e.key : e \in Range(evs)} = Live(r)
    <3>1. {e.key : e \in Range(evs)} = {evs[i].key : i \in 1..Len(b.order)}
      BY <1>5 DEF Range
    <3>2. {b.order[i] : i \in 1..Len(b.order)} = Live(r)
      BY <1>1 DEF Range
    <3>3. {evs[i].key : i \in 1..Len(b.order)} = {b.order[i] : i \in 1..Len(b.order)}
      BY <1>5
    <3> QED BY <3>1, <3>2, <3>3
  <2>2. Len(evs) = Cardinality(Live(r))
    <3>1. b.order \in Bijection(1..Len(b.order), Live(r))
      BY <1>1 DEF Bijection, Injection, Surjection, IsInjective, Range
    <3>2. ExistsBijection(1..Len(b.order), Live(r))
      BY <3>1 DEF ExistsBijection
    <3>3. IsFiniteSet(1..Len(b.order)) /\ Cardinality(1..Len(b.order)) = Len(b.order)
      BY <1>1, FS_Interval
    <3> QED BY <1>5, <3>2, <3>3, FS_Bijection
  <2>3. \A i, j \in DOMAIN evs : i < j => r.since[evs[i].key] < r.since[evs[j].key]
    BY <1>1, <1>5 DEF Sorted
  <2>4. \A e \in Range(evs) : e.val = r.slot[e.key]
    BY <1>5 DEF Range
  <2> QED BY <2>1, <2>2, <2>3, <2>4 DEF Delivers
<1> HIDE DEF c, h
<1>7. Mirrors(c, After(r, h, n + 1), n + 1)
  BY <1>2, <1>3, <1>4, StampsKept
<1> QED BY <1>6, <1>7 DEF c, h, evs

-----------------------------------------------------------------------------
(* f is the reference of h, step by step. *)
Traces(h, f) ==
  /\ f = [n \in 0..Len(h) |-> f[n]]
  /\ f[0] = Fresh
  /\ \A n \in 1..Len(h) : f[n] = After(f[n - 1], h[n], n)

(* The recursive function exists, and agrees with f at every step.          *)
LEMMA ReferenceIs ==
  ASSUME NEW h, Len(h) \in Nat, NEW f, Traces(h, f), NEW n \in 0..Len(h)
  PROVE  Reference(h)[n] = f[n]
<1> DEFINE N == Len(h)
           Eq(e) == e = [i \in 0..N |-> IF i = 0 THEN Fresh ELSE After(e[i - 1], h[i], i)]
           g == CHOOSE e : Eq(e)
<1>1. /\ f = [i \in 0..N |-> f[i]] /\ f[0] = Fresh
      /\ \A i \in 1..N : f[i] = After(f[i - 1], h[i], i)
  BY DEF Traces
<1>2. \A i \in 0..N : f[i] = IF i = 0 THEN Fresh ELSE After(f[i - 1], h[i], i)
  <2>1. \A i \in 0..N : i # 0 => i \in 1..N
    OBVIOUS
  <2> QED BY <1>1, <2>1
<1>3. Eq(f)
  BY <1>1, <1>2
<1>4. Eq(g)
  BY <1>3
<1>5. Reference(h) = g
  BY DEF Reference
<1> HIDE DEF N, g
<1> DEFINE T == {i \in 0..N : g[i] = f[i]}
<1>6. 0 \in T
  BY <1>1, <1>4 DEF N
<1>7. ASSUME NEW i \in 1..N, i - 1 \in T PROVE i \in T
  <2>1. i \in 0..N /\ i # 0 /\ g[i - 1] = f[i - 1]
    BY <1>7 DEF N
  <2>2. g[i] = After(g[i - 1], h[i], i)
    BY <1>4, <2>1
  <2> QED BY <1>1, <1>7, <2>1, <2>2
<1> HIDE DEF T
<1>8. 0..N \subseteq T
  BY <1>6, <1>7, InductionUpTo DEF N
<1> QED BY <1>5, <1>8 DEF T, N

-----------------------------------------------------------------------------
(* The inductive invariant: some run of the reference, step by step,        *)
(* mirrors the backlog and explains what was returned. *)
Ops == [op : {"send"}, key : Keys, val : Values] \cup [op : {"pop", "popAll"}]
Takings == Seq([key : Keys, val : Values])

Explains(f) ==
  /\ Traces(hist, f) /\ Mirrors(q, f[Len(hist)], Len(hist))
  /\ \A n \in 1..Len(hist) : Delivers(hist[n], got[n], f[n - 1])

BacklogInv ==
  /\ hist \in Seq(Ops) /\ got \in Seq(Takings) /\ Len(got) = Len(hist)
  /\ \E f : Explains(f)

(* An empty history leaves a fresh reference.                               *)
LEMMA InitBacklogInv == Init => BacklogInv
<1> SUFFICES ASSUME Init PROVE BacklogInv
  OBVIOUS
<1> DEFINE f == [n \in 0..0 |-> Fresh]
<1>1. hist = <<>> /\ got = <<>> /\ q = EmptyQueue /\ Len(hist) = 0
  BY DEF Init
<1>2. Traces(hist, f)
  BY <1>1 DEF Traces
<1>3. Mirrors(q, Fresh, 0)
  <2>1. GoodQueue(EmptyQueue)
    BY EmptyQueueGood
  <2>2. Matches(EmptyQueue, Fresh)
    BY DEF Matches, EmptyQueue, Fresh, Live, Range
  <2> QED BY <1>1, <2>1, <2>2 DEF Mirrors, Fresh
<1>4. Explains(f)
  BY <1>1, <1>2, <1>3 DEF Explains
<1> QED BY <1>1, <1>4 DEF BacklogInv

(* A step that keeps the backlog and the reference together, and explains   *)
(* what it returns, extends the run of the reference by one.                *)
LEMMA OneMoreStep ==
  ASSUME BacklogInv, NEW op \in Ops, NEW r, NEW evs \in Takings, Step(op, r, evs),
         \A t : Mirrors(q, t, Len(hist)) =>
           /\ Mirrors(r, After(t, op, Len(hist) + 1), Len(hist) + 1)
           /\ Delivers(op, evs, t)
  PROVE  BacklogInv'
<1> DEFINE N == Len(hist)
<1>1. PICK f : Explains(f)
  BY DEF BacklogInv
<1> DEFINE u == After(f[N], op, N + 1)
           g == [n \in 0..N + 1 |-> IF n = N + 1 THEN u ELSE f[n]]
<1>2. /\ N \in Nat /\ hist' \in Seq(Ops) /\ got' \in Seq(Takings)
      /\ Len(hist') = N + 1 /\ Len(got') = N + 1 /\ q' = r
      /\ hist'[N + 1] = op /\ got'[N + 1] = evs
      /\ \A n \in 1..N : hist'[n] = hist[n] /\ got'[n] = got[n]
  BY DEF BacklogInv, Step
<1>3. /\ f[0] = Fresh /\ \A n \in 1..N : f[n] = After(f[n - 1], hist[n], n)
      /\ Mirrors(q, f[N], N)
      /\ \A n \in 1..N : Delivers(hist[n], got[n], f[n - 1])
  BY <1>1 DEF Explains, Traces
<1>4. Mirrors(r, u, N + 1) /\ Delivers(op, evs, f[N])
  BY <1>3
<1> HIDE DEF N, u
<1>5. g[0] = Fresh /\ g[N + 1] = u /\ \A n \in 0..N : g[n] = f[n]
  BY <1>2, <1>3
<1> HIDE DEF g
<1>6. ASSUME NEW n \in 1..N + 1
      PROVE  g[n] = After(g[n - 1], hist'[n], n) /\ Delivers(hist'[n], got'[n], g[n - 1])
  <2>1. CASE n = N + 1
    <3>1. g[n - 1] = f[N]
      BY <1>2, <1>5, <2>1
    <3> QED BY <1>2, <1>4, <1>5, <2>1, <3>1 DEF u
  <2>2. CASE n \in 1..N
    <3>1. g[n] = f[n] /\ g[n - 1] = f[n - 1]
      BY <1>2, <1>5, <2>2
    <3> QED BY <1>2, <1>3, <2>2, <3>1
  <2> QED BY <1>2, <2>1, <2>2
<1>7. g = [n \in 0..N + 1 |-> g[n]]
  BY DEF g
<1>8. Traces(hist', g)
  BY <1>2, <1>5, <1>6, <1>7 DEF Traces
<1>9. PICK e : e = g
  OBVIOUS
<1>10. Traces(hist', e) /\ Mirrors(q', e[N + 1], N + 1)
  BY <1>2, <1>4, <1>5, <1>8, <1>9
<1>11. \A n \in 1..N + 1 : Delivers(hist'[n], got'[n], e[n - 1])
  BY <1>6, <1>9
<1>12. Explains(e)'
  BY <1>2, <1>10, <1>11 DEF Explains
<1> QED BY <1>2, <1>12 DEF BacklogInv

(* Every send and take keeps the backlog explained.                         *)
LEMMA NextBacklogInv == BacklogInv /\ [Next]_vars => BacklogInv'
<1> SUFFICES ASSUME BacklogInv, [Next]_vars PROVE BacklogInv'
  OBVIOUS
<1>0. Len(hist) \in Nat /\ GoodQueue(q)
  BY DEF BacklogInv, Explains, Mirrors
<1>1. ASSUME NEW k \in Keys, NEW v \in Values, Send(k, v) PROVE BacklogInv'
  <2> DEFINE op == [op |-> "send", key |-> k, val |-> v]
             r == Enqueue(q, k, v, Merge)
  <2>1. op \in Ops /\ <<>> \in Takings
    BY DEF Ops, Takings
  <2>2. \A t : Mirrors(q, t, Len(hist)) =>
          Mirrors(r, After(t, op, Len(hist) + 1), Len(hist) + 1)
    BY <1>0, <1>1, SendMirrors DEF Send
  <2>3. \A t : Delivers(op, <<>>, t)
    BY DEF Delivers
  <2>4. Step(op, r, <<>>)
    BY <1>1 DEF Send
  <2> HIDE DEF op, r
  <2> QED BY <2>1, <2>2, <2>3, <2>4, OneMoreStep
<1>2. CASE Pop
  <2> DEFINE op == [op |-> "pop"]
             r == Popped(q)
             evs == <<HeadEvent(q)>>
  <2>1. op \in Ops /\ evs \in Takings
    BY <1>0, <1>2, HeadEventIsEvent DEF Ops, Takings, Pop
  <2>2. \A t : Mirrors(q, t, Len(hist)) =>
          /\ Mirrors(r, After(t, op, Len(hist) + 1), Len(hist) + 1)
          /\ Delivers(op, evs, t)
    BY <1>0, <1>2, PopMirrors DEF Pop
  <2>3. Step(op, r, evs)
    BY <1>2 DEF Pop
  <2> HIDE DEF op, r, evs
  <2> QED BY <2>1, <2>2, <2>3, OneMoreStep
<1>3. CASE PopAll
  <2> DEFINE op == [op |-> "popAll"]
             r == PoppedAll(q)
             evs == AllEvents(q)
  <2>1. op \in Ops /\ evs \in Takings
    BY <1>0, AllEventsAreEvents DEF Ops, Takings
  <2>2. \A t : Mirrors(q, t, Len(hist)) =>
          /\ Mirrors(r, After(t, op, Len(hist) + 1), Len(hist) + 1)
          /\ Delivers(op, evs, t)
    BY <1>0, <1>3, PopAllMirrors DEF PopAll
  <2>3. Step(op, r, evs)
    BY <1>3 DEF PopAll
  <2> HIDE DEF op, r, evs
  <2> QED BY <2>1, <2>2, <2>3, OneMoreStep
<1>4. CASE UNCHANGED vars
  BY <1>4 DEF vars, BacklogInv, Explains
<1> QED BY <1>1, <1>2, <1>3, <1>4 DEF Next

(* The invariant says what the properties say of the reference.             *)
LEMMA Explained ==
  ASSUME BacklogInv PROVE MatchesReference /\ DeliveriesMatchReference
<1>1. PICK f : Explains(f)
  BY DEF BacklogInv
<1>2. Len(hist) \in Nat /\ DOMAIN hist = 1..Len(hist) /\ Traces(hist, f)
  BY <1>1 DEF BacklogInv, Explains
<1>3. \A n \in 0..Len(hist) : Reference(hist)[n] = f[n]
  BY <1>2, ReferenceIs
<1>4. MatchesReference
  BY <1>1, <1>2, <1>3 DEF Explains, Mirrors, MatchesReference
<1>5. ASSUME NEW n \in DOMAIN hist
      PROVE  Delivers(hist[n], got[n], Reference(hist)[n - 1])
  <2>1. n \in 1..Len(hist) /\ n - 1 \in 0..Len(hist)
    BY <1>2
  <2> QED BY <1>1, <1>3, <2>1 DEF Explains
<1> QED BY <1>4, <1>5 DEF DeliveriesMatchReference

(* After any history of sends, pops and pop-alls a backlog holds exactly    *)
(* the keys of the reference, each with the merge of what was sent since    *)
(* its slot was last empty, in the order the slots were filled: coalescing  *)
(* moves no key, and one that was annihilated or taken comes back at the    *)
(* end (enqueueLocked, popLocked and popAllLocked of conflate.go).          *)
THEOREM BacklogIsReference == Spec => []MatchesReference
<1>1. Spec => []BacklogInv
  BY InitBacklogInv, NextBacklogInv, PTL DEF Spec
<1> QED BY <1>1, Explained, PTL

(* Each take returned what the reference held at that step: a pop the key   *)
(* untouched for longest, a pop-all every pending key once and in           *)
(* first-touch order, each with its merged value (popLocked and             *)
(* popAllLocked of conflate.go).                                            *)
THEOREM DeliveriesAreReference == Spec => []DeliveriesMatchReference
<1>1. Spec => []BacklogInv
  BY InitBacklogInv, NextBacklogInv, PTL DEF Spec
<1> QED BY <1>1, Explained, PTL
=============================================================================
