------------------------- MODULE ConflateQueueProofs -------------------------
(***************************************************************************)
(* The backlog operations keep a backlog coherent and well-typed, for every *)
(* set of keys and values and every merge that does not panic.             *)
(***************************************************************************)
EXTENDS ConflateQueue, TLAPS, SequenceTheorems, WellFoundedInduction

GoodQueue(b) == b \in Queues /\ Coherent(b)

(* A new receiver's backlog is coherent: the empty list, map and slots.     *)
LEMMA EmptyQueueGood == GoodQueue(EmptyQueue)
  BY DEF GoodQueue, Queues, EmptyQueue, Coherent, IsInjective, Range

(* enqueueLocked, first touch: pushing a key that is not listed keeps the   *)
(* three structures in agreement.                                           *)
LEMMA PushBackGood ==
  ASSUME NEW b, GoodQueue(b), NEW k \in Keys, k \notin b.elems, NEW v \in Values
  PROVE  GoodQueue(PushBack(b, k, v))
<1> DEFINE s == b.order
           t == Append(s, k)
           r == PushBack(b, k, v)
<1>1. s \in Seq(Keys) /\ b.elems \subseteq Keys /\ IsInjective(s)
      /\ Range(s) = b.elems
  BY DEF GoodQueue, Queues, Coherent
<1>2. /\ t \in Seq(Keys) /\ Len(t) = Len(s) + 1
      /\ \A i \in 1..Len(s) : t[i] = s[i]
      /\ t[Len(s) + 1] = k
  BY <1>1, AppendProperties
<1>3. DOMAIN s = 1..Len(s) /\ DOMAIN t = 1..Len(s) + 1 /\ Len(s) \in Nat
  BY <1>1, <1>2
<1> HIDE DEF s, t
<1>4. Range(t) = b.elems \cup {k}
  BY <1>1, <1>2, <1>3 DEF Range
<1>5. \A i \in DOMAIN s : s[i] # k
  BY <1>1, <1>3 DEF Range
<1>6. IsInjective(t)
  BY <1>1, <1>2, <1>3, <1>5 DEF IsInjective
<1>7. /\ r.order = t /\ r.elems = b.elems \cup {k}
      /\ r.pending = [b.pending EXCEPT ![k] = v]
  BY DEF PushBack, t, s
<1>8. r \in Queues
  BY <1>1, <1>2 DEF GoodQueue, Queues, PushBack, t, s
<1>9. r.elems = {j \in Keys : r.pending[j] # Absent}
  BY <1>1, <1>7, ConflateQueueAssumption DEF GoodQueue, Queues, Coherent
<1> QED
  BY <1>4, <1>6, <1>7, <1>8, <1>9 DEF GoodQueue, Coherent

(* The pointer in the element map is the one place the key is listed.       *)
LEMMA ElementListed ==
  ASSUME NEW b, GoodQueue(b), NEW k \in b.elems
  PROVE  Element(b, k) \in 1..Len(b.order) /\ b.order[Element(b, k)] = k
<1>1. \E i \in DOMAIN b.order : b.order[i] = k
  BY DEF GoodQueue, Coherent, Range
<1>2. DOMAIN b.order = 1..Len(b.order)
  BY DEF GoodQueue, Queues
<1> QED
  BY <1>1, <1>2 DEF Element

(* Removing one position of an injective sequence removes one element.      *)
LEMMA RemoveAtProperties ==
  ASSUME NEW S, NEW s \in Seq(S), IsInjective(s), NEW n \in 1..Len(s)
  PROVE  /\ RemoveAt(s, n) \in Seq(S)
         /\ IsInjective(RemoveAt(s, n))
         /\ Range(RemoveAt(s, n)) = Range(s) \ {s[n]}
         /\ DOMAIN RemoveAt(s, n) = 1..Len(s) - 1
         /\ \A i \in 1..Len(s) - 1 :
              RemoveAt(s, n)[i] = IF i < n THEN s[i] ELSE s[i + 1]
<1> DEFINE a == SubSeq(s, 1, n - 1)
           z == SubSeq(s, n + 1, Len(s))
           r == RemoveAt(s, n)
<1>1. Len(s) \in Nat /\ DOMAIN s = 1..Len(s) /\ \A i \in 1..Len(s) : s[i] \in S
  OBVIOUS
<1>2. /\ a \in Seq(S) /\ Len(a) = n - 1
      /\ \A i \in 1..n - 1 : a[i] = s[i]
  BY <1>1, SubSeqProperties
<1>3. /\ z \in Seq(S) /\ Len(z) = Len(s) - n
      /\ \A i \in 1..Len(s) - n : z[i] = s[n + i]
  <2>1. n + 1 \in Int /\ Len(s) \in Int /\ \A i \in n + 1..Len(s) : s[i] \in S
    BY <1>1
  <2>2. /\ z \in Seq(S)
        /\ Len(z) = IF n + 1 <= Len(s) THEN Len(s) - (n + 1) + 1 ELSE 0
        /\ \A i \in 1..Len(s) - (n + 1) + 1 : z[i] = s[n + 1 + i - 1]
    BY <2>1, SubSeqProperties
  <2> HIDE DEF z
  <2>3. Len(z) = Len(s) - n
    <3>1. n \in Int /\ Len(s) \in Int /\ n <= Len(s)
      BY <1>1
    <3>2. Len(z) = IF n + 1 <= Len(s) THEN Len(s) - (n + 1) + 1 ELSE 0
      BY <2>2
    <3> QED BY <3>1, <3>2
  <2>4. ASSUME NEW i \in 1..Len(s) - n PROVE z[i] = s[n + i]
    <3>1. i \in 1..Len(s) - (n + 1) + 1 /\ n + 1 + i - 1 = n + i
      BY <1>1
    <3> QED BY <2>2, <3>1
  <2> QED BY <2>2, <2>3, <2>4
<1> HIDE DEF a, z
<1>4. /\ a \o z \in Seq(S) /\ Len(a \o z) = Len(a) + Len(z)
      /\ \A i \in 1..Len(a) + Len(z) :
           (a \o z)[i] = IF i <= Len(a) THEN a[i] ELSE z[i - Len(a)]
  BY <1>2, <1>3, ConcatProperties
<1>5. r = a \o z
  BY DEF RemoveAt, a, z
<1>6. /\ r \in Seq(S) /\ DOMAIN r = 1..Len(s) - 1
      /\ \A i \in 1..Len(s) - 1 : r[i] = IF i < n THEN s[i] ELSE s[i + 1]
  <2>1. Len(a) + Len(z) = Len(s) - 1 /\ Len(a) = n - 1
    BY <1>1, <1>2, <1>3
  <2>2. /\ r \in Seq(S) /\ Len(r) = Len(s) - 1
        /\ \A i \in 1..Len(s) - 1 :
             r[i] = IF i <= n - 1 THEN a[i] ELSE z[i - (n - 1)]
    BY <1>4, <1>5, <2>1
  <2> HIDE DEF r
  <2>3. ASSUME NEW i \in 1..Len(s) - 1
        PROVE  r[i] = IF i < n THEN s[i] ELSE s[i + 1]
    <3>1. CASE i < n
      BY <1>1, <1>2, <2>2, <3>1
    <3>2. CASE ~(i < n)
      <4>1. i - (n - 1) \in 1..Len(s) - n /\ n + (i - (n - 1)) = i + 1
        BY <1>1, <3>2
      <4> QED BY <1>1, <1>3, <2>2, <3>2, <4>1
    <3> QED BY <3>1, <3>2
  <2> QED BY <1>1, <2>2, <2>3
<1> HIDE DEF r
<1>7. IsInjective(r)
  <2>1. \A i \in 1..Len(s) - 1 :
          LET j == IF i < n THEN i ELSE i + 1
          IN  j \in DOMAIN s /\ r[i] = s[j]
    BY <1>1, <1>6
  <2>2. \A i, j \in DOMAIN s : s[i] = s[j] => i = j
    BY DEF IsInjective
  <2>3. ASSUME NEW i \in 1..Len(s) - 1, NEW j \in 1..Len(s) - 1, r[i] = r[j]
        PROVE  i = j
    <3> DEFINE at(x) == IF x < n THEN x ELSE x + 1
    <3>1. at(i) \in DOMAIN s /\ at(j) \in DOMAIN s /\ s[at(i)] = s[at(j)]
      BY <2>1, <2>3
    <3>2. at(i) = at(j)
      BY <2>2, <3>1
    <3> QED BY <1>1, <3>2
  <2> QED BY <1>6, <2>3 DEF IsInjective
<1>8. \A i \in 1..Len(s) - 1 : r[i] \in Range(s) \ {s[n]}
  BY <1>1, <1>6 DEF Range, IsInjective
<1>9. ASSUME NEW i \in 1..Len(s), i # n PROVE s[i] \in Range(r)
  <2>1. CASE i < n
    <3>1. i \in DOMAIN r /\ r[i] = s[i]
      BY <1>1, <1>6, <2>1
    <3> QED BY <3>1 DEF Range
  <2>2. CASE i > n
    <3>1. i - 1 \in DOMAIN r /\ r[i - 1] = s[i]
      BY <1>1, <1>6, <2>2
    <3> QED BY <3>1 DEF Range
  <2> QED BY <1>9, <2>1, <2>2
<1>10. Range(r) = Range(s) \ {s[n]}
  BY <1>1, <1>6, <1>8, <1>9 DEF Range
<1> QED
  BY <1>6, <1>7, <1>10 DEF r

(* enqueueLocked, merge with keep == false: the annihilated key leaves the  *)
(* list, the map and the slots together.                                    *)
LEMMA AnnihilateGood ==
  ASSUME NEW b, GoodQueue(b), NEW k \in b.elems
  PROVE  GoodQueue(Annihilate(b, k))
<1> DEFINE r == Annihilate(b, k)
           t == RemoveAt(b.order, Element(b, k))
<1>1. t \in Seq(Keys) /\ IsInjective(t) /\ Range(t) = b.elems \ {k}
  <2>1. b.order \in Seq(Keys) /\ IsInjective(b.order) /\ Range(b.order) = b.elems
    BY DEF GoodQueue, Queues, Coherent
  <2>2. Element(b, k) \in 1..Len(b.order) /\ b.order[Element(b, k)] = k
    BY ElementListed
  <2> QED BY <2>1, <2>2, RemoveAtProperties
<1> HIDE DEF t
<1>2. /\ r.order = t /\ r.elems = b.elems \ {k}
      /\ r.pending = [b.pending EXCEPT ![k] = Absent]
  BY DEF Annihilate, t
<1>3. r \in Queues
  BY <1>1 DEF GoodQueue, Queues, Annihilate, t
<1>4. r.elems = {j \in Keys : r.pending[j] # Absent}
  BY <1>2 DEF GoodQueue, Queues, Coherent
<1> QED
  BY <1>1, <1>2, <1>3, <1>4 DEF GoodQueue, Coherent

(* enqueueLocked, merge with keep == true: only the slot changes.           *)
LEMMA ReplaceGood ==
  ASSUME NEW b, GoodQueue(b), NEW k \in b.elems, NEW v \in Values
  PROVE  GoodQueue(Replace(b, k, v))
<1>1. k \in Keys
  BY DEF GoodQueue, Queues
<1>2. /\ Replace(b, k, v).order = b.order /\ Replace(b, k, v).elems = b.elems
      /\ Replace(b, k, v).pending = [b.pending EXCEPT ![k] = v]
      /\ Replace(b, k, v) \in Queues
  BY <1>1 DEF GoodQueue, Queues, Replace
<1>3. b.elems = {j \in Keys : [b.pending EXCEPT ![k] = v][j] # Absent}
  BY <1>1, ConflateQueueAssumption DEF GoodQueue, Queues, Coherent
<1> QED
  BY <1>2, <1>3 DEF GoodQueue, Coherent

(* enqueueLocked keeps the backlog coherent unless the merge panics, which  *)
(* is before anything is written.                                           *)
LEMMA EnqueueGood ==
  ASSUME NEW b, GoodQueue(b), NEW k \in Keys, NEW v \in Values,
         NEW m \in Merges, ~MergePanics(b, k, v, m)
  PROVE  GoodQueue(Enqueue(b, k, v, m))
<1>1. CASE k \notin b.elems
  BY <1>1, PushBackGood DEF Enqueue
<1>2. CASE k \in b.elems
  <2>1. b.pending[k] \in Values
    BY <1>2 DEF GoodQueue, Queues, Coherent
  <2>2. Merged(b, k, v, m) \in Values \cup {Drop}
    <3>1. Merged(b, k, v, m) \in Values \cup {Drop, Panic}
      BY <2>1 DEF Merged, Merges
    <3> QED BY <1>2, <3>1 DEF MergePanics
  <2>3. CASE Merged(b, k, v, m) = Drop
    BY <1>2, <2>3, AnnihilateGood DEF Enqueue
  <2>4. CASE Merged(b, k, v, m) # Drop
    BY <1>2, <2>2, <2>4, ReplaceGood DEF Enqueue
  <2> QED BY <2>3, <2>4
<1> QED BY <1>1, <1>2

(* peekLocked on a backlog that is not empty returns an event: the key at   *)
(* the head always has a value in its slot.                                 *)
LEMMA HeadEventIsEvent ==
  ASSUME NEW b, GoodQueue(b), b.order # <<>>
  PROVE  HeadEvent(b) \in [key : Keys, val : Values]
<1>1. b.order \in Seq(Keys) /\ Len(b.order) # 0 /\ Head(b.order) = b.order[1]
  BY DEF GoodQueue, Queues
<1>2. Head(b.order) \in b.elems
  BY <1>1 DEF GoodQueue, Coherent, Range
<1>3. Head(b.order) \in Keys /\ b.pending[Head(b.order)] \in Values
  BY <1>2 DEF GoodQueue, Queues, Coherent
<1> QED
  BY <1>3 DEF HeadEvent, Event

(* popAllLocked returns events only.                                        *)
LEMMA AllEventsAreEvents ==
  ASSUME NEW b, GoodQueue(b)
  PROVE  AllEvents(b) \in Seq([key : Keys, val : Values])
<1>1. b.order \in Seq(Keys) /\ Len(b.order) \in Nat
  BY DEF GoodQueue, Queues
<1>2. ASSUME NEW i \in 1..Len(b.order)
      PROVE  Event(b.order[i], b.pending[b.order[i]]) \in [key : Keys, val : Values]
  <2>1. b.order[i] \in b.elems
    BY <1>1 DEF GoodQueue, Coherent, Range
  <2>2. b.order[i] \in Keys /\ b.pending[b.order[i]] \in Values
    BY <2>1 DEF GoodQueue, Queues, Coherent
  <2> QED BY <2>2 DEF Event
<1> QED
  BY <1>1, <1>2, IsASeq DEF AllEvents

(* popLocked takes the key at the head out of all three structures.         *)
LEMMA PoppedGood ==
  ASSUME NEW b, GoodQueue(b), b.order # <<>>
  PROVE  GoodQueue(Popped(b))
<1> DEFINE s == b.order
           t == Tail(s)
           h == Head(s)
           r == Popped(b)
<1>1. /\ s \in Seq(Keys) /\ Len(s) \in Nat \ {0} /\ DOMAIN s = 1..Len(s)
      /\ h = s[1] /\ IsInjective(s) /\ Range(s) = b.elems
  BY DEF GoodQueue, Queues, Coherent
<1>2. /\ t \in Seq(Keys) /\ DOMAIN t = 1..Len(s) - 1
      /\ \A i \in 1..Len(s) - 1 : t[i] = s[i + 1]
  BY <1>1, HeadTailProperties
<1>3. /\ r.order = t /\ r.elems = b.elems \ {h}
      /\ r.pending = [b.pending EXCEPT ![h] = Absent]
  BY DEF Popped
<1>4. r \in Queues
  BY <1>2 DEF GoodQueue, Queues, Popped
<1> HIDE DEF s, t, h, r
<1>5. IsInjective(t)
  BY <1>1, <1>2 DEF IsInjective
<1>6. Range(t) = Range(s) \ {h}
  <2>1. \A i \in 1..Len(s) - 1 : t[i] \in Range(s) \ {h}
    BY <1>1, <1>2 DEF Range, IsInjective
  <2>2. ASSUME NEW i \in 1..Len(s), s[i] # h PROVE s[i] \in Range(t)
    <3>1. i - 1 \in DOMAIN t /\ t[i - 1] = s[i]
      BY <1>1, <1>2, <2>2
    <3> QED BY <3>1 DEF Range
  <2> QED BY <1>1, <1>2, <2>1, <2>2 DEF Range
<1>7. h \in Keys
  BY <1>1
<1>8. r.elems = {j \in Keys : r.pending[j] # Absent}
  BY <1>3, <1>7 DEF GoodQueue, Queues, Coherent
<1> QED
  BY <1>1, <1>3, <1>4, <1>5, <1>6, <1>8 DEF GoodQueue, Coherent, r

(* popAllLocked leaves an empty backlog.                                    *)
LEMMA PoppedAllGood ==
  ASSUME NEW b PROVE GoodQueue(PoppedAll(b))
  BY DEF GoodQueue, Queues, PoppedAll, Coherent, IsInjective, Range

-----------------------------------------------------------------------------
(* First-touch order.  The keys that an operation leaves in the backlog     *)
(* keep the order they had.                                                 *)
KeepsOrder(b, c) ==
  \A j, k \in Range(b.order) \cap Range(c.order) :
    Element(b, j) < Element(b, k) => Element(c, j) < Element(c, k)

(* It is enough that the places of the new list go back, in order, to the   *)
(* places the same keys had in the old one.                                 *)
LEMMA OrderByPlaces ==
  ASSUME NEW b, GoodQueue(b), NEW c, GoodQueue(c), NEW f,
         \A x \in DOMAIN c.order :
           /\ f[x] \in Int
           /\ c.order[x] \in Range(b.order) =>
                f[x] \in DOMAIN b.order /\ b.order[f[x]] = c.order[x],
         \A x, y \in DOMAIN c.order : x <= y => f[x] <= f[y]
  PROVE  KeepsOrder(b, c)
<1>1. /\ IsInjective(b.order) /\ Range(b.order) = b.elems
      /\ IsInjective(c.order) /\ Range(c.order) = c.elems
  BY DEF GoodQueue, Coherent
<1>2. DOMAIN b.order = 1..Len(b.order) /\ Len(b.order) \in Nat
      /\ DOMAIN c.order = 1..Len(c.order) /\ Len(c.order) \in Nat
  BY DEF GoodQueue, Queues
<1>3. ASSUME NEW k \in Range(b.order) \cap Range(c.order)
      PROVE  /\ Element(c, k) \in DOMAIN c.order /\ Element(b, k) \in DOMAIN b.order
             /\ f[Element(c, k)] = Element(b, k)
  <2>1. /\ Element(c, k) \in DOMAIN c.order /\ c.order[Element(c, k)] = k
        /\ Element(b, k) \in DOMAIN b.order /\ b.order[Element(b, k)] = k
    BY <1>1, <1>2, ElementListed
  <2>2. f[Element(c, k)] \in DOMAIN b.order /\ b.order[f[Element(c, k)]] = k
    BY <2>1
  <2> QED BY <1>1, <2>1, <2>2 DEF IsInjective
<1> SUFFICES ASSUME NEW j \in Range(b.order) \cap Range(c.order),
                    NEW k \in Range(b.order) \cap Range(c.order),
                    Element(b, j) < Element(b, k)
             PROVE  Element(c, j) < Element(c, k)
  BY DEF KeepsOrder
<1> DEFINE x == Element(c, j)
           y == Element(c, k)
<1>4. /\ x \in DOMAIN c.order /\ y \in DOMAIN c.order /\ f[x] < f[y]
      /\ f[x] \in Int /\ f[y] \in Int /\ x \in Int /\ y \in Int
  BY <1>2, <1>3
<1> HIDE DEF x, y
<1>5. y <= x => f[y] <= f[x]
  BY <1>4
<1>6. x < y
  BY <1>4, <1>5
<1> QED BY <1>6 DEF x, y

(* A backlog whose list does not change keeps its order. *)
LEMMA SameOrder ==
  ASSUME NEW b, NEW c, c.order = b.order PROVE KeepsOrder(b, c)
BY DEF KeepsOrder, Element

(* enqueueLocked: a new key goes behind all others, a coalesced one stays   *)
(* where it is, and an annihilated one lets the others close up.            *)
LEMMA EnqueueKeepsOrder ==
  ASSUME NEW b, GoodQueue(b), NEW k \in Keys, NEW v \in Values,
         NEW m \in Merges, ~MergePanics(b, k, v, m)
  PROVE  KeepsOrder(b, Enqueue(b, k, v, m))
<1> DEFINE c == Enqueue(b, k, v, m)
           s == b.order
<1>1. GoodQueue(c)
  BY EnqueueGood
<1>2. s \in Seq(Keys) /\ Len(s) \in Nat /\ DOMAIN s = 1..Len(s)
      /\ IsInjective(s) /\ Range(s) = b.elems
  BY DEF GoodQueue, Queues, Coherent
<1>3. CASE k \notin b.elems
  <2> DEFINE f == [x \in 1..Len(s) + 1 |-> x]
  <2>1. c.order = Append(s, k)
    BY <1>3 DEF Enqueue, PushBack
  <2>2. DOMAIN c.order = 1..Len(s) + 1 /\ c.order[Len(s) + 1] = k
        /\ \A x \in 1..Len(s) : c.order[x] = s[x]
    BY <1>2, <2>1, AppendProperties
  <2> HIDE DEF c
  <2>3. ASSUME NEW x \in DOMAIN c.order
        PROVE  /\ f[x] \in Int
               /\ c.order[x] \in Range(s) => f[x] \in DOMAIN s /\ s[f[x]] = c.order[x]
    <3>1. x \in 1..Len(s) \/ x = Len(s) + 1
      BY <1>2, <2>2
    <3> QED BY <1>2, <1>3, <2>2, <3>1
  <2>4. \A x, y \in DOMAIN c.order : x <= y => f[x] <= f[y]
    BY <2>2
  <2> HIDE DEF f
  <2>5. KeepsOrder(b, c)
    BY <1>1, <2>3, <2>4, OrderByPlaces
  <2> QED BY <2>5 DEF c
<1>4. CASE k \in b.elems /\ Merged(b, k, v, m) = Drop
  <2> DEFINE n == Element(b, k)
             f == [x \in 1..Len(s) - 1 |-> IF x < n THEN x ELSE x + 1]
  <2>1. c.order = RemoveAt(s, n) /\ n \in 1..Len(s)
    BY <1>4, ElementListed DEF Enqueue, Annihilate
  <2> HIDE DEF n, c, s
  <2>2. DOMAIN c.order = 1..Len(s) - 1
        /\ \A x \in 1..Len(s) - 1 : c.order[x] = IF x < n THEN s[x] ELSE s[x + 1]
    BY <1>2, <2>1, RemoveAtProperties
  <2>3. ASSUME NEW x \in DOMAIN c.order
        PROVE  f[x] \in Int /\ f[x] \in DOMAIN s /\ s[f[x]] = c.order[x]
    BY <1>2, <2>1, <2>2
  <2>4. \A x, y \in DOMAIN c.order : x <= y => f[x] <= f[y]
    BY <1>2, <2>1, <2>2
  <2> HIDE DEF f
  <2>5. KeepsOrder(b, c)
    BY <1>1, <2>3, <2>4, OrderByPlaces DEF s
  <2> QED BY <2>5 DEF c
<1>5. CASE k \in b.elems /\ Merged(b, k, v, m) # Drop
  <2>1. c.order = b.order
    BY <1>5 DEF Enqueue, Replace, GoodQueue, Queues
  <2> QED BY <2>1, SameOrder
<1> QED BY <1>3, <1>4, <1>5

(* popLocked and popAllLocked take from the head. *)
LEMMA PoppedKeepsOrder ==
  ASSUME NEW b, GoodQueue(b), b.order # <<>>
  PROVE  KeepsOrder(b, Popped(b)) /\ KeepsOrder(b, PoppedAll(b))
<1> DEFINE s == b.order
           c == Popped(b)
           f == [x \in 1..Len(s) - 1 |-> x + 1]
<1>1. s \in Seq(Keys) /\ Len(s) \in Nat /\ DOMAIN s = 1..Len(s) /\ s # <<>>
  BY DEF GoodQueue, Queues
<1>2. GoodQueue(c) /\ c.order = Tail(s)
  BY PoppedGood DEF Popped
<1> HIDE DEF c, s
<1>3. DOMAIN c.order = 1..Len(s) - 1
      /\ \A x \in 1..Len(s) - 1 : c.order[x] = s[x + 1]
  BY <1>1, <1>2, HeadTailProperties
<1>4. ASSUME NEW x \in DOMAIN c.order
      PROVE  f[x] \in Int /\ f[x] \in DOMAIN s /\ s[f[x]] = c.order[x]
  BY <1>1, <1>3
<1>5. \A x, y \in DOMAIN c.order : x <= y => f[x] <= f[y]
  BY <1>3
<1> HIDE DEF f
<1>6. KeepsOrder(b, c)
  BY <1>2, <1>4, <1>5, OrderByPlaces DEF s
<1>7. Range(PoppedAll(b).order) = {}
  BY DEF PoppedAll, Range
<1> QED BY <1>6, <1>7 DEF c, KeepsOrder

-----------------------------------------------------------------------------
(* The rule that the theorems about recursive functions of a history rest   *)
(* on. *)

(* A set of naturals has a least element.                                   *)
LEMMA LeastNatural ==
  ASSUME NEW T, T \subseteq Nat, T # {}
  PROVE  \E x \in T : \A y \in T : ~(y < x)
<1>1. IsWellFoundedOn(OpToRel(<, Nat), Nat)
  BY NatLessThanWellFounded
<1>2. \E x \in T : \A y \in T : ~(<<y, x>> \in OpToRel(<, Nat))
  BY <1>1, WFMin
<1> QED BY <1>2 DEF OpToRel

(* Induction up to N: a set with 0 that is closed under successor has all.  *)
LEMMA InductionUpTo ==
  ASSUME NEW N \in Nat, NEW T, 0 \in T, \A n \in 1..N : n - 1 \in T => n \in T
  PROVE  0..N \subseteq T
<1> SUFFICES ASSUME (0..N) \ T # {} PROVE FALSE
  OBVIOUS
<1>0. (0..N) \ T \subseteq Nat
  OBVIOUS
<1>1. PICK x \in (0..N) \ T : \A y \in (0..N) \ T : ~(y < x)
  BY <1>0, LeastNatural
<1>2. x \in 1..N /\ x - 1 \in 0..N
  BY <1>1
<1>3. x - 1 \in T
  BY <1>1, <1>2
<1> QED BY <1>1, <1>2, <1>3
=============================================================================
