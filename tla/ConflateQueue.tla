---------------------------- MODULE ConflateQueue ----------------------------
(***************************************************************************)
(* The keyed backlog of one conflate receiver: a list of keys in first-    *)
(* touch order, the map from a key to its list element, and one value slot *)
(* per key.  The operators are the ...Locked helpers of conflate.Receiver, *)
(* which all run under the hub mutex, as functions from backlog to backlog.*)
(*                                                                         *)
(* A map entry that is absent is Absent.  The element map holds a pointer    *)
(* into the list; here it is the set of keys that have one, and following  *)
(* the pointer is Element.  A merge is a function on pairs of values whose *)
(* result is a value, Drop (keep == false) or Panic (it panicked).         *)
(***************************************************************************)
EXTENDS Integers, SequencesExt

CONSTANTS Keys, Values, Absent, Drop, Panic

ASSUME ConflateQueueAssumption ==
  /\ Absent \notin Values /\ Drop \notin Values /\ Panic \notin Values
  /\ Drop # Panic

Merges == [Values \X Values -> Values \cup {Drop, Panic}]

Queues == [order   : Seq(Keys),
           elems   : SUBSET Keys,
           pending : [Keys -> Values \cup {Absent}]]

Event(k, v) == [key |-> k, val |-> v]

EmptyQueue == [order   |-> <<>>,
               elems   |-> {},
               pending |-> [k \in Keys |-> Absent]]

-----------------------------------------------------------------------------
(* enqueueLocked, for a key the receiver's filter lets through. *)

Element(q, k) == CHOOSE i \in DOMAIN q.order : q.order[i] = k

(* A plausible bug: a new key goes to the front of the list. *)
PushFront(q, k, v) == [order   |-> <<k>> \o q.order,
                       elems   |-> q.elems \cup {k},
                       pending |-> [q.pending EXCEPT ![k] = v]]

PushBack(q, k, v) == [order   |-> Append(q.order, k),
                      elems   |-> q.elems \cup {k},
                      pending |-> [q.pending EXCEPT ![k] = v]]

(* Plausible bugs of the two coalescing arms below. *)
RequeueAtBack(q, k, v) ==
  [q EXCEPT !.order = Append(RemoveAt(q.order, Element(q, k)), k),
            !.pending[k] = v]
AnnihilateKeepsElement(q, k) ==
  [q EXCEPT !.order = RemoveAt(q.order, Element(q, k)), !.pending[k] = Absent]

Replace(q, k, v) == [q EXCEPT !.pending[k] = v]

Annihilate(q, k) == [order   |-> RemoveAt(q.order, Element(q, k)),
                     elems   |-> q.elems \ {k},
                     pending |-> [q.pending EXCEPT ![k] = Absent]]

Merged(q, k, v, merge) == merge[q.pending[k], v]

Enqueue(q, k, v, merge) ==
  IF k \notin q.elems THEN PushBack(q, k, v)
  ELSE IF Merged(q, k, v, merge) = Drop THEN Annihilate(q, k)
  ELSE Replace(q, k, Merged(q, k, v, merge))

(* Only the merge call can panic, and it runs before anything is written. *)
MergePanics(q, k, v, merge) == k \in q.elems /\ Merged(q, k, v, merge) = Panic

-----------------------------------------------------------------------------
(* peekLocked, popLocked and popAllLocked, on a backlog that is not empty. *)

(* A plausible bug: the slot is read after it has been cleared. *)
HeadEventAfterClear(q) == Event(Head(q.order), Absent)

HeadEvent(q) == Event(Head(q.order), q.pending[Head(q.order)])

(* A plausible bug of Popped: the map entry of the popped key survives. *)
PoppedKeepsElement(q) == [q EXCEPT !.order = Tail(q.order),
                                   !.pending[Head(q.order)] = Absent]

Popped(q) == [order   |-> Tail(q.order),
              elems   |-> q.elems \ {Head(q.order)},
              pending |-> [q.pending EXCEPT ![Head(q.order)] = Absent]]

AllEvents(q) == [i \in 1..Len(q.order) |->
                   Event(q.order[i], q.pending[q.order[i]])]

PoppedAll(q) == [order   |-> <<>>,
                 elems   |-> {},
                 pending |-> [k \in Keys |-> Absent]]

-----------------------------------------------------------------------------
(* The three structures describe one backlog: the list holds each key once *)
(* and the element map and the slots have exactly the listed keys.         *)
Coherent(q) == /\ IsInjective(q.order)
               /\ Range(q.order) = q.elems
               /\ q.elems = {k \in Keys : q.pending[k] # Absent}
=============================================================================
