--------------------------- MODULE ConflateBacklog ---------------------------
(***************************************************************************)
(* Drives one backlog through every history of at most MaxOps sends and    *)
(* takes, and compares it with a reference that has no list at all: it     *)
(* stamps each slot with the time it was filled and finds the order by     *)
(* sorting the stamps.                                                     *)
(***************************************************************************)
EXTENDS ConflateQueue, FiniteSets

CONSTANTS Merge,    \* the receiver's merge
          MaxOps    \* bound: the sends and takes of one history

ASSUME BacklogAssumption == Merge \in Merges /\ MaxOps \in Nat

VARIABLES q,      \* the backlog, as conflate keeps it
          hist,   \* what was done to it: sends, and takes of one event or all
          got     \* got[i]: the events the i-th step of hist returned
vars == <<q, hist, got>>

Init == q = EmptyQueue /\ hist = <<>> /\ got = <<>>

Step(op, r, evs) == /\ Len(hist) < MaxOps
                    /\ hist' = Append(hist, op)
                    /\ q' = r
                    /\ got' = Append(got, evs)

(* A send whose merge panics changes nothing, and is no step. *)
Send(k, v) == /\ ~MergePanics(q, k, v, Merge)
              /\ Step([op |-> "send", key |-> k, val |-> v],
                      Enqueue(q, k, v, Merge), <<>>)
Pop == q.order # <<>> /\ Step([op |-> "pop"], Popped(q), <<HeadEvent(q)>>)
PopAll == q.order # <<>> /\ Step([op |-> "popAll"], PoppedAll(q), AllEvents(q))

Next == \/ \E k \in Keys, v \in Values : Send(k, v)
        \/ Pop
        \/ PopAll

Spec == Init /\ [][Next]_vars

-----------------------------------------------------------------------------
(* The reference: the value in each key's slot, and the step that filled    *)
(* the slot when it was last empty.                                         *)

Fresh == [slot |-> [k \in Keys |-> Absent], since |-> [k \in Keys |-> 0]]

Live(r) == {k \in Keys : r.slot[k] # Absent}
Oldest(r) == CHOOSE k \in Live(r) : \A j \in Live(r) : r.since[k] <= r.since[j]

Slot(r, h, k) ==
  CASE h.op = "send" /\ h.key = k /\ r.slot[k] = Absent -> h.val
    [] h.op = "send" /\ h.key = k /\ r.slot[k] # Absent ->
         IF Merge[r.slot[k], h.val] = Drop THEN Absent ELSE Merge[r.slot[k], h.val]
    [] h.op = "pop" /\ k = Oldest(r) -> Absent
    [] h.op = "popAll" -> Absent
    [] OTHER -> r.slot[k]

(* What the n-th step, h, makes of r. *)
After(r, h, n) ==
  LET s == [k \in Keys |-> Slot(r, h, k)]
  IN  [slot  |-> s,
       since |-> [k \in Keys |-> IF r.slot[k] = Absent /\ s[k] # Absent
                                 THEN n ELSE r.since[k]]]

(* Reference(h)[n] is what the first n steps of h leave. *)
Reference(h) ==
  LET ref[n \in 0..Len(h)] ==
        IF n = 0 THEN Fresh ELSE After(ref[n - 1], h[n], n)
  IN  ref

-----------------------------------------------------------------------------
Matches(b, r) ==
  /\ b.pending = r.slot
  /\ Range(b.order) = Live(r)
  /\ \A i, j \in DOMAIN b.order :
       i < j => r.since[b.order[i]] < r.since[b.order[j]]

Delivers(h, evs, r) ==
  /\ h.op = "pop" => evs = <<Event(Oldest(r), r.slot[Oldest(r)])>>
  /\ h.op = "popAll" =>
       /\ {e.key : e \in Range(evs)} = Live(r)
       /\ Len(evs) = Cardinality(Live(r))
       /\ \A i, j \in DOMAIN evs : i < j => r.since[evs[i].key] < r.since[evs[j].key]
       /\ \A e \in Range(evs) : e.val = r.slot[e.key]

(* After any history the backlog holds exactly the keys the reference holds,*)
(* each with the merge of what was sent since the slot was last empty, and  *)
(* lists them by the time they were first touched: coalescing never moves a *)
(* key, and an annihilated or delivered key comes back at the end.          *)
MatchesReference == Matches(q, Reference(hist)[Len(hist)])

(* What the takes returned is what the reference held at that step: a pop   *)
(* the key untouched for longest with its merged value, and popAll every    *)
(* pending event, one per key, in first-touch order.                        *)
DeliveriesMatchReference ==
  \A n \in DOMAIN hist : Delivers(hist[n], got[n], Reference(hist)[n - 1])
=============================================================================
