# gobus in TLA+

gobus is two in-process buses for Go. `conflate` gives every receiver an
unbounded, key-deduplicated backlog: many values of one key become one, keys
are read in the order they were first touched. `watch` gives every receiver
one slot: a reader gets the newest value and nothing in between. This
directory models both, and the program `watch` was made for on top of it,
checks the models with TLC and proves with TLAPS, for any number of goroutines,
receivers, keys and values, what makes the two buses, the primitives they rest
on and that program correct. Both buses are proved to keep one abstract
contract, that of the interfaces in `gobus.go`.

To check a module, `tlc -config MCWatchHub.cfg MCWatch`; to check a proof,
`tlapm ConflateProofs.tla`. `PROJECT.json` lists the components, the runs, for
each property a mutation of the model that breaks it, the source lines behind
each definition, the hazards and the theorems.

## 1. Inventory

### Components, state and operations

| component | source | state | operations |
|---|---|---|---|
| live count | `internal/buscore/live.go` | one atomic `int64`: number of registered receivers, or -1 once closed | `Sync`, `Poison`, `Idle` |
| close-once | `internal/buscore/close.go` | a flag and a channel | `Close`, `IsClosed`, `Done` |
| conflate hub | `conflate/conflate.go` | `mu`, `txClosed`, `hubClosed`, the set `receivers`, `live` | `New`, `Hub.Receiver`, `Hub.Sender`, `Hub.Close` |
| conflate sender | same | none of its own | `Send`, `TrySend`, `SendContext`, `Close` |
| conflate receiver | same | `order`, `elems`, `pending` (the backlog), its merge and key filter, `notify`, `waiters`, `done` | `Recv`, `RecvContext`, `TryRecv`, `TryRecvAll`, `Peek`, `Chan`, `Close` |
| conflate feeder | same, `feed` | the event in its hand, `parked` | one goroutine per handle whose `Chan` was called |
| watch hub | `watch/watch.go` | as above, and `index` (key to receivers) and `wildcard` | `New`, `Hub.Watch`, `Hub.WatchAcross`, `Hub.Sender`, `Hub.Close` |
| watch sender | same | none of its own | as in conflate |
| watch receiver | same | the slot `key`, `val`, `hasValue`, `version`; `lastSeen`; `notify`, `waiters`, `done` | `Recv`, `RecvContext`, `TryRecv`, `Peek`, `Chan`, `Close` |
| watch feeder | same, `feed` | the snapshot it offers, `delivered`, `parked` | one goroutine per handle whose `Chan` was called |
| interfaces, errors | `gobus.go`, `errors.go` | none | the contract of both buses: closed before cancelled before value |
| scheduler (example) | `watch/examples` | its lock, the state of each job, a sequence number | `commit`, `publish`, `watchJob`, `subscribe`, `main` |
| options | both packages | none after construction | `WithKey`, `WithKeyFilter`, `WithMerge`, `WithDefaultMerge`, `WithAccept`, `WithBaseline` |

Not modelled: the `forTesting` hooks (nil in production, and the windows they
widen are in the models anyway), the conflate examples (they add no state to the
bus; their merge is `cancels` of `MCConflate`), the CI workflow and the editor
script. Of the watch examples the `seen` handshake, which paces the
demonstration, and the printing are left out. Of the options, that a later one
replaces an earlier one and that a nil one panics is left out: it is sequential
code that runs before there is a bus.

### How they interact

Everything a bus owns is behind one mutex. Three things are read without it:
the live count, by a send that wants to skip the mutex when nobody listens;
`done`, by a reader before it takes the mutex and by whoever is parked; and the
`notify` channel, read under the mutex and waited on outside it. A sender wakes
readers by closing `notify` and replacing it, which it skips when `waiters` is
zero. Closing a receiver closes `done` and takes it out of the fan-out; closing
the sender poisons the live count and signals every receiver; `Hub.Close` does
both to everybody, through `done` only. A read that finds the stream at its end
takes its own receiver out of the hub. The feeder of a `Chan` is a reader with a
second place to wait: the send on an unbuffered channel, which competes with
`done` (both buses) and `notify` (watch).

The callbacks - merge, key filter, accept - are the program's code. They run
under the mutex, in the middle of the fan-out, and may panic; the mutex is
released by a `defer`, and what has been fanned out stays.

### What is hard, and what makes a component correct

| component | hard behaviour | what must hold |
|---|---|---|
| close-once | closers race outside any mutex | one of them closes the channel, once, and the flag is up by then (`ClosedOnce`) |
| live count | a compare-and-swap loop against a concurrent poison | the poison is never lifted; a `Sync` returns; it is an atomic count |
| gate of a send | a count read at one moment and used at another | zero means nobody is registered and the sender is open (`LiveExact`) |
| backlog | coalescing, annihilation, pops, a panic between them | list, map and slots agree (`QueueCoherent`); each key once, in order of first touch (`NoOvertaking`), nobody starves |
| notify and `waiters` | a skipped wake-up, early returns, deferred decrements, several readers of one handle | the count is exact and nobody sleeps beside something to read (`WaitersExact`, `NoLostWakeup`); who is parked when something closes returns |
| closing | three different closes, in any order, while goroutines are anywhere | a closed handle is frozen, the end of the stream is final, nobody owed a value is dropped from the fan-out, every feeder ends |
| index and wildcards | three collections changed at four sites | they agree (`IndexExact`) |
| slot and read position | the feeder delivers before it commits | no value lost, none given twice, none older than one already given, key and value belong together |
| calls | a call reads state without the lock, parks, retries, and may be cancelled at any moment | it is answered by one instant between its start and its return, closed before cancelled before value (`ImplementsContract`) |
| sends | coalesced, annihilated, refused, panicked, popped, dropped with a close | each stands in one event that leaves, or in what is pending (`EachSendAccounted`) |
| scheduler | changes are published outside the lock they were made under, and a subscriber joins meanwhile | the subscriber ends on the state that was true last (`SlotHoldsTruth`, `EndsOnTruth`) |

The full list, each at its line, is `hazards` in `PROJECT.json`.

## 2. Modules

| module | what it is |
|---|---|
| `LiveCount` | the live count, one action per atomic access, any number of goroutines |
| `CountSpec` | what the bus needs of it: an atomic count that is poisoned once |
| `CloseOnce` | the close-once at its two accesses, any number of closers |
| `ConflateQueue` | the backlog as operators: `Enqueue`, `Popped`, `PoppedAll`, `HeadEvent`, `AllEvents`; pure |
| `BusContract` | what `gobus.Sender` and `gobus.Receiver` promise on every bus; abstract |
| `Bus` | the state, helpers and properties the two buses share |
| `Conflate` | the conflate bus; extends `Bus` and `ConflateQueue` |
| `ConflateBacklog` | a backlog driven through every history of sends and takes, and a reference without a list |
| `ConflateAudit` | `Conflate` with a ledger of the values sent and not yet read |
| `Watch` | the watch bus; extends `Bus` |
| `Scheduler` | the program of the watch examples, on top of `Watch` |
| `Buscore` | the package: a `LiveCount` and a `CloseOnce` side by side |
| `MCBuscore`, `MCConflateQueue`, `MCConflate`, `MCConflateAudit`, `MCWatch`, `MCScheduler` | instances for TLC |
| `BuscoreProofs` | theorems on the two primitives, side by side in one package |
| `ConflateQueueProofs` | lemmas on the backlog |
| `BusProofs` | lemmas on parking, waking and the calls, for both buses |
| `ConflateBacklogProofs` | that the backlog is its reference |
| `ConflateProofs` | theorems on the conflate bus, its contract and its ledger |
| `WatchProofs`, `WatchContractProofs` | theorems on the watch bus, and on its contract |
| `SchedulerProofs` | theorems on the example program |

    Buscore = LiveCount --implements--> CountSpec, and CloseOnce
                                               (both atomic in Bus)
    ConflateBacklog
     |
    ConflateQueue --+
                    +-- Conflate --implements--> BusContract
    Bus ------------+      +-- ConflateAudit         ^
     |                                               |
     +----------------- Watch ------implements-------+
                           +-- Scheduler

### Names

Variables have the source's names where there is one. Those without:

| variable | code |
|---|---|
| `pc` | where a goroutine is: `idle`, about to lock, parked, ... |
| `tgt`, `msg`, `ctx` | the arguments of the call a client is in |
| `ret` | what its last call returned, forgotten when it calls again |
| `mu` | the client inside `Hub.Close`, the one critical section of several steps |
| `minted` | handles handed out |
| `asleep[rx]` | the `notify` channel: who is parked on the current one |
| `parked[p]` | the local `parked` of `recvLoop` and `feed` |
| `q[rx]` (conflate) | `order`, `elems` and `pending` |
| `hand[rx]` (conflate) | the event its feeder has popped and not delivered |
| `snap[rx]` (watch) | the locals `ev` and `ver` of `feed` |
| `handed[rx]` (watch) | ghost: what readers were given, with its version; read by no step |
| `ledger[rx]` (audit) | ghost: per key, the values sent and not yet read; its bound alone is read |
| `lock`, `seq`, `state` (scheduler) | `mu`, `seq` and `state` of the example's `scheduler` |
| `owed`, `seed[rx]` (scheduler) | the results of `commit` on their way to `publish`; the `Schedule` that `watchJob` returns |

`keep` is the key filter and `merge` the merge a receiver was made with. A
filter, a merge or an accept is a table from its arguments to a result, and
one of the results is a panic. `WithKey(k)` is the filter that takes only k.

### Where a step begins and ends

A critical section is one step. This is sound because what it changes can
almost nowhere be seen before it ends: everything but the live count, `done` and
a closed `notify` is read under the mutex only. The count is written once in
a section, so its instant can be the section's. A goroutine woken early by
`notify` or `done` goes to the mutex or leaves, and a send that still loads the
old count of a receiver already closed goes to the mutex and waits there.
`Hub.Close` is the exception: it closes many `done` channels in a loop, and
lock-free readers see some of them closed and some not. It is several steps
(`CloseHub`, `CloseHubDone` per receiver, `CloseHubEnd`), and `mu` keeps
everybody else out of the mutex.

Each lock-free access is a step of its own: the load of the live count, the
probe of the context after it (`SendCtx`), the select of a parked goroutine,
the delivery. A probe that opens a call is one step with the call, and a probe
that directly follows a wake-up one step with that.

A select with two ready arms is a choice. The context of a call may be
cancelled at any moment (`Cancel`). A `CloseOnce` is one variable of the buses:
they close it under the mutex and act alike on its flag and on its channel, so
the moment between the two cannot be told from the moment before. The primitive itself, which may be closed outside any mutex, has its two accesses in
`CloseOnce`. If a merge, a filter or an accept panics for some receivers, any
set the map order allows has been served before. The fan-out with its panic is
one step, so that the `defer` releases the mutex is built in, not checked.

The consumer of a channel is the action `ChanReceive`, which may or may not
happen. The documentation asks that a handle be read through its channel or
directly, not both. With `Mixes` FALSE a program keeps to that; `Peek` of
`conflate`, which `Chan`'s documentation does not exclude, is allowed with
either. `Mixes` is TRUE in `conflate_readers` and `conflate_hub`, because
there a mixture may surprise but must break nothing those runs check, and in
`watch_mixed_readers`, which shows what it does break.

The zero value: a slot with no value holds `None`, also where the code would
hold the zero V.

### The contract

`BusContract` has no mutex, no waiter counts, no retries and no lock-free reads.
Its state is what a user of the interfaces can speak of: the send side is open
or closed; a handle is unborn, open or closed; the keys with an unread event;
the channel and the event it holds out; the call each client is in and its last
answer. Each call begins, takes effect in one step that also answers it, and in
that step the order closed > cancelled > value decides.

`Contract` in `Conflate` and in `Watch` is the refinement mapping. `pc` gives the
call (`OpAt`), `done` the state of a handle, `q` or the slot against `lastSeen`
the unread keys, `hand` or `snap` the offer. The critical section of a call is
the instant it takes effect; every wait, wake-up, retry and lock-free probe
before it maps to a stutter. Two points are not that simple.

- A send that finds the live count zero may be answered later, after the probe
  of its context, when a receiver has registered since. The contract lets such
  a call begin as `SendNothing`, which only a bus with no open handle allows: it
  takes effect where it began. If its context was cancelled, it becomes an
  ordinary send.
- A feeder of `watch` offers a value that stays in its slot. It is off the list of
  the unread while offered, and `Withdraw` puts it back if nothing came since.
  `Peek` does not know of the offer (section 6), so the run that checks the
  contract of `Watch` has no `Peek`.

Which keys a send adds, keeps or takes away, and in which order they come, the
contract leaves to each bus. `TryRecvAll` and `Peek` are in no interface; they are
in the contract as reads of all the keys and of one, so that no call is
unaccounted for. The contract alone would also let a send answered nil reach no
receiver. That it reaches every one it should is what `EachSendAccounted`,
`LiveExact` and `SlotHoldsTruth` say.

### The ledger

`ConflateAudit` watches the bus without touching it. For each receiver and key it
keeps the values of the sends that reached it since the key last had nothing
unread. `EachSendAccounted` compares, in every step: an event that leaves
carries the fold of its ledger by the merge, and what stays pending is the fold
of what is left. Which sends reached a receiver is judged from their answer: nil
means every registered receiver that takes the key. A send that panics may have
reached some, and is taken to have reached those whose backlog it changed: the
property says of it that each receiver got the whole value or none of it, and
not which receivers did. The
ledger is bounded (`MaxUnread`), so a send does not begin on a full one.

### The scheduler

The watch examples show what the bus is for. A producer changes a job's state
under the scheduler's lock and publishes it after releasing the lock, so changes
may overtake each other; `Accept` takes the greater sequence number. A
subscriber reads the state and registers in one critical section of that lock,
the state being its baseline. `Scheduler` adds those steps and lets the bus
below run with all of its own. Any client may publish any change that is owed,
which covers one goroutine per producer and more. The order of `main` is kept:
the sender is closed when every change has been published, the hub when every
subscriber is done. A subscriber may also leave early, as in the `chan` example.

## 3. Runs

`May` says which calls each client makes, so that a run spends its states on
its question. All constants are in the cfg.

| run | question | instance | states |
|---|---|---|---|
| `buscore` | does the compare-and-swap loop implement an atomic count, and end? is the channel closed once? | 3 goroutines, counts 0..2 | 133 k |
| `conflate_queue` | does a backlog hold and deliver what slots stamped with the time they were filled would? | 3 keys, 2 values, any 6 operations, the create/delete merge | 31 k |
| `conflate_readers` | are wake-ups exact, calls answered as promised and sends accounted for, with readers of both kinds, contexts and closes? | 3 clients and a feeder, 1 receiver, 2 keys, a merge that annihilates and panics, 2 unread sends | 103 k |
| `conflate_hub` | are gate, fan-out and order right while receivers come and go? | 3 clients, 2 receivers, 2 keys, cancellable sends, 2 merges, one panicking, a filter that skips and panics | 782 k |
| `conflate_chan` | does every parked reader come back and every feeder end, and does the channel drain in order? | 3 clients, 1 receiver, 2 keys, annihilation | 46 k |
| `watch_hub` | are index, gate and slots right with keyed and wildcard receivers? | 3 clients, 2 receivers, 2 keys, strict ordered accept, panics | 150 k |
| `watch_readers` | are wake-ups and the read position exact, and calls answered as promised? | 4 clients, 1 receiver, 2 values | 204 k |
| `watch_chan` | do feeders end and consumers converge? | 3 clients, 1 receiver | 8 k |
| `scheduler` | does a subscriber end on the last true state, however publications race? | 4 clients, 1 subscriber, 2 jobs, 4 changes | 551 k |
| `conflate_peek_close`, `watch_mixed_readers`, `watch_peek_taken` | the findings of section 6 | | |

Why these are enough. Receivers share nothing but the maps and the mutex, so
two of them show every way one can disturb another, and one suffices where the
question is about a single handle. Two readers of one handle show the
difference between waking one and waking all. Two keys show order and the
index, three the order of a key between two others. Two values show coalescing,
annihilation, rejection and a going back. `MaxOps = 6` in the backlog is three
keys, two more touches and a read. `MaxVersion = 2` in the runs of `Watch` alone lets a slot be
empty, hold one value and be superseded once more; a send already begun may
raise it by one. The backlog bounds itself, as it holds a key once.

`MaxUnread = 2` is the shortest history in which a merge has something to merge
and a reader takes part of it; with one sender it is never exceeded. Four
changes of two jobs, one subscriber: two changes of its job may overtake each
other before it joins and two more after, with or without one of the other job
between them.

The bounds are `MaxOps`, `MaxVersion`, `MaxUnread` and `MaxSeq`; `Conflate` by
itself needs none. `conflate_readers` is reduced by the symmetry of the keys and the
two hub runs by that of the receivers, which is sound because their properties
are all safety properties.
Deadlock checking is off because a system whose hub is closed and whose calls
have returned has stopped, as it should.

### Fairness

`FairSpec` asks weak fairness of each goroutine that is inside a call and of
each feeder. Go runs every runnable goroutine, its mutex hands itself to a
waiter that has waited a millisecond, and no critical section but `Hub.Close`
is more than one step here, and that one is a finite loop. Nobody is obliged to
make a call, to cancel a context or to receive from a channel. `SoftCloseEndsRange`,
`NoStarvation` and `Converges` are claims about a consumer that ranges over its
channel, so they say so themselves: `Ranges(rx) => ...`, with `Ranges(rx)` weak
fairness of `ChanReceive(rx)`. `CloseEndsFeeder` and `HubCloseEndsFeeders` are
claimed without any such consumer.

Weak fairness is enough because the steps a goroutine waits for stay enabled
once the mutex is free, and it is held by a single step.

## 4. Proofs

The theorems hold for every set of clients, receivers, keys and values, every
merge, filter and accept, and every interleaving. `PROJECT.json` lists them with
the properties they state; each of those properties is also checked by a run,
and the invariants behind them were checked by TLC before they were proved.
The assumptions are the constants' own: `BusAssumption` (finite disjoint sets
of clients and receivers, `None` in neither), `ConflateAssumption`,
`WatchAssumption` and `SchedulerAssumption` (the types of merges, filters,
accept and publications), `ConflateQueueAssumption` and `LiveCountAssumption`
(the special results are not values). TLC evaluates each of them in some run.
What a theorem assumes beyond that stands in its statement.

| theorem | states | beyond the constants' types |
|---|---|---|
| `BuscoreProofs!TypeCorrect`, `Refines`, `PoisonPermanent` | the compare-and-swap loop is an atomic count that is poisoned once | |
| `BuscoreProofs!ClosesOnce` | one closer closes the channel, once | |
| `ConflateProofs!TypeCorrect`, `BacklogsCoherent` | `TypeOK`, `QueueCoherent` | |
| `ConflateProofs!FastPathExact`, `WatchProofs!FastPathExact` | `LiveExact` | |
| `ConflateProofs!ClosedIsFrozen`, `EndOfStreamIsFinal`, `FirstTouchOrder` | `ClosedReceiverFrozen`, `DrainedForever`, `NoOvertaking` | |
| `NobodyLeftOut`, of both | `DeregisteredIsFinished` | |
| `WaitersCounted`, `NobodySleepsThrough`, of both | `WaitersExact`, `NoLostWakeup` | |
| `WatchProofs!TypeCorrect`, `MapsAgree`, `KeysTravel` | `TypeOK`, `IndexExact`, `KeyTravelsWithValue` | |
| `WatchProofs!ReadPositionExact`, `OneAfterClose` | `MarkExact`, `AtMostOneAfterClose` | |
| `WatchProofs!EachOnce` | `EachValueOnce` | `~Mixes` |
| `WatchProofs!NeverBack` | `NeverGoesBack` | `~Mixes`, `StrictOrder` |
| `ConflateBacklogProofs!BacklogIsReference`, `DeliveriesAreReference` | `MatchesReference`, `DeliveriesMatchReference` | |
| `ConflateProofs!EachSendIsAccounted` | `EachSendAccounted` | |
| `ConflateProofs!ImplementsTheContract` | `ImplementsContract` | |
| `WatchContractProofs!ImplementsTheContract` | `ImplementsContract` | `ReadsOneWay` |
| `SchedulerProofs!UsesTheBus` | a behaviour of the example is one of the bus | |
| `SchedulerProofs!SlotsHoldTruth` | `SlotHoldsTruth` | `NewerWins` |
| `SchedulerProofs!StreamsEndOnTruth` | `EndsOnTruth` | `NewerWins`, `~Mixes` |

Four hypotheses are about the program that uses the bus, and the runs that
check the same properties satisfy them:

- `~Mixes`: no handle is read through `Chan` and directly, as `Chan`'s
  documentation asks (`watch_hub`, `watch_readers`, `scheduler`). Without it
  `EachValueOnce` is false: `watch_mixed_readers`.
- `StrictOrder`: what `Accept` takes is a strict order on the values that are
  sent (`NewerStrict` in `watch_hub`). `Accept` only ever compares a new value
  with the one in the slot; that a reader who skips some is not taken back
  needs the order to be transitive.
- `ReadsOneWay`: `~Mixes`, and a program with `Chan` makes no `Peek`
  (`watch_readers`). `watch_peek_taken` shows what `Peek` does beside `Chan`.
- `NewerWins`: the `Accept` of the example (`Newer` in `scheduler`).

### The inductive invariants

Types. `TypeOK` is not inductive on either bus: the head of a backlog is an
event only if its key has a slot, and a client about to lock has a receiver or
a message only because of where it is. `TypeInv` of `Conflate` is `TypeOK`,
`QueueCoherent` and `LocalsOK`, which relates `pc` to `tgt`, `msg` and `hand`;
`ConflateQueueProofs` shows that `Enqueue`, `Popped` and `PoppedAll` keep a
coherent backlog one. `TypeInv` of `Watch` is in five parts, and most actions
disturb one of them.

The gate. `LiveExact` needs that a closed hub has a closed sender and that who
is inside `Hub.Close` has closed it. With the fact that a closed handle is in
the map only while `Hub.Close` has the mutex these are `GateInv` and `ClosedInv`
of `Conflate` and `HubInv` of `Watch`. That a closed handle is frozen follows:
a step that changes a backlog has the mutex and finds the handle in the map or
open (`QueueStep`). `IndexExact` is inductive with `TypeInv`.

Parking. `WaitersExact` counts who is at a read of the handle, and a call that
begins or returns changes whose read that is. `ParkInv` adds that a parked
client is at one of the program counters where it is counted, that whoever
sleeps on a handle is parked, reads that handle and is at a select, and that a
call is inside a handle that was minted. It is a parameter of the selects of the
bus, and `BusProofs` proves for both that the steps of parking keep it.

`NoLostWakeup` needs that a fan-out reaches the handle somebody sleeps on. A
sleeper's handle is therefore registered, with nothing to read, and the sender
open unless `Hub.Close` is between two of its steps (`SleepInv`); and a handle is
out of the map only if it is closed or finished (`DeregisteredIsFinished`).
`WakeInv` is the three together. On `watch` a feeder that delivers sleeps beside
a value it has read, and what it offers is then still the slot.

The order of the backlog. `FirstTouchOrder` says that a step keeps the order of
any two keys it leaves in a backlog. `KeepsOrder` is proved for each operation:
a list whose places go back, in order, to places of the old one keeps the order.

The read position. `MarkInv` adds to `MarkExact` that nothing delivered or
offered is newer than the slot. `KeyInv` extends `KeyTravelsWithValue` from what
was handed over to what it comes from, the slot and the offer. For `EachOnce`,
`Separate` says that beside a feeder only a `Peek` is inside a handle and
`Rising` that an offer is newer than all that has been handed over. `Ordered`
says that `Accept` takes a newer known value over every older one, not the
neighbour alone.

The scheduler. Its steps are steps of `Watch` under a program that passes no
context, so the invariants of the bus are reused, not proved again. `SchedInv`
adds that a subscriber holds the lock from reading the state to registering
and the state stays meanwhile (`SubscribeInv`), and that an open slot is never
ahead of the state and, if it is behind, the last change is still on its way
(`TruthInv`). `StreamsEndOnTruth` then needs the read position: the last value
handed over is the slot's.

The primitives. Each failed compare-and-swap is a stutter of `CountSpec`. For
`ClosesOnce`, somebody is on the way to closing only if the flag is up and the
channel still open, there is one of them, and the swap lets nobody follow.

### Folds and recursive functions

Two properties compare the state with a recursive function of a history: the
reference of the backlog and the merge of a ledger. Nothing is known of such a
function until one exists that satisfies its equation, and the library's
induction theorems take an operator, which the provers cannot instantiate. Both
proofs go around this in the same way. The invariant says that some function
follows the history step by step and ends on the state (`Explains`, `Folds`); a
step extends it by one place. That it is the recursive function is shown once,
by induction over the set of places where the two agree (`InductionUpTo`): the
least number outside it would have a predecessor inside, and a least one exists
because `<` is well-founded on the naturals (`WFMin`, whose parameter is a set).

The backlog. `Mirrors` adds to `MatchesReference` that no stamp is later than
the history is long, so a new key's is the latest. Every operation keeps the
order of what it leaves, by the lemmas behind `FirstTouchOrder`; the head is
then the oldest key, because the stamps are strictly sorted.

The ledger. `LedgerInv` says that the ledger of a key folds to what is pending,
and is empty if nothing is. A step shows the auditor one of three things of a
receiver (`Shown`): nothing, a send that reaches it whole, or events that leave
it. A send that panics half-way is one of the first two for each receiver, and a
feeder takes an event only with its hand empty (`HandInv`). A
receiver made meanwhile may change which merge the ledger is read with; then
nothing is pending (`CallInv`) and its ledger is empty.

### The refinement of the contract

Both proofs have one lemma per kind of step and none about behaviours, so the
only temporal step is the last. A step of a client changes its own call and
answer (`CallMove`) and a step of a feeder only its channel and offer; this
settles most of what an action of the contract leaves alone. What remains is
one critical section each. `Verdict`, computed under the mutex, decides as the
contract does, because a stream has ended in the contract exactly when the
sender is closed and nothing is unread; and the unread keys change by exactly
what the answer reports. `ContractInv` collects the invariants above and two
facts about the mapping: outside a call nothing is left of the last one, and who
leaves through a deferred decrement has seen a close (`CallInv`).

On `conflate` an event leaves the backlog when the feeder takes it in hand, so an
offer is never also unread, and the refinement holds for every program, mixed
readers and `Peek` included. On `watch` the offer stays in the slot and `lastSeen`
moves later. `OfferInv` says that an offer is ahead of the read position and is
the slot unless that was written since. Beside a direct reader or a `Peek` the
slot would be unread and offered at once; this is what `ReadsOneWay` excludes.

### Only model-checked

- Everything under fairness: `ReaderReleased`, `CloseEndsFeeder`,
  `HubCloseEndsFeeders`, `SoftCloseEndsRange`, `NoStarvation`, `Converges`,
  `SyncEndsOnPoison`. The prover handles neither `ENABLED` nor well-founded
  induction over behaviours.

Of what is proved, the runs add one thing: TLC breaks each property with a bug
planted in the code it is about (`mutants` in `PROJECT.json`).

## 5. Plan

Done: the models of every part of section 1 that has state, a run for each
question, and a theorem for every safety property the passing runs check.

Left:

1. The options: which of two that contradict each other wins.
2. A theorem that closing is idempotent and that the three closes commute, with
   respect to the contract.

## 6. Where the documentation and the code differ

- `conflate_peek_close`. After `Sender.Close`, a `Peek` on an empty backlog
  takes the receiver out of the hub while its feeder still offers the last
  event. A later `Hub.Close` does not reach that feeder, although it says that
  every live receiver is closed immediately. `Receiver.Close` does.
- `watch_mixed_readers`. A value can go to both readers when a handle is read
  through its channel and directly, although it is said to go to only one.
- `watch_peek_taken`. `Peek` can report a value that the channel's consumer has
  already been given, until the feeder has been back under the mutex.

A smaller one without a run: `conflate.go:963-964` says that `Peek` reports
ErrEmpty while a popped event is in flight; after `Sender.Close` it reports
ErrClosed.
