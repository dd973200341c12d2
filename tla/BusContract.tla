----------------------------- MODULE BusContract -----------------------------
(***************************************************************************)
(* What gobus.Sender and gobus.Receiver promise on every bus: each call is *)
(* answered by what holds at one instant between its start and its return, *)
(* with the precedence closed > cancelled > value, and takes effect there. *)
(* There are no mutex, waiters, retries or lock-free counts here.          *)
(*                                                                         *)
(* What a handle has to offer is the set of keys with an unread event.     *)
(* Which of them a send adds, replaces or takes away, and the order they   *)
(* come in, is the business of each bus.                                   *)
(***************************************************************************)
EXTENDS Integers

CONSTANTS Clients, Receivers, Keys, None

VARIABLES
  tx,        \* "open", or "closed" by Sender.Close or Hub.Close
  handle,    \* of each receiver: "unborn", "open" or "closed"
  pending,   \* the keys with an event for it
  channel,   \* its Chan: "none", "open" or "closed"
  offer,     \* the key of the event Chan holds out to its consumer, or None
  call,      \* the call each client is in
  answer     \* what its last call returned: an error and keys of events

rxVars == <<handle, pending, channel, offer>>
vars == <<tx, rxVars, call, answer>>

NoCall == [op |-> "none", rx |-> None, key |-> None, ctx |-> "none"]
Answer(err, keys) == [err |-> err, keys |-> keys]
Nil == Answer("nil", {})

Init ==
  /\ tx = "open"
  /\ handle  = [rx \in Receivers |-> "unborn"]
  /\ pending = [rx \in Receivers |-> {}]
  /\ channel = [rx \in Receivers |-> "none"]
  /\ offer   = [rx \in Receivers |-> None]
  /\ call    = [c \in Clients |-> NoCall]
  /\ answer  = [c \in Clients |-> Nil]

-----------------------------------------------------------------------------
(* Calls begin, are cancelled and return. *)

SendOps == {"Send", "SendNothing"}
ReadOps == {"Recv", "TryRecv", "TryRecvAll", "Peek"}

In(c, ops) == call[c].op \in ops
Cancelled(c) == call[c].ctx = "cancelled"

(* Nobody is there to receive: a send has nothing to do. *)
NobodyOpen == tx = "open" /\ \A rx \in Receivers : handle[rx] # "open"

Begin(c, op, rx, k, x) ==
  /\ call[c] = NoCall
  /\ op = "SendNothing" => NobodyOpen
  /\ op \in ReadOps => handle[rx] = "open"
  /\ call' = [call EXCEPT ![c] = [op |-> op, rx |-> rx, key |-> k, ctx |-> x]]
  /\ answer' = [answer EXCEPT ![c] = Nil]
  /\ UNCHANGED <<tx, rxVars>>

Cancel(c) ==
  /\ call[c].ctx = "live"
  /\ call' = [call EXCEPT ![c].ctx = "cancelled"]
  /\ UNCHANGED <<tx, rxVars, answer>>

Return(c, a) ==
  /\ call' = [call EXCEPT ![c] = NoCall]
  /\ answer' = [answer EXCEPT ![c] = a]

(* A call that is answered where it begins. *)
AtOnce(c) ==
  /\ call[c] = NoCall
  /\ \/ NobodyOpen /\ Return(c, Nil)
     \/ (\E rx \in Receivers : handle[rx] = "closed")
          /\ Return(c, Answer("ErrClosed", {}))
  /\ UNCHANGED <<tx, rxVars>>

-----------------------------------------------------------------------------
(* The send side. *)

(* The event reaches the open handles, each of which files it under its key,*)
(* merges it with what is there, lets it cancel what is there, replaces all *)
(* it has, or has no use for it.                                            *)
Routed(p, k) == {p, p \cup {k}, p \ {k}, {k}}

Publish(c) ==
  /\ In(c, {"Send"}) /\ tx = "open" /\ ~Cancelled(c)
  /\ pending' \in [Receivers -> UNION {Routed(pending[rx], call[c].key) :
                                         rx \in Receivers}]
  /\ \A rx \in Receivers :
       pending'[rx] \in IF handle[rx] = "open"
                        THEN Routed(pending[rx], call[c].key)
                        ELSE {pending[rx]}
  /\ \E err \in {"nil", "panic"} : Return(c, Answer(err, {}))
  /\ UNCHANGED <<tx, handle, channel, offer>>

(* closed > cancelled *)
RefuseSend(c) ==
  /\ In(c, {"Send"})
  /\ \/ tx = "closed" /\ Return(c, Answer("ErrClosed", {}))
     \/ tx = "open" /\ Cancelled(c) /\ Return(c, Answer("ctx.Err", {}))
  /\ UNCHANGED <<tx, rxVars>>

(* The send that began when nobody was open needs no look at the bus again, *)
(* unless it has been cancelled.                                            *)
SendNothing(c) ==
  /\ In(c, {"SendNothing"})
  /\ \/ ~Cancelled(c) /\ Return(c, Nil)
     \/ /\ Cancelled(c)
        /\ call' = [call EXCEPT ![c].op = "Send"]
        /\ UNCHANGED answer
  /\ UNCHANGED <<tx, rxVars>>

CloseSender == tx' = "closed" /\ UNCHANGED <<rxVars, call, answer>>

-----------------------------------------------------------------------------
(* The receive side. *)

(* Sender closed, and nothing left to drain. *)
Ended(rx) == tx = "closed" /\ pending[rx] = {}

(* A handle closed by its owner or with the hub is dead at once: what is    *)
(* left on it is gone.                                                      *)
Terminal(rx) == handle[rx] = "closed" \/ Ended(rx)

End(c) ==
  /\ In(c, ReadOps) /\ Terminal(call[c].rx)
  /\ Return(c, Answer("ErrClosed", {}))
  /\ UNCHANGED <<tx, rxVars>>

(* A cancelled receive takes nothing, also when there is something. *)
Interrupt(c) ==
  /\ In(c, {"Recv"}) /\ ~Terminal(call[c].rx) /\ Cancelled(c)
  /\ Return(c, Answer("ctx.Err", {}))
  /\ UNCHANGED <<tx, rxVars>>

Receive(c) ==
  LET rx == call[c].rx IN
  /\ In(c, ReadOps \ {"Peek"}) /\ ~Terminal(rx) /\ ~Cancelled(c)
  /\ \E S \in IF In(c, {"TryRecvAll"}) THEN {pending[rx]}
              ELSE {{k} : k \in pending[rx]} :
       /\ S # {}
       /\ pending' = [pending EXCEPT ![rx] = @ \ S]
       /\ Return(c, Answer("nil", S))
  /\ UNCHANGED <<tx, handle, channel, offer>>

Look(c) ==
  /\ In(c, {"Peek"}) /\ ~Terminal(call[c].rx)
  /\ \E k \in pending[call[c].rx] : Return(c, Answer("nil", {k}))
  /\ UNCHANGED <<tx, rxVars>>

FindEmpty(c) ==
  /\ In(c, ReadOps \ {"Recv"}) /\ ~Terminal(call[c].rx)
  /\ pending[call[c].rx] = {}
  /\ Return(c, Answer("ErrEmpty", {}))
  /\ UNCHANGED <<tx, rxVars>>

-----------------------------------------------------------------------------
(* The life of a handle and of its channel. *)

(* A handle of a closed hub is born closed. *)
Mint(rx) ==
  /\ handle[rx] = "unborn"
  /\ \E s \in {"open", "closed"} :
       /\ s = "closed" => tx = "closed"
       /\ handle' = [handle EXCEPT ![rx] = s]
  /\ UNCHANGED <<tx, pending, channel, offer, call, answer>>

CloseHandle(rx) ==
  /\ handle[rx] = "open"
  /\ handle' = [handle EXCEPT ![rx] = "closed"]
  /\ pending' = [pending EXCEPT ![rx] = {}]
  /\ UNCHANGED <<tx, channel, offer, call, answer>>

OpenChannel(rx) ==
  /\ handle[rx] # "unborn" /\ channel[rx] = "none"
  /\ channel' = [channel EXCEPT ![rx] = "open"]
  /\ UNCHANGED <<tx, handle, pending, offer, call, answer>>

(* The channel holds out an event of an open handle ... *)
Offer(rx) ==
  /\ channel[rx] = "open" /\ handle[rx] = "open" /\ offer[rx] = None
  /\ \E k \in pending[rx] :
       /\ offer' = [offer EXCEPT ![rx] = k]
       /\ pending' = [pending EXCEPT ![rx] = @ \ {k}]
  /\ UNCHANGED <<tx, handle, channel, call, answer>>

(* ... which its consumer takes, also after a close, ... *)
Deliver(rx) ==
  /\ offer[rx] # None
  /\ offer' = [offer EXCEPT ![rx] = None]
  /\ UNCHANGED <<tx, handle, pending, channel, call, answer>>

(* ... or which is withdrawn: dropped with a closed handle or in favour of  *)
(* what came since, and else back where it was.                             *)
Withdraw(rx) ==
  /\ offer[rx] # None
  /\ offer' = [offer EXCEPT ![rx] = None]
  /\ pending' = IF handle[rx] = "closed" \/ pending[rx] # {} THEN pending
                ELSE [pending EXCEPT ![rx] = {offer[rx]}]
  /\ UNCHANGED <<tx, handle, channel, call, answer>>

(* The channel is closed at the end of the stream, and not before: nothing  *)
(* is pending any more, or the handle is closed and even an offer dropped.  *)
EndChannel(rx) ==
  /\ channel[rx] = "open"
  /\ handle[rx] = "closed" \/ (Ended(rx) /\ offer[rx] = None)
  /\ channel' = [channel EXCEPT ![rx] = "closed"]
  /\ offer' = [offer EXCEPT ![rx] = None]
  /\ UNCHANGED <<tx, handle, pending, call, answer>>

-----------------------------------------------------------------------------
ClientStep(c) ==
  \/ Cancel(c) \/ AtOnce(c)
  \/ \E op \in SendOps, k \in Keys, x \in {"none", "live", "cancelled"} :
       Begin(c, op, None, k, x)
  \/ \E op \in ReadOps, rx \in Receivers, x \in {"none", "live", "cancelled"} :
       Begin(c, op, rx, None, x)
  \/ Publish(c) \/ RefuseSend(c) \/ SendNothing(c)
  \/ End(c) \/ Interrupt(c) \/ Receive(c) \/ Look(c) \/ FindEmpty(c)

HandleStep(rx) ==
  \/ Mint(rx) \/ CloseHandle(rx) \/ OpenChannel(rx)
  \/ Offer(rx) \/ Deliver(rx) \/ Withdraw(rx) \/ EndChannel(rx)

Next == \/ CloseSender
        \/ \E c \in Clients : ClientStep(c)
        \/ \E rx \in Receivers : HandleStep(rx)

Spec == Init /\ [][Next]_vars
=============================================================================
