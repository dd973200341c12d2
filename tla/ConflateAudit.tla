---------------------------- MODULE ConflateAudit ----------------------------
(***************************************************************************)
(* The conflate bus with an auditor beside it, who sees only which sends   *)
(* are answered and which events leave a receiver, and keeps for each key  *)
(* the values sent since it last had nothing to be read.  No step of the   *)
(* bus reads the ledger.                                                   *)
(***************************************************************************)
EXTENDS Conflate

CONSTANT MaxUnread   \* bound: no send is begun with this many unread

ASSUME AuditAssumption == MaxUnread \in Nat \ {0} /\ None \notin Events

VARIABLE ledger      \* ledger[rx][k]: the values sent and not yet read

auditVars == <<vars, ledger>>

-----------------------------------------------------------------------------
(* What the step shows of sends and of events that leave rx. *)

(* The senders whose send reaches rx in this step.  A send that is answered *)
(* nil reaches every registered receiver that takes its key; of one that    *)
(* panics only the receivers it has changed are known.                      *)
Senders(rx) ==
  {c \in Clients :
     /\ pc[c] = "sendLock" /\ pc'[c] = "idle"
     /\ \/ /\ ret'[c].err = "nil"
           /\ rx \in receivers /\ Takes(rx, msg[c].key)
        \/ ret'[c].err = "panic" /\ q'[rx] # q[rx]}

ReadersOf(rx) ==
  {c \in Clients : /\ pc[c] \in {"recvLock", "tryRecvLock", "tryRecvAllLock"}
                   /\ pc'[c] = "idle" /\ tgt[c] = rx}

(* One more value on top of what a slot holds, under the merge m. *)
Joined(m, prev, v) == CASE prev = Absent -> v
                        [] prev # Absent /\ m[prev, v] = Drop -> Absent
                        [] OTHER -> m[prev, v]

(* One value for all of s, merged in the order they were sent, or Absent    *)
(* when they cancel out.                                                    *)
Coalesced(m, s) ==
  LET first[n \in 0..Len(s)] ==
        IF n = 0 THEN Absent ELSE Joined(m, first[n - 1], s[n])
  IN  first[Len(s)]

(* The events that leave rx: returned by a read, or taken by its feeder.    *)
Leaving(rx) ==
  (UNION {Range(ret'[c].evs) : c \in ReadersOf(rx)})
    \cup {ev \in {hand'[rx]} \ {None} : hand[rx] = None}

Entered(rx, k) ==
  LET S == {c \in Senders(rx) : msg[c].key = k}
  IN  IF S = {} THEN ledger[rx][k]
      ELSE Append(ledger[rx][k], msg[CHOOSE c \in S : TRUE].val)

Audited(rx) ==
  [k \in Keys |->
     IF (\E ev \in Leaving(rx) : ev.key = k)
          \/ Coalesced(PolicyOf(rx), Entered(rx, k)) = Absent
     THEN <<>> ELSE Entered(rx, k)]

(* A send begins. *)
Begins == \E c \in Clients : pc[c] = "idle" /\ pc'[c] \in {"sendLock", "sendCtx"}
Unread(rx) == FoldFunction(LAMBDA s, n : Len(s) + n, 0, ledger[rx])
Full == \E rx \in Receivers : Unread(rx) >= MaxUnread

AuditInit == Init /\ ledger = [rx \in Receivers |-> [k \in Keys |-> <<>>]]

AuditNext == /\ Next
             /\ Begins => ~Full
             /\ ledger' = [rx \in Receivers |-> Audited(rx)]

AuditSpec == AuditInit /\ [][AuditNext]_auditVars

-----------------------------------------------------------------------------
(* Every send is accounted for, once: an event that leaves a receiver, by   *)
(* any read or through its channel, stands for exactly the sends of its key *)
(* since the last one left or cancelled out, and what stays pending stands  *)
(* for those not yet read.  None is lost between a read, the feeder's hand, *)
(* a refused or a panicking send and a close, and none counts twice.        *)
EachSendAccounted ==
  [][\A rx \in Receivers :
       /\ \A ev \in Leaving(rx) :
            ev.val = Coalesced(PolicyOf(rx), ledger[rx][ev.key])
       /\ \A k \in Keys :
            q'[rx].pending[k] = Coalesced(PolicyOf(rx), ledger'[rx][k])
    ]_auditVars
=============================================================================
