------------------------------- MODULE MCWatch -------------------------------
(***************************************************************************)
(* Small instances of Watch.  Values are sequence numbers, and Accept is   *)
(* the one the package is made for: it takes a greater number.             *)
(***************************************************************************)
EXTENDS Watch

CONSTANTS sender, admin, reader, other

Newer == [p \in Values \X Values |-> IF p[2] > p[1] THEN "take" ELSE "reject"]

(* The same, panicking on a value it has seen. *)
NewerStrict == [p \in Values \X Values |-> CASE p[2] > p[1] -> "take"
                                             [] p[2] = p[1] -> "panic"
                                             [] p[2] < p[1] -> "reject"]
Latest == [p \in Values \X Values |-> "take"]

Everything == Keys \X Values

(* Each key has values of its own, so that a pair nobody sent shows. *)
Tagged == LET k1 == CHOOSE k \in Keys : TRUE IN
          {<<k, v>> \in Everything : (k = k1) = (v = 1)}

(* Who may call what. *)
Roles(send, adm, read, oth) ==
  [c \in Clients |-> CASE c = sender -> send [] c = admin -> adm
                       [] c = reader -> read [] c = other -> oth]

HubMay == Roles({"Send", "CloseSender"},
                {"Watch", "WatchAcross", "CloseReceiver", "CloseHub"},
                {"TryRecv", "Peek"}, {})
ReadersMay == Roles({"Send", "SendContext", "CloseSender"},
                    {"Watch", "Chan", "CloseReceiver", "CloseHub"},
                    {"RecvContext", "Recv"}, {"RecvContext", "TryRecv"})
ChanMay == Roles({"Send", "CloseSender"},
                 {"Watch", "Chan", "CloseReceiver", "CloseHub"},
                 {"RecvContext", "Peek"}, {})
MixedMay == Roles({"Send"}, {"Watch", "Chan"}, {"TryRecv"}, {})
PeekMay == Roles({"Send"}, {"Watch", "Chan"}, {"Peek"}, {})

ReceiverSymmetry == Permutations(Receivers)
=============================================================================
