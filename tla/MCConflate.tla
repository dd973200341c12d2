------------------------------ MODULE MCConflate ------------------------------
(***************************************************************************)
(* Small instances of Conflate.  Each configuration gives every client its *)
(* role; the merges and filters are those a program would pass.            *)
(***************************************************************************)
EXTENDS Conflate

CONSTANTS sender, admin, reader, other, added, deleted

(* Merges: gobus' latest, the create/delete merge of the chan example, one  *)
(* that panics on a second delete, and one that does both.                  *)
Named == [latest  |-> [p \in Values \X Values |-> p[2]],
          cancels |-> [p \in Values \X Values |->
                         IF p = <<added, deleted>> THEN Drop ELSE p[2]],
          panics  |-> [p \in Values \X Values |->
                         IF p = <<deleted, deleted>> THEN Panic ELSE p[2]],
          strict  |-> [p \in Values \X Values |->
                         CASE p = <<added, deleted>> -> Drop
                           [] p = <<deleted, deleted>> -> Panic
                           [] OTHER -> p[2]]]
MCMergeOf == [m \in Policies |-> Named[m]]

EveryKey == [k \in Keys |-> "take"]
AnyKey == CHOOSE k \in Keys : TRUE
Picky == [k \in Keys |-> IF k = AnyKey THEN "skip" ELSE "panic"]

NoFilter == {EveryKey}
KeyFilters == {EveryKey, Picky}

(* Who may call what. *)
Roles(send, adm, read, oth) ==
  [c \in Clients |-> CASE c = sender -> send [] c = admin -> adm
                       [] c = reader -> read [] c = other -> oth]

ReadersMay == Roles({"SendContext", "CloseSender"},
                    {"Receiver", "Chan", "CloseReceiver", "CloseHub"},
                    {"RecvContext", "TryRecvAll", "Peek"}, {})
HubMay == Roles({"SendContext", "CloseSender"},
                {"Receiver", "CloseReceiver", "CloseHub"},
                {"TryRecv"}, {})
ChanMay == Roles({"Send", "CloseSender"},
                 {"Receiver", "Chan", "CloseReceiver", "CloseHub"},
                 {"RecvContext"}, {})
PeekMay == Roles({"Send", "CloseSender"},
                 {"Receiver", "Chan", "CloseHub"}, {"Peek"}, {})

KeySymmetry == Permutations(Keys)
ReceiverSymmetry == Permutations(Receivers)
=============================================================================
