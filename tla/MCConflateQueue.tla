--------------------------- MODULE MCConflateQueue ---------------------------
(* An instance of ConflateBacklog with the merge of the chan example. *)
EXTENDS ConflateBacklog

CONSTANTS Added, Deleted

(* A create and a delete cancel out; otherwise the last value. *)
CreateDeleteMerge ==
  [p \in Values \X Values |-> IF p = <<Added, Deleted>> THEN Drop ELSE p[2]]

KeySymmetry == Permutations(Keys)
=============================================================================
