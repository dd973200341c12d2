----------------------------- MODULE MCScheduler -----------------------------
(* Two producers, a subscriber that joins at any time, and main. *)
EXTENDS MCWatch, Scheduler

Changes == Keys \X (1..MaxSeq)
States == 0..MaxSeq

SchedMay == Roles({"Send"}, {"CloseSender", "CloseHub"},
                  {"Watch", "Recv", "Chan", "CloseReceiver"}, {"Send"})
=============================================================================
