------------------------------ MODULE MCTSem ------------------------------
(* Three threads and the operations the server passes: take, post, wait-for-zero. *)
EXTENDS TSem

TakePostZero == {-1, 0, 1}
=============================================================================
