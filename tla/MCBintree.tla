----------------------------- MODULE MCBintree -----------------------------
(* Keys on one another's paths (1 before 3 and 5), one on a branch of its own, and one
   above MAX_KEY. *)
EXTENDS Bintree

PathKeys == {1, 2, 3, 5, MaxKey + 1}
=============================================================================
