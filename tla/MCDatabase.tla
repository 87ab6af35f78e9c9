----------------------------- MODULE MCDatabase -----------------------------
(* The three threads and all of their jobs, again and again. *)
EXTENDS Database
=============================================================================
