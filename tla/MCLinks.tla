------------------------------ MODULE MCLinks ------------------------------
(* Game servers beside a limit on descriptors. *)
EXTENDS Links
=============================================================================
