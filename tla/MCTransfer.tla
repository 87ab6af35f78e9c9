----------------------------- MODULE MCTransfer -----------------------------
(* Messages of a type and fields of two and three bytes. *)
EXTENDS Transfer

ShortLong == <<2, 3>>
=============================================================================
