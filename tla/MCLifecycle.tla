---------------------------- MODULE MCLifecycle -----------------------------
(* The server in the foreground and as a daemon, all five threads. *)
EXTENDS Lifecycle
=============================================================================
