----------------------------- MODULE MCProcess -----------------------------
(* The instances of Process.tla, and of Shutdown.tla in it, for TLC. *)
EXTENDS Process
=============================================================================
