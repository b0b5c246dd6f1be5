---------------------------- MODULE MCListenPump ----------------------------
(* Small instances of ListenPump for TLC. *)
EXTENDS ListenPump

=============================================================================
