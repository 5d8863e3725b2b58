-------------------------- MODULE MCRealtimeOutbox --------------------------
(* Model-checking instance of RealtimeOutbox. *)
EXTENDS RealtimeOutbox
=============================================================================
