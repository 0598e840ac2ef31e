------------------------------- MODULE MCOutbox -------------------------------
(* Outbox on small sets of entries and slots. *)
EXTENDS Outbox
=============================================================================
