----------------------------- MODULE MCConfirmation ----------------------------
(* ConfirmationBroker on a few requests. *)
EXTENDS ConfirmationBroker
=============================================================================
