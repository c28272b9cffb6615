------------------------------ MODULE MCOutbox ------------------------------
(***************************************************************************)
(* Outbox on small instances.                                              *)
(***************************************************************************)
EXTENDS Outbox
=============================================================================
