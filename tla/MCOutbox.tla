------------------------------ MODULE MCOutbox ------------------------------
(***************************************************************************)
(* Three events, one of them undecodable, drained by cmd/api and           *)
(* cmd/worker.                                                             *)
(***************************************************************************)
EXTENDS Outbox
=============================================================================
