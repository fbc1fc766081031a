------------------------------ MODULE MCBroker ------------------------------
(* Small instances of the server backends, for TLC. *)
EXTENDS Broker
=============================================================================
