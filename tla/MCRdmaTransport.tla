-------------------------- MODULE MCRdmaTransport --------------------------
(* Instances of RdmaTransport for TLC. *)
EXTENDS RdmaTransport
=============================================================================
