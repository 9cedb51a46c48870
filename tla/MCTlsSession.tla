---------------------------- MODULE MCTlsSession ----------------------------
(* Small instances of TlsSession for TLC. *)
EXTENDS TlsSession, TLC
=============================================================================
