---------------------------- MODULE MCTcpServer ----------------------------
(* Small instances of TcpServer for TLC. *)
EXTENDS ServerInvariants, TLC

Symmetry == Permutations(Workers) \cup Permutations(Clients) \cup Permutations(Ids)
=============================================================================
