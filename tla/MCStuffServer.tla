---------------------------- MODULE MCStuffServer ----------------------------
(***************************************************************************)
(* Instances of StuffServer for TLC.                                       *)
(***************************************************************************)
EXTENDS StuffServer, TLC

Connections == Permutations(Conns)
=============================================================================
