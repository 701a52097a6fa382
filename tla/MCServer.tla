------------------------------ MODULE MCServer ------------------------------
(***************************************************************************)
(* MqvpnServer for TLC.  Connections are interchangeable, and so are users.*)
(***************************************************************************)
EXTENDS MqvpnServer, TLC

Symmetry == Permutations(Conns) \cup Permutations(Names)
=============================================================================
