---------------------------- MODULE MCVIPManager ----------------------------
(* Three proxy nodes sharing one virtual IP.                               *)
EXTENDS VIPManager

CONSTANTS n1, n2, n3

MCNodes == {n1, n2, n3}
=============================================================================
