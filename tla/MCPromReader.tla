---------------------------- MODULE MCPromReader ----------------------------
(* Two PromQL expressions registered under up to two ids.                *)
EXTENDS PromReader

CONSTANTS e1, e2

MCExprs == {e1, e2}
=============================================================================
