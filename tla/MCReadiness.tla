---------------------------- MODULE MCReadiness ----------------------------
(***************************************************************************)
(* Readiness for TLC: two builds, so that one is published while the other *)
(* is loaded, and one crash or failed build.  The first has addresses and  *)
(* domains, the second domains only.  Two gaps fit into MaxAge, as two     *)
(* intervals and the buffer do.                                            *)
(***************************************************************************)
EXTENDS Readiness

MCFilled == {<<1, 1>>, <<1, 3>>, <<2, 3>>}
=============================================================================
