----------------------------- MODULE MCMcpBatch -----------------------------
(***************************************************************************)
(* McpBatch for TLC: four addresses, one of them twice in the list, two    *)
(* permits, three attempts, and a window of two checks: two addresses are  *)
(* checked and the others run into the limit.  Two answers block, one      *)
(* allows and one is a challenge.                                          *)
(***************************************************************************)
EXTENDS McpBatch, TLC

CONSTANTS a1, a2, a3, a4

MCAddress == {a1, a2, a3, a4}
MCLists   == {<<a2, a1, a2, a3, a4>>, <<a4, a4>>}

MCDecisionOn == (a1 :> "block" @@ a2 :> "block" @@ a3 :> "allow" @@ a4 :> "challenge")
=============================================================================
