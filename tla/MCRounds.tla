------------------------------- MODULE MCRounds -------------------------------
(***************************************************************************)
(* The rounds of the hop count flood on the topologies of MCNetwork.       *)
(***************************************************************************)
EXTENDS MCNetwork, Rounds
=============================================================================
