------------------------------- MODULE MCAgentTurn -------------------------------
(***************************************************************************)
(* AgentTurn for TLC: turns and signatures are interchangeable.            *)
(***************************************************************************)
EXTENDS AgentTurn, TLC

TurnSymmetry == Permutations(Turns) \cup Permutations(Sigs)

==================================================================================
