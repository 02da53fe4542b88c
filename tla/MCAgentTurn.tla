------------------------------ MODULE MCAgentTurn ------------------------------
(* AgentTurn with the symmetry of its messages, for safety only: no message is *)
(* forced, so that they are interchangeable.                                   *)
EXTENDS AgentTurn, TLC

MessageSymmetry == Permutations(Message)

ASSUME Forced = {}
=============================================================================
