---------------------------- MODULE MCAgentTurn ----------------------------
(* Small instances of AgentTurn for TLC. *)
EXTENDS AgentTurn

EnterIsFree == [t \in Tools |-> IF t = "enter" THEN "allow" ELSE "ask"]
TwoCalls == 1..2
=============================================================================
