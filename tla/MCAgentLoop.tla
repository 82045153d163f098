---------------------------- MODULE MCAgentLoop ----------------------------
(* Instances of AgentLoop for TLC.                                         *)
EXTENDS AgentLoop

ThreeThenTwo == <<3, 2>>
Three        == <<3>>
=============================================================================
