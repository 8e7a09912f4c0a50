--------------------------- MODULE MCAgentSession ---------------------------
(* Small instances of AgentSession for TLC.                                 *)
EXTENDS AgentSession, TLC

CONSTANTS u1, u2

(* A question of the chat (AgentRunner.run gives no action type), a write   *)
(* that needs an approval and the one decision that is a draft.             *)
Chat(u)  == [user |-> u, action |-> "", userType |-> "admin"]
Write(u) == [user |-> u, action |-> "source_system_write", userType |-> "admin"]
Draft(u) == [user |-> u, action |-> "okr_create_assign", userType |-> "power"]

TwoUsers == { Chat(u1), Write(u1), Write(u2) }
OneUser  == { Chat(u1), Draft(u1) }

Symmetry == Permutations(Runs) \cup Permutations(Requests)
============================================================================
