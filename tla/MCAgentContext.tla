--------------------------- MODULE MCAgentContext ---------------------------
(* Small instances of AgentContext for TLC.                                 *)
EXTENDS AgentContext, TLC

CONSTANTS short, long, rude

(* With the core and the separator, short makes 17 characters, which is one *)
(* more than 4 tokens, long 25, rude 16.                                    *)
MCLength == [l \in Layers |-> CASE l = short -> 5 [] l = long -> 13 [] OTHER -> 4]

Symmetry == Permutations(Runs) \cup Permutations(Replicas)
=============================================================================
