-------------------------- MODULE MCJiraConnector ---------------------------
(* Small instances of JiraConnector for TLC.                                *)
EXTENDS JiraConnector, TLC

CONSTANTS k1, k2, i1, i2

Job(k, a, i) == [key |-> k, action |-> a, issue |-> i]

MCJobs == { Job(k1, "create", i1), Job(k1, "update", i2),
            Job(k2, "update", i2), Job(k2, "unsupported", i1) }

Symmetry == Permutations(Writes) \cup Permutations(Consumers)
============================================================================
