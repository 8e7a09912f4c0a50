--------------------------- MODULE MCCreditLedger ---------------------------
(* Small instances of CreditLedger for TLC.                                 *)
EXTENDS CreditLedger, TLC

CONSTANTS a1, a2

Use(a, n)    == [op |-> "use", app |-> a, amount |-> n]
Refund(a, n) == [op |-> "refund", app |-> a, amount |-> n]
Read(a)      == [op |-> "read", app |-> a, amount |-> 0]

(* Three credits, bought for one of two applications.                       *)
Three == [a \in Apps |-> IF a = a1 THEN 3 ELSE 0]

AllJobs == { Use(a1, 1), Use(a1, 3), Use(a2, 2),
             Refund(a1, 1), Refund(a2, 2), Read(a1), Read(a2) }

Symmetry == Permutations(Calls)
============================================================================
