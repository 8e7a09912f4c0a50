---------------------------- MODULE ApprovalGate ----------------------------
(***************************************************************************)
(* What the approval flow promises, with no sessions, rows, locks or       *)
(* processes: an action found to need an approval is done only after       *)
(* somebody has granted it; any other action is done freely.  Whether an   *)
(* action needs an approval is settled before it is done.                  *)
(***************************************************************************)
CONSTANT Actions

VARIABLES
  gated,    \* actions that need an approval
  granted,  \* gated actions somebody approved
  done      \* actions that were done

gateVars == << gated, granted, done >>

GateInit == gated = {} /\ granted = {} /\ done = {}

Require(a) ==
  /\ a \notin done
  /\ gated' = gated \cup {a}
  /\ UNCHANGED << granted, done >>

Grant(a) ==
  /\ a \in gated
  /\ granted' = granted \cup {a}
  /\ UNCHANGED << gated, done >>

Perform(a) ==
  /\ a \in gated => a \in granted
  /\ done' = done \cup {a}
  /\ UNCHANGED << gated, granted >>

GateNext == \E a \in Actions : Require(a) \/ Grant(a) \/ Perform(a)

GateSpec == GateInit /\ [][GateNext]_gateVars
============================================================================
