---------------------------- MODULE AgentSession ----------------------------
(***************************************************************************)
(* The agent's session pipeline: the graph of packages/agent-core, the     *)
(* session and approval rows it writes, the approval lock in Redis, the    *)
(* audit trail, and the approve and reject requests of the approvals API   *)
(* that resume a suspended graph.                                          *)
(*                                                                         *)
(* Every await of the code is a step of its own.  An invocation is a graph *)
(* run (an element of Runs) or an API request on an approval (an element   *)
(* of Requests); at[p] says which node it is in and which call it is about *)
(* to make.  Calls return, or throw (Throw), and the process may die       *)
(* between two calls (Crash).                                              *)
(*                                                                         *)
(* A run creates at most one session and at most one approval, so both     *)
(* rows are named after the run that creates them.  Reads whose value only *)
(* decides whether the node throws (getSessionById, the memories, the      *)
(* prompt layers) are part of the write that follows them.                 *)
(***************************************************************************)
EXTENDS AgentTables, Naturals

CONSTANTS
  Runs,       \* invocations of AgentRunner.run / buildGraph
  Requests,   \* POST /approvals/:id/approve and /reject
  Asks,       \* what a run may be asked: [user, action, userType]
  NoAsk,      \* the ask of a run that has not started
  NoRequest,  \* the content of a request that has not arrived
  MaxFaults   \* bound: calls that throw and processes that die

ASSUME RunsAssumption == Runs \cap Requests = {}
ASSUME AsksAssumption ==
  /\ \A a \in Asks : a.userType \in UserTypes
  /\ NoAsk \notin Asks
ASSUME RequestAssumption ==
  NoRequest \notin [kind : {"approve", "reject"}, run : Runs]
ASSUME FaultsAssumption == MaxFaults \in Nat

VARIABLES
  session,    \* agent_sessions.state of the run's session, "none" before it
  been,       \* the states the run's session has been in (history)
  approval,   \* pending_approvals.status of the run's approval, "none" before
  expired,    \* runs whose approval was requested more than 48 hours ago
  locks,      \* runs whose session holds the key lock:<sessionId> in Redis
  trail,      \* the run's state_transition audit events, <<from, to>>
  performed,  \* invocations whose execute node did the action
  ask,        \* what each run was asked
  req,        \* what each request asks for
  at,         \* where each invocation is: [node, call]
  faults      \* calls that threw and processes that died so far

rows == << session, been, approval, expired, locks, trail, performed >>
vars == << session, been, approval, expired, locks, trail, performed,
           ask, req, at, faults >>

----------------------------------------------------------------------------

Procs == Runs \cup Requests

Kinds == { "approve", "reject" }

Nodes == { "idle", "receive", "loadContext", "compilePrompt", "callLlm",
           "decideAction", "awaitApproval", "execute", "approvals" }

(* The calls that may throw.                                                *)
Awaits == { "create", "update", "audit", "lock", "insert", "release",
            "unwind", "suspend", "resolve", "read" }

(* The invocation is over: it returned, or its process died.                *)
Over == { "end", "dead" }

Calls == Awaits \cup Over \cup { "idle", "mark" }

At(node, call) == [node |-> node, call |-> call]

InFlight(p) == at[p].call \notin Over \cup {"idle"}

(* The run whose session the invocation works on.                           *)
Subject(p) == IF p \in Runs THEN p ELSE req[p].run

Decision(r) == EvaluateAdm(ask[r].action, ask[r].userType)

NeedsApproval(r) == ask[r] # NoAsk /\ RequiresApproval(Decision(r))

IsActive(r) == session[r] \notin TerminalStates \cup {"none"}

----------------------------------------------------------------------------

(* The state a node leaves, and the state it writes.                        *)
From(node) ==
  CASE node = "receive"       -> "RECEIVED"
    [] node = "loadContext"   -> "CONTEXT_LOADED"
    [] node = "compilePrompt" -> "PROMPT_COMPILED"
    [] node = "callLlm"       -> "LLM_CALLED"
    [] node = "decideAction"  -> "ACTION_DECIDED"
    [] node = "awaitApproval" -> "AWAITING_APPROVAL"
    [] node = "execute"       -> "EXECUTING"

(* Mutant: compilePrompt records the state that callLlm is to record.       *)
ToSkipping(node, r) ==
  CASE node = "receive"       -> "CONTEXT_LOADED"
    [] node = "loadContext"   -> "PROMPT_COMPILED"
    [] node \in { "compilePrompt", "callLlm" } -> "ACTION_DECIDED"
    [] node = "decideAction"  -> IF NeedsApproval(r) THEN "AWAITING_APPROVAL"
                                                     ELSE "EXECUTING"
    [] node = "awaitApproval" -> "EXECUTING"
    [] node = "execute"       -> "COMPLETED"

To(node, r) ==
  CASE node = "receive"       -> "CONTEXT_LOADED"
    [] node = "loadContext"   -> "PROMPT_COMPILED"
    [] node = "compilePrompt" -> "LLM_CALLED"
    [] node = "callLlm"       -> "ACTION_DECIDED"
    [] node = "decideAction"  -> IF NeedsApproval(r) THEN "AWAITING_APPROVAL"
                                                     ELSE "EXECUTING"
    [] node = "awaitApproval" -> "EXECUTING"
    [] node = "execute"       -> "COMPLETED"

(* Mutant: decideAction has a plain edge to execute, like its neighbours.   *)
NextNodeUngated(node, r) ==
  CASE node = "receive"       -> At("loadContext", "update")
    [] node = "loadContext"   -> At("compilePrompt", "update")
    [] node = "compilePrompt" -> At("callLlm", "update")
    [] node = "callLlm"       -> At("decideAction", "update")
    [] node = "decideAction"  -> At("execute", "update")
    [] node = "awaitApproval" -> At("execute", "update")
    [] node = "execute"       -> At("execute", "end")

(* Mutant: callLlm has no edge to decideAction, the graph ends there.       *)
NextNodeUndecided(node, r) ==
  CASE node = "receive"       -> At("loadContext", "update")
    [] node = "loadContext"   -> At("compilePrompt", "update")
    [] node = "compilePrompt" -> At("callLlm", "update")
    [] node = "decideAction"  -> IF NeedsApproval(r)
                                   THEN At("awaitApproval", "lock")
                                   ELSE At("execute", "update")
    [] node = "awaitApproval" -> At("execute", "update")
    [] node \in { "callLlm", "execute" } -> At(node, "end")

(* Mutant: the resume graph lacks the edge from awaitApproval to execute.   *)
NextNodeNoResume(node, r) ==
  CASE node = "receive"       -> At("loadContext", "update")
    [] node = "loadContext"   -> At("compilePrompt", "update")
    [] node = "compilePrompt" -> At("callLlm", "update")
    [] node = "callLlm"       -> At("decideAction", "update")
    [] node = "decideAction"  -> IF NeedsApproval(r)
                                   THEN At("awaitApproval", "lock")
                                   ELSE At("execute", "update")
    [] node \in { "awaitApproval", "execute" } -> At(node, "end")

(* The edges of buildGraph and buildResumeGraph out of a node that did not  *)
(* fail.  The complete node changes no state, so execute ends the graph.    *)
NextNode(node, r) ==
  CASE node = "receive"       -> At("loadContext", "update")
    [] node = "loadContext"   -> At("compilePrompt", "update")
    [] node = "compilePrompt" -> At("callLlm", "update")
    [] node = "callLlm"       -> At("decideAction", "update")
    [] node = "decideAction"  -> IF NeedsApproval(r)
                                   THEN At("awaitApproval", "lock")
                                   ELSE At("execute", "update")
    [] node = "awaitApproval" -> At("execute", "update")
    [] node = "execute"       -> At("execute", "end")

(* Where an exception in the call takes the invocation: receive's catch and *)
(* the HTTP layer only report it, the finally of awaitApproval releases the *)
(* lock first, and every other node marks the session FAILED.               *)
Handler(where) ==
  CASE where.node \in {"receive", "approvals"} -> At(where.node, "end")
    [] where.call = "insert"                   -> At(where.node, "unwind")
    [] OTHER                                   -> At(where.node, "mark")

----------------------------------------------------------------------------

Init ==
  /\ session   = [r \in Runs |-> "none"]
  /\ been      = [r \in Runs |-> {}]
  /\ approval  = [r \in Runs |-> "none"]
  /\ expired   = {}
  /\ locks     = {}
  /\ trail     = [r \in Runs |-> {}]
  /\ performed = {}
  /\ ask       = [r \in Runs |-> NoAsk]
  /\ req       = [q \in Requests |-> NoRequest]
  /\ at        = [p \in Procs |-> At("idle", "idle")]
  /\ faults    = 0

Goto(p, where) == at' = [at EXCEPT ![p] = where]

(* A user's message arrives and the receive node looks for an active        *)
(* session of that user: if there is one the run fails on the spot.         *)
Receive(r, a) ==
  /\ at[r] = At("idle", "idle")
  /\ ask' = [ask EXCEPT ![r] = a]
  /\ IF \E s \in Runs : ask[s] # NoAsk /\ ask[s].user = a.user /\ IsActive(s)
       THEN Goto(r, At("receive", "end"))
       ELSE Goto(r, At("receive", "create"))
  /\ UNCHANGED << rows, req, faults >>

CreateSession(r) ==
  /\ at[r] = At("receive", "create")
  /\ session' = [session EXCEPT ![r] = "RECEIVED"]
  /\ been' = [been EXCEPT ![r] = @ \cup {"RECEIVED"}]
  /\ Goto(r, At("receive", "update"))
  /\ UNCHANGED << approval, expired, locks, trail, performed, ask, req, faults >>

(* updateSessionState of any node: an unconditional write.  In the execute  *)
(* node it stands for the action itself, which the node is to dispatch.     *)
UpdateState(p) ==
  /\ at[p].call = "update"
  /\ session' = [session EXCEPT ![Subject(p)] = To(at[p].node, Subject(p))]
  /\ been' = [been EXCEPT ![Subject(p)] = @ \cup {To(at[p].node, Subject(p))}]
  /\ performed' = IF at[p].node = "execute" THEN performed \cup {p} ELSE performed
  /\ Goto(p, At(at[p].node, "audit"))
  /\ UNCHANGED << approval, expired, locks, trail, ask, req, faults >>

(* Mutant: the audit call is not awaited, its failure is not seen.          *)
LogTransitionUnawaited(p) ==
  LET r == Subject(p)
      n == at[p].node IN
  /\ at[p].call = "audit"
  /\ \/ trail' = [trail EXCEPT ![r] = @ \cup {<< From(n), To(n, r) >>}]
     \/ UNCHANGED trail
  /\ Goto(p, NextNode(n, r))
  /\ UNCHANGED << session, been, approval, expired, locks, performed, ask, req, faults >>

(* logStateTransition, and the edge to the next node.                       *)
LogTransition(p) ==
  LET r == Subject(p)
      n == at[p].node IN
  /\ at[p].call = "audit"
  /\ trail' = [trail EXCEPT ![r] = @ \cup {<< From(n), To(n, r) >>}]
  /\ Goto(p, NextNode(n, r))
  /\ UNCHANGED << session, been, approval, expired, locks, performed, ask, req, faults >>

(* awaitApproval, fresh path: SET NX on the session's lock key.  The client *)
(* sends a command again when its reply is lost, and then finds the key     *)
(* taken by its own first attempt.                                          *)
AcquireApprovalLock(r) ==
  /\ at[r].call = "lock"
  /\ locks' = locks \cup {r}
  /\ \E resent \in BOOLEAN :
       /\ resent => faults < MaxFaults
       /\ faults' = IF resent THEN faults + 1 ELSE faults
       /\ Goto(r, At("awaitApproval",
                     IF resent \/ r \in locks THEN "mark" ELSE "insert"))
  /\ UNCHANGED << session, been, approval, expired, trail, performed, ask, req >>

(* Mutant: the lock is kept for its 48 hours once the row is there.         *)
CreatePendingApprovalKeepingLock(r) ==
  /\ at[r].call = "insert"
  /\ approval' = [approval EXCEPT ![r] = "pending"]
  /\ Goto(r, At("awaitApproval", "suspend"))
  /\ UNCHANGED << session, been, expired, locks, trail, performed, ask, req, faults >>

CreatePendingApproval(r) ==
  /\ at[r].call = "insert"
  /\ approval' = [approval EXCEPT ![r] = "pending"]
  /\ Goto(r, At("awaitApproval", "release"))
  /\ UNCHANGED << session, been, expired, locks, trail, performed, ask, req, faults >>

(* The finally block: after an insert that threw, the catch block follows.  *)
ReleaseLock(r) ==
  /\ at[r].call \in {"release", "unwind"}
  /\ locks' = locks \ {r}
  /\ Goto(r, At("awaitApproval",
                IF at[r].call = "release" THEN "suspend" ELSE "mark"))
  /\ UNCHANGED << session, been, approval, expired, trail, performed, ask, req, faults >>

(* The last write of the fresh path: the graph suspends.                    *)
Suspend(r) ==
  /\ at[r].call = "suspend"
  /\ session' = [session EXCEPT ![r] = "AWAITING_APPROVAL"]
  /\ been' = [been EXCEPT ![r] = @ \cup {"AWAITING_APPROVAL"}]
  /\ Goto(r, At("awaitApproval", "end"))
  /\ UNCHANGED << approval, expired, locks, trail, performed, ask, req, faults >>

(* safeMarkFailed: best effort, its own failure is swallowed.  It writes no *)
(* audit event.                                                             *)
MarkFailed(p) ==
  /\ at[p].call = "mark"
  /\ Goto(p, At(at[p].node, "end"))
  /\ \/ /\ session' = [session EXCEPT ![Subject(p)] = "FAILED"]
        /\ been' = [been EXCEPT ![Subject(p)] = @ \cup {"FAILED"}]
        /\ UNCHANGED faults
     \/ /\ faults < MaxFaults
        /\ faults' = faults + 1
        /\ UNCHANGED << session, been >>
  /\ UNCHANGED << approval, expired, locks, trail, performed, ask, req >>

----------------------------------------------------------------------------

(* A request arrives and fetchAndVerify reads the row: 404 when there is    *)
(* none, 403 when it is not pending any more.                               *)
FetchAndVerify(q, k, r) ==
  /\ at[q] = At("idle", "idle")
  /\ req' = [req EXCEPT ![q] = [kind |-> k, run |-> r]]
  /\ Goto(q, At("approvals", IF approval[r] = "pending" THEN "resolve" ELSE "end"))
  /\ UNCHANGED << rows, ask, faults >>

(* Mutant: the graph is resumed without waiting for the row to be resolved. *)
ResolveApprovalUnawaited(q) ==
  /\ at[q].call = "resolve"
  /\ IF req[q].kind = "approve"
       THEN /\ \/ approval' = [approval EXCEPT ![req[q].run] = "approved"]
               \/ UNCHANGED approval
            /\ Goto(q, At("awaitApproval", "read"))
       ELSE /\ approval' = [approval EXCEPT ![req[q].run] = "rejected"]
            /\ Goto(q, At("approvals", "end"))
  /\ UNCHANGED << session, been, expired, locks, trail, performed, ask, req, faults >>

(* resolveApprovalInDb: an unconditional write, in a transaction of its     *)
(* own.  Approving resumes the graph, rejecting does nothing more.          *)
ResolveApproval(q) ==
  /\ at[q].call = "resolve"
  /\ IF req[q].kind = "approve"
       THEN /\ approval' = [approval EXCEPT ![req[q].run] = "approved"]
            /\ Goto(q, At("awaitApproval", "read"))
       ELSE /\ approval' = [approval EXCEPT ![req[q].run] = "rejected"]
            /\ Goto(q, At("approvals", "end"))
  /\ UNCHANGED << session, been, expired, locks, trail, performed, ask, req, faults >>

(* awaitApproval, resume path: what the approval's row says now decides.    *)
ReadApproval(q) ==
  LET r == req[q].run IN
  /\ at[q].call = "read"
  /\ Goto(q, At("awaitApproval",
                CASE approval[r] = "approved" -> "update"
                  [] approval[r] = "pending" /\ r \notin expired -> "end"
                  [] OTHER -> "mark"))
  /\ UNCHANGED << rows, ask, req, faults >>

----------------------------------------------------------------------------

(* Forty-eight hours pass since the request of an approval nobody resolved  *)
(* (the age of a resolved one is never read).                               *)
ExpireApproval(r) ==
  /\ approval[r] = "pending" /\ r \notin expired
  /\ expired' = expired \cup {r}
  /\ UNCHANGED << session, been, approval, locks, trail, performed, ask, req, at, faults >>

(* A lock key that was never released reaches its TTL.                      *)
ExpireLock(r) ==
  /\ r \in locks
  /\ locks' = locks \ {r}
  /\ UNCHANGED << session, been, approval, expired, trail, performed, ask, req, at, faults >>

(* A database, audit or Redis call throws without taking effect.            *)
Throw(p) ==
  /\ at[p].call \in Awaits
  /\ faults < MaxFaults
  /\ faults' = faults + 1
  /\ Goto(p, Handler(at[p]))
  /\ UNCHANGED << rows, ask, req >>

(* The process the invocation runs in dies; nothing resumes it.             *)
Crash(p) ==
  /\ InFlight(p)
  /\ faults < MaxFaults
  /\ faults' = faults + 1
  /\ Goto(p, At(at[p].node, "dead"))
  /\ UNCHANGED << rows, ask, req >>

RunStep(r) ==
  \/ CreateSession(r)
  \/ AcquireApprovalLock(r)
  \/ CreatePendingApproval(r)
  \/ ReleaseLock(r)
  \/ Suspend(r)

RequestStep(q) == ResolveApproval(q) \/ ReadApproval(q)

NodeStep(p) == UpdateState(p) \/ LogTransition(p) \/ MarkFailed(p)

Next ==
  \/ \E r \in Runs :
       \/ \E a \in Asks : Receive(r, a)
       \/ RunStep(r)
       \/ ExpireApproval(r)
       \/ ExpireLock(r)
  \/ \E q \in Requests :
       \/ \E k \in Kinds, r \in Runs : FetchAndVerify(q, k, r)
       \/ RequestStep(q)
  \/ \E p \in Procs : NodeStep(p) \/ Throw(p) \/ Crash(p)

Spec == Init /\ [][Next]_vars

(* An invocation that is waiting for a call to return gets its reply; who   *)
(* sends messages and who resolves approvals is up to people.               *)
FairSpec ==
  /\ Spec
  /\ \A r \in Runs : WF_vars(RunStep(r))
  /\ \A q \in Requests : WF_vars(RequestStep(q))
  /\ \A p \in Procs : WF_vars(NodeStep(p))

----------------------------------------------------------------------------

TypeOK ==
  /\ session \in [Runs -> AgentStates \cup {"none"}]
  /\ been \in [Runs -> SUBSET AgentStates]
  /\ approval \in [Runs -> {"none", "pending", "approved", "rejected"}]
  /\ expired \subseteq Runs
  /\ locks \subseteq Runs
  /\ trail \in [Runs -> SUBSET (AgentStates \X AgentStates)]
  /\ performed \subseteq Procs
  /\ ask \in [Runs -> Asks \cup {NoAsk}]
  /\ req \in [Requests -> [kind : Kinds, run : Runs] \cup {NoRequest}]
  /\ at \in [Procs -> [node : Nodes, call : Calls]]
  /\ faults \in 0..MaxFaults

(* Somebody approved the run's action: a request to approve it found it     *)
(* pending and has resolved it (it is past the approvals service).          *)
Granted(r) ==
  \E q \in Requests :
    /\ req[q] = [kind |-> "approve", run |-> r]
    /\ at[q].node # "approvals"

(* What an approval is for: the action of a run that needs one is done, and *)
(* its session is EXECUTING or COMPLETED, only once somebody has approved   *)
(* it, whatever throws, dies or overtakes.                                  *)
NoApprovalBypass ==
  \A r \in Runs :
    /\ NeedsApproval(r)
    /\ \/ session[r] \in {"EXECUTING", "COMPLETED"}
       \/ \E p \in performed : Subject(p) = r
    => Granted(r)

(* The runs, seen as the actions of the abstract gate.                      *)
Gate == INSTANCE ApprovalGate WITH
  Actions <- Runs,
  gated   <- { r \in Runs : NeedsApproval(r) },
  granted <- { r \in Runs : Granted(r) },
  done    <- { Subject(p) : p \in performed }

(* The pipeline, its locks, rows and requests implement the abstract gate:  *)
(* an action is done after it was granted, an action that was granted or    *)
(* done stays so, and whether it needs an approval is settled beforehand.   *)
ImplementsGate == Gate!GateSpec

(* The first n transitions of every session.                                *)
FirstStep(i) ==
  LET path == << "RECEIVED", "CONTEXT_LOADED", "PROMPT_COMPILED",
                 "LLM_CALLED", "ACTION_DECIDED" >>
  IN << path[i], path[i + 1] >>

FirstSteps(n) == { FirstStep(i) : i \in 1..n }

(* The transitions of a session whose run is past decideAction.             *)
DecidedPath(r) ==
  FirstSteps(4) \cup
    { << "ACTION_DECIDED", IF NeedsApproval(r) THEN "AWAITING_APPROVAL"
                                              ELSE "EXECUTING" >> }

(* The transitions the nodes have made when a session gets to a state, the  *)
(* last one left out.  None is asked for of FAILED, to which only           *)
(* safeMarkFailed takes a session.                                          *)
PathBefore(r, state) ==
  CASE state = "PROMPT_COMPILED"   -> FirstSteps(1)
    [] state = "LLM_CALLED"        -> FirstSteps(2)
    [] state = "ACTION_DECIDED"    -> FirstSteps(3)
    [] state = "AWAITING_APPROVAL" -> FirstSteps(4)
    [] state = "EXECUTING"         ->
         IF NeedsApproval(r) THEN DecidedPath(r) ELSE FirstSteps(4)
    [] state = "COMPLETED"         ->
         DecidedPath(r) \cup
           (IF NeedsApproval(r) THEN { << "AWAITING_APPROVAL", "EXECUTING" >> } ELSE {})
    [] OTHER -> {}

(* For every state a session has ever been in, also when it has failed      *)
(* since, the audit trail has each transition the nodes made on the way     *)
(* there but the last: a node writes its state first and logs it after, and *)
(* the next node does not start without the log.  And the trail invents no  *)
(* state: a session has been in both ends of every transition it lists.     *)
(* The changes to FAILED are in no trail (safeMarkFailed logs nothing), nor *)
(* is the FAILED that a resumed graph overwrites with EXECUTING: the trail  *)
(* says AWAITING_APPROVAL -> EXECUTING then (await-approval.node.ts:29-37). *)
TrailLagsByOne ==
  \A r \in Runs :
    /\ \A state \in been[r] : PathBefore(r, state) \subseteq trail[r]
    /\ trail[r] \subseteq been[r] \X been[r]

(* By the time a graph is resumed its approval has been decided: the paths  *)
(* of awaitApproval for a pending row (among them the 48 hour timeout) and  *)
(* for a missing one are never taken from the approvals API.                *)
ResumeSeesDecision ==
  \A q \in Requests :
    at[q].call = "read" => approval[req[q].run] \in {"approved", "rejected"}

(* Nobody is working on the run's session.                                  *)
AtRest(r) == \A p \in Procs : InFlight(p) => Subject(p) # r

(* When nothing throws or dies, a session nobody works on has ended or      *)
(* waits for an approval that was requested, what can be approved is        *)
(* waiting, and its lock is free.                                           *)
RestingStates ==
  faults = 0 =>
    \A r \in Runs : AtRest(r) =>
      /\ IsActive(r) => session[r] = "AWAITING_APPROVAL" /\ approval[r] # "none"
      /\ approval[r] = "pending" => session[r] = "AWAITING_APPROVAL"
      /\ r \notin locks

(* Until an approval is requested a session moves along VALID_TRANSITIONS   *)
(* or fails; once it is, the session never goes back before                 *)
(* AWAITING_APPROVAL, whoever writes last.                                  *)
LifecycleOrder ==
  [][\A r \in Runs :
       session'[r] # session[r] =>
         \/ session'[r] = "FAILED"
         \/ session[r] = "none" /\ session'[r] = "RECEIVED"
         \/ << session[r], session'[r] >> \in ValidTransitions
         \/ /\ approval[r] # "none"
            /\ session'[r] \in {"AWAITING_APPROVAL", "EXECUTING", "COMPLETED"}
    ]_vars

----------------------------------------------------------------------------

(* A session that was created gets to an end or to a waiting approval, as   *)
(* long as nothing throws or dies.                                          *)
SessionsSettle ==
  \A r \in Runs :
    session[r] = "RECEIVED" ~>
      session[r] \in TerminalStates \cup {"AWAITING_APPROVAL"}

(* Approving ends the session for good, when the run that asked for the     *)
(* approval has itself returned by the time its row is found pending.       *)
ApprovingSettles ==
  \A q \in Requests, r \in Runs :
    ( /\ at[q].call = "resolve"
      /\ req[q] = [kind |-> "approve", run |-> r]
      /\ ~InFlight(r) ) ~> [](session[r] \in TerminalStates)

----------------------------------------------------------------------------
(* What the documents and the code's own assertions say of the pipeline,    *)
(* and the code does not do.                                                *)

(* docs/architecture.md:121: a user's second action waits for the first, so *)
(* a user never has two sessions in progress.  receive looks and then       *)
(* creates, in two transactions.                                            *)
OneActiveSessionPerUser ==
  \A r, s \in Runs :
    r # s /\ IsActive(r) /\ IsActive(s) => ask[r].user # ask[s].user

(* VALID_TRANSITIONS and state-machine.test.ts:23: nothing leaves COMPLETED *)
(* or FAILED.  No write looks at the state it overwrites.                   *)
TerminalStatesFinal ==
  [][\A r \in Runs : session[r] \in TerminalStates => session'[r] = session[r]]_vars

(* docs/architecture.md:119 and the resume path of await-approval.node.ts:  *)
(* a session whose approval is rejected, or not given in 48 hours, fails.   *)
(* Only an approve request runs that path.                                  *)
UnapprovedSessionEnds ==
  \A r \in Runs :
    approval[r] = "rejected" \/ r \in expired ~> session[r] \in TerminalStates
============================================================================
